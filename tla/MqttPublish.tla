---------------------------- MODULE MqttPublish ----------------------------
(***************************************************************************)
(* The outbound QoS 1/2 exchange of stack/src/mqtt/client.c: threads that  *)
(* call ncl_mqtt_client_publish, the reader thread that completes their    *)
(* pending slots, the connection that drops and comes back under them, and *)
(* a broker.  client->mutex guards the slots and `connected'; the socket   *)
(* has a lock of its own (send_mutex).                                     *)
(***************************************************************************)
EXTENDS Naturals, Sequences, FiniteSets

CONSTANTS
    Calls,      \* one element per call of ncl_mqtt_client_publish
    Qos,        \* the qos argument of each call, 1 or 2
    MaxId,      \* the largest packet identifier: 65535 in the code
    MaxSlots,   \* NCL_MQTT_MAX_PENDING
    MaxDrops,   \* bound on the number of lost connections
    NoCall,     \* "no thread holds the mutex across actions"
    Recursive   \* may a thread lock client->mutex twice?  A Windows
                \* CRITICAL_SECTION may; a default pthread mutex may not

ASSUME PublishAssumption ==
    /\ Qos \in [Calls -> {1, 2}]
    /\ MaxId \in Nat \ {0}
    /\ MaxSlots \in Nat \ {0}
    /\ MaxDrops \in Nat
    /\ NoCall \notin Calls
    /\ Recursive \in BOOLEAN

VARIABLES
    sock,            \* client->sock: "none", "raw" (opened), "open" (CONNECT sent)
    connected,       \* client->connected
    next_packet_id,
    pending,         \* client->pending[]
    pc,              \* where each publishing thread stands
    id, slot,        \* its packet_id and its slot
    result,          \* what the call returned
    owner,           \* the thread blocked for ever while it holds the mutex
    toBroker,        \* bytes in flight on the socket, oldest first
    toClient,
    accepted,        \* the broker has answered CONNECT on this connection
    taken,           \* the calls whose message the broker took over
    drops

link    == <<sock, connected, accepted, drops>>
calls   == <<pc, id, slot, result>>
channel == <<toBroker, toClient>>
vars    == <<link, next_packet_id, pending, calls, owner, channel, taken>>

-----------------------------------------------------------------------------
Slots   == 1..MaxSlots
Ids     == 1..MaxId
Results == {"none", "OK", "TIMEOUT", "CLOSED", "IO", "STATE"}
\* waiting: blocked on the condition; woken / expired: that wait has returned.
Places  == {"start", "acquire", "send", "wait", "waiting", "woken", "expired",
            "release", "stuck", "returned"}

FreeSlot  == [in_use |-> FALSE, packet_id |-> 0, completed |-> FALSE, refused |-> FALSE]
InUse     == {s \in Slots : pending[s].in_use}
MutexFree == owner = NoCall

Packet(kind, i) == [kind |-> kind, id |-> i, call |-> NoCall, ok |-> TRUE]

Init ==
    /\ sock = "open" /\ connected = TRUE /\ accepted = TRUE /\ drops = 0
    /\ next_packet_id \in 0..MaxId
    /\ pending = [s \in Slots |-> FreeSlot]
    /\ pc = [c \in Calls |-> "start"]
    /\ id = [c \in Calls |-> 0]
    /\ slot = [c \in Calls |-> 0]
    /\ result = [c \in Calls |-> "none"]
    /\ owner = NoCall
    /\ toBroker = <<>> /\ toClient = <<>>
    /\ taken = {}

-----------------------------------------------------------------------------
(* ncl_mqtt_client_publish                                                 *)

Goto(c, place) == pc' = [pc EXCEPT ![c] = place]

Return(c, rc) ==
    /\ Goto(c, "returned")
    /\ result' = [result EXCEPT ![c] = rc]

\* ncl_mqtt_client_next_id: the counter skips 0 when it wraps.
NextId == (next_packet_id % MaxId) + 1

\* is_connected, then a packet identifier.
Begin(c) ==
    /\ MutexFree
    /\ pc[c] = "start"
    /\ \/ /\ ~connected
          /\ Return(c, "CLOSED")
          /\ UNCHANGED <<next_packet_id, id>>
       \/ /\ connected
          /\ next_packet_id' = NextId
          /\ id' = [id EXCEPT ![c] = next_packet_id']
          /\ Goto(c, "acquire")
          /\ UNCHANGED result
    /\ UNCHANGED <<link, pending, slot, owner, channel, taken>>

\* ncl_mqtt_pending_acquire: the first free slot.
FirstFree(s) == s \notin InUse /\ \A r \in Slots : r < s => r \in InUse

Taken(i) == [in_use |-> TRUE, packet_id |-> i, completed |-> FALSE, refused |-> FALSE]

Acquire(c) ==
    /\ MutexFree
    /\ pc[c] = "acquire"
    /\ \/ /\ InUse = Slots
          /\ Return(c, "STATE")
          /\ UNCHANGED <<pending, slot>>
       \/ \E s \in Slots :
            /\ FirstFree(s)
            /\ pending' = [pending EXCEPT ![s] = Taken(id[c])]
            /\ slot' = [slot EXCEPT ![c] = s]
            /\ Goto(c, "send")
            /\ UNCHANGED result
    /\ UNCHANGED <<link, next_packet_id, id, owner, channel, taken>>

Free(s) == pending' = [pending EXCEPT ![s].in_use = FALSE]

\* Mistake: the slot of a message that was not sent is kept.
SendLeaky(c) ==
    /\ pc[c] = "send"
    /\ \/ /\ sock # "none"
          /\ toBroker' = Append(toBroker, [kind |-> "PUBLISH", id |-> id[c],
                                           call |-> c, ok |-> TRUE])
          /\ Goto(c, "wait")
          /\ UNCHANGED result
       \/ /\ sock = "none"
          /\ Return(c, "CLOSED")
          /\ UNCHANGED toBroker
    /\ UNCHANGED <<link, next_packet_id, pending, id, slot, owner, toClient, taken>>

\* ncl_mqtt_client_send; on failure the slot is released.
Send(c) ==
    /\ pc[c] = "send"
    /\ \/ /\ sock # "none"
          /\ toBroker' = Append(toBroker, [kind |-> "PUBLISH", id |-> id[c],
                                           call |-> c, ok |-> TRUE])
          /\ Goto(c, "wait")
          /\ UNCHANGED <<pending, result>>
       \/ /\ sock = "none"
          /\ MutexFree
          /\ Free(slot[c])
          /\ Return(c, "CLOSED")
          /\ UNCHANGED toBroker
    /\ UNCHANGED <<link, next_packet_id, id, slot, owner, toClient, taken>>

(* One evaluation of the wait loop, with the mutex held.  On the way out   *)
(* every result but success calls ncl_mqtt_client_set_error, which takes   *)
(* the mutex again.                                                        *)
Outcome(c) ==
    IF ~pending[slot[c]].completed
    THEN IF connected THEN "TIMEOUT" ELSE "CLOSED"
    ELSE IF pending[slot[c]].refused THEN "IO" ELSE "OK"

\* Mistake: the result of the timed wait is not looked at.
LeavesWaitUntimed(c) ==
    \/ pending[slot[c]].completed
    \/ ~connected

LeavesWait(c) ==
    \/ pending[slot[c]].completed
    \/ ~connected
    \/ pc[c] = "expired"

Wait(c) ==
    /\ MutexFree
    /\ pc[c] \in {"wait", "woken", "expired"}
    /\ \/ /\ ~LeavesWait(c)
          /\ Goto(c, "waiting")
          /\ UNCHANGED <<result, owner>>
       \/ /\ LeavesWait(c)
          /\ Recursive \/ Outcome(c) = "OK"
          /\ result' = [result EXCEPT ![c] = Outcome(c)]
          /\ Goto(c, "release")
          /\ UNCHANGED owner
       \/ /\ LeavesWait(c)
          /\ ~Recursive /\ Outcome(c) # "OK"
          /\ owner' = c
          /\ Goto(c, "stuck")
          /\ UNCHANGED result
    /\ UNCHANGED <<link, next_packet_id, pending, id, slot, channel, taken>>

\* timeout_ms elapses while the caller is blocked or about to look again.
Deadline(c) ==
    /\ pc[c] \in {"waiting", "woken"}
    /\ Goto(c, "expired")
    /\ UNCHANGED <<link, next_packet_id, pending, id, slot, result, owner, channel, taken>>

\* ncl_mqtt_pending_release
Release(c) ==
    /\ MutexFree
    /\ pc[c] = "release"
    /\ Free(slot[c])
    /\ Goto(c, "returned")
    /\ UNCHANGED <<link, next_packet_id, id, slot, result, owner, channel, taken>>

-----------------------------------------------------------------------------
(* The reader thread                                                       *)

\* ncl_cond_broadcast(client->cond)
Broadcast == pc' = [c \in Calls |-> IF pc[c] = "waiting" THEN "woken" ELSE pc[c]]

\* ncl_mqtt_pending_find: the first slot in use that carries the identifier.
Found(i) == {s \in InUse : /\ pending[s].packet_id = i
                           /\ \A r \in InUse : pending[r].packet_id = i => s <= r}

Complete(i, ok) ==
    /\ pending' = [s \in Slots |-> IF s \in Found(i)
                                   THEN [pending[s] EXCEPT !.completed = TRUE, !.refused = ~ok]
                                   ELSE pending[s]]
    /\ Broadcast

Receive(kinds) ==
    /\ connected /\ sock = "open"
    /\ toClient # <<>>
    /\ Head(toClient).kind \in kinds
    /\ toClient' = Tail(toClient)

\* handle_puback_or_comp, and handle_pubrec when the broker refused.
ReadAck ==
    /\ MutexFree
    /\ Receive({"PUBACK", "PUBCOMP", "PUBREC"})
    /\ Head(toClient).kind = "PUBREC" => ~Head(toClient).ok
    /\ Complete(Head(toClient).id, Head(toClient).ok)
    /\ UNCHANGED <<link, next_packet_id, id, slot, result, owner, toBroker, taken>>

\* handle_pubrec otherwise: answer PUBREL, whatever has become of the slot.
ReadPubrec ==
    /\ MutexFree
    /\ Receive({"PUBREC"})
    /\ Head(toClient).ok
    /\ toBroker' = Append(toBroker, Packet("PUBREL", Head(toClient).id))
    /\ UNCHANGED <<link, next_packet_id, pending, calls, owner, taken>>

\* The peer closes, or the reader gives up: the socket is detached first.
LoseLink ==
    /\ sock # "none"
    /\ drops < MaxDrops
    /\ sock' = "none"
    /\ accepted' = FALSE
    /\ drops' = drops + 1
    /\ toBroker' = <<>> /\ toClient' = <<>>
    /\ UNCHANGED <<connected, next_packet_id, pending, calls, owner, taken>>

\* Mistake: nobody is told.
MarkDisconnectedQuietly ==
    /\ MutexFree
    /\ sock = "none" /\ connected
    /\ connected' = FALSE
    /\ UNCHANGED <<sock, accepted, drops, next_packet_id, pending, calls, owner, channel, taken>>

\* ncl_mqtt_client_mark_disconnected
MarkDisconnected ==
    /\ MutexFree
    /\ sock = "none" /\ connected
    /\ connected' = FALSE
    /\ Broadcast
    /\ UNCHANGED <<sock, accepted, drops, next_packet_id, pending, id, slot, result,
                   owner, channel, taken>>

\* ncl_mqtt_client_open_socket stores the socket before anything is sent on it.
OpenSocket ==
    /\ MutexFree
    /\ sock = "none" /\ ~connected
    /\ sock' = "raw"
    /\ UNCHANGED <<connected, accepted, drops, next_packet_id, pending, calls, owner,
                   channel, taken>>

\* ncl_mqtt_client_handshake: send CONNECT ...
SendConnect ==
    /\ sock = "raw"
    /\ sock' = "open"
    /\ toBroker' = Append(toBroker, Packet("CONNECT", 0))
    /\ UNCHANGED <<connected, accepted, drops, next_packet_id, pending, calls, owner,
                   toClient, taken>>

\* ... and read CONNACK.
ReadConnack ==
    /\ MutexFree
    /\ sock = "open" /\ ~connected
    /\ toClient # <<>> /\ Head(toClient).kind = "CONNACK"
    /\ toClient' = Tail(toClient)
    /\ connected' = TRUE
    /\ Broadcast
    /\ UNCHANGED <<sock, accepted, drops, next_packet_id, pending, id, slot, result,
                   owner, toBroker, taken>>

-----------------------------------------------------------------------------
(* The broker, as the client relies on it.  It acts on one packet at a     *)
(* time, in order, and may refuse a message.                               *)

Reply(p) ==
    /\ toBroker' = Tail(toBroker)
    /\ toClient' = Append(toClient, p)

BrokerConnect ==
    /\ toBroker # <<>> /\ Head(toBroker).kind = "CONNECT"
    /\ ~accepted
    /\ accepted' = TRUE
    /\ Reply(Packet("CONNACK", 0))
    /\ UNCHANGED <<sock, connected, drops, next_packet_id, pending, calls, owner, taken>>

BrokerPublish ==
    /\ toBroker # <<>> /\ Head(toBroker).kind = "PUBLISH"
    /\ accepted
    /\ LET p    == Head(toBroker)
           kind == IF Qos[p.call] = 1 THEN "PUBACK" ELSE "PUBREC"
       IN  \E ok \in BOOLEAN :
             /\ Reply([Packet(kind, p.id) EXCEPT !.ok = ok])
             /\ taken' = IF ok THEN taken \cup {p.call} ELSE taken
    /\ UNCHANGED <<link, next_packet_id, pending, calls, owner>>

BrokerPubrel ==
    /\ toBroker # <<>> /\ Head(toBroker).kind = "PUBREL"
    /\ accepted
    /\ Reply(Packet("PUBCOMP", Head(toBroker).id))
    /\ UNCHANGED <<link, next_packet_id, pending, calls, owner, taken>>

\* Anything before CONNECT is a protocol error: the broker closes.
BrokerClose ==
    /\ toBroker # <<>> /\ Head(toBroker).kind # "CONNECT"
    /\ ~accepted
    /\ sock' = "none"
    /\ toBroker' = <<>> /\ toClient' = <<>>
    /\ UNCHANGED <<connected, accepted, drops, next_packet_id, pending, calls, owner, taken>>

-----------------------------------------------------------------------------
Publisher(c) == Begin(c) \/ Acquire(c) \/ Send(c) \/ Wait(c) \/ Deadline(c) \/ Release(c)
Reader == ReadAck \/ ReadPubrec \/ MarkDisconnected \/ OpenSocket \/ SendConnect \/ ReadConnack
Broker == BrokerConnect \/ BrokerPublish \/ BrokerPubrel \/ BrokerClose

\* Every call has returned and the connection is at rest.
Quiescent ==
    /\ \A c \in Calls : pc[c] = "returned"
    /\ connected /\ toBroker = <<>> /\ toClient = <<>>
    /\ UNCHANGED vars

Next ==
    \/ \E c \in Calls : Publisher(c)
    \/ Reader
    \/ Broker
    \/ LoseLink
    \/ Quiescent

Spec == Init /\ [][Next]_vars

\* The threads of the client run; the broker need not answer.
FairSpec ==
    /\ Spec
    /\ \A c \in Calls : WF_vars(Publisher(c))
    /\ WF_vars(Reader)

-----------------------------------------------------------------------------
(* Properties                                                              *)

Packets == [kind : {"CONNECT", "CONNACK", "PUBLISH", "PUBACK", "PUBREC", "PUBREL", "PUBCOMP"},
            id : 0..MaxId, call : Calls \cup {NoCall}, ok : BOOLEAN]

\* The values every variable may take.
TypeOK ==
    /\ sock \in {"none", "raw", "open"}
    /\ connected \in BOOLEAN /\ accepted \in BOOLEAN
    /\ drops \in 0..MaxDrops
    /\ next_packet_id \in 0..MaxId
    /\ pending \in [Slots -> [in_use : BOOLEAN, packet_id : 0..MaxId,
                              completed : BOOLEAN, refused : BOOLEAN]]
    /\ pc \in [Calls -> Places]
    /\ id \in [Calls -> 0..MaxId]
    /\ slot \in [Calls -> 0..MaxSlots]
    /\ result \in [Calls -> Results]
    /\ owner \in Calls \cup {NoCall}
    /\ toBroker \in Seq(Packets) /\ toClient \in Seq(Packets)
    /\ taken \subseteq Calls

Holding == {c \in Calls : pc[c] \in {"send", "wait", "waiting", "woken", "expired",
                                     "release", "stuck"}}

\* The slots in use are those of the calls in progress, one each, and carry the
\* identifier of their call: no error path leaks a slot, no two calls share one.
SlotsOwned ==
    /\ InUse = {slot[c] : c \in Holding}
    /\ \A c, d \in Holding : slot[c] = slot[d] => c = d
    /\ \A c \in Holding : pending[slot[c]].packet_id = id[c]

\* NCL_OK means the broker took this message over: an acknowledgement that
\* arrives late, for a call that has timed out, completes no other call, not
\* even one that now owns the slot.  (While the identifiers do not wrap.)
OkMeansTaken == \A c \in Calls : result[c] = "OK" => c \in taken

\* Slots and identifiers keep each call's exchange apart from the others', however
\* late an acknowledgement is and however the connection comes and goes.
SlotsSound == TypeOK /\ SlotsOwned /\ OkMeansTaken

\* A caller asleep on the condition has nothing to wake up for: every handler
\* that completes a slot, and every loss of the session, broadcasts.
AckWakesCaller == \A c \in Calls : pc[c] = "waiting" => ~LeavesWait(c)

\* "Next free packet identifier for this client": no two exchanges in progress
\* share an identifier.
IdsDistinct ==
    \A r, s \in InUse : pending[r].packet_id = pending[s].packet_id => r = s

\* "Open the TCP connection, send CONNECT": nothing precedes CONNECT.
ConnectFirst ==
    ~accepted /\ toBroker # <<>> => Head(toBroker).kind = "CONNECT"

\* "the call blocks until the broker acknowledges or timeout_ms elapses".
PublishReturns ==
    \A c \in Calls : pc[c] \notin {"start", "returned"} ~> pc[c] = "returned"
=============================================================================
