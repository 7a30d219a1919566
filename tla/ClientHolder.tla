---------------------------- MODULE ClientHolder ----------------------------
(***************************************************************************)
(* The process-wide client manager, stack/src/client/client_holder.c: one  *)
(* MQTT connection, one client per device serial number, dropped after     *)
(* half an hour without a lookup.  Application threads look clients up,    *)
(* start and shut down; the reader thread of the connection looks one up   *)
(* for every message.  A client is created, subscribed and unsubscribed    *)
(* under holder->mutex, and a subscription waits for an acknowledgement    *)
(* that only the reader can take in.                                       *)
(***************************************************************************)
EXTENDS Naturals, Sequences

CONSTANTS
    Apps,          \* application threads
    Reader,        \* the reader thread of the MQTT client
    Devices,       \* serial numbers
    None,
    Topics,        \* response topics of a client are 1..Topics (seven in the code)
    MaxClients,    \* bound on the clients created
    MaxCalls,      \* bound on the calls of the application
    MaxMessages,   \* bound on the messages
    MaxFaults      \* bound on lost links and late acknowledgements

Threads == Apps \cup {Reader}
Clients == 1..MaxClients

ASSUME HolderAssumption ==
    /\ Reader \notin Apps /\ None \notin Threads /\ None \notin Devices
    /\ Topics \in Nat \ {0} /\ MaxClients \in Nat /\ MaxCalls \in Nat
    /\ MaxMessages \in Nat /\ MaxFaults \in Nat

VARIABLES
    g_holder,    \* g_holder # NULL
    global,      \* the thread in g_holder_mutex
    mutex,       \* the thread in holder->mutex
    slots,       \* the clients of the holder, with their serial numbers
    created,     \* how many clients there have been
    age,         \* of each client: "fresh", "old", or past the idle TTL
    swept,       \* clients freed because they were idle
    complete,    \* clients whose ncl_client_subscribe returned NCL_OK
    remembered,  \* the filters the MQTT client keeps
    connected, link, stopping,   \* the MQTT client, and what its peer does
    wire,        \* what the reader has not read: acknowledgements and messages
    acked,       \* the threads whose SUBACK the reader has taken in
    pc, op, sn, client, topic,   \* of each thread
    calls, messages, faults

holder == <<slots, created, age, swept, complete>>
mqtt   == <<remembered, connected, link, stopping, wire, acked>>
locals == <<op, sn, client, topic>>
bounds == <<calls, messages, faults>>
vars   == <<g_holder, global, mutex, holder, mqtt, pc, locals, bounds>>

Slot == [sn : Devices, client : Clients]
Filter == [sn : Devices, topic : 1..Topics]
Ack(c, k) == [kind |-> "suback", client |-> c, topic |-> k, sn |-> None]
Message(d) == [kind |-> "message", client |-> 0, topic |-> 0, sn |-> d]

Places == {"idle", "global", "lock", "sweep", "unsubscribed", "find", "create", "subscribe",
           "await", "unlock", "using", "closing", "freeing", "disconnect", "join", "gone"}

Init ==
    /\ g_holder = FALSE /\ global = None /\ mutex = None
    /\ slots = {} /\ created = 0 /\ age = [c \in Clients |-> "fresh"]
    /\ swept = {} /\ complete = {}
    /\ remembered = {} /\ connected = FALSE /\ link = FALSE /\ stopping = FALSE
    /\ wire = <<>> /\ acked = {}
    /\ pc = [t \in Threads |-> IF t = Reader THEN "gone" ELSE "idle"]
    /\ op = [t \in Threads |-> "get"]
    /\ sn = [t \in Threads |-> None]
    /\ client = [t \in Threads |-> 0]
    /\ topic = [t \in Threads |-> 1]
    /\ calls = 0 /\ messages = 0 /\ faults = 0

Goto(t, place) == pc' = [pc EXCEPT ![t] = place]

\* The call, or the callback, is over; its local variables go with it.
Return(t) ==
    /\ Goto(t, "idle")
    /\ op' = [op EXCEPT ![t] = "get"] /\ sn' = [sn EXCEPT ![t] = None]
    /\ client' = [client EXCEPT ![t] = 0] /\ topic' = [topic EXCEPT ![t] = 1]

Fault == faults < MaxFaults /\ faults' = faults + 1

-----------------------------------------------------------------------------
(* The calls of the application                                            *)

Call(a) ==
    /\ pc[a] = "idle" /\ calls < MaxCalls
    /\ calls' = calls + 1
    /\ \E o \in {"init", "get", "count", "shutdown"}, d \in Devices :
          /\ op' = [op EXCEPT ![a] = o]
          /\ sn' = [sn EXCEPT ![a] = IF o = "get" THEN d ELSE None]
    /\ Goto(a, "global")
    /\ UNCHANGED <<g_holder, global, mutex, holder, mqtt, client, topic, messages, faults>>

\* ncl_client_holder_init_ex: a new holder, on a connection that was made.
Start(a) ==
    /\ pc[a] = "global" /\ op[a] = "init" /\ global = None
    /\ \/ /\ ~g_holder
          /\ g_holder' = TRUE /\ mutex' = None /\ slots' = {}
          /\ remembered' = {} /\ connected' = TRUE /\ link' = TRUE /\ stopping' = FALSE
          /\ wire' = <<>> /\ acked' = {}
          /\ pc' = [pc EXCEPT ![a] = "idle", ![Reader] = "idle"]
          /\ op' = [op EXCEPT ![a] = "get"]
          /\ UNCHANGED <<sn, client, topic, faults>>
       \/ /\ \/ g_holder /\ UNCHANGED faults
             \/ ~g_holder /\ Fault
          /\ Return(a)
          /\ UNCHANGED <<g_holder, mutex, slots, mqtt>>
    /\ UNCHANGED <<global, created, age, swept, complete, calls, messages>>

\* The head of get, client_count and shutdown.
Enter(a) ==
    /\ pc[a] = "global" /\ op[a] # "init" /\ global = None
    /\ IF g_holder
       THEN /\ global' = a
            /\ g_holder' = (op[a] # "shutdown")
            /\ Goto(a, IF op[a] = "shutdown" THEN "closing" ELSE "lock")
            /\ UNCHANGED locals
       ELSE Return(a) /\ UNCHANGED <<global, g_holder>>
    /\ UNCHANGED <<mutex, holder, mqtt, bounds>>

\* The caller works with what it was given, for less than the idle TTL.
Used(t) ==
    /\ pc[t] = "using"
    /\ Return(t)
    /\ UNCHANGED <<g_holder, global, mutex, holder, mqtt, bounds>>

-----------------------------------------------------------------------------
(* ncl_holder_get_locked                                                   *)

Lock(t) ==
    /\ pc[t] = "lock" /\ mutex = None
    /\ mutex' = t
    /\ Goto(t, "sweep")
    /\ UNCHANGED <<g_holder, global, holder, mqtt, locals, bounds>>

Idle == {s \in slots : age[s.client] = "idle"}

Forget(d) == remembered' = {f \in remembered : f.sn # d}

\* Mistake: an idle client is dropped and its filters stay.
SweepSubscribed(t) ==
    /\ pc[t] = "sweep"
    /\ IF Idle = {} THEN Goto(t, IF sn[t] = None THEN "unlock" ELSE "find") /\ UNCHANGED client
       ELSE \E s \in Idle : client' = [client EXCEPT ![t] = s.client] /\ Goto(t, "unsubscribed")
    /\ UNCHANGED <<g_holder, global, mutex, holder, mqtt, op, sn, topic, bounds>>

\* The filters go first; each UNSUBACK is waited for, and nobody looks at the outcome.
Sweep(t) ==
    /\ pc[t] = "sweep"
    /\ IF Idle = {}
       THEN /\ Goto(t, IF sn[t] = None THEN "unlock" ELSE "find")
            /\ UNCHANGED <<client, remembered>>
       ELSE \E s \in Idle :
               /\ client' = [client EXCEPT ![t] = s.client]
               /\ Forget(s.sn)
               /\ Goto(t, "unsubscribed")
    /\ UNCHANGED <<g_holder, global, mutex, holder, connected, link, stopping, wire, acked,
                   op, sn, topic, bounds>>

Drop(t) ==
    /\ pc[t] = "unsubscribed"
    /\ slots' = {s \in slots : s.client # client[t]}
    /\ swept' = swept \cup {client[t]}
    /\ Goto(t, "sweep")
    /\ UNCHANGED <<g_holder, global, mutex, created, age, complete, mqtt, locals, bounds>>

\* Mistake: a lookup does not set last_access_ms.
FindUntouched(t) ==
    /\ pc[t] = "find"
    /\ \/ \E s \in slots :
             /\ s.sn = sn[t]
             /\ client' = [client EXCEPT ![t] = s.client]
             /\ Goto(t, "unlock")
       \/ (\A s \in slots : s.sn # sn[t]) /\ Goto(t, "create") /\ UNCHANGED client
    /\ UNCHANGED <<g_holder, global, mutex, holder, mqtt, op, sn, topic, bounds>>

Find(t) ==
    /\ pc[t] = "find"
    /\ \/ \E s \in slots :
             /\ s.sn = sn[t]
             /\ age' = [age EXCEPT ![s.client] = "fresh"]
             /\ client' = [client EXCEPT ![t] = s.client]
             /\ Goto(t, "unlock")
       \/ /\ \A s \in slots : s.sn # sn[t]
          /\ Goto(t, "create")
          /\ client' = [client EXCEPT ![t] = 0]
          /\ UNCHANGED age
    /\ UNCHANGED <<g_holder, global, mutex, slots, created, swept, complete, mqtt,
                   op, sn, topic, bounds>>

\* At the bound there is no memory for another client.
Create(t) ==
    /\ pc[t] = "create"
    /\ \/ /\ created < MaxClients
          /\ created' = created + 1
          /\ slots' = slots \cup {[sn |-> sn[t], client |-> created']}
          /\ client' = [client EXCEPT ![t] = created']
          /\ Goto(t, "subscribe")
       \/ created = MaxClients /\ Goto(t, "unlock") /\ UNCHANGED <<slots, created, client>>
    /\ UNCHANGED <<g_holder, global, mutex, age, swept, complete, mqtt, op, sn, topic, bounds>>

\* ncl_client_subscribe, one filter: remembered at once, even while offline.
Subscribe(t) ==
    /\ pc[t] = "subscribe"
    /\ remembered' = remembered \cup {[sn |-> sn[t], topic |-> topic[t]]}
    /\ IF connected
       THEN /\ wire' = IF link THEN Append(wire, Ack(client[t], topic[t])) ELSE wire
            /\ Goto(t, "await")
       ELSE Goto(t, "unlock") /\ UNCHANGED wire
    /\ UNCHANGED <<g_holder, global, mutex, holder, connected, link, stopping, acked,
                   locals, bounds>>

\* The acknowledgement will not be taken in: it is lost, or the reader is the one
\* that waits for it, or waits for the lock that the waiting thread holds.
Unanswered(t) ==
    \/ \A i \in 1..Len(wire) : wire[i] # Ack(client[t], topic[t])
    \/ t = Reader \/ pc[Reader] = "lock"

NextTopic(t) ==
    IF topic[t] < Topics
    THEN topic' = [topic EXCEPT ![t] = @ + 1] /\ Goto(t, "subscribe") /\ UNCHANGED complete
    ELSE complete' = complete \cup {client[t]} /\ Goto(t, "unlock") /\ UNCHANGED topic

\* Mistake: the wait for the acknowledgement has no timeout.
AwaitForever(t) ==
    /\ pc[t] = "await"
    /\ acked' = acked \ {t}
    /\ \/ t \in acked /\ NextTopic(t)
       \/ ~connected /\ Goto(t, "unlock") /\ UNCHANGED <<topic, complete>>
    /\ UNCHANGED <<g_holder, global, mutex, slots, created, age, swept, remembered, connected, link,
                   stopping, wire, op, sn, client, bounds>>

\* Ten seconds; what follows a subscription that failed is not tried, and the
\* client stays as it is.
Await(t) ==
    /\ pc[t] = "await"
    /\ acked' = acked \ {t}
    /\ \/ t \in acked /\ NextTopic(t) /\ UNCHANGED faults
       \/ /\ t \notin acked
          /\ \/ (~connected \/ stopping \/ Unanswered(t)) /\ UNCHANGED faults
             \/ Fault
          /\ Goto(t, "unlock")
          /\ UNCHANGED <<topic, complete>>
    /\ UNCHANGED <<g_holder, global, mutex, slots, created, age, swept, remembered, connected, link,
                   stopping, wire, op, sn, client, calls, messages>>

Unlock(t) ==
    /\ pc[t] = "unlock"
    /\ mutex' = None
    /\ global' = IF t = Reader THEN global ELSE None
    /\ IF sn[t] = None \/ client[t] = 0 THEN Return(t) ELSE Goto(t, "using") /\ UNCHANGED locals
    /\ UNCHANGED <<g_holder, holder, mqtt, bounds>>

-----------------------------------------------------------------------------
(* ncl_client_holder_shutdown                                              *)

Closing(a) ==
    /\ pc[a] = "closing" /\ mutex = None
    /\ mutex' = a
    /\ Goto(a, "freeing")
    /\ UNCHANGED <<g_holder, global, holder, mqtt, locals, bounds>>

Freeing(a) ==
    /\ pc[a] = "freeing"
    /\ \/ /\ slots # {}
          /\ \E s \in slots : slots' = slots \ {s} /\ Forget(s.sn)
          /\ UNCHANGED <<mutex, pc>>
       \/ /\ slots = {}
          /\ mutex' = None
          /\ Goto(a, "disconnect")
          /\ UNCHANGED <<slots, remembered>>
    /\ UNCHANGED <<g_holder, global, created, age, swept, complete,
                   connected, link, stopping, wire, acked, locals, bounds>>

Disconnect(a) ==
    /\ pc[a] = "disconnect"
    /\ stopping' = TRUE /\ connected' = FALSE /\ link' = FALSE /\ wire' = <<>>
    /\ Goto(a, "join")
    /\ UNCHANGED <<g_holder, global, mutex, holder, remembered, acked, locals, bounds>>

Join(a) ==
    /\ pc[a] = "join" /\ pc[Reader] = "gone"
    /\ global' = None
    /\ Return(a)
    /\ UNCHANGED <<g_holder, mutex, holder, mqtt, bounds>>

-----------------------------------------------------------------------------
(* The reader: ncl_holder_on_message, and what the MQTT client does for it *)

Read ==
    /\ pc[Reader] = "idle" /\ wire # <<>>
    /\ wire' = Tail(wire)
    /\ LET packet == Head(wire) IN
          \/ /\ packet.kind = "suback"
             /\ acked' = acked \cup {t \in Threads : /\ pc[t] = "await"
                                                   /\ packet = Ack(client[t], topic[t])}
             /\ UNCHANGED <<pc, sn>>
          \/ /\ packet.kind = "message"
             /\ sn' = [sn EXCEPT ![Reader] = packet.sn]
             /\ Goto(Reader, "lock")
             /\ UNCHANGED acked
    /\ UNCHANGED <<g_holder, global, mutex, holder, remembered, connected, link, stopping,
                   op, client, topic, bounds>>

\* The session ends, and the reader reconnects or leaves.
Session ==
    /\ pc[Reader] = "idle" /\ ~link
    /\ \/ stopping /\ Goto(Reader, "gone") /\ UNCHANGED <<connected, link>>
       \/ ~stopping /\ connected /\ connected' = FALSE /\ UNCHANGED <<pc, link>>
       \/ ~stopping /\ ~connected /\ connected' = TRUE /\ link' = TRUE /\ UNCHANGED pc
    /\ UNCHANGED <<g_holder, global, mutex, holder, remembered, stopping, wire, acked,
                   locals, bounds>>

LinkLoss ==
    /\ link /\ Fault
    /\ link' = FALSE /\ wire' = <<>>
    /\ UNCHANGED <<g_holder, global, mutex, holder, remembered, connected, stopping, acked,
                   pc, locals, calls, messages>>

\* The broker sends what a filter asks for.
Publish(d) ==
    /\ link /\ messages < MaxMessages
    /\ \E f \in remembered : f.sn = d
    /\ messages' = messages + 1
    /\ wire' = Append(wire, Message(d))
    /\ UNCHANGED <<g_holder, global, mutex, holder, remembered, connected, link, stopping, acked,
                   pc, locals, calls, faults>>

\* Time passes.  A caller is done with a client sooner than half an hour after
\* its lookup: a client in use does not leave "fresh".
InUse(c) == \E t \in Threads : pc[t] \in {"subscribe", "await", "unlock", "using"} /\ client[t] = c

Aging ==
    /\ \E s \in slots :
          \/ age[s.client] = "fresh" /\ ~InUse(s.client) /\ age' = [age EXCEPT ![s.client] = "old"]
          \/ age[s.client] = "old" /\ age' = [age EXCEPT ![s.client] = "idle"]
    /\ UNCHANGED <<g_holder, global, mutex, slots, created, swept, complete, mqtt, pc,
                   locals, bounds>>

Work(t) ==
    \/ Lock(t) \/ Sweep(t) \/ Drop(t) \/ Find(t) \/ Create(t)
    \/ Subscribe(t) \/ Await(t) \/ Unlock(t) \/ Used(t)

AppStep(a) ==
    Start(a) \/ Enter(a) \/ Closing(a) \/ Freeing(a) \/ Disconnect(a) \/ Join(a) \/ Work(a)

ReaderStep == Read \/ Session \/ Work(Reader)

Rest ==
    /\ calls = MaxCalls /\ \A a \in Apps : pc[a] = "idle"
    /\ UNCHANGED vars

Next ==
    \/ \E a \in Apps : Call(a) \/ AppStep(a)
    \/ ReaderStep \/ LinkLoss \/ Aging \/ Rest
    \/ \E d \in Devices : Publish(d)

Spec == Init /\ [][Next]_vars

\* A thread that can go on does.  Time need not pass, and nothing need be lost.
FairSpec == Spec /\ WF_vars(ReaderStep) /\ \A a \in Apps : WF_vars(AppStep(a))

-----------------------------------------------------------------------------
(* Properties                                                              *)

TypeOK ==
    /\ g_holder \in BOOLEAN /\ connected \in BOOLEAN /\ link \in BOOLEAN /\ stopping \in BOOLEAN
    /\ global \in Apps \cup {None} /\ mutex \in Threads \cup {None}
    /\ slots \subseteq Slot /\ created \in 0..MaxClients
    /\ age \in [Clients -> {"fresh", "old", "idle"}]
    /\ swept \subseteq Clients /\ complete \subseteq Clients
    /\ remembered \subseteq Filter /\ acked \subseteq Threads
    /\ pc \in [Threads -> Places]
    /\ op \in [Threads -> {"init", "get", "count", "shutdown"}]
    /\ sn \in [Threads -> Devices \cup {None}]
    /\ client \in [Threads -> Clients \cup {0}]
    /\ topic \in [Threads -> 1..Topics]
    /\ calls \in 0..MaxCalls
    /\ messages \in 0..MaxMessages /\ faults \in 0..MaxFaults

\* "keeps one ncl_client per device serial number": lookups of several threads
\* never make two clients for a device, and no slot holds one that was freed.
OneClientPerDevice ==
    /\ \A s1, s2 \in slots : s1.sn = s2.sn \/ s1.client = s2.client => s1 = s2
    /\ \A s \in slots : s.client \notin swept

\* The client that a message is handed to, or that an application has just
\* looked up, is not freed as idle meanwhile (shutdown is another matter).
LookedUpLives ==
    \A t \in Threads : pc[t] = "using" => client[t] \notin swept

\* "an expired client is unsubscribed before it is released": every filter the
\* connection keeps is of a client in the table, and a client whose subscription
\* went through has all of its filters, whatever was swept or made since.
FiltersMatchClients ==
    /\ \A f \in remembered : \E s \in slots : s.sn = f.sn
    /\ \A s \in slots :
          s.client \in complete =>
              \/ \A k \in 1..Topics : [sn |-> s.sn, topic |-> k] \in remembered
              \/ \E t \in Threads : pc[t] = "unsubscribed" /\ client[t] = s.client

\* Table, clients and the filters of the connection go together, whoever looks up,
\* sweeps or shuts down.
ClientsSound == TypeOK /\ OneClientPerDevice /\ FiltersMatchClients

\* The lock and the reader do not wait for each other for ever: each lookup, each
\* message and each shutdown comes to an end.
CallsReturn ==
    /\ \A a \in Apps : pc[a] = "global" ~> pc[a] \in {"using", "idle"}
    /\ pc[Reader] = "lock" ~> pc[Reader] \in {"using", "idle", "gone"}
=============================================================================
