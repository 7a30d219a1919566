------------------------- MODULE MqttClientProofs --------------------------
(***************************************************************************)
(* Theorems about the MQTT client: about MqttPublish, for any calls, slots,*)
(* identifiers and losses, about MqttSession, for any calls, sockets and   *)
(* failures to connect, and about MqttSubscriptions, for any filters, calls*)
(* and lost connections.                                                   *)
(***************************************************************************)
EXTENDS MqttPublish, MqttSession, MqttSubscriptions, SequenceTheorems, FiniteSetTheorems,
        TLAPS

\* Where a call has a slot.
Within == {"send", "wait", "waiting", "woken", "expired", "release", "stuck"}

\* A PUBLISH on its way belongs to a call.
PublishOfCall ==
    \A i \in DOMAIN toBroker : toBroker[i].kind = "PUBLISH" => toBroker[i].call \in Calls

IInv == TypeOK /\ PublishOfCall /\ SlotsOwned /\ AckWakesCaller

-----------------------------------------------------------------------------
(* Slots                                                                   *)

\* The slot of a call in progress is one of the table's.
LEMMA SlotOfHolder ==
    ASSUME SlotsOwned, NEW c \in Holding
    PROVE  slot[c] \in Slots /\ slot[c] \in InUse
  BY DEF SlotsOwned, InUse

\* Steps that move calls only between places of the same sort, and flags only.
LEMMA SlotsStay ==
    ASSUME SlotsOwned, slot' = slot, id' = id,
           \A c \in Calls : pc'[c] \in Within <=> pc[c] \in Within,
           \A s \in Slots : /\ pending'[s].in_use = pending[s].in_use
                            /\ pending'[s].packet_id = pending[s].packet_id
    PROVE  SlotsOwned'
<1>1. Holding' = Holding
  BY DEF Holding, Within
<1>2. InUse' = InUse
  BY DEF InUse
<1> QED BY <1>1, <1>2, SlotOfHolder DEF SlotsOwned

\* A call that ends gives its slot back, and no other.
LEMMA SlotsGivenBack ==
    ASSUME TypeOK, SlotsOwned, NEW c \in Calls, pc[c] \in Within,
           pc' = [pc EXCEPT ![c] = "returned"], slot' = slot, id' = id, Free(slot[c])
    PROVE  SlotsOwned'
<1>1. c \in Holding
  BY DEF Holding, Within
<1>2. slot[c] \in Slots
  BY <1>1, SlotOfHolder
<1>3. Holding' = Holding \ {c}
  BY DEF Holding, TypeOK
<1>4. InUse' = InUse \ {slot[c]}
  BY <1>2 DEF InUse, Free, TypeOK
<1>5. \A d \in Holding \ {c} : slot[d] # slot[c]
  BY <1>1 DEF SlotsOwned
<1>6. InUse' = {slot[d] : d \in Holding \ {c}}
  BY <1>4, <1>5 DEF SlotsOwned
<1>7. \A d \in Holding \ {c} : pending'[slot[d]].packet_id = id[d]
  <2> SUFFICES ASSUME NEW d \in Holding \ {c} PROVE pending'[slot[d]].packet_id = id[d]
    OBVIOUS
  <2>1. slot[d] \in Slots /\ slot[d] # slot[c]
    BY <1>5, SlotOfHolder
  <2>2. pending'[slot[d]] = pending[slot[d]]
    BY <2>1 DEF Free, TypeOK
  <2> QED BY <2>2 DEF SlotsOwned
<1> QED BY <1>3, <1>6, <1>7 DEF SlotsOwned

\* A call that is given a slot is given a free one.
LEMMA SlotTaken ==
    ASSUME TypeOK, SlotsOwned, NEW c \in Calls, pc[c] = "acquire",
           NEW s \in Slots, FirstFree(s), id' = id,
           pending' = [pending EXCEPT ![s] = Taken(id[c])],
           slot' = [slot EXCEPT ![c] = s], pc' = [pc EXCEPT ![c] = "send"]
    PROVE  SlotsOwned'
<1>1. c \notin Holding /\ Holding' = Holding \cup {c}
  BY DEF Holding, TypeOK
<1>2. s \notin InUse /\ InUse' = InUse \cup {s}
  BY DEF FirstFree, InUse, Taken, TypeOK
<1>3. \A d \in Holding : slot'[d] = slot[d] /\ slot[d] # s
  BY <1>1, <1>2, SlotOfHolder DEF TypeOK, Holding
<1>4. slot'[c] = s
  BY DEF TypeOK
<1>5. InUse' = {slot'[d] : d \in Holding'}
  BY <1>1, <1>2, <1>3, <1>4 DEF SlotsOwned
<1>6. \A d, e \in Holding' : slot'[d] = slot'[e] => d = e
  BY <1>1, <1>3, <1>4 DEF SlotsOwned
<1>7. \A d \in Holding' : pending'[slot'[d]].packet_id = id[d]
  <2>1. pending'[s].packet_id = id[c]
    BY DEF Taken, TypeOK
  <2>2. ASSUME NEW d \in Holding PROVE pending'[slot[d]].packet_id = id[d]
    <3>1. pending'[slot[d]] = pending[slot[d]]
      BY <1>3, SlotOfHolder DEF TypeOK
    <3> QED BY <3>1 DEF SlotsOwned
  <2> QED BY <1>1, <1>3, <1>4, <2>1, <2>2
<1> QED BY <1>5, <1>6, <1>7 DEF SlotsOwned

-----------------------------------------------------------------------------
(* Types of packets                                                        *)

\* What is sent and what is read are packets.
LEMMA PacketTypes ==
    ASSUME NEW kind \in {"CONNECT", "CONNACK", "PUBLISH", "PUBACK", "PUBREC", "PUBREL", "PUBCOMP"},
           NEW i \in 0..MaxId
    PROVE  /\ Packet(kind, i) \in Packets /\ Packet(kind, i).kind = kind
           /\ \A ok \in BOOLEAN : [Packet(kind, i) EXCEPT !.ok = ok] \in Packets
  BY DEF Packet, Packets

\* The head of a queue is a packet, its tail a queue.
LEMMA QueueTypes ==
    ASSUME NEW q \in Seq(Packets), q # <<>>
    PROVE  /\ Head(q) \in Packets /\ Head(q).id \in 0..MaxId /\ Head(q).ok \in BOOLEAN
           /\ Tail(q) \in Seq(Packets)
           /\ Head(q) = q[1] /\ 1 \in DOMAIN q
           /\ \A j \in DOMAIN Tail(q) : j + 1 \in DOMAIN q /\ Tail(q)[j] = q[j + 1]
<1>1. Head(q) \in Packets /\ Tail(q) \in Seq(Packets) /\ Head(q) = q[1] /\ 1 \in DOMAIN q
  OBVIOUS
<1>2. \A j \in DOMAIN Tail(q) : j + 1 \in DOMAIN q /\ Tail(q)[j] = q[j + 1]
  OBVIOUS
<1> QED BY <1>1, <1>2 DEF Packets

\* Sending something that is no PUBLISH, or taking the oldest packet away.
LEMMA QueueSteps ==
    ASSUME TypeOK, PublishOfCall, NEW p \in Packets, p.kind = "PUBLISH" => p.call \in Calls
    PROVE  /\ toBroker' = Append(toBroker, p) => PublishOfCall'
           /\ toBroker # <<>> /\ toBroker' = Tail(toBroker) => PublishOfCall'
<1>1. ASSUME toBroker' = Append(toBroker, p) PROVE PublishOfCall'
  <2> SUFFICES ASSUME NEW i \in DOMAIN toBroker', toBroker'[i].kind = "PUBLISH"
               PROVE  toBroker'[i].call \in Calls
    BY DEF PublishOfCall
  <2>1. CASE i \in DOMAIN toBroker
    <3>1. toBroker'[i] = toBroker[i]
      BY <1>1, <2>1 DEF TypeOK
    <3> QED BY <2>1, <3>1 DEF PublishOfCall
  <2>2. CASE i \notin DOMAIN toBroker
    <3>1. toBroker'[i] = p
      BY <1>1, <2>2 DEF TypeOK
    <3> QED BY <3>1
  <2> QED BY <2>1, <2>2
<1>2. ASSUME toBroker # <<>>, toBroker' = Tail(toBroker) PROVE PublishOfCall'
  BY <1>2, QueueTypes DEF PublishOfCall, TypeOK
<1> QED BY <1>1, <1>2

-----------------------------------------------------------------------------
(* The publishing threads                                                  *)

\* A call that moves leaves the others asleep for good reason.
LEMMA OthersAsleep ==
    ASSUME TypeOK, AckWakesCaller, NEW c \in Calls, NEW place, place # "waiting",
           pc' = [pc EXCEPT ![c] = place], connected' = connected,
           \A d \in Calls \ {c} : pc[d] = "waiting" =>
               slot'[d] = slot[d] /\ pending'[slot[d]].completed = pending[slot[d]].completed
    PROVE  AckWakesCaller'
  BY DEF AckWakesCaller, LeavesWait, TypeOK

LEMMA BeginKeeps == ASSUME IInv, NEW c \in Calls, Begin(c) PROVE IInv'
<1> USE DEF IInv
<1>1. CASE ~connected
  <2>1. /\ pc[c] = "start" /\ pc' = [pc EXCEPT ![c] = "returned"]
        /\ result' = [result EXCEPT ![c] = "CLOSED"]
        /\ UNCHANGED <<next_packet_id, id, link, pending, slot, owner, channel, taken>>
    BY <1>1 DEF Begin, Return, Goto
  <2>2. TypeOK'
    BY <2>1 DEF TypeOK, link, channel, Places, Results
  <2>3. PublishOfCall'
    BY <2>1 DEF PublishOfCall, channel
  <2>4. SlotsOwned'
    BY <2>1, SlotsStay DEF TypeOK, Within
  <2>5. AckWakesCaller'
    BY <2>1, OthersAsleep DEF link
  <2> QED BY <2>2, <2>3, <2>4, <2>5
<1>2. CASE connected
  <2>1. /\ pc[c] = "start" /\ pc' = [pc EXCEPT ![c] = "acquire"]
        /\ next_packet_id' = NextId /\ id' = [id EXCEPT ![c] = NextId]
        /\ UNCHANGED <<result, link, pending, slot, owner, channel, taken>>
    BY <1>2 DEF Begin, Return, Goto
  <2>2. NextId \in 0..MaxId
    BY PublishAssumption DEF PublishAssumption, NextId, TypeOK
  <2>3. TypeOK'
    BY <2>1, <2>2 DEF TypeOK, link, channel, Places
  <2>4. PublishOfCall'
    BY <2>1 DEF PublishOfCall, channel
  <2>5. SlotsOwned'
    <3>1. Holding' = Holding /\ c \notin Holding
      BY <2>1 DEF Holding, TypeOK
    <3>2. \A d \in Holding : id'[d] = id[d]
      BY <2>1, <3>1 DEF TypeOK, Holding
    <3>3. InUse' = InUse
      BY <2>1 DEF InUse
    <3> QED BY <2>1, <3>1, <3>2, <3>3 DEF SlotsOwned
  <2>6. AckWakesCaller'
    BY <2>1, OthersAsleep DEF link
  <2> QED BY <2>3, <2>4, <2>5, <2>6
<1> QED BY <1>1, <1>2 DEF TypeOK

LEMMA AcquireKeeps == ASSUME IInv, NEW c \in Calls, Acquire(c) PROVE IInv'
<1> USE DEF IInv
<1>1. /\ pc[c] = "acquire"
      /\ UNCHANGED <<link, next_packet_id, id, owner, channel, taken>>
  BY DEF Acquire
<1>2. CASE Return(c, "STATE") /\ UNCHANGED <<pending, slot>>
  <2>1. TypeOK'
    BY <1>1, <1>2 DEF TypeOK, link, channel, Places, Results, Return, Goto
  <2>2. SlotsOwned'
    BY <1>1, <1>2, SlotsStay DEF TypeOK, Within, Return, Goto
  <2>3. AckWakesCaller'
    BY <1>1, <1>2, OthersAsleep DEF link, Return, Goto
  <2> QED BY <1>1, <2>1, <2>2, <2>3 DEF PublishOfCall, channel
<1>3. ASSUME NEW s \in Slots, FirstFree(s),
             pending' = [pending EXCEPT ![s] = Taken(id[c])],
             slot' = [slot EXCEPT ![c] = s], Goto(c, "send"), UNCHANGED result
      PROVE  IInv'
  <2>1. TypeOK'
    BY <1>1, <1>3 DEF TypeOK, link, channel, Places, Goto, Taken, Slots
  <2>2. SlotsOwned'
    BY <1>1, <1>3, SlotTaken DEF Goto
  <2>3. AckWakesCaller'
    <3>1. \A d \in Calls \ {c} : pc[d] = "waiting" => slot[d] # s
      BY <1>3, SlotOfHolder DEF Holding, FirstFree
    <3>2. \A d \in Calls \ {c} : pc[d] = "waiting" =>
              slot'[d] = slot[d] /\ pending'[slot[d]].completed = pending[slot[d]].completed
      BY <1>3, <3>1 DEF TypeOK
    <3> QED BY <1>1, <1>3, <3>2, OthersAsleep DEF link, Goto
  <2> QED BY <1>1, <2>1, <2>2, <2>3 DEF PublishOfCall, channel
<1> QED BY <1>2, <1>3 DEF Acquire

\* A call that gives its slot back leaves the flags of the others alone.
LEMMA FreeLeavesFlags ==
    ASSUME TypeOK, SlotsOwned, NEW c \in Calls, pc[c] \in Within, Free(slot[c])
    PROVE  /\ pending' \in [Slots -> [in_use : BOOLEAN, packet_id : 0..MaxId,
                                      completed : BOOLEAN, refused : BOOLEAN]]
           /\ \A d \in Calls : pc[d] = "waiting" =>
                  pending'[slot[d]].completed = pending[slot[d]].completed
<1>1. slot[c] \in Slots
  BY SlotOfHolder DEF Holding, Within
<1>2. pending[slot[c]] \in [in_use : BOOLEAN, packet_id : 0..MaxId,
                            completed : BOOLEAN, refused : BOOLEAN]
  BY <1>1 DEF TypeOK
<1>3. \A d \in Calls : pc[d] = "waiting" => slot[d] \in Slots
  BY SlotOfHolder DEF Holding
<1> QED BY <1>1, <1>2, <1>3 DEF Free, TypeOK

LEMMA SendKeeps == ASSUME IInv, NEW c \in Calls, Send(c) PROVE IInv'
<1> USE DEF IInv
<1>1. pc[c] = "send" /\ UNCHANGED <<link, next_packet_id, id, slot, owner, toClient, taken>>
  BY DEF Send
<1> DEFINE p == [kind |-> "PUBLISH", id |-> id[c], call |-> c, ok |-> TRUE]
<1>2. CASE /\ toBroker' = Append(toBroker, p) /\ Goto(c, "wait")
           /\ UNCHANGED <<pending, result>>
  <2>1. p \in Packets /\ p.call \in Calls
    BY DEF Packets, TypeOK
  <2> HIDE DEF p
  <2>2. TypeOK'
    BY <1>1, <1>2, <2>1 DEF TypeOK, link, Places, Goto
  <2>3. PublishOfCall'
    BY <1>2, <2>1, QueueSteps
  <2>4. SlotsOwned'
    BY <1>1, <1>2, SlotsStay DEF TypeOK, Within, Goto
  <2>5. AckWakesCaller'
    BY <1>1, <1>2, OthersAsleep DEF link, Goto
  <2> QED BY <2>2, <2>3, <2>4, <2>5
<1>3. CASE Free(slot[c]) /\ Return(c, "CLOSED") /\ UNCHANGED toBroker
  <2>1. pc' = [pc EXCEPT ![c] = "returned"] /\ result' = [result EXCEPT ![c] = "CLOSED"]
    BY <1>3 DEF Return, Goto
  <2>2. TypeOK'
    BY <1>1, <1>3, <2>1, FreeLeavesFlags DEF TypeOK, link, Places, Results, Within
  <2>3. PublishOfCall'
    BY <1>3 DEF PublishOfCall
  <2>4. SlotsOwned'
    BY <1>1, <1>3, <2>1, SlotsGivenBack DEF Within
  <2>5. AckWakesCaller'
    BY <1>1, <1>3, <2>1, FreeLeavesFlags, OthersAsleep DEF link, Within
  <2> QED BY <2>2, <2>3, <2>4, <2>5
<1> QED BY <1>2, <1>3 DEF Send

LEMMA WaitKeeps == ASSUME IInv, NEW c \in Calls, Wait(c) PROVE IInv'
<1> USE DEF IInv
<1>1. /\ pc[c] \in {"wait", "woken", "expired"}
      /\ UNCHANGED <<link, next_packet_id, pending, id, slot, channel, taken>>
  BY DEF Wait
<1>2. Outcome(c) \in Results
  BY DEF Outcome, Results
<1>3. PublishOfCall'
  BY <1>1 DEF PublishOfCall, channel
<1>4. CASE ~LeavesWait(c) /\ Goto(c, "waiting") /\ UNCHANGED <<result, owner>>
  <2>1. TypeOK'
    BY <1>1, <1>4 DEF TypeOK, link, channel, Places, Goto
  <2>2. SlotsOwned'
    BY <1>1, <1>4, SlotsStay DEF TypeOK, Within, Goto
  <2>3. AckWakesCaller'
    BY <1>1, <1>4 DEF AckWakesCaller, LeavesWait, TypeOK, link, Goto
  <2> QED BY <1>3, <2>1, <2>2, <2>3
<1>5. CASE result' = [result EXCEPT ![c] = Outcome(c)] /\ Goto(c, "release") /\ UNCHANGED owner
  <2>1. TypeOK'
    BY <1>1, <1>2, <1>5 DEF TypeOK, link, channel, Places, Goto
  <2>2. SlotsOwned'
    BY <1>1, <1>5, SlotsStay DEF TypeOK, Within, Goto
  <2>3. AckWakesCaller'
    BY <1>1, <1>5, OthersAsleep DEF link, Goto
  <2> QED BY <1>3, <2>1, <2>2, <2>3
<1>6. CASE owner' = c /\ Goto(c, "stuck") /\ UNCHANGED result
  <2>1. TypeOK'
    BY <1>1, <1>6 DEF TypeOK, link, channel, Places, Goto
  <2>2. SlotsOwned'
    BY <1>1, <1>6, SlotsStay DEF TypeOK, Within, Goto
  <2>3. AckWakesCaller'
    BY <1>1, <1>6, OthersAsleep DEF link, Goto
  <2> QED BY <1>3, <2>1, <2>2, <2>3
<1> QED BY <1>4, <1>5, <1>6 DEF Wait

LEMMA DeadlineKeeps == ASSUME IInv, NEW c \in Calls, Deadline(c) PROVE IInv'
<1> USE DEF IInv
<1>1. /\ pc[c] \in {"waiting", "woken"} /\ pc' = [pc EXCEPT ![c] = "expired"]
      /\ UNCHANGED <<link, next_packet_id, pending, id, slot, result, owner, channel, taken>>
  BY DEF Deadline, Goto
<1>2. TypeOK'
  BY <1>1 DEF TypeOK, link, channel, Places
<1>3. SlotsOwned'
  BY <1>1, SlotsStay DEF TypeOK, Within
<1>4. AckWakesCaller'
  BY <1>1, OthersAsleep DEF link
<1> QED BY <1>1, <1>2, <1>3, <1>4 DEF PublishOfCall, channel

LEMMA ReleaseKeeps == ASSUME IInv, NEW c \in Calls, Release(c) PROVE IInv'
<1> USE DEF IInv
<1>1. /\ pc[c] = "release" /\ Free(slot[c]) /\ pc' = [pc EXCEPT ![c] = "returned"]
      /\ UNCHANGED <<link, next_packet_id, id, slot, result, owner, channel, taken>>
  BY DEF Release, Goto
<1>2. TypeOK'
  BY <1>1, FreeLeavesFlags DEF TypeOK, link, channel, Places, Within
<1>3. SlotsOwned'
  BY <1>1, SlotsGivenBack DEF Within
<1>4. AckWakesCaller'
  BY <1>1, FreeLeavesFlags, OthersAsleep DEF link, Within
<1> QED BY <1>1, <1>2, <1>3, <1>4 DEF PublishOfCall, channel

-----------------------------------------------------------------------------
(* Reader, connection and broker                                           *)

\* After a broadcast nobody is asleep, and slots are where they were.
LEMMA BroadcastKeeps ==
    ASSUME TypeOK, SlotsOwned, Broadcast, slot' = slot, id' = id,
           \A s \in Slots : /\ pending'[s].in_use = pending[s].in_use
                            /\ pending'[s].packet_id = pending[s].packet_id
    PROVE  pc' \in [Calls -> Places] /\ SlotsOwned' /\ AckWakesCaller'
<1>1. \A c \in Calls : pc'[c] # "waiting" /\ (pc'[c] \in Within <=> pc[c] \in Within)
  BY DEF Broadcast, Within
<1>2. pc' \in [Calls -> Places]
  BY DEF Broadcast, TypeOK, Places
<1> QED BY <1>1, <1>2, SlotsStay DEF AckWakesCaller

\* Steps that leave the calls alone and do not end the session.
LEMMA CallsStay ==
    ASSUME SlotsOwned, AckWakesCaller, UNCHANGED <<pending, calls>>, connected' = connected
    PROVE  SlotsOwned' /\ AckWakesCaller'
  BY DEF SlotsOwned, AckWakesCaller, LeavesWait, Holding, InUse, calls

\* An acknowledgement that is read.
LEMMA ReadAckKeeps == ASSUME IInv, ReadAck PROVE IInv'
<1> USE DEF IInv
<1> DEFINE i == Head(toClient).id
           ok == Head(toClient).ok
<1>1. /\ toClient # <<>> /\ toClient' = Tail(toClient) /\ Broadcast
      /\ pending' = [s \in Slots |-> IF s \in Found(i)
                        THEN [pending[s] EXCEPT !.completed = TRUE, !.refused = ~ok]
                        ELSE pending[s]]
      /\ UNCHANGED <<link, next_packet_id, id, slot, result, owner, toBroker, taken>>
  BY DEF ReadAck, Receive, Complete
<1>2. /\ pending' \in [Slots -> [in_use : BOOLEAN, packet_id : 0..MaxId,
                                 completed : BOOLEAN, refused : BOOLEAN]]
      /\ \A s \in Slots : /\ pending'[s].in_use = pending[s].in_use
                          /\ pending'[s].packet_id = pending[s].packet_id
  BY <1>1 DEF TypeOK
<1>3. pc' \in [Calls -> Places] /\ SlotsOwned' /\ AckWakesCaller'
  BY <1>1, <1>2, BroadcastKeeps
<1>4. TypeOK'
  BY <1>1, <1>2, <1>3, QueueTypes DEF TypeOK, link
<1> QED BY <1>1, <1>3, <1>4 DEF PublishOfCall

LEMMA ReadPubrecKeeps == ASSUME IInv, ReadPubrec PROVE IInv'
<1> USE DEF IInv
<1>1. /\ toClient # <<>> /\ toClient' = Tail(toClient)
      /\ toBroker' = Append(toBroker, Packet("PUBREL", Head(toClient).id))
      /\ UNCHANGED <<link, next_packet_id, pending, calls, owner, taken>>
  BY DEF ReadPubrec, Receive
<1>2. toClient \in Seq(Packets) /\ Head(toClient).id \in 0..MaxId
  BY <1>1, QueueTypes DEF TypeOK
<1>3. /\ Packet("PUBREL", Head(toClient).id) \in Packets
      /\ Packet("PUBREL", Head(toClient).id).kind # "PUBLISH"
  BY <1>2, PacketTypes
<1>4. TypeOK'
  BY <1>1, <1>2, <1>3, QueueTypes DEF TypeOK, link, calls
<1>5. PublishOfCall'
  BY <1>1, <1>3, QueueSteps
<1> QED BY <1>1, <1>4, <1>5, CallsStay DEF link

LEMMA MarkKeeps == ASSUME IInv, MarkDisconnected PROVE IInv'
<1> USE DEF IInv
<1>1. /\ connected' = FALSE /\ Broadcast
      /\ UNCHANGED <<sock, accepted, drops, next_packet_id, pending, id, slot, result,
                     owner, channel, taken>>
  BY DEF MarkDisconnected
<1>2. pc' \in [Calls -> Places] /\ SlotsOwned' /\ AckWakesCaller'
  BY <1>1, BroadcastKeeps
<1>3. toBroker' = toBroker /\ toClient' = toClient
  BY <1>1 DEF channel
<1>4. TypeOK'
  BY <1>1, <1>2, <1>3 DEF TypeOK
<1>5. PublishOfCall'
  BY <1>3 DEF PublishOfCall
<1> QED BY <1>2, <1>4, <1>5

LEMMA ConnackKeeps == ASSUME IInv, ReadConnack PROVE IInv'
<1> USE DEF IInv
<1>1. /\ connected' = TRUE /\ Broadcast /\ toClient # <<>> /\ toClient' = Tail(toClient)
      /\ UNCHANGED <<sock, accepted, drops, next_packet_id, pending, id, slot, result,
                     owner, toBroker, taken>>
  BY DEF ReadConnack
<1>2. pc' \in [Calls -> Places] /\ SlotsOwned' /\ AckWakesCaller'
  BY <1>1, BroadcastKeeps
<1> QED BY <1>1, <1>2, QueueTypes DEF TypeOK, PublishOfCall

\* The connection is lost, comes back, or the broker closes it.
LEMMA LinkKeeps ==
    ASSUME IInv, LoseLink \/ OpenSocket \/ SendConnect \/ BrokerClose
    PROVE  IInv'
<1> USE DEF IInv
<1>1. UNCHANGED <<connected, next_packet_id, pending, calls, owner, taken>>
  BY DEF LoseLink, OpenSocket, SendConnect, BrokerClose
<1>2. SlotsOwned' /\ AckWakesCaller'
  BY <1>1, CallsStay
<1>3. CASE LoseLink
  <2>1. toBroker' = <<>> /\ toClient' = <<>> /\ drops' \in 0..MaxDrops
           /\ sock' = "none" /\ accepted' = FALSE
    BY <1>3, PublishAssumption DEF LoseLink, PublishAssumption, TypeOK
  <2>2. TypeOK'
    <3>1. accepted' \in BOOLEAN
      BY <2>1, Zenon
    <3>2. toBroker' \in Seq(Packets) /\ toClient' \in Seq(Packets)
      BY <2>1
    <3>3. sock' \in {"none", "raw", "open"} /\ drops' \in 0..MaxDrops
      BY <2>1
    <3>4. UNCHANGED <<connected, next_packet_id, pending, pc, id, slot, result, owner, taken>>
      BY <1>1 DEF calls
    <3> QED BY <3>1, <3>3, <3>4, <3>2 DEF TypeOK
  <2>3. PublishOfCall'
    BY <2>1 DEF PublishOfCall
  <2> QED BY <1>2, <2>2, <2>3
<1>4. CASE BrokerClose
  <2>1. /\ toBroker' = <<>> /\ toClient' = <<>> /\ sock' = "none"
        /\ accepted' = accepted /\ drops' = drops
    BY <1>4 DEF BrokerClose
  <2>2. TypeOK'
    BY <1>1, <2>1 DEF TypeOK, calls
  <2>3. PublishOfCall'
    BY <2>1 DEF PublishOfCall
  <2> QED BY <1>2, <2>2, <2>3
<1>5. CASE OpenSocket
  BY <1>1, <1>2, <1>5 DEF OpenSocket, TypeOK, PublishOfCall, calls, channel
<1>6. CASE SendConnect
  <2>1. Packet("CONNECT", 0) \in Packets /\ Packet("CONNECT", 0).kind # "PUBLISH"
    BY PacketTypes, PublishAssumption DEF PublishAssumption
  <2>2. PublishOfCall'
    BY <1>6, <2>1, QueueSteps DEF SendConnect
  <2> QED BY <1>1, <1>2, <1>6, <2>1, <2>2 DEF SendConnect, TypeOK, calls
<1> QED BY <1>3, <1>4, <1>5, <1>6

\* The broker answers the oldest packet.
LEMMA BrokerKeeps ==
    ASSUME IInv, BrokerConnect \/ BrokerPublish \/ BrokerPubrel
    PROVE  IInv'
<1> USE DEF IInv
<1>1. /\ toBroker # <<>>
      /\ UNCHANGED <<sock, connected, drops, next_packet_id, pending, calls, owner>>
  BY DEF BrokerConnect, BrokerPublish, BrokerPubrel, link
<1>2. /\ toBroker \in Seq(Packets) /\ Head(toBroker).id \in 0..MaxId /\ 0 \in 0..MaxId
      /\ Tail(toBroker) \in Seq(Packets) /\ Head(toBroker) = toBroker[1]
  BY <1>1, QueueTypes, PublishAssumption DEF PublishAssumption, TypeOK
<1>3. PICK p \in Packets : Reply(p)
  <2>1. CASE BrokerConnect
    BY <1>2, <2>1, PacketTypes DEF BrokerConnect
  <2>2. CASE BrokerPubrel
    BY <1>2, <2>2, PacketTypes DEF BrokerPubrel
  <2>3. CASE BrokerPublish
    <3>1. PICK kind \in {"PUBACK", "PUBREC"}, ok \in BOOLEAN :
              Reply([Packet(kind, Head(toBroker).id) EXCEPT !.ok = ok])
      BY <2>3 DEF BrokerPublish
    <3> QED BY <1>2, <3>1, PacketTypes
  <2> QED BY <2>1, <2>2, <2>3
<1>4. accepted' \in BOOLEAN /\ taken' \subseteq Calls
  <2>1. CASE BrokerPublish
    <3>1. Head(toBroker).call \in Calls
      BY <1>1, <1>2, <2>1, QueueTypes DEF BrokerPublish, PublishOfCall
    <3> QED BY <2>1, <3>1 DEF BrokerPublish, TypeOK, link
  <2> QED BY <2>1 DEF BrokerConnect, BrokerPubrel, TypeOK, link
<1>5. toBroker' = Tail(toBroker) /\ toClient' = Append(toClient, p)
  BY <1>3 DEF Reply
<1>6. TypeOK'
  BY <1>1, <1>2, <1>4, <1>5 DEF TypeOK, calls
<1>7. PublishOfCall'
  BY <1>1, <1>2, <1>5, QueueTypes DEF PublishOfCall
<1>8. SlotsOwned' /\ AckWakesCaller'
  BY <1>1, CallsStay
<1> QED BY <1>6, <1>7, <1>8

-----------------------------------------------------------------------------
(* Theorems                                                                *)

\* The invariant holds at the start.
LEMMA InitInv == ASSUME Init PROVE IInv
<1>1. TypeOK
  BY PublishAssumption DEF Init, TypeOK, PublishAssumption, FreeSlot, Places, Results
<1>2. Holding = {} /\ InUse = {}
  BY DEF Init, Holding, InUse, FreeSlot
<1>3. PublishOfCall /\ SlotsOwned /\ AckWakesCaller
  BY <1>2 DEF Init, PublishOfCall, SlotsOwned, AckWakesCaller
<1> QED BY <1>1, <1>3 DEF IInv

\* Every step keeps the invariant.
LEMMA StepInv == ASSUME IInv, [Next]_vars PROVE IInv'
<1>1. ASSUME NEW c \in Calls, Publisher(c) PROVE IInv'
  BY <1>1, BeginKeeps, AcquireKeeps, SendKeeps, WaitKeeps, DeadlineKeeps, ReleaseKeeps
     DEF Publisher
<1>2. CASE Reader
  BY <1>2, ReadAckKeeps, ReadPubrecKeeps, MarkKeeps, LinkKeeps, ConnackKeeps DEF Reader
<1>3. CASE Broker
  BY <1>3, BrokerKeeps, LinkKeeps DEF Broker
<1>4. CASE LoseLink
  BY <1>4, LinkKeeps
<1>5. CASE UNCHANGED vars
  BY <1>5 DEF IInv, TypeOK, PublishOfCall, SlotsOwned, AckWakesCaller, LeavesWait, Holding,
              InUse, vars, link, calls, channel
<1> QED BY <1>1, <1>2, <1>3, <1>4, <1>5 DEF Next, Quiescent

\* The invariant behind the results below.
THEOREM Invariance == Spec => []IInv
<1>1. Init => IInv
  BY InitInv
<1>2. IInv /\ [Next]_vars => IInv'
  BY StepInv
<1> QED BY <1>1, <1>2, PTL DEF Spec

\* Slots are used by the calls in progress, one each, and no error path keeps one.
THEOREM SlotsKept == Spec => [](TypeOK /\ SlotsOwned)
<1>1. IInv => TypeOK /\ SlotsOwned
  BY DEF IInv
<1> QED BY <1>1, Invariance, PTL

\* No caller sleeps past its acknowledgement or past the end of the session.
THEOREM NobodyOversleeps == Spec => []AckWakesCaller
<1>1. IInv => AckWakesCaller
  BY DEF IInv
<1> QED BY <1>1, Invariance, PTL

-----------------------------------------------------------------------------
(* What NCL_OK means, while the identifiers do not wrap.                   *)

\* The calls that have been given an identifier, and how many identifiers
\* were given after i when the counter is at n.
Begun   == {c \in Calls : id[c] # 0}
Back(i, n) == IF i <= n THEN n - i ELSE n + MaxId - i

\* There are identifiers enough; they are given in turn, and no call reuses that
\* of another.
Enough == IsFiniteSet(Calls) /\ Cardinality(Calls) <= MaxId
IdsInv ==
    /\ Enough
    /\ \A c \in Calls : pc[c] = "start" => id[c] = 0
    /\ \A c \in Calls : pc[c] = "acquire" \/ pc[c] \in Within => c \in Begun
    /\ \A c \in Begun : Back(id[c], next_packet_id) < Cardinality(Begun)
    /\ \A c, d \in Begun : id[c] = id[d] => c = d

\* The broker has the message of the call with identifier i.
Settled(i) == \E c \in Begun : id[c] = i /\ c \in taken

\* A PUBLISH carries the identifier of its call, and a PUBREL is about a message
\* the broker has; so is an acknowledgement that refuses nothing.
SentOk(p) ==
    /\ p.kind = "PUBLISH" => p.call \in Begun /\ id[p.call] = p.id
    /\ p.kind = "PUBREL" => Settled(p.id)
AckOk(p) == p.kind \in {"PUBACK", "PUBREC", "PUBCOMP"} /\ p.ok => Settled(p.id)

\* The packets of a queue.
In(q) == {q[j] : j \in DOMAIN q}

SentInv == \A p \in In(toBroker) : SentOk(p)
AckInv  == \A p \in In(toClient) : AckOk(p)

\* A slot completed and not refused is that of a call whose message was taken.
DoneInv ==
    \A c \in Holding : pending[slot[c]].completed /\ ~pending[slot[c]].refused => c \in taken

OkInv == IInv /\ IdsInv /\ SentInv /\ AckInv /\ DoneInv /\ OkMeansTaken

\* The identifier that is given next is one nobody has, and every other becomes
\* one step older.
LEMMA NextIsNew ==
    ASSUME TypeOK, IdsInv, NEW c \in Calls \ Begun, next_packet_id' = NextId
    PROVE  /\ next_packet_id' \in Ids /\ Back(next_packet_id', next_packet_id') = 0
           /\ \A d \in Begun :
                  /\ id[d] # next_packet_id'
                  /\ Back(id[d], next_packet_id') = Back(id[d], next_packet_id) + 1
           /\ Cardinality(Begun) \in Nat
           /\ Cardinality(Begun \cup {c}) = Cardinality(Begun) + 1
<1>1. NextId = IF next_packet_id = MaxId THEN 1 ELSE next_packet_id + 1
  <2>1. next_packet_id \in 0..MaxId /\ MaxId \in Nat \ {0}
    BY PublishAssumption DEF TypeOK, PublishAssumption
  <2>2. next_packet_id % MaxId = IF next_packet_id = MaxId THEN 0 ELSE next_packet_id
    BY <2>1
  <2> QED BY <2>1, <2>2 DEF NextId
<1>2. IsFiniteSet(Begun) /\ Cardinality(Begun) \in Nat
  BY FS_Subset, FS_CardinalityType DEF Begun, IdsInv, Enough
<1>3. Cardinality(Begun \cup {c}) = Cardinality(Begun) + 1
  BY <1>2, FS_AddElement
<1>4. Cardinality(Begun \cup {c}) <= Cardinality(Calls) /\ Cardinality(Calls) \in Nat
  BY FS_Subset, FS_CardinalityType DEF Begun, IdsInv, Enough
<1>5. Cardinality(Begun) + 1 <= MaxId
  BY <1>2, <1>3, <1>4, PublishAssumption DEF IdsInv, Enough, PublishAssumption
<1>6. ASSUME NEW d \in Begun
      PROVE  /\ id[d] # next_packet_id'
             /\ Back(id[d], next_packet_id') = Back(id[d], next_packet_id) + 1
  <2>1. id[d] \in 1..MaxId /\ next_packet_id \in 0..MaxId /\ MaxId \in Nat \ {0}
    BY PublishAssumption DEF Begun, TypeOK, PublishAssumption
  <2>2. Back(id[d], next_packet_id) < Cardinality(Begun)
    BY DEF IdsInv
  <2>3. id[d] # next_packet_id'
    BY <1>1, <1>2, <1>5, <2>1, <2>2 DEF Back
  <2> QED BY <1>1, <1>2, <1>5, <2>1, <2>2, <2>3 DEF Back
<1> QED BY <1>1, <1>2, <1>3, <1>6, PublishAssumption DEF TypeOK, Ids, Back, PublishAssumption

\* What is known of a message stays true while no call begins.
LEMMA SettledStays ==
    ASSUME id' = id, taken \subseteq taken'
    PROVE  /\ Begun' = Begun
           /\ \A i : Settled(i) => Settled(i)'
           /\ \A p : (SentOk(p) => SentOk(p)') /\ (AckOk(p) => AckOk(p)')
<1>1. Begun' = Begun
  BY DEF Begun
<1>2. \A i : Settled(i) => Settled(i)'
  BY <1>1 DEF Settled
<1> QED BY <1>1, <1>2 DEF SentOk, AckOk

\* Calls that move without being given an identifier.
LEMMA IdsStay ==
    ASSUME IdsInv, id' = id, next_packet_id' = next_packet_id,
           \A c \in Calls : /\ pc'[c] = "start" => pc[c] = "start"
                            /\ pc'[c] = "acquire" \/ pc'[c] \in Within =>
                                   pc[c] = "acquire" \/ pc[c] \in Within
    PROVE  IdsInv'
<1>1. Begun' = Begun
  BY DEF Begun
<1> QED BY <1>1 DEF IdsInv, Enough

\* Slots whose flags stay as they are, and calls that are given none.
LEMMA DoneStays ==
    ASSUME SlotsOwned, DoneInv, slot' = slot, taken \subseteq taken',
           \A c \in Calls : pc'[c] \in Within => pc[c] \in Within,
           \A s \in Slots : /\ pending'[s].completed = pending[s].completed
                            /\ pending'[s].refused = pending[s].refused
    PROVE  DoneInv'
<1>1. Holding' \subseteq Holding
  BY DEF Holding, Within
<1> QED BY <1>1, SlotOfHolder DEF DoneInv

\* What a queue holds when a packet is taken away, or added.
LEMMA QueueSets ==
    ASSUME NEW q \in Seq(Packets)
    PROVE  /\ In(<<>>) = {}
           /\ q # <<>> => Head(q) \in In(q) /\ In(Tail(q)) \subseteq In(q)
           /\ \A p : In(Append(q, p)) = In(q) \cup {p}
<1>1. In(<<>>) = {}
  BY DEF In
<1>2. ASSUME q # <<>> PROVE Head(q) \in In(q) /\ In(Tail(q)) \subseteq In(q)
  BY <1>2, QueueTypes DEF In
<1>3. ASSUME NEW p PROVE In(Append(q, p)) = In(q) \cup {p}
  <2>1. /\ Len(q) \in Nat /\ DOMAIN q = 1..Len(q)
        /\ DOMAIN Append(q, p) = 1..(Len(q) + 1)
        /\ \A j \in 1..Len(q) : Append(q, p)[j] = q[j]
        /\ Append(q, p)[Len(q) + 1] = p
    OBVIOUS
  <2>2. 1..(Len(q) + 1) = 1..Len(q) \cup {Len(q) + 1}
    BY <2>1
  <2> QED BY <2>1, <2>2 DEF In
<1> QED BY <1>1, <1>2, <1>3

\* Queues that lose packets, or gain one that is true of the broker.
LEMMA SentStays ==
    ASSUME TypeOK, SentInv, id' = id, taken \subseteq taken', NEW p
    PROVE  /\ toBroker' \in {toBroker, <<>>} => SentInv'
           /\ toBroker # <<>> /\ toBroker' = Tail(toBroker) => SentInv'
           /\ SentOk(p)' /\ toBroker' = Append(toBroker, p) => SentInv'
<1>1. \A q : SentOk(q) => SentOk(q)'
  BY SettledStays
<1>2. In(toBroker') \subseteq In(toBroker) \cup {p} /\ (p \in In(toBroker') => SentOk(p)')
      => SentInv'
  BY <1>1 DEF SentInv
<1>3. toBroker \in Seq(Packets)
  BY DEF TypeOK
<1>4. toBroker' \in {toBroker, <<>>} => SentInv'
  BY <1>1, <1>3, QueueSets DEF SentInv
<1>5. toBroker # <<>> /\ toBroker' = Tail(toBroker) => SentInv'
  BY <1>1, <1>3, QueueSets DEF SentInv
<1>6. ASSUME SentOk(p)', toBroker' = Append(toBroker, p) PROVE SentInv'
  BY <1>2, <1>3, <1>6, QueueSets
<1> QED BY <1>4, <1>5, <1>6

LEMMA AcksStay ==
    ASSUME TypeOK, AckInv, id' = id, taken \subseteq taken', NEW p
    PROVE  /\ toClient' \in {toClient, <<>>} => AckInv'
           /\ toClient # <<>> /\ toClient' = Tail(toClient) => AckInv'
           /\ AckOk(p)' /\ toClient' = Append(toClient, p) => AckInv'
<1>1. \A q : AckOk(q) => AckOk(q)'
  BY SettledStays
<1>2. In(toClient') \subseteq In(toClient) \cup {p} /\ (p \in In(toClient') => AckOk(p)')
      => AckInv'
  BY <1>1 DEF AckInv
<1>3. toClient \in Seq(Packets)
  BY DEF TypeOK
<1>4. toClient' \in {toClient, <<>>} => AckInv'
  BY <1>1, <1>3, QueueSets DEF AckInv
<1>5. toClient # <<>> /\ toClient' = Tail(toClient) => AckInv'
  BY <1>1, <1>3, QueueSets DEF AckInv
<1>6. ASSUME AckOk(p)', toClient' = Append(toClient, p) PROVE AckInv'
  BY <1>2, <1>3, <1>6, QueueSets
<1> QED BY <1>4, <1>5, <1>6

\* A call that begins is given an identifier that nothing on its way carries.
LEMMA BeginOk ==
    ASSUME OkInv, NEW c \in Calls, Begin(c)
    PROVE  IdsInv' /\ SentInv' /\ AckInv' /\ DoneInv' /\ OkMeansTaken'
<1> USE DEF OkInv, IInv
<1>1. pc[c] = "start" /\ UNCHANGED <<link, pending, slot, owner, channel, taken>>
  BY DEF Begin
<1>2. c \notin Begun
  BY <1>1 DEF IdsInv, Begun
<1>3. CASE Return(c, "CLOSED") /\ UNCHANGED <<next_packet_id, id>>
  <2>1. IdsInv' /\ DoneInv'
    BY <1>1, <1>3, IdsStay, DoneStays DEF Return, Goto, TypeOK, Within
  <2>2. SentInv' /\ AckInv'
    BY <1>1, <1>3, SentStays, AcksStay DEF channel
  <2>3. OkMeansTaken'
    BY <1>1, <1>3 DEF OkMeansTaken, Return, TypeOK
  <2> QED BY <2>1, <2>2, <2>3
<1>4. CASE /\ next_packet_id' = NextId /\ id' = [id EXCEPT ![c] = next_packet_id']
           /\ Goto(c, "acquire") /\ UNCHANGED result
  <2>1. /\ next_packet_id' \in Ids /\ Back(next_packet_id', next_packet_id') = 0
        /\ \A d \in Begun : /\ id[d] # next_packet_id'
                            /\ Back(id[d], next_packet_id') = Back(id[d], next_packet_id) + 1
        /\ Cardinality(Begun) \in Nat
        /\ Cardinality(Begun \cup {c}) = Cardinality(Begun) + 1
    BY <1>2, <1>4, NextIsNew
  <2>2. id'[c] = next_packet_id' /\ \A d \in Calls \ {c} : id'[d] = id[d]
    BY <1>4 DEF TypeOK
  <2>3. Begun' = Begun \cup {c} /\ \A d \in Begun : id'[d] = id[d]
    BY <1>2, <2>1, <2>2 DEF Begun, Ids
  <2>4. pc'[c] = "acquire" /\ \A d \in Calls \ {c} : pc'[d] = pc[d]
    BY <1>4 DEF TypeOK, Goto
  <2>5. IdsInv'
    <3>1. \A d \in Calls : pc'[d] = "start" => id'[d] = 0
      BY <2>2, <2>4 DEF IdsInv
    <3>2. \A d \in Calls : pc'[d] = "acquire" \/ pc'[d] \in Within => d \in Begun'
      BY <2>3, <2>4 DEF IdsInv
    <3>3. \A d \in Begun : Back(id[d], next_packet_id) \in Int
      BY PublishAssumption DEF Back, Begun, TypeOK, PublishAssumption
    <3>4. \A d \in Begun' : Back(id'[d], next_packet_id') < Cardinality(Begun')
      BY <2>1, <2>2, <2>3, <3>3 DEF IdsInv
    <3>5. \A d, e \in Begun' : id'[d] = id'[e] => d = e
      BY <2>1, <2>2, <2>3 DEF IdsInv
    <3> QED BY <3>1, <3>2, <3>4, <3>5 DEF IdsInv, Enough
  <2>6. \A i : Settled(i) => Settled(i)'
    BY <1>1, <2>3 DEF Settled
  <2>7. \A p : (SentOk(p) => SentOk(p)') /\ (AckOk(p) => AckOk(p)')
    BY <2>3, <2>6 DEF SentOk, AckOk
  <2>8. SentInv' /\ AckInv'
    BY <1>1, <2>7 DEF SentInv, AckInv, channel
  <2>9. DoneInv'
    BY <1>1, <2>4, DoneStays DEF Within
  <2> QED BY <1>1, <1>4, <2>5, <2>8, <2>9 DEF OkMeansTaken
<1> QED BY <1>3, <1>4 DEF Begin

\* A call that is given a slot finds its flags cleared.
LEMMA AcquireOk ==
    ASSUME OkInv, NEW c \in Calls, Acquire(c)
    PROVE  IdsInv' /\ SentInv' /\ AckInv' /\ DoneInv' /\ OkMeansTaken'
<1> USE DEF OkInv, IInv
<1>1. pc[c] = "acquire" /\ UNCHANGED <<link, next_packet_id, id, owner, channel, taken>>
  BY DEF Acquire
<1>2. SentInv' /\ AckInv'
  BY <1>1, SentStays, AcksStay DEF channel
<1>3. CASE Return(c, "STATE") /\ UNCHANGED <<pending, slot>>
  <2>1. IdsInv' /\ DoneInv'
    BY <1>1, <1>3, IdsStay, DoneStays DEF Return, Goto, TypeOK, Within
  <2> QED BY <1>1, <1>2, <1>3, <2>1 DEF OkMeansTaken, Return, TypeOK
<1>4. ASSUME NEW s \in Slots, FirstFree(s), pending' = [pending EXCEPT ![s] = Taken(id[c])],
             slot' = [slot EXCEPT ![c] = s], Goto(c, "send"), UNCHANGED result
      PROVE  IdsInv' /\ DoneInv' /\ OkMeansTaken'
  <2>1. IdsInv'
    BY <1>1, <1>4, IdsStay DEF Goto, TypeOK, Within
  <2>2. Holding' \ {c} \subseteq Holding /\ slot'[c] = s
    BY <1>4 DEF Goto, TypeOK, Holding
  <2>3. pending'[s].completed = FALSE
    BY <1>4 DEF Taken, TypeOK
  <2>4. \A d \in Holding' \ {c} :
            slot'[d] = slot[d] /\ pending'[slot[d]] = pending[slot[d]]
    <3> SUFFICES ASSUME NEW d \in Holding' \ {c}
                 PROVE  slot'[d] = slot[d] /\ pending'[slot[d]] = pending[slot[d]]
      OBVIOUS
    <3>1. slot[d] \in InUse /\ s \notin InUse /\ slot[d] # s
      BY <1>4, <2>2, SlotOfHolder DEF FirstFree
    <3> QED BY <1>4, <2>2, <3>1, SlotOfHolder DEF TypeOK, Holding
  <2>5. DoneInv'
    BY <1>1, <2>2, <2>3, <2>4 DEF DoneInv
  <2> QED BY <1>1, <1>4, <2>1, <2>5 DEF OkMeansTaken
<1> QED BY <1>2, <1>3, <1>4 DEF Acquire

\* The slot given back keeps its other flags.
LEMMA FreeKeepsFlags ==
    ASSUME TypeOK, NEW n \in Slots, Free(n)
    PROVE  \A s \in Slots : /\ pending'[s].completed = pending[s].completed
                            /\ pending'[s].refused = pending[s].refused
<1>1. pending[n] \in [in_use : BOOLEAN, packet_id : 0..MaxId,
                      completed : BOOLEAN, refused : BOOLEAN]
  BY DEF TypeOK
<1> QED BY <1>1 DEF Free, TypeOK

\* A PUBLISH is sent under the identifier of its call.
LEMMA SendOk ==
    ASSUME OkInv, NEW c \in Calls, Send(c)
    PROVE  IdsInv' /\ SentInv' /\ AckInv' /\ DoneInv' /\ OkMeansTaken'
<1> USE DEF OkInv, IInv
<1>1. pc[c] = "send" /\ UNCHANGED <<link, next_packet_id, id, slot, owner, toClient, taken>>
  BY DEF Send
<1>2. AckInv'
  BY <1>1, AcksStay
<1>3. ASSUME toBroker' = Append(toBroker, [kind |-> "PUBLISH", id |-> id[c], call |-> c,
                                           ok |-> TRUE]),
             Goto(c, "wait"), UNCHANGED <<pending, result>>
      PROVE  IdsInv' /\ SentInv' /\ DoneInv' /\ OkMeansTaken'
  <2>1. IdsInv' /\ DoneInv'
    BY <1>1, <1>3, IdsStay, DoneStays DEF Goto, TypeOK, Within
  <2> DEFINE p == [kind |-> "PUBLISH", id |-> id[c], call |-> c, ok |-> TRUE]
  <2>2. c \in Begun /\ Begun' = Begun
    BY <1>1 DEF IdsInv, Within, Begun
  <2>3. SentOk(p)'
    BY <1>1, <2>2 DEF SentOk
  <2>4. SentInv'
    BY <1>1, <1>3, <2>3, SentStays
  <2> QED BY <1>1, <1>3, <2>1, <2>4 DEF OkMeansTaken
<1>4. ASSUME Free(slot[c]), Return(c, "CLOSED"), UNCHANGED toBroker
      PROVE  IdsInv' /\ SentInv' /\ DoneInv' /\ OkMeansTaken'
  <2>1. slot[c] \in Slots
    BY <1>1, SlotOfHolder DEF Holding
  <2>2. \A s \in Slots : /\ pending'[s].completed = pending[s].completed
                         /\ pending'[s].refused = pending[s].refused
    BY <1>4, <2>1, FreeKeepsFlags
  <2>3. IdsInv'
    BY <1>1, <1>4, IdsStay DEF Return, Goto, TypeOK, Within
  <2>4. DoneInv'
    BY <1>1, <1>4, <2>2, DoneStays DEF Return, Goto, TypeOK, Within
  <2>5. SentInv'
    BY <1>1, <1>4, SentStays
  <2> QED BY <1>1, <1>4, <2>3, <2>4, <2>5 DEF OkMeansTaken, Return, TypeOK
<1> QED BY <1>2, <1>3, <1>4 DEF Send

\* The call answers NCL_OK for a slot completed and not refused.
LEMMA WaitOk ==
    ASSUME OkInv, NEW c \in Calls, Wait(c)
    PROVE  IdsInv' /\ SentInv' /\ AckInv' /\ DoneInv' /\ OkMeansTaken'
<1> USE DEF OkInv, IInv
<1>1. /\ pc[c] \in {"wait", "woken", "expired"}
      /\ UNCHANGED <<link, next_packet_id, pending, id, slot, channel, taken>>
  BY DEF Wait
<1>2. PICK place \in {"waiting", "release", "stuck"} : Goto(c, place)
  BY DEF Wait
<1>3. IdsInv' /\ DoneInv'
  BY <1>1, <1>2, IdsStay, DoneStays DEF Goto, TypeOK, Within
<1>4. SentInv' /\ AckInv'
  BY <1>1, SentStays, AcksStay DEF channel
<1>5. Outcome(c) = "OK" => c \in taken
  BY <1>1 DEF Outcome, DoneInv, Holding
<1>6. result' = result \/ result' = [result EXCEPT ![c] = Outcome(c)]
  BY DEF Wait
<1>7. OkMeansTaken'
  BY <1>1, <1>5, <1>6 DEF OkMeansTaken, TypeOK
<1> QED BY <1>3, <1>4, <1>7

\* A deadline, and a slot given back.
LEMMA LeaveOk ==
    ASSUME OkInv, NEW c \in Calls, Deadline(c) \/ Release(c)
    PROVE  IdsInv' /\ SentInv' /\ AckInv' /\ DoneInv' /\ OkMeansTaken'
<1> USE DEF OkInv, IInv
<1>1. /\ pc[c] \in {"waiting", "woken", "release"}
      /\ UNCHANGED <<next_packet_id, id, slot, result, channel, taken>>
  BY DEF Deadline, Release
<1>2. PICK place \in {"expired", "returned"} : Goto(c, place)
  BY DEF Deadline, Release
<1>3. slot[c] \in Slots
  BY <1>1, SlotOfHolder DEF Holding
<1>4. \A s \in Slots : /\ pending'[s].completed = pending[s].completed
                       /\ pending'[s].refused = pending[s].refused
  BY <1>3, FreeKeepsFlags DEF Deadline, Release
<1>5. IdsInv'
  BY <1>1, <1>2, IdsStay DEF Goto, TypeOK, Within
<1>6. DoneInv'
  BY <1>1, <1>2, <1>4, DoneStays DEF Goto, TypeOK, Within
<1>7. SentInv' /\ AckInv'
  BY <1>1, SentStays, AcksStay DEF channel
<1> QED BY <1>1, <1>5, <1>6, <1>7 DEF OkMeansTaken

\* Waking the callers, or leaving them alone.
LEMMA CallersOk ==
    ASSUME OkInv, Broadcast \/ pc' = pc, UNCHANGED <<next_packet_id, id, slot, result>>,
           taken \subseteq taken'
    PROVE  /\ IdsInv' /\ OkMeansTaken' /\ Holding' \subseteq Holding
           /\ pending' = pending => DoneInv'
<1> USE DEF OkInv, IInv
<1>1. \A c \in Calls : pc'[c] = pc[c] \/ (pc[c] = "waiting" /\ pc'[c] = "woken")
  BY DEF Broadcast
<1>2. IdsInv'
  BY <1>1, IdsStay DEF Within
<1>3. Holding' \subseteq Holding
  BY <1>1 DEF Holding
<1>4. pending' = pending => DoneInv'
  BY <1>3 DEF DoneInv
<1> QED BY <1>2, <1>3, <1>4 DEF OkMeansTaken

\* The acknowledgement completes the slot that carries its identifier: that of the
\* one call whose message it is about.
LEMMA ReadAckOk ==
    ASSUME OkInv, ReadAck
    PROVE  IdsInv' /\ SentInv' /\ AckInv' /\ DoneInv' /\ OkMeansTaken'
<1> USE DEF OkInv, IInv
<1> DEFINE p == Head(toClient)
<1>1. /\ toClient # <<>> /\ p.kind \in {"PUBACK", "PUBCOMP", "PUBREC"}
      /\ toClient' = Tail(toClient) /\ Broadcast
      /\ pending' = [s \in Slots |-> IF s \in Found(p.id)
                        THEN [pending[s] EXCEPT !.completed = TRUE, !.refused = ~p.ok]
                        ELSE pending[s]]
      /\ UNCHANGED <<link, next_packet_id, id, slot, result, owner, toBroker, taken>>
  BY DEF ReadAck, Receive, Complete
<1>2. IdsInv' /\ OkMeansTaken' /\ Holding' \subseteq Holding
  BY <1>1, CallersOk
<1>3. SentInv' /\ AckInv'
  BY <1>1, SentStays, AcksStay
<1>4. p \in In(toClient) /\ p.ok \in BOOLEAN
  BY <1>1, QueueSets, QueueTypes DEF TypeOK
<1>5. p.ok => Settled(p.id)
  BY <1>1, <1>4 DEF AckInv, AckOk
<1>6. ASSUME NEW c \in Holding', pending'[slot[c]].completed, ~pending'[slot[c]].refused
      PROVE  c \in taken
  <2>1. c \in Holding /\ slot[c] \in Slots /\ pending[slot[c]].packet_id = id[c]
    BY <1>2, SlotOfHolder DEF SlotsOwned
  <2>2. CASE slot[c] \notin Found(p.id)
    BY <1>1, <1>6, <2>1, <2>2 DEF DoneInv
  <2>3. CASE slot[c] \in Found(p.id)
    <3>1. id[c] = p.id
      BY <2>1, <2>3 DEF Found
    <3>2. pending[slot[c]] \in [in_use : BOOLEAN, packet_id : 0..MaxId,
                                completed : BOOLEAN, refused : BOOLEAN]
      BY <2>1 DEF TypeOK
    <3>3. pending'[slot[c]] = [pending[slot[c]] EXCEPT !.completed = TRUE, !.refused = ~p.ok]
      BY <1>1, <2>1, <2>3
    <3>4. p.ok
      BY <1>4, <1>6, <3>2, <3>3
    <3>5. PICK d \in Begun : id[d] = p.id /\ d \in taken
      BY <1>5, <3>4 DEF Settled
    <3>6. c \in Begun
      BY <2>1 DEF IdsInv, Holding, Within
    <3> QED BY <3>1, <3>5, <3>6 DEF IdsInv
  <2> QED BY <2>2, <2>3
<1>7. DoneInv'
  BY <1>1, <1>6 DEF DoneInv
<1> QED BY <1>2, <1>3, <1>7

\* PUBREL answers a PUBREC that refuses nothing.
LEMMA ReadPubrecOk ==
    ASSUME OkInv, ReadPubrec
    PROVE  IdsInv' /\ SentInv' /\ AckInv' /\ DoneInv' /\ OkMeansTaken'
<1> USE DEF OkInv, IInv
<1> DEFINE p == Packet("PUBREL", Head(toClient).id)
<1>1. /\ toClient # <<>> /\ Head(toClient).kind = "PUBREC" /\ Head(toClient).ok
      /\ toClient' = Tail(toClient) /\ toBroker' = Append(toBroker, p)
      /\ UNCHANGED <<link, next_packet_id, pending, pc, id, slot, result, owner, taken>>
  BY DEF ReadPubrec, Receive, calls
<1>2. IdsInv' /\ OkMeansTaken' /\ DoneInv'
  BY <1>1, CallersOk
<1>3. Settled(Head(toClient).id)
  BY <1>1, QueueSets DEF TypeOK, AckInv, AckOk
<1>4. SentOk(p)
  BY <1>3 DEF SentOk, Packet
<1>5. \A q : SentOk(q) => SentOk(q)'
  BY <1>1, SettledStays
<1>6. AckInv'
  BY <1>1, AcksStay
<1> HIDE DEF p
<1>7. SentInv'
  BY <1>1, <1>4, <1>5, SentStays
<1> QED BY <1>2, <1>6, <1>7

\* The connection comes and goes.
LEMMA LinkOk ==
    ASSUME OkInv, \/ MarkDisconnected \/ OpenSocket \/ SendConnect \/ ReadConnack
                  \/ LoseLink \/ BrokerClose \/ UNCHANGED vars
    PROVE  IdsInv' /\ SentInv' /\ AckInv' /\ DoneInv' /\ OkMeansTaken'
<1> USE DEF OkInv, IInv
<1> DEFINE p == Packet("CONNECT", 0)
<1>1. /\ Broadcast \/ pc' = pc
      /\ UNCHANGED <<next_packet_id, id, slot, result, pending, taken>>
  BY DEF MarkDisconnected, OpenSocket, SendConnect, ReadConnack, LoseLink, BrokerClose, vars,
         calls
<1>2. IdsInv' /\ OkMeansTaken' /\ DoneInv'
  BY <1>1, CallersOk
<1>3. toBroker' \in {toBroker, <<>>} \/ toBroker' = Append(toBroker, p)
  BY DEF MarkDisconnected, OpenSocket, SendConnect, ReadConnack, LoseLink, BrokerClose, vars,
         channel
<1>4. SentOk(p)'
  BY DEF SentOk, Packet
<1> HIDE DEF p
<1>5. SentInv'
  BY <1>1, <1>3, <1>4, SentStays
<1>6. toClient' \in {toClient, <<>>} \/ (toClient # <<>> /\ toClient' = Tail(toClient))
  BY DEF MarkDisconnected, OpenSocket, SendConnect, ReadConnack, LoseLink, BrokerClose, vars,
         channel
<1>7. AckInv'
  BY <1>1, <1>6, AcksStay
<1> QED BY <1>2, <1>5, <1>7

\* The broker acknowledges what it has.
LEMMA BrokerOk ==
    ASSUME OkInv, BrokerConnect \/ BrokerPublish \/ BrokerPubrel
    PROVE  IdsInv' /\ SentInv' /\ AckInv' /\ DoneInv' /\ OkMeansTaken'
<1> USE DEF OkInv, IInv
<1>1. /\ toBroker # <<>> /\ toBroker' = Tail(toBroker) /\ taken \subseteq taken'
      /\ UNCHANGED <<next_packet_id, pending, pc, id, slot, result>>
  BY DEF BrokerConnect, BrokerPublish, BrokerPubrel, Reply, calls
<1>2. IdsInv' /\ OkMeansTaken' /\ DoneInv'
  BY <1>1, CallersOk
<1>3. SentInv'
  BY <1>1, SentStays
<1>4. SentOk(Head(toBroker)) /\ Begun' = Begun
  BY <1>1, QueueSets DEF TypeOK, SentInv, Begun
<1>5. PICK p : toClient' = Append(toClient, p) /\ AckOk(p)'
  <2>1. CASE BrokerConnect
    <3>1. AckOk(Packet("CONNACK", 0))'
      BY DEF AckOk, Packet
    <3> QED BY <2>1, <3>1 DEF BrokerConnect, Reply
  <2>2. CASE BrokerPubrel
    <3>1. Settled(Head(toBroker).id)
      BY <1>4, <2>2 DEF SentOk, BrokerPubrel
    <3>2. AckOk(Packet("PUBCOMP", Head(toBroker).id))
      BY <3>1 DEF AckOk, Packet
    <3> DEFINE p == Packet("PUBCOMP", Head(toBroker).id)
    <3>3. toClient' = Append(toClient, p)
      BY <2>2 DEF BrokerPubrel, Reply
    <3>4. \A q : AckOk(q) => AckOk(q)'
      BY <1>1, SettledStays
    <3> HIDE DEF p
    <3> QED BY <3>2, <3>3, <3>4 DEF p
  <2>3. CASE BrokerPublish
    <3> DEFINE c == Head(toBroker).call
    <3>1. PICK kind \in {"PUBACK", "PUBREC"}, ok \in BOOLEAN :
              /\ Reply([Packet(kind, Head(toBroker).id) EXCEPT !.ok = ok])
              /\ taken' = IF ok THEN taken \cup {c} ELSE taken
      BY <2>3 DEF BrokerPublish
    <3> DEFINE p == [Packet(kind, Head(toBroker).id) EXCEPT !.ok = ok]
    <3>2. p.ok = ok /\ p.id = Head(toBroker).id
      BY DEF Packet
    <3>3. c \in Begun /\ id[c] = p.id
      BY <1>4, <2>3, <3>2 DEF SentOk, BrokerPublish
    <3>4. ok => c \in Begun' /\ id'[c] = p.id /\ c \in taken'
      BY <1>1, <1>4, <3>1, <3>3
    <3>5. toClient' = Append(toClient, p)
      BY <3>1 DEF Reply
    <3> HIDE DEF p, c
    <3>6. \E q : q = p /\ AckOk(q)'
      BY <3>2, <3>4 DEF AckOk, Settled
    <3> QED BY <3>5, <3>6
  <2> QED BY <2>1, <2>2, <2>3
<1>6. AckInv'
  BY <1>1, <1>5, AcksStay
<1> QED BY <1>2, <1>3, <1>6

\* What the table of slots and the identifiers are for: as long as there are
\* identifiers for the calls, a call that answers NCL_OK is one whose message the
\* broker took over, whatever was late, lost, timed out or reconnected.
THEOREM SlotsCorrect ==
    ASSUME IsFiniteSet(Calls), Cardinality(Calls) <= MaxId
    PROVE  Spec => []SlotsSound
<1>1. Init => OkInv
  <2> SUFFICES ASSUME Init PROVE OkInv
    OBVIOUS
  <2>1. IInv
    BY InitInv
  <2>2. Begun = {} /\ Holding = {} /\ In(toBroker) = {} /\ In(toClient) = {}
    BY DEF Init, Begun, Holding, In
  <2>3. IdsInv
    BY <2>2 DEF IdsInv, Enough, Init, Within
  <2>4. SentInv /\ AckInv /\ DoneInv /\ OkMeansTaken
    BY <2>2 DEF SentInv, AckInv, DoneInv, OkMeansTaken, Init
  <2> QED BY <2>1, <2>3, <2>4 DEF OkInv
<1>2. OkInv /\ [Next]_vars => OkInv'
  <2> SUFFICES ASSUME OkInv, [Next]_vars PROVE OkInv'
    OBVIOUS
  <2>1. IInv'
    BY StepInv DEF OkInv
  <2>2. ASSUME NEW c \in Calls, Publisher(c) PROVE OkInv'
    BY <2>1, <2>2, BeginOk, AcquireOk, SendOk, WaitOk, LeaveOk DEF Publisher, OkInv
  <2>3. CASE Reader
    BY <2>1, <2>3, ReadAckOk, ReadPubrecOk, LinkOk DEF Reader, OkInv
  <2>4. CASE Broker
    BY <2>1, <2>4, BrokerOk, LinkOk DEF Broker, OkInv
  <2>5. CASE LoseLink \/ UNCHANGED vars
    BY <2>1, <2>5, LinkOk DEF OkInv
  <2> QED BY <2>2, <2>3, <2>4, <2>5 DEF Next, Quiescent
<1>3. OkInv => SlotsSound
  BY DEF OkInv, IInv, SlotsSound
<1> QED BY <1>1, <1>2, <1>3, PTL DEF Spec

-----------------------------------------------------------------------------
(* The session (MqttSession)                                               *)

\* Places of the reader where there is no socket, and of the application where
\* there is no reader.
Socketless == {"check", "decide", "mark", "backoff", "open", "exit"}
Readerless == {"prepare", "join finished", "open", "shake", "start", "close"}

\* client->running and client->thread follow the reader.
ThreadInv ==
    /\ running <=> ReaderAlive
    /\ ReaderAlive => thread = "set" /\ app \notin Readerless

\* Who has which socket.
SocketInv ==
    /\ {socket, asock, rsock} \subseteq 0..opened
    /\ rsock # 0 => reader \in {"reading", "shaking"}
    /\ asock # 0 => app \in {"join", "close"} /\ asock # socket
    /\ reader \in Socketless => socket = 0
    /\ ~ReaderAlive /\ app \notin {"shake", "start"} => socket = 0
    /\ \A s \in Sockets : s > opened => closes[s] = 0

SessionInv == SessionTypeOK /\ ThreadInv /\ SocketInv /\ SocketsOwned

-----------------------------------------------------------------------------
(* The socket                                                              *)

\* Steps that neither open nor close a socket.
LEMMA SocketsStay ==
    ASSUME SessionInv, UNCHANGED <<socket, opened, closes, asock>>,
           rsock' \in {rsock, 0, socket}, rsock' # 0 => reader' \in {"reading",
                "shaking"},
           asock # 0 => app' \in {"join", "close"},
           reader' \in Socketless => socket = 0,
           ~ReaderAlive' /\ app' \notin {"shake", "start"} => socket = 0
    PROVE  SocketInv' /\ SocketsOwned'
<1>1. opened \in Nat
  BY SessionAssumption DEF SessionInv, SessionTypeOK, SessionAssumption
<1>3. SocketInv'
  BY <1>1 DEF SessionInv, SocketInv, Sockets
<1>2. SocketsOwned'
  BY DEF SessionInv, SocketsOwned
<1> QED BY <1>2, <1>3

\* The next socket.
LEMMA SocketOpened ==
    ASSUME SessionInv, Open, socket = 0, rsock = 0, UNCHANGED <<rsock, asock>>,
           asock # 0 => app' \in {"join", "close"}, reader' \notin Socketless,
           ReaderAlive' \/ app' \in {"shake", "start"}
    PROVE  /\ SocketInv' /\ SocketsOwned'
           /\ socket' \in 0..MaxSockets /\ opened' \in 0..MaxSockets
           /\ closes' = closes /\ peer' = "up" /\ refusals' = refusals
<1>1. /\ opened' = opened + 1 /\ socket' = opened + 1 /\ closes' = closes
      /\ opened < MaxSockets /\ opened \in Nat /\ MaxSockets \in Nat
      /\ peer' = "up" /\ refusals' = refusals /\ opened' \in Sockets
  BY SessionAssumption DEF SessionInv, SessionTypeOK, Open, Sockets, SessionAssumption
<1>2. SocketInv'
  BY <1>1 DEF SessionInv, SocketInv, Sockets
<1>3. closes[opened'] = 0
  BY <1>1 DEF SessionInv, SocketInv
<1>4. SocketsOwned'
  <2>1. \A s \in 1..opened : closes[s] = 0 => s = asock
    BY DEF SessionInv, SocketsOwned
  <2>2. \A s \in 1..opened' : s \in 1..opened \/ s = opened'
    BY <1>1
  <2>3. asock # 0 => closes[asock] = 0
    BY DEF SessionInv, SocketsOwned
  <2> QED BY <1>1, <1>3, <2>1, <2>2, <2>3 DEF SocketsOwned
<1> QED BY <1>1, <1>2, <1>4

\* A socket is closed by whoever has taken it from the client.
LEMMA SocketClosed ==
    ASSUME SessionInv, DetachAndClose, UNCHANGED <<asock, opened>>, rsock' = 0,
           asock # 0 => app' \in {"join", "close"}
    PROVE  SocketInv' /\ SocketsOwned' /\ socket' = 0 /\ closes' \in [Sockets -> 0..1]
<1>1. /\ socket' = 0 /\ socket \in 0..opened /\ asock \in 0..opened
      /\ closes' = [s \in Sockets |-> IF s = socket THEN closes[s] + 1 ELSE closes[s]]
      /\ opened \in 0..MaxSockets /\ MaxSockets \in Nat /\ closes \in [Sockets -> 0..1]
  BY SessionAssumption DEF SessionInv, SessionTypeOK, SocketInv, DetachAndClose, SessionAssumption
<1>2. \A s \in Sockets : s = socket => closes[s] = 0
  BY <1>1 DEF SessionInv, SocketsOwned, Sockets
<1>3. closes' \in [Sockets -> 0..1]
  BY <1>1, <1>2
<1>4. SocketInv'
  BY <1>1 DEF SessionInv, SocketInv, Sockets
<1>5. SocketsOwned'
  <2>1. \A s \in 1..opened : s \in Sockets
    BY <1>1 DEF Sockets
  <2>2. asock # 0 => closes'[asock] = 0
    BY <1>1, <2>1 DEF SessionInv, SocketsOwned, SocketInv
  <2>3. ASSUME NEW s \in 1..opened, closes'[s] = 0 PROVE s = asock
    <3>1. s # socket
      BY <1>1, <1>2, <2>1, <2>3
    <3> QED BY <1>1, <2>1, <2>3, <3>1 DEF SessionInv, SocketsOwned
  <2> QED BY <1>1, <2>2, <2>3 DEF SocketsOwned
<1> QED BY <1>1, <1>3, <1>4, <1>5

-----------------------------------------------------------------------------
(* Steps                                                                   *)

\* Steps that touch no socket, and do not start or end the reader.
LEMMA Moves ==
    ASSUME SessionInv, SessionTypeOK', UNCHANGED <<socket, opened, closes, asock, rsock,
                                              running>>,
           reader' = reader \/ (ReaderAlive /\ ReaderAlive'),
           ReaderAlive => app' \notin Readerless,
           asock # 0 => app' \in {"join", "close"},
           ReaderAlive => thread' = "set",
           rsock # 0 => reader' \in {"reading", "shaking"},
           reader' \in Socketless => socket = 0,
           ~ReaderAlive' /\ app' \notin {"shake", "start"} => socket = 0
    PROVE  SessionInv'
<1>1. ThreadInv'
  BY DEF SessionInv, ThreadInv, ReaderAlive
<1>2. SocketInv' /\ SocketsOwned'
  BY SocketsStay
<1> QED BY <1>1, <1>2 DEF SessionInv

\* The steps of the application that leave the sockets alone.
LEMMA AppMoves ==
    ASSUME SessionInv,
           \/ ConnectCall \/ ConnectWait \/ ConnectPrepare \/ ConnectJoin
           \/ DisconnectCall \/ DisconnectStop \/ DisconnectMark \/ DisconnectJoin
    PROVE  SessionInv'
<1>1. UNCHANGED <<socket, opened, closes, asock, rsock, running, reader>>
  BY DEF ConnectCall, ConnectWait, ConnectPrepare, ConnectJoin, DisconnectCall,
         DisconnectStop, DisconnectMark, DisconnectJoin, AppGoto, AppReturn, flags, state,
         wire, rvars, avars
<1>2. SessionTypeOK'
  <2>1. CASE ConnectCall
    <3>1. ops' \in 0..MaxOps
      BY <2>1, SessionAssumption DEF SessionInv, SessionTypeOK, ConnectCall, SessionAssumption
    <3>2. app' \in AppPlaces
      BY <2>1 DEF ConnectCall, AppPlaces
    <3>3. was_accepted' \in BOOLEAN /\ UNCHANGED <<asock, call_ok, thread, flags, state,
                                                       wire, rvars>>
      BY <2>1 DEF ConnectCall
    <3>4. UNCHANGED <<stopping, automatic_reconnect, user_disconnect, running,
                      is_connected, server_disconnect, socket, opened, closes,
                      peer, refusals, reader, rsock, ping, will_reconnect, asock, call_ok, thread>>
      BY <3>3 DEF flags, state, wire, rvars
    <3> QED BY <3>1, <3>2, <3>3, <3>4 DEF SessionInv, SessionTypeOK
  <2>2. CASE ConnectWait \/ ConnectPrepare \/ ConnectJoin
    <3>1. /\ app' \in AppPlaces /\ call_ok' \in BOOLEAN /\ thread' \in {"null", "set"}
          /\ stopping' \in BOOLEAN /\ user_disconnect' \in BOOLEAN
      BY <2>2 DEF SessionInv, SessionTypeOK, ConnectWait, ConnectPrepare, ConnectJoin,
                  AppGoto, AppReturn, flags, AppPlaces
    <3>2. UNCHANGED <<automatic_reconnect, running, is_connected, server_disconnect, socket,
                      opened, closes, peer, refusals, reader, rsock, ping, will_reconnect,
                      was_accepted, asock, ops>>
      BY <2>2 DEF ConnectWait, ConnectPrepare, ConnectJoin, AppGoto, AppReturn, flags, state,
                  wire, rvars
    <3> QED BY <3>1, <3>2 DEF SessionInv, SessionTypeOK
  <2>3. CASE DisconnectCall
    BY <2>3, SessionAssumption DEF SessionInv, SessionTypeOK, DisconnectCall, At, state, rvars,
            AppPlaces, SessionAssumption
  <2>4. CASE DisconnectStop \/ DisconnectMark \/ DisconnectJoin
    <3>1. /\ app' \in AppPlaces /\ thread' \in {"null", "set"}
          /\ stopping' \in BOOLEAN /\ automatic_reconnect' \in BOOLEAN
          /\ is_connected' \in BOOLEAN /\ call_ok' \in BOOLEAN
      BY <2>4 DEF SessionInv, SessionTypeOK, DisconnectStop, DisconnectMark, DisconnectJoin,
                  AppGoto, flags, state, AppPlaces
    <3>2. UNCHANGED <<user_disconnect, running, server_disconnect, socket, opened, closes,
                      peer, refusals, reader, rsock, ping, will_reconnect, was_accepted,
                      asock, ops>>
      BY <2>4 DEF DisconnectStop, DisconnectMark, DisconnectJoin, AppGoto, flags, state,
                  wire, rvars
    <3> QED BY <3>1, <3>2 DEF SessionInv, SessionTypeOK
  <2> QED BY <2>1, <2>2, <2>3, <2>4
<1>3. ReaderAlive => app' \notin Readerless
  BY DEF SessionInv, ThreadInv, ConnectCall, ConnectWait, ConnectPrepare, ConnectJoin,
         DisconnectCall, DisconnectStop, DisconnectMark, DisconnectJoin, At, AppGoto,
         AppReturn, Readerless, ReaderAlive
<1>4. asock # 0 => app' \in {"join", "close"}
  BY DEF SessionInv, SocketInv, ConnectCall, ConnectWait, ConnectPrepare, ConnectJoin,
         DisconnectCall, DisconnectStop, DisconnectMark, DisconnectJoin, At, AppGoto,
         AppReturn
<1>5. ReaderAlive => thread' = "set"
  BY DEF SessionInv, ThreadInv, ConnectCall, ConnectWait, ConnectPrepare, ConnectJoin,
         DisconnectCall, DisconnectStop, DisconnectMark, DisconnectJoin, ReaderAlive
<1>6. app \notin {"shake", "start"}
  BY DEF ConnectCall, ConnectWait, ConnectPrepare, ConnectJoin, DisconnectCall,
         DisconnectStop, DisconnectMark, DisconnectJoin, At
<1>7. /\ rsock # 0 => reader \in {"reading", "shaking"}
      /\ reader \in Socketless => socket = 0
      /\ ~ReaderAlive => socket = 0
  BY <1>6 DEF SessionInv, SocketInv
<1>8. ReaderAlive' <=> ReaderAlive
  BY <1>1 DEF ReaderAlive
<1> QED BY <1>1, <1>2, <1>3, <1>4, <1>5, <1>7, <1>8, Moves

\* The steps of the reader that leave the sockets alone.
LEMMA ReaderMoves ==
    ASSUME SessionInv,
           \/ ReaderCheck \/ ReaderDecide \/ ReaderMark \/ ReaderBackoff
           \/ ReaderEstablish \/ PeerChange \/ Rest
    PROVE  SessionInv'
<1>1. UNCHANGED <<socket, opened, closes, asock, rsock, running, thread, app>>
  BY DEF ReaderCheck, ReaderDecide, ReaderMark, ReaderBackoff, ReaderEstablish, PeerChange,
         Rest, Step, Establish, flags, state, wire, rvars, avars, session_vars
<1>2. SessionTypeOK'
  <2>1. CASE ReaderCheck \/ ReaderDecide \/ ReaderMark \/ ReaderBackoff
    <3>1. reader' \in ReaderPlaces
      BY <2>1 DEF ReaderCheck, ReaderDecide, ReaderMark, ReaderBackoff, Step, ReaderPlaces
    <3>2. will_reconnect' \in BOOLEAN
      <4>1. will_reconnect' = will_reconnect \/ will_reconnect' = Wanted
        BY <2>1 DEF ReaderCheck, ReaderDecide, ReaderMark, ReaderBackoff
      <4>2. Wanted \in BOOLEAN
        BY DEF Wanted, SessionInv, SessionTypeOK
      <4> QED BY <4>1, <4>2, Zenon DEF SessionInv, SessionTypeOK
    <3>3. is_connected' \in BOOLEAN
      BY <2>1 DEF SessionInv, SessionTypeOK, ReaderCheck, ReaderDecide, ReaderMark,
                  ReaderBackoff, state
    <3>4. UNCHANGED <<flags, running, server_disconnect, wire, avars, rsock, ping,
                      was_accepted>>
      BY <2>1 DEF ReaderCheck, ReaderDecide, ReaderMark, ReaderBackoff, Step, state
    <3> QED BY <3>1, <3>2, <3>3, <3>4 DEF SessionInv, SessionTypeOK, flags, wire, avars
  <2>2. CASE ReaderEstablish
    BY <2>2 DEF SessionInv, SessionTypeOK, ReaderEstablish, Establish, flags, wire, avars,
                ReaderPlaces
  <2>3. CASE PeerChange
    BY <2>3 DEF SessionInv, SessionTypeOK, PeerChange, flags, state, rvars, avars
  <2>4. CASE Rest
    BY <2>4 DEF SessionInv, SessionTypeOK, Rest, session_vars, flags, state, wire, rvars, avars
  <2> QED BY <2>1, <2>2, <2>3, <2>4
<1>3. /\ \/ reader' = reader
         \/ reader \in Socketless /\ reader' \in Socketless \ {"check"}
         \/ reader = "established" /\ reader' = "session"
      /\ rsock # 0 => reader' = reader
  BY DEF SessionInv, SocketInv, ReaderCheck, ReaderDecide, ReaderMark, ReaderBackoff,
         ReaderEstablish, PeerChange, Rest, Step, rvars, session_vars, Socketless
<1>4. /\ reader' = reader \/ (ReaderAlive /\ ReaderAlive')
      /\ reader' \in Socketless => reader \in Socketless
  BY <1>3 DEF ReaderAlive, Socketless
<1>5. /\ ReaderAlive => app \notin Readerless /\ thread = "set"
      /\ asock # 0 => app \in {"join", "close"}
      /\ rsock # 0 => reader' \in {"reading", "shaking"}
      /\ reader \in Socketless => socket = 0
      /\ ~ReaderAlive /\ app \notin {"shake", "start"} => socket = 0
  BY <1>3 DEF SessionInv, ThreadInv, SocketInv
<1>6. ~ReaderAlive' => ~ReaderAlive
  BY <1>4 DEF ReaderAlive
<1> QED BY <1>1, <1>2, <1>4, <1>5, <1>6, Moves

\* The steps in which the reader takes its copy of the socket, or gives it up.
LEMMA ReaderReads ==
    ASSUME SessionInv,
           \/ ReaderLoop \/ ReaderIdle \/ ReaderKeepAlive \/ ReaderEof
           \/ ReaderServerDisconnect \/ ReaderShake
    PROVE  SessionInv'
<1>1. UNCHANGED <<flags, running, is_connected, wire, avars, will_reconnect,
                  was_accepted>>
  BY DEF ReaderLoop, ReaderIdle, ReaderKeepAlive, ReaderEof, ReaderServerDisconnect,
         ReaderShake, state
<1>2. /\ ReaderAlive /\ reader' \in {"detach", "reading", "session", "backoff", "shaking"}
      /\ reader' \in Socketless => socket = 0
      /\ rsock' \in {0, socket} /\ (rsock' # 0 => reader' \in {"reading", "shaking"})
  BY DEF ReaderLoop, ReaderIdle, ReaderKeepAlive, ReaderEof, ReaderServerDisconnect,
         ReaderShake, ReaderAlive, Socketless
<1>3. SessionTypeOK'
  <2>1. reader' \in ReaderPlaces
    BY <1>2 DEF ReaderPlaces
  <2>2. rsock' \in 0..MaxSockets
    BY <1>2, SessionAssumption DEF SessionInv, SessionTypeOK, SessionAssumption
  <2>3. server_disconnect' \in {"none", "disconnect", "takeover"}
    BY DEF SessionInv, SessionTypeOK, ReaderLoop, ReaderIdle, ReaderKeepAlive, ReaderEof,
           ReaderServerDisconnect, ReaderShake, state
  <2>4. ping' \in BOOLEAN
    <3>1. \/ ping' = ping
          \/ ping' = (ping \/ (KeepAlive /\ is_connected))
      BY DEF ReaderLoop, ReaderIdle, ReaderKeepAlive, ReaderEof, ReaderServerDisconnect,
             ReaderShake
    <3> QED BY <3>1 DEF SessionInv, SessionTypeOK
  <2> QED BY <1>1, <2>1, <2>2, <2>3, <2>4 DEF SessionInv, SessionTypeOK, flags, wire, avars
<1>4. ReaderAlive'
  BY <1>2 DEF ReaderAlive
<1>5. ThreadInv'
  BY <1>1, <1>2, <1>4 DEF SessionInv, ThreadInv, avars
<1>6. /\ UNCHANGED <<socket, opened, closes, asock>>
      /\ asock # 0 => app' \in {"join", "close"}
  BY <1>1 DEF wire, avars, SessionInv, SocketInv
<1>7. SocketInv' /\ SocketsOwned'
  BY <1>2, <1>4, <1>6, SocketsStay
<1> QED BY <1>3, <1>5, <1>7 DEF SessionInv

\* The steps in which the reader opens or closes a socket, or ends.
LEMMA ReaderOpens ==
    ASSUME SessionInv, ReaderOpen \/ ReaderShaken \/ ReaderDetach
    PROVE  SessionInv'
<1>1. /\ UNCHANGED <<flags, state, avars, was_accepted, will_reconnect, ping>>
      /\ ReaderAlive
      /\ reader' \in {"shake", "backoff", "established", "check"}
      /\ refusals' = refusals \/ Refused
  BY DEF ReaderOpen, ReaderShaken, ReaderDetach, Step, ReaderAlive, wire, Open
<1>2. ReaderAlive' /\ reader' \in ReaderPlaces
  BY <1>1 DEF ReaderAlive, ReaderPlaces
<1>3. ThreadInv'
  BY <1>1, <1>2 DEF SessionInv, ThreadInv, avars, state
<1>4. refusals' \in 0..MaxRefusals
  BY <1>1, SessionAssumption DEF SessionInv, SessionTypeOK, Refused, SessionAssumption
<1>5. asock # 0 => app' \in {"join", "close"}
  BY <1>1 DEF SessionInv, SocketInv, avars
<1>6. /\ SocketInv' /\ SocketsOwned' /\ closes' \in [Sockets -> 0..1]
      /\ socket' \in 0..MaxSockets /\ opened' \in 0..MaxSockets
            /\ rsock' \in 0..MaxSockets
      /\ peer' \in {"up", "silent", "gone", "disconnect", "takeover"}
  <2>1. /\ asock' = asock /\ rsock \in 0..MaxSockets /\ socket \in 0..MaxSockets
        /\ opened \in 0..MaxSockets /\ 0 \in 0..MaxSockets /\ closes \in [Sockets -> 0..1]
        /\ peer \in {"up", "silent", "gone", "disconnect", "takeover"}
    BY <1>1, SessionAssumption DEF avars, SessionInv, SessionTypeOK, SessionAssumption
  <2>2. CASE reader = "open" /\ reader' = "shake" /\ Open /\ rsock' = rsock
    <3>1. socket = 0 /\ rsock = 0 /\ reader' \notin Socketless
      BY <2>2 DEF SessionInv, SocketInv, Socketless
    <3> QED BY <1>2, <1>5, <2>1, <2>2, <3>1, SocketOpened
  <2>3. CASE DetachAndClose /\ opened' = opened /\ rsock' = 0
    <3>1. peer' \in {"up", "silent", "gone", "disconnect", "takeover"}
      BY <2>1, <2>3 DEF DetachAndClose
    <3> QED BY <1>5, <2>1, <2>3, <3>1, SocketClosed
  <2>4. CASE /\ UNCHANGED <<socket, opened, closes, peer>> /\ rsock' \in {0, rsock}
             /\ rsock' # 0 => reader' = reader
             /\ reader' \in Socketless => reader \in Socketless
    <3>1. /\ reader' \in Socketless => socket = 0
          /\ rsock' # 0 => reader' \in {"reading", "shaking"}
      BY <2>4 DEF SessionInv, SocketInv
    <3>2. SocketInv' /\ SocketsOwned'
      BY <1>2, <1>5, <2>1, <2>4, <3>1, SocketsStay
    <3> QED BY <2>1, <2>4, <3>2
  <2>5. CASE ReaderOpen
    <3>1. rsock = 0
      BY <2>5 DEF SessionInv, SocketInv, ReaderOpen, Step
    <3> QED BY <2>2, <2>4, <2>5, <3>1 DEF ReaderOpen, Step, Socketless
  <2>6. CASE ReaderShaken
    BY <2>3, <2>4, <2>6 DEF ReaderShaken, wire, Socketless
  <2>7. CASE ReaderDetach
    <3>1. rsock = 0
      BY <2>7 DEF SessionInv, SocketInv, ReaderDetach, Step
    <3> QED BY <2>3, <2>7, <3>1 DEF ReaderDetach, Step
  <2> QED BY <2>5, <2>6, <2>7
<1>7. SessionTypeOK'
  BY <1>1, <1>2, <1>4, <1>6 DEF SessionInv, SessionTypeOK, flags, state, avars
<1> QED BY <1>3, <1>6, <1>7 DEF SessionInv

\* The reader ends.
LEMMA ReaderEnds == ASSUME SessionInv, ReaderExit PROVE SessionInv'
<1>1. /\ reader = "exit" /\ reader' = "finished" /\ running' = FALSE
      /\ UNCHANGED <<will_reconnect, flags, is_connected, server_disconnect, wire,
                     was_accepted, avars, rsock, ping>>
  BY DEF ReaderExit, Step
<1>2. ReaderAlive /\ ~ReaderAlive'
  BY <1>1 DEF ReaderAlive
<1>3. SessionTypeOK'
  <2>1. UNCHANGED <<stopping, automatic_reconnect, user_disconnect, is_connected,
                    socket, opened, server_disconnect, closes, peer, rsock, ping,
                    will_reconnect, app, asock, thread, call_ok, was_accepted, ops, refusals>>
    BY <1>1 DEF flags, wire, avars
  <2>2. reader' \in ReaderPlaces /\ running' \in BOOLEAN
    BY <1>1 DEF ReaderPlaces
  <2> QED BY <2>1, <2>2 DEF SessionInv, SessionTypeOK
<1>4. ThreadInv'
  BY <1>1, <1>2 DEF ThreadInv
<1>5. /\ UNCHANGED <<socket, opened, closes, asock, app>> /\ socket = 0 /\ rsock = 0
      /\ asock # 0 => app' \in {"join", "close"}
  BY <1>1 DEF wire, avars, SessionInv, SocketInv, Socketless
<1>6. SocketInv' /\ SocketsOwned'
  BY <1>1, <1>5, SocketsStay DEF Socketless
<1> QED BY <1>3, <1>4, <1>6 DEF SessionInv

\* A connection is opened by the application, of which there is no reader.
LEMMA AppOpens ==
    ASSUME SessionInv, ~StartMayFail, ConnectOpen \/ ConnectShake \/ ConnectStart
    PROVE  SessionInv'
<1>1. ~ReaderAlive /\ rsock = 0 /\ asock = 0 /\ app \in {"open", "shake", "start"}
  BY DEF SessionInv, ThreadInv, SocketInv, ReaderAlive, ConnectOpen, ConnectShake,
         ConnectStart, At, Readerless
<1>2. /\ asock' = asock /\ rsock' = rsock /\ UNCHANGED <<flags, will_reconnect, ops>>
  BY DEF ConnectOpen, ConnectShake, ConnectStart, AppGoto, AppReturn, rvars
<1>3. CASE ConnectOpen
  <2>1. /\ app = "open" /\ app' \in {"shake", "idle"} /\ call_ok' \in {call_ok, FALSE}
        /\ UNCHANGED <<thread, flags, state, rvars, was_accepted>>
        /\ \/ Open /\ app' = "shake"
           \/ Refused /\ app' = "idle" /\ UNCHANGED <<socket, opened, closes, peer>>
    BY <1>3 DEF ConnectOpen, At, AppGoto, AppReturn
  <2>2. socket = 0 /\ reader' = reader /\ running' = running /\ reader \notin Socketless
    BY <1>1, <2>1 DEF SessionInv, SocketInv, rvars, state, ReaderAlive, Socketless
  <2>3. /\ SocketInv' /\ SocketsOwned'
        /\ socket' \in 0..MaxSockets /\ opened' \in 0..MaxSockets
        /\ closes' \in [Sockets -> 0..1] /\ refusals' \in 0..MaxRefusals
        /\ peer' \in {"up", "silent", "gone", "disconnect", "takeover"}
    <3>1. CASE Open /\ app' = "shake"
      BY <1>1, <1>2, <2>1, <2>2, <3>1, SocketOpened DEF SessionInv, SessionTypeOK
    <3>2. CASE Refused /\ app' = "idle" /\ UNCHANGED <<socket, opened, closes, peer>>
      <4>1. SocketInv' /\ SocketsOwned'
        BY <1>1, <1>2, <2>2, <3>2, SocketsStay
      <4>2. refusals' \in 0..MaxRefusals
        BY <3>2, SessionAssumption DEF SessionInv, SessionTypeOK, Refused, SessionAssumption
      <4> QED BY <3>2, <4>1, <4>2 DEF SessionInv, SessionTypeOK
    <3> QED BY <2>1, <3>1, <3>2
  <2>4. SessionTypeOK'
    <3>1. app' \in AppPlaces /\ call_ok' \in BOOLEAN
      BY <2>1 DEF SessionInv, SessionTypeOK, AppPlaces
    <3>2. UNCHANGED <<stopping, automatic_reconnect, user_disconnect, running,
                      is_connected, server_disconnect, reader, rsock, ping,
                      will_reconnect, asock, thread, was_accepted, ops>>
      BY <1>2, <2>1 DEF flags, state, rvars
    <3> QED BY <2>3, <3>1, <3>2 DEF SessionInv, SessionTypeOK
  <2>5. ThreadInv'
    BY <1>1, <2>1, <2>2 DEF SessionInv, ThreadInv, ReaderAlive
  <2> QED BY <2>3, <2>4, <2>5 DEF SessionInv
<1>4. CASE ConnectShake
  <2>1. /\ app = "shake" /\ UNCHANGED <<thread, flags, running, rvars>>
        /\ \/ app' = "start" /\ call_ok' = call_ok /\ UNCHANGED wire /\ Establish
           \/ /\ Refused \/ UNCHANGED refusals
              /\ DetachAndClose /\ app' = "idle" /\ call_ok' = FALSE
              /\ UNCHANGED <<opened, is_connected, server_disconnect, was_accepted>>
    BY <1>4 DEF ConnectShake, At, AppGoto, AppReturn
  <2>2. reader' = reader /\ reader \notin Socketless /\ ~ReaderAlive'
    BY <1>1, <2>1 DEF rvars, ReaderAlive, Socketless
  <2>3. ThreadInv'
    BY <1>1, <2>1, <2>2 DEF SessionInv, ThreadInv
  <2>4. CASE app' = "start" /\ call_ok' = call_ok /\ UNCHANGED wire /\ Establish
    <3>1. SocketInv' /\ SocketsOwned'
      BY <1>1, <1>2, <2>2, <2>4, SocketsStay DEF wire
    <3>2. SessionTypeOK'
      BY <1>2, <2>1, <2>4 DEF SessionInv, SessionTypeOK, flags, wire, rvars, AppPlaces,
                              Establish
    <3> QED BY <2>3, <3>1, <3>2 DEF SessionInv
  <2>5. CASE /\ Refused \/ UNCHANGED refusals
             /\ DetachAndClose /\ app' = "idle" /\ call_ok' = FALSE
             /\ UNCHANGED <<opened, is_connected, server_disconnect, was_accepted>>
    <3>1. SocketInv' /\ SocketsOwned' /\ socket' = 0 /\ closes' \in [Sockets -> 0..1]
      BY <1>1, <1>2, <2>5, SocketClosed
    <3>2. refusals' \in 0..MaxRefusals /\ 0 \in 0..MaxSockets
      BY <2>5, SessionAssumption DEF SessionInv, SessionTypeOK, Refused, SessionAssumption
    <3>3. peer' \in {"up", "silent", "gone", "disconnect", "takeover"}
      BY <2>5 DEF SessionInv, SessionTypeOK, DetachAndClose
    <3>4. SessionTypeOK'
      <4>1. UNCHANGED <<stopping, automatic_reconnect, user_disconnect, running, reader,
                        rsock, ping, will_reconnect, opened, is_connected,
                        server_disconnect, was_accepted>>
        BY <2>1, <2>5 DEF flags, rvars
      <4>2. app' \in AppPlaces /\ call_ok' \in BOOLEAN /\ socket' \in 0..MaxSockets
        BY <2>5, <3>1, <3>2 DEF AppPlaces
      <4>3. UNCHANGED <<thread, asock, ops>>
        BY <1>2, <2>1
      <4> QED BY <3>1, <3>2, <3>3, <4>1, <4>2, <4>3 DEF SessionInv, SessionTypeOK
    <3> QED BY <2>3, <3>1, <3>4 DEF SessionInv
  <2> QED BY <2>1, <2>4, <2>5
<1>5. CASE ConnectStart
  <2>1. /\ app' = "idle" /\ call_ok' = TRUE /\ running' = TRUE /\ thread' = "set"
        /\ reader' = "session" /\ ping' = FALSE
        /\ UNCHANGED <<flags, is_connected, server_disconnect, wire, rsock,
                       will_reconnect, was_accepted, asock, ops>>
    BY <1>5 DEF ConnectStart, AppReturn
  <2>2. ReaderAlive' /\ reader' \notin Socketless
    BY <2>1 DEF ReaderAlive, Socketless
  <2>3. ThreadInv'
    BY <2>1, <2>2 DEF ThreadInv, Readerless
  <2>4. SocketInv' /\ SocketsOwned'
    BY <1>1, <2>1, <2>2, SocketsStay DEF wire
  <2>5. SessionTypeOK'
    <3>1. app' \in AppPlaces /\ reader' \in ReaderPlaces
      BY <2>1 DEF AppPlaces, ReaderPlaces
    <3>2. UNCHANGED <<stopping, automatic_reconnect, user_disconnect, is_connected,
                      server_disconnect, socket, opened, closes, peer, refusals, rsock,
                      will_reconnect, was_accepted, asock, ops>>
      BY <2>1 DEF flags, wire
    <3> QED BY <2>1, <3>1, <3>2 DEF SessionInv, SessionTypeOK
  <2> QED BY <2>3, <2>4, <2>5 DEF SessionInv
<1> QED BY <1>3, <1>4, <1>5

\* The application takes the socket from the client, and closes it when the reader
\* has ended.
LEMMA AppCloses == ASSUME SessionInv, DisconnectDetach \/ DisconnectClose PROVE SessionInv'
<1>1. CASE DisconnectDetach
  <2>1. /\ app = "detach" /\ app' = "join" /\ asock' = socket /\ socket' = 0
        /\ peer' \in {peer, "gone"}
        /\ UNCHANGED <<call_ok, ops, opened, closes, refusals, thread, flags, state, rvars,
                       was_accepted>>
    BY <1>1 DEF DisconnectDetach, At
  <2>2. /\ asock = 0 /\ reader' = reader /\ rsock' = rsock /\ running' = running
        /\ opened \in Nat /\ 0 \in 0..MaxSockets
    BY <2>1, SessionAssumption
       DEF SessionInv, SocketInv, rvars, state, SessionTypeOK, SessionAssumption
  <2>3. SessionTypeOK'
    BY <2>1, <2>2 DEF SessionInv, SessionTypeOK, flags, state, rvars, AppPlaces
  <2>4. ThreadInv'
    BY <2>1, <2>2 DEF SessionInv, ThreadInv, ReaderAlive, Readerless
  <2>5. SocketInv'
    BY <2>1, <2>2 DEF SessionInv, SocketInv, ReaderAlive
  <2>6. SocketsOwned'
    BY <2>1, <2>2 DEF SessionInv, SocketsOwned
  <2> QED BY <2>3, <2>4, <2>5, <2>6 DEF SessionInv
<1>2. CASE DisconnectClose
  <2>1. /\ app = "close" /\ app' = "idle" /\ asock' = 0 /\ call_ok' = TRUE /\ running' = FALSE
        /\ closes' = [s \in Sockets |-> IF s = asock THEN closes[s] + 1 ELSE closes[s]]
        /\ UNCHANGED <<ops, socket, opened, peer, refusals, thread, flags,
                       is_connected, server_disconnect, rvars, was_accepted>>
    BY <1>2 DEF DisconnectClose, At
  <2>2. ~ReaderAlive /\ rsock = 0 /\ socket = 0 /\ reader' = reader /\ rsock' = rsock
    BY <2>1 DEF SessionInv, ThreadInv, SocketInv, ReaderAlive, Readerless, rvars
  <2>3. /\ asock \in 0..opened /\ opened \in 0..MaxSockets /\ MaxSockets \in Nat
        /\ closes \in [Sockets -> 0..1]
    BY SessionAssumption DEF SessionInv, SocketInv, SessionTypeOK, SessionAssumption
  <2>4. \A s \in Sockets : s = asock => closes[s] = 0
    BY <2>3 DEF SessionInv, SocketsOwned, Sockets
  <2>5. closes' \in [Sockets -> 0..1]
    BY <2>1, <2>3, <2>4
  <2>6. SessionTypeOK'
    <3>1. /\ app' \in AppPlaces /\ call_ok' \in BOOLEAN /\ running' \in BOOLEAN
          /\ asock' \in 0..MaxSockets
      <4>1. 0 \in 0..MaxSockets
        BY <2>3
      <4> QED BY <2>1, <4>1 DEF AppPlaces
    <3>2. UNCHANGED <<stopping, automatic_reconnect, user_disconnect, is_connected, peer,
                      server_disconnect, reader, rsock, ping, will_reconnect, thread,
                      was_accepted, ops, socket, opened, refusals>>
      BY <2>1 DEF flags, rvars
    <3> QED BY <2>5, <3>1, <3>2 DEF SessionInv, SessionTypeOK
  <2>7. ThreadInv'
    BY <2>1, <2>2 DEF ThreadInv, ReaderAlive
  <2>8. SocketInv'
    BY <2>1, <2>2, <2>3 DEF SessionInv, SocketInv, ReaderAlive, Sockets
  <2>9. SocketsOwned'
    <3>1. ASSUME NEW s \in 1..opened, closes'[s] = 0 PROVE FALSE
      <4>1. s \in Sockets
        BY <2>3 DEF Sockets
      <4>2. s # asock /\ closes[s] = 0
        BY <2>1, <2>3, <2>4, <3>1, <4>1
      <4> QED BY <2>2, <4>2 DEF SessionInv, SocketsOwned
    <3> QED BY <2>1, <2>2, <3>1 DEF SocketsOwned
  <2> QED BY <2>6, <2>7, <2>8, <2>9 DEF SessionInv
<1> QED BY <1>1, <1>2

-----------------------------------------------------------------------------
(* Theorems                                                                *)

\* The invariant holds at the start.
LEMMA InitSession == ASSUME SessionInit PROVE SessionInv
<1>1. 0 \in 0..MaxSockets /\ 0 \in 0..MaxOps /\ 0 \in 0..MaxRefusals /\ 1..0 = {}
  BY SessionAssumption DEF SessionAssumption
<1>2. SessionTypeOK
  <2>1. Automatic \in BOOLEAN
    BY SessionAssumption DEF SessionAssumption
  <2>2. automatic_reconnect \in BOOLEAN
    BY <2>1, Zenon DEF SessionInit
  <2>3. closes \in [Sockets -> 0..1]
    BY DEF SessionInit
  <2>4. reader \in ReaderPlaces /\ app \in AppPlaces
    BY DEF SessionInit, ReaderPlaces, AppPlaces
  <2>5. /\ stopping = FALSE /\ user_disconnect = FALSE /\ running = FALSE
        /\ is_connected = FALSE
        /\ ping = FALSE /\ will_reconnect = FALSE /\ call_ok = FALSE /\ was_accepted = FALSE
        /\ server_disconnect = "none" /\ peer = "gone" /\ thread = "null"
        /\ socket = 0 /\ opened = 0 /\ rsock = 0 /\ asock = 0 /\ ops = 0 /\ refusals = 0
    BY DEF SessionInit
  <2> QED BY <1>1, <2>2, <2>3, <2>4, <2>5 DEF SessionTypeOK
<1>3. ThreadInv /\ SocketInv
  BY DEF SessionInit, ThreadInv, SocketInv, ReaderAlive, Socketless
<1>4. SocketsOwned
  BY <1>1 DEF SessionInit, SocketsOwned
<1> QED BY <1>2, <1>3, <1>4 DEF SessionInv

\* Every step keeps it.
LEMMA StepSession == ASSUME ~StartMayFail, SessionInv, [SessionNext]_session_vars PROVE SessionInv'
<1>1. CASE UNCHANGED session_vars
  BY <1>1 DEF SessionInv, SessionTypeOK, ThreadInv, SocketInv, SocketsOwned, ReaderAlive,
              session_vars, flags, state, wire, rvars, avars
<1>2. CASE ConnectCall \/ DisconnectCall \/ App
  BY <1>2, AppMoves, AppOpens, AppCloses DEF App
<1>3. CASE SessionReader
  BY <1>3, ReaderMoves, ReaderReads, ReaderOpens, ReaderEnds DEF SessionReader
<1>4. CASE PeerChange \/ Rest
  BY <1>4, ReaderMoves
<1> QED BY <1>1, <1>2, <1>3, <1>4 DEF SessionNext

\* Every socket is closed once, never under a receive, and none is forgotten; and
\* client->running tells whether there is a reader: for any number of calls,
\* sockets and failures to connect, as long as a thread can be started.
THEOREM SessionCorrect ==
    ASSUME ~StartMayFail
    PROVE  SessionSpec => []SessionSound
<1>1. SessionInit => SessionInv
  BY InitSession
<1>2. SessionInv /\ [SessionNext]_session_vars => SessionInv'
  BY StepSession
<1>3. SessionInv => SessionSound
  BY DEF SessionInv, SessionSound, ThreadInv, RunningMeansReader
<1> QED BY <1>1, <1>2, <1>3, PTL DEF SessionSpec

-----------------------------------------------------------------------------
(* Subscriptions: what the calls and the configuration must be             *)

Subscribes(c)   == Kind[c] = "subscribe"
Unsubscribes(c) == Kind[c] = "unsubscribe"

\* No filter is both subscribed and unsubscribed, ...
Distinct == \A c, d \in FilterCalls : Subscribes(c) /\ Unsubscribes(d) => Filter[c] # Filter[d]
\* ... the table has room for every filter that is ever to be in it, ...
Known == {Remembered[i] : i \in DOMAIN Remembered}
            \cup {Filter[c] : c \in {d \in FilterCalls : Subscribes(d)}}
Room == IsFiniteSet(Known) /\ Cardinality(Known) <= MaxSubs
\* ... and neither a call nor the restore ever finds every slot for a SUBACK taken.
SlotLeft ==
    (\E c \in FilterCalls : stage[c] = "acquire") \/ restore.step = "acquire" =>
        SlotsTaken # MaxSubacks

-----------------------------------------------------------------------------
(* Subscriptions: the invariant                                            *)

SubsPacket ==
    [kind : {"subscribe", "unsubscribe"}, filter : Filters, call : FilterCalls \cup {NoCaller}]
Ack == [call : FilterCalls \cup {NoCaller}, ok : BOOLEAN]
Local  == [step : Steps, i : 0..MaxSubs + 1, count : 0..MaxSubs, filter : Filters \cup {NoFilter}]

\* The locals of the restore
RestoreOK ==
    /\ restore.step \in {"idle", "count", "read"} => restore.filter = NoFilter
    /\ restore.step \in {"remember", "acquire", "send"} =>
          restore.filter # NoFilter /\ restore.i <= restore.count
    /\ restore.step = "read" => restore.i <= restore.count + 1
    /\ restore.step \notin {"idle", "count"} => restore.i >= 1
    /\ linked => online
    /\ ~online => restore.step = "idle"

\* The table holds what is subscribed, and nothing that is unsubscribed.
TableOK ==
    /\ InTable \subseteq Known
    /\ restore.filter # NoFilter => restore.filter \in InTable
    /\ \A c \in FilterCalls : stage[c] # "start" =>
          /\ Subscribes(c) => Filter[c] \in InTable
          /\ Unsubscribes(c) => Filter[c] \notin InTable

\* Packets and answers are those of calls that have sent, or of the restore.
PacketOK(p) ==
    /\ p.call = NoCaller => p.kind = "subscribe"
    /\ p.call # NoCaller => /\ stage[p.call] \in {"wait", "returned"}
                          /\ p.kind = Kind[p.call] /\ p.filter = Filter[p.call]
Accepted(c) == (Subscribes(c) => Filter[c] \notin Denied)
AcksOK ==
    /\ \A p \in ToSet(outgoing) : PacketOK(p)
    /\ \A a \in ToSet(incoming) : a.call # NoCaller =>
          stage[a.call] \in {"wait", "returned"} /\ (a.ok => Accepted(a.call))
    /\ \A c \in FilterCalls : reply[c] = "granted" \/ outcome[c] = "OK" =>
          stage[c] \in {"wait", "returned"} /\ Accepted(c)
    /\ \A c \in FilterCalls : outcome[c] = "OK" => stage[c] = "returned"

\* The session has a filter, or the broker will be asked for it by the restore.
Asked(f)   == f \in active \/ \E p \in ToSet(outgoing) : p.kind = "subscribe" /\ p.filter = f
Due(f) ==
    \/ restore.step = "count"
    \/ restore.step \in {"remember", "acquire", "send"} /\ restore.filter = f
    \/ /\ restore.step \notin {"idle", "count"}
       /\ \E k \in DOMAIN subs : k >= restore.i /\ k <= restore.count /\ subs[k] = f
                                 /\ (restore.step # "read" => k > restore.i)
Covered(f) == Asked(f) \/ Due(f)

\* What is in the table is covered, or a call that is about to ask for it is under way.
TableCovered ==
    linked => \A f \in InTable \ Denied : Covered(f) \/
        /\ \E c \in FilterCalls :
              Subscribes(c) /\ Filter[c] = f /\ stage[c] \in {"check", "acquire", "send"}
        /\ \A c \in FilterCalls : Subscribes(c) /\ Filter[c] = f =>
                                    stage[c] \notin {"wait", "returned"}

\* Once an UNSUBSCRIBE is under way nothing asks for its filter after it.
IsFor(p, f) == p.kind = "subscribe" /\ p.filter = f
Answered(d) == outcome[d] = "OK" \/ reply[d] = "granted" \/ \E a \in ToSet(incoming) : a.call = d
Withdrawn ==
    \A d \in FilterCalls : Unsubscribes(d) =>
        /\ \A i, j \in DOMAIN outgoing :
              i < j /\ outgoing[i].call = d => ~IsFor(outgoing[j], Filter[d])
        /\ Answered(d) => /\ Filter[d] \notin active
                          /\ \A p \in ToSet(outgoing) : ~IsFor(p, Filter[d])

SubsInv == SubsTypeOK /\ RestoreOK /\ TableOK /\ AcksOK /\ TableCovered /\ Withdrawn

-----------------------------------------------------------------------------
(* Packets in flight: what is appended and what is taken                   *)

LEMMA PacketAppended ==
    ASSUME NEW S, NEW q \in Seq(S), NEW e \in S
    PROVE  /\ Append(q, e) \in Seq(S) /\ Len(q) \in Nat /\ Len(Append(q, e)) = Len(q) + 1
           /\ DOMAIN q = 1..Len(q) /\ DOMAIN Append(q, e) = 1..Len(q) + 1
           /\ \A j \in 1..Len(q) : Append(q, e)[j] = q[j]
           /\ Append(q, e)[Len(q) + 1] = e
           /\ ToSet(Append(q, e)) = ToSet(q) \cup {e}
<1>1. /\ Append(q, e) \in Seq(S) /\ Len(q) \in Nat /\ Len(Append(q, e)) = Len(q) + 1
      /\ DOMAIN q = 1..Len(q) /\ DOMAIN Append(q, e) = 1..Len(q) + 1
      /\ \A j \in 1..Len(q) : Append(q, e)[j] = q[j]
      /\ Append(q, e)[Len(q) + 1] = e
  BY AppendProperties, LenProperties
<1> DEFINE p == Append(q, e)
<1> HIDE DEF p
<1>2. ToSet(p) = ToSet(q) \cup {e}
  <2>1. ASSUME NEW x \in ToSet(p) PROVE x \in ToSet(q) \cup {e}
    BY <1>1 DEF ToSet, p
  <2>2. ASSUME NEW x \in ToSet(q) PROVE x \in ToSet(p)
    BY <1>1 DEF ToSet, p
  <2>3. e \in ToSet(p)
    BY <1>1 DEF ToSet, p
  <2> QED BY <2>1, <2>2, <2>3
<1> QED BY <1>1, <1>2 DEF p

LEMMA HeadTaken ==
    ASSUME NEW S, NEW q \in Seq(S), q # <<>>
    PROVE  /\ Tail(q) \in Seq(S) /\ Head(q) \in S /\ Head(q) \in ToSet(q)
           /\ DOMAIN q = 1..Len(q) /\ Len(q) \in Nat /\ Len(q) >= 1
           /\ DOMAIN Tail(q) = 1..Len(q) - 1 /\ q[1] = Head(q)
           /\ \A j \in 1..Len(q) - 1 : Tail(q)[j] = q[j + 1]
           /\ ToSet(q) = ToSet(Tail(q)) \cup {Head(q)}
<1>1. /\ Tail(q) \in Seq(S) /\ Head(q) \in S /\ Len(q) \in Nat /\ Len(Tail(q)) = Len(q) - 1
      /\ DOMAIN q = 1..Len(q) /\ DOMAIN Tail(q) = 1..Len(q) - 1
      /\ \A j \in 1..Len(q) - 1 : Tail(q)[j] = q[j + 1]
  BY HeadTailProperties, LenProperties
<1>2. Len(q) >= 1
  BY <1>1, EmptySeq
<1>3. q[1] = Head(q)
  BY <1>2
<1> DEFINE p == Tail(q)
           h == Head(q)
<1> HIDE DEF p, h
<1>4. ToSet(q) = ToSet(p) \cup {h}
  <2>1. ASSUME NEW x \in ToSet(q) PROVE x \in ToSet(p) \cup {h}
    <3>1. PICK j \in 1..Len(q) : x = q[j]
      BY <1>1 DEF ToSet
    <3>2. CASE j = 1
      BY <1>3, <3>1, <3>2 DEF h
    <3>3. CASE j # 1
      <4>1. j - 1 \in 1..Len(q) - 1 /\ (j - 1) + 1 = j
        BY <1>1, <3>1, <3>3
      <4> QED BY <1>1, <3>1, <4>1 DEF ToSet, p
    <3> QED BY <3>2, <3>3
  <2>2. ASSUME NEW x \in ToSet(p) PROVE x \in ToSet(q)
    <3>1. PICK j \in 1..Len(q) - 1 : x = p[j]
      BY <1>1 DEF ToSet, p
    <3>2. j + 1 \in 1..Len(q)
      BY <1>1
    <3> QED BY <1>1, <3>1, <3>2 DEF ToSet, p
  <2>3. h \in ToSet(q)
    BY <1>1, <1>2, <1>3 DEF ToSet, h
  <2> QED BY <2>1, <2>2, <2>3
<1>5. Head(q) \in ToSet(q)
  BY <1>4 DEF h
<1> QED BY <1>1, <1>2, <1>3, <1>4, <1>5 DEF p, h

-----------------------------------------------------------------------------
(* The table of remembered filters                                         *)

OnceOnly(q) == \A i, j \in DOMAIN q : q[i] = q[j] => i = j

\* There is a place for a filter that is not in the table.
LEMMA RoomLeft ==
    ASSUME Room, MaxSubs \in Nat, subs \in Seq(Filters), Len(subs) <= MaxSubs, OnceOnly(subs),
           InTable \subseteq Known, NEW f \in Known, f \notin InTable
    PROVE  Len(subs) < MaxSubs
<1> SUFFICES ASSUME Len(subs) = MaxSubs PROVE FALSE
  BY LenProperties
<1>1. Len(subs) \in Nat /\ DOMAIN subs = 1..Len(subs)
  BY LenProperties
<1> DEFINE S == 1..MaxSubs + 1
           g == [i \in S |-> IF i <= Len(subs) THEN subs[i] ELSE f]
<1>2. IsFiniteSet(S) /\ Cardinality(S) = MaxSubs + 1
  <2>1. 1 \in Int /\ MaxSubs + 1 \in Int /\ ~(1 > MaxSubs + 1)
    BY <1>1
  <2>2. /\ IsFiniteSet(1..MaxSubs + 1)
        /\ Cardinality(1..MaxSubs + 1) =
              IF 1 > MaxSubs + 1 THEN 0 ELSE (MaxSubs + 1) - 1 + 1
    BY <2>1, FS_Interval
  <2> QED BY <2>1, <2>2
<1>3. IsFiniteSet(Known) /\ Cardinality(Known) < Cardinality(S)
  BY <1>2, FS_CardinalityType DEF Room
<1>4. g \in [S -> Known]
  BY <1>1 DEF InTable
<1> HIDE DEF g
<1>5. PICK x, y \in S : x # y /\ g[x] = g[y]
  <2> HIDE DEF S
  <2> QED BY <1>2, <1>3, <1>4, FS_PigeonHole
<1> QED BY <1>1, <1>5 DEF g, OnceOnly, InTable

\* remember: the filter is in the table, and nothing moves.
LEMMA FilterAdded ==
    ASSUME Room, MaxSubs \in Nat, subs \in Seq(Filters), Len(subs) <= MaxSubs, OnceOnly(subs),
           InTable \subseteq Known, NEW f \in Known \cap Filters, subs' = With(f)
    PROVE  /\ subs' \in Seq(Filters) /\ Len(subs') <= MaxSubs /\ OnceOnly(subs')
           /\ DOMAIN subs \subseteq DOMAIN subs' /\ \A i \in DOMAIN subs : subs'[i] = subs[i]
           /\ InTable' = InTable \cup {f}
<1>1. CASE f \in InTable
  <2>1. subs' = subs
    BY <1>1 DEF With
  <2> QED BY <1>1, <2>1 DEF InTable
<1>2. CASE f \notin InTable
  <2>1. Len(subs) < MaxSubs
    BY <1>2, RoomLeft
  <2>2. subs' = Append(subs, f)
    BY <1>2, <2>1 DEF With
  <2>3. /\ subs' \in Seq(Filters) /\ Len(subs) \in Nat /\ Len(subs') = Len(subs) + 1
        /\ DOMAIN subs = 1..Len(subs) /\ DOMAIN subs' = 1..Len(subs) + 1
        /\ \A j \in 1..Len(subs) : subs'[j] = subs[j]
        /\ subs'[Len(subs) + 1] = f
        /\ ToSet(subs') = ToSet(subs) \cup {f}
    BY <2>2, PacketAppended
  <2>4. InTable' = InTable \cup {f}
    BY <2>3 DEF InTable, ToSet
  <2>5. OnceOnly(subs')
    <3> SUFFICES ASSUME NEW i \in 1..Len(subs) + 1, NEW j \in 1..Len(subs) + 1, subs'[i] = subs'[j]
                 PROVE  i = j
      BY <2>3 DEF OnceOnly
    <3>1. CASE i = Len(subs) + 1
      <4>1. j = Len(subs) + 1
        BY <1>2, <2>3, <3>1 DEF InTable
      <4> QED BY <3>1, <4>1
    <3>2. CASE j = Len(subs) + 1
      <4>1. i = Len(subs) + 1
        BY <1>2, <2>3, <3>2 DEF InTable
      <4> QED BY <3>2, <4>1
    <3>3. CASE i # Len(subs) + 1 /\ j # Len(subs) + 1
      <4>1. i \in 1..Len(subs) /\ j \in 1..Len(subs)
        BY <2>3, <3>3
      <4> QED BY <2>3, <4>1 DEF OnceOnly
    <3> QED BY <3>1, <3>2, <3>3
  <2> QED BY <2>1, <2>3, <2>4, <2>5
<1> QED BY <1>1, <1>2

\* forget: the filter is no longer in the table; the later ones move down.
LEMMA FilterRemoved ==
    ASSUME MaxSubs \in Nat, subs \in Seq(Filters), Len(subs) <= MaxSubs, OnceOnly(subs),
           NEW f \in Filters, subs' = Without(f)
    PROVE  /\ subs' \in Seq(Filters) /\ Len(subs') <= MaxSubs /\ OnceOnly(subs')
           /\ InTable' = InTable \ {f}
<1>1. CASE f \notin InTable
  <2>1. subs' = subs
    BY <1>1 DEF Without
  <2> QED BY <1>1, <2>1 DEF InTable
<1>2. CASE f \in InTable
  <2> DEFINE k == CHOOSE i \in DOMAIN subs : subs[i] = f
             front == SubSeq(subs, 1, k - 1)
             back  == SubSeq(subs, k + 1, Len(subs))
  <2>1. Len(subs) \in Nat /\ DOMAIN subs = 1..Len(subs)
    BY LenProperties
  <2>2. k \in 1..Len(subs) /\ subs[k] = f
    BY <1>2, <2>1 DEF InTable
  <2>3. subs' = front \o back
    BY <1>2 DEF Without, RemoveAt
  <2> HIDE DEF k
  <2>4. /\ front \in Seq(Filters) /\ Len(front) = k - 1
        /\ \A i \in 1..k - 1 : front[i] = subs[i]
    <3>1. /\ 1 \in Int /\ k - 1 \in Int /\ \A i \in 1..k - 1 : subs[i] \in Filters
          /\ (k - 1) - 1 + 1 = k - 1 /\ \A i \in 1..k - 1 : 1 + i - 1 = i
      BY <2>1, <2>2
    <3>2. /\ front \in Seq(Filters)
          /\ Len(front) = IF 1 <= k - 1 THEN (k - 1) - 1 + 1 ELSE 0
          /\ \A i \in 1..(k - 1) - 1 + 1 : front[i] = subs[1 + i - 1]
      BY <3>1, SubSeqProperties
    <3> HIDE DEF front
    <3> QED BY <2>2, <3>1, <3>2
  <2>5. /\ back \in Seq(Filters) /\ Len(back) = Len(subs) - k
        /\ \A i \in 1..Len(subs) - k : back[i] = subs[k + i]
    <3>1. /\ k + 1 \in Int /\ Len(subs) \in Int
          /\ \A i \in k + 1..Len(subs) : subs[i] \in Filters
      BY <2>1, <2>2
    <3>2. /\ back \in Seq(Filters)
          /\ Len(back) = IF k + 1 <= Len(subs) THEN Len(subs) - (k + 1) + 1 ELSE 0
          /\ \A i \in 1..Len(subs) - (k + 1) + 1 : back[i] = subs[(k + 1) + i - 1]
      BY <3>1, SubSeqProperties
    <3>3. /\ Len(subs) - (k + 1) + 1 = Len(subs) - k
          /\ \A i \in 1..Len(subs) - k : (k + 1) + i - 1 = k + i
      BY <2>1, <2>2
    <3> HIDE DEF back
    <3>4. Len(back) = Len(subs) - k
      <4>1. CASE k + 1 <= Len(subs)
        BY <3>2, <3>3, <4>1
      <4>2. CASE ~(k + 1 <= Len(subs))
        <5>1. Len(subs) - k = 0
          <6>1. Len(subs) \in Nat /\ k \in 1..Len(subs)
            BY <2>1, <2>2
          <6> HIDE DEF k
          <6> QED BY <6>1, <4>2
        <5>2. Len(back) = 0
          BY <3>2, <4>2
        <5> QED BY <5>1, <5>2
      <4> QED BY <4>1, <4>2
    <3> QED BY <3>2, <3>3, <3>4
  <2> HIDE DEF front, back
  <2>6. /\ subs' \in Seq(Filters) /\ Len(subs') = Len(subs) - 1
        /\ \A i \in 1..Len(subs) - 1 :
              subs'[i] = IF i <= k - 1 THEN subs[i] ELSE subs[i + 1]
    <3>1. /\ front \o back \in Seq(Filters) /\ Len(front \o back) = Len(front) + Len(back)
          /\ \A i \in 1..Len(front) + Len(back) :
                (front \o back)[i] = IF i <= Len(front) THEN front[i] ELSE back[i - Len(front)]
      BY <2>4, <2>5, ConcatProperties
    <3>2. Len(front) + Len(back) = Len(subs) - 1
      BY <2>1, <2>2, <2>4, <2>5
    <3>3. ASSUME NEW i \in 1..Len(subs) - 1
          PROVE  subs'[i] = IF i <= k - 1 THEN subs[i] ELSE subs[i + 1]
      <4>1. CASE i <= k - 1
        BY <2>1, <2>2, <2>3, <2>4, <3>1, <3>2, <4>1
      <4>2. CASE ~(i <= k - 1)
        <5>1. i - (k - 1) \in 1..Len(subs) - k /\ k + (i - (k - 1)) = i + 1
          BY <2>1, <2>2, <4>2
        <5>2. subs'[i] = back[i - (k - 1)]
          BY <2>3, <2>4, <3>1, <3>2, <4>2
        <5> QED BY <2>5, <4>2, <5>1, <5>2
      <4> QED BY <4>1, <4>2
    <3> QED BY <2>3, <3>1, <3>2, <3>3
  <2>7. DOMAIN subs' = 1..Len(subs) - 1
    BY <2>6, LenProperties
  <2>8. InTable' \subseteq InTable \ {f}
    <3> SUFFICES ASSUME NEW i \in 1..Len(subs) - 1 PROVE subs'[i] \in InTable \ {f}
      BY <2>7 DEF InTable
    <3>1. CASE i <= k - 1
      <4>1. i \in 1..Len(subs) /\ i # k /\ subs'[i] = subs[i]
        BY <2>1, <2>2, <2>6, <3>1
      <4> QED BY <2>1, <2>2, <4>1 DEF InTable, OnceOnly
    <3>2. CASE ~(i <= k - 1)
      <4>1. i + 1 \in 1..Len(subs) /\ i + 1 # k /\ subs'[i] = subs[i + 1]
        BY <2>1, <2>2, <2>6, <3>2
      <4> QED BY <2>1, <2>2, <4>1 DEF InTable, OnceOnly
    <3> QED BY <3>1, <3>2
  <2>9. InTable \ {f} \subseteq InTable'
    <3> SUFFICES ASSUME NEW i \in 1..Len(subs), subs[i] # f PROVE subs[i] \in InTable'
      BY <2>1 DEF InTable
    <3>1. CASE i < k
      <4>1. i \in 1..Len(subs) - 1 /\ subs'[i] = subs[i]
        BY <2>1, <2>2, <2>6, <3>1
      <4> QED BY <2>7, <4>1 DEF InTable
    <3>2. CASE ~(i < k)
      <4>1. i # k
        BY <2>2
      <4>2. i - 1 \in 1..Len(subs) - 1 /\ ~(i - 1 <= k - 1) /\ (i - 1) + 1 = i
        BY <2>1, <2>2, <3>2, <4>1
      <4>3. subs'[i - 1] = subs[i]
        BY <2>6, <4>2
      <4> QED BY <2>7, <4>2, <4>3 DEF InTable
    <3> QED BY <3>1, <3>2
  <2>10. OnceOnly(subs')
    <3> SUFFICES ASSUME NEW i \in 1..Len(subs) - 1, NEW j \in 1..Len(subs) - 1, subs'[i] = subs'[j]
                 PROVE  i = j
      BY <2>7 DEF OnceOnly
    <3> DEFINE at(n) == IF n <= k - 1 THEN n ELSE n + 1
    <3>1. /\ at(i) \in 1..Len(subs) /\ subs'[i] = subs[at(i)]
          /\ at(j) \in 1..Len(subs) /\ subs'[j] = subs[at(j)]
      BY <2>1, <2>2, <2>6
    <3>2. at(i) = at(j)
      <4> HIDE DEF at
      <4> QED BY <2>1, <3>1 DEF OnceOnly
    <3> QED BY <2>1, <2>2, <3>2
  <2> QED BY <2>1, <2>6, <2>8, <2>9, <2>10
<1> QED BY <1>1, <1>2

-----------------------------------------------------------------------------
(* Frames: what a step leaves alone keeps its part of the invariant        *)

\* A call moves, after it has begun; the table and the restore stay.
LEMMA TableStays ==
    ASSUME TableOK, UNCHANGED <<subs, restore>>,
           \A c \in FilterCalls : stage'[c] # "start" => stage[c] # "start"
    PROVE  TableOK'
  BY DEF TableOK, InTable

LEMMA SubsPacketTypes ==
    ASSUME SubsTypeOK
    PROVE  /\ outgoing \in Seq(SubsPacket) /\ \A p \in ToSet(outgoing) : p \in SubsPacket
           /\ incoming \in Seq(Ack) /\ \A a \in ToSet(incoming) : a \in Ack
<1>1. outgoing \in Seq(SubsPacket) /\ incoming \in Seq(Ack)
  BY DEF SubsTypeOK, SubsPacket, Ack
<1> QED BY <1>1, ElementOfSeq, LenProperties DEF ToSet

\* No packet is sent or handled.
LEMMA QueuesStay ==
    ASSUME SubsTypeOK, AcksOK, Withdrawn, UNCHANGED <<outgoing, incoming, active, reply>>,
           \A c \in FilterCalls : stage[c] \in {"wait", "returned"} =>
                                    stage'[c] \in {"wait", "returned"},
           \A c \in FilterCalls : outcome[c] = "OK" => stage'[c] = "returned",
           \A c \in FilterCalls : outcome'[c] = "OK" => outcome[c] = "OK" \/
                               (reply[c] = "granted" /\ stage'[c] = "returned")
    PROVE  AcksOK' /\ Withdrawn'
<1>1. AcksOK'
  <2>1. ASSUME NEW p \in ToSet(outgoing) PROVE PacketOK(p)'
    <3>1. PacketOK(p) /\ (p.call # NoCaller => p.call \in FilterCalls)
      BY SubsPacketTypes DEF AcksOK, SubsPacket
    <3> QED BY <3>1 DEF PacketOK
  <2>2. ASSUME NEW a \in ToSet(incoming), a.call # NoCaller
        PROVE  stage'[a.call] \in {"wait", "returned"} /\ (a.ok => Accepted(a.call))
    <3>1. a.call \in FilterCalls
      BY <2>2, SubsPacketTypes DEF Ack
    <3> QED BY <2>2, <3>1 DEF AcksOK
  <2>3. \A c \in FilterCalls : reply'[c] = "granted" \/ outcome'[c] = "OK" =>
           stage'[c] \in {"wait", "returned"} /\ Accepted(c)
    BY DEF AcksOK
  <2>4. \A c \in FilterCalls : outcome'[c] = "OK" => stage'[c] = "returned"
    BY DEF AcksOK
  <2> QED BY <2>1, <2>2, <2>3, <2>4 DEF AcksOK
<1>2. Withdrawn'
  BY DEF Withdrawn, Answered
<1> QED BY <1>1, <1>2

\* No call of subscribe reaches its wait; the table, the restore and the session stay.
LEMMA CoverStays ==
    ASSUME TableCovered, UNCHANGED <<subs, restore, active, outgoing>>, linked' => linked,
           \A c \in FilterCalls : stage[c] \in {"check", "acquire", "send"} =>
                               stage'[c] \in {"check", "acquire", "send"},
           \A c \in FilterCalls : stage'[c] \in {"wait", "returned"} =>
                                    stage[c] \in {"wait", "returned"}
    PROVE  TableCovered'
<1> SUFFICES ASSUME linked', NEW f \in InTable' \ Denied
             PROVE  \/ Covered(f)'
                    \/ /\ \E c \in FilterCalls : Subscribes(c) /\ Filter[c] = f
                                           /\ stage'[c] \in {"check", "acquire", "send"}
                       /\ \A c \in FilterCalls : Subscribes(c) /\ Filter[c] = f =>
                                           stage'[c] \notin {"wait", "returned"}
  BY DEF TableCovered
<1>1. f \in InTable \ Denied
  BY DEF InTable
<1>2. CASE Covered(f)
  BY <1>2 DEF Covered, Asked, Due
<1>3. CASE /\ \E c \in FilterCalls : Subscribes(c) /\ Filter[c] = f
                               /\ stage[c] \in {"check", "acquire", "send"}
           /\ \A c \in FilterCalls : Subscribes(c) /\ Filter[c] = f =>
                                       stage[c] \notin {"wait", "returned"}
  BY <1>3
<1> QED BY <1>1, <1>2, <1>3 DEF TableCovered

-----------------------------------------------------------------------------
(* Calls of subscribe and unsubscribe                                      *)

LEMMA RecordKeeps ==
    ASSUME Apart, Distinct, Room, SubsInv, NEW c \in FilterCalls, Record(c)
    PROVE  SubsInv'
<1>1. /\ stage[c] = "start" /\ stage' = [stage EXCEPT ![c] = "check"]
      /\ Unsubscribes(c) => restore.step = "idle"
      /\ subs' = IF Subscribes(c) THEN With(Filter[c]) ELSE Without(Filter[c])
      /\ UNCHANGED <<reply, outcome, restore, linked, online, breaks, outgoing, incoming, active>>
  BY DEF Record, CallGoto, connection, packets, Subscribes, Unsubscribes
<1>2. SubsTypeOK /\ RestoreOK /\ TableOK /\ AcksOK /\ TableCovered /\ Withdrawn
  BY DEF SubsInv
<1>3. /\ MaxSubs \in Nat /\ Filter[c] \in Filters
      /\ (Subscribes(c) \/ Unsubscribes(c))
      /\ ~(Subscribes(c) /\ Unsubscribes(c))
  BY SubscriptionsAssumption DEF SubscriptionsAssumption, Subscribes, Unsubscribes
<1>4. /\ subs \in Seq(Filters) /\ Len(subs) <= MaxSubs /\ OnceOnly(subs) /\ InTable \subseteq Known
      /\ stage \in [FilterCalls -> CallPlaces]
  BY <1>2 DEF SubsTypeOK, OnceOnly, TableOK
<1>5. /\ stage'[c] = "check" /\ \A d \in FilterCalls \ {c} : stage'[d] = stage[d]
      /\ stage' \in [FilterCalls -> CallPlaces]
  BY <1>1, <1>4 DEF CallPlaces
<1>6. Subscribes(c) => Filter[c] \in Known
  BY DEF Known
<1>7. /\ subs' \in Seq(Filters) /\ Len(subs') <= MaxSubs /\ OnceOnly(subs')
      /\ Subscribes(c) => InTable' = InTable \cup {Filter[c]}
      /\ Unsubscribes(c) => InTable' = InTable \ {Filter[c]}
  <2>1. CASE Subscribes(c)
    <3>1. subs' = With(Filter[c]) /\ Filter[c] \in Known \cap Filters /\ ~Unsubscribes(c)
      BY <1>1, <1>3, <1>6, <2>1
    <3>2. /\ subs' \in Seq(Filters) /\ Len(subs') <= MaxSubs /\ OnceOnly(subs')
          /\ InTable' = InTable \cup {Filter[c]}
      BY <1>3, <1>4, <3>1, FilterAdded
    <3> QED BY <2>1, <3>1, <3>2
  <2>2. CASE ~Subscribes(c)
    <3>1. subs' = Without(Filter[c])
      BY <1>1, <2>2
    <3>2. /\ subs' \in Seq(Filters) /\ Len(subs') <= MaxSubs /\ OnceOnly(subs')
          /\ InTable' = InTable \ {Filter[c]}
      BY <1>3, <1>4, <3>1, FilterRemoved
    <3> QED BY <2>2, <3>2
  <2> QED BY <2>1, <2>2
<1>8. SubsTypeOK'
  BY <1>1, <1>2, <1>5, <1>7 DEF SubsTypeOK, OnceOnly
<1>9. RestoreOK'
  BY <1>1, <1>2 DEF RestoreOK
<1>10. TableOK'
  <2>1. InTable' \subseteq Known
    BY <1>3, <1>4, <1>6, <1>7
  <2>2. restore'.filter # NoFilter => restore'.filter \in InTable'
    <3>1. CASE Subscribes(c)
      BY <1>1, <1>2, <1>7, <3>1 DEF TableOK
    <3>2. CASE Unsubscribes(c)
      BY <1>1, <1>2, <3>2 DEF RestoreOK
    <3> QED BY <1>3, <3>1, <3>2
  <2>3. ASSUME NEW d \in FilterCalls, stage'[d] # "start", Subscribes(d)
        PROVE  Filter[d] \in InTable'
    <3>1. CASE d = c
      BY <1>7, <2>3, <3>1
    <3>2. CASE d # c
      <4>1. Filter[d] \in InTable
        BY <1>2, <1>5, <2>3, <3>2 DEF TableOK
      <4> QED BY <1>3, <1>7, <2>3, <4>1 DEF Distinct
    <3> QED BY <3>1, <3>2
  <2>4. ASSUME NEW d \in FilterCalls, stage'[d] # "start", Unsubscribes(d)
        PROVE  Filter[d] \notin InTable'
    <3>1. CASE d = c
      BY <1>7, <2>4, <3>1
    <3>2. CASE d # c
      <4>1. Filter[d] \notin InTable
        BY <1>2, <1>5, <2>4, <3>2 DEF TableOK
      <4> QED BY <1>3, <1>7, <2>4, <4>1 DEF Distinct
    <3> QED BY <3>1, <3>2
  <2> QED BY <2>1, <2>2, <2>3, <2>4 DEF TableOK
<1>11. AcksOK' /\ Withdrawn'
  <2>1. \A d \in FilterCalls : stage[d] \in {"wait", "returned"} =>
                                 stage'[d] \in {"wait", "returned"}
    BY <1>1, <1>5
  <2>2. \A d \in FilterCalls : outcome[d] = "OK" => stage'[d] = "returned"
    BY <1>1, <1>2, <1>5 DEF AcksOK
  <2> QED BY <1>1, <1>2, <2>1, <2>2, QueuesStay
<1>12. TableCovered'
  <2> SUFFICES ASSUME linked', NEW f \in InTable' \ Denied
               PROVE  \/ Covered(f)'
                      \/ /\ \E d \in FilterCalls : Subscribes(d) /\ Filter[d] = f
                                             /\ stage'[d] \in {"check", "acquire", "send"}
                         /\ \A d \in FilterCalls : Subscribes(d) /\ Filter[d] = f =>
                                             stage'[d] \notin {"wait", "returned"}
    BY DEF TableCovered
  <2>1. CASE f \in InTable
    <3>1. CASE Covered(f)
      <4>1. Asked(f) => Asked(f)'
        BY <1>1 DEF Asked
      <4>2. CASE Unsubscribes(c)
        BY <1>1, <3>1, <4>1, <4>2 DEF Covered, Due
      <4>3. CASE Subscribes(c)
        <5>1. DOMAIN subs \subseteq DOMAIN subs' /\ \A i \in DOMAIN subs : subs'[i] = subs[i]
          BY <1>1, <1>3, <1>4, <1>6, <4>3, FilterAdded
        <5>2. Due(f) => Due(f)'
          BY <1>1, <5>1 DEF Due
        <5> QED BY <3>1, <4>1, <5>2 DEF Covered
      <4> QED BY <1>3, <4>2, <4>3
    <3>2. CASE /\ \E d \in FilterCalls : Subscribes(d) /\ Filter[d] = f
                                   /\ stage[d] \in {"check", "acquire", "send"}
               /\ \A d \in FilterCalls : Subscribes(d) /\ Filter[d] = f =>
                                   stage[d] \notin {"wait", "returned"}
      BY <1>1, <1>5, <3>2
    <3> QED BY <1>1, <1>2, <2>1, <3>1, <3>2 DEF TableCovered
  <2>2. CASE f \notin InTable
    <3>1. Subscribes(c) /\ f = Filter[c]
      BY <1>3, <1>7, <2>2
    <3>2. \A d \in FilterCalls : Subscribes(d) /\ Filter[d] = f => stage[d] = "start"
      BY <1>2, <2>2 DEF TableOK
    <3> QED BY <1>5, <3>1, <3>2
  <2> QED BY <2>1, <2>2
<1> QED BY <1>8, <1>9, <1>10, <1>11, <1>12 DEF SubsInv

LEMMA CheckKeeps == ASSUME SubsInv, NEW c \in FilterCalls, Check(c) PROVE SubsInv'
<1>1. /\ stage[c] = "check"
      /\ \/ online /\ stage' = [stage EXCEPT ![c] = "acquire"] /\ outcome' = outcome
         \/ ~online /\ stage' = [stage EXCEPT ![c] = "returned"]
                       /\ outcome' = [outcome EXCEPT ![c] = "CLOSED"]
      /\ UNCHANGED <<subs, reply, restore, linked, online, breaks, outgoing, incoming, active>>
  BY DEF Check, CallGoto, CallReturn, connection, packets, table
<1>2. SubsTypeOK /\ RestoreOK /\ TableOK /\ AcksOK /\ TableCovered /\ Withdrawn
  BY DEF SubsInv
<1>3. stage \in [FilterCalls -> CallPlaces] /\ outcome \in [FilterCalls -> SubsResults]
  BY <1>2 DEF SubsTypeOK
<1>4. /\ stage'[c] \in {"acquire", "returned"} /\ \A d \in FilterCalls \ {c} : stage'[d] = stage[d]
      /\ stage' \in [FilterCalls -> CallPlaces] /\ outcome' \in [FilterCalls -> SubsResults]
      /\ \A d \in FilterCalls : outcome'[d] = "OK" => outcome[d] = "OK"
  BY <1>1, <1>3 DEF CallPlaces, SubsResults
<1>5. SubsTypeOK'
  BY <1>1, <1>2, <1>4 DEF SubsTypeOK
<1>6. RestoreOK'
  BY <1>1, <1>2 DEF RestoreOK
<1>7. TableOK'
  BY <1>1, <1>2, <1>4, TableStays
<1>8. AcksOK' /\ Withdrawn'
  <2>1. \A d \in FilterCalls : stage[d] \in {"wait", "returned"} =>
                                 stage'[d] \in {"wait", "returned"}
    BY <1>1, <1>4
  <2>2. \A d \in FilterCalls : outcome[d] = "OK" => stage'[d] = "returned"
    BY <1>1, <1>2, <1>4 DEF AcksOK
  <2> QED BY <1>1, <1>2, <1>4, <2>1, <2>2, QueuesStay
<1>9. TableCovered'
  <2>1. CASE online
    <3>1. stage'[c] = "acquire"
      BY <1>1, <1>3, <2>1
    <3> QED BY <1>1, <1>2, <1>4, <3>1, CoverStays
  <2>2. CASE ~online
    BY <1>1, <1>2, <2>2 DEF RestoreOK, TableCovered
  <2> QED BY <2>1, <2>2
<1> QED BY <1>5, <1>6, <1>7, <1>8, <1>9 DEF SubsInv

LEMMA TakeSlotKeeps == ASSUME SlotLeft, SubsInv, NEW c \in FilterCalls, TakeSlot(c) PROVE SubsInv'
<1>1. SubsTypeOK /\ RestoreOK /\ TableOK /\ AcksOK /\ TableCovered /\ Withdrawn
  BY DEF SubsInv
<1>2. SlotsTaken # MaxSubacks
  BY DEF SlotLeft, TakeSlot
<1>3. /\ stage[c] = "acquire" /\ stage' = [stage EXCEPT ![c] = "send"]
      /\ UNCHANGED <<subs, reply, outcome, restore, linked, online, breaks, outgoing, incoming,
                     active>>
  BY <1>2 DEF TakeSlot, CallGoto, connection, packets, table
<1>4. /\ stage'[c] = "send" /\ \A d \in FilterCalls \ {c} : stage'[d] = stage[d]
      /\ stage' \in [FilterCalls -> CallPlaces]
  BY <1>1, <1>3 DEF SubsTypeOK, CallPlaces
<1>5. SubsTypeOK'
  BY <1>1, <1>3, <1>4 DEF SubsTypeOK
<1>6. RestoreOK'
  BY <1>1, <1>3 DEF RestoreOK
<1>7. TableOK'
  BY <1>1, <1>3, <1>4, TableStays
<1>8. AcksOK' /\ Withdrawn'
  <2>1. \A d \in FilterCalls : stage[d] \in {"wait", "returned"} =>
                                 stage'[d] \in {"wait", "returned"}
    BY <1>3, <1>4
  <2>2. \A d \in FilterCalls : outcome[d] = "OK" => stage'[d] = "returned"
    BY <1>1, <1>3, <1>4 DEF AcksOK
  <2> QED BY <1>1, <1>3, <1>4, <2>1, <2>2, QueuesStay
<1>9. TableCovered'
  BY <1>1, <1>3, <1>4, CoverStays
<1> QED BY <1>5, <1>6, <1>7, <1>8, <1>9 DEF SubsInv

LEMMA LeaveKeeps == ASSUME SubsInv, NEW c \in FilterCalls, Leave(c) PROVE SubsInv'
<1>1. SubsTypeOK /\ RestoreOK /\ TableOK /\ AcksOK /\ TableCovered /\ Withdrawn
  BY DEF SubsInv
<1>2. PICK rc \in SubsResults :
         /\ stage[c] = "wait" /\ stage' = [stage EXCEPT ![c] = "returned"]
         /\ outcome' = [outcome EXCEPT ![c] = rc] /\ (rc = "OK" => reply[c] = "granted")
         /\ UNCHANGED <<subs, reply, restore, linked, online, breaks, outgoing, incoming, active>>
  BY DEF Leave, CallGoto, CallReturn, connection, packets, table, SubsResults
<1>3. stage \in [FilterCalls -> CallPlaces] /\ outcome \in [FilterCalls -> SubsResults]
  BY <1>1 DEF SubsTypeOK
<1>4. /\ stage'[c] = "returned" /\ \A d \in FilterCalls \ {c} : stage'[d] = stage[d]
      /\ stage' \in [FilterCalls -> CallPlaces] /\ outcome' \in [FilterCalls -> SubsResults]
      /\ outcome'[c] = rc /\ \A d \in FilterCalls \ {c} : outcome'[d] = outcome[d]
  BY <1>2, <1>3 DEF CallPlaces
<1>5. SubsTypeOK'
  BY <1>1, <1>2, <1>4 DEF SubsTypeOK
<1>6. RestoreOK'
  BY <1>1, <1>2 DEF RestoreOK
<1>7. TableOK'
  BY <1>1, <1>2, <1>4, TableStays
<1>8. AcksOK' /\ Withdrawn'
  <2>1. \A d \in FilterCalls : stage[d] \in {"wait", "returned"} =>
                                 stage'[d] \in {"wait", "returned"}
    BY <1>2, <1>4
  <2>2. \A d \in FilterCalls : outcome[d] = "OK" => stage'[d] = "returned"
    BY <1>1, <1>2, <1>4 DEF AcksOK
  <2>3. \A d \in FilterCalls : outcome'[d] = "OK" => outcome[d] = "OK" \/
                            (reply[d] = "granted" /\ stage'[d] = "returned")
    BY <1>2, <1>4
  <2> QED BY <1>1, <1>2, <2>1, <2>2, <2>3, QueuesStay
<1>9. TableCovered'
  BY <1>1, <1>2, <1>4, CoverStays
<1> QED BY <1>5, <1>6, <1>7, <1>8, <1>9 DEF SubsInv

LEMMA SendFilterKeeps ==
    ASSUME Distinct, SubsInv, NEW c \in FilterCalls, SendFilter(c)
    PROVE  SubsInv'
<1>1. SubsTypeOK /\ RestoreOK /\ TableOK /\ AcksOK /\ TableCovered /\ Withdrawn
  BY DEF SubsInv
<1>2. /\ stage[c] = "send" /\ stage \in [FilterCalls -> CallPlaces]
      /\ outcome \in [FilterCalls -> SubsResults]
  BY <1>1 DEF SendFilter, SubsTypeOK
<1>3. CASE ~linked
  <2>1. /\ stage' = [stage EXCEPT ![c] = "returned"] /\ outcome' = [outcome EXCEPT ![c] = "CLOSED"]
        /\ UNCHANGED <<subs, reply, restore, linked, online, breaks, outgoing, incoming, active>>
    BY <1>3 DEF SendFilter, CallGoto, CallReturn, connection, table
  <2>2. /\ stage'[c] = "returned" /\ \A d \in FilterCalls \ {c} : stage'[d] = stage[d]
        /\ stage' \in [FilterCalls -> CallPlaces] /\ outcome' \in [FilterCalls -> SubsResults]
        /\ outcome'[c] = "CLOSED" /\ \A d \in FilterCalls \ {c} : outcome'[d] = outcome[d]
    BY <1>2, <2>1 DEF CallPlaces, SubsResults
  <2>3. SubsTypeOK'
    BY <1>1, <2>1, <2>2 DEF SubsTypeOK
  <2>4. RestoreOK'
    BY <1>1, <2>1 DEF RestoreOK
  <2>5. TableOK'
    BY <1>1, <1>2, <2>1, <2>2, TableStays
  <2>6. AcksOK' /\ Withdrawn'
    <3>1. \A d \in FilterCalls : stage[d] \in {"wait", "returned"} =>
                                   stage'[d] \in {"wait", "returned"}
      BY <1>2, <2>2
    <3>2. \A d \in FilterCalls : outcome[d] = "OK" => stage'[d] = "returned"
      BY <1>1, <2>2 DEF AcksOK
    <3>3. \A d \in FilterCalls : outcome'[d] = "OK" => outcome[d] = "OK"
      BY <2>2
    <3> QED BY <1>1, <2>1, <3>1, <3>2, <3>3, QueuesStay
  <2>7. TableCovered'
    BY <1>3, <2>1 DEF TableCovered
  <2> QED BY <2>3, <2>4, <2>5, <2>6, <2>7 DEF SubsInv
<1>4. CASE linked
  <2> DEFINE e == [kind |-> Kind[c], filter |-> Filter[c], call |-> c]
  <2>1. /\ outgoing' = Append(outgoing, e) /\ stage' = [stage EXCEPT ![c] = "wait"]
        /\ UNCHANGED <<subs, reply, outcome, restore, linked, online, breaks, incoming, active>>
    BY <1>4 DEF SendFilter, CallGoto, CallReturn, connection, table
  <2>2. /\ e \in SubsPacket /\ e.kind = Kind[c] /\ e.filter = Filter[c] /\ e.call = c
        /\ c # NoCaller
        /\ (Subscribes(c) <=> e.kind = "subscribe")
    BY SubscriptionsAssumption DEF SubscriptionsAssumption, SubsPacket, Subscribes
  <2> HIDE DEF e
  <2>3. /\ stage'[c] = "wait" /\ \A d \in FilterCalls \ {c} : stage'[d] = stage[d]
        /\ stage' \in [FilterCalls -> CallPlaces]
    BY <1>2, <2>1 DEF CallPlaces
  <2>4. /\ outgoing' \in Seq(SubsPacket) /\ Len(outgoing) \in Nat
        /\ DOMAIN outgoing = 1..Len(outgoing) /\ DOMAIN outgoing' = 1..Len(outgoing) + 1
        /\ \A j \in 1..Len(outgoing) : outgoing'[j] = outgoing[j]
        /\ outgoing'[Len(outgoing) + 1] = e
        /\ ToSet(outgoing') = ToSet(outgoing) \cup {e}
    BY <1>1, <2>1, <2>2, SubsPacketTypes, PacketAppended
  <2>5. SubsTypeOK'
    <3>1. outgoing' \in Seq([kind : {"subscribe", "unsubscribe"}, filter : Filters,
                             call : FilterCalls \cup {NoCaller}])
      BY <2>4 DEF SubsPacket
    <3> QED BY <1>1, <2>1, <2>3, <3>1 DEF SubsTypeOK
  <2>6. RestoreOK'
    BY <1>1, <2>1 DEF RestoreOK
  <2>7. TableOK'
    BY <1>1, <1>2, <2>1, <2>3, TableStays
  <2>8. AcksOK'
    <3>1. ASSUME NEW p \in ToSet(outgoing') PROVE PacketOK(p)'
      <4>1. CASE p = e
        BY <2>2, <2>3, <4>1 DEF PacketOK
      <4>2. CASE p \in ToSet(outgoing)
        <5>1. PacketOK(p) /\ (p.call # NoCaller => p.call \in FilterCalls)
          BY <1>1, <4>2, SubsPacketTypes DEF AcksOK, SubsPacket
        <5> QED BY <1>2, <2>3, <5>1 DEF PacketOK
      <4> QED BY <2>4, <4>1, <4>2
    <3>2. ASSUME NEW a \in ToSet(incoming), a.call # NoCaller
          PROVE  stage'[a.call] \in {"wait", "returned"} /\ (a.ok => Accepted(a.call))
      <4>1. a.call \in FilterCalls
        BY <1>1, <3>2, SubsPacketTypes DEF Ack
      <4> QED BY <1>1, <1>2, <2>3, <3>2, <4>1 DEF AcksOK
    <3>3. ASSUME NEW d \in FilterCalls
          PROVE  /\ reply[d] = "granted" \/ outcome[d] = "OK" =>
                       stage'[d] \in {"wait", "returned"} /\ Accepted(d)
                 /\ outcome[d] = "OK" => stage'[d] = "returned"
      BY <1>1, <1>2, <2>3 DEF AcksOK
    <3>4. \A p \in ToSet(outgoing)' : PacketOK(p)'
      BY <3>1
    <3>5. \A a \in ToSet(incoming)' : a.call # NoCaller =>
             stage'[a.call] \in {"wait", "returned"} /\ (a.ok => Accepted(a.call))
      BY <2>1, <3>2
    <3> QED BY <2>1, <3>3, <3>4, <3>5 DEF AcksOK
  <2>9. TableCovered'
    <3> SUFFICES ASSUME NEW f \in InTable \ Denied
                 PROVE  \/ Covered(f)'
                        \/ /\ \E d \in FilterCalls : Subscribes(d) /\ Filter[d] = f
                                               /\ stage'[d] \in {"check", "acquire", "send"}
                           /\ \A d \in FilterCalls : Subscribes(d) /\ Filter[d] = f =>
                                               stage'[d] \notin {"wait", "returned"}
      BY <2>1 DEF TableCovered, InTable
    <3>1. CASE Covered(f)
      <4>1. Asked(f) => Asked(f)'
        BY <2>1, <2>4 DEF Asked
      <4>2. Due(f) => Due(f)'
        BY <2>1 DEF Due
      <4> QED BY <3>1, <4>1, <4>2 DEF Covered
    <3>2. CASE Subscribes(c) /\ Filter[c] = f
      BY <2>2, <2>4, <3>2 DEF Covered, Asked
    <3>3. CASE ~Covered(f) /\ ~(Subscribes(c) /\ Filter[c] = f)
      <4>1. /\ \E d \in FilterCalls : Subscribes(d) /\ Filter[d] = f
                                /\ stage[d] \in {"check", "acquire", "send"}
            /\ \A d \in FilterCalls : Subscribes(d) /\ Filter[d] = f =>
                                        stage[d] \notin {"wait", "returned"}
        BY <1>1, <1>4, <3>3 DEF TableCovered
      <4> QED BY <2>3, <3>3, <4>1
    <3> QED BY <3>1, <3>2, <3>3
  <2>10. Withdrawn'
    <3> SUFFICES ASSUME NEW d \in FilterCalls, Unsubscribes(d)
                 PROVE  /\ \A i, j \in DOMAIN outgoing' :
                              i < j /\ outgoing'[i].call = d => ~IsFor(outgoing'[j], Filter[d])
                        /\ Answered(d) => /\ Filter[d] \notin active
                                          /\ \A p \in ToSet(outgoing') : ~IsFor(p, Filter[d])
      BY <2>1 DEF Withdrawn, Answered
    <3>1. ~IsFor(e, Filter[d])
      BY <2>2 DEF IsFor, Distinct
    <3>2. ASSUME NEW i \in 1..Len(outgoing) + 1, NEW j \in 1..Len(outgoing) + 1,
                 i < j, outgoing'[i].call = d
          PROVE  ~IsFor(outgoing'[j], Filter[d])
      <4>1. CASE j = Len(outgoing) + 1
        BY <2>4, <3>1, <4>1
      <4>2. CASE j # Len(outgoing) + 1
        <5>1. i \in 1..Len(outgoing) /\ j \in 1..Len(outgoing)
          BY <2>4, <3>2, <4>2
        <5> QED BY <1>1, <2>4, <3>2, <5>1 DEF Withdrawn
      <4> QED BY <4>1, <4>2
    <3>3. Answered(d) => /\ Filter[d] \notin active
                         /\ \A p \in ToSet(outgoing') : ~IsFor(p, Filter[d])
      BY <1>1, <2>4, <3>1 DEF Withdrawn
    <3> QED BY <2>4, <3>2, <3>3
  <2> QED BY <2>5, <2>6, <2>7, <2>8, <2>9, <2>10 DEF SubsInv
<1> QED BY <1>3, <1>4

-----------------------------------------------------------------------------
(* The reader and its restore                                              *)

LEMMA ReadSubackKeeps == ASSUME SubsInv, ReadSuback PROVE SubsInv'
<1>1. SubsTypeOK /\ RestoreOK /\ TableOK /\ AcksOK /\ TableCovered /\ Withdrawn
  BY DEF SubsInv
<1> DEFINE a == Head(incoming)
           c == a.call
<1>2. /\ incoming # <<>> /\ incoming' = Tail(incoming)
      /\ reply' = IF c # NoCaller /\ stage[c] = "wait"
                  THEN [reply EXCEPT ![c] = IF a.ok THEN "granted" ELSE "refused"] ELSE reply
      /\ UNCHANGED <<stage, outcome, subs, restore, linked, online, breaks, outgoing, active>>
  BY DEF ReadSuback, connection, table
<1>3. /\ incoming' \in Seq(Ack) /\ a \in Ack /\ a \in ToSet(incoming)
      /\ ToSet(incoming) = ToSet(incoming') \cup {a}
  BY <1>1, <1>2, SubsPacketTypes, HeadTaken
<1> HIDE DEF a
<1>4. reply \in [FilterCalls -> {"none", "granted", "refused"}]
  BY <1>1 DEF SubsTypeOK
<1>5. /\ reply' \in [FilterCalls -> {"none", "granted", "refused"}]
      /\ \A d \in FilterCalls : reply'[d] = "granted" =>
            reply[d] = "granted" \/ (d = c /\ stage[d] = "wait" /\ a.ok)
  BY <1>2, <1>3, <1>4 DEF Ack
<1>6. SubsTypeOK'
  <2>1. incoming' \in Seq([call : FilterCalls \cup {NoCaller}, ok : BOOLEAN])
    BY <1>3 DEF Ack
  <2> QED BY <1>1, <1>2, <1>5, <2>1 DEF SubsTypeOK
<1>7. RestoreOK'
  BY <1>1, <1>2 DEF RestoreOK
<1>8. TableOK'
  BY <1>1, <1>2, TableStays
<1>9. TableCovered'
  BY <1>1, <1>2, CoverStays
<1>10. AcksOK'
  <2>1. ASSUME NEW p \in ToSet(outgoing) PROVE PacketOK(p)'
    BY <1>1, <1>2 DEF AcksOK, PacketOK
  <2>2. ASSUME NEW b \in ToSet(incoming'), b.call # NoCaller
        PROVE  stage'[b.call] \in {"wait", "returned"} /\ (b.ok => Accepted(b.call))
    BY <1>1, <1>2, <1>3, <2>2 DEF AcksOK
  <2>3. ASSUME NEW d \in FilterCalls, reply'[d] = "granted" \/ outcome'[d] = "OK"
        PROVE  stage'[d] \in {"wait", "returned"} /\ Accepted(d)
    <3>1. CASE reply[d] = "granted" \/ outcome[d] = "OK"
      BY <1>1, <1>2, <3>1 DEF AcksOK
    <3>2. CASE d = c /\ stage[d] = "wait" /\ a.ok
      BY <1>1, <1>2, <1>3, <3>2, SubscriptionsAssumption DEF AcksOK, SubscriptionsAssumption
    <3> QED BY <1>2, <1>5, <2>3, <3>1, <3>2
  <2>4. \A d \in FilterCalls : outcome'[d] = "OK" => stage'[d] = "returned"
    BY <1>1, <1>2 DEF AcksOK
  <2>5. \A p \in ToSet(outgoing)' : PacketOK(p)'
    BY <1>2, <2>1
  <2> QED BY <2>2, <2>3, <2>4, <2>5 DEF AcksOK
<1>11. Withdrawn'
  <2>1. ASSUME NEW d \in FilterCalls, Answered(d)' PROVE Answered(d)
    BY <1>2, <1>3, <1>5, <2>1 DEF Answered
  <2> QED BY <1>1, <1>2, <2>1 DEF Withdrawn
<1> QED BY <1>6, <1>7, <1>8, <1>9, <1>10, <1>11 DEF SubsInv

LEMMA ConnectionBreaksKeeps == ASSUME SubsInv, ConnectionBreaks PROVE SubsInv'
<1>1. SubsTypeOK /\ RestoreOK /\ TableOK /\ AcksOK /\ TableCovered /\ Withdrawn
  BY DEF SubsInv
<1>2. /\ linked' = FALSE /\ breaks < MaxBreaks /\ breaks' = breaks + 1
      /\ outgoing' = <<>> /\ incoming' = <<>> /\ active' = {}
      /\ UNCHANGED <<online, subs, restore, stage, reply, outcome>>
  BY DEF ConnectionBreaks, table, callers
<1>3. ToSet(outgoing') = {} /\ ToSet(incoming') = {} /\ DOMAIN outgoing' = {}
  BY <1>2 DEF ToSet
<1>4. SubsTypeOK'
  <2>1. breaks' \in 0..MaxBreaks
    BY <1>1, <1>2, SubscriptionsAssumption DEF SubsTypeOK, SubscriptionsAssumption
  <2>2. outgoing' \in Seq(SubsPacket) /\ incoming' \in Seq(Ack)
    BY <1>2
  <2> QED BY <1>1, <1>2, <2>1, <2>2 DEF SubsTypeOK, SubsPacket, Ack
<1>5. RestoreOK'
  BY <1>1, <1>2 DEF RestoreOK
<1>6. TableOK'
  BY <1>1, <1>2, TableStays
<1>7. AcksOK'
  BY <1>1, <1>2, <1>3 DEF AcksOK
<1>8. TableCovered' /\ Withdrawn'
  BY <1>2, <1>3 DEF TableCovered, Withdrawn
<1> QED BY <1>4, <1>5, <1>6, <1>7, <1>8 DEF SubsInv

LEMMA MarkClosedKeeps == ASSUME SubsInv, MarkClosed PROVE SubsInv'
<1>1. SubsTypeOK /\ RestoreOK /\ TableOK /\ AcksOK /\ TableCovered /\ Withdrawn
  BY DEF SubsInv
<1>2. /\ restore.step = "idle" /\ ~linked /\ online' = FALSE
      /\ UNCHANGED <<linked, breaks, subs, restore, stage, reply, outcome, outgoing, incoming,
                     active>>
  BY DEF MarkClosed, table, callers, packets
<1>3. SubsTypeOK' /\ RestoreOK'
  BY <1>1, <1>2 DEF SubsTypeOK, RestoreOK
<1>4. TableOK'
  BY <1>1, <1>2, TableStays
<1>5. AcksOK' /\ Withdrawn'
  BY <1>1, <1>2, QueuesStay DEF AcksOK
<1>6. TableCovered'
  BY <1>2 DEF TableCovered
<1> QED BY <1>3, <1>4, <1>5, <1>6 DEF SubsInv

LEMMA ReconnectKeeps == ASSUME SubsInv, Reconnect PROVE SubsInv'
<1>1. SubsTypeOK /\ RestoreOK /\ TableOK /\ AcksOK /\ TableCovered /\ Withdrawn
  BY DEF SubsInv
<1>2. /\ linked' = TRUE /\ online' = TRUE
      /\ restore' = [step |-> "count", i |-> 0, count |-> 0, filter |-> NoFilter]
      /\ UNCHANGED <<breaks, subs, stage, reply, outcome, outgoing, incoming, active>>
  BY DEF Reconnect, NoRestore, callers, packets
<1>3. SubsTypeOK'
  <2>1. restore' \in [step : Steps, i : 0..MaxSubs + 1, count : 0..MaxSubs,
                      filter : Filters \cup {NoFilter}]
    BY <1>2, SubscriptionsAssumption DEF SubscriptionsAssumption, Steps
  <2> QED BY <1>1, <1>2, <2>1 DEF SubsTypeOK
<1>4. RestoreOK'
  BY <1>2 DEF RestoreOK
<1>5. TableOK'
  BY <1>1, <1>2 DEF TableOK, InTable
<1>6. AcksOK' /\ Withdrawn'
  BY <1>1, <1>2, QueuesStay DEF AcksOK
<1>7. TableCovered'
  BY <1>2 DEF TableCovered, Covered, Due
<1> QED BY <1>3, <1>4, <1>5, <1>6, <1>7 DEF SubsInv

\* A step of the restore that sends nothing: the table stays and what is due stays due.
LEMMA RestoreMoves ==
    ASSUME SubsInv, UNCHANGED <<subs, linked, online, breaks, stage, reply, outcome>>,
           UNCHANGED <<outgoing, incoming, active>>,
           restore' \in Local, RestoreOK',
           restore'.filter # NoFilter => restore'.filter \in InTable,
           linked => \A f \in InTable : Due(f) => Due(f)'
    PROVE  SubsInv'
<1>1. SubsTypeOK /\ RestoreOK /\ TableOK /\ AcksOK /\ TableCovered /\ Withdrawn
  BY DEF SubsInv
<1>2. SubsTypeOK'
  <2>1. restore' \in [step : Steps, i : 0..MaxSubs + 1, count : 0..MaxSubs,
                      filter : Filters \cup {NoFilter}]
    BY DEF Local
  <2> QED BY <1>1, <2>1 DEF SubsTypeOK
<1>3. TableOK'
  BY <1>1 DEF TableOK, InTable
<1>4. AcksOK' /\ Withdrawn'
  BY <1>1, QueuesStay DEF AcksOK
<1>5. TableCovered'
  <2>1. InTable' = InTable
    BY DEF InTable
  <2>2. \A f : Asked(f)' <=> Asked(f)
    BY DEF Asked
  <2> QED BY <1>1, <2>1, <2>2 DEF TableCovered, Covered
<1> QED BY <1>2, <1>3, <1>4, <1>5 DEF SubsInv

LEMMA CountKeeps == ASSUME SubsInv, RestoreCount PROVE SubsInv'
<1>1. SubsTypeOK /\ RestoreOK /\ TableOK /\ AcksOK /\ TableCovered /\ Withdrawn
  BY DEF SubsInv
<1>2. /\ restore.step = "count"
      /\ UNCHANGED <<subs, linked, online, breaks, stage, reply, outcome, outgoing, incoming,
                     active>>
  BY DEF RestoreCount, connection, callers, packets
<1>3. /\ restore \in Local /\ subs \in Seq(Filters) /\ Len(subs) \in Nat /\ Len(subs) <= MaxSubs
      /\ DOMAIN subs = 1..Len(subs) /\ MaxSubs \in Nat
  BY <1>1, LenProperties, SubscriptionsAssumption DEF SubsTypeOK, Local, SubscriptionsAssumption
<1>4. online
  BY <1>1, <1>2 DEF RestoreOK
<1>5. CASE subs = <<>>
  <2>1. restore' = [step |-> "idle", i |-> 0, count |-> 0, filter |-> NoFilter]
    BY <1>5 DEF RestoreCount, NoRestore
  <2>2. restore' \in Local
    BY <1>3, <2>1 DEF Local, Steps
  <2>3. RestoreOK'
    BY <1>1, <1>2, <2>1 DEF RestoreOK
  <2>4. InTable = {}
    BY <1>5 DEF InTable
  <2> QED BY <1>2, <2>1, <2>2, <2>3, <2>4, RestoreMoves
<1>6. CASE subs # <<>>
  <2>1. restore' = [restore EXCEPT !.step = "read", !.i = 1, !.count = Len(subs)]
    BY <1>6 DEF RestoreCount
  <2>2. /\ restore' \in Local /\ restore'.step = "read" /\ restore'.i = 1
        /\ restore'.count = Len(subs) /\ restore'.filter = restore.filter
    <3>1. Len(subs) \in 0..MaxSubs /\ 1 \in 0..MaxSubs + 1
      BY <1>3
    <3> QED BY <1>3, <2>1, <3>1 DEF Local, Steps
  <2>3. restore'.filter = NoFilter
    BY <1>1, <1>2, <2>2 DEF RestoreOK
  <2>4. RestoreOK'
    BY <1>1, <1>2, <1>3, <1>4, <2>2, <2>3 DEF RestoreOK
  <2>5. \A f \in InTable : Due(f)'
    BY <1>2, <1>3, <2>2 DEF Due, InTable
  <2> QED BY <1>2, <2>2, <2>3, <2>4, <2>5, RestoreMoves
<1> QED BY <1>5, <1>6

LEMMA ReadKeeps == ASSUME SubsInv, RestoreRead PROVE SubsInv'
<1>1. SubsTypeOK /\ RestoreOK /\ TableOK /\ AcksOK /\ TableCovered /\ Withdrawn
  BY DEF SubsInv
<1>2. /\ restore.step = "read"
      /\ UNCHANGED <<subs, linked, online, breaks, stage, reply, outcome, outgoing, incoming,
                     active>>
  BY DEF RestoreRead, connection, callers, packets
<1>3. /\ restore \in Local /\ subs \in Seq(Filters) /\ Len(subs) \in Nat
      /\ DOMAIN subs = 1..Len(subs) /\ MaxSubs \in Nat
  BY <1>1, LenProperties, SubscriptionsAssumption DEF SubsTypeOK, Local, SubscriptionsAssumption
<1>4. online /\ restore.i >= 1 /\ restore.i \in Nat /\ restore.count \in Nat
  BY <1>1, <1>2, <1>3 DEF RestoreOK, Local
<1>5. CASE More
  <2>1. restore' = [restore EXCEPT !.step = "remember", !.filter = subs[restore.i]]
    BY <1>5 DEF RestoreRead
  <2>2. restore.i \in DOMAIN subs /\ restore.i <= restore.count
    BY <1>3, <1>4, <1>5 DEF More
  <2>3. subs[restore.i] \in Filters /\ subs[restore.i] # NoFilter /\ subs[restore.i] \in InTable
    BY <1>3, <2>2, SubscriptionsAssumption DEF SubscriptionsAssumption, InTable
  <2>4. /\ restore' \in Local /\ restore'.step = "remember" /\ restore'.i = restore.i
        /\ restore'.count = restore.count /\ restore'.filter = subs[restore.i]
    BY <1>3, <2>1, <2>3 DEF Local, Steps
  <2>5. RestoreOK'
    BY <1>1, <1>2, <1>4, <2>2, <2>3, <2>4 DEF RestoreOK
  <2>6. ASSUME NEW f \in InTable, Due(f) PROVE Due(f)'
    <3>1. PICK k \in DOMAIN subs : k >= restore.i /\ k <= restore.count /\ subs[k] = f
      BY <1>2, <2>6 DEF Due
    <3>2. CASE k = restore.i
      BY <2>4, <3>1, <3>2 DEF Due
    <3>3. CASE k # restore.i
      <4>1. k > restore.i
        BY <1>3, <1>4, <3>1, <3>3
      <4> QED BY <1>2, <2>4, <3>1, <4>1 DEF Due
    <3> QED BY <3>2, <3>3
  <2> QED BY <1>2, <2>3, <2>4, <2>5, <2>6, RestoreMoves
<1>6. CASE ~More
  <2>1. restore' = [step |-> "idle", i |-> 0, count |-> 0, filter |-> NoFilter]
    BY <1>6 DEF RestoreRead, NoRestore
  <2>2. restore' \in Local
    BY <1>3, <2>1 DEF Local, Steps
  <2>3. RestoreOK'
    BY <1>1, <1>2, <2>1 DEF RestoreOK
  <2>4. \A f \in InTable : ~Due(f)
    BY <1>2, <1>3, <1>4, <1>6 DEF Due, More
  <2> QED BY <1>2, <2>1, <2>2, <2>3, <2>4, RestoreMoves
<1> QED BY <1>5, <1>6

LEMMA RememberKeeps == ASSUME SubsInv, RestoreRemember PROVE SubsInv'
<1>1. SubsTypeOK /\ RestoreOK /\ TableOK /\ AcksOK /\ TableCovered /\ Withdrawn
  BY DEF SubsInv
<1>2. restore.step = "remember" /\ restore.filter \in InTable
  BY <1>1 DEF RestoreRemember, RestoreOK, TableOK
<1>3. /\ restore' = [restore EXCEPT !.step = "acquire"]
      /\ UNCHANGED <<subs, linked, online, breaks, stage, reply, outcome, outgoing, incoming,
                     active>>
  BY <1>2 DEF RestoreRemember, With, connection, callers, packets
<1>4. restore \in Local
  BY <1>1 DEF SubsTypeOK, Local
<1>5. /\ restore' \in Local /\ restore'.step = "acquire" /\ restore'.i = restore.i
      /\ restore'.count = restore.count /\ restore'.filter = restore.filter
  BY <1>3, <1>4 DEF Local, Steps
<1>6. RestoreOK'
  BY <1>1, <1>2, <1>3, <1>5 DEF RestoreOK
<1>7. \A f \in InTable : Due(f) => Due(f)'
  BY <1>2, <1>3, <1>5 DEF Due
<1> QED BY <1>2, <1>3, <1>5, <1>6, <1>7, RestoreMoves

LEMMA RestoreAcquireKeeps == ASSUME SlotLeft, SubsInv, RestoreAcquire PROVE SubsInv'
<1>1. SubsTypeOK /\ RestoreOK /\ TableOK /\ AcksOK /\ TableCovered /\ Withdrawn
  BY DEF SubsInv
<1>2. restore.step = "acquire"
  BY DEF RestoreAcquire
<1>3. SlotsTaken # MaxSubacks
  BY DEF SlotLeft, RestoreAcquire
<1>4. /\ restore' = [restore EXCEPT !.step = "send"]
      /\ UNCHANGED <<subs, linked, online, breaks, stage, reply, outcome, outgoing, incoming,
                     active>>
  BY <1>3 DEF RestoreAcquire, connection, callers, packets
<1>5. restore \in Local
  BY <1>1 DEF SubsTypeOK, Local
<1>6. /\ restore' \in Local /\ restore'.step = "send" /\ restore'.i = restore.i
      /\ restore'.count = restore.count /\ restore'.filter = restore.filter
  BY <1>4, <1>5 DEF Local, Steps
<1>7. RestoreOK'
  BY <1>1, <1>2, <1>4, <1>6 DEF RestoreOK
<1>8. \A f \in InTable : Due(f) => Due(f)'
  BY <1>2, <1>4, <1>6 DEF Due
<1>9. restore'.filter # NoFilter => restore'.filter \in InTable
  BY <1>1, <1>6 DEF TableOK
<1> QED BY <1>4, <1>6, <1>7, <1>8, <1>9, RestoreMoves

LEMMA RestoreSendKeeps == ASSUME SubsInv, RestoreSend PROVE SubsInv'
<1>1. SubsTypeOK /\ RestoreOK /\ TableOK /\ AcksOK /\ TableCovered /\ Withdrawn
  BY DEF SubsInv
<1> DEFINE e == [kind |-> "subscribe", filter |-> restore.filter, call |-> NoCaller]
<1>2. /\ restore.step = "send" /\ outgoing' = (IF linked THEN Append(outgoing, e) ELSE outgoing)
      /\ restore' = [restore EXCEPT !.step = "read", !.i = @ + 1, !.filter = NoFilter]
      /\ UNCHANGED <<subs, linked, online, breaks, stage, reply, outcome, incoming, active>>
  BY DEF RestoreSend, NextFilter, connection, callers
<1>3. restore \in Local /\ MaxSubs \in Nat
  BY <1>1, SubscriptionsAssumption DEF SubsTypeOK, Local, SubscriptionsAssumption
<1>4. /\ online /\ restore.i >= 1 /\ restore.i <= restore.count /\ restore.filter # NoFilter
      /\ restore.i \in Nat /\ restore.count \in 0..MaxSubs /\ restore.filter \in Filters
      /\ restore.filter \in InTable
  BY <1>1, <1>2, <1>3 DEF RestoreOK, TableOK, Local
<1>5. /\ restore' \in Local /\ restore'.step = "read" /\ restore'.i = restore.i + 1
      /\ restore'.count = restore.count /\ restore'.filter = NoFilter
  <2>1. restore.i + 1 \in 0..MaxSubs + 1
    BY <1>3, <1>4
  <2> QED BY <1>2, <1>3, <2>1 DEF Local, Steps
<1>6. RestoreOK'
  BY <1>1, <1>2, <1>4, <1>5 DEF RestoreOK
<1>7. CASE ~linked
  <2>1. UNCHANGED <<outgoing, incoming, active>>
    BY <1>2, <1>7
  <2> QED BY <1>2, <1>5, <1>6, <1>7, <2>1, RestoreMoves
<1>8. CASE linked
  <2>1. outgoing' = Append(outgoing, e)
    BY <1>2, <1>8
  <2>2. e \in SubsPacket /\ e.kind = "subscribe" /\ e.filter = restore.filter /\ e.call = NoCaller
    BY <1>4 DEF SubsPacket
  <2> HIDE DEF e
  <2>3. /\ outgoing' \in Seq(SubsPacket) /\ Len(outgoing) \in Nat
        /\ DOMAIN outgoing = 1..Len(outgoing) /\ DOMAIN outgoing' = 1..Len(outgoing) + 1
        /\ \A j \in 1..Len(outgoing) : outgoing'[j] = outgoing[j]
        /\ outgoing'[Len(outgoing) + 1] = e
        /\ ToSet(outgoing') = ToSet(outgoing) \cup {e}
    BY <1>1, <2>1, <2>2, SubsPacketTypes, PacketAppended
  <2>4. SubsTypeOK'
    <3>1. outgoing' \in Seq([kind : {"subscribe", "unsubscribe"}, filter : Filters,
                             call : FilterCalls \cup {NoCaller}])
      BY <2>3 DEF SubsPacket
    <3>2. restore' \in [step : Steps, i : 0..MaxSubs + 1, count : 0..MaxSubs,
                        filter : Filters \cup {NoFilter}]
      BY <1>5 DEF Local
    <3> QED BY <1>1, <1>2, <3>1, <3>2 DEF SubsTypeOK
  <2>5. TableOK'
    BY <1>1, <1>2, <1>5 DEF TableOK, InTable
  <2>6. AcksOK'
    <3>1. \A p \in ToSet(outgoing)' : PacketOK(p)'
      <4>1. ASSUME NEW p \in ToSet(outgoing') PROVE PacketOK(p)'
        BY <1>1, <1>2, <2>2, <2>3 DEF AcksOK, PacketOK
      <4> QED BY <4>1
    <3> QED BY <1>1, <1>2, <3>1 DEF AcksOK
  <2>7. TableCovered'
    <3>1. InTable' = InTable
      BY <1>2 DEF InTable
    <3>2. ASSUME NEW f \in InTable, Covered(f) PROVE Covered(f)'
      <4>1. CASE Asked(f)
        BY <1>2, <2>3, <4>1 DEF Covered, Asked
      <4>2. CASE f = restore.filter
        BY <2>2, <2>3, <4>2 DEF Covered, Asked
      <4>3. CASE Due(f) /\ f # restore.filter
        <5>1. PICK k \in DOMAIN subs : k > restore.i /\ k <= restore.count /\ subs[k] = f
          BY <1>2, <4>3 DEF Due
        <5>2. k \in Nat /\ k >= restore.i + 1
          BY <1>1, <1>4, <5>1, LenProperties DEF SubsTypeOK
        <5>3. Due(f)'
          BY <1>2, <1>5, <5>1, <5>2 DEF Due
        <5> QED BY <5>3 DEF Covered
      <4> QED BY <3>2, <4>1, <4>2, <4>3 DEF Covered
    <3> QED BY <1>1, <1>2, <3>1, <3>2 DEF TableCovered
  <2>8. Withdrawn'
    <3> SUFFICES ASSUME NEW d \in FilterCalls, Unsubscribes(d)
                 PROVE  /\ \A i, j \in DOMAIN outgoing' :
                              i < j /\ outgoing'[i].call = d => ~IsFor(outgoing'[j], Filter[d])
                        /\ Answered(d) => /\ Filter[d] \notin active
                                          /\ \A p \in ToSet(outgoing') : ~IsFor(p, Filter[d])
      BY <1>2 DEF Withdrawn, Answered
    <3>1. CASE stage[d] = "start"
      <4>1. d # NoCaller
        BY SubscriptionsAssumption DEF SubscriptionsAssumption
      <4>2. \A p \in ToSet(outgoing') : p.call # d
        BY <1>1, <2>2, <2>3, <3>1, <4>1 DEF AcksOK, PacketOK
      <4>3. \A i \in DOMAIN outgoing' : outgoing'[i].call # d
        BY <4>2 DEF ToSet
      <4>4. ~Answered(d)
        BY <1>1, <3>1, <4>1 DEF AcksOK, Answered
      <4> QED BY <4>3, <4>4
    <3>2. CASE stage[d] # "start"
      <4>1. ~IsFor(e, Filter[d])
        BY <1>1, <1>4, <2>2, <3>2 DEF TableOK, IsFor
      <4>2. ASSUME NEW i \in 1..Len(outgoing) + 1, NEW j \in 1..Len(outgoing) + 1,
                   i < j, outgoing'[i].call = d
            PROVE  ~IsFor(outgoing'[j], Filter[d])
        <5>1. CASE j = Len(outgoing) + 1
          BY <2>3, <4>1, <5>1
        <5>2. CASE j # Len(outgoing) + 1
          <6>1. i \in 1..Len(outgoing) /\ j \in 1..Len(outgoing)
            BY <2>3, <4>2, <5>2
          <6> QED BY <1>1, <2>3, <4>2, <6>1 DEF Withdrawn
        <5> QED BY <5>1, <5>2
      <4>3. Answered(d) => /\ Filter[d] \notin active
                           /\ \A p \in ToSet(outgoing') : ~IsFor(p, Filter[d])
        BY <1>1, <2>3, <4>1 DEF Withdrawn
      <4> QED BY <2>3, <4>2, <4>3
    <3> QED BY <3>1, <3>2
  <2> QED BY <1>6, <2>4, <2>5, <2>6, <2>7, <2>8 DEF SubsInv
<1> QED BY <1>7, <1>8

-----------------------------------------------------------------------------
(* The broker                                                              *)

LEMMA BrokerAnswersKeeps == ASSUME SubsInv, BrokerAnswers PROVE SubsInv'
<1>1. SubsTypeOK /\ RestoreOK /\ TableOK /\ AcksOK /\ TableCovered /\ Withdrawn
  BY DEF SubsInv
<1> DEFINE p == Head(outgoing)
           e == [call |-> p.call, ok |-> p.kind = "unsubscribe" \/ p.filter \notin Denied]
<1>2. /\ outgoing # <<>> /\ outgoing' = Tail(outgoing) /\ incoming' = Append(incoming, e)
      /\ active' = IF p.kind = "unsubscribe" THEN active \ {p.filter}
                   ELSE active \cup ({p.filter} \ Denied)
      /\ UNCHANGED <<subs, restore, linked, online, breaks, stage, reply, outcome>>
  BY DEF BrokerAnswers, table, connection, callers
<1>3. /\ outgoing' \in Seq(SubsPacket) /\ p \in SubsPacket /\ p \in ToSet(outgoing)
      /\ DOMAIN outgoing = 1..Len(outgoing) /\ Len(outgoing) \in Nat /\ Len(outgoing) >= 1
      /\ DOMAIN outgoing' = 1..Len(outgoing) - 1 /\ outgoing[1] = p
      /\ \A j \in 1..Len(outgoing) - 1 : outgoing'[j] = outgoing[j + 1]
      /\ ToSet(outgoing) = ToSet(outgoing') \cup {p}
  BY <1>1, <1>2, SubsPacketTypes, HeadTaken
<1> HIDE DEF p
<1>4. /\ e \in Ack /\ e.call = p.call
      /\ e.ok = (p.kind = "unsubscribe" \/ p.filter \notin Denied)
  BY <1>3 DEF SubsPacket, Ack
<1> HIDE DEF e
<1>5. incoming' \in Seq(Ack) /\ ToSet(incoming') = ToSet(incoming) \cup {e}
  BY <1>1, <1>2, <1>4, SubsPacketTypes, PacketAppended
<1>6. /\ p.kind \in {"subscribe", "unsubscribe"} /\ p.filter \in Filters
      /\ PacketOK(p) /\ NoCaller \notin FilterCalls /\ (p.call # NoCaller => p.call \in FilterCalls)
  BY <1>1, <1>3, SubscriptionsAssumption DEF SubsPacket, AcksOK, SubscriptionsAssumption
<1>7. SubsTypeOK'
  <2>1. outgoing' \in Seq([kind : {"subscribe", "unsubscribe"}, filter : Filters,
                           call : FilterCalls \cup {NoCaller}])
    BY <1>3 DEF SubsPacket
  <2>2. incoming' \in Seq([call : FilterCalls \cup {NoCaller}, ok : BOOLEAN])
    BY <1>5 DEF Ack
  <2>3. active' \subseteq Filters
    BY <1>1, <1>2, <1>6 DEF SubsTypeOK
  <2> QED BY <1>1, <1>2, <2>1, <2>2, <2>3 DEF SubsTypeOK
<1>8. RestoreOK'
  BY <1>1, <1>2 DEF RestoreOK
<1>9. TableOK'
  BY <1>1, <1>2, TableStays
<1>10. AcksOK'
  <2>1. ASSUME NEW q \in ToSet(outgoing') PROVE PacketOK(q)'
    BY <1>1, <1>2, <1>3 DEF AcksOK, PacketOK
  <2>2. ASSUME NEW a \in ToSet(incoming'), a.call # NoCaller
        PROVE  stage[a.call] \in {"wait", "returned"} /\ (a.ok => Accepted(a.call))
    <3>1. CASE a = e
      <4>1. /\ p.call \in FilterCalls /\ stage[p.call] \in {"wait", "returned"}
            /\ p.kind = Kind[p.call] /\ p.filter = Filter[p.call]
        BY <1>4, <1>6, <2>2, <3>1 DEF PacketOK
      <4> QED BY <1>4, <3>1, <4>1 DEF Accepted, Subscribes
    <3>2. CASE a \in ToSet(incoming)
      BY <1>1, <2>2, <3>2 DEF AcksOK
    <3> QED BY <1>5, <3>1, <3>2
  <2>3. \A q \in ToSet(outgoing)' : PacketOK(q)'
    BY <2>1
  <2>4. \A a \in ToSet(incoming)' : a.call # NoCaller =>
           stage'[a.call] \in {"wait", "returned"} /\ (a.ok => Accepted(a.call))
    BY <1>2, <2>2
  <2> QED BY <1>1, <1>2, <2>3, <2>4 DEF AcksOK
<1>11. TableCovered'
  <2>1. InTable' = InTable
    BY <1>2 DEF InTable
  <2>2. ASSUME NEW f \in InTable \ Denied, Covered(f) PROVE Covered(f)'
    <3>1. CASE Due(f)
      BY <1>2, <3>1 DEF Covered, Due
    <3>2. CASE f \in active
      <4>1. p.kind = "unsubscribe" => p.filter # f
        <5> SUFFICES ASSUME p.kind = "unsubscribe" PROVE p.filter # f
          OBVIOUS
        <5>1. /\ p.call \in FilterCalls /\ Unsubscribes(p.call) /\ stage[p.call] # "start"
              /\ p.filter = Filter[p.call]
          BY <1>6 DEF PacketOK, Unsubscribes
        <5> QED BY <1>1, <5>1 DEF TableOK
      <4> QED BY <1>2, <3>2, <4>1 DEF Covered, Asked
    <3>3. CASE \E q \in ToSet(outgoing) : q.kind = "subscribe" /\ q.filter = f
      <4>1. PICK q \in ToSet(outgoing) : q.kind = "subscribe" /\ q.filter = f
        BY <3>3
      <4>2. CASE q = p
        BY <1>2, <4>1, <4>2 DEF Covered, Asked
      <4>3. CASE q \in ToSet(outgoing')
        BY <4>1, <4>3 DEF Covered, Asked
      <4> QED BY <1>3, <4>1, <4>2, <4>3
    <3> QED BY <2>2, <3>1, <3>2, <3>3 DEF Covered, Asked
  <2> QED BY <1>1, <1>2, <2>1, <2>2 DEF TableCovered
<1>12. Withdrawn'
  <2> SUFFICES ASSUME NEW d \in FilterCalls, Unsubscribes(d)
               PROVE  /\ \A i, j \in DOMAIN outgoing' :
                            i < j /\ outgoing'[i].call = d => ~IsFor(outgoing'[j], Filter[d])
                      /\ Answered(d)' => /\ Filter[d] \notin active'
                                         /\ \A q \in ToSet(outgoing') : ~IsFor(q, Filter[d])
    BY DEF Withdrawn
  <2>1. ASSUME NEW i \in 1..Len(outgoing) - 1, NEW j \in 1..Len(outgoing) - 1,
               i < j, outgoing'[i].call = d
        PROVE  ~IsFor(outgoing'[j], Filter[d])
    <3>1. /\ i + 1 \in 1..Len(outgoing) /\ j + 1 \in 1..Len(outgoing) /\ i + 1 < j + 1
          /\ outgoing'[i] = outgoing[i + 1] /\ outgoing'[j] = outgoing[j + 1]
      BY <1>3, <2>1
    <3> QED BY <1>1, <1>3, <2>1, <3>1 DEF Withdrawn
  <2>2. CASE Answered(d)
    <3>1. Filter[d] \notin active /\ \A q \in ToSet(outgoing) : ~IsFor(q, Filter[d])
      BY <1>1, <2>2 DEF Withdrawn
    <3>2. Filter[d] \notin active'
      BY <1>2, <1>3, <1>6, <3>1 DEF IsFor
    <3> QED BY <1>3, <2>1, <3>1, <3>2
  <2>3. CASE p.call = d
    <3>1. p.kind = "unsubscribe" /\ p.filter = Filter[d]
      BY <1>6, <2>3 DEF PacketOK, Unsubscribes
    <3>2. Filter[d] \notin active'
      BY <1>2, <3>1
    <3>3. ASSUME NEW j \in 1..Len(outgoing) - 1 PROVE ~IsFor(outgoing'[j], Filter[d])
      <4>1. /\ 1 \in 1..Len(outgoing) /\ j + 1 \in 1..Len(outgoing) /\ 1 < j + 1
            /\ outgoing'[j] = outgoing[j + 1]
        BY <1>3
      <4> QED BY <1>1, <1>3, <2>3, <4>1 DEF Withdrawn
    <3>4. \A q \in ToSet(outgoing') : ~IsFor(q, Filter[d])
      BY <1>3, <3>3 DEF ToSet
    <3> QED BY <1>3, <2>1, <3>2, <3>4
  <2>4. CASE ~Answered(d) /\ p.call # d
    <3>1. ~Answered(d)'
      BY <1>2, <1>4, <1>5, <2>4 DEF Answered
    <3> QED BY <1>3, <2>1, <3>1
  <2> QED BY <2>2, <2>3, <2>4
<1> QED BY <1>7, <1>8, <1>9, <1>10, <1>11, <1>12 DEF SubsInv

-----------------------------------------------------------------------------
(* Subscriptions: the theorem                                              *)

LEMMA InitSubs == ASSUME SubsInit PROVE SubsInv
<1>1. /\ subs = Remembered /\ linked = TRUE /\ online = TRUE /\ breaks = 0
      /\ stage = [c \in FilterCalls |-> "start"] /\ reply = [c \in FilterCalls |-> "none"]
      /\ outcome = [c \in FilterCalls |-> "none"]
      /\ restore = [step |-> "idle", i |-> 0, count |-> 0, filter |-> NoFilter]
      /\ outgoing = <<>> /\ incoming = <<>>
      /\ active = {Remembered[i] : i \in DOMAIN Remembered} \ Denied
  BY DEF SubsInit, NoRestore
<1>2. ToSet(outgoing) = {} /\ ToSet(incoming) = {} /\ DOMAIN outgoing = {}
  BY <1>1 DEF ToSet
<1>3. /\ Remembered \in Seq(Filters) /\ Len(Remembered) <= MaxSubs /\ MaxSubs \in Nat
      /\ \A i, j \in DOMAIN Remembered : Remembered[i] = Remembered[j] => i = j
      /\ MaxBreaks \in Nat
  BY SubscriptionsAssumption DEF SubscriptionsAssumption
<1>4. SubsTypeOK
  <2>1. restore \in [step : Steps, i : 0..MaxSubs + 1, count : 0..MaxSubs,
                     filter : Filters \cup {NoFilter}]
    BY <1>1, <1>3 DEF Steps
  <2>2. active \subseteq Filters
    BY <1>1, <1>3
  <2>3. stage \in [FilterCalls -> CallPlaces] /\ outcome \in [FilterCalls -> SubsResults]
    BY <1>1 DEF CallPlaces, SubsResults
  <2> QED BY <1>1, <1>3, <2>1, <2>2, <2>3 DEF SubsTypeOK
<1>5. RestoreOK /\ TableOK
  BY <1>1 DEF RestoreOK, TableOK, InTable, Known
<1>6. AcksOK
  BY <1>1, <1>2 DEF AcksOK
<1>7. TableCovered
  BY <1>1 DEF TableCovered, Covered, Asked, InTable
<1>8. Withdrawn
  BY <1>1, <1>2 DEF Withdrawn, Answered
<1> QED BY <1>4, <1>5, <1>6, <1>7, <1>8 DEF SubsInv

LEMMA StepSubs ==
    ASSUME Apart, Distinct, Room, SlotLeft, SubsInv, [SubsNext]_subs_vars
    PROVE  SubsInv'
<1>1. ASSUME NEW c \in FilterCalls, Caller(c) PROVE SubsInv'
  BY <1>1, RecordKeeps, CheckKeeps, TakeSlotKeeps, SendFilterKeeps, LeaveKeeps DEF Caller
<1>2. CASE SubsReader
  BY <1>2, ReadSubackKeeps, MarkClosedKeeps, ReconnectKeeps, CountKeeps, ReadKeeps, RememberKeeps,
     RestoreAcquireKeeps, RestoreSendKeeps DEF SubsReader, Restoring
<1>3. CASE ConnectionBreaks
  BY <1>3, ConnectionBreaksKeeps
<1>4. CASE BrokerAnswers
  BY <1>4, BrokerAnswersKeeps
<1>5. CASE UNCHANGED subs_vars
  <2>1. /\ SubsTypeOK /\ RestoreOK /\ TableOK /\ AcksOK /\ TableCovered /\ Withdrawn
        /\ UNCHANGED <<subs, restore, linked, online, breaks, stage, reply, outcome, outgoing,
                       incoming, active>>
    BY <1>5 DEF SubsInv, subs_vars, table, connection, callers, packets
  <2>2. SubsTypeOK' /\ RestoreOK'
    BY <2>1 DEF SubsTypeOK, RestoreOK
  <2>3. TableOK' /\ TableCovered'
    BY <2>1, TableStays, CoverStays
  <2>4. AcksOK' /\ Withdrawn'
    BY <2>1, QueuesStay DEF AcksOK
  <2> QED BY <2>2, <2>3, <2>4 DEF SubsInv
<1> QED BY <1>1, <1>2, <1>3, <1>4, <1>5 DEF SubsNext, SubsQuiescent

LEMMA SubsSound == ASSUME SubsInv PROVE FiltersSound
<1>1. SubsTypeOK /\ RestoreOK /\ TableOK /\ AcksOK /\ TableCovered /\ Withdrawn
  BY DEF SubsInv
<1>2. ASSUME AtRest PROVE /\ linked /\ ToSet(outgoing) = {} /\ \A f \in InTable : ~Due(f)
  BY <1>2 DEF AtRest, ToSet, Due
<1>3. ASSUME AtRest, \A c \in FilterCalls : stage[c] \in {"start", "returned"}
      PROVE  InTable \ Denied \subseteq active
  BY <1>1, <1>2, <1>3 DEF TableCovered, Covered, Asked
<1>4. ASSUME AtRest, NEW c \in FilterCalls, Subscribes(c), outcome[c] = "OK"
      PROVE  Filter[c] \in active
  <2>1. stage[c] = "returned" /\ Filter[c] \notin Denied /\ Filter[c] \in InTable
    BY <1>1, <1>4 DEF AcksOK, Accepted, TableOK
  <2> QED BY <1>1, <1>2, <1>4, <2>1 DEF TableCovered, Covered, Asked
<1>5. ASSUME NEW c \in FilterCalls, Unsubscribes(c), outcome[c] = "OK" PROVE Filter[c] \notin active
  BY <1>1, <1>5 DEF Withdrawn, Answered
<1>6. Restored
  BY <1>3 DEF Restored
<1>7. SubscribedSurvives
  BY <1>4 DEF SubscribedSurvives, Subscribes
<1>8. UnsubscribedGone
  BY <1>5 DEF UnsubscribedGone, Unsubscribes
<1> QED BY <1>1, <1>6, <1>7, <1>8 DEF FiltersSound

\* "Re-subscribe every remembered topic after a (re)connect", and what the calls
\* promise with NCL_OK: for any filters, calls, lost connections and order of the
\* steps, when no filter is both subscribed and unsubscribed, no unsubscribe begins
\* during a restore, and neither the table nor the slots for SUBACKs run out.
THEOREM FiltersCorrect ==
    ASSUME Apart, Distinct, Room
    PROVE  SubsSpec /\ []SlotLeft => []FiltersSound
<1>1. SubsInit => SubsInv
  BY InitSubs
<1>2. SubsInv /\ SlotLeft /\ [SubsNext]_subs_vars => SubsInv'
  BY StepSubs
<1>3. SubsInv => FiltersSound
  BY SubsSound
<1> QED BY <1>1, <1>2, <1>3, PTL DEF SubsSpec
=============================================================================
