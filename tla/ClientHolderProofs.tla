------------------------ MODULE ClientHolderProofs ------------------------
(* Theorems about ClientHolder, for any threads, devices, clients, filters *)
(* and faults.                                                             *)
EXTENDS ClientHolder, TLAPS

\* Where a thread holds holder->mutex, and an application g_holder_mutex.
Locked == {"sweep", "unsubscribed", "find", "create", "subscribe", "await", "unlock", "freeing"}
Inside == Locked \cup {"lock", "closing", "disconnect", "join"}

\* Where an application shuts the holder down.
Shutting == {"closing", "freeing", "disconnect", "join"}

\* Where a thread has a client that was looked up or made for it.
Served == {"subscribe", "await", "unlock", "using"}

Packets == [kind : {"suback", "message"}, client : Nat, topic : Nat, sn : Devices \cup {None}]

\* The place of a thread tells its locks.  A holder that is gone has no reader.
LocksHeld ==
    /\ \A t \in Threads : pc[t] \in Locked <=> mutex = t
    /\ \A a \in Apps : pc[a] \in Inside <=> global = a
    /\ pc[Reader] \in Locked \/ pc[Reader] \in {"idle", "lock", "using", "gone"}
    /\ ~g_holder => pc[Reader] = "gone" \/ \E a \in Apps : pc[a] \in Shutting

\* Clients are numbered as they are made.
Numbered ==
    /\ \A s \in slots : s.client <= created
    /\ \A c \in swept \cup complete : c <= created
    /\ \A c \in Clients : c > created => age[c] = "fresh"

\* A client that is being handed to somebody has not been idle.
UseInv(t) ==
    /\ pc[t] = "using" => sn[t] # None /\ client[t] # 0
    /\ pc[t] \in Served /\ sn[t] # None /\ client[t] # 0 =>
           age[client[t]] = "fresh" /\ client[t] \notin swept /\ client[t] <= created

\* What a thread that holds the mutex has done so far.
WorkInv(t) ==
    /\ pc[t] \notin Served => topic[t] = 1
    /\ pc[t] \in {"find", "create"} => sn[t] \in Devices
    /\ pc[t] = "create" => client[t] = 0 /\ \A s \in slots : s.sn # sn[t]
    /\ pc[t] = "unsubscribed" =>
           \E s \in slots : /\ s.client = client[t] /\ age[client[t]] = "idle"
                            /\ \A f \in remembered : f.sn # s.sn
    /\ pc[t] \in {"subscribe", "await"} =>
           /\ [sn |-> sn[t], client |-> client[t]] \in slots
           /\ \A k \in 1..Topics :
                 k < topic[t] \/ (pc[t] = "await" /\ k = topic[t]) =>
                     [sn |-> sn[t], topic |-> k] \in remembered

IInv ==
    /\ TypeOK /\ wire \in Seq(Packets)
    /\ OneClientPerDevice /\ FiltersMatchClients
    /\ LocksHeld /\ Numbered
    /\ \A t \in Threads : UseInv(t) /\ WorkInv(t)

-----------------------------------------------------------------------------
(* What several steps have in common                                       *)

\* A thread that acts under the mutex is the only one that does.
LEMMA Alone ==
    ASSUME IInv, NEW t \in Threads, pc[t] \in Locked, NEW u \in Threads, u # t
    PROVE  pc[u] \notin Locked
  BY DEF IInv, LocksHeld

\* At most places nothing has been looked up yet.
LEMMA NothingYet ==
    ASSUME NEW t, topic'[t] = 1,
           pc'[t] \in {"idle", "global", "lock", "sweep", "closing", "freeing", "disconnect",
                      "join", "gone"}
    PROVE  UseInv(t)' /\ WorkInv(t)'
  BY DEF UseInv, WorkInv, Served

\* Threads that a step leaves alone, with the table and the filters.
LEMMA OthersSame ==
    ASSUME IInv, NEW u \in Threads,
           pc'[u] = pc[u], sn'[u] = sn[u], client'[u] = client[u], topic'[u] = topic[u],
           UNCHANGED <<slots, age, swept, remembered, created>>
    PROVE  UseInv(u)' /\ WorkInv(u)'
  BY DEF IInv, UseInv, WorkInv

\* Threads that a step leaves alone without the mutex: what they were given stays
\* fresh and alive.
LEMMA OthersFree ==
    ASSUME IInv, NEW u \in Threads, pc[u] \notin Locked,
           pc'[u] = pc[u], sn'[u] = sn[u], client'[u] = client[u], topic'[u] = topic[u],
           created' \in Nat, created' >= created,
           pc[u] = "using" => age'[client[u]] = "fresh" /\ client[u] \notin swept'
    PROVE  UseInv(u)' /\ WorkInv(u)'
<1>1. pc[u] \notin {"find", "create", "unsubscribed", "subscribe", "await", "unlock"}
  BY DEF Locked
<1>2. UseInv(u) /\ WorkInv(u) /\ created \in Nat
  BY HolderAssumption DEF IInv, TypeOK, HolderAssumption
<1>3. pc[u] = "using" => client[u] \in Nat /\ client[u] <= created
  BY <1>2 DEF UseInv, Served, IInv, TypeOK, Clients
<1>4. UseInv(u)'
  BY <1>1, <1>2, <1>3 DEF UseInv, Served
<1>5. WorkInv(u)'
  BY <1>1, <1>2 DEF WorkInv, Served
<1> QED BY <1>4, <1>5

\* A step to a place with the same locks.
LEMMA LocksStay ==
    ASSUME IInv, NEW t \in Threads, NEW place \in Places,
           pc' = [pc EXCEPT ![t] = place],
           place \in Locked <=> pc[t] \in Locked,
           place \in Inside <=> pc[t] \in Inside,
           place \in Shutting <=> pc[t] \in Shutting,
           t = Reader => \/ place \in Locked
                         \/ place \in {"idle", "lock", "using"}
                         \/ place = "gone",
           t = Reader /\ pc[t] = "gone" => place = "gone",
           UNCHANGED <<mutex, global, g_holder>>
    PROVE  LocksHeld'
<1>1. \A u \in Threads : pc'[u] = IF u = t THEN place ELSE pc[u]
  BY DEF IInv, TypeOK
<1>2. Reader \in Threads /\ Apps \subseteq Threads
  BY DEF Threads
<1>3. ~g_holder' => pc'[Reader] = "gone" \/ \E a \in Apps : pc'[a] \in Shutting
  BY <1>1, <1>2 DEF IInv, LocksHeld
<1> QED BY <1>1, <1>2, <1>3 DEF IInv, LocksHeld

\* The table, the filters and the numbers do not depend on where threads are, but
\* for the thread that is dropping a client.
LEMMA TablesStay ==
    ASSUME IInv, UNCHANGED <<slots, age, swept, remembered, created, complete>>,
           \A t \in Threads : pc[t] = "unsubscribed" =>
               pc'[t] = "unsubscribed" /\ client'[t] = client[t]
    PROVE  OneClientPerDevice' /\ FiltersMatchClients' /\ Numbered'
<1>1. OneClientPerDevice' /\ Numbered'
  BY DEF IInv, OneClientPerDevice, Numbered
<1>2. FiltersMatchClients'
  BY DEF IInv, FiltersMatchClients
<1> QED BY <1>1, <1>2

-----------------------------------------------------------------------------
(* The calls of the application                                            *)

\* The application makes a call.
LEMMA CallKeeps == ASSUME IInv, NEW a \in Apps, Call(a) PROVE IInv'
<1> USE DEF IInv
<1>1. PICK o \in {"init", "get", "count", "shutdown"}, d \in Devices :
          /\ op' = [op EXCEPT ![a] = o]
          /\ sn' = [sn EXCEPT ![a] = IF o = "get" THEN d ELSE None]
  BY DEF Call
<1>2. /\ pc[a] = "idle" /\ pc' = [pc EXCEPT ![a] = "global"] /\ calls < MaxCalls
      /\ calls' = calls + 1
      /\ UNCHANGED <<g_holder, global, mutex, holder, mqtt, client, topic, messages, faults>>
  BY DEF Call, Goto
<1>3. a \in Threads /\ a # Reader
  BY HolderAssumption DEF HolderAssumption, Threads
<1>4. TypeOK'
  <2>1. calls' \in 0..MaxCalls
    BY <1>2, HolderAssumption DEF HolderAssumption, TypeOK
  <2> QED BY <1>1, <1>2, <1>3, <2>1 DEF TypeOK, Places, holder, mqtt
<1>5. OneClientPerDevice' /\ FiltersMatchClients' /\ Numbered'
  BY <1>2, TablesStay DEF TypeOK, holder, mqtt
<1>6. LocksHeld'
  BY <1>2, <1>3, LocksStay DEF Places, Locked, Inside, Shutting
<1>7. \A u \in Threads : UseInv(u)' /\ WorkInv(u)'
  <2> TAKE u \in Threads
  <2>1. CASE u = a
    BY <1>2, <1>3, <2>1 DEF UseInv, WorkInv, TypeOK, Served
  <2>2. CASE u # a
    BY <1>1, <1>2, <2>2, OthersSame DEF TypeOK, holder, mqtt
  <2> QED BY <2>1, <2>2
<1> QED BY <1>2, <1>4, <1>5, <1>6, <1>7 DEF mqtt

\* A call that returns has forgotten everything.
LEMMA Returned ==
    ASSUME IInv, NEW t \in Threads, Return(t)
    PROVE  /\ pc' = [pc EXCEPT ![t] = "idle"]
           /\ op' \in [Threads -> {"init", "get", "count", "shutdown"}]
           /\ sn' \in [Threads -> Devices \cup {None}]
           /\ client' \in [Threads -> Clients \cup {0}]
           /\ topic' \in [Threads -> 1..Topics]
           /\ \A u \in Threads : u # t =>
                  /\ pc'[u] = pc[u] /\ sn'[u] = sn[u]
                  /\ client'[u] = client[u] /\ topic'[u] = topic[u]
           /\ UseInv(t)' /\ WorkInv(t)'
<1>1. 1 \in 1..Topics
  BY HolderAssumption DEF HolderAssumption
<1>2. /\ pc' = [pc EXCEPT ![t] = "idle"] /\ op' = [op EXCEPT ![t] = "get"]
      /\ sn' = [sn EXCEPT ![t] = None] /\ client' = [client EXCEPT ![t] = 0]
      /\ topic' = [topic EXCEPT ![t] = 1]
  BY DEF Return, Goto
<1>3. pc'[t] = "idle" /\ topic'[t] = 1
  BY <1>2 DEF IInv, TypeOK
<1>4. UseInv(t)' /\ WorkInv(t)'
  BY <1>3 DEF UseInv, WorkInv, Served
<1> QED BY <1>1, <1>2, <1>4 DEF IInv, TypeOK

\* The caller is done with its client.
LEMMA UsedKeeps == ASSUME IInv, NEW t \in Threads, Used(t) PROVE IInv'
<1> USE DEF IInv
<1>1. pc[t] = "using" /\ UNCHANGED <<g_holder, global, mutex, holder, mqtt, bounds>>
  BY DEF Used
<1>2. Return(t)
  BY DEF Used
<1>3. TypeOK'
  BY <1>1, <1>2, Returned DEF TypeOK, Places, holder, mqtt, bounds
<1>4. OneClientPerDevice' /\ FiltersMatchClients' /\ Numbered'
  BY <1>1, <1>2, Returned, TablesStay DEF TypeOK, holder, mqtt
<1>5. LocksHeld'
  BY <1>1, <1>2, Returned, LocksStay DEF Places, Locked, Inside, Shutting
<1>6. \A u \in Threads : UseInv(u)' /\ WorkInv(u)'
  BY <1>1, <1>2, Returned, OthersSame DEF holder, mqtt
<1> QED BY <1>1, <1>3, <1>4, <1>5, <1>6 DEF mqtt

\* A new holder finds the reader of the last one gone.
LEMMA StartKeeps == ASSUME IInv, NEW a \in Apps, Start(a) PROVE IInv'
<1> USE DEF IInv
<1>1. /\ pc[a] = "global" /\ global = None
      /\ UNCHANGED <<global, created, age, swept, complete, calls, messages>>
  BY DEF Start
<1>2. a \in Threads /\ a # Reader /\ Reader \in Threads /\ None \notin Threads
  BY HolderAssumption DEF HolderAssumption, Threads
<1>3. CASE Return(a) /\ UNCHANGED <<g_holder, mutex, slots, mqtt>> /\ (Fault \/ UNCHANGED faults)
  <2>1. TypeOK'
    <3>1. faults' \in 0..MaxFaults
      BY <1>3, HolderAssumption DEF HolderAssumption, Fault, TypeOK
    <3> QED BY <1>1, <1>3, <3>1, Returned, <1>2 DEF TypeOK, Places, mqtt
  <2>2. OneClientPerDevice' /\ FiltersMatchClients' /\ Numbered'
    BY <1>1, <1>2, <1>3, Returned, TablesStay DEF TypeOK, mqtt
  <2>3. LocksHeld'
    BY <1>1, <1>2, <1>3, Returned, LocksStay DEF Places, Locked, Inside, Shutting
  <2>4. \A u \in Threads : UseInv(u)' /\ WorkInv(u)'
    BY <1>1, <1>2, <1>3, Returned, OthersSame DEF mqtt
  <2> QED BY <1>3, <2>1, <2>2, <2>3, <2>4 DEF mqtt
<1>4. CASE /\ ~g_holder
           /\ g_holder' = TRUE /\ mutex' = None /\ slots' = {}
           /\ remembered' = {} /\ connected' = TRUE /\ link' = TRUE /\ stopping' = FALSE
           /\ wire' = <<>> /\ acked' = {}
           /\ pc' = [pc EXCEPT ![a] = "idle", ![Reader] = "idle"]
           /\ op' = [op EXCEPT ![a] = "get"]
           /\ UNCHANGED <<sn, client, topic, faults>>
  <2>1. pc[Reader] = "gone"
    <3>1. \A b \in Apps : global # b
      BY <1>1, <1>2 DEF Threads
    <3>2. \A b \in Apps : pc[b] \notin Inside
      BY <3>1 DEF LocksHeld
    <3>3. \A b \in Apps : pc[b] \notin Shutting
      <4>1. Shutting \subseteq Inside
        BY DEF Shutting, Inside, Locked
      <4> QED BY <3>2, <4>1
    <3> QED BY <1>4, <3>3 DEF LocksHeld
  <2>2. \A u \in Threads : pc'[u] = IF u \in {a, Reader} THEN "idle" ELSE pc[u]
    BY <1>2, <1>4 DEF TypeOK
  <2>3. \A u \in Threads : pc[u] \notin Locked
    BY <1>1, <1>2, <2>1 DEF LocksHeld, Inside, Locked, Threads
  <2>4. TypeOK'
    BY <1>1, <1>2, <1>4 DEF TypeOK, Places
  <2>5. OneClientPerDevice' /\ FiltersMatchClients' /\ Numbered'
    BY <1>1, <1>4 DEF OneClientPerDevice, FiltersMatchClients, Numbered
  <2>6. LocksHeld'
    <3>1. \A u \in Threads : pc'[u] \notin Locked /\ mutex' # u
      <4> TAKE u \in Threads
      <4>1. mutex' = None /\ pc[u] \notin Locked /\ "idle" \notin Locked
        BY <1>4, <2>3 DEF Locked
      <4>2. pc'[u] = "idle" \/ pc'[u] = pc[u]
        BY <2>2
      <4> QED BY <1>2, <4>1, <4>2
    <3>2. \A b \in Apps : pc'[b] \notin Inside /\ global' # b
      <4> TAKE b \in Apps
      <4>1. b \in Threads /\ global' # b /\ pc[b] \notin Inside
        BY <1>1, <1>2 DEF Threads, LocksHeld
      <4> QED BY <2>2, <4>1 DEF Inside, Locked
    <3> QED BY <1>2, <1>4, <2>2, <3>1, <3>2 DEF LocksHeld
  <2>7. \A u \in Threads : UseInv(u)' /\ WorkInv(u)'
    <3> TAKE u \in Threads
    <3>1. CASE u \in {a, Reader}
      <4>1. topic[u] = 1
        BY <1>1, <2>1, <3>1 DEF WorkInv, Served
      <4> QED BY <1>4, <2>2, <3>1, <4>1, NothingYet
    <3>2. CASE u \notin {a, Reader}
      <4>1. pc[u] = "using" => age[client[u]] = "fresh" /\ client[u] \notin swept
        BY DEF UseInv, Served
      <4> QED BY <1>1, <1>4, <2>2, <2>3, <3>2, <4>1, OthersFree, HolderAssumption
              DEF HolderAssumption, TypeOK
    <3> QED BY <3>1, <3>2
  <2>8. wire' \in Seq(Packets)
    BY <1>4
  <2> QED BY <2>4, <2>5, <2>6, <2>7, <2>8
<1> QED BY <1>3, <1>4 DEF Start

\* A call takes g_holder_mutex.
LEMMA EnterKeeps == ASSUME IInv, NEW a \in Apps, Enter(a) PROVE IInv'
<1> USE DEF IInv
<1>1. pc[a] = "global" /\ global = None /\ UNCHANGED <<mutex, holder, mqtt, bounds>>
  BY DEF Enter
<1>2. a \in Threads /\ a # Reader /\ Reader \in Threads /\ None \notin Threads
  BY HolderAssumption DEF HolderAssumption, Threads
<1>3. CASE Return(a) /\ UNCHANGED <<global, g_holder>>
  <2>1. TypeOK'
    BY <1>1, <1>2, <1>3, Returned DEF TypeOK, Places, holder, mqtt, bounds
  <2>2. OneClientPerDevice' /\ FiltersMatchClients' /\ Numbered'
    BY <1>1, <1>2, <1>3, Returned, TablesStay DEF TypeOK, holder, mqtt
  <2>3. LocksHeld'
    BY <1>1, <1>2, <1>3, Returned, LocksStay DEF Places, Locked, Inside, Shutting
  <2>4. \A u \in Threads : UseInv(u)' /\ WorkInv(u)'
    BY <1>1, <1>2, <1>3, Returned, OthersSame DEF holder, mqtt
  <2> QED BY <1>1, <2>1, <2>2, <2>3, <2>4 DEF mqtt
<1>4. CASE /\ g_holder /\ global' = a /\ g_holder' = (op[a] # "shutdown")
           /\ Goto(a, IF op[a] = "shutdown" THEN "closing" ELSE "lock")
           /\ UNCHANGED locals
  <2> DEFINE place == IF op[a] = "shutdown" THEN "closing" ELSE "lock"
  <2>1. pc' = [pc EXCEPT ![a] = place] /\ place \in {"closing", "lock"}
    BY <1>4 DEF Goto
  <2> HIDE DEF place
  <2>2. \A u \in Threads : pc'[u] = IF u = a THEN place ELSE pc[u]
    BY <2>1 DEF TypeOK
  <2>3. TypeOK'
    BY <1>1, <1>2, <1>4, <2>1 DEF TypeOK, Places, holder, mqtt, locals, bounds
  <2>4. OneClientPerDevice' /\ FiltersMatchClients' /\ Numbered'
    BY <1>1, <1>4, <2>2, TablesStay DEF holder, mqtt, locals
  <2>5. LocksHeld'
    <3>1. \A u \in Threads : pc'[u] \in Locked <=> mutex' = u
      BY <1>1, <1>2, <2>1, <2>2 DEF LocksHeld, Locked
    <3>2. \A b \in Apps : pc'[b] \in Inside <=> global' = b
      BY <1>1, <1>2, <1>4, <2>1, <2>2 DEF LocksHeld, Locked, Inside, Threads
    <3>3. ~g_holder' => pc'[a] \in Shutting
      <4>1. ~g_holder' => place = "closing"
        BY <1>4 DEF place
      <4> QED BY <1>2, <2>2, <4>1 DEF Shutting
    <3>4. pc'[Reader] = pc[Reader]
      BY <1>2, <2>2
    <3> QED BY <3>1, <3>2, <3>3, <3>4 DEF LocksHeld
  <2>6. \A u \in Threads : UseInv(u)' /\ WorkInv(u)'
    <3> TAKE u \in Threads
    <3>1. CASE u = a
      BY <1>1, <1>2, <1>4, <2>1, <2>2, <3>1 DEF UseInv, WorkInv, Served, locals
    <3>2. CASE u # a
      BY <1>1, <1>4, <2>2, <3>2, OthersSame DEF holder, mqtt, locals
    <3> QED BY <3>1, <3>2
  <2> QED BY <1>1, <2>3, <2>4, <2>5, <2>6 DEF mqtt
<1> QED BY <1>3, <1>4 DEF Enter

-----------------------------------------------------------------------------
(* ncl_holder_get_locked                                                   *)

\* A lookup takes the mutex.
LEMMA LockKeeps == ASSUME IInv, NEW t \in Threads, Lock(t) PROVE IInv'
<1> USE DEF IInv
<1>1. /\ pc[t] = "lock" /\ mutex = None /\ mutex' = t /\ pc' = [pc EXCEPT ![t] = "sweep"]
      /\ UNCHANGED <<g_holder, global, holder, mqtt, locals, bounds>>
  BY DEF Lock, Goto
<1>2. Reader \in Threads /\ Apps \subseteq Threads /\ None \notin Threads
  BY HolderAssumption DEF HolderAssumption, Threads
<1>3. \A u \in Threads : pc'[u] = IF u = t THEN "sweep" ELSE pc[u]
  BY <1>1 DEF TypeOK
<1>4. TypeOK'
  BY <1>1 DEF TypeOK, Places, holder, mqtt, locals, bounds
<1>5. OneClientPerDevice' /\ FiltersMatchClients' /\ Numbered'
  BY <1>1, <1>3, TablesStay DEF holder, mqtt, locals
<1>6. LocksHeld'
  <2>1. (\A u \in Threads : pc'[u] \in Locked <=> mutex' = u)
        /\ (\A a \in Apps : pc'[a] \in Inside <=> global' = a)
        /\ (pc'[Reader] \in Locked \/ pc'[Reader] \in {"idle", "lock", "using", "gone"})
    BY <1>1, <1>2, <1>3 DEF LocksHeld, Locked, Inside
  <2>2. \A u \in Threads : pc[u] \in Shutting \/ pc[u] = "gone" => pc'[u] = pc[u]
    BY <1>1, <1>3 DEF Shutting
  <2>3. ~g_holder => pc[Reader] = "gone" \/ \E a \in Apps : pc[a] \in Shutting
    BY DEF LocksHeld
  <2>4. ~g_holder' => pc'[Reader] = "gone" \/ \E a \in Apps : pc'[a] \in Shutting
    BY <1>1, <1>2, <2>2, <2>3
  <2> QED BY <2>1, <2>4 DEF LocksHeld
<1>7. \A u \in Threads : UseInv(u)' /\ WorkInv(u)'
  <2> TAKE u \in Threads
  <2>1. CASE u = t
    BY <1>1, <1>3, <2>1 DEF UseInv, WorkInv, Served, locals
  <2>2. CASE u # t
    BY <1>1, <1>3, <2>2, OthersSame DEF holder, mqtt, locals
  <2> QED BY <2>1, <2>2
<1> QED BY <1>1, <1>4, <1>5, <1>6, <1>7 DEF mqtt

\* The filters of an idle client go.
LEMMA SweepKeeps == ASSUME IInv, NEW t \in Threads, Sweep(t) PROVE IInv'
<1> USE DEF IInv
<1>1. /\ pc[t] = "sweep"
      /\ UNCHANGED <<g_holder, global, mutex, holder, connected, link, stopping, wire, acked,
                     op, sn, topic, bounds>>
  BY DEF Sweep
<1>2. topic[t] = 1 /\ sn[t] \in Devices \cup {None}
  BY <1>1 DEF WorkInv, Served, TypeOK
<1>3. CASE /\ Goto(t, IF sn[t] = None THEN "unlock" ELSE "find")
           /\ UNCHANGED <<client, remembered>>
  <2> DEFINE place == IF sn[t] = None THEN "unlock" ELSE "find"
  <2>1. pc' = [pc EXCEPT ![t] = place] /\ place \in {"unlock", "find"}
    BY <1>3 DEF Goto
  <2>2. place = "unlock" => sn[t] = None
    OBVIOUS
  <2>3. place = "find" => sn[t] \in Devices
    BY <1>2
  <2> HIDE DEF place
  <2>4. \A u \in Threads : pc'[u] = IF u = t THEN place ELSE pc[u]
    BY <2>1 DEF TypeOK
  <2>5. TypeOK'
    BY <1>1, <1>3, <2>1 DEF TypeOK, Places, holder, bounds
  <2>6. OneClientPerDevice' /\ FiltersMatchClients' /\ Numbered'
    BY <1>1, <1>3, <2>4, TablesStay DEF holder
  <2>7. LocksHeld'
    BY <1>1, <2>1, LocksStay DEF Places, Locked, Inside, Shutting
  <2>8. \A u \in Threads : UseInv(u)' /\ WorkInv(u)'
    <3> TAKE u \in Threads
    <3>1. CASE u = t
      BY <1>1, <1>2, <1>3, <2>1, <2>2, <2>3, <2>4, <3>1 DEF UseInv, WorkInv, Served
    <3>2. CASE u # t
      BY <1>1, <1>3, <2>4, <3>2, OthersSame DEF holder
    <3> QED BY <3>1, <3>2
  <2> QED BY <1>1, <2>5, <2>6, <2>7, <2>8
<1>4. CASE \E s \in Idle : /\ client' = [client EXCEPT ![t] = s.client]
                           /\ Forget(s.sn)
                           /\ Goto(t, "unsubscribed")
  <2>1. PICK s \in slots : /\ age[s.client] = "idle"
                           /\ client' = [client EXCEPT ![t] = s.client]
                           /\ remembered' = {f \in remembered : f.sn # s.sn}
                           /\ pc' = [pc EXCEPT ![t] = "unsubscribed"]
    BY <1>4 DEF Idle, Forget, Goto
  <2>2. s.client \in Clients /\ s.sn \in Devices
    BY DEF TypeOK, Slot
  <2>3. \A u \in Threads : /\ pc'[u] = IF u = t THEN "unsubscribed" ELSE pc[u]
                           /\ client'[u] = IF u = t THEN s.client ELSE client[u]
    BY <2>1 DEF TypeOK
  <2>4. TypeOK'
    BY <1>1, <2>1, <2>2 DEF TypeOK, Places, holder, bounds
  <2>5. OneClientPerDevice' /\ Numbered'
    BY <1>1 DEF OneClientPerDevice, Numbered, holder
  <2>6. FiltersMatchClients'
    <3>1. \A f \in remembered' : \E r \in slots' : r.sn = f.sn
      BY <1>1, <2>1 DEF FiltersMatchClients, holder
    <3>2. ASSUME NEW r \in slots, r.client \in complete
          PROVE  \/ \A k \in 1..Topics : [sn |-> r.sn, topic |-> k] \in remembered'
                 \/ \E u \in Threads : pc'[u] = "unsubscribed" /\ client'[u] = r.client
      <4>1. CASE r = s
        BY <2>3, <4>1
      <4>2. CASE r # s
        <5>1. r.sn # s.sn
          BY <4>2 DEF OneClientPerDevice
        <5>2. \A u \in Threads : pc[u] # "unsubscribed"
          BY <1>1, Alone DEF Locked
        <5>3. \A k \in 1..Topics : [sn |-> r.sn, topic |-> k] \in remembered
          BY <3>2, <5>2 DEF FiltersMatchClients
        <5> QED BY <2>1, <5>1, <5>3
      <4> QED BY <4>1, <4>2
    <3> QED BY <1>1, <3>1, <3>2 DEF FiltersMatchClients, holder
  <2>7. LocksHeld'
    BY <1>1, <2>1, LocksStay DEF Places, Locked, Inside, Shutting
  <2>8. \A u \in Threads : UseInv(u)' /\ WorkInv(u)'
    <3> TAKE u \in Threads
    <3>1. CASE u = t
      BY <1>1, <1>2, <2>1, <2>2, <2>3, <3>1 DEF UseInv, WorkInv, Served, holder
    <3>2. CASE u # t
      <4>1. pc[u] \notin Locked
        BY <1>1, <3>2, Alone DEF Locked
      <4>2. pc[u] = "using" => age[client[u]] = "fresh" /\ client[u] \notin swept
        BY DEF UseInv, Served
      <4>3. created' = created /\ created \in Nat
        BY <1>1, HolderAssumption DEF HolderAssumption, TypeOK, holder
      <4>4. /\ pc'[u] = pc[u] /\ sn'[u] = sn[u] /\ client'[u] = client[u]
            /\ topic'[u] = topic[u] /\ UNCHANGED <<age, swept>>
        BY <1>1, <2>3, <3>2 DEF holder
      <4> QED BY <4>1, <4>2, <4>3, <4>4, OthersFree
    <3> QED BY <3>1, <3>2
  <2> QED BY <1>1, <2>4, <2>5, <2>6, <2>7, <2>8
<1> QED BY <1>3, <1>4 DEF Sweep

\* Then the client goes, which nobody is using.
LEMMA DropKeeps == ASSUME IInv, NEW t \in Threads, Drop(t) PROVE IInv'
<1> USE DEF IInv
<1>1. /\ pc[t] = "unsubscribed"
      /\ slots' = {s \in slots : s.client # client[t]}
      /\ swept' = swept \cup {client[t]}
      /\ pc' = [pc EXCEPT ![t] = "sweep"]
      /\ UNCHANGED <<g_holder, global, mutex, created, age, complete, mqtt, locals, bounds>>
  BY DEF Drop, Goto
<1>2. PICK s \in slots : /\ s.client = client[t] /\ age[client[t]] = "idle"
                         /\ \A f \in remembered : f.sn # s.sn
  BY <1>1 DEF WorkInv
<1>3. s.client \in Clients /\ topic[t] = 1 /\ s.client <= created
  BY <1>1 DEF TypeOK, Slot, WorkInv, Served, Numbered
<1>4. \A u \in Threads : pc'[u] = IF u = t THEN "sweep" ELSE pc[u]
  BY <1>1 DEF TypeOK
<1>5. TypeOK'
  BY <1>1, <1>2, <1>3 DEF TypeOK, Places, mqtt, locals, bounds
<1>6. OneClientPerDevice' /\ Numbered'
  BY <1>1, <1>2, <1>3 DEF OneClientPerDevice, Numbered
<1>7. FiltersMatchClients'
  <2>1. ASSUME NEW f \in remembered PROVE \E r \in slots' : r.sn = f.sn
    <3>1. PICK r \in slots : r.sn = f.sn
      BY DEF FiltersMatchClients
    <3>2. r.client # client[t]
      BY <1>2, <3>1 DEF OneClientPerDevice
    <3> QED BY <1>1, <3>1, <3>2
  <2>2. ASSUME NEW r \in slots', r.client \in complete
        PROVE  \A k \in 1..Topics : [sn |-> r.sn, topic |-> k] \in remembered
    <3>1. r \in slots /\ r.client # client[t]
      BY <1>1, <2>2
    <3>2. \A u \in Threads : pc[u] = "unsubscribed" => u = t
      BY <1>1, Alone DEF Locked
    <3> QED BY <2>2, <3>1, <3>2 DEF FiltersMatchClients
  <2> QED BY <1>1, <2>1, <2>2 DEF FiltersMatchClients, mqtt
<1>8. LocksHeld'
  BY <1>1, LocksStay DEF Places, Locked, Inside, Shutting
<1>9. \A u \in Threads : UseInv(u)' /\ WorkInv(u)'
  <2> TAKE u \in Threads
  <2>1. CASE u = t
    <3>1. pc'[u] = "sweep" /\ topic'[u] = 1
      BY <1>1, <1>3, <1>4, <2>1 DEF locals
    <3> QED BY <3>1, NothingYet
  <2>2. CASE u # t
    <3>1. pc[u] \notin Locked
      BY <1>1, <2>2, Alone DEF Locked
    <3>2. pc[u] = "using" => age[client[u]] = "fresh" /\ client[u] \notin swept'
      BY <1>1, <1>2 DEF UseInv, Served
    <3> QED BY <1>1, <1>4, <2>2, <3>1, <3>2, OthersFree, HolderAssumption
            DEF HolderAssumption, TypeOK, locals
  <2> QED BY <2>1, <2>2
<1> QED BY <1>1, <1>5, <1>6, <1>7, <1>8, <1>9 DEF mqtt

\* A client that is found is fresh again.
LEMMA FindKeeps == ASSUME IInv, NEW t \in Threads, Find(t) PROVE IInv'
<1> USE DEF IInv
<1>1. /\ pc[t] = "find"
      /\ UNCHANGED <<g_holder, global, mutex, slots, created, swept, complete, mqtt,
                     op, sn, topic, bounds>>
  BY DEF Find
<1>2. topic[t] = 1 /\ sn[t] \in Devices /\ sn[t] # None
  BY <1>1, HolderAssumption DEF WorkInv, Served, HolderAssumption
<1>3. created' = created /\ created \in Nat
  BY <1>1, HolderAssumption DEF HolderAssumption, TypeOK
<1>4. \A u \in Threads : u # t => pc[u] \notin Locked
  BY <1>1, Alone DEF Locked
<1>5. CASE \E s \in slots : /\ s.sn = sn[t]
                            /\ age' = [age EXCEPT ![s.client] = "fresh"]
                            /\ client' = [client EXCEPT ![t] = s.client]
                            /\ Goto(t, "unlock")
  <2>1. PICK s \in slots : /\ s.sn = sn[t]
                           /\ age' = [age EXCEPT ![s.client] = "fresh"]
                           /\ client' = [client EXCEPT ![t] = s.client]
                           /\ pc' = [pc EXCEPT ![t] = "unlock"]
    BY <1>5 DEF Goto
  <2>2. s.client \in Clients /\ s.client \notin swept /\ s.client <= created
    BY DEF TypeOK, Slot, OneClientPerDevice, Numbered
  <2>3. \A u \in Threads : /\ pc'[u] = IF u = t THEN "unlock" ELSE pc[u]
                           /\ client'[u] = IF u = t THEN s.client ELSE client[u]
    BY <2>1 DEF TypeOK
  <2>4. \A c \in Clients : age'[c] = IF c = s.client THEN "fresh" ELSE age[c]
    BY <2>1 DEF TypeOK
  <2>5. TypeOK'
    BY <1>1, <2>1, <2>2 DEF TypeOK, Places, mqtt, bounds
  <2>6. OneClientPerDevice' /\ Numbered'
    BY <1>1, <2>4 DEF OneClientPerDevice, Numbered
  <2>7. FiltersMatchClients'
    BY <1>1, <1>4, <2>3 DEF FiltersMatchClients, mqtt, Locked
  <2>8. LocksHeld'
    BY <1>1, <2>1, LocksStay DEF Places, Locked, Inside, Shutting
  <2>9. \A u \in Threads : UseInv(u)' /\ WorkInv(u)'
    <3> TAKE u \in Threads
    <3>1. CASE u = t
      <4>1. pc'[t] = "unlock" /\ client'[t] = s.client
        BY <2>3
      <4>2. age'[s.client] = "fresh" /\ s.client \notin swept' /\ s.client <= created'
        BY <1>1, <2>2, <2>4
      <4> QED BY <3>1, <4>1, <4>2 DEF UseInv, WorkInv, Served
    <3>2. CASE u # t
      <4>1. pc[u] = "using" => age'[client[u]] = "fresh" /\ client[u] \notin swept'
        <5>1. ASSUME pc[u] = "using" PROVE client[u] \in Clients /\ age[client[u]] = "fresh"
                                             /\ client[u] \notin swept
          BY <5>1 DEF UseInv, Served, TypeOK
        <5> QED BY <1>1, <2>4, <5>1
      <4>2. /\ pc'[u] = pc[u] /\ sn'[u] = sn[u] /\ client'[u] = client[u]
            /\ topic'[u] = topic[u]
        BY <1>1, <2>3, <3>2
      <4> QED BY <1>3, <1>4, <3>2, <4>1, <4>2, OthersFree
    <3> QED BY <3>1, <3>2
  <2> QED BY <1>1, <2>5, <2>6, <2>7, <2>8, <2>9 DEF mqtt
<1>6. CASE /\ \A s \in slots : s.sn # sn[t]
           /\ Goto(t, "create")
           /\ client' = [client EXCEPT ![t] = 0]
           /\ UNCHANGED age
  <2>1. pc' = [pc EXCEPT ![t] = "create"]
    BY <1>6 DEF Goto
  <2>2. \A u \in Threads : /\ pc'[u] = IF u = t THEN "create" ELSE pc[u]
                           /\ client'[u] = IF u = t THEN 0 ELSE client[u]
    BY <1>6, <2>1 DEF TypeOK
  <2>3. TypeOK'
    BY <1>1, <1>6, <2>1 DEF TypeOK, Places, mqtt, bounds
  <2>4. OneClientPerDevice' /\ Numbered'
    BY <1>1, <1>6 DEF OneClientPerDevice, Numbered
  <2>5. FiltersMatchClients'
    BY <1>1, <1>4, <2>2 DEF FiltersMatchClients, mqtt, Locked
  <2>6. LocksHeld'
    BY <1>1, <2>1, LocksStay DEF Places, Locked, Inside, Shutting
  <2>7. \A u \in Threads : UseInv(u)' /\ WorkInv(u)'
    <3> TAKE u \in Threads
    <3>1. CASE u = t
      BY <1>1, <1>2, <1>6, <2>2, <3>1 DEF UseInv, WorkInv, Served
    <3>2. CASE u # t
      BY <1>1, <1>6, <2>2, <3>2, OthersSame DEF mqtt
    <3> QED BY <3>1, <3>2
  <2> QED BY <1>1, <2>3, <2>4, <2>5, <2>6, <2>7 DEF mqtt
<1> QED BY <1>5, <1>6 DEF Find

\* A client that is made has a new number.
LEMMA CreateKeeps == ASSUME IInv, NEW t \in Threads, Create(t) PROVE IInv'
<1> USE DEF IInv
<1>1. /\ pc[t] = "create"
      /\ UNCHANGED <<g_holder, global, mutex, age, swept, complete, mqtt, op, sn, topic, bounds>>
  BY DEF Create
<1>2. /\ topic[t] = 1 /\ sn[t] \in Devices /\ client[t] = 0
      /\ \A s \in slots : s.sn # sn[t]
  BY <1>1 DEF WorkInv, Served
<1>3. created \in 0..MaxClients /\ MaxClients \in Nat
  BY HolderAssumption DEF HolderAssumption, TypeOK
<1>4. \A u \in Threads : u # t => pc[u] \notin Locked
  BY <1>1, Alone DEF Locked
<1>5. CASE /\ created < MaxClients
           /\ created' = created + 1
           /\ slots' = slots \cup {[sn |-> sn[t], client |-> created']}
           /\ client' = [client EXCEPT ![t] = created']
           /\ Goto(t, "subscribe")
  <2>1. pc' = [pc EXCEPT ![t] = "subscribe"]
    BY <1>5 DEF Goto
  <2>2. created' \in Clients /\ created' \in Nat /\ created' > created /\ created' # 0
    BY <1>3, <1>5 DEF Clients
  <2>3. \A u \in Threads : /\ pc'[u] = IF u = t THEN "subscribe" ELSE pc[u]
                           /\ client'[u] = IF u = t THEN created' ELSE client[u]
    BY <1>5, <2>1 DEF TypeOK
  <2>4. age[created'] = "fresh" /\ created' \notin swept /\ created' \notin complete
    BY <1>3, <2>2 DEF Numbered, TypeOK, Clients
  <2>5. [sn |-> sn[t], client |-> created'] \in Slot
    BY <1>2, <2>2 DEF Slot
  <2>6. \A s \in slots : s.client \in Nat /\ s.client <= created /\ s.client # created'
    BY <1>3, <2>2 DEF Numbered, TypeOK, Slot, Clients
  <2>7. TypeOK'
    <3>1. created' \in 0..MaxClients /\ slots' \subseteq Slot
      BY <1>3, <1>5, <2>5 DEF TypeOK
    <3>2. pc' \in [Threads -> Places] /\ client' \in [Threads -> Clients \cup {0}]
      BY <1>5, <2>1, <2>2 DEF TypeOK, Places
    <3> QED BY <1>1, <3>1, <3>2 DEF TypeOK, mqtt, bounds
  <2>8. OneClientPerDevice'
    <3>1. ASSUME NEW s1 \in slots', NEW s2 \in slots', s1.sn = s2.sn \/ s1.client = s2.client
          PROVE  s1 = s2
      BY <1>2, <1>5, <2>6, <3>1 DEF OneClientPerDevice
    <3>2. \A s \in slots' : s.client \notin swept'
      BY <1>1, <1>5, <2>4 DEF OneClientPerDevice
    <3> QED BY <3>1, <3>2 DEF OneClientPerDevice
  <2>9. Numbered'
    <3>1. \A s \in slots' : s.client <= created'
      BY <1>3, <1>5, <2>2, <2>6
    <3>2. \A c \in swept' \cup complete' : c <= created'
      BY <1>1, <1>3, <2>2 DEF Numbered, TypeOK, Clients
    <3>3. \A c \in Clients : c > created' => age'[c] = "fresh"
      BY <1>1, <1>3, <2>2 DEF Numbered, Clients
    <3> QED BY <3>1, <3>2, <3>3 DEF Numbered
  <2>10. FiltersMatchClients'
    <3>1. \A f \in remembered' : \E s \in slots' : s.sn = f.sn
      BY <1>1, <1>5 DEF FiltersMatchClients, mqtt
    <3>2. \A u \in Threads : pc[u] # "unsubscribed"
      BY <1>1, <1>4 DEF Locked
    <3>3. \A s \in slots' : s.client \in complete' =>
              \A k \in 1..Topics : [sn |-> s.sn, topic |-> k] \in remembered'
      BY <1>1, <1>5, <2>4, <3>2 DEF FiltersMatchClients, mqtt
    <3> QED BY <3>1, <3>3 DEF FiltersMatchClients
  <2>11. LocksHeld'
    BY <1>1, <2>1, LocksStay DEF Places, Locked, Inside, Shutting
  <2>12. \A u \in Threads : UseInv(u)' /\ WorkInv(u)'
    <3> TAKE u \in Threads
    <3>1. CASE u = t
      <4>1. /\ pc'[t] = "subscribe" /\ client'[t] = created' /\ topic'[t] = 1
            /\ sn'[t] = sn[t] /\ age' = age /\ swept' = swept
        BY <1>1, <1>2, <2>3
      <4>2. UseInv(t)'
        BY <2>2, <2>4, <4>1 DEF UseInv
      <4>3. WorkInv(t)'
        BY <1>5, <4>1, HolderAssumption DEF WorkInv, Served, HolderAssumption
      <4> QED BY <3>1, <4>2, <4>3
    <3>2. CASE u # t
      <4>1. pc[u] = "using" => age'[client[u]] = "fresh" /\ client[u] \notin swept'
        BY <1>1 DEF UseInv, Served
      <4>2. /\ pc'[u] = pc[u] /\ sn'[u] = sn[u] /\ client'[u] = client[u]
            /\ topic'[u] = topic[u]
        BY <1>1, <2>3, <3>2
      <4>3. created' >= created
        BY <1>3, <2>2
      <4> QED BY <1>4, <2>2, <3>2, <4>1, <4>2, <4>3, OthersFree
    <3> QED BY <3>1, <3>2
  <2> QED BY <1>1, <2>7, <2>8, <2>9, <2>10, <2>11, <2>12 DEF mqtt
<1>6. CASE created = MaxClients /\ Goto(t, "unlock") /\ UNCHANGED <<slots, created, client>>
  <2>1. pc' = [pc EXCEPT ![t] = "unlock"]
    BY <1>6 DEF Goto
  <2>2. \A u \in Threads : pc'[u] = IF u = t THEN "unlock" ELSE pc[u]
    BY <2>1 DEF TypeOK
  <2>3. TypeOK'
    BY <1>1, <1>6, <2>1 DEF TypeOK, Places, mqtt, bounds
  <2>4. OneClientPerDevice' /\ FiltersMatchClients' /\ Numbered'
    BY <1>1, <1>6, <2>2, TablesStay DEF mqtt
  <2>5. LocksHeld'
    BY <1>1, <2>1, LocksStay DEF Places, Locked, Inside, Shutting
  <2>6. \A u \in Threads : UseInv(u)' /\ WorkInv(u)'
    <3> TAKE u \in Threads
    <3>1. CASE u = t
      BY <1>1, <1>2, <1>6, <2>2, <3>1 DEF UseInv, WorkInv, Served
    <3>2. CASE u # t
      BY <1>1, <1>6, <2>2, <3>2, OthersSame DEF mqtt
    <3> QED BY <3>1, <3>2
  <2> QED BY <1>1, <2>3, <2>4, <2>5, <2>6 DEF mqtt
<1> QED BY <1>5, <1>6 DEF Create

\* A filter that is remembered belongs to the client being made.
LEMMA SubscribeKeeps == ASSUME IInv, NEW t \in Threads, Subscribe(t) PROVE IInv'
<1> USE DEF IInv
<1> DEFINE filter == [sn |-> sn[t], topic |-> topic[t]]
<1>1. /\ pc[t] = "subscribe" /\ remembered' = remembered \cup {filter}
      /\ UNCHANGED <<g_holder, global, mutex, holder, connected, link, stopping, acked,
                     locals, bounds>>
  BY DEF Subscribe
<1>2. /\ [sn |-> sn[t], client |-> client[t]] \in slots
      /\ \A k \in 1..Topics : k < topic[t] => [sn |-> sn[t], topic |-> k] \in remembered
  BY <1>1 DEF WorkInv
<1>3. filter \in Filter /\ sn[t] \in Devices /\ client[t] \in Nat /\ topic[t] \in Nat
  <2>1. [sn |-> sn[t], client |-> client[t]] \in Slot
    BY <1>2 DEF TypeOK
  <2>2. sn[t] \in Devices /\ client[t] \in Nat
    BY <2>1 DEF Slot, Clients
  <2>3. topic[t] \in 1..Topics /\ topic[t] \in Nat
    BY HolderAssumption DEF TypeOK, HolderAssumption
  <2> QED BY <2>2, <2>3 DEF Filter
<1>4. PICK place \in {"await", "unlock"} : pc' = [pc EXCEPT ![t] = place]
  BY DEF Subscribe, Goto
<1>5. wire' \in Seq(Packets)
  <2>1. Ack(client[t], topic[t]) \in Packets
    BY <1>3 DEF Ack, Packets
  <2>2. wire' = wire \/ wire' = Append(wire, Ack(client[t], topic[t]))
    BY DEF Subscribe
  <2> QED BY <2>1, <2>2
<1>6. \A u \in Threads : pc'[u] = IF u = t THEN place ELSE pc[u]
  BY <1>4 DEF TypeOK
<1>7. TypeOK'
  BY <1>1, <1>3, <1>4 DEF TypeOK, Places, holder, locals, bounds
<1>8. OneClientPerDevice' /\ Numbered'
  BY <1>1 DEF OneClientPerDevice, Numbered, holder
<1>9. FiltersMatchClients'
  <2>1. \A f \in remembered' : \E s \in slots : s.sn = f.sn
    <3>1. \E s \in slots : s.sn = filter.sn
      BY <1>2
    <3> HIDE DEF filter
    <3> QED BY <1>1, <3>1 DEF FiltersMatchClients
  <2>2. \A u \in Threads : pc[u] # "unsubscribed"
    BY <1>1, Alone DEF Locked
  <2>3. \A s \in slots : s.client \in complete =>
            \A k \in 1..Topics : [sn |-> s.sn, topic |-> k] \in remembered
    BY <2>2 DEF FiltersMatchClients
  <2> QED BY <1>1, <2>1, <2>3 DEF FiltersMatchClients, holder
<1>10. LocksHeld'
  BY <1>1, <1>4, LocksStay DEF Places, Locked, Inside, Shutting
<1>11. \A u \in Threads : UseInv(u)' /\ WorkInv(u)'
  <2> TAKE u \in Threads
  <2>1. CASE u = t
    <3>1. UseInv(t)'
      <4>1. \/ sn[t] = None \/ client[t] = 0
            \/ age[client[t]] = "fresh" /\ client[t] \notin swept /\ client[t] <= created
        BY <1>1 DEF UseInv, Served
      <4>2. pc'[t] # "using" /\ UNCHANGED <<sn, client, age, swept, created>>
        BY <1>1, <1>6 DEF holder, locals
      <4> QED BY <4>1, <4>2 DEF UseInv
    <3>2. WorkInv(t)'
      <4>1. pc'[t] \in {"await", "unlock"} /\ UNCHANGED <<sn, client, topic, slots>>
        BY <1>1, <1>6 DEF holder, locals
      <4>2. \A k \in 1..Topics :
                k < topic[t] \/ k = topic[t] => [sn |-> sn[t], topic |-> k] \in remembered'
        BY <1>1, <1>2
      <4> QED BY <1>2, <4>1, <4>2 DEF WorkInv, Served
    <3> QED BY <2>1, <3>1, <3>2
  <2>2. CASE u # t
    <3>1. pc[u] \notin Locked /\ created' = created /\ created \in Nat
      BY <1>1, <2>2, Alone, HolderAssumption DEF Locked, HolderAssumption, TypeOK, holder
    <3>2. pc[u] = "using" => age'[client[u]] = "fresh" /\ client[u] \notin swept'
      BY <1>1 DEF UseInv, Served, holder
    <3>3. /\ pc'[u] = pc[u] /\ sn'[u] = sn[u] /\ client'[u] = client[u]
          /\ topic'[u] = topic[u]
      BY <1>1, <1>6, <2>2 DEF locals
    <3> QED BY <3>1, <3>2, <3>3, OthersFree
  <2> QED BY <2>1, <2>2
<1> QED BY <1>5, <1>7, <1>8, <1>9, <1>10, <1>11

\* A subscription is complete when all its filters are remembered.
LEMMA AwaitKeeps == ASSUME IInv, NEW t \in Threads, Await(t) PROVE IInv'
<1> USE DEF IInv
<1>1. /\ pc[t] = "await" /\ acked' = acked \ {t}
      /\ UNCHANGED <<g_holder, global, mutex, slots, created, age, swept, remembered, connected,
                     link, stopping, wire, op, sn, client, calls, messages>>
  BY DEF Await
<1>2. /\ [sn |-> sn[t], client |-> client[t]] \in slots
      /\ \A k \in 1..Topics : k <= topic[t] => [sn |-> sn[t], topic |-> k] \in remembered
  <2>1. topic[t] \in Nat /\ \A k \in 1..Topics : k \in Nat
    BY HolderAssumption DEF TypeOK, HolderAssumption
  <2> QED BY <1>1, <2>1 DEF WorkInv
<1>3. client[t] \in Clients /\ client[t] # 0 /\ client[t] <= created /\ sn[t] \in Devices
  <2>1. [sn |-> sn[t], client |-> client[t]] \in Slot
    BY <1>2 DEF TypeOK
  <2> QED BY <1>2, <2>1 DEF Slot, Clients, Numbered
<1>4. topic[t] \in 1..Topics /\ Topics \in Nat
  BY HolderAssumption DEF TypeOK, HolderAssumption
<1>5. faults' \in 0..MaxFaults
  BY HolderAssumption DEF Await, Fault, HolderAssumption, TypeOK
<1>6. /\ \/ /\ topic[t] < Topics /\ pc' = [pc EXCEPT ![t] = "subscribe"]
            /\ topic' = [topic EXCEPT ![t] = @ + 1] /\ complete' = complete
         \/ /\ topic[t] = Topics /\ pc' = [pc EXCEPT ![t] = "unlock"]
            /\ topic' = topic /\ complete' = complete \cup {client[t]}
         \/ /\ pc' = [pc EXCEPT ![t] = "unlock"]
            /\ topic' = topic /\ complete' = complete
  <2>1. CASE NextTopic(t)
    BY <1>4, <2>1 DEF NextTopic, Goto
  <2>2. CASE Goto(t, "unlock") /\ UNCHANGED <<topic, complete>>
    BY <2>2 DEF Goto
  <2> QED BY <2>1, <2>2 DEF Await
<1>7. PICK place \in {"subscribe", "unlock"} : pc' = [pc EXCEPT ![t] = place]
  BY <1>6
<1>8. \A u \in Threads : /\ pc'[u] = IF u = t THEN place ELSE pc[u]
                         /\ u # t => topic'[u] = topic[u]
  BY <1>6, <1>7 DEF TypeOK
<1>9. TypeOK'
  <2>1. complete' \subseteq Clients /\ topic' \in [Threads -> 1..Topics]
    BY <1>3, <1>4, <1>6 DEF TypeOK
  <2> QED BY <1>1, <1>5, <1>7, <2>1 DEF TypeOK, Places
<1>10. OneClientPerDevice' /\ Numbered'
  BY <1>1, <1>3, <1>6 DEF OneClientPerDevice, Numbered
<1>11. FiltersMatchClients'
  <2>1. \A u \in Threads : pc[u] # "unsubscribed"
    BY <1>1, Alone DEF Locked
  <2>2. ASSUME NEW s \in slots, s.client \in complete'
        PROVE  \A k \in 1..Topics : [sn |-> s.sn, topic |-> k] \in remembered
    <3>1. CASE s.client \in complete
      BY <2>1, <3>1 DEF FiltersMatchClients
    <3>2. CASE s.client = client[t] /\ topic[t] = Topics
      <4>1. s = [sn |-> sn[t], client |-> client[t]]
        BY <1>2, <3>2 DEF OneClientPerDevice
      <4>2. s.sn = sn[t]
        BY <4>1
      <4> QED BY <1>2, <1>4, <3>2, <4>2
    <3> QED BY <1>6, <2>2, <3>1, <3>2
  <2> QED BY <1>1, <2>2 DEF FiltersMatchClients
<1>12. LocksHeld'
  BY <1>1, <1>7, LocksStay DEF Places, Locked, Inside, Shutting
<1>13. \A u \in Threads : UseInv(u)' /\ WorkInv(u)'
  <2> TAKE u \in Threads
  <2>1. CASE u = t
    <3>1. UseInv(t)'
      <4>1. \/ sn[t] = None
            \/ age[client[t]] = "fresh" /\ client[t] \notin swept /\ client[t] <= created
        BY <1>1, <1>3 DEF UseInv, Served
      <4>2. pc'[t] # "using"
        BY <1>8
      <4> QED BY <1>1, <4>1, <4>2 DEF UseInv
    <3>2. WorkInv(t)'
      <4>1. CASE pc'[t] = "unlock"
        BY <4>1 DEF WorkInv, Served
      <4>2. CASE pc'[t] = "subscribe"
        <5>1. topic'[t] = topic[t] + 1
          BY <1>6, <4>2 DEF TypeOK
        <5>2. \A k \in 1..Topics : k < topic'[t] => [sn |-> sn[t], topic |-> k] \in remembered
          BY <1>2, <1>4, <5>1
        <5> QED BY <1>1, <1>2, <4>2, <5>2 DEF WorkInv, Served
      <4> QED BY <1>8, <4>1, <4>2
    <3> QED BY <2>1, <3>1, <3>2
  <2>2. CASE u # t
    <3>1. pc[u] \notin Locked /\ created' = created /\ created \in Nat
      BY <1>1, <2>2, Alone, HolderAssumption DEF Locked, HolderAssumption, TypeOK
    <3>2. pc[u] = "using" => age'[client[u]] = "fresh" /\ client[u] \notin swept'
      BY <1>1 DEF UseInv, Served
    <3>3. /\ pc'[u] = pc[u] /\ sn'[u] = sn[u] /\ client'[u] = client[u]
          /\ topic'[u] = topic[u]
      BY <1>1, <1>8, <2>2
    <3> QED BY <3>1, <3>2, <3>3, OthersFree
  <2> QED BY <2>1, <2>2
<1> QED BY <1>1, <1>9, <1>10, <1>11, <1>12, <1>13

\* A lookup hands its client over and gives the locks back.
LEMMA UnlockKeeps == ASSUME IInv, NEW t \in Threads, Unlock(t) PROVE IInv'
<1> USE DEF IInv
<1>1. /\ pc[t] = "unlock" /\ mutex' = None
      /\ global' = IF t = Reader THEN global ELSE None
      /\ UNCHANGED <<g_holder, holder, mqtt, bounds>>
  BY DEF Unlock
<1>2. Reader \in Threads /\ Apps \subseteq Threads /\ None \notin Threads /\ Reader \notin Apps
  BY HolderAssumption DEF HolderAssumption, Threads
<1>3. t \in Apps => global = t
  BY <1>1 DEF LocksHeld, Locked, Inside
<1>4. /\ \E place \in {"idle", "using"} : pc' = [pc EXCEPT ![t] = place]
      /\ op' \in [Threads -> {"init", "get", "count", "shutdown"}]
      /\ sn' \in [Threads -> Devices \cup {None}]
      /\ client' \in [Threads -> Clients \cup {0}]
      /\ topic' \in [Threads -> 1..Topics]
      /\ \A u \in Threads : u # t =>
             sn'[u] = sn[u] /\ client'[u] = client[u] /\ topic'[u] = topic[u]
      /\ UseInv(t)' /\ WorkInv(t)'
  <2>1. CASE Return(t)
    BY <2>1, Returned
  <2>2. CASE sn[t] # None /\ client[t] # 0 /\ Goto(t, "using") /\ UNCHANGED locals
    <3>1. pc' = [pc EXCEPT ![t] = "using"] /\ pc'[t] = "using"
      BY <2>2 DEF Goto, TypeOK
    <3>2. UseInv(t)'
      <4>1. age[client[t]] = "fresh" /\ client[t] \notin swept /\ client[t] <= created
        BY <1>1, <2>2 DEF UseInv, Served
      <4> QED BY <1>1, <2>2, <3>1, <4>1 DEF UseInv, holder, locals
    <3>3. WorkInv(t)'
      BY <3>1 DEF WorkInv, Served
    <3> QED BY <2>2, <3>1, <3>2, <3>3 DEF TypeOK, locals
  <2> QED BY <2>1, <2>2 DEF Unlock
<1>5. PICK place \in {"idle", "using"} : pc' = [pc EXCEPT ![t] = place]
  BY <1>4
<1>6. \A u \in Threads : pc'[u] = IF u = t THEN place ELSE pc[u]
  BY <1>5 DEF TypeOK
<1>7. TypeOK'
  <2>1. global' \in Apps \cup {None} /\ pc' \in [Threads -> Places]
    BY <1>1, <1>5 DEF TypeOK, Places
  <2> QED BY <1>1, <1>4, <2>1 DEF TypeOK, holder, mqtt, bounds
<1>8. OneClientPerDevice' /\ FiltersMatchClients' /\ Numbered'
  <2>1. \A u \in Threads : pc[u] # "unsubscribed"
    BY <1>1, Alone DEF Locked
  <2> QED BY <1>1, <2>1, TablesStay DEF holder, mqtt
<1>9. LocksHeld'
  <2>1. \A u \in Threads : pc'[u] \notin Locked /\ mutex' # u
    <3> TAKE u \in Threads
    <3>1. u # t => pc[u] \notin Locked
      BY <1>1, Alone DEF Locked
    <3>2. place \notin Locked
      BY DEF Locked
    <3> QED BY <1>1, <1>2, <1>6, <3>1, <3>2
  <2>2. \A a \in Apps : pc'[a] \in Inside <=> global' = a
    <3> TAKE a \in Apps
    <3>1. pc[a] \in Inside <=> global = a
      BY DEF LocksHeld
    <3>2. place \notin Inside /\ a # None /\ a # Reader
      BY <1>2 DEF Inside, Locked
    <3>3. CASE a = t
      BY <1>1, <1>2, <1>6, <3>2, <3>3
    <3>4. CASE a # t
      <4>1. pc'[a] = pc[a]
        BY <1>2, <1>6, <3>4
      <4>2. CASE t = Reader
        BY <1>1, <3>1, <4>1, <4>2
      <4>3. CASE t \in Apps
        BY <1>1, <1>2, <1>3, <3>1, <3>2, <3>4, <4>1, <4>3
      <4> QED BY <4>2, <4>3 DEF Threads
    <3> QED BY <3>3, <3>4
  <2>3. pc'[Reader] \in Locked \/ pc'[Reader] \in {"idle", "lock", "using", "gone"}
    BY <1>2, <1>6 DEF LocksHeld
  <2>4. ~g_holder' => pc'[Reader] = "gone" \/ \E a \in Apps : pc'[a] \in Shutting
    <3>1. pc[t] \notin Shutting /\ pc[t] # "gone"
      BY <1>1 DEF Shutting
    <3>2. \A u \in Threads : pc[u] \in Shutting \/ pc[u] = "gone" => pc'[u] = pc[u]
      BY <1>6, <3>1
    <3>3. ~g_holder => pc[Reader] = "gone" \/ \E a \in Apps : pc[a] \in Shutting
      BY DEF LocksHeld
    <3> QED BY <1>1, <1>2, <3>2, <3>3
  <2> QED BY <2>1, <2>2, <2>3, <2>4 DEF LocksHeld
<1>10. \A u \in Threads : UseInv(u)' /\ WorkInv(u)'
  BY <1>1, <1>4, <1>6, OthersSame DEF holder, mqtt
<1> QED BY <1>1, <1>7, <1>8, <1>9, <1>10 DEF mqtt

-----------------------------------------------------------------------------
(* ncl_client_holder_shutdown                                              *)

\* A step that changes only where a thread is.
LEMMA MovesOnly ==
    ASSUME IInv, NEW t \in Threads, NEW place \in Places,
           pc' = [pc EXCEPT ![t] = place],
           pc[t] \notin Served \cup {"unsubscribed"},
           place \in {"idle", "lock", "closing", "freeing", "disconnect", "join", "gone"},
           UNCHANGED <<holder, remembered, locals>>
    PROVE  /\ OneClientPerDevice' /\ FiltersMatchClients' /\ Numbered'
           /\ \A u \in Threads : UseInv(u)' /\ WorkInv(u)'
<1>1. \A u \in Threads : pc'[u] = IF u = t THEN place ELSE pc[u]
  BY DEF IInv, TypeOK
<1>2. OneClientPerDevice' /\ FiltersMatchClients' /\ Numbered'
  <2>1. \A u \in Threads : pc[u] = "unsubscribed" =>
            pc'[u] = "unsubscribed" /\ client'[u] = client[u]
    BY <1>1 DEF locals
  <2> QED BY <2>1, TablesStay DEF holder
<1>3. ASSUME NEW u \in Threads PROVE UseInv(u)' /\ WorkInv(u)'
  <2>1. CASE u = t
    <3>1. pc'[t] = place /\ topic'[t] = 1
      BY <1>1 DEF IInv, WorkInv, locals
    <3> QED BY <2>1, <3>1, NothingYet
  <2>2. CASE u # t
    BY <1>1, <2>2, OthersSame DEF holder, locals
  <2> QED BY <2>1, <2>2
<1> QED BY <1>2, <1>3

\* A shutdown takes the mutex.
LEMMA ClosingKeeps == ASSUME IInv, NEW a \in Apps, Closing(a) PROVE IInv'
<1> USE DEF IInv
<1>1. /\ pc[a] = "closing" /\ mutex = None /\ mutex' = a /\ pc' = [pc EXCEPT ![a] = "freeing"]
      /\ UNCHANGED <<g_holder, global, holder, mqtt, locals, bounds>>
  BY DEF Closing, Goto
<1>2. Reader \in Threads /\ Apps \subseteq Threads /\ None \notin Threads /\ a # Reader
  BY HolderAssumption DEF HolderAssumption, Threads
<1>3. \A u \in Threads : pc'[u] = IF u = a THEN "freeing" ELSE pc[u]
  BY <1>1, <1>2 DEF TypeOK
<1>4. TypeOK'
  BY <1>1, <1>2 DEF TypeOK, Places, holder, mqtt, locals, bounds
<1>5. /\ OneClientPerDevice' /\ FiltersMatchClients' /\ Numbered'
      /\ \A u \in Threads : UseInv(u)' /\ WorkInv(u)'
  BY <1>1, <1>2, MovesOnly DEF Places, Served, mqtt
<1>6. LocksHeld'
  <2>1. (\A u \in Threads : pc'[u] \in Locked <=> mutex' = u)
        /\ (\A b \in Apps : pc'[b] \in Inside <=> global' = b)
    BY <1>1, <1>2, <1>3 DEF LocksHeld, Locked, Inside
  <2>2. pc'[a] \in Shutting /\ pc'[Reader] = pc[Reader]
    BY <1>2, <1>3 DEF Shutting
  <2> QED BY <2>1, <2>2 DEF LocksHeld
<1> QED BY <1>1, <1>4, <1>5, <1>6 DEF mqtt

\* It takes each client with its filters, and gives the mutex back.
LEMMA FreeingKeeps == ASSUME IInv, NEW a \in Apps, Freeing(a) PROVE IInv'
<1> USE DEF IInv
<1>1. /\ pc[a] = "freeing"
      /\ UNCHANGED <<g_holder, global, created, age, swept, complete,
                     connected, link, stopping, wire, acked, locals, bounds>>
  BY DEF Freeing
<1>2. Reader \in Threads /\ Apps \subseteq Threads /\ None \notin Threads /\ a # Reader
  BY HolderAssumption DEF HolderAssumption, Threads
<1>3. \A u \in Threads : u # a => pc[u] \notin Locked
  BY <1>1, <1>2, Alone DEF Locked
<1>4. CASE /\ \E s \in slots : slots' = slots \ {s} /\ Forget(s.sn)
           /\ UNCHANGED <<mutex, pc>>
  <2>1. PICK s \in slots : /\ slots' = slots \ {s}
                           /\ remembered' = {f \in remembered : f.sn # s.sn}
    BY <1>4 DEF Forget
  <2>2. TypeOK'
    BY <1>1, <1>4, <2>1 DEF TypeOK, locals, bounds
  <2>3. OneClientPerDevice' /\ Numbered'
    BY <1>1, <2>1 DEF OneClientPerDevice, Numbered
  <2>4. FiltersMatchClients'
    <3>1. ASSUME NEW f \in remembered' PROVE \E r \in slots' : r.sn = f.sn
      BY <2>1 DEF FiltersMatchClients
    <3>2. ASSUME NEW r \in slots', r.client \in complete
          PROVE  \A k \in 1..Topics : [sn |-> r.sn, topic |-> k] \in remembered'
      <4>1. r \in slots /\ r # s
        BY <2>1
      <4>2. r.sn # s.sn
        BY <4>1 DEF OneClientPerDevice
      <4>3. \A u \in Threads : pc[u] # "unsubscribed"
        BY <1>1, <1>3 DEF Locked
      <4>4. \A k \in 1..Topics : [sn |-> r.sn, topic |-> k] \in remembered
        BY <3>2, <4>1, <4>3 DEF FiltersMatchClients
      <4> QED BY <2>1, <4>2, <4>4
    <3> QED BY <1>1, <3>1, <3>2 DEF FiltersMatchClients
  <2>5. LocksHeld'
    BY <1>1, <1>4 DEF LocksHeld
  <2>6. \A u \in Threads : UseInv(u)' /\ WorkInv(u)'
    <3> TAKE u \in Threads
    <3>1. CASE u = a
      <4>1. pc'[a] = "freeing" /\ topic'[a] = 1
        BY <1>1, <1>2, <1>4 DEF WorkInv, Served, locals
      <4> QED BY <3>1, <4>1, NothingYet
    <3>2. CASE u # a
      <4>1. pc[u] = "using" => age'[client[u]] = "fresh" /\ client[u] \notin swept'
        BY <1>1 DEF UseInv, Served
      <4>2. /\ pc'[u] = pc[u] /\ sn'[u] = sn[u] /\ client'[u] = client[u]
            /\ topic'[u] = topic[u]
        BY <1>1, <1>4 DEF locals
      <4>3. created' = created /\ created \in Nat
        BY <1>1, HolderAssumption DEF HolderAssumption, TypeOK
      <4> QED BY <1>3, <3>2, <4>1, <4>2, <4>3, OthersFree
    <3> QED BY <3>1, <3>2
  <2> QED BY <1>1, <2>2, <2>3, <2>4, <2>5, <2>6
<1>5. CASE mutex' = None /\ Goto(a, "disconnect") /\ UNCHANGED <<slots, remembered>>
  <2>1. pc' = [pc EXCEPT ![a] = "disconnect"]
    BY <1>5 DEF Goto
  <2>2. \A u \in Threads : pc'[u] = IF u = a THEN "disconnect" ELSE pc[u]
    BY <2>1 DEF TypeOK
  <2>3. TypeOK'
    BY <1>1, <1>5, <2>1 DEF TypeOK, Places, locals, bounds
  <2>4. /\ OneClientPerDevice' /\ FiltersMatchClients' /\ Numbered'
        /\ \A u \in Threads : UseInv(u)' /\ WorkInv(u)'
    BY <1>1, <1>2, <1>5, <2>1, MovesOnly DEF Places, Served, holder
  <2>5. LocksHeld'
    <3>1. \A u \in Threads : pc'[u] \notin Locked /\ mutex' # u
      <4> TAKE u \in Threads
      <4>1. mutex' = None /\ "disconnect" \notin Locked
        BY <1>5 DEF Locked
      <4> QED BY <1>2, <1>3, <2>2, <4>1
    <3>2. \A b \in Apps : pc'[b] \in Inside <=> global' = b
      BY <1>1, <1>2, <2>2 DEF LocksHeld, Inside, Locked
    <3>3. pc'[a] \in Shutting /\ pc'[Reader] = pc[Reader]
      BY <1>2, <2>2 DEF Shutting
    <3> QED BY <3>1, <3>2, <3>3 DEF LocksHeld, Locked
  <2> QED BY <1>1, <2>3, <2>4, <2>5
<1> QED BY <1>4, <1>5 DEF Freeing

\* It disconnects.
LEMMA DisconnectKeeps == ASSUME IInv, NEW a \in Apps, Disconnect(a) PROVE IInv'
<1> USE DEF IInv
<1>1. /\ pc[a] = "disconnect" /\ pc' = [pc EXCEPT ![a] = "join"]
      /\ stopping' = TRUE /\ connected' = FALSE /\ link' = FALSE /\ wire' = <<>>
      /\ UNCHANGED <<g_holder, global, mutex, holder, remembered, acked, locals, bounds>>
  BY DEF Disconnect, Goto
<1>2. a \in Threads /\ a # Reader
  BY HolderAssumption DEF HolderAssumption, Threads
<1>3. TypeOK'
  BY <1>1, <1>2 DEF TypeOK, Places, holder, locals, bounds
<1>4. /\ OneClientPerDevice' /\ FiltersMatchClients' /\ Numbered'
      /\ \A u \in Threads : UseInv(u)' /\ WorkInv(u)'
  BY <1>1, <1>2, MovesOnly DEF Places, Served
<1>5. LocksHeld'
  BY <1>1, <1>2, LocksStay DEF Places, Locked, Inside, Shutting
<1>6. wire' \in Seq(Packets)
  BY <1>1
<1> QED BY <1>3, <1>4, <1>5, <1>6

\* It ends when the reader has.
LEMMA JoinKeeps == ASSUME IInv, NEW a \in Apps, Join(a) PROVE IInv'
<1> USE DEF IInv
<1>1. /\ pc[a] = "join" /\ pc[Reader] = "gone" /\ global' = None
      /\ UNCHANGED <<g_holder, mutex, holder, mqtt, bounds>>
  BY DEF Join
<1>2. Reader \in Threads /\ Apps \subseteq Threads /\ None \notin Threads /\ a # Reader
  BY HolderAssumption DEF HolderAssumption, Threads
<1>3. Return(a)
  BY DEF Join
<1>4. pc' = [pc EXCEPT ![a] = "idle"]
  BY <1>2, <1>3, Returned
<1>5. \A u \in Threads : pc'[u] = IF u = a THEN "idle" ELSE pc[u]
  BY <1>4 DEF TypeOK
<1>6. TypeOK'
  BY <1>1, <1>2, <1>3, <1>4, Returned DEF TypeOK, Places, holder, mqtt, bounds
<1>7. OneClientPerDevice' /\ FiltersMatchClients' /\ Numbered'
  BY <1>1, <1>2, <1>3, Returned, TablesStay DEF holder, mqtt, TypeOK
<1>8. LocksHeld'
  <2>1. \A u \in Threads : pc'[u] \in Locked <=> mutex' = u
    BY <1>1, <1>2, <1>5 DEF LocksHeld, Locked
  <2>2. \A b \in Apps : pc'[b] \notin Inside /\ global' # b
    <3> TAKE b \in Apps
    <3>1. pc[b] \in Inside <=> global = b
      BY DEF LocksHeld
    <3>2. global = a /\ "idle" \notin Inside
      BY <1>1 DEF LocksHeld, Inside, Locked
    <3> QED BY <1>1, <1>2, <1>5, <3>1, <3>2
  <2>3. pc'[Reader] = "gone"
    BY <1>1, <1>2, <1>5
  <2> QED BY <2>1, <2>2, <2>3 DEF LocksHeld
<1>9. \A u \in Threads : UseInv(u)' /\ WorkInv(u)'
  BY <1>1, <1>2, <1>3, Returned, OthersSame DEF holder, mqtt
<1> QED BY <1>1, <1>6, <1>7, <1>8, <1>9 DEF mqtt

-----------------------------------------------------------------------------
(* The reader, the connection and time                                     *)

\* The reader takes in an acknowledgement, or a message to look a client up for.
LEMMA ReadKeeps == ASSUME IInv, Read PROVE IInv'
<1> USE DEF IInv
<1> DEFINE packet == Head(wire)
<1>1. /\ pc[Reader] = "idle" /\ wire # <<>> /\ wire' = Tail(wire)
      /\ UNCHANGED <<g_holder, global, mutex, holder, remembered, connected, link, stopping,
                     op, client, topic, bounds>>
  BY DEF Read
<1>2. Reader \in Threads
  BY DEF Threads
<1>3. packet \in Packets /\ wire' \in Seq(Packets)
  BY <1>1
<1>4. packet.sn \in Devices \cup {None}
  BY <1>3 DEF Packets
<1>5. CASE acked' \subseteq Threads /\ UNCHANGED <<pc, sn>>
  <2>1. TypeOK'
    BY <1>1, <1>5 DEF TypeOK, holder, bounds
  <2>2. OneClientPerDevice' /\ FiltersMatchClients' /\ Numbered' /\ LocksHeld'
    BY <1>1, <1>5, TablesStay DEF holder, LocksHeld
  <2>3. \A u \in Threads : UseInv(u)' /\ WorkInv(u)'
    BY <1>1, <1>5, OthersSame DEF holder
  <2> QED BY <1>3, <2>1, <2>2, <2>3
<1>6. CASE /\ sn' = [sn EXCEPT ![Reader] = packet.sn]
           /\ Goto(Reader, "lock") /\ UNCHANGED acked
  <2>1. pc' = [pc EXCEPT ![Reader] = "lock"]
    BY <1>6 DEF Goto
  <2>2. \A u \in Threads : /\ pc'[u] = IF u = Reader THEN "lock" ELSE pc[u]
                           /\ u # Reader => sn'[u] = sn[u]
    BY <1>6, <2>1 DEF TypeOK
  <2>3. TypeOK'
    BY <1>1, <1>2, <1>4, <1>6, <2>1 DEF TypeOK, Places, holder, bounds
  <2>4. OneClientPerDevice' /\ FiltersMatchClients' /\ Numbered'
    BY <1>1, <2>2, TablesStay DEF holder
  <2>5. LocksHeld'
    <3>1. Reader \notin Apps
      BY HolderAssumption DEF HolderAssumption
    <3>2. \A u \in Threads : pc'[u] \in Locked <=> pc[u] \in Locked
      BY <1>1, <2>2 DEF Locked
    <3>3. \A a \in Apps : pc'[a] = pc[a]
      BY <2>2, <3>1 DEF Threads
    <3>4. pc'[Reader] = "lock" /\ pc[Reader] # "gone"
      BY <1>1, <1>2, <2>2
    <3> QED BY <1>1, <3>2, <3>3, <3>4 DEF LocksHeld
  <2>6. \A u \in Threads : UseInv(u)' /\ WorkInv(u)'
    <3> TAKE u \in Threads
    <3>1. CASE u = Reader
      <4>1. pc'[u] = "lock" /\ topic'[u] = 1
        BY <1>1, <2>2, <3>1 DEF WorkInv, Served
      <4> QED BY <4>1, NothingYet
    <3>2. CASE u # Reader
      BY <1>1, <2>2, <3>2, OthersSame DEF holder
    <3> QED BY <3>1, <3>2
  <2> QED BY <1>3, <2>3, <2>4, <2>5, <2>6
<1>7. \/ acked' \subseteq Threads /\ UNCHANGED <<pc, sn>>
      \/ sn' = [sn EXCEPT ![Reader] = packet.sn] /\ Goto(Reader, "lock") /\ UNCHANGED acked
  <2>1. acked \subseteq Threads
    BY DEF TypeOK
  <2> QED BY <2>1 DEF Read
<1> HIDE DEF packet
<1> QED BY <1>5, <1>6, <1>7

\* The reader finds the session ended.
LEMMA SessionKeeps == ASSUME IInv, Session PROVE IInv'
<1> USE DEF IInv
<1>1. /\ pc[Reader] = "idle"
      /\ UNCHANGED <<g_holder, global, mutex, holder, remembered, stopping, wire, acked,
                     locals, bounds>>
  BY DEF Session
<1>2. Reader \in Threads /\ Reader \notin Apps
  BY HolderAssumption DEF Threads, HolderAssumption
<1>3. connected' \in BOOLEAN /\ link' \in BOOLEAN
  BY DEF Session, TypeOK
<1>4. PICK place \in {"idle", "gone"} : pc' = [pc EXCEPT ![Reader] = place]
  <2>1. pc = [pc EXCEPT ![Reader] = "idle"]
    BY <1>1, <1>2 DEF TypeOK
  <2> QED BY <2>1 DEF Session, Goto
<1>5. TypeOK'
  BY <1>1, <1>2, <1>3, <1>4 DEF TypeOK, Places, holder, locals, bounds
<1>6. /\ OneClientPerDevice' /\ FiltersMatchClients' /\ Numbered'
      /\ \A u \in Threads : UseInv(u)' /\ WorkInv(u)'
  BY <1>1, <1>2, <1>4, MovesOnly DEF Places, Served
<1>7. LocksHeld'
  BY <1>1, <1>2, <1>4, LocksStay DEF Places, Locked, Inside, Shutting
<1> QED BY <1>1, <1>5, <1>6, <1>7

\* What happens to the connection, and the calls that change nothing.
LEMMA ConnectionKeeps ==
    ASSUME IInv, LinkLoss \/ \E d \in Devices : Publish(d)
    PROVE  IInv'
<1> USE DEF IInv
<1>1. UNCHANGED <<g_holder, global, mutex, holder, remembered, connected, stopping, acked,
                  pc, locals, calls>>
  BY DEF LinkLoss, Publish
<1>2. wire' \in Seq(Packets) /\ link' \in BOOLEAN
  <2>1. ASSUME LinkLoss PROVE wire' \in Seq(Packets)
    BY <2>1 DEF LinkLoss
  <2>2. ASSUME NEW d \in Devices, Publish(d) PROVE wire' \in Seq(Packets) /\ link' = link
    <3>1. Message(d) \in Packets
      BY DEF Message, Packets
    <3> QED BY <2>2, <3>1 DEF Publish
  <2>3. link' \in BOOLEAN
    <3>1. CASE LinkLoss
      BY <3>1, Zenon DEF LinkLoss
    <3>2. CASE \E d \in Devices : Publish(d)
      BY <2>2, <3>2, Zenon DEF TypeOK
    <3> QED BY <3>1, <3>2
  <2> QED BY <2>1, <2>2, <2>3
<1>3. messages' \in 0..MaxMessages /\ faults' \in 0..MaxFaults
  <2>1. /\ MaxMessages \in Nat /\ MaxFaults \in Nat
        /\ messages \in 0..MaxMessages /\ faults \in 0..MaxFaults
    BY HolderAssumption DEF HolderAssumption, TypeOK
  <2> QED BY <2>1 DEF LinkLoss, Publish, Fault
<1>4. TypeOK'
  BY <1>1, <1>2, <1>3 DEF TypeOK, holder, locals
<1>5. OneClientPerDevice' /\ FiltersMatchClients' /\ Numbered' /\ LocksHeld'
  BY <1>1, TablesStay DEF holder, locals, LocksHeld
<1>6. \A u \in Threads : UseInv(u)' /\ WorkInv(u)'
  BY <1>1, OthersSame DEF holder, locals
<1> QED BY <1>2, <1>4, <1>5, <1>6

\* Time passes for clients nobody is using.
LEMMA AgingKeeps == ASSUME IInv, Aging PROVE IInv'
<1> USE DEF IInv
<1>1. UNCHANGED <<g_holder, global, mutex, slots, created, swept, complete, mqtt, pc,
                  locals, bounds>>
  BY DEF Aging
<1>2. PICK s \in slots, years \in {"old", "idle"} :
          /\ age[s.client] = "fresh" => ~InUse(s.client)
          /\ age[s.client] = "idle" => FALSE
          /\ age' = [age EXCEPT ![s.client] = years]
  BY DEF Aging
<1>3. s.client \in Clients /\ s.client <= created
  BY DEF TypeOK, Slot, Numbered
<1>4. \A c \in Clients : age'[c] = IF c = s.client THEN years ELSE age[c]
  BY <1>2 DEF TypeOK
<1>5. TypeOK'
  BY <1>1, <1>2 DEF TypeOK, mqtt, locals, bounds
<1>6. OneClientPerDevice' /\ FiltersMatchClients' /\ LocksHeld'
  BY <1>1 DEF OneClientPerDevice, FiltersMatchClients, LocksHeld, mqtt, locals
<1>7. Numbered'
  <2>1. ASSUME NEW c \in Clients, c > created PROVE age'[c] = "fresh"
    <3>1. c # s.client
      BY <1>3, <2>1, HolderAssumption DEF Clients, HolderAssumption, TypeOK
    <3> QED BY <1>4, <2>1, <3>1 DEF Numbered
  <2> QED BY <1>1, <2>1 DEF Numbered
<1>8. \A u \in Threads : UseInv(u)' /\ WorkInv(u)'
  <2> TAKE u \in Threads
  <2>1. UseInv(u)'
    <3>1. ASSUME pc[u] \in Served, sn[u] # None, client[u] # 0
          PROVE  age'[client[u]] = "fresh"
      <4>1. client[u] \in Clients /\ age[client[u]] = "fresh"
        BY <3>1 DEF UseInv, TypeOK
      <4>2. InUse(client[u])
        BY <3>1 DEF InUse, Served
      <4>3. client[u] # s.client
        BY <1>2, <4>1, <4>2
      <4> QED BY <1>4, <4>1, <4>3
    <3> QED BY <1>1, <3>1 DEF UseInv, locals
  <2>2. WorkInv(u)'
    <3>1. ASSUME pc[u] = "unsubscribed"
          PROVE  client[u] # s.client /\ client[u] \in Clients
      <4>1. PICK r \in slots : r.client = client[u] /\ age[client[u]] = "idle"
        BY <3>1 DEF WorkInv
      <4> QED BY <1>2, <4>1 DEF TypeOK, Slot
    <3>2. pc[u] = "unsubscribed" => age'[client[u]] = age[client[u]]
      BY <1>4, <3>1
    <3> QED BY <1>1, <3>2 DEF WorkInv, locals, mqtt
  <2> QED BY <2>1, <2>2
<1> QED BY <1>1, <1>5, <1>6, <1>7, <1>8 DEF mqtt

-----------------------------------------------------------------------------
(* The invariant, and what it says                                         *)

\* The invariant holds at the start.
LEMMA InitInv == ASSUME Init PROVE IInv
<1> USE HolderAssumption DEF HolderAssumption, Init
<1>1. TypeOK
  <2>1. g_holder \in BOOLEAN /\ connected \in BOOLEAN /\ link \in BOOLEAN
           /\ stopping \in BOOLEAN
    BY Zenon
  <2>2. /\ global \in Apps \cup {None} /\ mutex \in Threads \cup {None}
        /\ slots \subseteq Slot /\ created \in 0..MaxClients
        /\ age \in [Clients -> {"fresh", "old", "idle"}]
        /\ swept \subseteq Clients /\ complete \subseteq Clients
        /\ remembered \subseteq Filter /\ acked \subseteq Threads
    OBVIOUS
  <2>3. /\ pc \in [Threads -> Places]
        /\ op \in [Threads -> {"init", "get", "count", "shutdown"}]
        /\ sn \in [Threads -> Devices \cup {None}]
        /\ client \in [Threads -> Clients \cup {0}]
    BY DEF Places
  <2>4. 1 \in 1..Topics /\ topic \in [Threads -> 1..Topics]
    OBVIOUS
  <2>5. /\ calls \in 0..MaxCalls /\ messages \in 0..MaxMessages
        /\ faults \in 0..MaxFaults
    OBVIOUS
  <2> QED BY <2>1, <2>2, <2>3, <2>4, <2>5 DEF TypeOK
<1>2. wire \in Seq(Packets)
  OBVIOUS
<1>3. OneClientPerDevice /\ FiltersMatchClients /\ Numbered
  BY DEF OneClientPerDevice, FiltersMatchClients, Numbered
<1>4. \A t \in Threads : pc[t] = IF t = Reader THEN "gone" ELSE "idle"
  OBVIOUS
<1>5. LocksHeld
  BY <1>4 DEF LocksHeld, Locked, Inside, Threads
<1>6. \A t \in Threads : UseInv(t) /\ WorkInv(t)
  BY <1>4 DEF UseInv, WorkInv, Served
<1> QED BY <1>1, <1>2, <1>3, <1>5, <1>6 DEF IInv

\* Every step keeps the invariant.
LEMMA StepInv == ASSUME IInv, [Next]_vars PROVE IInv'
<1>1. CASE UNCHANGED vars
  BY <1>1 DEF vars, holder, mqtt, locals, bounds, IInv, TypeOK, OneClientPerDevice,
              FiltersMatchClients, LocksHeld, Numbered, UseInv, WorkInv
<1>2. ASSUME NEW t \in Threads, Work(t) PROVE IInv'
  BY <1>2, LockKeeps, SweepKeeps, DropKeeps, FindKeeps, CreateKeeps, SubscribeKeeps,
     AwaitKeeps, UnlockKeeps, UsedKeeps DEF Work
<1>3. ASSUME NEW a \in Apps, Call(a) \/ AppStep(a) PROVE IInv'
  BY <1>2, <1>3, CallKeeps, StartKeeps, EnterKeeps, ClosingKeeps, FreeingKeeps,
     DisconnectKeeps, JoinKeeps DEF AppStep, Threads
<1>4. CASE ReaderStep
  BY <1>2, <1>4, ReadKeeps, SessionKeeps DEF ReaderStep, Threads
<1>5. CASE Rest
  BY <1>1, <1>5 DEF Rest
<1> QED BY <1>1, <1>3, <1>4, <1>5, ConnectionKeeps, AgingKeeps DEF Next

\* The invariant behind the results below.
THEOREM Invariance == Spec => []IInv
<1>1. Init => IInv
  BY InitInv
<1>2. IInv /\ [Next]_vars => IInv'
  BY StepInv
<1> QED BY <1>1, <1>2, PTL DEF Spec

\* One client per device, whose filters are those the connection keeps, whoever
\* looks up, sweeps, subscribes or shuts down.
THEOREM ClientsKept == Spec => []ClientsSound
<1>1. IInv => ClientsSound
  BY DEF IInv, ClientsSound
<1> QED BY <1>1, Invariance, PTL

\* Nobody works with a client that a sweep has freed.
THEOREM NeverSwept == Spec => []LookedUpLives
<1>1. IInv => LookedUpLives
  BY DEF IInv, LookedUpLives, UseInv, Served
<1> QED BY <1>1, Invariance, PTL
=============================================================================
