------------------------ MODULE SampleChannelsProofs ------------------------
(* Theorems about SampleChannels, for any callers, channels, tasks and rounds. *)
EXTENDS SampleChannels, FiniteSetTheorems, TLAPS

\* TasksOwned without counting: a task that exists is in one place, and only such
\* a task is anywhere.
OwnedOnce ==
    \A k \in Tasks :
        /\ k \in samples => Running(k)
        /\ \A t \in Threads : k \in held[t] => Running(k) /\ k \notin samples
        /\ \A t, u \in Threads : k \in held[t] /\ k \in held[u] => t = u
        /\ Running(k) => k \in samples \/ \E t \in Threads : k \in held[t]

\* What the callers hold, by where they stand.
CallerHolds ==
    \A c \in Callers :
        /\ pc[c] \in {"idle", "take", "create"} => held[c] = {}
        /\ pc[c] \in {"insert", "stop", "join"} => \E k \in Tasks : held[c] = {k}
        /\ pc[c] = "insert" => \A k \in held[c] : channel[k] = call[c].id

OwnerHolds ==
    /\ pc[Owner] \in {"idle", "stop", "join"}
    /\ pc[Owner] = "idle" => held[Owner] = {}

\* A task that has not been created has no thread.
Unborn == \A k \in Tasks : k > created => sampler[k] = "none"

\* Once the free has begun the owner is done with what was in the table, and what
\* comes into it is late.
FreeInv ==
    /\ phase = "freed" => pc[Owner] = "idle"
    /\ phase # "up" => samples \subseteq late

\* A window that is not given up is decided about when it is full.
WindowInv ==
    \A k \in Tasks :
        /\ sampler[k] = "round" => cells[k] < Rounds
        /\ sampler[k] = "decide" /\ ~stop[k] => cells[k] = Rounds

IInv ==
    /\ TypeOK /\ OwnedOnce /\ OneTaskPerChannel
    /\ CallerHolds /\ OwnerHolds /\ Unborn /\ FreeInv
    /\ WindowInv /\ WholePackets

-----------------------------------------------------------------------------
(* The samplers                                                            *)

\* A step of a sampler is its own: it changes neither table nor owners.
LEMMA SamplerMoves ==
    ASSUME IInv, NEW k \in Tasks, Running(k),
           NEW place \in SamplerPlaces \ {"none", "freed"}, At(k, place),
           UNCHANGED <<phase, table, stop, pc, local, calls>>,
           cells' \in [Tasks -> 0..Rounds], packet' \in [Tasks -> 0..Rounds]
    PROVE  /\ TypeOK' /\ OwnedOnce' /\ OneTaskPerChannel'
           /\ CallerHolds' /\ OwnerHolds' /\ Unborn' /\ FreeInv'
<1> USE DEF IInv, At, table, local
<1>1. TypeOK'
  BY DEF TypeOK
<1>2. \A j \in Tasks : Running(j)' <=> Running(j)
  BY DEF Running, TypeOK
<1>3. OwnedOnce'
  BY <1>2 DEF OwnedOnce
<1>4. Unborn'
  <2>1. \A j \in Tasks : j > created => j # k
    BY DEF Unborn, Running
  <2> QED BY <2>1 DEF Unborn, TypeOK
<1> QED BY <1>1, <1>3, <1>4 DEF OneTaskPerChannel, CallerHolds, OwnerHolds, FreeInv

LEMMA CheckKeeps == ASSUME IInv, NEW k \in Tasks, Check(k) \/ Sleep(k) \/ Awake(k) PROVE IInv'
<1>1. PICK place \in {"ended", "collect", "waiting", "check"} : At(k, place)
  BY DEF Check, Sleep, Awake
<1>2. /\ Running(k) /\ place \in SamplerPlaces \ {"none", "freed"}
      /\ UNCHANGED <<phase, table, stop, cells, packet, pc, local, calls>>
  BY <1>1 DEF Check, Sleep, Awake, Running, SamplerPlaces
<1>3. /\ TypeOK' /\ OwnedOnce' /\ OneTaskPerChannel'
      /\ CallerHolds' /\ OwnerHolds' /\ Unborn' /\ FreeInv'
  BY <1>1, <1>2, SamplerMoves DEF IInv, TypeOK
<1>4. WindowInv'
  BY <1>1, <1>2 DEF IInv, WindowInv, At, TypeOK
<1>5. WholePackets'
  BY <1>2 DEF IInv, WholePackets
<1> QED BY <1>3, <1>4, <1>5 DEF IInv

LEMMA CollectKeeps == ASSUME IInv, NEW k \in Tasks, Collect(k) PROVE IInv'
<1>1. PICK place \in {"round", "decide"} :
          /\ At(k, place)
          /\ place = "round" => cells[k] < Rounds
          /\ place = "decide" => ~(cells[k] < Rounds) \/ stop[k]
  BY DEF Collect
<1>2. /\ Running(k) /\ place \in SamplerPlaces \ {"none", "freed"}
      /\ UNCHANGED <<phase, table, stop, cells, packet, pc, local, calls>>
  BY <1>1 DEF Collect, Running, SamplerPlaces
<1>3. /\ TypeOK' /\ OwnedOnce' /\ OneTaskPerChannel'
      /\ CallerHolds' /\ OwnerHolds' /\ Unborn' /\ FreeInv'
  BY <1>1, <1>2, SamplerMoves DEF IInv, TypeOK
<1>4. cells[k] \in 0..Rounds /\ Rounds \in Nat
  BY SamplesAssumption DEF SamplesAssumption, IInv, TypeOK
<1>5. WindowInv'
  BY <1>1, <1>2, <1>4 DEF IInv, WindowInv, At, TypeOK
<1>6. WholePackets'
  BY <1>2 DEF IInv, WholePackets
<1> QED BY <1>3, <1>5, <1>6 DEF IInv

LEMMA RoundKeeps == ASSUME IInv, NEW k \in Tasks, Round(k) PROVE IInv'
<1>1. /\ sampler[k] = "round" /\ At(k, "collect") /\ cells' = [cells EXCEPT ![k] = @ + 1]
      /\ UNCHANGED <<phase, table, stop, packet, pc, local, calls>>
  BY DEF Round
<1>2. Running(k) /\ "collect" \in SamplerPlaces \ {"none", "freed"}
  BY <1>1 DEF Running, SamplerPlaces
<1>3. cells[k] + 1 \in 0..Rounds
  BY <1>1, SamplesAssumption DEF SamplesAssumption, IInv, TypeOK, WindowInv
<1>4. cells' \in [Tasks -> 0..Rounds] /\ packet' \in [Tasks -> 0..Rounds]
  BY <1>1, <1>3 DEF IInv, TypeOK
<1>5. /\ TypeOK' /\ OwnedOnce' /\ OneTaskPerChannel'
      /\ CallerHolds' /\ OwnerHolds' /\ Unborn' /\ FreeInv'
  BY <1>1, <1>2, <1>4, SamplerMoves
<1>6. WindowInv'
  BY <1>1 DEF IInv, WindowInv, At, TypeOK
<1>7. WholePackets'
  BY <1>1 DEF IInv, WholePackets
<1> QED BY <1>5, <1>6, <1>7 DEF IInv

LEMMA DecideKeeps == ASSUME IInv, NEW k \in Tasks, Decide(k) PROVE IInv'
<1>1. /\ sampler[k] = "decide" /\ At(k, "sleep") /\ cells' = [cells EXCEPT ![k] = 0]
      /\ packet' = IF stop[k] THEN packet ELSE [packet EXCEPT ![k] = cells[k]]
      /\ UNCHANGED <<phase, table, stop, pc, local, calls>>
  BY DEF Decide
<1>2. Running(k) /\ "sleep" \in SamplerPlaces \ {"none", "freed"}
  BY <1>1 DEF Running, SamplerPlaces
<1>3. 0 \in 0..Rounds
  BY SamplesAssumption DEF SamplesAssumption
<1>4. cells' \in [Tasks -> 0..Rounds] /\ packet' \in [Tasks -> 0..Rounds]
  BY <1>1, <1>3 DEF IInv, TypeOK
<1>5. /\ TypeOK' /\ OwnedOnce' /\ OneTaskPerChannel'
      /\ CallerHolds' /\ OwnerHolds' /\ Unborn' /\ FreeInv'
  BY <1>1, <1>2, <1>4, SamplerMoves
<1>6. WindowInv'
  BY <1>1 DEF IInv, WindowInv, At, TypeOK
<1>7. WholePackets'
  BY <1>1 DEF IInv, WholePackets, WindowInv, TypeOK
<1> QED BY <1>5, <1>6, <1>7 DEF IInv

-----------------------------------------------------------------------------
(* The calls                                                               *)

\* The windows are the samplers' business.
LEMMA WindowsStay ==
    ASSUME WindowInv, WholePackets, UNCHANGED <<sampler, stop, cells, packet>>
    PROVE  WindowInv' /\ WholePackets'
  BY DEF WindowInv, WholePackets

\* Threads and samplers of the tasks stay as they are.
LEMMA RunningStays == ASSUME sampler' = sampler PROVE \A k : Running(k)' <=> Running(k)
  BY DEF Running

LEMMA CallKeeps == ASSUME IInv, NEW c \in Callers, Call(c) PROVE IInv'
<1> USE DEF IInv
<1>1. PICK v \in [op : {"add", "remove"}, id : Channels] :
          /\ pc[c] = "idle" /\ calls < MaxCalls /\ calls' = calls + 1
          /\ pc' = [pc EXCEPT ![c] = "take"] /\ call' = [call EXCEPT ![c] = v]
          /\ UNCHANGED <<phase, table, run, held>>
  BY DEF Call
<1>2. c # Owner /\ c \in Threads
  BY SamplesAssumption DEF SamplesAssumption, Threads
<1>3. TypeOK'
  BY <1>1, <1>2, SamplesAssumption DEF SamplesAssumption, TypeOK, table, run
<1>4. OwnedOnce' /\ OneTaskPerChannel' /\ Unborn'
  BY <1>1, RunningStays DEF OwnedOnce, OneTaskPerChannel, Unborn, table, run
<1>5. CallerHolds'
  BY <1>1, <1>2 DEF CallerHolds, TypeOK, table, Threads
<1>6. OwnerHolds' /\ FreeInv'
  BY <1>1, <1>2 DEF OwnerHolds, FreeInv, TypeOK, table, Threads
<1> QED BY <1>1, <1>3, <1>4, <1>5, <1>6, WindowsStay DEF run

\* A caller that moves leaves the owner, and the other callers, as they are.
LEMMA CallerMoves ==
    ASSUME IInv, NEW c \in Callers, phase' = phase,
           \A t \in Threads \ {c} : pc'[t] = pc[t] /\ held'[t] = held[t],
           samples' \subseteq samples \/ phase = "up" \/ samples' \subseteq late', late \subseteq late'
    PROVE  OwnerHolds' /\ FreeInv'
<1>1. Owner \in Threads \ {c}
  BY SamplesAssumption DEF SamplesAssumption, Threads
<1> QED BY <1>1 DEF IInv, OwnerHolds, FreeInv

LEMMA TakeKeeps == ASSUME IInv, NEW c \in Callers, Take(c) PROVE IInv'
<1> USE DEF IInv
<1>1. /\ pc[c] = "take" /\ c \in Threads /\ c # Owner /\ held[c] = {}
      /\ UNCHANGED <<phase, created, channel, late, run, calls>>
  BY SamplesAssumption DEF Take, SamplesAssumption, Threads, CallerHolds
<1>2. WindowInv' /\ WholePackets'
  BY <1>1, WindowsStay DEF run
<1>3. ASSUME NEW k \in samples, samples' = samples \ {k}, Has(c, {k}), Goto(c, "stop")
      PROVE  IInv'
  <2>1. /\ held' = [held EXCEPT ![c] = {k}] /\ pc' = [pc EXCEPT ![c] = "stop"]
        /\ call' = call /\ k \in Tasks
    BY <1>3 DEF Has, Goto, TypeOK
  <2>2. TypeOK'
    BY <1>1, <1>3, <2>1 DEF TypeOK, run
  <2>3. OwnedOnce'
    <3>1. \A t \in Threads : held'[t] = IF t = c THEN {k} ELSE held[t]
      BY <2>1 DEF TypeOK
    <3>2. \A j : Running(j)' <=> Running(j)
      BY <1>1, RunningStays DEF run
    <3> QED BY <1>1, <1>3, <3>1, <3>2 DEF OwnedOnce
  <2>4. OneTaskPerChannel' /\ Unborn'
    BY <1>1, <1>3 DEF OneTaskPerChannel, Unborn, run
  <2>5. CallerHolds'
    BY <1>1, <2>1 DEF CallerHolds, TypeOK, Threads
  <2>6. OwnerHolds' /\ FreeInv'
    BY <1>1, <1>3, <2>1, CallerMoves DEF TypeOK
  <2> QED BY <1>2, <2>2, <2>3, <2>4, <2>5, <2>6
<1>4. ASSUME IF call[c].op = "add" THEN Goto(c, "create") ELSE Leave(c),
             UNCHANGED <<samples, held>>
      PROVE  IInv'
  <2>1. PICK place \in {"idle", "create"} : pc' = [pc EXCEPT ![c] = place]
    BY <1>4 DEF Goto, Leave
  <2>2. call' = call \/ call' = [call EXCEPT ![c] = NoCall]
    BY <1>4 DEF Goto, Leave
  <2>3. NoCall \in [op : {"none"}, id : Channels]
    BY SamplesAssumption DEF SamplesAssumption, NoCall
  <2>4. TypeOK'
    BY <1>1, <1>4, <2>1, <2>2, <2>3 DEF TypeOK, run
  <2>5. OwnedOnce' /\ OneTaskPerChannel' /\ Unborn'
    BY <1>1, <1>4, RunningStays DEF OwnedOnce, OneTaskPerChannel, Unborn, run
  <2>6. CallerHolds'
    BY <1>1, <1>4, <2>1, <2>2 DEF CallerHolds, TypeOK, Threads
  <2>7. OwnerHolds' /\ FreeInv'
    BY <1>1, <1>4, <2>1, CallerMoves DEF TypeOK
  <2> QED BY <1>2, <2>4, <2>5, <2>6, <2>7
<1> QED BY <1>3, <1>4 DEF Take

LEMMA CreateKeeps == ASSUME IInv, NEW c \in Callers, Create(c) PROVE IInv'
<1> USE DEF IInv
<1>1. /\ pc[c] = "create" /\ c \in Threads /\ c # Owner /\ held[c] = {}
      /\ UNCHANGED <<phase, samples, late, stop, cells, packet, calls>>
  BY SamplesAssumption DEF Create, SamplesAssumption, Threads, CallerHolds
<1>2. CASE Leave(c) /\ UNCHANGED <<created, channel, sampler, held>>
  <2>1. pc' = [pc EXCEPT ![c] = "idle"] /\ call' = [call EXCEPT ![c] = NoCall]
    BY <1>2 DEF Leave
  <2>2. NoCall \in [op : {"none"}, id : Channels]
    BY SamplesAssumption DEF SamplesAssumption, NoCall
  <2>3. TypeOK'
    BY <1>1, <1>2, <2>1, <2>2 DEF TypeOK
  <2>4. OwnedOnce' /\ OneTaskPerChannel' /\ Unborn'
    BY <1>1, <1>2, RunningStays DEF OwnedOnce, OneTaskPerChannel, Unborn
  <2>5. CallerHolds'
    BY <1>1, <1>2, <2>1 DEF CallerHolds, TypeOK, Threads
  <2>6. OwnerHolds' /\ FreeInv'
    BY <1>1, <1>2, <2>1, CallerMoves DEF TypeOK
  <2>7. WindowInv' /\ WholePackets'
    BY <1>1, <1>2, WindowsStay
  <2> QED BY <2>3, <2>4, <2>5, <2>6, <2>7
<1>3. CASE /\ created < MaxTasks /\ created' = created + 1
           /\ channel' = [channel EXCEPT ![created'] = call[c].id]
           /\ At(created', "check") /\ Has(c, {created'}) /\ Goto(c, "insert")
  <2> DEFINE n == created + 1
  <2>1. /\ n \in Tasks /\ created' = n /\ n > created
        /\ created \in Nat
    BY <1>3, SamplesAssumption DEF SamplesAssumption, TypeOK, Tasks
  <2>2. sampler[n] = "none" /\ ~Running(n) /\ n \notin samples
           /\ \A t \in Threads : n \notin held[t]
    BY <2>1 DEF Unborn, Running, OwnedOnce
  <2>3. /\ channel' = [channel EXCEPT ![n] = call[c].id]
        /\ sampler' = [sampler EXCEPT ![n] = "check"]
        /\ held' = [held EXCEPT ![c] = {n}]
        /\ pc' = [pc EXCEPT ![c] = "insert"] /\ call' = call
    BY <1>3, <2>1 DEF At, Has, Goto
  <2> HIDE DEF n
  <2>4. TypeOK'
    <3>1. created' \in 0..MaxTasks
      BY <1>3, <2>1, SamplesAssumption DEF SamplesAssumption, n
    <3> QED BY <1>1, <2>1, <2>3, <3>1 DEF TypeOK, SamplerPlaces
  <2>5. OwnedOnce'
    <3>1. \A t \in Threads : held'[t] = IF t = c THEN {n} ELSE held[t]
      BY <2>3 DEF TypeOK
    <3>2. \A j \in Tasks : Running(j)' <=> Running(j) \/ j = n
      BY <2>3 DEF Running, TypeOK
    <3> QED BY <1>1, <2>1, <2>2, <3>1, <3>2 DEF OwnedOnce
  <2>6. OneTaskPerChannel'
    BY <1>1, <2>2, <2>3 DEF OneTaskPerChannel, TypeOK
  <2>7. CallerHolds'
    <3>1. \A d \in Callers \ {c} : pc'[d] = pc[d] /\ held'[d] = held[d] /\ call'[d] = call[d]
      BY <2>3 DEF TypeOK, Threads
    <3>2. \A d \in Callers \ {c} : \A k \in held[d] : channel'[k] = channel[k]
      BY <2>2, <2>3 DEF TypeOK, Threads
    <3>3. pc'[c] = "insert" /\ held'[c] = {n} /\ channel'[n] = call'[c].id
      BY <1>1, <2>1, <2>3 DEF TypeOK
    <3> QED BY <2>1, <3>1, <3>2, <3>3 DEF CallerHolds
  <2>8. OwnerHolds' /\ FreeInv'
    BY <1>1, <2>3, CallerMoves DEF TypeOK
  <2>9. Unborn'
    <3> SUFFICES ASSUME NEW k \in Tasks, k > created' PROVE sampler'[k] = "none"
      BY DEF Unborn
    <3>1. k > created /\ k # n
      BY <2>1 DEF n, Tasks
    <3> QED BY <2>3, <3>1 DEF Unborn, TypeOK
  <2>10. WindowInv' /\ WholePackets'
    BY <1>1, <2>3 DEF WindowInv, WholePackets, TypeOK
  <2> QED BY <2>4, <2>5, <2>6, <2>7, <2>8, <2>9, <2>10
<1> QED BY <1>2, <1>3 DEF Create

LEMMA InsertKeeps == ASSUME IInv, NEW c \in Callers, Insert(c) PROVE IInv'
<1> USE DEF IInv
<1>1. /\ pc[c] = "insert" /\ c \in Threads /\ c # Owner
      /\ UNCHANGED <<phase, created, channel, run, calls>>
  BY SamplesAssumption DEF Insert, SamplesAssumption, Threads
<1>2. PICK k \in Tasks : held[c] = {k} /\ channel[k] = call[c].id
  BY <1>1 DEF CallerHolds
<1>3. WindowInv' /\ WholePackets' /\ Unborn' /\ \A j : Running(j)' <=> Running(j)
  BY <1>1, WindowsStay, RunningStays DEF run, Unborn
<1>4. CASE /\ \A j \in samples : channel[j] # call[c].id
           /\ samples' = samples \cup held[c]
           /\ late' = IF phase = "up" THEN late ELSE late \cup held[c]
           /\ Has(c, {}) /\ Leave(c)
  <2>1. /\ held' = [held EXCEPT ![c] = {}] /\ pc' = [pc EXCEPT ![c] = "idle"]
        /\ call' = [call EXCEPT ![c] = NoCall]
    BY <1>4 DEF Has, Leave
  <2>2. NoCall \in [op : {"none"}, id : Channels]
    BY SamplesAssumption DEF SamplesAssumption, NoCall
  <2>3. TypeOK'
    BY <1>1, <1>2, <1>4, <2>1, <2>2 DEF TypeOK, run
  <2>4. OwnedOnce'
    <3>1. \A t \in Threads : held'[t] = IF t = c THEN {} ELSE held[t]
      BY <2>1 DEF TypeOK
    <3>2. samples' = samples \cup {k}
      BY <1>2, <1>4
    <3>3. \A t \in Threads : t # c => k \notin held[t]
      BY <1>1, <1>2 DEF OwnedOnce
    <3> QED BY <1>1, <1>2, <1>3, <3>1, <3>2, <3>3 DEF OwnedOnce
  <2>5. OneTaskPerChannel'
    BY <1>1, <1>2, <1>4 DEF OneTaskPerChannel
  <2>6. CallerHolds'
    BY <1>1, <2>1 DEF CallerHolds, TypeOK, Threads
  <2>7. OwnerHolds' /\ FreeInv'
    <3>1. samples' \subseteq late' \/ phase = "up"
      BY <1>4 DEF FreeInv
    <3>2. late \subseteq late'
      BY <1>4
    <3>3. \A t \in Threads \ {c} : pc'[t] = pc[t] /\ held'[t] = held[t]
      BY <2>1 DEF TypeOK
    <3> QED BY <1>1, <3>1, <3>2, <3>3, CallerMoves
  <2> QED BY <1>3, <2>3, <2>4, <2>5, <2>6, <2>7
<1>5. CASE /\ pc' = [pc EXCEPT ![c] = "stop"]
           /\ call' = [call EXCEPT ![c].op = "refused"]
           /\ UNCHANGED <<samples, late, held>>
  <2>1. TypeOK'
    BY <1>1, <1>5 DEF TypeOK, run
  <2>2. OwnedOnce' /\ OneTaskPerChannel'
    BY <1>1, <1>3, <1>5 DEF OwnedOnce, OneTaskPerChannel
  <2>3. CallerHolds'
    BY <1>1, <1>2, <1>5 DEF CallerHolds, TypeOK, Threads
  <2>4. OwnerHolds' /\ FreeInv'
    BY <1>1, <1>5, CallerMoves DEF TypeOK
  <2> QED BY <1>3, <2>1, <2>2, <2>3, <2>4
<1> QED BY <1>4, <1>5 DEF Insert

LEMMA TakeAllKeeps == ASSUME IInv, TakeAll PROVE IInv'
<1> USE DEF IInv
<1>1. /\ pc[Owner] = "idle" /\ phase = "up" /\ phase' \in {"up", "freeing"}
      /\ held' = [held EXCEPT ![Owner] = samples] /\ samples' = {}
      /\ pc' = [pc EXCEPT ![Owner] = "stop"] /\ call' = call
      /\ UNCHANGED <<created, channel, late, run, calls>>
  BY DEF TakeAll, Has, Goto
<1>2. Owner \in Threads /\ Owner \notin Callers /\ held[Owner] = {}
  BY <1>1, SamplesAssumption DEF SamplesAssumption, Threads, OwnerHolds
<1>3. WindowInv' /\ WholePackets' /\ Unborn' /\ \A j : Running(j)' <=> Running(j)
  BY <1>1, WindowsStay, RunningStays DEF run, Unborn
<1>4. TypeOK'
  BY <1>1, <1>2 DEF TypeOK, run
<1>5. OwnedOnce'
  <2>1. \A t \in Threads : held'[t] = IF t = Owner THEN samples ELSE held[t]
    BY <1>1 DEF TypeOK
  <2> QED BY <1>1, <1>2, <1>3, <2>1 DEF OwnedOnce
<1>6. OneTaskPerChannel' /\ FreeInv'
  BY <1>1 DEF OneTaskPerChannel, FreeInv
<1>7. CallerHolds'
  <2>1. \A c \in Callers : pc'[c] = pc[c] /\ held'[c] = held[c]
    BY <1>1, <1>2 DEF TypeOK, Threads
  <2> QED BY <1>1, <2>1 DEF CallerHolds
<1>8. OwnerHolds'
  BY <1>1, <1>2 DEF OwnerHolds, TypeOK
<1> QED BY <1>3, <1>4, <1>5, <1>6, <1>7, <1>8

LEMMA StopKeeps == ASSUME IInv, NEW t \in Threads, Stop(t) PROVE IInv'
<1> USE DEF IInv
<1>1. PICK k \in held[t] :
          /\ stop' = [stop EXCEPT ![k] = TRUE]
          /\ sampler' = [sampler EXCEPT ![k] = IF @ = "waiting" THEN "check" ELSE @]
  BY DEF Stop
<1>2. /\ pc[t] = "stop" /\ pc' = [pc EXCEPT ![t] = "join"] /\ call' = call
      /\ UNCHANGED <<phase, table, cells, packet, held, calls>>
  BY DEF Stop, Goto
<1>3. k \in Tasks /\ Running(k)
  BY DEF TypeOK, OwnedOnce
<1>4. \A j \in Tasks : Running(j)' <=> Running(j)
  BY <1>1, <1>3 DEF Running, TypeOK
<1>5. TypeOK'
  BY <1>1, <1>2, <1>3 DEF TypeOK, table, SamplerPlaces
<1>6. OwnedOnce' /\ OneTaskPerChannel'
  BY <1>2, <1>4 DEF OwnedOnce, OneTaskPerChannel, table
<1>7. Unborn'
  BY <1>1, <1>2, <1>3 DEF Unborn, TypeOK, table
<1>8. CallerHolds'
  BY <1>2 DEF CallerHolds, TypeOK, table, Threads
<1>9. OwnerHolds'
  BY <1>2 DEF OwnerHolds, TypeOK, Threads
<1>10. FreeInv'
  BY <1>2 DEF FreeInv, TypeOK, table, Threads
<1>11. WindowInv' /\ WholePackets'
  BY <1>1, <1>2, <1>3 DEF WindowInv, WholePackets, TypeOK
<1> QED BY <1>5, <1>6, <1>7, <1>8, <1>9, <1>10, <1>11

LEMMA JoinKeeps == ASSUME IInv, NEW t \in Threads, Join(t) PROVE IInv'
<1> USE DEF IInv
<1>1. PICK k \in held[t] : /\ sampler[k] = "ended"
                           /\ sampler' = [sampler EXCEPT ![k] = "freed"]
                           /\ held' = [held EXCEPT ![t] = @ \ {k}]
  BY DEF Join, At, Has
<1>2. /\ pc[t] = "join" /\ UNCHANGED <<phase, table, stop, cells, packet, calls>>
  BY DEF Join
<1>3. k \in Tasks /\ k \notin samples /\ \A u \in Threads : u # t => k \notin held[u]
  BY DEF TypeOK, OwnedOnce
<1>4. /\ call' = call \/ call' = [call EXCEPT ![t] = NoCall]
      /\ \E place \in {"stop", "create", "idle"} :
            /\ pc' = [pc EXCEPT ![t] = place]
            /\ t = Owner => place = "stop"
            /\ t # Owner => place # "stop"
  BY DEF Join, Stopped, Goto, Leave
<1>5. PICK place \in {"stop", "create", "idle"} :
          /\ pc' = [pc EXCEPT ![t] = place]
          /\ t = Owner => place = "stop"
          /\ t # Owner => place # "stop"
  BY <1>4
<1>6. NoCall \in [op : {"none"}, id : Channels]
  BY SamplesAssumption DEF SamplesAssumption, NoCall
<1>7. TypeOK'
  BY <1>1, <1>2, <1>3, <1>4, <1>5, <1>6 DEF TypeOK, table, SamplerPlaces
<1>8. \A j \in Tasks : Running(j)' <=> Running(j) /\ j # k
  BY <1>1, <1>3 DEF Running, TypeOK
<1>9. \A u \in Threads : held'[u] = held[u] \ {k}
  BY <1>1, <1>3 DEF TypeOK
<1>10. OwnedOnce'
  BY <1>2, <1>3, <1>8, <1>9 DEF OwnedOnce, table
<1>11. OneTaskPerChannel'
  BY <1>2 DEF OneTaskPerChannel, table
<1>12. CallerHolds'
  <2> SUFFICES ASSUME NEW c \in Callers
               PROVE  /\ pc'[c] \in {"idle", "take", "create"} => held'[c] = {}
                      /\ pc'[c] \in {"insert", "stop", "join"} =>
                             \E j \in Tasks : held'[c] = {j}
                      /\ pc'[c] = "insert" => \A j \in held'[c] : channel'[j] = call'[c].id
    BY DEF CallerHolds
  <2>1. c \in Threads /\ c # Owner
    BY SamplesAssumption DEF SamplesAssumption, Threads
  <2>2. CASE c = t
    <3>1. held[c] = {k} /\ held'[c] = {}
      BY <1>2, <1>9, <2>1, <2>2 DEF CallerHolds
    <3>2. pc'[c] \in {"create", "idle"}
      BY <1>5, <2>1, <2>2 DEF TypeOK
    <3> QED BY <3>1, <3>2
  <2>3. CASE c # t
    <3>1. pc'[c] = pc[c] /\ held'[c] = held[c] /\ call'[c] = call[c] /\ channel' = channel
      BY <1>1, <1>2, <1>4, <1>5, <2>1, <2>3 DEF TypeOK, table
    <3> QED BY <3>1 DEF CallerHolds
  <2> QED BY <2>2, <2>3
<1>13. OwnerHolds' /\ FreeInv'
  <2>1. Owner \in Threads
    BY DEF Threads
  <2>2. CASE t = Owner
    BY <1>2, <1>5, <2>1, <2>2 DEF OwnerHolds, FreeInv, TypeOK, table
  <2>3. CASE t # Owner
    <3>1. pc'[Owner] = pc[Owner] /\ held'[Owner] = held[Owner]
      BY <1>1, <1>5, <2>1, <2>3 DEF TypeOK
    <3> QED BY <1>2, <3>1 DEF OwnerHolds, FreeInv, table
  <2> QED BY <2>2, <2>3
<1>14. Unborn'
  BY <1>1, <1>2, <1>3 DEF Unborn, TypeOK, table
<1>15. WindowInv' /\ WholePackets'
  BY <1>1, <1>2, <1>3 DEF WindowInv, WholePackets, TypeOK
<1> QED BY <1>7, <1>10, <1>11, <1>12, <1>13, <1>14, <1>15

LEMMA AllStoppedKeeps == ASSUME IInv, AllStopped PROVE IInv'
<1> USE DEF IInv
<1>1. /\ pc[Owner] = "stop" /\ held[Owner] = {}
      /\ phase' = IF phase = "freeing" THEN "freed" ELSE phase
      /\ pc' = [pc EXCEPT ![Owner] = "idle"] /\ call' = [call EXCEPT ![Owner] = NoCall]
      /\ UNCHANGED <<table, run, held, calls>>
  BY DEF AllStopped, Leave
<1>2. Owner \in Threads /\ Owner \notin Callers
  BY SamplesAssumption DEF SamplesAssumption, Threads
<1>3. NoCall \in [op : {"none"}, id : Channels]
  BY SamplesAssumption DEF SamplesAssumption, NoCall
<1>4. TypeOK'
  BY <1>1, <1>2, <1>3 DEF TypeOK, table, run
<1>5. OwnedOnce' /\ OneTaskPerChannel' /\ Unborn'
  BY <1>1, RunningStays DEF OwnedOnce, OneTaskPerChannel, Unborn, table, run
<1>6. CallerHolds'
  BY <1>1, <1>2 DEF CallerHolds, TypeOK, table, Threads
<1>7. OwnerHolds' /\ FreeInv'
  BY <1>1, <1>2 DEF OwnerHolds, FreeInv, TypeOK, table
<1>8. WindowInv' /\ WholePackets'
  BY <1>1, WindowsStay DEF run
<1> QED BY <1>4, <1>5, <1>6, <1>7, <1>8

-----------------------------------------------------------------------------
(* Theorems                                                                *)

\* The invariant holds at the start.
LEMMA InitInv == ASSUME Init PROVE IInv
<1>1. NoCall \in [op : {"none"}, id : Channels] /\ (CHOOSE ch \in Channels : TRUE) \in Channels
  BY SamplesAssumption DEF SamplesAssumption, NoCall
<1>2. TypeOK
  BY <1>1, SamplesAssumption DEF SamplesAssumption, Init, TypeOK, SamplerPlaces
<1>3. OwnedOnce /\ OneTaskPerChannel /\ Unborn
  BY DEF Init, OwnedOnce, OneTaskPerChannel, Unborn, Running
<1>4. CallerHolds /\ OwnerHolds /\ FreeInv
  BY DEF Init, CallerHolds, OwnerHolds, FreeInv, Threads
<1>5. WindowInv /\ WholePackets
  BY DEF Init, WindowInv, WholePackets
<1> QED BY <1>2, <1>3, <1>4, <1>5 DEF IInv

\* Every step keeps the invariant.
LEMMA StepInv == ASSUME IInv, [Next]_vars PROVE IInv'
<1>1. ASSUME NEW k \in Tasks, SamplerStep(k) \/ Awake(k) PROVE IInv'
  BY <1>1, CheckKeeps, CollectKeeps, RoundKeeps, DecideKeeps DEF SamplerStep
<1>2. ASSUME NEW c \in Callers, Call(c) \/ CallerStep(c) PROVE IInv'
  <2>1. c \in Threads
    BY DEF Threads
  <2> QED BY <1>2, <2>1, CallKeeps, TakeKeeps, CreateKeeps, InsertKeeps, StopKeeps, JoinKeeps
          DEF CallerStep
<1>3. CASE TakeAll
  BY <1>3, TakeAllKeeps
<1>4. CASE OwnerStep
  <2>1. Owner \in Threads
    BY DEF Threads
  <2> QED BY <1>4, <2>1, StopKeeps, JoinKeeps, AllStoppedKeeps DEF OwnerStep
<1>5. CASE UNCHANGED vars
  BY <1>5 DEF IInv, TypeOK, OwnedOnce, Running, OneTaskPerChannel, CallerHolds, OwnerHolds,
              Unborn, FreeInv, WindowInv, WholePackets, vars, table, run, local
<1> QED BY <1>1, <1>2, <1>3, <1>4, <1>5 DEF Next, Rest

\* The invariant behind the results below.
THEOREM Invariance == Spec => []IInv
<1>1. Init => IInv
  BY InitInv
<1>2. IInv /\ [Next]_vars => IInv'
  BY StepInv
<1> QED BY <1>1, <1>2, PTL DEF Spec

\* In one place is the same as in one pair of hands, counted.
LEMMA Counted == ASSUME IInv PROVE TasksOwned
<1> SUFFICES ASSUME NEW k \in Tasks
             PROVE  LET hands == {t \in Threads : k \in held[t]}
                    IN  IF Running(k) THEN Cardinality(hands) = IF k \in samples THEN 0 ELSE 1
                                      ELSE hands = {} /\ k \notin samples
  BY DEF TasksOwned
<1> DEFINE hands == {t \in Threads : k \in held[t]}
<1>1. CASE ~Running(k)
  BY <1>1 DEF IInv, OwnedOnce
<1>2. CASE Running(k) /\ k \in samples
  <2>1. hands = {}
    BY <1>2 DEF IInv, OwnedOnce
  <2> QED BY <1>2, <2>1, FS_EmptySet
<1>3. CASE Running(k) /\ k \notin samples
  <2>1. PICK t \in Threads : k \in held[t]
    BY <1>3 DEF IInv, OwnedOnce
  <2>2. hands = {t}
    BY <2>1 DEF IInv, OwnedOnce
  <2>3. Cardinality(hands) = 1
    BY <2>2, FS_Singleton
  <2> QED BY <1>3, <2>3
<1> QED BY <1>1, <1>2, <1>3

\* Each sampler has one owner who joins and frees it, and a channel one sampler.
THEOREM TasksKept == Spec => []TasksSound
<1>1. IInv => TasksSound
  BY Counted DEF IInv, TasksSound
<1> QED BY <1>1, Invariance, PTL

\* When the server is freed no sampler runs, but one of a call under way.
THEOREM FreeIsLast == Spec => []StoppedBeforeFree
<1>1. ASSUME IInv PROVE StoppedBeforeFree
  <2> SUFFICES ASSUME phase = "freed", NEW k \in Tasks, Running(k)
               PROVE  k \in late \/ \E c \in Callers : k \in held[c]
    BY DEF StoppedBeforeFree
  <2>1. held[Owner] = {} /\ samples \subseteq late
    BY <1>1 DEF IInv, FreeInv, OwnerHolds
  <2>2. k \in samples \/ \E t \in Threads : k \in held[t]
    BY <1>1 DEF IInv, OwnedOnce
  <2> QED BY <2>1, <2>2 DEF Threads
<1> QED BY <1>1, Invariance, PTL

\* What is published has a cell for every round.
THEOREM PacketsWhole == Spec => []WholePackets
<1>1. IInv => WholePackets
  BY DEF IInv
<1> QED BY <1>1, Invariance, PTL
=============================================================================
