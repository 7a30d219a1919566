--------------------------- MODULE SampleChannels ---------------------------
(***************************************************************************)
(* The sample channels of a device (stack/src/server/server.c): each has a *)
(* task with a thread that fills a window of rounds, publishes it and      *)
(* sleeps.  Threads of the pool add and remove channels, the owner of the  *)
(* server stops all of them, or frees the server.  The table of tasks is   *)
(* under server->mutex, the stop flag of a task under the mutex of the     *)
(* task; a task belongs to whoever has taken it out of the table, or has   *)
(* not put it in yet.                                                      *)
(***************************************************************************)
EXTENDS Naturals, FiniteSets

CONSTANTS
    Callers,   \* threads that run addSample and removeSample
    Owner,     \* the thread that stops all samples and frees the server
    Channels,  \* ids of channels
    MaxTasks,  \* bound on the tasks created
    MaxCalls,  \* bound on the calls of the callers
    Rounds     \* uploadInterval / sampleInterval

Threads == Callers \cup {Owner}
Tasks   == 1..MaxTasks

ASSUME SamplesAssumption ==
    /\ Owner \notin Callers
    /\ Channels # {}
    /\ MaxTasks \in Nat /\ MaxCalls \in Nat /\ Rounds \in Nat \ {0}

VARIABLES
    phase,     \* "up", "freeing" (inside ncl_server_free), "freed" (the bindings are gone)
    samples,   \* server->samples
    created,   \* how many tasks there have been
    channel,   \* task->id
    stop,      \* task->stop
    sampler,   \* where the thread of each task stands
    cells,     \* what each column of the window holds so far
    packet,    \* the cells of a column in the last packet published
    late,      \* tasks that came into the table while the server was freed
    pc, call,  \* each thread: where it stands, and in which call
    held,      \* the tasks it has taken out of the table, or not yet put in
    calls

table == <<samples, created, channel, late>>
run   == <<stop, sampler, cells, packet>>
local == <<call, held>>
vars  == <<phase, table, run, pc, local, calls>>

NoCall == [op |-> "none", id |-> CHOOSE ch \in Channels : TRUE]

\* "none": no thread yet; "freed": joined, and the task is gone.
SamplerPlaces == {"none", "check", "collect", "round", "decide", "sleep", "waiting",
                  "ended", "freed"}

Init ==
    /\ phase = "up" /\ samples = {} /\ created = 0 /\ late = {}
    /\ channel = [k \in Tasks |-> CHOOSE ch \in Channels : TRUE]
    /\ stop = [k \in Tasks |-> FALSE]
    /\ sampler = [k \in Tasks |-> "none"]
    /\ cells = [k \in Tasks |-> 0]
    /\ packet = [k \in Tasks |-> Rounds]
    /\ pc = [t \in Threads |-> "idle"]
    /\ call = [t \in Threads |-> NoCall]
    /\ held = [t \in Threads |-> {}]
    /\ calls = 0

Goto(t, place) == pc' = [pc EXCEPT ![t] = place] /\ UNCHANGED call
Leave(t)       == pc' = [pc EXCEPT ![t] = "idle"] /\ call' = [call EXCEPT ![t] = NoCall]
Has(t, ks)     == held' = [held EXCEPT ![t] = ks]
At(k, place)   == sampler' = [sampler EXCEPT ![k] = place]

-----------------------------------------------------------------------------
(* The thread of a task                                                    *)

\* ncl_sample_thread: the head of its loop, with ncl_sample_stopping.
Check(k) ==
    /\ sampler[k] = "check"
    /\ At(k, IF stop[k] THEN "ended" ELSE "collect")
    /\ UNCHANGED <<phase, table, stop, cells, packet, pc, local, calls>>

\* ncl_sample_collect: the head of its loop over the rounds.
Collect(k) ==
    /\ sampler[k] = "collect"
    /\ At(k, IF cells[k] < Rounds /\ ~stop[k] THEN "round" ELSE "decide")
    /\ UNCHANGED <<phase, table, stop, cells, packet, pc, local, calls>>

\* A round slept for, read through the bindings, or missed: one cell per column.
Round(k) ==
    /\ sampler[k] = "round" /\ phase # "freed"
    /\ cells' = [cells EXCEPT ![k] = @ + 1]
    /\ At(k, "collect")
    /\ UNCHANGED <<phase, table, stop, packet, pc, local, calls>>

\* Mistake: the window is published without another look at the stop flag.
DecideAnyway(k) ==
    /\ sampler[k] = "decide"
    /\ packet' = [packet EXCEPT ![k] = cells[k]]
    /\ cells' = [cells EXCEPT ![k] = 0]
    /\ At(k, "sleep")
    /\ UNCHANGED <<phase, table, stop, pc, local, calls>>

Decide(k) ==
    /\ sampler[k] = "decide"
    /\ packet' = IF stop[k] THEN packet ELSE [packet EXCEPT ![k] = cells[k]]
    /\ cells' = [cells EXCEPT ![k] = 0]   \* the message is released
    /\ At(k, "sleep")
    /\ UNCHANGED <<phase, table, stop, pc, local, calls>>

\* Mistake: the flag is not looked at before the wait.
SleepBlindly(k) ==
    /\ sampler[k] = "sleep"
    /\ At(k, "waiting")
    /\ UNCHANGED <<phase, table, stop, cells, packet, pc, local, calls>>

\* ncl_sample_sleep; an upload that is due already is not slept for.
Sleep(k) ==
    /\ sampler[k] = "sleep"
    /\ \/ ~stop[k] /\ At(k, "waiting")
       \/ At(k, "check")
    /\ UNCHANGED <<phase, table, stop, cells, packet, pc, local, calls>>

\* The interval is over, or the wait ended for no reason.
Awake(k) ==
    /\ sampler[k] = "waiting"
    /\ At(k, "check")
    /\ UNCHANGED <<phase, table, stop, cells, packet, pc, local, calls>>

SamplerStep(k) == Check(k) \/ Collect(k) \/ Round(k) \/ Decide(k) \/ Sleep(k)

-----------------------------------------------------------------------------
(* Calls; what one does with a server that has been freed is left out      *)

Call(c) ==
    /\ pc[c] = "idle" /\ phase = "up" /\ calls < MaxCalls
    /\ calls' = calls + 1
    /\ pc' = [pc EXCEPT ![c] = "take"]
    /\ \E o \in {"add", "remove"}, ch \in Channels :
          call' = [call EXCEPT ![c] = [op |-> o, id |-> ch]]
    /\ UNCHANGED <<phase, table, run, held>>

\* ncl_server_remove_sample, which ncl_server_start_sample calls first.
Take(c) ==
    /\ pc[c] = "take" /\ phase # "freed"
    /\ \/ \E k \in samples :
             /\ channel[k] = call[c].id
             /\ samples' = samples \ {k}
             /\ Has(c, {k})
             /\ Goto(c, "stop")
       \/ /\ \A k \in samples : channel[k] # call[c].id
          /\ IF call[c].op = "add" THEN Goto(c, "create") ELSE Leave(c)
          /\ UNCHANGED <<samples, held>>
    /\ UNCHANGED <<phase, created, channel, late, run, calls>>

\* ncl_sample_task_create may refuse; else the thread runs before the task is in the table.
Create(c) ==
    /\ pc[c] = "create" /\ phase # "freed"
    /\ \/ Leave(c) /\ UNCHANGED <<created, channel, sampler, held>>
       \/ /\ created < MaxTasks
          /\ created' = created + 1
          /\ channel' = [channel EXCEPT ![created'] = call[c].id]
          /\ At(created', "check")
          /\ Has(c, {created'})
          /\ Goto(c, "insert")
    /\ UNCHANGED <<phase, samples, late, stop, cells, packet, calls>>

\* If another call has put the channel in meanwhile, NCL_ERR_EXISTS: the task is stopped.
Insert(c) ==
    /\ pc[c] = "insert" /\ phase # "freed"
    /\ \/ /\ \A k \in samples : channel[k] # call[c].id
          /\ samples' = samples \cup held[c]
          /\ late' = IF phase = "up" THEN late ELSE late \cup held[c]
          /\ Has(c, {})
          /\ Leave(c)
       \/ /\ \E k \in samples : channel[k] = call[c].id
          /\ pc' = [pc EXCEPT ![c] = "stop"]
          /\ call' = [call EXCEPT ![c].op = "refused"]
          /\ UNCHANGED <<samples, late, held>>
    /\ UNCHANGED <<phase, created, channel, run, calls>>

\* Mistake: the table keeps what is about to be stopped.
TakeAllKept ==
    /\ pc[Owner] = "idle" /\ phase = "up"
    /\ phase' \in {"up", "freeing"}
    /\ Has(Owner, samples)
    /\ Goto(Owner, "stop")
    /\ UNCHANGED <<table, run, calls>>

\* ncl_server_stop_all_samples, by itself or as the first thing of ncl_server_free.
TakeAll ==
    /\ pc[Owner] = "idle" /\ phase = "up"
    /\ phase' \in {"up", "freeing"}
    /\ Has(Owner, samples)
    /\ samples' = {}
    /\ Goto(Owner, "stop")
    /\ UNCHANGED <<created, channel, late, run, calls>>

\* ncl_sample_task_stop: the flag and the broadcast, under the mutex of the task.
Stop(t) ==
    /\ pc[t] = "stop"
    /\ \E k \in held[t] :
          /\ stop' = [stop EXCEPT ![k] = TRUE]
          /\ sampler' = [sampler EXCEPT ![k] = IF @ = "waiting" THEN "check" ELSE @]
    /\ Goto(t, "join")
    /\ UNCHANGED <<phase, table, cells, packet, held, calls>>

Stopped(t) ==
    \/ t = Owner /\ Goto(t, "stop")
    \/ t # Owner /\ call[t].op = "add" /\ Goto(t, "create")
    \/ t # Owner /\ call[t].op # "add" /\ Leave(t)

\* Mistake: the thread is not joined.
JoinNothing(t) ==
    /\ pc[t] = "join"
    /\ \E k \in held[t] : stop[k] /\ Has(t, held[t] \ {k})
    /\ Stopped(t)
    /\ UNCHANGED <<phase, table, run, calls>>

\* ... the join, and ncl_sample_task_free.
Join(t) ==
    /\ pc[t] = "join"
    /\ \E k \in held[t] :
          /\ stop[k] /\ sampler[k] = "ended"
          /\ At(k, "freed")
          /\ Has(t, held[t] \ {k})
    /\ Stopped(t)
    /\ UNCHANGED <<phase, table, stop, cells, packet, calls>>

AllStopped ==
    /\ pc[Owner] = "stop" /\ held[Owner] = {}
    /\ phase' = IF phase = "freeing" THEN "freed" ELSE phase
    /\ Leave(Owner)
    /\ UNCHANGED <<table, run, held, calls>>

CallerStep(c) == Take(c) \/ Create(c) \/ Insert(c) \/ Stop(c) \/ Join(c)
OwnerStep     == Stop(Owner) \/ Join(Owner) \/ AllStopped

Rest == phase = "freed" /\ UNCHANGED vars

Next ==
    \/ \E k \in Tasks : SamplerStep(k) \/ Awake(k)
    \/ \E c \in Callers : Call(c) \/ CallerStep(c)
    \/ TakeAll \/ OwnerStep \/ Rest

Spec == Init /\ [][Next]_vars

\* Threads that can go on do; an upload interval may be longer than anybody waits.
FairSpec ==
    /\ Spec
    /\ \A k \in Tasks : WF_vars(SamplerStep(k))
    /\ \A c \in Callers : WF_vars(CallerStep(c))
    /\ WF_vars(OwnerStep)

-----------------------------------------------------------------------------
(* Properties                                                              *)

TypeOK ==
    /\ phase \in {"up", "freeing", "freed"}
    /\ samples \subseteq Tasks /\ created \in 0..MaxTasks /\ late \subseteq Tasks
    /\ channel \in [Tasks -> Channels]
    /\ stop \in [Tasks -> BOOLEAN]
    /\ sampler \in [Tasks -> SamplerPlaces]
    /\ cells \in [Tasks -> 0..Rounds] /\ packet \in [Tasks -> 0..Rounds]
    /\ pc \in [Threads -> {"idle", "take", "create", "insert", "stop", "join"}]
    /\ call \in [Threads -> [op : {"none", "add", "remove", "refused"}, id : Channels]]
    /\ held \in [Threads -> SUBSET Tasks]
    /\ calls \in 0..MaxCalls

Running(k) == sampler[k] \notin {"none", "freed"}

\* Whoever joins and frees a task is alone in doing so: a task is in the table or
\* in the hands of one thread while it exists, and nowhere once it is freed.
TasksOwned ==
    \A k \in Tasks :
        LET hands == {t \in Threads : k \in held[t]}
        IN  IF Running(k) THEN Cardinality(hands) = IF k \in samples THEN 0 ELSE 1
                          ELSE hands = {} /\ k \notin samples

\* "An existing channel is stopped before it is restarted": two tasks publish
\* under one id only while one of them is not in the table, which its thread is
\* about to stop or to put there; the table never holds two of one channel.
OneTaskPerChannel ==
    \A k1, k2 \in samples : channel[k1] = channel[k2] => k1 = k2

\* Each sampler has one owner who joins and frees it, and a channel has one sampler.
TasksSound == TypeOK /\ TasksOwned /\ OneTaskPerChannel

\* "Sampling tasks must be stopped (and joined) first": once the bindings are
\* freed no sampler runs, except of a call that was under way when the free began.
StoppedBeforeFree ==
    phase = "freed" =>
        \A k \in Tasks :
            Running(k) => k \in late \/ \E c \in Callers : k \in held[c]

\* A packet that is published has its cell for every round, whenever its channel
\* is stopped.
WholePackets == \A k \in Tasks : packet[k] = Rounds

\* A stop comes to its end, however long the interval its sampler sleeps for.
StopsReturn ==
    \A t \in Threads : pc[t] = "stop" ~> pc[t] \notin {"stop", "join"} \/ phase = "freed"
=============================================================================
