-------------------------- MODULE ThreadPoolProofs --------------------------
(***************************************************************************)
(* Proofs about ThreadPool, for every number of tasks, threads and slots.  *)
(***************************************************************************)
EXTENDS ThreadPool, FiniteSetTheorems, TLAPS

-----------------------------------------------------------------------------
(* What a signal and a broadcast do to the two maps of states              *)

\* A signal wakes some sleeping workers and some waiting submitters.
LEMMA SignalWakes ==
    ASSUME NEW tnext, Signal(tnext)
    PROVE  \E ws \in SUBSET Idle, ts \in SUBSET Waiting :
              /\ Wake(ws, wstate, ts, tnext)
              /\ \A t \in ts : tnext[t] = "waiting"
<1>1. CASE \E w \in Idle : Wake({w}, wstate, {}, tnext)
    BY <1>1
<1>2. CASE \E t \in {u \in Waiting : tnext[u] = "waiting"} : Wake({}, wstate, {t}, tnext)
    BY <1>2
<1>3. CASE Wake({}, wstate, {}, tnext)
    BY <1>3
<1> QED
    BY <1>1, <1>2, <1>3 DEF Signal

\* Waking threads keeps both maps well typed.
LEMMA WakeType ==
    ASSUME NEW ws, NEW ts, NEW wnext \in [Threads -> WorkerStates],
           NEW tnext \in [Tasks -> TaskStates],
           Wake(ws, wnext, ts, tnext)
    PROVE  /\ wstate' \in [Threads -> WorkerStates]
           /\ task' \in [Tasks -> TaskStates]
BY DEF Wake, WorkerStates, TaskStates

-----------------------------------------------------------------------------
(* Type correctness                                                        *)

\* The pool is created with well-typed state, however few of its core threads start.
LEMMA InitType == Init => TypeOK
<1> SUFFICES ASSUME Init PROVE TypeOK
    OBVIOUS
<1>1. PICK first \in SUBSET Threads :
          /\ Cardinality(first) <= CoreThreads
          /\ wstate = [w \in Threads |-> IF w \in first THEN "ready" ELSE "unborn"]
          /\ workers = Cardinality(first)
          /\ slots = first
    BY DEF Init
<1>2. Cardinality(first) \in Nat
    BY <1>1, PoolAssumption, FS_Subset, FS_CardinalityType
<1>3. workers \in 0..MaxThreads
    BY <1>1, <1>2, PoolAssumption
<1> QED
    BY <1>1, <1>3, PoolAssumption DEF Init, TypeOK, TaskStates, WorkerStates, Phases

\* Every operation of submitters, workers and shutdown keeps the types.
LEMMA TypeStep == TypeOK /\ [Next]_vars => TypeOK'
<1> SUFFICES ASSUME TypeOK, [Next]_vars PROVE TypeOK'
    OBVIOUS
<1> USE PoolAssumption
<1>1. ASSUME NEW t \in Tasks, Submitter(t) PROVE TypeOK'
  <2>1. CASE SubmitRefused(t)
    BY <2>1 DEF SubmitRefused, TypeOK, pool, TaskStates
  <2>2. ASSUME Push(t), ~Full, task[t] # "waiting"
        PROVE  /\ queue' \in Seq(Tasks) /\ Len(queue') <= Capacity
               /\ wstate' \in [Threads -> WorkerStates]
               /\ task' \in [Tasks -> TaskStates]
    <3> DEFINE tnext == [task EXCEPT ![t] = IF shutting_down THEN "late" ELSE "queued"]
    <3>1. tnext \in [Tasks -> TaskStates]
      BY DEF TypeOK, TaskStates
    <3>2. queue' = Append(queue, t)
      BY <2>2 DEF Push
    <3>3. queue' \in Seq(Tasks) /\ Len(queue') <= Capacity
      BY <2>2, <3>2 DEF Full, TypeOK
    <3>4. \E ws, ts : Wake(ws, wstate, ts, tnext)
      BY <2>2, SignalWakes DEF Push
    <3> QED
      BY <3>1, <3>3, <3>4, WakeType DEF TypeOK
  <2>3. CASE SubmitQueued(t)
    BY <2>2, <2>3 DEF SubmitQueued, TypeOK, pool
  <2>4. CASE SubmitInline(t)
    BY <2>4 DEF SubmitInline, TypeOK, pool, TaskStates
  <2>5. CASE SubmitGrow(t)
    <3>1. [task EXCEPT ![t] = "waiting"] \in [Tasks -> TaskStates]
      BY DEF TypeOK, TaskStates
    <3>2. round' \in [Tasks -> 0..Rounds] /\ queue' = queue /\ job' = job /\ phase' = phase
      BY <2>5 DEF SubmitGrow, TypeOK
    <3>3. ASSUME NEW w \in Unborn, Register(w),
                 Broadcast([wstate EXCEPT ![w] = "ready"], [task EXCEPT ![t] = "waiting"])
          PROVE  TypeOK'
      <4>1. [wstate EXCEPT ![w] = "ready"] \in [Threads -> WorkerStates]
        BY DEF TypeOK, WorkerStates, Unborn
      <4>2. wstate' \in [Threads -> WorkerStates] /\ task' \in [Tasks -> TaskStates]
        BY <3>1, <3>3, <4>1, WakeType DEF Broadcast
      <4> QED
        BY <2>5, <3>2, <3>3, <4>2 DEF SubmitGrow, Register, TypeOK, Unborn
    <3>4. ASSUME Broadcast(wstate, [task EXCEPT ![t] = "waiting"]),
                 UNCHANGED <<workers, slots, joined, detached>>
          PROVE  TypeOK'
      <4>1. wstate' \in [Threads -> WorkerStates] /\ task' \in [Tasks -> TaskStates]
        BY <3>1, <3>4, WakeType DEF Broadcast, TypeOK
      <4> QED
        BY <3>2, <3>4, <4>1 DEF TypeOK
    <3> QED
      BY <2>5, <3>3, <3>4 DEF SubmitGrow
  <2>6. CASE SubmitTimeout(t)
    BY <2>6 DEF SubmitTimeout, TypeOK, pool, TaskStates
  <2>7. CASE SubmitResume(t)
    <3>1. CASE ~Full /\ Push(t) /\ UNCHANGED round
      BY <2>2, <2>7, <3>1 DEF SubmitResume, TypeOK, pool
    <3>2. CASE Full /\ task' = [task EXCEPT ![t] = "inline"] /\ UNCHANGED <<queue, round, wstate>>
      BY <2>7, <3>2 DEF SubmitResume, TypeOK, pool, TaskStates
    <3>3. CASE /\ round[t] < Rounds
               /\ task' = [task EXCEPT ![t] = "waiting"]
               /\ round' = [round EXCEPT ![t] = @ + 1]
               /\ UNCHANGED <<queue, wstate>>
      BY <2>7, <3>3 DEF SubmitResume, TypeOK, pool, TaskStates
    <3> QED
      BY <2>7, <3>1, <3>2, <3>3 DEF SubmitResume
  <2>8. CASE InlineDone(t)
    BY <2>8 DEF InlineDone, TypeOK, pool, TaskStates
  <2> QED
    BY <1>1, <2>1, <2>3, <2>4, <2>5, <2>6, <2>7, <2>8 DEF Submitter
<1>2. ASSUME NEW w \in Threads, Worker(w) \/ SpuriousWakeup(w) PROVE TypeOK'
  <2>1. CASE WorkerPop(w)
    <3>1. Head(queue) \in Tasks /\ Tail(queue) \in Seq(Tasks) /\ Len(Tail(queue)) <= Capacity
      BY <2>1 DEF WorkerPop, TypeOK
    <3> QED
      BY <2>1, <3>1 DEF WorkerPop, TypeOK, pool, TaskStates, WorkerStates
  <2>2. CASE WorkerFinish(w)
    BY <2>2 DEF WorkerFinish, TypeOK, pool, TaskStates, WorkerStates
  <2>3. CASE WorkerStop(w)
    BY <2>3 DEF WorkerStop, TypeOK, pool, WorkerStates
  <2>4. CASE WorkerRetire(w)
    BY <2>4 DEF WorkerRetire, Surplus, TypeOK, WorkerStates
  <2>5. CASE WorkerWait(w)
    BY <2>5 DEF WorkerWait, TypeOK, pool, WorkerStates
  <2>6. CASE WorkerTimeout(w)
    BY <2>6 DEF WorkerTimeout, TypeOK, pool, WorkerStates
  <2>7. CASE SpuriousWakeup(w)
    BY <2>7 DEF SpuriousWakeup, TypeOK, pool, WorkerStates
  <2> QED
    BY <1>2, <2>1, <2>2, <2>3, <2>4, <2>5, <2>6, <2>7 DEF Worker
<1>3. ASSUME Broadcast(wstate, task), phase' \in Phases,
             UNCHANGED <<queue, round, job, workers, slots, joined, detached>>
      PROVE  TypeOK'
  <2>1. wstate' \in [Threads -> WorkerStates] /\ task' \in [Tasks -> TaskStates]
    BY <1>3, WakeType DEF Broadcast, TypeOK
  <2> QED
    BY <1>3, <2>1 DEF TypeOK
<1>4. ASSUME NEW wait \in WaitModes, ShutdownBegin(wait) PROVE TypeOK'
  BY <1>3, <1>4 DEF ShutdownBegin, Phases
<1>5. CASE ShutdownDrain
  BY <1>3, <1>5 DEF ShutdownDrain, Phases
<1>6. ASSUME NEW w \in Threads, ShutdownJoin(w) PROVE TypeOK'
  BY <1>6 DEF ShutdownJoin, TypeOK
<1>7. CASE ShutdownFree
  BY <1>7 DEF ShutdownFree, TypeOK, Phases
<1>8. CASE UNCHANGED vars
  BY <1>8 DEF vars, TypeOK
<1> QED
  BY <1>1, <1>2, <1>4, <1>5, <1>6, <1>7, <1>8 DEF Next, Shutdown, Freed

\* Every variable keeps its type: in particular the queue never exceeds its
\* capacity and pool->workers stays within max_threads.
THEOREM TypeCorrect == Spec => []TypeOK
<1>1. Init => TypeOK
  BY InitType
<1>2. TypeOK /\ [Next]_vars => TypeOK'
  BY TypeStep
<1> QED
  BY <1>1, <1>2, PTL DEF Spec

-----------------------------------------------------------------------------
(* What a step may leave alone                                             *)

\* No task of T is queued, started or finished.
Kept(T) ==
    \A t \in T : /\ task'[t] = "queued" <=> task[t] = "queued"
                 /\ task'[t] = "late" <=> task[t] = "late"
                 /\ task'[t] = "running" <=> task[t] = "running"
TasksKept == Kept(Tasks)

\* No thread other than those in S is born, takes or leaves a job, or exits.
ThreadsKept(S) ==
    \A w \in Threads \ S : /\ wstate'[w] = "unborn" <=> wstate[w] = "unborn"
                           /\ wstate'[w] = "busy" <=> wstate[w] = "busy"
                           /\ wstate'[w] = "exited" <=> wstate[w] = "exited"

\* Steps that touch neither the queue nor the set of threads.
Quiet ==
    /\ UNCHANGED <<queue, job, pool>>
    /\ TasksKept /\ ThreadsKept({})

\* A submit that queues t.
Pushes(t) ==
    /\ task[t] \in {"new", "woken"}
    /\ task[t] = "new" => phase = "open"
    /\ queue' = Append(queue, t)
    /\ task'[t] = IF phase = "open" THEN "queued" ELSE "late"
    /\ Kept(Tasks \ {t})
    /\ ThreadsKept({})
    /\ UNCHANGED <<job, pool>>

\* A submit that starts the thread w.
Grows(w) ==
    /\ phase = "open"
    /\ w \in Unborn
    /\ workers < MaxThreads
    /\ Register(w)
    /\ wstate'[w] = "ready"
    /\ UNCHANGED <<queue, job, phase>>
    /\ TasksKept /\ ThreadsKept({w})

\* A broadcast of shutdown.
Announces ==
    /\ UNCHANGED <<queue, job, workers, slots, joined, detached>>
    /\ phase \in {"open", "draining"}
    /\ phase' \in {"draining", "joining"}
    /\ TasksKept /\ ThreadsKept({})

\* A signal moves no thread but from waiting to woken.
LEMMA SignalEffect ==
    ASSUME TypeOK, NEW tnext \in [Tasks -> TaskStates], Signal(tnext)
    PROVE  /\ \A t \in Tasks : \/ task'[t] = tnext[t]
                               \/ tnext[t] = "waiting" /\ task'[t] = "woken"
           /\ ThreadsKept({})
<1>1. PICK ws \in SUBSET Idle, ts \in SUBSET Waiting :
              /\ Wake(ws, wstate, ts, tnext)
              /\ \A t \in ts : tnext[t] = "waiting"
  BY SignalWakes
<1> QED
  BY <1>1 DEF Wake, Idle, ThreadsKept, TypeOK

\* A broadcast wakes every sleeping worker and submitter.
LEMMA BroadcastEffect ==
    ASSUME TypeOK, NEW tnext \in [Tasks -> TaskStates],
           NEW wnext \in [Threads -> WorkerStates], Broadcast(wnext, tnext)
    PROVE  /\ \A t \in Tasks : task'[t] = IF task[t] = "waiting" THEN "woken" ELSE tnext[t]
           /\ \A w \in Threads : wstate'[w] = IF wstate[w] = "idle" THEN "woken" ELSE wnext[w]
BY DEF Broadcast, Wake, Idle, Waiting

\* Push appends the task and wakes threads, and changes nothing else.
LEMMA PushEffect ==
    ASSUME TypeOK, NEW t \in Tasks, Push(t), task[t] \in {"new", "woken"},
           task[t] = "new" => phase = "open", UNCHANGED <<job, pool>>
    PROVE  Pushes(t)
<1> DEFINE tnext == [task EXCEPT ![t] = IF shutting_down THEN "late" ELSE "queued"]
<1>1. tnext \in [Tasks -> TaskStates]
  BY DEF TypeOK, TaskStates
<1>2. /\ \A u \in Tasks : task'[u] = tnext[u] \/ (tnext[u] = "waiting" /\ task'[u] = "woken")
      /\ ThreadsKept({})
  BY <1>1, SignalEffect DEF Push
<1>3. /\ task'[t] = IF phase = "open" THEN "queued" ELSE "late"
      /\ \A u \in Tasks \ {t} : task'[u] = task[u] \/ (task[u] = "waiting" /\ task'[u] = "woken")
  BY <1>2 DEF TypeOK, shutting_down
<1> QED
  BY <1>2, <1>3 DEF Push, Pushes, Kept

\* Every step of the pool is of one of these kinds.
LEMMA StepKinds ==
    ASSUME TypeOK, [Next]_vars
    PROVE  \/ Quiet
           \/ \E t \in Tasks : Pushes(t)
           \/ \E w \in Threads : Grows(w)
           \/ \E w \in Threads : \/ WorkerPop(w) \/ WorkerFinish(w)
                                 \/ WorkerStop(w) \/ WorkerRetire(w)
           \/ Announces
           \/ \E w \in Threads : ShutdownJoin(w)
           \/ ShutdownFree
<1> USE PoolAssumption
<1>1. ASSUME NEW t \in Tasks, Submitter(t)
      PROVE  Quiet \/ Pushes(t) \/ \E w \in Threads : Grows(w)
  <2>1. CASE SubmitRefused(t) \/ SubmitInline(t) \/ InlineDone(t)
    BY <2>1 DEF SubmitRefused, SubmitInline, InlineDone, Quiet, pool,
                TasksKept, Kept, ThreadsKept, TypeOK
  <2>2. CASE SubmitQueued(t)
    BY <2>2, PushEffect DEF SubmitQueued
  <2>3. CASE SubmitGrow(t)
    <3>1. [task EXCEPT ![t] = "waiting"] \in [Tasks -> TaskStates]
      BY DEF TypeOK, TaskStates
    <3>2. ASSUME NEW w \in Unborn, Register(w),
                 Broadcast([wstate EXCEPT ![w] = "ready"], [task EXCEPT ![t] = "waiting"])
          PROVE  Grows(w)
      <4>1. [wstate EXCEPT ![w] = "ready"] \in [Threads -> WorkerStates]
        BY DEF TypeOK, WorkerStates, Unborn
      <4>2. /\ \A u \in Tasks : task'[u] = IF task[u] = "waiting" THEN "woken"
                                           ELSE [task EXCEPT ![t] = "waiting"][u]
            /\ \A v \in Threads : wstate'[v] = IF wstate[v] = "idle" THEN "woken"
                                               ELSE [wstate EXCEPT ![w] = "ready"][v]
        BY <3>1, <3>2, <4>1, BroadcastEffect
      <4>3. TasksKept
        BY <2>3, <4>2 DEF TasksKept, Kept, TypeOK, SubmitGrow
      <4>4. ThreadsKept({w}) /\ wstate'[w] = "ready"
        BY <4>2 DEF ThreadsKept, TypeOK, Unborn
      <4> QED
        BY <2>3, <3>2, <4>3, <4>4 DEF Grows, SubmitGrow
    <3>3. ASSUME Broadcast(wstate, [task EXCEPT ![t] = "waiting"]),
                 UNCHANGED <<workers, slots, joined, detached>>
          PROVE  Quiet
      <4>1. /\ \A u \in Tasks : task'[u] = IF task[u] = "waiting" THEN "woken"
                                           ELSE [task EXCEPT ![t] = "waiting"][u]
            /\ \A v \in Threads : wstate'[v] = IF wstate[v] = "idle" THEN "woken"
                                               ELSE wstate[v]
        BY <3>1, <3>3, BroadcastEffect DEF TypeOK
      <4>2. TasksKept
        BY <2>3, <4>1 DEF TasksKept, Kept, TypeOK, SubmitGrow
      <4>3. ThreadsKept({})
        BY <2>3, <4>1 DEF ThreadsKept, TypeOK, SubmitGrow
      <4> QED
        BY <2>3, <3>3, <4>2, <4>3 DEF Quiet, SubmitGrow, pool
    <3> QED
      BY <2>3, <3>2, <3>3 DEF SubmitGrow, Unborn
  <2>4. CASE SubmitTimeout(t)
    BY <2>4 DEF SubmitTimeout, Quiet, pool, TasksKept, Kept, ThreadsKept, TypeOK
  <2>5. CASE SubmitResume(t)
    <3>1. CASE Push(t)
      BY <2>5, <3>1, PushEffect DEF SubmitResume
    <3>2. CASE /\ \/ task' = [task EXCEPT ![t] = "inline"]
                  \/ task' = [task EXCEPT ![t] = "waiting"]
               /\ UNCHANGED <<queue, wstate>>
      BY <2>5, <3>2 DEF SubmitResume, Quiet, pool, TasksKept, Kept,
                        ThreadsKept, TypeOK
    <3> QED
      BY <2>5, <3>1, <3>2 DEF SubmitResume
  <2> QED
    BY <1>1, <2>1, <2>2, <2>3, <2>4, <2>5 DEF Submitter
<1>2. ASSUME NEW w \in Threads, WorkerWait(w) \/ WorkerTimeout(w) \/ SpuriousWakeup(w)
      PROVE  Quiet
  BY <1>2 DEF WorkerWait, WorkerTimeout, SpuriousWakeup, Awake, Quiet, pool, TasksKept, Kept,
              ThreadsKept, TypeOK
<1>3. ASSUME Broadcast(wstate, task),
             UNCHANGED <<queue, job, workers, slots, joined, detached>>
      PROVE  TasksKept /\ ThreadsKept({})
  <2>1. /\ \A u \in Tasks : task'[u] = IF task[u] = "waiting" THEN "woken" ELSE task[u]
        /\ \A v \in Threads : wstate'[v] = IF wstate[v] = "idle" THEN "woken" ELSE wstate[v]
    BY <1>3, BroadcastEffect DEF TypeOK
  <2> QED
    BY <2>1 DEF TasksKept, Kept, ThreadsKept
<1>4. ASSUME NEW wait \in WaitModes, ShutdownBegin(wait) PROVE Announces
  <2>1. TasksKept /\ ThreadsKept({})
    BY <1>3, <1>4 DEF ShutdownBegin
  <2> QED
    BY <1>4, <2>1 DEF ShutdownBegin, Announces
<1>5. CASE ShutdownDrain
  <2>1. TasksKept /\ ThreadsKept({})
    BY <1>3, <1>5 DEF ShutdownDrain
  <2> QED
    BY <1>5, <2>1 DEF ShutdownDrain, Announces
<1>6. CASE UNCHANGED vars
  BY <1>6 DEF vars, Quiet, pool, TasksKept, Kept, ThreadsKept
<1> QED
  BY <1>1, <1>2, <1>4, <1>5, <1>6 DEF Next, Shutdown, Freed, Worker

-----------------------------------------------------------------------------
(* The inductive invariant, conjunct by conjunct                           *)

\* The queue stays the list of the accepted tasks, each once.
LEMMA QueueStep == ASSUME IInv, [Next]_vars PROVE QueueInv'
<1> USE PoolAssumption DEF IInv
<1>1. ASSUME queue' = queue, \A t \in Tasks : task'[t] \in Accepted <=> task[t] \in Accepted
      PROVE  QueueInv'
  BY <1>1 DEF QueueInv, TypeOK
<1>2. ASSUME NEW t \in Tasks, Pushes(t) PROVE QueueInv'
  <2>1. /\ queue' \in Seq(Tasks) /\ DOMAIN queue' = 1..(Len(queue) + 1)
        /\ queue'[Len(queue) + 1] = t
        /\ \A i \in DOMAIN queue : i \in DOMAIN queue' /\ queue'[i] = queue[i]
        /\ \A i \in DOMAIN queue' : i = Len(queue) + 1 \/ i \in DOMAIN queue
    <3>1. /\ queue \in Seq(Tasks) /\ queue' = Append(queue, t)
          /\ Len(queue) \in Nat /\ DOMAIN queue = 1..Len(queue)
      BY <1>2 DEF Pushes, TypeOK
    <3>2. /\ queue' \in Seq(Tasks) /\ Len(queue') = Len(queue) + 1
          /\ DOMAIN queue' = 1..(Len(queue) + 1)
      BY <3>1
    <3>3. /\ queue'[Len(queue) + 1] = t
          /\ \A i \in 1..Len(queue) : queue'[i] = queue[i]
      BY <3>1
    <3> QED
      BY <3>1, <3>2, <3>3
  <2>2. \A i \in DOMAIN queue : queue[i] \in Tasks /\ queue[i] # t
    <3>1. \A i \in DOMAIN queue : queue[i] \in Tasks
      BY DEF TypeOK
    <3>2. \A i \in DOMAIN queue : task[queue[i]] \in Accepted
      BY DEF QueueInv
    <3>3. task[t] \notin Accepted
      BY <1>2 DEF Pushes, Accepted
    <3> QED
      BY <3>1, <3>2, <3>3
  <2>3. \A i \in DOMAIN queue' : task'[queue'[i]] \in Accepted
    BY <1>2, <2>1, <2>2 DEF QueueInv, Pushes, Kept, Accepted
  <2>4. \A i, j \in DOMAIN queue' : queue'[i] = queue'[j] => i = j
    BY <2>1, <2>2 DEF QueueInv
  <2>5. \A u \in Tasks : task'[u] \in Accepted => \E i \in DOMAIN queue' : queue'[i] = u
    BY <1>2, <2>1 DEF QueueInv, Pushes, Kept, Accepted, TypeOK
  <2> QED
    BY <2>3, <2>4, <2>5 DEF QueueInv
<1>3. ASSUME NEW w \in Threads, WorkerPop(w) PROVE QueueInv'
  <2>1. /\ Head(queue) = queue[1] /\ Len(queue) \in Nat \ {0}
        /\ DOMAIN queue = 1..Len(queue)
        /\ DOMAIN queue' = 1..(Len(queue) - 1)
        /\ \A i \in DOMAIN queue' : queue'[i] = queue[i + 1]
    BY <1>3 DEF WorkerPop, TypeOK
  <2>2. queue[1] \in Tasks
    BY <2>1 DEF TypeOK
  <2>3. \A u \in Tasks : task'[u] = IF u = queue[1] THEN "running" ELSE task[u]
    BY <1>3, <2>1, <2>2 DEF WorkerPop, TypeOK
  <2>4. \A i \in DOMAIN queue' : i + 1 \in DOMAIN queue /\ queue[i + 1] \in Tasks
                                 /\ queue[i + 1] # queue[1]
    <3>1. \A i \in DOMAIN queue' : i + 1 \in DOMAIN queue /\ 1 \in DOMAIN queue /\ i + 1 # 1
      BY <2>1
    <3>2. \A i \in DOMAIN queue : queue[i] \in Tasks
      BY DEF TypeOK
    <3>3. \A i, j \in DOMAIN queue : queue[i] = queue[j] => i = j
      BY DEF QueueInv
    <3> QED BY <3>1, <3>2, <3>3
  <2>5. \A i \in DOMAIN queue' : task'[queue'[i]] \in Accepted
    BY <2>1, <2>3, <2>4 DEF QueueInv
  <2>6. \A i, j \in DOMAIN queue' : queue'[i] = queue'[j] => i = j
    BY <2>1, <2>4 DEF QueueInv
  <2>7. \A u \in Tasks : task'[u] \in Accepted => \E i \in DOMAIN queue' : queue'[i] = u
    <3> SUFFICES ASSUME NEW u \in Tasks, task'[u] \in Accepted
                 PROVE  \E i \in DOMAIN queue' : queue'[i] = u
      OBVIOUS
    <3>1. PICK i \in DOMAIN queue : queue[i] = u /\ i # 1
      BY <2>3 DEF QueueInv, Accepted
    <3>2. i - 1 \in DOMAIN queue' /\ queue'[i - 1] = u
      BY <2>1, <3>1
    <3> QED
      BY <3>2
  <2> QED
    BY <2>5, <2>6, <2>7 DEF QueueInv
<1>4. ASSUME NEW w \in Threads, WorkerFinish(w) PROVE QueueInv'
  <2>1. job[w] \in Tasks /\ task[job[w]] = "running"
    BY <1>4 DEF WorkerFinish, JobInv, TypeOK
  <2> QED
    BY <1>1, <1>4, <2>1 DEF WorkerFinish, Accepted, TypeOK
<1>5. ASSUME NEW w \in Threads, WorkerStop(w) \/ WorkerRetire(w) \/ ShutdownJoin(w) PROVE QueueInv'
  BY <1>1, <1>5 DEF WorkerStop, WorkerRetire, ShutdownJoin, TasksKept
<1>6. CASE Quiet \/ (\E w \in Threads : Grows(w)) \/ Announces \/ ShutdownFree
  BY <1>1, <1>6 DEF Quiet, Grows, Announces, ShutdownFree, TasksKept, Kept, Accepted
<1> QED
  BY <1>2, <1>3, <1>4, <1>5, <1>6, StepKinds

\* Busy workers and running tasks stay in correspondence.
LEMMA JobStep == ASSUME IInv, [Next]_vars PROVE JobInv'
<1> USE PoolAssumption DEF IInv
<1>1. ASSUME NEW S, ThreadsKept(S), job' = job,
             \A w \in S \cap Threads : wstate[w] # "busy" /\ wstate'[w] # "busy",
             \A t \in Tasks : task'[t] = "running" <=> task[t] = "running"
      PROVE  JobInv'
  <2>1. \A w \in Threads : wstate'[w] = "busy" <=> wstate[w] = "busy"
    BY <1>1 DEF ThreadsKept
  <2> QED
    BY <1>1, <2>1 DEF JobInv, TypeOK
<1>2. CASE Quiet \/ Announces
  BY <1>1, <1>2 DEF Quiet, Announces, TasksKept, Kept
<1>3. ASSUME NEW t \in Tasks, Pushes(t) PROVE JobInv'
  BY <1>1, <1>3 DEF Pushes, Kept
<1>4. ASSUME NEW w \in Threads, Grows(w) PROVE JobInv'
  BY <1>1, <1>4 DEF Grows, Unborn, TasksKept, Kept
<1>5. ASSUME NEW w \in Threads, WorkerPop(w) PROVE JobInv'
  <2> DEFINE t == Head(queue)
  <2>1. t \in Tasks /\ task[t] \in Accepted /\ t # NoTask
    BY <1>5 DEF WorkerPop, QueueInv, TypeOK
  <2>2. wstate[w] # "busy" /\ job[w] = NoTask
    BY <1>5 DEF WorkerPop, Awake, JobInv
  <2>3. /\ \A v \in Threads : job'[v] = IF v = w THEN t ELSE job[v]
        /\ \A v \in Threads : wstate'[v] = IF v = w THEN "busy" ELSE wstate[v]
        /\ \A u \in Tasks : task'[u] = IF u = t THEN "running" ELSE task[u]
    BY <1>5, <2>1 DEF WorkerPop, TypeOK
  <2>4. \A v \in Threads : job[v] # t
    BY <2>1 DEF JobInv, Accepted
  <2> HIDE DEF t
  <2>5. \A v \in Threads : wstate'[v] = "busy" <=> job'[v] # NoTask
    BY <2>1, <2>3 DEF JobInv
  <2>6. \A v \in Threads : wstate'[v] = "busy" => task'[job'[v]] = "running"
    BY <2>1, <2>3, <2>4 DEF JobInv, TypeOK
  <2>7. \A v, x \in Threads : job'[v] = job'[x] /\ job'[v] # NoTask => v = x
    BY <2>3, <2>4 DEF JobInv
  <2>8. \A u \in Tasks : task'[u] = "running" => \E v \in Threads : job'[v] = u
    BY <2>1, <2>2, <2>3 DEF JobInv
  <2> QED
    BY <2>5, <2>6, <2>7, <2>8 DEF JobInv
<1>6. ASSUME NEW w \in Threads, WorkerFinish(w) PROVE JobInv'
  <2>1. job[w] \in Tasks /\ job[w] # NoTask
    BY <1>6 DEF WorkerFinish, JobInv, TypeOK
  <2>2. /\ \A v \in Threads : job'[v] = IF v = w THEN NoTask ELSE job[v]
        /\ \A v \in Threads : wstate'[v] = IF v = w THEN "ready" ELSE wstate[v]
        /\ \A u \in Tasks : task'[u] = IF u = job[w] THEN "done" ELSE task[u]
    BY <1>6, <2>1 DEF WorkerFinish, TypeOK
  <2>3. \A v \in Threads : wstate'[v] = "busy" <=> job'[v] # NoTask
    BY <2>2 DEF JobInv
  <2>4. \A v \in Threads : wstate'[v] = "busy" => task'[job'[v]] = "running"
    BY <2>1, <2>2 DEF JobInv, TypeOK
  <2>5. \A v, x \in Threads : job'[v] = job'[x] /\ job'[v] # NoTask => v = x
    BY <2>2 DEF JobInv
  <2>6. \A u \in Tasks : task'[u] = "running" => \E v \in Threads : job'[v] = u
    BY <2>1, <2>2 DEF JobInv
  <2> QED
    BY <2>3, <2>4, <2>5, <2>6 DEF JobInv
<1>7. ASSUME NEW w \in Threads, WorkerStop(w) \/ WorkerRetire(w) PROVE JobInv'
  <2>1. ThreadsKept({w}) /\ wstate[w] # "busy" /\ wstate'[w] # "busy" /\ job' = job /\ task' = task
    BY <1>7 DEF WorkerStop, WorkerRetire, Awake, ThreadsKept, TypeOK
  <2> QED
    BY <1>1, <2>1
<1>8. CASE ShutdownFree \/ \E w \in Threads : ShutdownJoin(w)
  BY <1>8 DEF ShutdownFree, ShutdownJoin, JobInv
<1> QED
  BY <1>2, <1>3, <1>4, <1>5, <1>6, <1>7, <1>8, StepKinds

\* The joined threads have exited, and they fill the slots when the pool is freed.
LEMMA ShutdownStep == ASSUME IInv, [Next]_vars PROVE ShutdownInv'
<1> USE PoolAssumption DEF IInv
<1>1. ASSUME NEW S, ThreadsKept(S), S \cap joined = {}, UNCHANGED <<slots, joined, phase>>
      PROVE  ShutdownInv'
  BY <1>1 DEF ShutdownInv, ThreadsKept, TypeOK
<1>2. CASE Quiet
  BY <1>1, <1>2 DEF Quiet, pool
<1>3. ASSUME NEW t \in Tasks, Pushes(t) PROVE ShutdownInv'
  BY <1>1, <1>3 DEF Pushes, pool
<1>4. ASSUME NEW w \in Threads, Grows(w) PROVE ShutdownInv'
  BY <1>4 DEF Grows, Unborn, ShutdownInv, Register, ThreadsKept, shutting_down, TypeOK,
              WorkerAccounting
<1>5. ASSUME NEW w \in Threads,
             WorkerPop(w) \/ WorkerFinish(w) \/ WorkerStop(w) \/ WorkerRetire(w)
      PROVE  ShutdownInv'
  <2>1. w \notin joined /\ ThreadsKept({w}) /\ UNCHANGED <<slots, joined, phase>>
    BY <1>5 DEF WorkerPop, WorkerFinish, WorkerStop, WorkerRetire, Awake, ShutdownInv,
                ThreadsKept, pool, TypeOK
  <2> QED
    BY <1>1, <2>1
<1>6. CASE Announces
  BY <1>6 DEF Announces, ShutdownInv, ThreadsKept, TypeOK
<1>7. ASSUME NEW w \in Threads, ShutdownJoin(w) PROVE ShutdownInv'
  BY <1>7 DEF ShutdownJoin, ShutdownInv
<1>8. CASE ShutdownFree
  BY <1>8 DEF ShutdownFree, ShutdownInv
<1> QED
  BY <1>2, <1>3, <1>4, <1>5, <1>6, <1>7, <1>8, StepKinds

\* The set of live threads changes by at most the thread that acts.
LEMMA LiveStep ==
    ASSUME TypeOK, NEW S \in SUBSET Threads, ThreadsKept(S)
    PROVE  Live' \ S = Live \ S
BY DEF ThreadsKept, Live, TypeOK

\* The live workers can be counted.
LEMMA LiveFinite == IsFiniteSet(Live) /\ Cardinality(Live) \in Nat
BY PoolAssumption, FS_Subset, FS_CardinalityType DEF Live

\* pool->workers follows every start and every exit of a worker.
LEMMA AccountingStep == ASSUME IInv, [Next]_vars PROVE WorkerAccounting' /\ CoreStaffed'
<1> USE PoolAssumption DEF IInv
<1>1. ASSUME Live' = Live, Unborn' = Unborn, UNCHANGED <<workers, slots, detached>>,
             phase' = "open" => phase = "open" /\ joined' = joined
      PROVE  WorkerAccounting' /\ CoreStaffed'
  BY <1>1 DEF WorkerAccounting, CoreStaffed, shutting_down
<1>2. ASSUME ThreadsKept({}) PROVE Live' = Live /\ Unborn' = Unborn
  BY <1>2 DEF ThreadsKept, Live, Unborn
<1>3. CASE Quiet \/ Announces \/ (\E t \in Tasks : Pushes(t))
  BY <1>1, <1>2, <1>3 DEF Quiet, Announces, Pushes, pool
<1>4. ASSUME NEW w \in Threads, Grows(w) PROVE WorkerAccounting' /\ CoreStaffed'
  <2>1. w \notin Live /\ Live' = Live \cup {w} /\ Unborn' = Unborn \ {w} /\ w \in Unborn
    BY <1>4 DEF Grows, ThreadsKept, Live, Unborn
  <2>2. Cardinality(Live') = Cardinality(Live) + 1
    BY <2>1, LiveFinite, FS_AddElement
  <2>3. workers = Cardinality(Live) /\ joined = {} /\ phase' = "open"
    BY <1>4 DEF Grows, WorkerAccounting, shutting_down
  <2>4. workers' = workers + 1 /\ joined' = joined /\ slots' \cup detached' = slots \cup detached \cup {w}
    BY <1>4 DEF Grows, Register
  <2>5. slots' \cap detached' = {}
    BY <1>4, <2>1 DEF Grows, Register, WorkerAccounting
  <2>6. slots' \cup detached' = Threads \ Unborn'
    BY <2>1, <2>4 DEF WorkerAccounting
  <2>7. Cardinality(Live) \in Nat
    BY LiveFinite
  <2> QED
    BY <1>4, <2>2, <2>3, <2>4, <2>5, <2>6, <2>7 DEF WorkerAccounting, CoreStaffed, shutting_down, Grows
<1>5. ASSUME NEW w \in Threads, WorkerPop(w) \/ WorkerFinish(w)
      PROVE  WorkerAccounting' /\ CoreStaffed'
  <2>1. Live' = Live /\ Unborn' = Unborn /\ UNCHANGED pool
    BY <1>5 DEF WorkerPop, WorkerFinish, Awake, Live, Unborn, TypeOK
  <2> QED
    BY <1>1, <2>1 DEF pool
<1>6. ASSUME NEW w \in Threads, WorkerStop(w) PROVE WorkerAccounting' /\ CoreStaffed'
  <2>1. Unborn' = Unborn /\ UNCHANGED pool /\ shutting_down /\ shutting_down'
    BY <1>6 DEF WorkerStop, Awake, Unborn, TypeOK, pool, shutting_down
  <2> QED
    BY <2>1 DEF pool, WorkerAccounting, CoreStaffed
<1>7. ASSUME NEW w \in Threads, WorkerRetire(w) PROVE WorkerAccounting' /\ CoreStaffed'
  <2>1. w \in Live /\ Live' = Live \ {w} /\ Unborn' = Unborn
    BY <1>7 DEF WorkerRetire, Awake, Live, Unborn, TypeOK
  <2>2. Cardinality(Live') = Cardinality(Live) - 1
    BY <2>1, LiveFinite, FS_RemoveElement
  <2>3. /\ workers = Cardinality(Live) /\ joined = {}
        /\ workers > CoreThreads /\ workers' = workers - 1
        /\ UNCHANGED <<slots, joined, detached, phase>>
    BY <1>7 DEF WorkerRetire, WorkerAccounting, Surplus
  <2> QED
    BY <2>1, <2>2, <2>3, LiveFinite DEF WorkerAccounting, CoreStaffed, shutting_down
<1>8. CASE ShutdownFree \/ \E w \in Threads : ShutdownJoin(w)
  BY <1>1, <1>8 DEF ShutdownFree, ShutdownJoin, Live, Unborn
<1> QED
  BY <1>3, <1>4, <1>5, <1>6, <1>7, <1>8, StepKinds

\* In a pool with core workers, what was queued before shutdown has a live worker to run it.
LEMMA DrainStep == ASSUME IInv, [Next]_vars PROVE DrainInv'
<1> USE PoolAssumption DEF IInv
<1> SUFFICES ASSUME Managed, NEW u \in Tasks, task'[u] = "queued" PROVE Live' # {}
  BY DEF DrainInv, Managed
<1>1. CASE phase' = "open"
  <2>1. Cardinality(Live') >= CoreThreads /\ CoreThreads > 0
    BY <1>1, AccountingStep DEF CoreStaffed, Managed, shutting_down
  <2>2. ASSUME Live' = {} PROVE Cardinality(Live') = 0
    BY <2>2, FS_EmptySet, Zenon
  <2>3. Cardinality(Live') # 0
    BY <2>1, LiveFinite
  <2> QED
    BY <2>2, <2>3
<1>2. CASE phase' # "open"
  <2>1. ASSUME task[u] = "queued", ThreadsKept({}) PROVE Live' # {}
    <3>1. Live' = Live
      BY <2>1 DEF ThreadsKept, Live
    <3> QED
      BY <2>1, <3>1 DEF DrainInv
  <2>2. CASE Quiet \/ Announces
    BY <2>1, <2>2 DEF Quiet, Announces, TasksKept, Kept
  <2>3. ASSUME NEW t \in Tasks, Pushes(t) PROVE Live' # {}
    <3>1. phase # "open" /\ u # t
      BY <1>2, <2>3 DEF Pushes, pool
    <3> QED
      BY <2>1, <2>3, <3>1 DEF Pushes, Kept
  <2>4. ASSUME NEW w \in Threads, Grows(w) PROVE FALSE
    BY <1>2, <2>4 DEF Grows
  <2>5. ASSUME NEW w \in Threads, WorkerPop(w) \/ WorkerFinish(w) PROVE Live' # {}
    <3>1. w \in Live'
      BY <2>5 DEF WorkerPop, WorkerFinish, Live, TypeOK
    <3> QED
      BY <3>1
  <2>6. ASSUME NEW w \in Threads, WorkerStop(w) \/ WorkerRetire(w) PROVE FALSE
    BY <2>6 DEF WorkerStop, WorkerRetire, QueueInv, Accepted
  <2>7. CASE ShutdownFree \/ \E w \in Threads : ShutdownJoin(w)
    <3>1. task' = task /\ wstate' = wstate
      BY <2>7 DEF ShutdownFree, ShutdownJoin
    <3>2. Live' = Live
      BY <3>1 DEF Live
    <3> QED
      BY <3>1, <3>2 DEF DrainInv
  <2> QED
    BY <2>2, <2>3, <2>4, <2>5, <2>6, <2>7, StepKinds
<1> QED
  BY <1>1, <1>2

\* A new pool satisfies the inductive invariant.
LEMMA InitIInv == Init => IInv
<1> SUFFICES ASSUME Init PROVE IInv
  OBVIOUS
<1> USE PoolAssumption
<1>1. PICK first \in SUBSET Threads :
          /\ Cardinality(first) <= CoreThreads
          /\ Cardinality(first) = CoreThreads \/ StartMayFail
          /\ wstate = [w \in Threads |-> IF w \in first THEN "ready" ELSE "unborn"]
          /\ workers = Cardinality(first)
          /\ slots = first
  BY DEF Init
<1>2. Live = first /\ Unborn = Threads \ first
  BY <1>1 DEF Live, Unborn
<1>3. WorkerAccounting /\ CoreStaffed
  BY <1>1, <1>2 DEF Init, WorkerAccounting, CoreStaffed, shutting_down
<1>4. QueueInv /\ JobInv
  BY <1>1 DEF Init, QueueInv, JobInv, Accepted
<1>5. ShutdownInv /\ DrainInv
  BY DEF Init, ShutdownInv, DrainInv
<1> QED
  BY <1>3, <1>4, <1>5, InitType DEF IInv

\* Every step keeps the inductive invariant.
LEMMA StepIInv == IInv /\ [Next]_vars => IInv'
BY TypeStep, QueueStep, JobStep, ShutdownStep, AccountingStep, DrainStep DEF IInv

\* The inductive invariant holds of every behaviour.
THEOREM Invariance == Spec => []IInv
<1>1. Init => IInv
  BY InitIInv
<1>2. IInv /\ [Next]_vars => IInv'
  BY StepIInv
<1> QED
  BY <1>1, <1>2, PTL DEF Spec

\* pool->workers counts the threads inside ncl_pool_worker, every thread started
\* is in one slot or detached, and no slot ever becomes free for reuse.
THEOREM Accounting == Spec => []WorkerAccounting
<1>1. IInv => WorkerAccounting
  BY DEF IInv
<1> QED
  BY <1>1, Invariance, PTL

\* Idle retirement never takes an open pool below its core size.
THEOREM CoreSize == Spec => []CoreStaffed
<1>1. IInv => CoreStaffed
  BY DEF IInv
<1> QED
  BY <1>1, Invariance, PTL

\* Both together: the counts that growth and retirement go by are true.
THEOREM Bookkeeping == Spec => []WorkersSound
<1>1. IInv => WorkersSound
  BY DEF IInv, WorkersSound
<1> QED
  BY <1>1, Invariance, PTL

\* When every worker is in a slot, a freed pool has run every task that was queued
\* before its shutdown began, whoever was waiting in submit at that moment.
THEOREM NothingLost == Spec => []CleanShutdown
<1>1. IInv => CleanShutdown
  <2> SUFFICES ASSUME IInv, Managed, phase = "freed", detached = {}, NEW t \in Tasks
               PROVE  task[t] \notin {"queued", "running"}
    BY DEF CleanShutdown
  <2>1. Live = {}
    BY DEF IInv, ShutdownInv, WorkerAccounting, Live, Unborn
  <2>3. task[t] # "queued"
    BY <2>1 DEF IInv, DrainInv
  <2>4. task[t] # "running"
    BY <2>1, PoolAssumption DEF IInv, JobInv, Live
  <2> QED
    BY <2>3, <2>4
<1> QED
  BY <1>1, Invariance, PTL

-----------------------------------------------------------------------------
(* The pool implements its promise                                         *)

\* A new pool is a service that has been offered nothing.
LEMMA ServiceInit == Init => Service!SInit
BY DEF Init, Service!SInit, InSubmit

\* What the abstract service sees of the pool's tasks.
Active   == {t \in Tasks : task[t] \in {"running", "inline"}}
Finished == {t \in Tasks : task[t] = "done"}
Refused  == {t \in Tasks : task[t] = "refused"}
Unheard  == {t \in Tasks : task[t] \in {"new", "waiting", "woken"}}

\* A task whose submit is still undecided is not yet known to the service.
LEMMA UnheardUnknown == ASSUME IInv PROVE Unheard \cap Service!Known = {}
BY DEF IInv, QueueInv, Accepted, Unheard, Service!Known, Service!Pending

\* Steps that decide about no task are stutters of the service.
LEMMA Stutter ==
    ASSUME IInv, queue' = queue, (phase' = "open") = (phase = "open"),
           \A t \in Tasks : task'[t] = task[t] \/ (t \in InSubmit /\ t \in InSubmit')
    PROVE  UNCHANGED Service!svars
<1>1. Active' = Active /\ Finished' = Finished /\ Refused' = Refused /\ InSubmit' = InSubmit
  BY DEF Active, Finished, Refused, InSubmit
<1> QED
  BY <1>1 DEF Active, Finished, Refused, Service!svars

\* Each step of the pool is a step of the service or a stutter.
LEMMA ServiceStep ==
    ASSUME IInv, [Next]_vars
    PROVE  [Service!SNext]_(Service!svars)
<1> USE PoolAssumption DEF IInv
<1>1. ASSUME NEW t \in Tasks, Push(t), task[t] \in {"new", "woken"},
             task[t] = "new" => phase = "open", phase' = phase
      PROVE  Service!Accept(t)
  <2> DEFINE tnext == [task EXCEPT ![t] = IF shutting_down THEN "late" ELSE "queued"]
  <2>1. tnext \in [Tasks -> TaskStates]
    BY DEF TypeOK, TaskStates
  <2>2. \A u \in Tasks : task'[u] = tnext[u] \/ (tnext[u] = "waiting" /\ task'[u] = "woken")
    BY <1>1, <2>1, SignalEffect DEF Push
  <2>3. /\ Active' = Active /\ Finished' = Finished /\ Refused' = Refused
        /\ InSubmit' = InSubmit \ {t}
    BY <1>1, <2>2 DEF Active, Finished, Refused, InSubmit, TypeOK
  <2>4. t \notin Service!Known /\ (phase = "open" \/ t \in InSubmit)
    BY <1>1, UnheardUnknown DEF Unheard, InSubmit
  <2> QED
    BY <1>1, <2>3, <2>4
       DEF Push, Service!Accept, Service!MayEnter, Active, Finished, Refused
<1>2. ASSUME NEW t \in Tasks, task[t] \in {"new", "woken"},
             task[t] = "new" => phase = "open", phase' = phase,
             task' = [task EXCEPT ![t] = "inline"], queue' = queue
      PROVE  Service!StartByCaller(t)
  <2>1. /\ Active' = Active \cup {t} /\ Finished' = Finished /\ Refused' = Refused
        /\ InSubmit' = InSubmit \ {t}
    BY <1>2 DEF Active, Finished, Refused, InSubmit, TypeOK
  <2>2. t \notin Service!Known /\ (phase = "open" \/ t \in InSubmit)
    BY <1>2, UnheardUnknown DEF Unheard, InSubmit
  <2> QED
    BY <1>2, <2>1, <2>2
       DEF Service!StartByCaller, Service!MayEnter, Active, Finished, Refused
<1>3. ASSUME NEW t \in Tasks, t \in Active, task' = [task EXCEPT ![t] = "done"],
             queue' = queue, phase' = phase
      PROVE  Service!Finish(t)
  <2>1. /\ Active' = Active \ {t} /\ Finished' = Finished \cup {t} /\ Refused' = Refused
        /\ InSubmit' = InSubmit
    BY <1>3 DEF Active, Finished, Refused, InSubmit, TypeOK
  <2> QED
    BY <1>3, <2>1 DEF Service!Finish, Active, Finished, Refused
<1>4. ASSUME NEW t \in Tasks, Submitter(t)
      PROVE  \/ UNCHANGED Service!svars
             \/ Service!Enter(t) \/ Service!Accept(t) \/ Service!Refuse(t)
             \/ Service!StartByCaller(t) \/ Service!Finish(t)
  <2>1. CASE SubmitRefused(t)
    <3>1. /\ Active' = Active /\ Finished' = Finished /\ Refused' = Refused \cup {t}
          /\ InSubmit' = InSubmit
      BY <2>1 DEF SubmitRefused, Active, Finished, Refused, InSubmit, TypeOK
    <3>2. t \notin Service!Known \cup InSubmit
      BY <2>1, UnheardUnknown DEF SubmitRefused, Unheard, InSubmit
    <3> QED
      BY <2>1, <3>1, <3>2 DEF SubmitRefused, pool, Service!Refuse, Active, Finished, Refused
  <2>2. CASE SubmitQueued(t)
    BY <1>1, <2>2 DEF SubmitQueued, pool
  <2>3. CASE SubmitInline(t)
    BY <1>2, <2>3 DEF SubmitInline, pool
  <2>4. CASE SubmitGrow(t)
    <3>1. \E wnext : Broadcast(wnext, [task EXCEPT ![t] = "waiting"])
      BY <2>4 DEF SubmitGrow
    <3>2. \A u \in Tasks : task'[u] = IF task[u] = "waiting" THEN "woken"
                                      ELSE [task EXCEPT ![t] = "waiting"][u]
      BY <3>1 DEF Broadcast, Wake, Waiting
    <3>3. /\ Active' = Active /\ Finished' = Finished /\ Refused' = Refused
          /\ InSubmit' = InSubmit \cup {t}
      BY <2>4, <3>2 DEF SubmitGrow, Active, Finished, Refused, InSubmit, TypeOK
    <3>4. t \notin Service!Known \cup InSubmit
      BY <2>4, UnheardUnknown DEF SubmitGrow, Unheard, InSubmit
    <3> QED
      BY <2>4, <3>3, <3>4 DEF SubmitGrow, Service!Enter, Active, Finished, Refused
  <2>5. CASE SubmitTimeout(t)
    BY <2>5, Stutter DEF SubmitTimeout, pool, InSubmit, TypeOK
  <2>6. CASE SubmitResume(t)
    <3>1. task[t] = "woken" /\ phase' = phase
      BY <2>6 DEF SubmitResume, pool
    <3>2. CASE Push(t)
      BY <1>1, <3>1, <3>2
    <3>3. CASE task' = [task EXCEPT ![t] = "inline"] /\ queue' = queue
      BY <1>2, <3>1, <3>3
    <3>4. CASE task' = [task EXCEPT ![t] = "waiting"] /\ queue' = queue
      BY <3>1, <3>4, Stutter DEF InSubmit, TypeOK
    <3> QED
      BY <2>6, <3>2, <3>3, <3>4 DEF SubmitResume
  <2>7. CASE InlineDone(t)
    BY <1>3, <2>7 DEF InlineDone, Active, pool
  <2> QED
    BY <1>4, <2>1, <2>2, <2>3, <2>4, <2>5, <2>6, <2>7 DEF Submitter
<1>5. ASSUME NEW w \in Threads, WorkerPop(w) PROVE Service!Start
  <2>1. Head(queue) \in Tasks /\ task[Head(queue)] \in Accepted
    BY <1>5 DEF WorkerPop, QueueInv, TypeOK
  <2>2. /\ Active' = Active \cup {Head(queue)} /\ Finished' = Finished /\ Refused' = Refused
        /\ InSubmit' = InSubmit
    BY <1>5, <2>1 DEF WorkerPop, Active, Finished, Refused, InSubmit, Accepted, TypeOK
  <2> QED
    BY <1>5, <2>2 DEF WorkerPop, pool, Service!Start, Active, Finished, Refused
<1>6. ASSUME NEW w \in Threads, WorkerFinish(w) PROVE \E t \in Tasks : Service!Finish(t)
  <2>1. job[w] \in Tasks /\ job[w] \in Active
    BY <1>6 DEF WorkerFinish, JobInv, Active, TypeOK
  <2> QED
    BY <1>3, <1>6, <2>1 DEF WorkerFinish, pool
<1>7. ASSUME NEW w \in Threads,
             \/ WorkerStop(w) \/ WorkerRetire(w) \/ WorkerWait(w) \/ WorkerTimeout(w)
             \/ SpuriousWakeup(w) \/ ShutdownJoin(w)
      PROVE  UNCHANGED Service!svars
  BY <1>7, Stutter DEF WorkerStop, WorkerRetire, WorkerWait, WorkerTimeout, SpuriousWakeup,
                       ShutdownJoin, pool
<1>8. ASSUME Broadcast(wstate, task), queue' = queue
      PROVE  \A u \in Tasks : task'[u] = task[u] \/ (u \in InSubmit /\ u \in InSubmit')
  BY <1>8 DEF Broadcast, Wake, Waiting, InSubmit, TypeOK
<1>9. ASSUME NEW wait \in WaitModes, ShutdownBegin(wait) PROVE Service!Close
  <2>1. Active' = Active /\ Finished' = Finished /\ Refused' = Refused /\ InSubmit' = InSubmit
    BY <1>8, <1>9 DEF ShutdownBegin, Active, Finished, Refused, InSubmit
  <2> QED
    BY <1>9, <2>1 DEF ShutdownBegin, Service!Close, Active, Finished, Refused
<1>10. CASE ShutdownDrain
  BY <1>8, <1>10, Stutter DEF ShutdownDrain
<1>11. CASE ShutdownFree \/ UNCHANGED vars
  BY <1>11, Stutter DEF ShutdownFree, vars
<1> QED
  BY <1>4, <1>5, <1>6, <1>7, <1>9, <1>10, <1>11
     DEF Next, Worker, Shutdown, Freed, Service!SNext

\* The pool implements TaskService: an accepted task starts once, in the order of
\* acceptance, and what is accepted after shutdown began (thread_pool.c:208) comes
\* from a call of submit that was waiting for room at that moment.
THEOREM PoolServes == Spec => ServiceSpec
<1>1. Init => Service!SInit
  BY ServiceInit
<1>2. IInv /\ [Next]_vars => [Service!SNext]_(Service!svars)
  BY ServiceStep
<1> QED
  BY <1>1, <1>2, Invariance, PTL DEF Spec, ServiceSpec, Service!SSpec
=============================================================================
