----------------------------- MODULE ThreadPool -----------------------------
(***************************************************************************)
(* The worker pool of stack/src/core/thread_pool.c.  One mutex and one     *)
(* condition variable are shared by the workers, by the callers of         *)
(* ncl_thread_pool_submit and by ncl_thread_pool_shutdown, so every action *)
(* below is one critical section: from taking the mutex to releasing it or *)
(* to blocking on the condition.                                           *)
(***************************************************************************)
EXTENDS Naturals, Sequences, FiniteSets

CONSTANTS
    Tasks,         \* one element per call of ncl_thread_pool_submit
    Threads,       \* the threads that can ever be started (the bound on restarts)
    NoTask,        \* "this worker is running nothing"
    CoreThreads,   \* options->core_threads
    MaxThreads,    \* options->max_threads
    Capacity,      \* options->queue_capacity
    Rounds,        \* waits of a saturated submit: 10 in the code
    StartMayFail,  \* may ncl_thread_start return NULL?
    WaitModes      \* the values of `wait' callers of shutdown pass

\* The checks of ncl_thread_pool_create.
ASSUME PoolAssumption ==
    /\ CoreThreads \in Nat
    /\ MaxThreads \in Nat \ {0}
    /\ CoreThreads <= MaxThreads
    /\ Capacity \in Nat \ {0}
    /\ Rounds \in Nat \ {0}
    /\ StartMayFail \in BOOLEAN
    /\ WaitModes \subseteq BOOLEAN
    /\ NoTask \notin Tasks
    /\ IsFiniteSet(Threads)

VARIABLES
    queue,     \* pool->queue, oldest task first
    task,      \* where each submitted call stands
    round,     \* the loop counter i of a saturated submit
    wstate,    \* where each worker thread stands
    job,       \* the task a worker is running
    workers,   \* pool->workers
    slots,     \* the threads recorded in pool->slots
    joined,    \* those whose slot says joined
    detached,  \* threads started when every slot was taken
    phase      \* "open", then shutdown's progress

vars == <<queue, task, round, wstate, job, workers, slots, joined, detached, phase>>
pool == <<workers, slots, joined, detached, phase>>

-----------------------------------------------------------------------------
(* A call of submit: new, waiting (blocked on the condition because the    *)
(* queue is full), woken (that wait has returned), queued, running (on a   *)
(* worker), inline (on the calling thread), done, or refused.  A call that *)
(* was waiting for room when shutdown began does not look at shutting_down *)
(* again: what it queues then is "late".  The code keeps no such mark; it  *)
(* is history, for the properties.                                         *)
TaskStates ==
    {"new", "waiting", "woken", "queued", "late", "running", "inline", "done", "refused"}
Accepted == {"queued", "late"}

(* A thread: unborn, ready (about to take the mutex), idle (blocked on the *)
(* condition), woken / expired (the wait returned because of a signal / of *)
(* the idle timeout), busy (inside task.fn), exited.                       *)
WorkerStates == {"unborn", "ready", "idle", "woken", "expired", "busy", "exited"}

Phases == {"open", "draining", "joining", "freed"}

shutting_down == phase # "open"
Idle     == {w \in Threads : wstate[w] = "idle"}
Waiting  == {t \in Tasks : task[t] = "waiting"}
Unborn   == {w \in Threads : wstate[w] = "unborn"}
Live     == {w \in Threads : wstate[w] \notin {"unborn", "exited"}}
Full     == Len(queue) = Capacity
InSubmit == {t \in Tasks : task[t] \in {"waiting", "woken"}}   \* calls waiting for room

(* Release the waiters ws and ts of the condition, on top of the new       *)
(* states wnext and tnext the critical section has already given.          *)
Wake(ws, wnext, ts, tnext) ==
    /\ wstate' = [w \in Threads |-> IF w \in ws THEN "woken" ELSE wnext[w]]
    /\ task'   = [t \in Tasks |-> IF t \in ts THEN "woken" ELSE tnext[t]]

\* ncl_cond_signal: any one waiter, worker or submitter; lost when there is none.
Signal(tnext) ==
    \/ \E w \in Idle : Wake({w}, wstate, {}, tnext)
    \/ \E t \in {u \in Waiting : tnext[u] = "waiting"} : Wake({}, wstate, {t}, tnext)
    \/ /\ Idle = {}
       /\ {u \in Waiting : tnext[u] = "waiting"} = {}
       /\ Wake({}, wstate, {}, tnext)

\* ncl_cond_broadcast.
Broadcast(wnext, tnext) == Wake(Idle, wnext, Waiting, tnext)

-----------------------------------------------------------------------------
\* ncl_thread_pool_create has started the core workers, or those it could.
Init ==
    /\ queue = <<>>
    /\ task = [t \in Tasks |-> "new"]
    /\ round = [t \in Tasks |-> 0]
    /\ job = [w \in Threads |-> NoTask]
    /\ \E first \in SUBSET Threads :
          /\ Cardinality(first) <= CoreThreads
          /\ Cardinality(first) = CoreThreads \/ StartMayFail
          /\ wstate = [w \in Threads |-> IF w \in first THEN "ready" ELSE "unborn"]
          /\ workers = Cardinality(first)
          /\ slots = first
    /\ joined = {}
    /\ detached = {}
    /\ phase = "open"

\* Mistake: a detached thread is not counted.
RegisterDetachedUncounted(w) ==
    /\ joined' = joined
    /\ \/ /\ Cardinality(slots) < MaxThreads
          /\ slots' = slots \cup {w}
          /\ workers' = workers + 1
          /\ UNCHANGED detached
       \/ /\ Cardinality(slots) = MaxThreads
          /\ detached' = detached \cup {w}
          /\ UNCHANGED <<slots, workers>>

(* Record the fresh thread w: in a free slot or, when every slot was taken  *)
(* once, nowhere: it is detached.  ncl_pool_add_worker would first reuse    *)
(* the slot of a joined thread, but no thread is joined before shutdown and *)
(* none is started after it (WorkerAccounting), so that branch is dead.     *)
Register(w) ==
    /\ workers' = workers + 1
    /\ joined' = joined
    /\ \/ /\ Cardinality(slots) < MaxThreads
          /\ slots' = slots \cup {w}
          /\ UNCHANGED detached
       \/ /\ Cardinality(slots) = MaxThreads
          /\ detached' = detached \cup {w}
          /\ UNCHANGED slots

-----------------------------------------------------------------------------
(* ncl_thread_pool_submit                                                  *)

SubmitRefused(t) ==
    /\ phase \notin {"open", "freed"}
    /\ task[t] = "new"
    /\ task' = [task EXCEPT ![t] = "refused"]
    /\ UNCHANGED <<queue, round, wstate, job, pool>>

Push(t) ==
    /\ queue' = Append(queue, t)
    /\ Signal([task EXCEPT ![t] = IF shutting_down THEN "late" ELSE "queued"])

\* Mistake: submit does not look at shutting_down.
SubmitQueuedLate(t) ==
    /\ phase # "freed"
    /\ task[t] = "new"
    /\ ~Full
    /\ Push(t)
    /\ UNCHANGED <<round, job, pool>>

SubmitQueued(t) ==
    /\ phase = "open"
    /\ task[t] = "new"
    /\ ~Full
    /\ Push(t)
    /\ UNCHANGED <<round, job, pool>>

SubmitInline(t) ==
    /\ phase = "open"
    /\ task[t] = "new"
    /\ Full
    /\ workers >= MaxThreads
    /\ task' = [task EXCEPT ![t] = "inline"]
    /\ UNCHANGED <<queue, round, wstate, job, pool>>

\* Saturated: try to start a worker, wake everybody, wait for room.
SubmitGrow(t) ==
    /\ phase = "open"
    /\ task[t] = "new"
    /\ Full
    /\ workers < MaxThreads
    /\ \/ \E w \in Unborn :
            /\ Register(w)
            /\ Broadcast([wstate EXCEPT ![w] = "ready"], [task EXCEPT ![t] = "waiting"])
       \/ /\ StartMayFail \/ Unborn = {}
          /\ Broadcast(wstate, [task EXCEPT ![t] = "waiting"])
          /\ UNCHANGED <<workers, slots, joined, detached>>
    /\ round' = [round EXCEPT ![t] = 1]
    /\ UNCHANGED <<queue, job, phase>>

\* The 5 ms wait of a saturated submit runs out.
SubmitTimeout(t) ==
    /\ task[t] = "waiting"
    /\ task' = [task EXCEPT ![t] = "woken"]
    /\ UNCHANGED <<queue, round, wstate, job, pool>>

\* Back from a wait of the saturated path: push, run inline, or wait again.
SubmitResume(t) ==
    /\ phase # "freed"
    /\ task[t] = "woken"
    /\ \/ /\ ~Full
          /\ Push(t)
          /\ UNCHANGED round
       \/ /\ Full
          /\ round[t] = Rounds
          /\ task' = [task EXCEPT ![t] = "inline"]
          /\ UNCHANGED <<queue, round, wstate>>
       \/ /\ Full
          /\ round[t] < Rounds
          /\ task' = [task EXCEPT ![t] = "waiting"]
          /\ round' = [round EXCEPT ![t] = @ + 1]
          /\ UNCHANGED <<queue, wstate>>
    /\ UNCHANGED <<job, pool>>

\* fn(arg) on the calling thread returns; the pool is not touched.
InlineDone(t) ==
    /\ task[t] = "inline"
    /\ task' = [task EXCEPT ![t] = "done"]
    /\ UNCHANGED <<queue, round, wstate, job, pool>>

-----------------------------------------------------------------------------
(* ncl_pool_worker                                                         *)

Awake(w) == wstate[w] \in {"ready", "woken", "expired"} /\ phase # "freed"

\* ncl_pool_pop, then task.fn without the mutex.
WorkerPop(w) ==
    /\ Awake(w)
    /\ queue # <<>>
    /\ job' = [job EXCEPT ![w] = Head(queue)]
    /\ task' = [task EXCEPT ![Head(queue)] = "running"]
    /\ wstate' = [wstate EXCEPT ![w] = "busy"]
    /\ queue' = Tail(queue)
    /\ UNCHANGED <<round, pool>>

WorkerFinish(w) ==
    /\ wstate[w] = "busy"
    /\ task' = [task EXCEPT ![job[w]] = "done"]
    /\ job' = [job EXCEPT ![w] = NoTask]
    /\ wstate' = [wstate EXCEPT ![w] = "ready"]
    /\ UNCHANGED <<queue, round, pool>>

\* Mistake: shutdown is looked at before the queue.
WorkerStopEarly(w) ==
    /\ Awake(w)
    /\ shutting_down
    /\ wstate' = [wstate EXCEPT ![w] = "exited"]
    /\ UNCHANGED <<queue, task, round, job, pool>>

\* Leaving the loop on shutdown does not count the worker down.
WorkerStop(w) ==
    /\ Awake(w)
    /\ queue = <<>>
    /\ shutting_down
    /\ wstate' = [wstate EXCEPT ![w] = "exited"]
    /\ UNCHANGED <<queue, task, round, job, pool>>

\* Mistake: the core size is forgotten.
SurplusAnyway(w) == wstate[w] = "expired"

\* Idle beyond the keep-alive window and above the core size.
Surplus(w) == wstate[w] = "expired" /\ workers > CoreThreads

WorkerRetire(w) ==
    /\ Awake(w)
    /\ queue = <<>>
    /\ ~shutting_down
    /\ Surplus(w)
    /\ workers' = workers - 1
    /\ wstate' = [wstate EXCEPT ![w] = "exited"]
    /\ UNCHANGED <<queue, task, round, job, slots, joined, detached, phase>>

WorkerWait(w) ==
    /\ Awake(w)
    /\ queue = <<>>
    /\ ~shutting_down
    /\ ~Surplus(w)
    /\ wstate' = [wstate EXCEPT ![w] = "idle"]
    /\ UNCHANGED <<queue, task, round, job, pool>>

\* The idle timeout of a waiting worker runs out.
WorkerTimeout(w) ==
    /\ wstate[w] = "idle"
    /\ wstate' = [wstate EXCEPT ![w] = "expired"]
    /\ UNCHANGED <<queue, task, round, job, pool>>

\* A condition wait may return with no signal: pthread_cond_timedwait says 0.
SpuriousWakeup(w) ==
    /\ wstate[w] = "idle"
    /\ wstate' = [wstate EXCEPT ![w] = "woken"]
    /\ UNCHANGED <<queue, task, round, job, pool>>

-----------------------------------------------------------------------------
(* ncl_thread_pool_shutdown                                                *)

ShutdownBegin(wait) ==
    /\ phase = "open"
    /\ phase' = IF wait /\ queue # <<>> THEN "draining" ELSE "joining"
    /\ Broadcast(wstate, task)
    /\ UNCHANGED <<queue, round, job, workers, slots, joined, detached>>

\* One turn of the drain loop, 5 ms after the last one.
ShutdownDrain ==
    /\ phase = "draining"
    /\ phase' = IF queue # <<>> THEN "draining" ELSE "joining"
    /\ Broadcast(wstate, task)
    /\ UNCHANGED <<queue, round, job, workers, slots, joined, detached>>

ShutdownJoin(w) ==
    /\ phase = "joining"
    /\ w \in slots \ joined
    /\ wstate[w] = "exited"
    /\ joined' = joined \cup {w}
    /\ UNCHANGED <<queue, task, round, wstate, job, workers, slots, detached, phase>>

ShutdownFree ==
    /\ phase = "joining"
    /\ joined = slots
    /\ phase' = "freed"
    /\ UNCHANGED <<queue, task, round, wstate, job, workers, slots, joined, detached>>

\* Nothing uses a freed pool in a correct program; the behaviour ends here.
Freed ==
    /\ phase = "freed"
    /\ UNCHANGED vars

-----------------------------------------------------------------------------
Submitter(t) ==
    \/ SubmitRefused(t) \/ SubmitQueued(t) \/ SubmitInline(t) \/ SubmitGrow(t)
    \/ SubmitTimeout(t) \/ SubmitResume(t) \/ InlineDone(t)

Worker(w) ==
    \/ WorkerPop(w) \/ WorkerFinish(w) \/ WorkerStop(w)
    \/ WorkerRetire(w) \/ WorkerWait(w) \/ WorkerTimeout(w)

Shutdown ==
    \/ \E wait \in WaitModes : ShutdownBegin(wait)
    \/ ShutdownDrain
    \/ \E w \in Threads : ShutdownJoin(w)
    \/ ShutdownFree

Next ==
    \/ \E t \in Tasks : Submitter(t)
    \/ \E w \in Threads : Worker(w) \/ SpuriousWakeup(w)
    \/ Shutdown
    \/ Freed

Spec == Init /\ [][Next]_vars

(* Every thread that can run does run: workers, callers that are inside    *)
(* submit, a shutdown that has begun.  Task functions return.  Nobody is   *)
(* obliged to submit or to shut down.                                      *)
Fairness ==
    /\ \A w \in Threads : WF_vars(Worker(w))
    /\ \A t \in Tasks : WF_vars(SubmitTimeout(t) \/ SubmitResume(t) \/ InlineDone(t))
    /\ WF_vars(ShutdownDrain)
    /\ WF_vars(\E w \in Threads : ShutdownJoin(w))
    /\ WF_vars(ShutdownFree)

FairSpec == Spec /\ Fairness

-----------------------------------------------------------------------------
(* Properties                                                              *)

\* The values every variable may take.
TypeOK ==
    /\ queue \in Seq(Tasks)
    /\ Len(queue) <= Capacity
    /\ task \in [Tasks -> TaskStates]
    /\ round \in [Tasks -> 0..Rounds]
    /\ wstate \in [Threads -> WorkerStates]
    /\ job \in [Threads -> Tasks \cup {NoTask}]
    /\ workers \in 0..MaxThreads
    /\ slots \subseteq Threads
    /\ joined \subseteq slots
    /\ detached \subseteq Threads
    /\ phase \in Phases

\* The bookkeeping the growth and retirement decisions rely on: while the pool
\* is open, pool->workers is the number of threads inside ncl_pool_worker, and
\* every thread ever started is in exactly one of the slots or detached; no
\* slot is ever free for reuse.
WorkerAccounting ==
    /\ ~shutting_down => workers = Cardinality(Live) /\ joined = {}
    /\ slots \cap detached = {}
    /\ slots \cup detached = Threads \ Unborn

\* However many workers time out together, retirement stops at the core size
\* (the test `workers > core_threads' in ncl_pool_worker).
CoreStaffed ==
    ~StartMayFail /\ ~shutting_down => Cardinality(Live) >= CoreThreads

\* Growth and retirement decide on numbers that are true: the two together say
\* that what ncl_pool_add_worker and ncl_pool_worker count is what is running.
WorkersSound == WorkerAccounting /\ CoreStaffed

\* Shutdown frees the pool only when every task accepted before it began has
\* been run, also with wait = FALSE: a worker leaves its loop on an empty queue
\* only.  It takes a core worker to drain the queue.  A late task may be lost.
Managed == CoreThreads > 0 /\ ~StartMayFail

CleanShutdown ==
    Managed /\ phase = "freed" /\ detached = {} =>
        \A t \in Tasks : task[t] \notin {"queued", "running"}

\* The header's promise for shutdown: every worker has been joined.
JoinsEveryWorker == phase = "freed" => Live = {}

\* The header's other promise: a pool that is shutting down accepts no task.
\* The code breaks it for a call that was already waiting for room.
StopsAccepting ==
    [][shutting_down =>
         \A t \in Tasks : task'[t] \in Accepted => task[t] \in Accepted]_vars

\* What submit accepted with NCL_OK before shutdown began is run, even if it was
\* queued while every worker was asleep.  (A shutdown that forgets a detached
\* worker may free the pool first: JoinsEveryWorker is about that.)
AcceptedTaskRuns ==
    \A t \in Tasks :
        task[t] = "queued" ~> task[t] = "done" \/ (phase = "freed" /\ detached # {})

\* Shutdown returns once begun: the queue drains and every worker exits.  One
\* thing can stop it: a late task queued when every worker has left, which the
\* drain loop then waits for in vain.
Stranded == phase = "draining" /\ Live = {} /\ \E t \in Tasks : task[t] = "late"

ShutdownReturns == shutting_down ~> phase = "freed" \/ Stranded

\* The pool gets its work done, in operation and when it ends.
WorkGetsDone == AcceptedTaskRuns /\ ShutdownReturns

\* The pool is a TaskService: tasks start once, in the order of acceptance, and
\* those accepted after shutdown began were inside submit when it did.
Service == INSTANCE TaskService WITH
    open     <- phase = "open",
    inside   <- InSubmit,
    pending  <- queue,
    active   <- {t \in Tasks : task[t] \in {"running", "inline"}},
    finished <- {t \in Tasks : task[t] = "done"},
    refused  <- {t \in Tasks : task[t] = "refused"}
ServiceSpec == Service!SSpec

-----------------------------------------------------------------------------
(* The inductive invariant of the proofs in ThreadPoolProofs               *)

\* The queue holds the accepted tasks, each of them once.
QueueInv ==
    /\ \A i \in DOMAIN queue : task[queue[i]] \in Accepted
    /\ \A i, j \in DOMAIN queue : queue[i] = queue[j] => i = j
    /\ \A t \in Tasks : task[t] \in Accepted => \E i \in DOMAIN queue : queue[i] = t

\* Busy workers and running tasks correspond one to one.
JobInv ==
    /\ \A w \in Threads : wstate[w] = "busy" <=> job[w] # NoTask
    /\ \A w \in Threads : wstate[w] = "busy" => task[job[w]] = "running"
    /\ \A v, w \in Threads : job[v] = job[w] /\ job[v] # NoTask => v = w
    /\ \A t \in Tasks : task[t] = "running" => \E w \in Threads : job[w] = t

\* How far a shutdown has got.
ShutdownInv ==
    /\ \A w \in joined : wstate[w] = "exited"
    /\ phase = "freed" => joined = slots

\* Somebody is left to drain what was queued before shutdown began.
DrainInv == Managed /\ (\E t \in Tasks : task[t] = "queued") => Live # {}

\* The strengthening that every step preserves and the properties follow from.
IInv ==
    /\ TypeOK
    /\ WorkerAccounting
    /\ CoreStaffed
    /\ QueueInv
    /\ JobInv
    /\ ShutdownInv
    /\ DrainInv
=============================================================================
