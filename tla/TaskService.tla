---------------------------- MODULE TaskService ----------------------------
(***************************************************************************)
(* What the thread pool of ncl_thread.h promises its callers, with no      *)
(* thread, lock or condition variable in sight: an accepted task is started*)
(* once, in the order of acceptance, and finishes once; a task may instead *)
(* be run by the caller; once the service is closed it accepts nothing but *)
(* from callers that were already inside, waiting for room.                *)
(***************************************************************************)
EXTENDS Sequences

CONSTANT Tasks     \* one element per call of ncl_thread_pool_submit

VARIABLES open,       \* the service still accepts work
          inside,     \* offered, the caller waits for room
          pending,    \* accepted, not started, oldest first
          active,     \* started, not finished
          finished,   \* finished
          refused     \* refused with NCL_ERR_CLOSED

svars == <<open, inside, pending, active, finished, refused>>

Pending == {pending[i] : i \in DOMAIN pending}
Known   == Pending \cup active \cup finished \cup refused

SInit ==
    /\ open = TRUE
    /\ inside = {}
    /\ pending = <<>>
    /\ active = {}
    /\ finished = {}
    /\ refused = {}

MayEnter(t) == t \notin Known /\ (open \/ t \in inside)

\* The service has no room for t now, and the caller waits.
Enter(t) ==
    /\ open
    /\ t \notin Known \cup inside
    /\ inside' = inside \cup {t}
    /\ UNCHANGED <<open, pending, active, finished, refused>>

Accept(t) ==
    /\ MayEnter(t)
    /\ inside' = inside \ {t}
    /\ pending' = Append(pending, t)
    /\ UNCHANGED <<open, active, finished, refused>>

Refuse(t) ==
    /\ ~open
    /\ t \notin Known \cup inside
    /\ refused' = refused \cup {t}
    /\ UNCHANGED <<open, inside, pending, active, finished>>

Start ==
    /\ pending # <<>>
    /\ active' = active \cup {Head(pending)}
    /\ pending' = Tail(pending)
    /\ UNCHANGED <<open, inside, finished, refused>>

\* The caller runs the task itself.
StartByCaller(t) ==
    /\ MayEnter(t)
    /\ inside' = inside \ {t}
    /\ active' = active \cup {t}
    /\ UNCHANGED <<open, pending, finished, refused>>

Finish(t) ==
    /\ t \in active
    /\ active' = active \ {t}
    /\ finished' = finished \cup {t}
    /\ UNCHANGED <<open, inside, pending, refused>>

Close ==
    /\ open
    /\ open' = FALSE
    /\ UNCHANGED <<inside, pending, active, finished, refused>>

SNext ==
    \/ Start
    \/ Close
    \/ \E t \in Tasks : \/ Enter(t)
                        \/ Accept(t)
                        \/ Refuse(t)
                        \/ StartByCaller(t)
                        \/ Finish(t)

SSpec == SInit /\ [][SNext]_svars
=============================================================================
