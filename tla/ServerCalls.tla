---------------------------- MODULE ServerCalls ----------------------------
(***************************************************************************)
(* Requests on the device side (stack/src/server/server.c): the MQTT reader*)
(* thread hands them to ncl_server_on_message, which submits them to the   *)
(* shared thread pool; an asynchronous method call is answered at once with*)
(* a handle and its method runs as a second task of the pool; Status and   *)
(* Result requests with that handle are answered from server->method_tasks.*)
(* The pool is its abstract specification, TaskService, which ThreadPool   *)
(* implements.  Whoever submits first asks ncl_thread_service() for it,    *)
(* under the mutex that ncl_thread_service_shutdown holds until the last   *)
(* worker has been joined.  Both that and ncl_server_free may be called at *)
(* any time.  The names shared with ClientRequests, the other side, differ.*)
(***************************************************************************)
EXTENDS Naturals, Sequences, SequencesExt

CONSTANTS
    Calls,      \* asynchronous Method/Call requests, each naming its handle
    Statuses,   \* Method/Status requests
    Results,    \* Method/Result requests
    Of,         \* the call whose handle each of these two carries
    Nobody

AllRequests == Calls \cup Statuses \cup Results
Method(c) == [method |-> c]
Jobs == AllRequests \cup {Method(c) : c \in Calls}

ASSUME CallsAssumption ==
    /\ Of \in [Statuses \cup Results -> Calls]
    /\ Calls \cap (Statuses \cup Results) = {} /\ Statuses \cap Results = {}
    /\ Nobody \notin AllRequests
    /\ \A c \in Calls : Method(c) \notin AllRequests

VARIABLES
    open, inside, pending, active, finished, refused,  \* the pool, as in TaskService
    step,        \* where each request stands
    on_reader,   \* the request that runs on the MQTT reader thread
    method,      \* where the method of each call stands
    table,       \* server->method_tasks
    stored,      \* task->finished
    failed,      \* those of stored whose task->rc is not NCL_OK
    reported,    \* task->status set by ncl_server_report_method_progress
    abandoned,   \* task->abandoned
    released,    \* tasks given to ncl_method_task_free
    reply,       \* the answer to each request
    handed,      \* the calls whose answer, with the handle, has reached the client
    phase,       \* up, freeing (inside ncl_server_free), freed
    swept,       \* ncl_server_free: the loop index
    doomed,      \* and the task it has seen unfinished, not yet abandoned
    shutdown,    \* of the service: no, closing (with the mutex), closed, renewed
    undefined    \* memory was used after it had been released

service == <<open, inside, pending, active, finished, refused>>
tasks   == <<table, stored, failed, reported, abandoned, released>>
freeing == <<phase, swept, doomed, shutdown>>
server_vars == <<service, step, on_reader, method, tasks, reply, handed, freeing, undefined>>

Pool == INSTANCE TaskService WITH Tasks <- Jobs

(* A request: asking for the service, then offered to the pool (maybe      *)
(* waiting inside submit), queued, at work; a call that is registered asks *)
(* for the service again to submit its method.  Late is what the reader has*)
(* queued after the shutdown began: no worker may be left for it.  What a  *)
(* worker queues is not: the worker itself looks at the queue afterwards.  *)
Steps == {"unsent", "inbox", "asking", "offered", "queued", "late", "dispatch",
          "registered", "submitting", "inline", "answer", "done"}
Accepted(r) == IF open \/ r # on_reader THEN "queued" ELSE "late"
Replies == {"none", "HANDLE", "NOT_FOUND", "PENDING", "FINISHED", "ERROR", "EXECUTING", "STOPPED"}

Known(c)   == c \in ToSet(table)
HasMutex   == phase # "freed"
HasMethods == phase = "up"

\* A search of the table would use the destroyed mutex, or find a freed task.
Unsafe(c) == ~HasMutex \/ (Known(c) /\ c \in released)

ServerInit ==
    /\ Pool!SInit
    /\ step = [r \in AllRequests |-> "unsent"]
    /\ on_reader = Nobody
    /\ method = [c \in Calls |-> "none"]
    /\ table = <<>> /\ stored = {} /\ failed = {}
    /\ reported = {} /\ abandoned = {} /\ released = {}
    /\ reply = [r \in AllRequests |-> "none"]
    /\ handed = {}
    /\ phase = "up" /\ swept = 0 /\ doomed = Nobody /\ shutdown = "no"
    /\ undefined = FALSE

StepTo(r, s)     == step' = [step EXCEPT ![r] = s]
AnswerWith(r, a) == reply' = [reply EXCEPT ![r] = a] /\ StepTo(r, "answer")

\* Something that is gone has been used: nothing can be said of what follows.
Undefined ==
    /\ undefined' = TRUE
    /\ UNCHANGED <<service, step, on_reader, method, tasks, reply, handed, freeing>>

\* ncl_method_task_free
Release(c) == released' = released \cup {c}

\* ncl_server_unlink_task_locked
Unlink(c) == table' = RemoveAt(table, CHOOSE i \in DOMAIN table : table[i] = c)

-----------------------------------------------------------------------------
(* A request arrives                                                       *)

\* The client knows the handle from the answer to its call.
Send(r) ==
    /\ step[r] = "unsent"
    /\ r \notin Calls => Of[r] \in handed /\ reply[Of[r]] = "HANDLE"
    /\ StepTo(r, "inbox")
    /\ UNCHANGED <<service, on_reader, method, tasks, reply, handed, freeing, undefined>>

\* The reader thread enters ncl_server_on_message.
Receive(r) ==
    /\ step[r] = "inbox" /\ on_reader = Nobody
    /\ StepTo(r, "asking") /\ on_reader' = r
    /\ UNCHANGED <<service, method, tasks, reply, handed, freeing, undefined>>

\* ncl_thread_service, for a request or for the method of a call: not while the
\* shutdown holds the mutex; after it a new pool is made.
GetService(r) ==
    /\ step[r] \in {"asking", "registered"}
    /\ shutdown # "closing"
    /\ StepTo(r, IF step[r] = "asking" THEN "offered" ELSE "submitting")
    /\ open' = TRUE
    /\ shutdown' = IF shutdown = "no" THEN "no" ELSE "renewed"
    /\ UNCHANGED <<inside, pending, active, finished, refused, on_reader, method, tasks,
                   reply, handed, phase, swept, doomed, undefined>>

\* ncl_thread_pool_submit of a request.  A saturated pool may run it on this
\* thread; one that closes refuses it, and it is run here too.
SubmitRequest(r) ==
    /\ step[r] = "offered"
    /\ \/ /\ shutdown # "closed"
          /\ \/ Pool!Enter(r) /\ UNCHANGED <<step, on_reader>>
             \/ Pool!Accept(r) /\ StepTo(r, Accepted(r)) /\ on_reader' = Nobody
             \/ /\ Pool!StartByCaller(r) \/ Pool!Refuse(r)
                /\ StepTo(r, "dispatch") /\ UNCHANGED on_reader
          /\ UNCHANGED <<method, tasks, reply, handed, freeing, undefined>>
       \/ shutdown = "closed" /\ Undefined

\* A worker of the pool starts a request.
StartRequest ==
    /\ Pool!Start
    /\ Head(pending) \in AllRequests
    /\ StepTo(Head(pending), "dispatch")
    /\ UNCHANGED <<on_reader, method, tasks, reply, handed, freeing, undefined>>

\* A worker starts a method: the binding is looked at first.
StartMethod ==
    /\ pending # <<>> /\ Head(pending) \notin AllRequests
    /\ \/ /\ HasMethods
          /\ Pool!Start
          /\ method' = [method EXCEPT ![Head(pending).method] = "running"]
          /\ UNCHANGED <<step, on_reader, tasks, reply, handed, freeing, undefined>>
       \/ ~HasMethods /\ Undefined

-----------------------------------------------------------------------------
(* ncl_server_dispatch                                                     *)

\* ncl_server_invoke_method_call, to the end of its critical section: no such
\* method (or no memory), or a task in the table.
Register(c) ==
    /\ step[c] = "dispatch"
    /\ \/ /\ HasMethods
          /\ AnswerWith(c, "NOT_FOUND")
          /\ UNCHANGED <<service, on_reader, method, tasks, handed, freeing, undefined>>
       \/ /\ HasMethods
          /\ table' = Append(table, c)
          /\ StepTo(c, "registered")
          /\ UNCHANGED <<service, on_reader, method, stored, failed, reported, abandoned,
                         released, reply, handed, freeing, undefined>>
       \/ ~HasMethods /\ Undefined

\* Mistake: what submit returns is not looked at, and a refused method never runs.
SubmitUnheeded(c) ==
    /\ step[c] = "submitting" /\ shutdown # "closed"
    /\ \/ /\ Pool!Accept(Method(c))
          /\ method' = [method EXCEPT ![c] = Accepted(c)]
       \/ Pool!Refuse(Method(c)) /\ UNCHANGED method
    /\ AnswerWith(c, "HANDLE")
    /\ UNCHANGED <<on_reader, tasks, handed, freeing, undefined>>

\* The method goes to the pool; a saturated or closing one runs it right here.
SubmitMethod(c) ==
    /\ step[c] = "submitting"
    /\ \/ /\ shutdown # "closed"
          /\ \/ Pool!Enter(Method(c)) /\ UNCHANGED <<step, method, reply>>
             \/ /\ Pool!Accept(Method(c))
                /\ AnswerWith(c, "HANDLE")
                /\ method' = [method EXCEPT ![c] = Accepted(c)]
             \/ /\ Pool!StartByCaller(Method(c)) \/ Pool!Refuse(Method(c))
                /\ StepTo(c, "inline")
                /\ method' = [method EXCEPT ![c] = "running"]
                /\ UNCHANGED reply
          /\ UNCHANGED <<on_reader, tasks, handed, freeing, undefined>>
       \/ shutdown = "closed" /\ Undefined

InlineDone(c) ==
    /\ step[c] = "inline" /\ method[c] = "done"
    /\ AnswerWith(c, "HANDLE")
    /\ UNCHANGED <<service, on_reader, method, tasks, handed, freeing, undefined>>

\* Mistake: a status query that tells the call has stopped releases the handle.
StatusReleases(q) ==
    LET c == Of[q] IN
    /\ step[q] = "dispatch" /\ q \in Statuses /\ ~Unsafe(c)
    /\ AnswerWith(q, IF ~Known(c) THEN "NOT_FOUND"
                     ELSE IF c \in stored THEN "STOPPED" ELSE "EXECUTING")
    /\ table' = IF c \in stored THEN SelectSeq(table, LAMBDA d : d # c) ELSE table
    /\ UNCHANGED <<service, on_reader, method, stored, failed, reported, abandoned,
                   released, handed, freeing, undefined>>

\* ncl_server_invoke_method_status
Status(q) ==
    LET c == Of[q] IN
    /\ step[q] = "dispatch" /\ q \in Statuses
    /\ \/ /\ ~Unsafe(c)
          /\ AnswerWith(q, CASE ~Known(c)        -> "NOT_FOUND"
                             [] c \in reported   -> "EXECUTING"
                             [] c \in stored     -> "STOPPED"
                             [] OTHER            -> "EXECUTING")
          /\ UNCHANGED <<service, on_reader, method, tasks, handed, freeing, undefined>>
       \/ Unsafe(c) /\ Undefined

\* The outcome of a finished call, as Method/Result tells it.
Outcome(c) == IF c \in failed THEN "ERROR" ELSE "FINISHED"

\* Mistake: a call that has not finished is collected as well.
ResultEarly(q) ==
    LET c == Of[q] IN
    /\ step[q] = "dispatch" /\ q \in Results
    /\ \/ /\ ~Unsafe(c)
          /\ IF Known(c)
             THEN AnswerWith(q, Outcome(c)) /\ Unlink(c) /\ Release(c)
             ELSE AnswerWith(q, "NOT_FOUND") /\ UNCHANGED <<table, released>>
          /\ UNCHANGED <<service, on_reader, method, stored, failed, reported,
                         abandoned, handed, freeing, undefined>>
       \/ Unsafe(c) /\ Undefined

\* ncl_server_invoke_method_result: the first query after the call finished
\* delivers the outcome and releases the handle.
Result(q) ==
    LET c == Of[q] IN
    /\ step[q] = "dispatch" /\ q \in Results
    /\ \/ /\ ~Unsafe(c)
          /\ IF Known(c) /\ c \in stored
             THEN AnswerWith(q, Outcome(c)) /\ Unlink(c) /\ Release(c)
             ELSE /\ AnswerWith(q, IF Known(c) THEN "PENDING" ELSE "NOT_FOUND")
                  /\ UNCHANGED <<table, released>>
          /\ UNCHANGED <<service, on_reader, method, stored, failed, reported,
                         abandoned, handed, freeing, undefined>>
       \/ Unsafe(c) /\ Undefined

\* The job ends, in the pool or where it was run.
EndJob(j) == IF j \in active THEN Pool!Finish(j) ELSE UNCHANGED service

\* ncl_server_publish, QoS 2, and the end of ncl_server_task_run: the answer
\* reaches the client, or the publish gives up.
PublishReply(r) ==
    /\ step[r] = "answer"
    /\ \/ /\ HasMutex
          /\ handed' \in {handed, handed \cup ({r} \cap Calls)}
          /\ StepTo(r, "done")
          /\ on_reader' = IF on_reader = r THEN Nobody ELSE on_reader
          /\ EndJob(r)
          /\ UNCHANGED <<method, tasks, reply, freeing, undefined>>
       \/ ~HasMutex /\ Undefined

-----------------------------------------------------------------------------
(* The method, and whoever reports its progress                            *)

\* ncl_method_worker_run after the method has returned
MethodReturns(c) ==
    /\ method[c] = "running"
    /\ \/ /\ HasMutex /\ c \notin released
          /\ IF c \in abandoned
             THEN Release(c) /\ UNCHANGED <<stored, failed>>
             ELSE /\ stored' = stored \cup {c}
                  /\ failed' \in {failed, failed \cup {c}}
                  /\ UNCHANGED released
          /\ method' = [method EXCEPT ![c] = "done"]
          /\ EndJob(Method(c))
          /\ UNCHANGED <<step, on_reader, table, reported, abandoned, reply, handed, freeing,
                         undefined>>
       \/ (~HasMutex \/ (c \in released)) /\ Undefined

\* ncl_server_report_method_progress with status NCL_KW_STATUS_EXECUTING
Report(c) ==
    /\ phase = "up" /\ Known(c) /\ method[c] = "running"
    /\ c \notin reported
    /\ reported' = reported \cup {c}
    /\ UNCHANGED <<service, step, on_reader, method, table, stored, failed, abandoned,
                   released, reply, handed, freeing, undefined>>

-----------------------------------------------------------------------------
(* ncl_server_free, which does not take server->mutex                      *)

Free ==
    /\ phase = "up"
    /\ phase' = "freeing"
    /\ UNCHANGED <<service, step, on_reader, method, tasks, reply, handed, swept, doomed,
                   shutdown, undefined>>

FreeTask ==
    /\ phase = "freeing" /\ doomed = Nobody /\ swept < Len(table)
    /\ LET c == table[swept + 1] IN
       IF c \in stored
       THEN Release(c) /\ swept' = swept + 1 /\ UNCHANGED doomed
       ELSE doomed' = c /\ UNCHANGED <<swept, released>>
    /\ UNCHANGED <<service, step, on_reader, method, table, stored, failed, reported,
                   abandoned, reply, handed, phase, shutdown, undefined>>

\* The worker may have stored its outcome meanwhile, or have been collected.
Abandon ==
    /\ doomed # Nobody
    /\ \/ /\ doomed \notin released
          /\ abandoned' = abandoned \cup {doomed}
          /\ swept' = swept + 1 /\ doomed' = Nobody
          /\ UNCHANGED <<service, step, on_reader, method, table, stored, failed, reported,
                         released, reply, handed, phase, shutdown, undefined>>
       \/ doomed \in released /\ Undefined

FreeDone ==
    /\ phase = "freeing" /\ doomed = Nobody /\ swept >= Len(table)
    /\ phase' = "freed"
    /\ UNCHANGED <<service, step, on_reader, method, tasks, reply, handed, swept, doomed,
                   shutdown, undefined>>

-----------------------------------------------------------------------------
(* ncl_thread_service_shutdown, by a thread that is not the reader          *)

\* It takes the mutex of the service and starts the shutdown of the pool.  It is
\* called once (ncl_thread.h:58).
ClosePool ==
    /\ shutdown = "no"
    /\ Pool!Close
    /\ shutdown' = "closing"
    /\ UNCHANGED <<step, on_reader, method, tasks, reply, handed, phase, swept, doomed,
                   undefined>>

\* The jobs that workers of the pool are running: not what runs on the reader,
\* nor a method inside its call.
AtWork ==
    {r \in AllRequests \cap active : r # on_reader}
    \cup {Method(c) : c \in {d \in Calls : Method(d) \in active /\ step[d] # "inline"}}

Late(j) == IF j \in AllRequests THEN step[j] = "late" ELSE method[j.method] = "late"

\* A job that some worker is going to look for.
Awaited == \E i \in DOMAIN pending : ~Late(pending[i])

\* The queue has been drained and the workers joined; late jobs may be left and
\* are lost.  Pool, mutex and condition are released, and the mutex of the
\* service is destroyed, whoever may be waiting for one of them.
CloseEnds ==
    /\ shutdown = "closing"
    /\ AtWork = {} /\ ~Awaited
    /\ \/ /\ inside = {}
          /\ shutdown' = "closed" /\ pending' = <<>>
          /\ UNCHANGED <<open, inside, active, finished, refused, step, on_reader, method,
                         tasks, reply, handed, phase, swept, doomed, undefined>>
       \/ /\ inside # {} \/ \E r \in AllRequests : step[r] \in {"asking", "registered"}
          /\ Undefined

Work(r) ==
    \/ GetService(r) \/ SubmitRequest(r)
    \/ r \in Calls /\ (Register(r) \/ SubmitMethod(r) \/ InlineDone(r))
    \/ r \notin Calls /\ (Status(r) \/ Result(r))
    \/ PublishReply(r)

(* A shutdown that does not end: a worker that wants the mutex of the       *)
(* service to submit a method waits for the shutdown, which waits for it to *)
(* be joined; or a late job is left to a pool whose workers have gone.      *)
Stuck ==
    /\ shutdown = "closing"
    /\ \/ \E c \in Calls : step[c] = "registered" /\ c # on_reader
       \/ AtWork = {} /\ pending # <<>> /\ ~Awaited

ServerRest ==
    /\ undefined \/ Stuck \/ \A r \in AllRequests : step[r] \in {"unsent", "late", "done"}
    /\ UNCHANGED server_vars

ServerNext ==
    \/ /\ ~undefined
       /\ \/ \E r \in AllRequests : Send(r) \/ Receive(r) \/ Work(r)
          \/ StartRequest \/ StartMethod
          \/ \E c \in Calls : MethodReturns(c) \/ Report(c)
          \/ Free \/ FreeTask \/ Abandon \/ FreeDone \/ ClosePool \/ CloseEnds
    \/ ServerRest

ServerSpec == ServerInit /\ [][ServerNext]_server_vars

\* The reader and the pool run, a method returns, a publish ends.  A late job is
\* not sure to be run, nor a shutdown to end that waits for one (see ThreadPool).
ServerFairSpec ==
    /\ ServerSpec
    /\ WF_server_vars(~undefined /\ \E r \in AllRequests : Receive(r))
    /\ \A r \in AllRequests : WF_server_vars(~undefined /\ Work(r))
    /\ WF_server_vars(~undefined /\ Awaited /\ (StartRequest \/ StartMethod))
    /\ WF_server_vars(~undefined /\ pending = <<>> /\ CloseEnds)
    /\ \A c \in Calls : WF_server_vars(~undefined /\ MethodReturns(c))

-----------------------------------------------------------------------------
(* Properties                                                              *)

\* The values every variable may take.
ServerTypeOK ==
    /\ open \in BOOLEAN
    /\ pending \in Seq(Jobs) /\ inside \cup active \cup finished \cup refused \subseteq Jobs
    /\ step \in [AllRequests -> Steps]
    /\ on_reader \in AllRequests \cup {Nobody}
    /\ method \in [Calls -> {"none", "queued", "late", "running", "done"}]
    /\ table \in Seq(Calls)
    /\ failed \subseteq stored
    /\ stored \cup reported \cup abandoned \cup released \subseteq Calls
    /\ reply \in [AllRequests -> Replies]
    /\ handed \subseteq Calls
    /\ phase \in {"up", "freeing", "freed"}
    /\ swept \in Nat /\ doomed \in Calls \cup {Nobody}
    /\ shutdown \in {"no", "closing", "closed", "renewed"}
    /\ undefined \in BOOLEAN

\* "the first query after it finished delivers the outcome and releases the
\* handle": of several concurrent queries at most one is given the outcome.
OutcomeOnce ==
    \A p, q \in Results :
        Of[p] = Of[q] /\ {reply[p], reply[q]} \subseteq {"FINISHED", "ERROR"} => p = q

\* "While it is still running the answer is code=PENDING": an outcome that is
\* told is the one the method returned.
OutcomeIsTheMethods ==
    \A q \in Results :
        reply[q] \in {"FINISHED", "ERROR"} =>
            method[Of[q]] = "done" /\ reply[q] = Outcome(Of[q])

\* The answers to result queries are true: one caller is told the outcome, after
\* the method returned, and it is the method's.
OutcomeSound == OutcomeOnce /\ OutcomeIsTheMethods

\* A handle the client has been given works until its outcome is collected,
\* though the answer, the method and the queries run on different threads.
HandleWorks ==
    \A q \in Statuses \cup Results :
        reply[q] = "NOT_FOUND" =>
            \E p \in Results : p # q /\ Of[p] = Of[q] /\ reply[p] \in {"FINISHED", "ERROR"}

\* No task is used or freed after its free, and no pool after its shutdown, while
\* the server is not being freed and the service is not shut down under it.
SafeWhileUp == undefined => phase # "up" \/ shutdown # "no"

\* A handle and its task live as long as they are of use, and not longer.
HandlesSound == ServerTypeOK /\ HandleWorks /\ SafeWhileUp

\* Where nothing is promised: the server is freed or the memory of the service
\* used after its end, or the shutdown of the service is stuck.
Over == phase # "up" \/ undefined \/ Stuck

\* Every request that arrives is answered, also when the pool runs it on the
\* reader thread, when its method runs inside it, and when it arrives while the
\* service is shut down: it then waits for the shutdown, and has a new pool.
RequestAnswered ==
    \A r \in AllRequests : step[r] = "inbox" ~> step[r] \in {"done", "late"} \/ Over

\* An asynchronous call that is entered in the table gets its outcome.
CallFinishes ==
    \A c \in Calls : Known(c) ~> method[c] \in {"done", "late"} \/ Over

\* "Shut the shared pool down": the shutdown of the service returns, though
\* requests are queued, at work and arriving meanwhile.
ShutdownEnds == shutdown = "closing" ~> shutdown # "closing" \/ undefined \/ Stuck

\* Nothing a server has accepted is left lying, neither a request nor a call, nor
\* the thread that ends the service; the one way for that is Stuck.
ServerAnswers == RequestAnswered /\ CallFinishes /\ ShutdownEnds

\* The same with no way out.  The code does not keep it: a worker that submits a
\* method while the service is shut down waits for the mutex for ever.
ServiceShutsDown == shutdown = "closing" ~> shutdown # "closing" \/ undefined

\* "the server is gone: the worker frees it": a server may be freed while the
\* method of a call is running, when nothing else is in progress.
RunningCallOutlivesServer ==
    undefined => \/ \E c \in Calls : method[c] = "queued"
                 \/ \E r \in AllRequests : step[r] \notin {"unsent", "done"}

\* "Handling must not run on the MQTT reader thread".
HandledOffReader == on_reader = Nobody
=============================================================================
