--------------------------- MODULE ClientRequests ---------------------------
(***************************************************************************)
(* Requests and responses in stack/src/client/client.c: threads that make  *)
(* a request and wait for its response, the MQTT reader thread that hands  *)
(* messages to ncl_client_on_message, and the response cache between them  *)
(* (ncl_cache in thread_pool.c).  Two locks: client->mutex, under which    *)
(* callers look and wait, and the cache's own, under which single cache    *)
(* operations run.  The reader puts without client->mutex.                 *)
(***************************************************************************)
EXTENDS Naturals, FiniteSets

CONSTANTS
    Requests,     \* one element per call of ncl_client_do_request
    Kind,         \* which function made the call
    FromHandler,  \* those an event handler makes, on the reader thread
    Patient,      \* those whose timeout_ms is longer than the device takes
    NoRequest

Kinds == {"query", "probe", "probe_set", "ping"}  \* query stands for set and method too

ASSUME RequestsAssumption ==
    /\ Kind \in [Requests -> Kinds]
    /\ FromHandler \subseteq Requests
    /\ Patient \subseteq Requests
    /\ NoRequest \notin Requests

VARIABLES
    cache,      \* client->message_map: the request each entry answers, by key
    expired,    \* the keys whose entry is older than the TTL
    pc,         \* where each request stands
    got,        \* the response it returned, named by the request it answers
    result,     \* what it returned
    holder,     \* the thread that holds client->mutex across two actions
    reader,     \* what the reader thread is doing
    requested,  \* requests on their way to the device
    answers,    \* responses on their way back, in any order
    in_time     \* requests whose response was put before their deadline

rvars == <<pc, got, result>>
wire  == <<requested, answers>>
vars  == <<cache, expired, rvars, holder, reader, wire, in_time>>

-----------------------------------------------------------------------------
\* The entry that ncl_client_on_message makes for the response to r: probe
\* responses, of both kinds, under their topic, all others under their "@id".
ResponseKey(r) ==
    CASE Kind[r] = "probe"     -> [topic |-> "Probe/Query/Response", id |-> NoRequest]
      [] Kind[r] = "probe_set" -> [topic |-> "Probe/Set/Response", id |-> NoRequest]
      [] OTHER                 -> [topic |-> "", id |-> r]

\* The key the caller waits for: the response topic for a probe, else the "@id".
Key(r) ==
    IF Kind[r] = "probe" THEN [topic |-> "Probe/Query/Response", id |-> NoRequest]
                         ELSE [topic |-> "", id |-> r]

Keys == {ResponseKey(r) : r \in Requests} \cup {Key(r) : r \in Requests}

\* The response topics of ncl_client_subscribe: Pong/<sn> is not one of them.
Subscribed(r) == Kind[r] # "ping"

Present(k) == cache[k] # NoRequest /\ k \notin expired

Places  == {"start", "look", "looked", "waiting", "deadline", "take", "returned"}
\* reader: idle, broadcast (a response is put), or inside an event handler.
ReaderPlaces == {"idle", "broadcast", "handler"}

Init ==
    /\ cache = [k \in Keys |-> NoRequest]
    /\ expired = {}
    /\ pc = [r \in Requests |-> "start"]
    /\ got = [r \in Requests |-> NoRequest]
    /\ result = [r \in Requests |-> "none"]
    /\ holder = NoRequest
    /\ reader = "idle"
    /\ requested = {} /\ answers = {}
    /\ in_time = {}

-----------------------------------------------------------------------------
(* ncl_client_do_request                                                   *)

Goto(r, place) == pc' = [pc EXCEPT ![r] = place]

Return(r, rc) ==
    /\ Goto(r, "returned")
    /\ result' = [result EXCEPT ![r] = rc]

\* A handler makes its call, if any, while the reader is inside it.
Publish(r) ==
    /\ pc[r] = "start"
    /\ r \in FromHandler => reader = "handler"
    /\ \/ Goto(r, "look") /\ requested' = requested \cup {r} /\ UNCHANGED result
       \/ Return(r, "IO") /\ UNCHANGED requested
    /\ UNCHANGED <<cache, expired, got, holder, reader, answers, in_time>>

\* ncl_cache_get, which drops the entry if it has expired.
Look(r) ==
    /\ pc[r] \in {"look", "deadline"}
    /\ holder = NoRequest
    /\ \/ Present(Key(r)) /\ Goto(r, "take") /\ UNCHANGED <<result, holder>>
       \/ /\ ~Present(Key(r)) /\ pc[r] = "look"
          /\ Goto(r, "looked")
          /\ holder' = r
          /\ UNCHANGED result
       \/ /\ ~Present(Key(r)) /\ pc[r] = "deadline"
          /\ Return(r, "TIMEOUT")
          /\ UNCHANGED holder
    /\ cache' = [cache EXCEPT ![Key(r)] = IF Present(Key(r)) THEN @ ELSE NoRequest]
    /\ expired' = expired \ {Key(r)}
    /\ UNCHANGED <<got, reader, wire, in_time>>

\* ncl_cond_wait_timeout releases the mutex and blocks.
Wait(r) ==
    /\ pc[r] = "looked"
    /\ Goto(r, "waiting")
    /\ holder' = NoRequest
    /\ UNCHANGED <<cache, expired, got, result, reader, wire, in_time>>

\* Mistake: the caller returns on the deadline, without another look.
DeadlineNoLook(r) ==
    /\ pc[r] \in {"look", "waiting"} /\ r \notin Patient
    /\ Return(r, "TIMEOUT")
    /\ UNCHANGED <<cache, expired, got, holder, reader, wire, in_time>>

\* timeout_ms elapses; the cache is looked at once more.
Deadline(r) ==
    /\ pc[r] \in {"look", "waiting"}
    /\ r \notin Patient
    /\ Goto(r, "deadline")
    /\ UNCHANGED <<cache, expired, got, result, holder, reader, wire, in_time>>

\* ncl_client_take_response: between the look and this the entry may have gone.
Take(r) ==
    /\ pc[r] = "take" /\ holder = NoRequest
    /\ \/ /\ Present(Key(r))
          /\ Return(r, "OK")
          /\ got' = [got EXCEPT ![r] = cache[Key(r)]]
       \/ ~Present(Key(r)) /\ Return(r, "TIMEOUT") /\ UNCHANGED got
    /\ cache' = [cache EXCEPT ![Key(r)] = NoRequest]
    /\ expired' = expired \ {Key(r)}
    /\ UNCHANGED <<holder, reader, wire, in_time>>

-----------------------------------------------------------------------------
(* The reader thread: ncl_client_on_message                                *)

Before(r) == pc[r] \in {"look", "looked", "waiting"}

\* Mistake: responses of every kind are filed under their topic.
PutByKind(r) ==
    LET k == CHOOSE k \in Keys : \E s \in Requests : k = ResponseKey(s) /\ Kind[s] = Kind[r]
    IN  /\ cache' = [cache EXCEPT ![k] = r]
        /\ expired' = expired \ {k}

\* ncl_cache_put: a new entry, or a new value for an old one.
Put(r) ==
    /\ cache' = [cache EXCEPT ![ResponseKey(r)] = r]
    /\ expired' = expired \ {ResponseKey(r)}

Deliver(r) ==
    /\ reader = "idle"
    /\ r \in answers /\ Subscribed(r)
    /\ answers' = answers \ {r}
    /\ Put(r)
    /\ in_time' = IF Before(r) THEN in_time \cup {r} ELSE in_time
    /\ reader' = "broadcast"
    /\ UNCHANGED <<rvars, holder, requested>>

\* Mistake: the condition is signalled without the mutex.
BroadcastUnlocked ==
    /\ reader = "broadcast"
    /\ pc' = [r \in Requests |-> IF pc[r] = "waiting" THEN "look" ELSE pc[r]]
    /\ reader' = "idle"
    /\ UNCHANGED <<cache, expired, got, result, holder, wire, in_time>>

\* Mistake: a caller that is woken looks once, and does not wait again.
BroadcastOnce ==
    /\ reader = "broadcast" /\ holder = NoRequest
    /\ pc' = [r \in Requests |-> IF pc[r] = "waiting" THEN "deadline" ELSE pc[r]]
    /\ reader' = "idle"
    /\ UNCHANGED <<cache, expired, got, result, holder, wire, in_time>>

Broadcast ==
    /\ reader = "broadcast" /\ holder = NoRequest
    /\ pc' = [r \in Requests |-> IF pc[r] = "waiting" THEN "look" ELSE pc[r]]
    /\ reader' = "idle"
    /\ UNCHANGED <<cache, expired, got, result, holder, wire, in_time>>

\* An event arrives; its handler runs on this thread until it returns.
Event ==
    /\ reader = "idle" /\ \E r \in FromHandler : pc[r] = "start"
    /\ reader' = "handler"
    /\ UNCHANGED <<cache, expired, rvars, holder, wire, in_time>>

EventDone ==
    /\ reader = "handler"
    /\ \A r \in FromHandler : pc[r] \in {"start", "returned"}
    /\ \E r \in FromHandler : pc[r] = "returned"
    /\ reader' = "idle"
    /\ UNCHANGED <<cache, expired, rvars, holder, wire, in_time>>

-----------------------------------------------------------------------------
(* The device, which may never answer, and time                            *)

Answer(r) ==
    /\ r \in requested
    /\ requested' = requested \ {r}
    /\ answers' = answers \cup {r}
    /\ UNCHANGED <<cache, expired, rvars, holder, reader, in_time>>

\* Five minutes pass: long after a caller awake for this key has taken it.
Expire(k) ==
    /\ Present(k)
    /\ reader # "broadcast"
    /\ \A r \in Requests : Key(r) = k => pc[r] \in {"start", "returned"}
    /\ expired' = expired \cup {k}
    /\ UNCHANGED <<cache, rvars, holder, reader, wire, in_time>>

Caller(r) == Publish(r) \/ Look(r) \/ Wait(r) \/ Deadline(r) \/ Take(r)
Reader    == (\E r \in Requests : Deliver(r)) \/ Broadcast \/ Event \/ EventDone

Rest ==
    /\ \A r \in Requests : pc[r] = "returned"
    /\ UNCHANGED vars

Next ==
    \/ \E r \in Requests : Caller(r) \/ Answer(r)
    \/ Reader
    \/ \E k \in Keys : Expire(k)
    \/ Rest

Spec == Init /\ [][Next]_vars

\* Callers run, their deadlines pass, and so does the reader; the device answers
\* the patient requests, a response that has been sent is read, a handler goes on.
FairSpec ==
    /\ Spec
    /\ \A r \in Requests : WF_vars(Look(r) \/ Wait(r) \/ Deadline(r) \/ Take(r))
    /\ WF_vars((\E r \in Requests : Deliver(r)) \/ Broadcast \/ EventDone)
    /\ \A r \in Patient : WF_vars(Answer(r))
    /\ \A r \in FromHandler : WF_vars(Publish(r))

-----------------------------------------------------------------------------
(* Properties                                                              *)

\* The values every variable may take.
TypeOK ==
    /\ cache \in [Keys -> Requests \cup {NoRequest}]
    /\ expired \subseteq {k \in Keys : cache[k] # NoRequest}
    /\ pc \in [Requests -> Places]
    /\ got \in [Requests -> Requests \cup {NoRequest}]
    /\ result \in [Requests -> {"none", "OK", "IO", "TIMEOUT"}]
    /\ holder \in Requests \cup {NoRequest}
    /\ reader \in ReaderPlaces
    /\ requested \subseteq Requests /\ answers \subseteq Requests
    /\ in_time \subseteq Requests

\* "everything else by @id": a request other than a probe never returns the
\* response to another request, however late that one arrives.
OwnAnswer ==
    \A r \in Requests : Kind[r] # "probe" /\ got[r] # NoRequest => got[r] = r

\* Each response is handed to one caller, who frees it: also when several probes
\* wait for the same topic, and all of them have seen it in the cache.
AnswerTakenOnce ==
    \A r, s \in Requests : got[r] = got[s] /\ got[r] # NoRequest => r = s

\* Whatever shares the cache and whatever arrives late, a caller gets a response
\* of its own and nobody else gets it too.
AnswersSound == OwnAnswer /\ AnswerTakenOnce

\* No caller sleeps next to a response it waits for: the broadcast is under the
\* mutex under which the caller looked.
AnswerWakesCaller ==
    \A r \in Requests :
        pc[r] = "waiting" /\ Present(Key(r)) => reader = "broadcast"

\* A response put before the deadline is not missed, and a caller who is alone
\* with its key returns it.
AnsweredInTime ==
    \A r \in in_time : (\A s \in Requests : Key(s) = Key(r) => s = r) => result[r] # "TIMEOUT"

\* Every request function "stores the response in *out": a request that is
\* published and answered, with all the time it needs, returns a response.
AnsweredReturns ==
    \A r \in Patient : pc[r] = "look" ~> result[r] = "OK"
=============================================================================
