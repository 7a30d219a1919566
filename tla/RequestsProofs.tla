--------------------------- MODULE RequestsProofs ---------------------------
(***************************************************************************)
(* Theorems about requests: about ClientRequests, for any requests of any  *)
(* kinds, and about ServerCalls, for any calls, queries and handles.       *)
(***************************************************************************)
EXTENDS ClientRequests, ServerCalls, SequenceTheorems, TLAPS

\* An entry of the cache answers a request whose response is filed there, and
\* so does what a caller was given: it came from the entry of its own key.
FiledRight ==
    /\ \A k \in Keys : cache[k] # NoRequest => ResponseKey(cache[k]) = k
    /\ \A r \in Requests : got[r] # NoRequest => ResponseKey(got[r]) = Key(r)

\* A response is in one place: still to be sent, on its way, in the cache, or
\* with one caller.
Filed(r) == cache[ResponseKey(r)] = r
Given(r) == \E s \in Requests : got[s] = r

InOnePlace ==
    /\ \A r \in Requests :
           /\ pc[r] = "start" => r \notin requested \cup answers /\ ~Filed(r) /\ ~Given(r)
           /\ r \in requested => r \notin answers /\ ~Filed(r) /\ ~Given(r)
           /\ r \in answers => ~Filed(r) /\ ~Given(r)
           /\ Filed(r) => ~Given(r)
    /\ AnswerTakenOnce

\* client->mutex is held across two actions only by a caller that has looked
\* in vain and has not yet blocked.
LockHeld ==
    /\ \A r \in Requests : pc[r] = "looked" => holder = r
    /\ holder # NoRequest => pc[holder] = "looked"

\* Whoever sleeps, or is about to, next to a response will be woken.
Woken ==
    \A r \in Requests :
        pc[r] \in {"looked", "waiting"} /\ Present(Key(r)) => reader = "broadcast"

RInv == TypeOK /\ FiledRight /\ InOnePlace /\ LockHeld /\ Woken

-----------------------------------------------------------------------------
\* Every step is one of these.
LEMMA StepCases ==
    ASSUME [Next]_vars
    PROVE  \/ \E r \in Requests : \/ Publish(r) \/ Look(r) \/ Wait(r) \/ Deadline(r)
                                  \/ Take(r) \/ Deliver(r) \/ Answer(r)
           \/ Broadcast \/ Event \/ EventDone
           \/ \E k \in Keys : Expire(k)
           \/ UNCHANGED vars
  BY DEF Next, Caller, Reader, Rest

\* Both keys of a request are keys of the cache.
LEMMA KeysOf == \A r \in Requests : Key(r) \in Keys /\ ResponseKey(r) \in Keys
  BY DEF Keys

\* A request other than a probe waits under a key only its own response gets.
LEMMA OwnKey ==
    ASSUME NEW r \in Requests, NEW s \in Requests, Kind[r] # "probe",
           ResponseKey(s) = Key(r)
    PROVE  s = r
<1>1. Key(r) = [topic |-> "", id |-> r]
  BY DEF Key
<1>2. ResponseKey(s) = [topic |-> "", id |-> r]
  BY <1>1
<1>3. Kind[s] # "probe" /\ Kind[s] # "probe_set"
  BY <1>2 DEF ResponseKey
<1>4. ResponseKey(s) = [topic |-> "", id |-> s]
  BY <1>3 DEF ResponseKey
<1>5. [topic |-> "", id |-> r].id = r /\ [topic |-> "", id |-> s].id = s
  OBVIOUS
<1> QED BY <1>2, <1>4, <1>5, Zenon

-----------------------------------------------------------------------------
\* Every step keeps the types; only look, take and deliver write the cache.
LEMMA TypeStep == ASSUME TypeOK, [Next]_vars PROVE TypeOK'
<1> USE RequestsAssumption DEF TypeOK, Places, ReaderPlaces
<1>1. ASSUME NEW r \in Requests, Publish(r) PROVE TypeOK'
  BY <1>1 DEF Publish, Goto, Return
<1>2. ASSUME NEW r \in Requests, Look(r) PROVE TypeOK'
  <2>1. /\ cache' \in [Keys -> Requests \cup {NoRequest}]
        /\ expired' \subseteq {k \in Keys : cache'[k] # NoRequest}
    BY <1>2, KeysOf DEF Look
  <2>2. /\ pc' \in [Requests -> Places]
        /\ result' \in [Requests -> {"none", "OK", "IO", "TIMEOUT"}]
        /\ holder' \in Requests \cup {NoRequest}
    BY <1>2 DEF Look, Goto, Return
  <2> QED BY <1>2, <2>1, <2>2 DEF Look, wire
<1>3. ASSUME NEW r \in Requests, Wait(r) PROVE TypeOK'
  BY <1>3 DEF Wait, Goto, wire
<1>4. ASSUME NEW r \in Requests, Deadline(r) PROVE TypeOK'
  BY <1>4 DEF Deadline, Goto, wire
<1>5. ASSUME NEW r \in Requests, Take(r) PROVE TypeOK'
  <2>1. /\ cache' \in [Keys -> Requests \cup {NoRequest}]
        /\ expired' \subseteq {k \in Keys : cache'[k] # NoRequest}
    BY <1>5, KeysOf DEF Take
  <2>2. /\ pc' \in [Requests -> Places]
        /\ result' \in [Requests -> {"none", "OK", "IO", "TIMEOUT"}]
    <3>1. \E rc \in {"OK", "TIMEOUT"} : Return(r, rc)
      BY <1>5 DEF Take
    <3> QED BY <3>1 DEF Return, Goto
  <2>3. cache[Key(r)] \in Requests \cup {NoRequest}
    BY KeysOf
  <2>4. got' \in [Requests -> Requests \cup {NoRequest}]
    BY <1>5, <2>3 DEF Take
  <2> QED BY <1>5, <2>1, <2>2, <2>4 DEF Take, wire
<1>6. ASSUME NEW r \in Requests, Deliver(r) PROVE TypeOK'
  <2>1. /\ cache' \in [Keys -> Requests \cup {NoRequest}]
        /\ expired' \subseteq {k \in Keys : cache'[k] # NoRequest}
    BY <1>6, KeysOf DEF Deliver, Put
  <2> QED BY <1>6, <2>1 DEF Deliver, rvars
<1>7. ASSUME NEW r \in Requests, Answer(r) PROVE TypeOK'
  BY <1>7 DEF Answer, rvars
<1>8. CASE Broadcast
  BY <1>8 DEF Broadcast, wire
<1>9. CASE Event \/ EventDone
  BY <1>9 DEF Event, EventDone, rvars, wire
<1>10. ASSUME NEW k \in Keys, Expire(k) PROVE TypeOK'
  BY <1>10 DEF Expire, Present, rvars, wire
<1>11. CASE UNCHANGED vars
  BY <1>11 DEF vars, rvars, wire
<1> QED BY <1>1, <1>2, <1>3, <1>4, <1>5, <1>6, <1>7, <1>8, <1>9, <1>10, <1>11, StepCases

\* The only write of an entry is the one Deliver makes, under the key of its response.
LEMMA FiledStep == ASSUME TypeOK, FiledRight, [Next]_vars PROVE FiledRight'
<1> USE RequestsAssumption DEF FiledRight
<1>1. ASSUME NEW r \in Requests, Look(r) PROVE FiledRight'
  <2>1. \A k \in Keys : cache'[k] \in {cache[k], NoRequest}
    BY <1>1, KeysOf DEF Look, TypeOK
  <2>2. got' = got
    BY <1>1 DEF Look
  <2> QED BY <2>1, <2>2
<1>2. ASSUME NEW r \in Requests, Take(r) PROVE FiledRight'
  <2>1. \A k \in Keys : cache'[k] \in {cache[k], NoRequest}
    BY <1>2, KeysOf DEF Take, TypeOK
  <2>2. \A s \in Requests : got'[s] = got[s] \/ (s = r /\ got'[s] = cache[Key(r)])
    BY <1>2 DEF Take, TypeOK
  <2> QED BY <2>1, <2>2, KeysOf
<1>3. ASSUME NEW r \in Requests, Deliver(r) PROVE FiledRight'
  <2>1. \A k \in Keys : cache'[k] = cache[k] \/ (k = ResponseKey(r) /\ cache'[k] = r)
    BY <1>3, KeysOf DEF Deliver, Put, TypeOK
  <2>2. got' = got
    BY <1>3 DEF Deliver, rvars
  <2> QED BY <2>1, <2>2
<1>4. CASE UNCHANGED <<cache, got>>
  BY <1>4
<1>5. ASSUME NEW r \in Requests, Publish(r) \/ Wait(r) \/ Deadline(r) \/ Answer(r)
      PROVE  FiledRight'
  BY <1>4, <1>5 DEF Publish, Wait, Deadline, Answer, rvars
<1>6. CASE Broadcast \/ Event \/ EventDone \/ \E k \in Keys : Expire(k)
  BY <1>4, <1>6 DEF Broadcast, Event, EventDone, Expire, rvars
<1>7. CASE UNCHANGED vars
  BY <1>4, <1>7 DEF vars, rvars
<1> QED BY <1>1, <1>2, <1>3, <1>5, <1>6, <1>7, StepCases

\* A response stays in one place: each step moves it on, or drops it.
LEMMA OnceStep ==
    ASSUME TypeOK, FiledRight, InOnePlace, [Next]_vars PROVE InOnePlace'
<1> USE RequestsAssumption
<1>1. ASSUME NEW r \in Requests, Publish(r) PROVE InOnePlace'
  BY <1>1 DEF Publish, Goto, Return, InOnePlace, Filed, Given, AnswerTakenOnce, TypeOK
<1>2. ASSUME NEW r \in Requests, Look(r) PROVE InOnePlace'
  <2>1. \A k \in Keys : cache'[k] \in {cache[k], NoRequest}
    BY <1>2, KeysOf DEF Look, TypeOK
  <2>2. \A s \in Requests : Filed(s)' => Filed(s)
    BY <2>1, KeysOf DEF Filed
  <2>3. \A s \in Requests : pc'[s] = "start" => pc[s] = "start"
    BY <1>2 DEF Look, Goto, Return, TypeOK
  <2>4. UNCHANGED <<requested, answers, got>>
    BY <1>2 DEF Look, wire
  <2> QED BY <2>2, <2>3, <2>4 DEF InOnePlace, Given, AnswerTakenOnce
<1>3. ASSUME NEW r \in Requests, Take(r) PROVE InOnePlace'
  <2>1. \A k \in Keys : cache'[k] = IF k = Key(r) THEN NoRequest ELSE cache[k]
    BY <1>3, KeysOf DEF Take, TypeOK
  <2>2. \A s \in Requests : Filed(s)' => Filed(s) /\ s # cache[Key(r)]
    BY <2>1, KeysOf DEF Filed, FiledRight
  <2>3. \A s \in Requests : pc'[s] = "start" => pc[s] = "start"
    BY <1>3 DEF Take, Goto, Return, TypeOK
  <2>4. UNCHANGED <<requested, answers>>
    BY <1>3 DEF Take, wire
  <2>5. CASE got' = got
    BY <2>2, <2>3, <2>4, <2>5 DEF InOnePlace, Given, AnswerTakenOnce
  <2>6. CASE Present(Key(r)) /\ got' = [got EXCEPT ![r] = cache[Key(r)]]
    <3> DEFINE t == cache[Key(r)]
    <3>1. t \in Requests /\ Filed(t)
      BY <2>6, KeysOf DEF Present, TypeOK, FiledRight, Filed
    <3>2. t \notin requested \cup answers /\ pc[t] # "start" /\ ~Given(t)
      BY <3>1 DEF InOnePlace
    <3>3. \A s \in Requests : got'[s] = IF s = r THEN t ELSE got[s]
      BY <2>6 DEF TypeOK
    <3>4. \A s \in Requests : Given(s)' => Given(s) \/ s = t
      BY <3>3 DEF Given
    <3>5. AnswerTakenOnce'
      BY <3>1, <3>2, <3>3 DEF InOnePlace, AnswerTakenOnce, Given
    <3> QED BY <2>2, <2>3, <2>4, <3>2, <3>4, <3>5 DEF InOnePlace
  <2> QED BY <1>3, <2>5, <2>6 DEF Take
<1>4. ASSUME NEW r \in Requests, Deliver(r) PROVE InOnePlace'
  <2>1. \A k \in Keys : cache'[k] = IF k = ResponseKey(r) THEN r ELSE cache[k]
    BY <1>4, KeysOf DEF Deliver, Put, TypeOK
  <2>2. \A s \in Requests : Filed(s)' => Filed(s) \/ s = r
    BY <2>1, KeysOf DEF Filed
  <2>3. r \in answers /\ answers' = answers \ {r} /\ UNCHANGED <<requested, got, pc>>
    BY <1>4 DEF Deliver, rvars
  <2> QED BY <2>2, <2>3 DEF InOnePlace, Given, AnswerTakenOnce
<1>5. ASSUME NEW r \in Requests, Answer(r) PROVE InOnePlace'
  BY <1>5 DEF Answer, rvars, InOnePlace, Filed, Given, AnswerTakenOnce
<1>6. CASE /\ UNCHANGED <<cache, got, requested, answers>>
           /\ \A s \in Requests : pc'[s] = "start" => pc[s] = "start"
  BY <1>6 DEF InOnePlace, Filed, Given, AnswerTakenOnce
<1>7. ASSUME NEW r \in Requests, Wait(r) \/ Deadline(r) PROVE InOnePlace'
  BY <1>6, <1>7 DEF Wait, Deadline, Goto, wire, TypeOK
<1>8. CASE Broadcast
  BY <1>6, <1>8 DEF Broadcast, wire
<1>9. CASE Event \/ EventDone \/ \E k \in Keys : Expire(k)
  BY <1>6, <1>9 DEF Event, EventDone, Expire, rvars, wire
<1>10. CASE UNCHANGED vars
  BY <1>6, <1>10 DEF vars, rvars, wire
<1> QED BY <1>1, <1>2, <1>3, <1>4, <1>5, <1>7, <1>8, <1>9, <1>10, StepCases

\* Look takes client->mutex and Wait gives it back.
LEMMA LockStep == ASSUME TypeOK, LockHeld, [Next]_vars PROVE LockHeld'
<1> USE RequestsAssumption DEF LockHeld, TypeOK
<1>1. ASSUME NEW r \in Requests, Publish(r) PROVE LockHeld'
  BY <1>1 DEF Publish, Goto, Return
<1>2. ASSUME NEW r \in Requests, Look(r) PROVE LockHeld'
  BY <1>2 DEF Look, Goto, Return
<1>3. ASSUME NEW r \in Requests, Wait(r) PROVE LockHeld'
  BY <1>3 DEF Wait, Goto
<1>4. ASSUME NEW r \in Requests, Deadline(r) PROVE LockHeld'
  BY <1>4 DEF Deadline, Goto
<1>5. ASSUME NEW r \in Requests, Take(r) PROVE LockHeld'
  BY <1>5 DEF Take, Goto, Return
<1>6. CASE Broadcast
  BY <1>6 DEF Broadcast
<1>7. CASE UNCHANGED <<pc, holder>>
  BY <1>7
<1>8. ASSUME NEW r \in Requests, Deliver(r) \/ Answer(r) PROVE LockHeld'
  BY <1>7, <1>8 DEF Deliver, Answer, rvars
<1>9. CASE Event \/ EventDone \/ (\E k \in Keys : Expire(k)) \/ UNCHANGED vars
  BY <1>7, <1>9 DEF Event, EventDone, Expire, vars, rvars
<1> QED BY <1>1, <1>2, <1>3, <1>4, <1>5, <1>6, <1>8, <1>9, StepCases

\* No step leaves a caller asleep next to its response: the reader puts and
\* broadcasts, and gets the mutex for that only when nobody is between look and wait.
LEMMA WokenStep == ASSUME TypeOK, LockHeld, Woken, [Next]_vars PROVE Woken'
<1> USE RequestsAssumption DEF Woken
<1>1. ASSUME NEW r \in Requests, Publish(r) PROVE Woken'
  BY <1>1 DEF Publish, Goto, Return, Present, TypeOK
<1>2. ASSUME NEW r \in Requests, Look(r) PROVE Woken'
  <2>1. \A k \in Keys : Present(k)' => Present(k)
    BY <1>2, KeysOf DEF Look, Present, TypeOK
  <2>2. ~Present(Key(r)) \/ pc'[r] = "take"
    BY <1>2 DEF Look, Goto, TypeOK
  <2>3. \A s \in Requests \ {r} : pc'[s] = pc[s]
    BY <1>2 DEF Look, Goto, Return, TypeOK
  <2>4. reader' = reader
    BY <1>2 DEF Look
  <2> QED BY <2>1, <2>2, <2>3, <2>4, KeysOf
<1>3. ASSUME NEW r \in Requests, Wait(r) PROVE Woken'
  BY <1>3 DEF Wait, Goto, Present, TypeOK
<1>4. ASSUME NEW r \in Requests, Deadline(r) PROVE Woken'
  BY <1>4 DEF Deadline, Goto, Present, TypeOK
<1>5. ASSUME NEW r \in Requests, Take(r) PROVE Woken'
  <2>1. \A k \in Keys : Present(k)' => Present(k)
    BY <1>5, KeysOf DEF Take, Present, TypeOK
  <2>2. \A s \in Requests : pc'[s] = pc[s] \/ pc'[s] = "returned"
    BY <1>5 DEF Take, Goto, Return, TypeOK
  <2>3. reader' = reader
    BY <1>5 DEF Take
  <2> QED BY <2>1, <2>2, <2>3, KeysOf
<1>6. ASSUME NEW r \in Requests, Deliver(r) PROVE Woken'
  BY <1>6 DEF Deliver
<1>7. CASE Broadcast
  <2>1. \A s \in Requests : pc'[s] \notin {"looked", "waiting"}
    BY <1>7 DEF Broadcast, LockHeld, TypeOK
  <2> QED BY <2>1
<1>8. ASSUME NEW r \in Requests, Answer(r) PROVE Woken'
  BY <1>8 DEF Answer, rvars, Present
<1>9. CASE Event \/ EventDone
  BY <1>9 DEF Event, EventDone, rvars, Present
<1>10. ASSUME NEW k \in Keys, Expire(k) PROVE Woken'
  BY <1>10 DEF Expire, rvars, Present
<1>11. CASE UNCHANGED vars
  BY <1>11 DEF vars, rvars, Present
<1> QED BY <1>1, <1>2, <1>3, <1>4, <1>5, <1>6, <1>7, <1>8, <1>9, <1>10, <1>11, StepCases

-----------------------------------------------------------------------------
\* The strengthening behind the properties below holds in every reachable state.
THEOREM Invariance == Spec => []RInv
<1>1. Init => RInv
  <2> SUFFICES ASSUME Init PROVE RInv
    OBVIOUS
  <2> USE RequestsAssumption DEF Init
  <2>1. TypeOK
    BY DEF TypeOK, Places, ReaderPlaces
  <2>2. FiledRight /\ LockHeld
    BY DEF FiledRight, LockHeld
  <2>3. InOnePlace
    BY KeysOf DEF InOnePlace, Filed, Given, AnswerTakenOnce
  <2>4. Woken
    BY DEF Woken
  <2> QED BY <2>1, <2>2, <2>3, <2>4 DEF RInv
<1>2. RInv /\ [Next]_vars => RInv'
  BY TypeStep, FiledStep, OnceStep, LockStep, WokenStep DEF RInv
<1> QED BY <1>1, <1>2, PTL DEF Spec

\* The types of every reachable state, for any set of requests.
THEOREM TypeCorrect == Spec => []TypeOK
<1>1. RInv => TypeOK
  BY DEF RInv
<1> QED BY <1>1, Invariance, PTL

\* A request other than a probe never returns the response to another one.
THEOREM Own == Spec => []OwnAnswer
<1>1. RInv => OwnAnswer
  <2> SUFFICES ASSUME RInv, NEW r \in Requests, Kind[r] # "probe", got[r] # NoRequest
               PROVE  got[r] = r
    BY DEF OwnAnswer
  <2>1. got[r] \in Requests /\ ResponseKey(got[r]) = Key(r)
    BY DEF RInv, TypeOK, FiledRight
  <2> QED BY <2>1, OwnKey
<1> QED BY <1>1, Invariance, PTL

\* No response is handed to two callers, who would both free it.
THEOREM TakenOnce == Spec => []AnswerTakenOnce
<1>1. RInv => AnswerTakenOnce
  BY DEF RInv, InOnePlace
<1> QED BY <1>1, Invariance, PTL

\* Both together: every caller that gets a response gets one of its own.
THEOREM Answers == Spec => []AnswersSound
<1>1. OwnAnswer /\ AnswerTakenOnce => AnswersSound
  BY DEF AnswersSound
<1> QED BY <1>1, Own, TakenOnce, PTL

\* No caller sleeps next to its response unless a broadcast is on its way.
THEOREM WakesCaller == Spec => []AnswerWakesCaller
<1>1. RInv => AnswerWakesCaller
  BY DEF RInv, Woken, AnswerWakesCaller
<1> QED BY <1>1, Invariance, PTL

-----------------------------------------------------------------------------
(* Responses in time                                                       *)

\* r is the only request that waits for its key.
Alone(r) == \A s \in Requests : Key(s) = Key(r) => s = r

\* A request has a result once it has returned, and only then.
NotYet == \A r \in Requests : pc[r] # "returned" => result[r] = "none"

\* A response that was put in time, where its caller looks, stays there until
\* the caller has taken it.
StaysPut ==
    \A r \in in_time : Alone(r) /\ ResponseKey(r) = Key(r) =>
        /\ pc[r] # "start" /\ result[r] # "TIMEOUT"
        /\ pc[r] # "returned" => Present(Key(r))

\* The response of no other request is filed where a request waits alone.
LEMMA AloneKey ==
    ASSUME NEW r \in Requests, NEW s \in Requests, Alone(r), ResponseKey(s) = Key(r)
    PROVE  s = r
<1>1. CASE Kind[r] # "probe"
  BY <1>1, OwnKey
<1>2. CASE Kind[r] = "probe"
  <2>1. Key(r) = [topic |-> "Probe/Query/Response", id |-> NoRequest]
    BY <1>2 DEF Key
  <2>2. ResponseKey(s).topic = "Probe/Query/Response"
    BY <2>1
  <2>3. Kind[s] = "probe"
    BY <2>2 DEF ResponseKey
  <2> QED BY <1>2, <2>3 DEF Alone, Key
<1> QED BY <1>1, <1>2

\* Returning is what sets a result.
LEMMA NotYetStep == ASSUME TypeOK, NotYet, [Next]_vars PROVE NotYet'
<1> USE DEF NotYet, TypeOK
<1>1. ASSUME NEW r \in Requests, Publish(r) \/ Look(r) \/ Wait(r) \/ Deadline(r) \/ Take(r)
      PROVE  NotYet'
  <2>1. \A s \in Requests \ {r} : pc'[s] = pc[s] /\ result'[s] = result[s]
    BY <1>1 DEF Publish, Look, Wait, Deadline, Take, Goto, Return
  <2>2. pc'[r] = "returned" \/ (pc[r] # "returned" /\ result'[r] = result[r])
    BY <1>1 DEF Publish, Look, Wait, Deadline, Take, Goto, Return
  <2> QED BY <2>1, <2>2
<1>2. ASSUME NEW r \in Requests, Deliver(r) \/ Answer(r) PROVE NotYet'
  BY <1>2 DEF Deliver, Answer, rvars
<1>3. CASE Broadcast
  BY <1>3 DEF Broadcast
<1>4. CASE Event \/ EventDone \/ (\E k \in Keys : Expire(k)) \/ UNCHANGED vars
  BY <1>4 DEF Event, EventDone, Expire, vars, rvars
<1> QED BY <1>1, <1>2, <1>3, <1>4, StepCases

\* Only its own caller takes such a response away, and it returns it then; the
\* TTL does not run out while that caller is under way.
LEMMA StaysStep ==
    ASSUME TypeOK, NotYet, StaysPut, [Next]_vars PROVE StaysPut'
<1> SUFFICES ASSUME NEW r \in in_time', Alone(r), ResponseKey(r) = Key(r)
             PROVE  /\ pc'[r] # "start" /\ result'[r] # "TIMEOUT"
                    /\ pc'[r] # "returned" => Present(Key(r))'
  BY DEF StaysPut, Alone
<1> DEFINE Kept == /\ pc'[r] # "start" /\ result'[r] # "TIMEOUT"
                   /\ pc'[r] # "returned" => Present(Key(r))'
<1>1. ASSUME r \in in_time
      PROVE  /\ r \in Requests /\ pc[r] # "start" /\ result[r] # "TIMEOUT"
             /\ pc[r] # "returned" => Present(Key(r))
  BY <1>1 DEF StaysPut, TypeOK
<1>2. ASSUME NEW s \in Requests, Publish(s) PROVE Kept
  BY <1>1, <1>2 DEF Publish, Goto, Return, Present, TypeOK
<1>3. ASSUME NEW s \in Requests, Look(s) PROVE Kept
  <2>1. in_time' = in_time
    BY <1>3 DEF Look
  <2>2. CASE s = r
    <3>1. pc[r] \in {"look", "deadline"} /\ Present(Key(r))
      BY <1>1, <1>3, <2>1, <2>2 DEF Look
    <3>2. pc'[r] = "take" /\ result' = result
      BY <1>1, <1>3, <2>1, <2>2, <3>1 DEF Look, Goto, TypeOK
    <3>3. Present(Key(r))'
      BY <1>1, <1>3, <2>1, <2>2, <3>1, KeysOf DEF Look, Present, TypeOK
    <3> QED BY <1>1, <2>1, <3>2, <3>3
  <2>3. CASE s # r
    <3>1. Key(s) # Key(r)
      BY <2>3 DEF Alone
    <3>2. pc'[r] = pc[r] /\ result'[r] = result[r]
      BY <1>1, <1>3, <2>1, <2>3 DEF Look, Goto, Return, TypeOK
    <3>3. Present(Key(r))' <=> Present(Key(r))
      BY <1>1, <1>3, <2>1, <3>1, KeysOf DEF Look, Present, TypeOK
    <3> QED BY <1>1, <2>1, <3>2, <3>3
  <2> QED BY <2>2, <2>3
<1>4. ASSUME NEW s \in Requests, Wait(s) \/ Deadline(s) PROVE Kept
  <2>1. in_time' = in_time /\ UNCHANGED <<cache, expired, result>>
    BY <1>4 DEF Wait, Deadline
  <2>2. pc'[r] = pc[r] \/ (pc[r] # "returned" /\ pc'[r] # "start")
    BY <1>1, <1>4, <2>1 DEF Wait, Deadline, Goto, TypeOK
  <2> QED BY <1>1, <2>1, <2>2 DEF Present
<1>5. ASSUME NEW s \in Requests, Take(s) PROVE Kept
  <2>1. in_time' = in_time
    BY <1>5 DEF Take
  <2>2. CASE s = r
    <3>1. Present(Key(r))
      BY <1>1, <1>5, <2>1, <2>2 DEF Take
    <3>2. Return(r, "OK")
      BY <1>5, <2>2, <3>1 DEF Take
    <3> QED BY <1>1, <2>1, <3>2 DEF Return, Goto, TypeOK
  <2>3. CASE s # r
    <3>1. Key(s) # Key(r)
      BY <2>3 DEF Alone
    <3>2. pc'[r] = pc[r] /\ result'[r] = result[r]
      BY <1>1, <1>5, <2>1, <2>3 DEF Take, Goto, Return, TypeOK
    <3>3. Present(Key(r))' <=> Present(Key(r))
      BY <1>1, <1>5, <2>1, <3>1, KeysOf DEF Take, Present, TypeOK
    <3> QED BY <1>1, <2>1, <3>2, <3>3
  <2> QED BY <2>2, <2>3
<1>6. ASSUME NEW s \in Requests, Deliver(s) PROVE Kept
  <2>1. UNCHANGED <<pc, result>>
    BY <1>6 DEF Deliver, rvars
  <2>2. r \in Requests
    BY <1>1, <1>6 DEF Deliver
  <2>3. CASE s = r
    <3>1. Present(Key(r))'
      BY <1>6, <2>2, <2>3, KeysOf, RequestsAssumption
      DEF Deliver, Put, Present, TypeOK, RequestsAssumption
    <3>2. r \in in_time \/ Before(r)
      BY <1>6, <2>3 DEF Deliver
    <3>3. CASE Before(r)
      BY <2>1, <2>2, <3>1, <3>3 DEF Before, NotYet
    <3> QED BY <1>1, <2>1, <3>1, <3>2, <3>3
  <2>4. CASE s # r
    <3>1. ResponseKey(s) # Key(r) /\ in_time' \ {s} = in_time \ {s}
      BY <1>6, <2>2, <2>4, AloneKey DEF Deliver
    <3>2. Present(Key(r))' <=> Present(Key(r))
      BY <1>6, <2>2, <3>1, KeysOf DEF Deliver, Put, Present, TypeOK
    <3> QED BY <1>1, <2>1, <2>4, <3>1, <3>2
  <2> QED BY <2>3, <2>4
<1>7. ASSUME NEW k \in Keys, Expire(k) PROVE Kept
  <2>1. in_time' = in_time /\ UNCHANGED <<cache, pc, result>>
    BY <1>7 DEF Expire, rvars
  <2>2. Key(r) = k => pc[r] \in {"start", "returned"}
    BY <1>1, <1>7, <2>1 DEF Expire
  <2>3. Key(r) # k => (Present(Key(r))' <=> Present(Key(r)))
    BY <1>7 DEF Expire, Present
  <2> QED BY <1>1, <2>1, <2>2, <2>3
<1>8. CASE Broadcast
  <2>1. in_time' = in_time /\ UNCHANGED <<cache, expired, result>>
    BY <1>8 DEF Broadcast
  <2>2. pc'[r] = pc[r] \/ (pc[r] # "returned" /\ pc'[r] # "start")
    BY <1>1, <1>8, <2>1 DEF Broadcast
  <2> QED BY <1>1, <2>1, <2>2 DEF Present
<1>9. CASE (\E s \in Requests : Answer(s)) \/ Event \/ EventDone \/ UNCHANGED vars
  BY <1>1, <1>9 DEF Answer, Event, EventDone, vars, rvars, Present
<1> QED BY <1>2, <1>3, <1>4, <1>5, <1>6, <1>7, <1>8, <1>9, StepCases

\* A response put before the deadline is not missed by a caller who is alone with
\* its key, unless it is one to probe_set, which is filed where nobody looks.
THEOREM InTime ==
    ASSUME \A r \in Requests : Kind[r] # "probe_set"
    PROVE  Spec => []AnsweredInTime
<1>1. Init => NotYet /\ StaysPut
  BY DEF Init, NotYet, StaysPut
<1>2. TypeOK /\ NotYet /\ StaysPut /\ [Next]_vars => NotYet' /\ StaysPut'
  BY NotYetStep, StaysStep
<1>3. TypeOK /\ StaysPut => AnsweredInTime
  <2>1. \A r \in Requests : ResponseKey(r) = Key(r)
    BY RequestsAssumption DEF ResponseKey, Key, RequestsAssumption
  <2> QED BY <2>1 DEF StaysPut, AnsweredInTime, Alone, TypeOK
<1> QED BY <1>1, <1>2, <1>3, TypeCorrect, PTL DEF Spec

\* That response is never returned: the caller of ncl_client_probe_set waits for
\* an "@id" that no entry of the cache is filed under.
THEOREM ProbeSetUnanswered ==
    Spec => [](\A r \in Requests : Kind[r] = "probe_set" => got[r] = NoRequest)
<1>1. RInv => \A r \in Requests : Kind[r] = "probe_set" => got[r] = NoRequest
  <2> SUFFICES ASSUME RInv, NEW r \in Requests, Kind[r] = "probe_set", got[r] # NoRequest
               PROVE  FALSE
    OBVIOUS
  <2>1. got[r] \in Requests /\ ResponseKey(got[r]) = Key(r)
    BY DEF RInv, TypeOK, FiledRight
  <2>2. got[r] = r
    BY <2>1, OwnKey
  <2>3. Key(r).topic = "" /\ ResponseKey(r).topic = "Probe/Set/Response"
    BY DEF Key, ResponseKey
  <2> QED BY <2>1, <2>2, <2>3
<1> QED BY <1>1, Invariance, PTL

-----------------------------------------------------------------------------
(* The device side (ServerCalls)                                           *)

\* Where a request has not been answered, and its call not registered.
Early == {"unsent", "inbox", "asking", "offered", "queued", "late", "dispatch"}
Entering == {"registered", "submitting"}
Queues == {"queued", "late"}

\* A result query that was given an outcome, and a call somebody collected.
Told(q) == reply[q] \in {"FINISHED", "ERROR"}
Collected(c) == \E p \in Results : Of[p] = c /\ Told(p)

\* What waits in the pool is where its request or its method says.
PoolInv ==
    /\ \A i, j \in DOMAIN pending : pending[i] = pending[j] => i = j
    /\ \A i \in DOMAIN pending :
          \/ pending[i] \in AllRequests /\ step[pending[i]] \in Queues
          \/ \E c \in Calls : pending[i] = Method(c) /\ method[c] \in Queues

\* How far a request has come, and what it has been told.
StepInv ==
    /\ \A r \in AllRequests : step[r] \in Early => reply[r] = "none"
    /\ \A r \in AllRequests : step[r] \in Entering \cup {"inline"} => r \in Calls
    /\ \A c \in Calls : step[c] \in Early \cup Entering => method[c] = "none"
    /\ \A c \in Calls : reply[c] \in {"none", "HANDLE", "NOT_FOUND"}
    /\ \A c \in Calls : reply[c] = "HANDLE" => step[c] \in {"answer", "done"}
    /\ \A q \in Statuses : ~Told(q)
    /\ \A q \in Statuses \cup Results : step[q] # "unsent" => reply[Of[q]] = "HANDLE"

\* A call is entered once, and stays until it has been collected.
TableInv ==
    /\ \A i, j \in DOMAIN table : table[i] = table[j] => i = j
    /\ \A c \in Calls : Known(c) => step[c] \notin Early
    /\ \A c \in Calls :
          step[c] \in Entering \cup {"inline"} \/ reply[c] = "HANDLE" =>
              Known(c) \/ Collected(c)
    /\ \A c \in stored : method[c] = "done"

\* What was told of a call is settled, and nobody else can ask for it.
ToldInv ==
    \A q \in Results : Told(q) =>
        /\ ~Known(Of[q]) /\ step[Of[q]] \notin Early
        /\ Of[q] \in stored /\ reply[q] = Outcome(Of[q])

\* While the server is up only the caller that collected a task has freed it.
UpInv ==
    phase = "up" =>
        /\ abandoned = {} /\ doomed = Nobody
        /\ \A c \in released : c \in stored /\ ~Known(c)

CallsInv ==
    /\ ServerTypeOK /\ PoolInv /\ StepInv /\ TableInv /\ ToldInv /\ UpInv
    /\ OutcomeOnce /\ HandleWorks /\ SafeWhileUp

-----------------------------------------------------------------------------
(* The table                                                               *)

\* A task is entered behind the others.
LEMMA Entered ==
    ASSUME NEW c \in Calls, ServerTypeOK, TableInv, ~Known(c), table' = Append(table, c)
    PROVE  /\ table' \in Seq(Calls)
           /\ \A i, j \in DOMAIN table' : table'[i] = table'[j] => i = j
           /\ \A d \in Calls : Known(d)' <=> Known(d) \/ d = c
<1>1. table \in Seq(Calls)
  BY DEF ServerTypeOK
<1>2. /\ table' \in Seq(Calls) /\ Len(table') = Len(table) + 1
      /\ \A i \in 1..Len(table) : table'[i] = table[i]
      /\ table'[Len(table) + 1] = c
  BY <1>1, AppendProperties
<1>3. Len(table) \in Nat /\ DOMAIN table = 1..Len(table) /\ DOMAIN table' = 1..Len(table) + 1
  BY <1>1, <1>2, LenProperties
<1>4. \A i \in DOMAIN table' : i \in DOMAIN table \/ i = Len(table) + 1
  BY <1>3
<1>5. \A i \in DOMAIN table : table[i] # c
  BY DEF Known, ToSet
<1>6. \A i, j \in DOMAIN table' : table'[i] = table'[j] => i = j
  BY <1>2, <1>3, <1>4, <1>5 DEF TableInv
<1>7. ASSUME NEW d \in Calls PROVE Known(d)' <=> Known(d) \/ d = c
  <2>1. Known(d) => Known(d)'
    BY <1>2, <1>3 DEF Known, ToSet
  <2>2. Known(c)'
    BY <1>2, <1>3 DEF Known, ToSet
  <2>3. Known(d)' => Known(d) \/ d = c
    BY <1>2, <1>3, <1>4 DEF Known, ToSet
  <2> QED BY <2>1, <2>2, <2>3
<1> QED BY <1>2, <1>6, <1>7

\* A task is taken out, and the others move up.
LEMMA Unlinked ==
    ASSUME NEW c \in Calls, ServerTypeOK, TableInv, Known(c), Unlink(c)
    PROVE  /\ table' \in Seq(Calls)
           /\ \A i, j \in DOMAIN table' : table'[i] = table'[j] => i = j
           /\ \A d \in Calls : Known(d)' <=> Known(d) /\ d # c
<1> DEFINE k == CHOOSE i \in DOMAIN table : table[i] = c
           front == SubSeq(table, 1, k - 1)
           back  == SubSeq(table, k + 1, Len(table))
<1>1. table \in Seq(Calls) /\ Len(table) \in Nat /\ DOMAIN table = 1..Len(table)
  BY LenProperties DEF ServerTypeOK
<1>2. k \in 1..Len(table) /\ table[k] = c
  BY <1>1 DEF Known, ToSet
<1>3. table' = front \o back
  BY DEF Unlink, RemoveAt
<1> HIDE DEF k
<1>4. /\ front \in Seq(Calls) /\ Len(front) = k - 1
      /\ \A i \in 1..k - 1 : front[i] = table[i]
  <2>1. /\ 1 \in Int /\ k - 1 \in Int /\ \A i \in 1..k - 1 : table[i] \in Calls
        /\ (k - 1) - 1 + 1 = k - 1 /\ \A i \in 1..k - 1 : 1 + i - 1 = i
    BY <1>1, <1>2
  <2>2. /\ front \in Seq(Calls)
        /\ Len(front) = IF 1 <= k - 1 THEN (k - 1) - 1 + 1 ELSE 0
        /\ \A i \in 1..(k - 1) - 1 + 1 : front[i] = table[1 + i - 1]
    BY <2>1, SubSeqProperties
  <2> HIDE DEF front
  <2> QED BY <1>2, <2>1, <2>2
<1>5. /\ back \in Seq(Calls) /\ Len(back) = Len(table) - k
      /\ \A i \in 1..Len(table) - k : back[i] = table[k + i]
  <2>1. /\ k + 1 \in Int /\ Len(table) \in Int
        /\ \A i \in k + 1..Len(table) : table[i] \in Calls
    BY <1>1, <1>2
  <2>2. /\ back \in Seq(Calls)
        /\ Len(back) = IF k + 1 <= Len(table) THEN Len(table) - (k + 1) + 1 ELSE 0
        /\ \A i \in 1..Len(table) - (k + 1) + 1 : back[i] = table[(k + 1) + i - 1]
    BY <2>1, SubSeqProperties
  <2>3. /\ Len(table) - (k + 1) + 1 = Len(table) - k
        /\ \A i \in 1..Len(table) - k : (k + 1) + i - 1 = k + i
    BY <1>1, <1>2
  <2> HIDE DEF back
  <2> QED BY <1>1, <1>2, <2>2, <2>3
<1> HIDE DEF front, back
<1>6. /\ table' \in Seq(Calls) /\ Len(table') = Len(table) - 1
      /\ \A i \in 1..Len(table) - 1 :
            table'[i] = IF i <= k - 1 THEN table[i] ELSE table[i + 1]
  <2>1. /\ front \o back \in Seq(Calls) /\ Len(front \o back) = Len(front) + Len(back)
        /\ \A i \in 1..Len(front) + Len(back) :
              (front \o back)[i] = IF i <= Len(front) THEN front[i] ELSE back[i - Len(front)]
    BY <1>4, <1>5, ConcatProperties
  <2>2. Len(front) + Len(back) = Len(table) - 1
    BY <1>1, <1>2, <1>4, <1>5
  <2>3. ASSUME NEW i \in 1..Len(table) - 1
        PROVE  table'[i] = IF i <= k - 1 THEN table[i] ELSE table[i + 1]
    <3>1. CASE i <= k - 1
      BY <1>1, <1>2, <1>3, <1>4, <2>1, <2>2, <3>1
    <3>2. CASE ~(i <= k - 1)
      <4>1. i - (k - 1) \in 1..Len(table) - k /\ k + (i - (k - 1)) = i + 1
        BY <1>1, <1>2, <3>2
      <4>2. table'[i] = back[i - (k - 1)]
        BY <1>3, <1>4, <2>1, <2>2, <3>2
      <4> QED BY <1>5, <3>2, <4>1, <4>2
    <3> QED BY <3>1, <3>2
  <2> QED BY <1>3, <2>1, <2>2, <2>3
<1>7. DOMAIN table' = 1..Len(table) - 1
  BY <1>6, LenProperties
<1> DEFINE to(i) == IF i <= k - 1 THEN i ELSE i + 1
<1>8. \A i \in DOMAIN table' : to(i) \in DOMAIN table /\ to(i) # k /\ table'[i] = table[to(i)]
  BY <1>1, <1>2, <1>6, <1>7
<1>9. \A i, j \in DOMAIN table' : table'[i] = table'[j] => i = j
  <2>1. \A i, j \in DOMAIN table' : to(i) = to(j) => i = j
    BY <1>1, <1>2, <1>7
  <2> QED BY <1>8, <2>1 DEF TableInv
<1>10. ASSUME NEW d \in Calls PROVE Known(d)' <=> Known(d) /\ d # c
  <2>1. Known(d)' => Known(d) /\ d # c
    <3>1. \A i \in DOMAIN table' : table[to(i)] # c
      BY <1>1, <1>2, <1>8 DEF TableInv
    <3> QED BY <1>8, <3>1 DEF Known, ToSet
  <2>2. ASSUME NEW i \in DOMAIN table, table[i] # c
        PROVE  \E j \in DOMAIN table' : table'[j] = table[i]
    <3>1. CASE i <= k - 1
      BY <1>1, <1>2, <1>6, <1>7, <3>1
    <3>2. CASE ~(i <= k - 1)
      <4>1. i # k /\ i - 1 \in 1..Len(table) - 1 /\ ~(i - 1 <= k - 1) /\ (i - 1) + 1 = i
        BY <1>1, <1>2, <2>2, <3>2
      <4> QED BY <1>6, <1>7, <4>1
    <3> QED BY <3>1, <3>2
  <2> QED BY <2>1, <2>2 DEF Known, ToSet
<1> QED BY <1>6, <1>9, <1>10

-----------------------------------------------------------------------------
(* Steps that answer nobody                                                *)

\* The pool's list after a job has been taken from its head.
LEMMA Dequeued ==
    ASSUME ServerTypeOK, PoolInv, Pool!Start
    PROVE  /\ pending' \in Seq(Jobs) /\ active' \subseteq Jobs /\ Head(pending) \in Jobs
           /\ UNCHANGED <<open, inside, finished, refused>>
           /\ \A i, j \in DOMAIN pending' : pending'[i] = pending'[j] => i = j
           /\ \A i \in DOMAIN pending' :
                 i + 1 \in DOMAIN pending /\ pending'[i] = pending[i + 1]
                 /\ pending'[i] # Head(pending)
           /\ 1 \in DOMAIN pending /\ Head(pending) = pending[1]
<1>1. pending \in Seq(Jobs) /\ pending # <<>> /\ pending' = Tail(pending)
      /\ active' = active \cup {Head(pending)} /\ UNCHANGED <<open, inside, finished, refused>>
  BY DEF ServerTypeOK, Pool!Start
<1>2. /\ pending' \in Seq(Jobs) /\ Head(pending) \in Jobs
      /\ Len(pending') = Len(pending) - 1
      /\ \A i \in 1..Len(pending') : pending'[i] = pending[i + 1]
  BY <1>1, HeadTailProperties
<1>3. /\ Len(pending) \in Nat /\ DOMAIN pending = 1..Len(pending) /\ Len(pending) # 0
      /\ DOMAIN pending' = 1..Len(pending')
  BY <1>1, <1>2, LenProperties, EmptySeq
<1>4. 1 \in DOMAIN pending /\ Head(pending) = pending[1]
  BY <1>1, <1>3
<1>5. \A i \in DOMAIN pending' : i + 1 \in DOMAIN pending /\ i + 1 # 1 /\ i \in Int
  BY <1>2, <1>3
<1>6. \A i \in DOMAIN pending' :
         pending'[i] = pending[i + 1] /\ pending'[i] # Head(pending)
  BY <1>2, <1>3, <1>4, <1>5 DEF PoolInv
<1>7. \A i, j \in DOMAIN pending' : pending'[i] = pending'[j] => i = j
  <2>1. ASSUME NEW i \in DOMAIN pending', NEW j \in DOMAIN pending', pending'[i] = pending'[j]
        PROVE  i + 1 = j + 1
    BY <1>5, <1>6, <2>1 DEF PoolInv
  <2> QED BY <1>5, <2>1
<1>8. active' \subseteq Jobs
  BY <1>1, <1>2 DEF ServerTypeOK
<1> QED BY <1>1, <1>2, <1>4, <1>5, <1>6, <1>7, <1>8

\* The pool's list after a job has been put at its end.
LEMMA Queued ==
    ASSUME ServerTypeOK, PoolInv, NEW j \in Jobs, Pool!Accept(j)
    PROVE  /\ pending' \in Seq(Jobs)
           /\ UNCHANGED <<open, active, finished, refused>> /\ inside' \subseteq Jobs
           /\ \A i, k \in DOMAIN pending' : pending'[i] = pending'[k] => i = k
           /\ \A i \in DOMAIN pending' :
                 \/ i \in DOMAIN pending /\ pending'[i] = pending[i] /\ pending[i] # j
                 \/ pending'[i] = j
<1>1. pending \in Seq(Jobs) /\ pending' = Append(pending, j)
      /\ UNCHANGED <<open, active, finished, refused>> /\ inside' \subseteq Jobs
  BY DEF ServerTypeOK, Pool!Accept
<1>2. /\ pending' \in Seq(Jobs) /\ Len(pending') = Len(pending) + 1
      /\ \A i \in 1..Len(pending) : pending'[i] = pending[i]
      /\ pending'[Len(pending) + 1] = j
  BY <1>1, AppendProperties
<1>3. /\ Len(pending) \in Nat /\ DOMAIN pending = 1..Len(pending)
      /\ DOMAIN pending' = 1..Len(pending) + 1
  BY <1>1, <1>2, LenProperties
<1>4. \A i \in DOMAIN pending : pending[i] # j
  BY DEF Pool!Accept, Pool!MayEnter, Pool!Known, Pool!Pending
<1>5. \A i \in DOMAIN pending' : i \in DOMAIN pending \/ i = Len(pending) + 1
  BY <1>3
<1>6. \A i, k \in DOMAIN pending' : pending'[i] = pending'[k] => i = k
  BY <1>2, <1>3, <1>4, <1>5 DEF PoolInv
<1> QED BY <1>1, <1>2, <1>3, <1>4, <1>5, <1>6

\* Steps that leave what waits in the pool where it is.
LEMMA PoolStays ==
    ASSUME PoolInv, pending' = pending,
           \A r \in AllRequests : step[r] \in Queues => step'[r] = step[r],
           \A c \in Calls : method[c] \in Queues => method'[c] = method[c]
    PROVE  PoolInv'
  BY DEF PoolInv

\* Steps of the pool that start a job elsewhere, refuse it, or end one.
LEMMA PoolMoves ==
    ASSUME ServerTypeOK, NEW j \in Jobs,
           \/ Pool!Enter(j) \/ Pool!StartByCaller(j) \/ Pool!Refuse(j) \/ EndJob(j)
           \/ Pool!Close
    PROVE  /\ pending' = pending /\ open' \in BOOLEAN
           /\ inside' \cup active' \cup finished' \cup refused' \subseteq Jobs
  BY DEF ServerTypeOK, EndJob, service, Pool!Enter, Pool!StartByCaller, Pool!Refuse,
         Pool!Finish, Pool!Close

\* Steps that concern neither the requests nor the table.
LEMMA QuietTable ==
    ASSUME CallsInv, ServerTypeOK', PoolInv', UpInv', SafeWhileUp',
           UNCHANGED <<step, method, table, stored, failed, reply>>
    PROVE  CallsInv'
<1>1. StepInv'
  BY DEF CallsInv, StepInv, Told
<1>2. TableInv'
  BY DEF CallsInv, TableInv, Known, Collected, Told
<1>3. ToldInv'
  BY DEF CallsInv, ToldInv, Known, Told, Outcome
<1>4. OutcomeOnce' /\ HandleWorks'
  BY DEF CallsInv, OutcomeOnce, HandleWorks
<1> QED BY <1>1, <1>2, <1>3, <1>4 DEF CallsInv

\* Nor what waits in the pool.
LEMMA Quiet ==
    ASSUME CallsInv, ServerTypeOK', UpInv', SafeWhileUp',
           UNCHANGED <<pending, step, method, table, stored, failed, reply>>
    PROVE  CallsInv'
<1>1. PoolInv'
  BY DEF CallsInv, PoolInv
<1> QED BY <1>1, QuietTable

\* Steps that move one request on, with no answer.
LEMMA Moved ==
    ASSUME CallsInv, ServerTypeOK', PoolInv', NEW r \in AllRequests, NEW s \in Steps, StepTo(r, s),
           \/ /\ step[r] \in Early /\ s \in Early \ {"unsent"}
              /\ r \notin Calls => reply[Of[r]] = "HANDLE"
           \/ step[r] = "answer" /\ s = "done",
           UNCHANGED <<method, tasks, reply, phase, doomed, undefined>>,
           shutdown' = "no" <=> shutdown = "no"
    PROVE  CallsInv'
<1>1. /\ step' \in [AllRequests -> Steps] /\ step'[r] = s
      /\ \A q \in AllRequests : q # r => step'[q] = step[q]
  BY DEF CallsInv, ServerTypeOK, StepTo
<1>2. \A q \in AllRequests : step'[q] \in Early <=> step[q] \in Early
  BY <1>1 DEF Early
<1>3. \A q \in AllRequests : step'[q] = step[q] \/ step'[q] \notin Entering \cup {"inline"}
  BY <1>1 DEF Early, Entering
<1>4. UNCHANGED <<table, stored, failed, abandoned, released>>
  BY DEF tasks
<1>5. StepInv'
  <2>1. \A c \in Calls : c \in AllRequests
    BY DEF AllRequests
  <2>2. \A c \in Calls : reply[c] = "HANDLE" => step'[c] \in {"answer", "done"}
    BY <1>1, <2>1 DEF CallsInv, StepInv, Early
  <2>3. \A q \in Statuses \cup Results : step'[q] # "unsent" => reply[Of[q]] = "HANDLE"
    <3>1. \A q \in Statuses \cup Results : q \in AllRequests
      BY DEF AllRequests
    <3> QED BY <1>1, <3>1, CallsAssumption DEF CallsInv, StepInv, Early, CallsAssumption
  <2>4. \A c \in Calls : step'[c] \in Early \cup Entering => method[c] = "none"
    BY <1>2, <1>3, <2>1 DEF CallsInv, StepInv
  <2> QED BY <1>2, <1>3, <2>2, <2>3, <2>4 DEF CallsInv, StepInv, Told
<1>6. TableInv'
  <2>1. \A c \in Calls : c \in AllRequests
    BY DEF AllRequests
  <2>2. ASSUME NEW c \in Calls
        PROVE  step'[c] \notin Early \/ ~(\E i \in DOMAIN table' : table'[i] = c)
    BY <1>2, <1>4, <2>1 DEF CallsInv, TableInv, Known, ToSet
  <2>3. ASSUME NEW c \in Calls, step'[c] \in Entering \cup {"inline"} \/ reply'[c] = "HANDLE"
        PROVE  Known(c)' \/ Collected(c)'
    <3>1. Known(c) \/ Collected(c)
      BY <1>3, <2>1, <2>3 DEF CallsInv, TableInv
    <3> QED BY <1>4, <3>1 DEF Known, Collected, Told
  <2> QED BY <1>4, <2>2, <2>3 DEF CallsInv, TableInv, Known, ToSet
<1>7. ToldInv'
  <2>1. \A q \in Results : Of[q] \in AllRequests
    BY CallsAssumption DEF CallsInv, AllRequests, CallsAssumption
  <2> QED BY <1>2, <1>4, <2>1 DEF CallsInv, ToldInv, Known, Told, Outcome
<1>8. UpInv' /\ SafeWhileUp'
  BY <1>4 DEF CallsInv, UpInv, SafeWhileUp, Known
<1>9. OutcomeOnce' /\ HandleWorks'
  BY DEF CallsInv, OutcomeOnce, HandleWorks
<1> QED BY <1>5, <1>6, <1>7, <1>8, <1>9 DEF CallsInv

\* Memory that is gone is used only once the server is being freed or the service
\* has been shut down.
LEMMA Gone ==
    ASSUME CallsInv, Undefined, phase # "up" \/ shutdown # "no"
    PROVE  CallsInv'
<1>1. UNCHANGED <<open, inside, pending, active, finished, refused, step, on_reader, method,
                  table, stored, failed, reported, abandoned, released, reply, handed,
                  phase, swept, doomed, shutdown>> /\ undefined' = TRUE
  BY DEF Undefined, service, tasks, freeing
<1>2. ServerTypeOK'
  BY <1>1 DEF CallsInv, ServerTypeOK
<1>3. UpInv'
  BY <1>1 DEF CallsInv, UpInv, Known
<1>4. SafeWhileUp'
  BY <1>1 DEF SafeWhileUp
<1> QED BY <1>1, <1>2, <1>3, <1>4, Quiet

\* A request is sent, received, offered to the pool, and its answer published.
LEMMA RequestMoves ==
    ASSUME CallsInv, NEW r \in AllRequests,
           \/ Send(r) \/ Receive(r) \/ SubmitRequest(r) \/ PublishReply(r)
           \/ GetService(r) /\ step[r] = "asking"
    PROVE  CallsInv'
<1>1. r \in Jobs
  BY DEF Jobs
<1>2. CASE Send(r) \/ Receive(r) \/ (GetService(r) /\ step[r] = "asking")
  <2> DEFINE s == IF Send(r) THEN "inbox" ELSE IF Receive(r) THEN "asking" ELSE "offered"
  <2>1. /\ StepTo(r, s) /\ step[r] \in {"unsent", "inbox", "asking"}
        /\ r \notin Calls => reply[Of[r]] = "HANDLE"
        /\ on_reader' \in {on_reader, r} /\ open' \in {open, TRUE}
        /\ shutdown' = "no" <=> shutdown = "no"
        /\ shutdown' \in {shutdown, "no", "renewed"}
        /\ UNCHANGED <<method, tasks, reply, phase, doomed, undefined>>
        /\ UNCHANGED <<inside, pending, active, finished, refused, method, table,
                       stored, failed, reported, abandoned, released, reply, handed,
                       phase, swept, doomed, undefined>>
    BY <1>2 DEF Send, Receive, GetService, service, tasks, freeing, CallsInv, StepInv,
                AllRequests
  <2>2. s \in {"inbox", "asking", "offered"}
    OBVIOUS
  <2> HIDE DEF s
  <2>3. step' \in [AllRequests -> Steps] /\ s \in Steps
    BY <2>1, <2>2 DEF StepTo, CallsInv, ServerTypeOK, Steps
  <2>4. ServerTypeOK'
    BY <2>1, <2>3 DEF CallsInv, ServerTypeOK
  <2>5. PoolInv'
    BY <2>1, PoolStays DEF CallsInv, StepTo, ServerTypeOK, Queues
  <2> QED BY <2>1, <2>2, <2>3, <2>4, <2>5, Moved DEF Early
<1>3. CASE SubmitRequest(r)
  <2>1. CASE shutdown = "closed" /\ Undefined
    BY <2>1, Gone
  <2>2. CASE ~(shutdown = "closed" /\ Undefined)
    <3>1. /\ step[r] = "offered"
          /\ UNCHANGED <<method, tasks, reply, phase, doomed, undefined>>
          /\ UNCHANGED <<method, table, stored, failed, reported, abandoned, released, reply,
                         handed, phase, swept, doomed, shutdown, undefined>>
          /\ r \notin Calls => reply[Of[r]] = "HANDLE"
      BY <1>3, <2>2 DEF SubmitRequest, tasks, freeing, CallsInv, StepInv, AllRequests
    <3>2. CASE Pool!Enter(r) /\ UNCHANGED <<step, on_reader>>
      <4>1. /\ pending' = pending /\ open' \in BOOLEAN
            /\ inside' \cup active' \cup finished' \cup refused' \subseteq Jobs
        BY <1>1, <3>2, PoolMoves DEF CallsInv
      <4>2. ServerTypeOK'
        BY <3>1, <3>2, <4>1 DEF CallsInv, ServerTypeOK
      <4>3. UpInv' /\ SafeWhileUp'
        BY <3>1 DEF CallsInv, UpInv, SafeWhileUp, Known
      <4> QED BY <3>1, <3>2, <4>1, <4>2, <4>3, Quiet
    <3>3. CASE Pool!Accept(r) /\ StepTo(r, Accepted(r)) /\ on_reader' = Nobody
      <4> DEFINE s == Accepted(r)
      <4>1. s \in Queues
        BY DEF Accepted, Queues
      <4> HIDE DEF s
      <4>2. step' \in [AllRequests -> Steps] /\ s \in Steps /\ step'[r] = s
            /\ \A q \in AllRequests : q # r => step'[q] = step[q]
        BY <3>3, <4>1 DEF StepTo, CallsInv, ServerTypeOK, Steps, Queues, s
      <4>3. /\ pending' \in Seq(Jobs)
            /\ UNCHANGED <<open, active, finished, refused>> /\ inside' \subseteq Jobs
            /\ \A i, k \in DOMAIN pending' : pending'[i] = pending'[k] => i = k
            /\ \A i \in DOMAIN pending' :
                  \/ i \in DOMAIN pending /\ pending'[i] = pending[i] /\ pending[i] # r
                  \/ pending'[i] = r
        BY <1>1, <3>3, Queued DEF CallsInv
      <4>4. ServerTypeOK'
        BY <3>1, <3>3, <4>2, <4>3 DEF CallsInv, ServerTypeOK
      <4>5. PoolInv'
        BY <3>1, <4>1, <4>2, <4>3 DEF CallsInv, PoolInv
      <4>6. StepTo(r, s)
        BY <3>3 DEF s
      <4> QED BY <3>1, <4>1, <4>2, <4>4, <4>5, <4>6, Moved DEF Early, Queues
    <3>4. CASE /\ Pool!StartByCaller(r) \/ Pool!Refuse(r)
               /\ StepTo(r, "dispatch") /\ UNCHANGED on_reader
      <4>1. step' \in [AllRequests -> Steps] /\ "dispatch" \in Steps
            /\ \A q \in AllRequests : q # r => step'[q] = step[q]
        BY <3>4 DEF StepTo, CallsInv, ServerTypeOK, Steps
      <4>2. /\ pending' = pending /\ open' \in BOOLEAN
            /\ inside' \cup active' \cup finished' \cup refused' \subseteq Jobs
        BY <1>1, <3>4, PoolMoves DEF CallsInv
      <4>3. ServerTypeOK'
        BY <3>1, <3>4, <4>1, <4>2 DEF CallsInv, ServerTypeOK
      <4>4. PoolInv'
        BY <3>1, <4>1, <4>2, PoolStays DEF CallsInv, Queues
      <4> QED BY <3>1, <3>4, <4>1, <4>3, <4>4, Moved DEF Early
    <3> QED BY <1>3, <2>2, <3>2, <3>3, <3>4 DEF SubmitRequest
  <2> QED BY <2>1, <2>2
<1>4. CASE PublishReply(r)
  <2>1. CASE Undefined /\ ~HasMutex
    BY <2>1, Gone DEF HasMutex
  <2>2. CASE ~(Undefined /\ ~HasMutex)
    <3>1. /\ step[r] = "answer" /\ StepTo(r, "done") /\ EndJob(r)
          /\ handed' \in {handed, handed \cup ({r} \cap Calls)}
          /\ on_reader' = IF on_reader = r THEN Nobody ELSE on_reader
          /\ UNCHANGED <<method, tasks, reply, phase, doomed, undefined>>
          /\ UNCHANGED <<method, table, stored, failed, reported, abandoned, released, reply,
                         phase, swept, doomed, shutdown, undefined>>
      BY <1>4, <2>2 DEF PublishReply, tasks, freeing
    <3>2. step' \in [AllRequests -> Steps] /\ "done" \in Steps
          /\ \A q \in AllRequests : q # r => step'[q] = step[q]
      BY <3>1 DEF StepTo, CallsInv, ServerTypeOK, Steps
    <3>3. /\ pending' = pending /\ open' \in BOOLEAN
          /\ inside' \cup active' \cup finished' \cup refused' \subseteq Jobs
      BY <1>1, <3>1, PoolMoves DEF CallsInv
    <3>4. handed' \subseteq Calls /\ on_reader' \in AllRequests \cup {Nobody}
      BY <3>1 DEF CallsInv, ServerTypeOK
    <3>5. ServerTypeOK'
      BY <3>1, <3>2, <3>3, <3>4 DEF CallsInv, ServerTypeOK
    <3>6. PoolInv'
      BY <3>1, <3>2, <3>3, PoolStays DEF CallsInv, Queues
    <3> QED BY <3>1, <3>2, <3>5, <3>6, Moved DEF Early
  <2> QED BY <2>1, <2>2
<1> QED BY <1>2, <1>3, <1>4

\* A worker takes a request from the pool.
LEMMA RequestStarts == ASSUME CallsInv, StartRequest PROVE CallsInv'
<1> DEFINE r == Head(pending)
<1>1. /\ Pool!Start /\ r \in AllRequests /\ StepTo(r, "dispatch")
      /\ UNCHANGED <<method, tasks, reply, phase, doomed, undefined>>
      /\ UNCHANGED <<on_reader, method, table, stored, failed, reported, abandoned,
                     released, reply, handed, phase, swept, doomed, shutdown, undefined>>
  BY DEF StartRequest, tasks, freeing
<1>2. /\ pending' \in Seq(Jobs) /\ active' \subseteq Jobs
      /\ UNCHANGED <<open, inside, finished, refused>>
      /\ \A i, j \in DOMAIN pending' : pending'[i] = pending'[j] => i = j
      /\ \A i \in DOMAIN pending' :
            i + 1 \in DOMAIN pending /\ pending'[i] = pending[i + 1] /\ pending'[i] # r
      /\ 1 \in DOMAIN pending /\ r = pending[1]
  BY <1>1, Dequeued DEF CallsInv
<1> HIDE DEF r
<1>3. step' \in [AllRequests -> Steps] /\ "dispatch" \in Steps
      /\ \A q \in AllRequests : q # r => step'[q] = step[q]
  BY <1>1 DEF StepTo, CallsInv, ServerTypeOK, Steps
<1>4. step[r] \in Queues
  <2>1. \A c \in Calls : r # Method(c)
    BY <1>1, CallsAssumption DEF CallsInv, CallsAssumption
  <2> QED BY <1>2, <2>1 DEF CallsInv, PoolInv
<1>5. ServerTypeOK'
  BY <1>1, <1>2, <1>3 DEF CallsInv, ServerTypeOK
<1>6. PoolInv'
  BY <1>1, <1>2, <1>3 DEF CallsInv, PoolInv
<1>7. r \notin Calls => reply[Of[r]] = "HANDLE"
  BY <1>1, <1>4 DEF CallsInv, StepInv, AllRequests, Queues
<1> QED BY <1>1, <1>3, <1>4, <1>5, <1>6, <1>7, Moved DEF Early, Queues

-----------------------------------------------------------------------------
(* Queries                                                                 *)

\* What one request is told, and where it goes.
LEMMA Replied ==
    ASSUME CallsInv, NEW r \in AllRequests, NEW a \in Replies, AnswerWith(r, a)
    PROVE  /\ step' \in [AllRequests -> Steps] /\ reply' \in [AllRequests -> Replies]
           /\ step'[r] = "answer" /\ reply'[r] = a
           /\ \A q \in AllRequests : q # r => step'[q] = step[q] /\ reply'[q] = reply[q]
<1>1. "answer" \in Steps
  BY DEF Steps
<1> QED BY <1>1 DEF AnswerWith, StepTo, CallsInv, ServerTypeOK

\* A query is answered.  Unless it is told an outcome nothing else changes; then
\* the task leaves the table and is freed.
LEMMA QueryAnswered ==
    ASSUME CallsInv, NEW q \in Statuses \cup Results, step[q] = "dispatch",
           NEW a \in Replies \ {"none", "HANDLE"}, AnswerWith(q, a),
           UNCHANGED <<service, on_reader, method, stored, failed, reported, abandoned,
                       handed, freeing, undefined>>,
           \/ /\ a \notin {"FINISHED", "ERROR"} /\ UNCHANGED <<table, released>>
              /\ a = "NOT_FOUND" => ~Known(Of[q])
           \/ /\ a = Outcome(Of[q]) /\ a \in {"FINISHED", "ERROR"} /\ q \in Results
              /\ Known(Of[q]) /\ Of[q] \in stored /\ Unlink(Of[q]) /\ Release(Of[q])
    PROVE  CallsInv'
<1> DEFINE c == Of[q]
<1>1. /\ q \in AllRequests /\ q \notin Calls /\ c \in Calls
      /\ \A d \in Calls : d \in AllRequests /\ d # q
      /\ \A p \in Statuses \cup Results : Of[p] \in Calls /\ p \in AllRequests
      /\ \A p \in Statuses : p \notin Results
  BY CallsAssumption DEF CallsInv, AllRequests, CallsAssumption
<1>2. /\ step' \in [AllRequests -> Steps] /\ reply' \in [AllRequests -> Replies]
      /\ step'[q] = "answer" /\ reply'[q] = a
      /\ \A p \in AllRequests : p # q => step'[p] = step[p] /\ reply'[p] = reply[p]
  BY <1>1, Replied
<1>3. UNCHANGED <<open, inside, pending, active, finished, refused, phase, swept, doomed, shutdown>>
  BY DEF service, freeing
<1>4. /\ table' \in Seq(Calls)
      /\ \A i, j \in DOMAIN table' : table'[i] = table'[j] => i = j
      /\ \A d \in Calls : Known(d)' <=> Known(d) /\ (Told(q)' => d # c)
  <2>1. CASE UNCHANGED table /\ ~Told(q)'
    BY <2>1 DEF CallsInv, ServerTypeOK, TableInv, Known
  <2>2. CASE Known(c) /\ Unlink(c) /\ Told(q)'
    BY <1>1, <2>2, Unlinked DEF CallsInv
  <2> QED BY <1>2, <2>1, <2>2 DEF Told
<1>5. released' \subseteq Calls /\ released' \in {released, released \cup {c}}
      /\ (~Told(q)' => released' = released) /\ (released' # released => Told(q)')
  BY <1>1, <1>2 DEF CallsInv, ServerTypeOK, Release, Told
<1>6. reply[q] = "none" /\ reply[c] = "HANDLE" /\ step[c] \in {"answer", "done"}
  BY <1>1 DEF CallsInv, StepInv, Early
<1>7. Told(q)' => q \in Results /\ Known(c) /\ c \in stored /\ a = Outcome(c)
  BY <1>2 DEF Told
<1> HIDE DEF c
<1>8. ServerTypeOK'
  BY <1>2, <1>3, <1>4, <1>5 DEF CallsInv, ServerTypeOK
<1>9. PoolInv'
  BY <1>2, <1>3, PoolStays DEF CallsInv, Queues
<1>10. StepInv'
  <2>1. \A p \in Statuses : ~Told(p)'
    BY <1>1, <1>2, <1>7 DEF CallsInv, StepInv, Told
  <2>2. \A p \in Statuses \cup Results : step'[p] # "unsent" => reply'[Of[p]] = "HANDLE"
    BY <1>1, <1>2, <1>6 DEF CallsInv, StepInv, c
  <2>3. \A d \in Calls : step'[d] = step[d] /\ reply'[d] = reply[d]
    BY <1>1, <1>2
  <2>4. \A p \in AllRequests : step'[p] \in Early => reply'[p] = "none"
    BY <1>2 DEF CallsInv, StepInv, Early
  <2>5. \A p \in AllRequests : step'[p] \in Entering \cup {"inline"} => p \in Calls
    BY <1>2 DEF CallsInv, StepInv, Entering
  <2> QED BY <2>1, <2>2, <2>3, <2>4, <2>5 DEF CallsInv, StepInv
<1>11. \A p \in Results : Told(p) => Told(p)' /\ reply'[p] = reply[p] /\ p # q
  BY <1>1, <1>2, <1>6 DEF Told
<1>12. \A d \in Calls : Collected(d) => Collected(d)'
  BY <1>11 DEF Collected
<1>13. Told(q)' => Collected(c)'
  BY <1>7 DEF Collected, c
<1>14. TableInv'
  <2>1. ASSUME NEW d \in Calls, step'[d] \in Entering \cup {"inline"} \/ reply'[d] = "HANDLE"
        PROVE  Known(d)' \/ Collected(d)'
    <3>1. Known(d) \/ Collected(d)
      BY <1>1, <1>2, <2>1 DEF CallsInv, TableInv
    <3> QED BY <1>4, <1>12, <1>13, <3>1
  <2>2. \A d \in Calls : Known(d)' => step'[d] \notin Early
    BY <1>1, <1>2, <1>4 DEF CallsInv, TableInv
  <2> QED BY <1>4, <2>1, <2>2 DEF CallsInv, TableInv
<1>15. ToldInv'
  <2>1. ASSUME NEW p \in Results, Told(p)'
        PROVE  /\ ~Known(Of[p])' /\ step'[Of[p]] \notin Early
               /\ Of[p] \in stored /\ reply'[p] = Outcome(Of[p])
    <3>1. CASE p = q
      BY <1>1, <1>2, <1>4, <1>6, <1>7, <2>1, <3>1 DEF c, Early
    <3>2. CASE p # q
      <4>1. Told(p) /\ reply'[p] = reply[p]
        BY <1>1, <1>2, <2>1, <3>2 DEF Told
      <4> QED BY <1>1, <1>2, <1>4, <4>1 DEF CallsInv, ToldInv
    <3> QED BY <3>1, <3>2
  <2> QED BY <2>1 DEF ToldInv, Outcome
<1>16. UpInv' /\ SafeWhileUp'
  <2>1. \A d \in released : d \in Calls
    BY DEF CallsInv, ServerTypeOK
  <2> QED BY <1>1, <1>3, <1>4, <1>5, <1>7, <2>1 DEF CallsInv, UpInv, SafeWhileUp
<1>17. OutcomeOnce'
  <2>1. \A p \in Results : Told(p) => (Told(q)' => Of[p] # c)
    BY <1>7 DEF CallsInv, ToldInv
  <2>2. \A p \in Results : Told(p)' => p = q \/ Told(p)
    BY <1>1, <1>2 DEF Told
  <2> QED BY <1>1, <2>1, <2>2 DEF CallsInv, OutcomeOnce, Told, c
<1>18. HandleWorks'
  <2>1. ASSUME NEW p \in Statuses \cup Results, reply'[p] = "NOT_FOUND"
        PROVE  \E o \in Results : p # o /\ Of[o] = Of[p] /\ Told(o)'
    <3>1. CASE p = q
      <4>1. Collected(c)
        BY <1>1, <1>2, <1>6, <2>1, <3>1 DEF CallsInv, TableInv, c, Outcome
      <4> QED BY <1>11, <3>1, <4>1 DEF Collected, c
    <3>2. CASE p # q
      <4>1. reply[p] = "NOT_FOUND"
        BY <1>1, <1>2, <2>1, <3>2
      <4> QED BY <1>11, <4>1 DEF CallsInv, HandleWorks, Told
    <3> QED BY <3>1, <3>2
  <2> QED BY <2>1 DEF HandleWorks, Told
<1> QED BY <1>8, <1>9, <1>10, <1>14, <1>15, <1>16, <1>17, <1>18 DEF CallsInv

\* A status query.
LEMMA StatusStep == ASSUME CallsInv, NEW q \in AllRequests, Status(q) PROVE CallsInv'
<1>1. CASE Unsafe(Of[q]) /\ Undefined
  <2>1. q \in Statuses /\ Of[q] \in Calls
    BY CallsAssumption DEF CallsInv, Status, CallsAssumption
  <2>2. phase # "up"
    BY <1>1, <2>1 DEF Unsafe, HasMutex, CallsInv, UpInv
  <2> QED BY <1>1, <2>2, Gone
<1>2. CASE ~(Unsafe(Of[q]) /\ Undefined)
  <2> DEFINE a == CASE ~Known(Of[q])        -> "NOT_FOUND"
                    [] Of[q] \in reported   -> "EXECUTING"
                    [] Of[q] \in stored     -> "STOPPED"
                    [] OTHER                -> "EXECUTING"
  <2>1. /\ q \in Statuses /\ step[q] = "dispatch" /\ AnswerWith(q, a)
        /\ UNCHANGED <<service, on_reader, method, tasks, handed, freeing,
                       undefined>>
    BY <1>2 DEF Status
  <2>2. a \in {"NOT_FOUND", "EXECUTING", "STOPPED"} /\ (a = "NOT_FOUND" => ~Known(Of[q]))
    OBVIOUS
  <2> HIDE DEF a
  <2> QED BY <2>1, <2>2, QueryAnswered DEF tasks, Replies
<1> QED BY <1>1, <1>2

\* A result query.
LEMMA ResultStep == ASSUME CallsInv, NEW q \in AllRequests, Result(q) PROVE CallsInv'
<1>1. q \in Results /\ Of[q] \in Calls /\ step[q] = "dispatch"
  BY CallsAssumption DEF CallsInv, Result, CallsAssumption
<1>2. CASE Unsafe(Of[q]) /\ Undefined
  <2>1. phase # "up"
    BY <1>1, <1>2 DEF Unsafe, HasMutex, CallsInv, UpInv
  <2> QED BY <1>2, <2>1, Gone
<1>3. CASE ~(Unsafe(Of[q]) /\ Undefined)
  <2>1. UNCHANGED <<service, on_reader, method, stored, failed, reported, abandoned,
                    handed, freeing, undefined>>
    BY <1>3 DEF Result
  <2>2. CASE Known(Of[q]) /\ Of[q] \in stored
    <3>1. AnswerWith(q, Outcome(Of[q])) /\ Unlink(Of[q]) /\ Release(Of[q])
      BY <1>3, <2>2 DEF Result
    <3>2. Outcome(Of[q]) \in {"FINISHED", "ERROR"}
      BY DEF Outcome
    <3>3. Outcome(Of[q]) \in Replies \ {"none", "HANDLE"}
      BY <3>2 DEF Replies
    <3> QED BY <1>1, <2>1, <2>2, <3>1, <3>2, <3>3, QueryAnswered
  <2>3. CASE ~(Known(Of[q]) /\ Of[q] \in stored)
    <3> DEFINE a == IF Known(Of[q]) THEN "PENDING" ELSE "NOT_FOUND"
    <3>1. AnswerWith(q, a) /\ UNCHANGED <<table, released>>
      BY <1>3, <2>3 DEF Result
    <3>2. a \in {"PENDING", "NOT_FOUND"} /\ (a = "NOT_FOUND" => ~Known(Of[q]))
      OBVIOUS
    <3> HIDE DEF a
    <3> QED BY <1>1, <2>1, <3>1, <3>2, QueryAnswered DEF Replies
  <2> QED BY <2>2, <2>3
<1> QED BY <1>2, <1>3

-----------------------------------------------------------------------------
(* Calls                                                                   *)

\* A call is answered, or its method moves on, while nothing else happens.
LEMMA CallMoves ==
    ASSUME CallsInv, ServerTypeOK', PoolInv', NEW c \in Calls,
           \A r \in AllRequests : r # c => step'[r] = step[r] /\ reply'[r] = reply[r],
           \A d \in Calls : d # c => method'[d] = method[d],
           step'[c] \notin Early \/ step'[c] = step[c],
           step'[c] \in Entering => step[c] \in Entering /\ method'[c] = "none",
           step'[c] \in Early => method'[c] = "none",
           step'[c] = "inline" => step[c] \in Entering \cup {"inline"},
           \/ reply'[c] = reply[c] /\ (step'[c] = step[c] \/ reply[c] # "HANDLE")
           \/ reply'[c] = "HANDLE" /\ step'[c] = "answer" /\ step[c] \in Entering \cup {"inline"}
           \/ reply'[c] = "NOT_FOUND" /\ step'[c] = "answer" /\ step[c] = "dispatch",
           c \in stored => method'[c] = "done",
           UNCHANGED <<tasks, phase, doomed, undefined>>,
           shutdown' = "no" <=> shutdown = "no"
    PROVE  CallsInv'
<1>1. UNCHANGED <<table, stored, failed, abandoned, released, phase, doomed>>
  BY DEF tasks
<1>2. /\ \A d \in Calls : d \in AllRequests
      /\ \A q \in Statuses \cup Results : q \in AllRequests /\ q # c /\ Of[q] \in Calls
  BY CallsAssumption DEF CallsInv, AllRequests, CallsAssumption
<1>3. \A r \in AllRequests : step'[r] \in Early => step[r] = step'[r] /\ reply'[r] = reply[r]
  BY <1>2 DEF CallsInv, StepInv, Early
<1>4. StepInv'
  <2>1. \A d \in Calls : reply'[d] \in {"none", "HANDLE", "NOT_FOUND"}
    BY <1>2 DEF CallsInv, StepInv
  <2>2. \A d \in Calls : reply'[d] = "HANDLE" => step'[d] \in {"answer", "done"}
    BY <1>2 DEF CallsInv, StepInv
  <2>3. \A d \in Calls : step'[d] \in Early \cup Entering => method'[d] = "none"
    BY <1>2 DEF CallsInv, StepInv
  <2>4. \A r \in AllRequests : step'[r] \in Early => reply'[r] = "none"
    BY <1>3 DEF CallsInv, StepInv
  <2>5. \A r \in AllRequests : step'[r] \in Entering \cup {"inline"} => r \in Calls
    BY DEF CallsInv, StepInv
  <2>6. \A q \in Statuses : ~Told(q)'
    BY <1>2 DEF CallsInv, StepInv, Told
  <2>7. \A q \in Statuses \cup Results : step'[q] # "unsent" => reply'[Of[q]] = "HANDLE"
    <3>1. reply[c] = "HANDLE" => reply'[c] = "HANDLE"
      BY DEF CallsInv, StepInv, Early
    <3> QED BY <1>2, <3>1 DEF CallsInv, StepInv
  <2> QED BY <2>1, <2>2, <2>3, <2>4, <2>5, <2>6, <2>7 DEF StepInv
<1>5. \A d \in Calls : (Known(d)' <=> Known(d))
  BY <1>1 DEF Known
<1>6. \A q \in Results : reply'[q] = reply[q]
  BY <1>2
<1>7. \A d \in Calls : Collected(d) => Collected(d)'
  BY <1>6 DEF Collected, Told
<1>8. TableInv'
  <2>1. \A d \in Calls : Known(d)' => step'[d] \notin Early
    BY <1>2, <1>3, <1>5 DEF CallsInv, TableInv
  <2>2. ASSUME NEW d \in Calls, step'[d] \in Entering \cup {"inline"} \/ reply'[d] = "HANDLE"
        PROVE  Known(d)' \/ Collected(d)'
    <3>1. step[d] \in Entering \cup {"inline"} \/ reply[d] = "HANDLE"
      BY <1>2, <2>2
    <3> QED BY <1>5, <1>7, <3>1 DEF CallsInv, TableInv
  <2>3. \A d \in stored : method'[d] = "done"
    BY DEF CallsInv, TableInv, ServerTypeOK
  <2> QED BY <1>1, <2>1, <2>2, <2>3 DEF CallsInv, TableInv
<1>9. ToldInv'
  <2>1. ASSUME NEW q \in Results, Told(q)
        PROVE  ~Known(Of[q])' /\ step'[Of[q]] \notin Early
    <3>1. ~Known(Of[q]) /\ step[Of[q]] \notin Early
      BY <2>1 DEF CallsInv, ToldInv
    <3> QED BY <1>2, <1>3, <1>5, <3>1
  <2> QED BY <1>1, <1>6, <2>1 DEF CallsInv, ToldInv, Told, Outcome
<1>10. UpInv' /\ SafeWhileUp'
  BY <1>1 DEF CallsInv, UpInv, SafeWhileUp, Known
<1>11. OutcomeOnce' /\ HandleWorks'
  BY <1>2, <1>6 DEF CallsInv, OutcomeOnce, HandleWorks
<1> QED BY <1>4, <1>8, <1>9, <1>10, <1>11 DEF CallsInv

\* The call is refused, or its task is entered.
LEMMA RegisterStep == ASSUME CallsInv, NEW c \in Calls, Register(c) PROVE CallsInv'
<1>1. /\ c \in AllRequests /\ step[c] = "dispatch" /\ reply[c] = "none" /\ method[c] = "none"
      /\ ~Known(c) /\ c \notin stored
  BY DEF Register, AllRequests, CallsInv, StepInv, TableInv, Early
<1>2. CASE ~HasMethods /\ Undefined
  BY <1>2, Gone DEF HasMethods
<1>3. CASE AnswerWith(c, "NOT_FOUND") /\ UNCHANGED <<service, on_reader, method, tasks,
                                                   handed, freeing, undefined>>
  <2>1. /\ step' \in [AllRequests -> Steps] /\ reply' \in [AllRequests -> Replies]
        /\ step'[c] = "answer" /\ reply'[c] = "NOT_FOUND"
        /\ \A q \in AllRequests : q # c => step'[q] = step[q] /\ reply'[q] = reply[q]
    BY <1>1, <1>3, Replied DEF Replies
  <2>2. ServerTypeOK'
    BY <1>3, <2>1 DEF CallsInv, ServerTypeOK, service, tasks, freeing
  <2>3. PoolInv'
    BY <1>1, <1>3, <2>1, PoolStays DEF CallsInv, service, Queues
  <2>4. UNCHANGED <<tasks, phase, doomed, shutdown, undefined>>
    BY <1>3 DEF freeing
  <2> QED BY <1>1, <1>3, <2>1, <2>2, <2>3, <2>4, CallMoves DEF Early, Entering
<1>4. CASE /\ table' = Append(table, c) /\ StepTo(c, "registered")
           /\ UNCHANGED <<service, on_reader, method, stored, failed, reported,
                          abandoned, released, reply, handed, freeing, undefined>>
  <2>1. /\ step' \in [AllRequests -> Steps] /\ step'[c] = "registered"
        /\ \A q \in AllRequests : q # c => step'[q] = step[q]
    BY <1>1, <1>4 DEF CallsInv, ServerTypeOK, StepTo, Steps
  <2>2. /\ table' \in Seq(Calls)
        /\ \A i, j \in DOMAIN table' : table'[i] = table'[j] => i = j
        /\ \A d \in Calls : Known(d)' <=> Known(d) \/ d = c
    BY <1>1, <1>4, Entered DEF CallsInv
  <2>3. ServerTypeOK'
    BY <1>4, <2>1, <2>2 DEF CallsInv, ServerTypeOK, service, freeing
  <2>4. PoolInv'
    BY <1>1, <1>4, <2>1, PoolStays DEF CallsInv, service, Queues
  <2>5. /\ \A d \in Calls : d \in AllRequests
        /\ \A q \in Statuses \cup Results : q \in AllRequests /\ q # c /\ Of[q] \in Calls
    BY CallsAssumption DEF CallsInv, AllRequests, CallsAssumption
  <2>6. StepInv'
    BY <1>1, <1>4, <2>1, <2>5 DEF CallsInv, StepInv, Told, Early, Entering
  <2>7. TableInv'
    <3>1. \A d \in Calls : Known(d)' => step'[d] \notin Early
      BY <2>1, <2>2, <2>5 DEF CallsInv, TableInv, Early
    <3>2. ASSUME NEW d \in Calls, step'[d] \in Entering \cup {"inline"} \/ reply'[d] = "HANDLE"
          PROVE  Known(d)' \/ Collected(d)'
      <4>1. CASE d = c
        BY <2>2, <4>1
      <4>2. CASE d # c
        <5>1. Known(d) \/ Collected(d)
          BY <1>4, <2>1, <2>5, <3>2, <4>2 DEF CallsInv, TableInv
        <5> QED BY <1>4, <2>2, <5>1 DEF Collected, Told
      <4> QED BY <4>1, <4>2
    <3> QED BY <1>4, <2>2, <3>1, <3>2 DEF CallsInv, TableInv
  <2>8. ToldInv'
    <3>1. ASSUME NEW q \in Results, Told(q)
          PROVE  ~Known(Of[q])' /\ step'[Of[q]] \notin Early
      <4>1. ~Known(Of[q]) /\ step[Of[q]] \notin Early /\ Of[q] # c
        BY <1>1, <3>1 DEF CallsInv, ToldInv, Early
      <4> QED BY <2>1, <2>2, <2>5, <4>1
    <3> QED BY <1>4, <3>1 DEF CallsInv, ToldInv, Told, Outcome
  <2>9. UpInv' /\ SafeWhileUp'
    <3>1. \A d \in released : d \in Calls
      BY DEF CallsInv, ServerTypeOK
    <3> QED BY <1>1, <1>4, <2>2, <3>1 DEF CallsInv, UpInv, SafeWhileUp, freeing
  <2>10. OutcomeOnce' /\ HandleWorks'
    BY <1>4 DEF CallsInv, OutcomeOnce, HandleWorks
  <2> QED BY <2>3, <2>4, <2>6, <2>7, <2>8, <2>9, <2>10 DEF CallsInv
<1> QED BY <1>2, <1>3, <1>4 DEF Register

\* The call asks for the service, to submit its method.
LEMMA CallAsks ==
    ASSUME CallsInv, NEW c \in Calls, GetService(c), step[c] = "registered"
    PROVE  CallsInv'
<1>1. /\ c \in AllRequests /\ method[c] = "none" /\ c \notin stored
      /\ open' = TRUE /\ shutdown' \in {"no", "renewed"} /\ StepTo(c, "submitting")
      /\ shutdown' = "no" <=> shutdown = "no"
      /\ UNCHANGED <<tasks, phase, doomed, undefined>>
      /\ UNCHANGED <<inside, pending, active, finished, refused, on_reader, method, table,
                     stored, failed, reported, abandoned, released, reply, handed, phase,
                     swept, doomed, undefined>>
  BY DEF GetService, AllRequests, CallsInv, StepInv, TableInv, Entering, tasks
<1>2. reply[c] # "HANDLE"
  BY <1>1 DEF CallsInv, StepInv
<1>3. /\ step' \in [AllRequests -> Steps] /\ step'[c] = "submitting"
      /\ \A q \in AllRequests : q # c => step'[q] = step[q]
  BY <1>1 DEF CallsInv, ServerTypeOK, StepTo, Steps
<1>4. ServerTypeOK'
  BY <1>1, <1>3 DEF CallsInv, ServerTypeOK
<1>5. PoolInv'
  BY <1>1, <1>3, PoolStays DEF CallsInv, Queues
<1> QED BY <1>1, <1>2, <1>3, <1>4, <1>5, CallMoves DEF Early, Entering

\* The method is handed to the pool, or runs before the call is answered.
LEMMA SubmitStep == ASSUME CallsInv, NEW c \in Calls, SubmitMethod(c) PROVE CallsInv'
<1>1. CASE shutdown = "closed" /\ Undefined
  BY <1>1, Gone
<1>2. CASE ~(shutdown = "closed" /\ Undefined)
  <2>1. /\ c \in AllRequests /\ step[c] = "submitting" /\ method[c] = "none"
        /\ c \notin stored /\ Method(c) \in Jobs
        /\ UNCHANGED <<on_reader, tasks, handed, freeing, undefined>>
        /\ UNCHANGED <<table, stored, failed, reported, abandoned, released, phase, swept,
                       doomed, shutdown>>
    BY <1>2 DEF SubmitMethod, AllRequests, Jobs, CallsInv, StepInv, TableInv, Entering,
                tasks, freeing
  <2>2. reply[c] # "HANDLE"
    BY <2>1 DEF CallsInv, StepInv
  <2>3. CASE Pool!Enter(Method(c)) /\ UNCHANGED <<step, method, reply>>
    <3>1. /\ pending' = pending /\ open' \in BOOLEAN
          /\ inside' \cup active' \cup finished' \cup refused' \subseteq Jobs
      BY <2>1, <2>3, PoolMoves DEF CallsInv
    <3>2. ServerTypeOK'
      BY <2>1, <2>3, <3>1 DEF CallsInv, ServerTypeOK
    <3>3. UpInv' /\ SafeWhileUp'
      BY <2>1 DEF CallsInv, UpInv, SafeWhileUp, Known
    <3> QED BY <2>1, <2>3, <3>1, <3>2, <3>3, Quiet
  <2>4. CASE /\ Pool!Accept(Method(c)) /\ AnswerWith(c, "HANDLE")
             /\ method' = [method EXCEPT ![c] = Accepted(c)]
    <3>1. /\ step' \in [AllRequests -> Steps] /\ reply' \in [AllRequests -> Replies]
          /\ step'[c] = "answer" /\ reply'[c] = "HANDLE"
          /\ \A q \in AllRequests : q # c => step'[q] = step[q] /\ reply'[q] = reply[q]
      BY <2>1, <2>4, Replied DEF Replies
    <3>2. /\ method' \in [Calls -> {"none", "queued", "late", "running", "done"}]
          /\ method'[c] \in Queues
          /\ \A d \in Calls : d # c => method'[d] = method[d]
      BY <2>4 DEF CallsInv, ServerTypeOK, Accepted, Queues
    <3>3. /\ pending' \in Seq(Jobs)
          /\ UNCHANGED <<open, active, finished, refused>> /\ inside' \subseteq Jobs
          /\ \A i, k \in DOMAIN pending' : pending'[i] = pending'[k] => i = k
          /\ \A i \in DOMAIN pending' :
                \/ i \in DOMAIN pending /\ pending'[i] = pending[i] /\ pending[i] # Method(c)
                \/ pending'[i] = Method(c)
      BY <2>1, <2>4, Queued DEF CallsInv
    <3>4. ServerTypeOK'
      BY <2>1, <3>1, <3>2, <3>3 DEF CallsInv, ServerTypeOK
    <3>5. PoolInv'
      <4>1. ASSUME NEW i \in DOMAIN pending'
            PROVE  \/ pending'[i] \in AllRequests /\ step'[pending'[i]] \in Queues
                   \/ \E d \in Calls : pending'[i] = Method(d) /\ method'[d] \in Queues
        BY <2>1, <3>1, <3>2, <3>3 DEF CallsInv, PoolInv, Queues
      <4> QED BY <3>3, <4>1 DEF PoolInv
    <3> QED BY <2>1, <3>1, <3>2, <3>4, <3>5, CallMoves DEF Early, Entering
  <2>5. CASE /\ Pool!StartByCaller(Method(c)) \/ Pool!Refuse(Method(c))
             /\ StepTo(c, "inline") /\ method' = [method EXCEPT ![c] = "running"]
             /\ UNCHANGED reply
    <3>1. /\ step' \in [AllRequests -> Steps] /\ step'[c] = "inline"
          /\ \A q \in AllRequests : q # c => step'[q] = step[q]
      BY <2>1, <2>5 DEF CallsInv, ServerTypeOK, StepTo, Steps
    <3>2. /\ method' \in [Calls -> {"none", "queued", "late", "running", "done"}]
          /\ method'[c] = "running"
          /\ \A d \in Calls : d # c => method'[d] = method[d]
      BY <2>5 DEF CallsInv, ServerTypeOK
    <3>3. /\ pending' = pending /\ open' \in BOOLEAN
          /\ inside' \cup active' \cup finished' \cup refused' \subseteq Jobs
      BY <2>1, <2>5, PoolMoves DEF CallsInv
    <3>4. ServerTypeOK'
      BY <2>1, <2>5, <3>1, <3>2, <3>3 DEF CallsInv, ServerTypeOK
    <3>5. PoolInv'
      BY <2>1, <3>1, <3>2, <3>3, PoolStays DEF CallsInv, Queues
    <3> QED BY <2>1, <2>2, <2>5, <3>1, <3>2, <3>4, <3>5, CallMoves DEF Early, Entering
  <2> QED BY <1>2, <2>3, <2>4, <2>5 DEF SubmitMethod
<1> QED BY <1>1, <1>2

\* The method has run inside the request.
LEMMA InlineStep == ASSUME CallsInv, NEW c \in Calls, InlineDone(c) PROVE CallsInv'
<1>1. /\ c \in AllRequests /\ step[c] = "inline" /\ AnswerWith(c, "HANDLE")
      /\ UNCHANGED <<service, on_reader, method, tasks, handed, freeing,
                     undefined>>
      /\ UNCHANGED <<open, inside, pending, active, finished, refused, on_reader, method, table,
                     stored, failed, reported, abandoned, released, handed, phase, swept,
                     doomed, shutdown>>
      /\ c \in stored => method[c] = "done"
  BY DEF InlineDone, AllRequests, service, tasks, freeing, CallsInv, TableInv
<1>2. /\ step' \in [AllRequests -> Steps] /\ reply' \in [AllRequests -> Replies]
      /\ step'[c] = "answer" /\ reply'[c] = "HANDLE"
      /\ \A q \in AllRequests : q # c => step'[q] = step[q] /\ reply'[q] = reply[q]
  BY <1>1, Replied DEF Replies
<1>3. ServerTypeOK'
  BY <1>1, <1>2 DEF CallsInv, ServerTypeOK
<1>4. PoolInv'
  BY <1>1, <1>2, PoolStays DEF CallsInv, Queues
<1> QED BY <1>1, <1>2, <1>3, <1>4, CallMoves DEF Early, Entering

\* A worker takes a method from the pool.
LEMMA MethodStarts == ASSUME CallsInv, StartMethod PROVE CallsInv'
<1>1. CASE ~HasMethods /\ Undefined
  BY <1>1, Gone DEF HasMethods
<1>2. CASE ~(~HasMethods /\ Undefined)
  <2> DEFINE j == Head(pending)
  <2>1. /\ Pool!Start /\ j \notin AllRequests
        /\ method' = [method EXCEPT ![j.method] = "running"]
        /\ UNCHANGED <<tasks, freeing, undefined>>
        /\ UNCHANGED <<step, on_reader, table, stored, failed, reported, abandoned,
                       released, reply, handed, phase, swept, doomed, shutdown, undefined>>
    BY <1>2 DEF StartMethod, tasks, freeing
  <2>2. /\ pending' \in Seq(Jobs) /\ active' \subseteq Jobs
        /\ UNCHANGED <<open, inside, finished, refused>>
        /\ \A i, k \in DOMAIN pending' : pending'[i] = pending'[k] => i = k
        /\ \A i \in DOMAIN pending' :
              i + 1 \in DOMAIN pending /\ pending'[i] = pending[i + 1] /\ pending'[i] # j
        /\ 1 \in DOMAIN pending /\ j = pending[1]
    BY <2>1, Dequeued DEF CallsInv
  <2> HIDE DEF j
  <2>3. PICK c \in Calls : j = Method(c) /\ method[c] \in Queues
    BY <2>1, <2>2 DEF CallsInv, PoolInv
  <2>4. j.method = c
    BY <2>3 DEF Method
  <2>5. /\ method' \in [Calls -> {"none", "queued", "late", "running", "done"}] /\ method'[c] = "running"
        /\ \A d \in Calls : d # c => method'[d] = method[d]
    BY <2>1, <2>4 DEF CallsInv, ServerTypeOK
  <2>6. ServerTypeOK'
    BY <2>1, <2>2, <2>5 DEF CallsInv, ServerTypeOK
  <2>7. PoolInv'
    <3>1. ASSUME NEW i \in DOMAIN pending'
          PROVE  \/ pending'[i] \in AllRequests /\ step'[pending'[i]] \in Queues
                 \/ \E d \in Calls : pending'[i] = Method(d) /\ method'[d] \in Queues
      BY <2>1, <2>2, <2>3, <2>5 DEF CallsInv, PoolInv
    <3> QED BY <2>2, <3>1 DEF PoolInv
  <2>8. step[c] \notin Early \cup Entering /\ c \notin stored /\ c \in AllRequests
    BY <2>3 DEF CallsInv, StepInv, TableInv, AllRequests, Queues, Entering
  <2> QED BY <2>1, <2>5, <2>6, <2>7, <2>8, CallMoves DEF Entering
<1> QED BY <1>1, <1>2

\* A method returns: its outcome is stored, or its task was abandoned.
LEMMA MethodStep == ASSUME CallsInv, NEW c \in Calls, MethodReturns(c) PROVE CallsInv'
<1>1. method[c] = "running" /\ Method(c) \in Jobs /\ c \notin stored
  BY DEF MethodReturns, Jobs, CallsInv, TableInv
<1>2. CASE (~HasMutex \/ (c \in released)) /\ Undefined
  <2>1. phase # "up"
    BY <1>1, <1>2 DEF HasMutex, CallsInv, UpInv
  <2> QED BY <1>2, <2>1, Gone
<1>3. CASE ~((~HasMutex \/ (c \in released)) /\ Undefined)
  <2>1. /\ IF c \in abandoned
           THEN Release(c) /\ UNCHANGED <<stored, failed>>
           ELSE /\ stored' = stored \cup {c} /\ failed' \in {failed, failed \cup {c}}
                /\ UNCHANGED released
        /\ method' = [method EXCEPT ![c] = "done"] /\ EndJob(Method(c))
        /\ UNCHANGED <<step, on_reader, table, reported, abandoned, reply, handed,
                       phase, swept, doomed, shutdown, undefined>>
    BY <1>3 DEF MethodReturns, freeing
  <2>2. /\ method' \in [Calls -> {"none", "queued", "late", "running", "done"}] /\ method'[c] = "done"
        /\ \A d \in Calls : d # c => method'[d] = method[d]
    BY <2>1 DEF CallsInv, ServerTypeOK
  <2>3. /\ pending' = pending /\ open' \in BOOLEAN
        /\ inside' \cup active' \cup finished' \cup refused' \subseteq Jobs
    BY <1>1, <2>1, PoolMoves DEF CallsInv
  <2>4. /\ stored' \subseteq Calls
        /\ stored \subseteq stored' /\ stored' \subseteq stored \cup {c}
        /\ failed' \subseteq stored' /\ released' \subseteq Calls
        /\ \A d \in stored : d \in failed' <=> d \in failed
        /\ released' = released \/ c \in abandoned
    <3>1. CASE c \in abandoned
      BY <2>1, <3>1 DEF CallsInv, ServerTypeOK, Release
    <3>2. CASE c \notin abandoned
      BY <1>1, <2>1, <3>2 DEF CallsInv, ServerTypeOK
    <3> QED BY <3>1, <3>2
  <2>5. ServerTypeOK'
    BY <2>1, <2>2, <2>3, <2>4 DEF CallsInv, ServerTypeOK
  <2>6. PoolInv'
    BY <1>1, <2>1, <2>2, <2>3, PoolStays DEF CallsInv, Queues
  <2>7. StepInv'
    BY <1>1, <2>1, <2>2 DEF CallsInv, StepInv, Told, Entering
  <2>8. TableInv'
    BY <2>1, <2>2, <2>4 DEF CallsInv, TableInv, Known, Collected, Told
  <2>9. ToldInv'
    <3>1. \A q \in Results : Told(q) => Outcome(Of[q])' = Outcome(Of[q])
      BY <2>4 DEF CallsInv, ToldInv, Outcome
    <3> QED BY <2>1, <2>4, <3>1 DEF CallsInv, ToldInv, Known, Told
  <2>10. UpInv' /\ SafeWhileUp'
    BY <2>1, <2>4 DEF CallsInv, UpInv, SafeWhileUp, Known
  <2>11. OutcomeOnce' /\ HandleWorks'
    BY <2>1 DEF CallsInv, OutcomeOnce, HandleWorks
  <2> QED BY <2>5, <2>6, <2>7, <2>8, <2>9, <2>10, <2>11 DEF CallsInv
<1> QED BY <1>2, <1>3

-----------------------------------------------------------------------------
(* The server is freed                                                     *)

\* Progress reports, ncl_server_free and the end of the service.
LEMMA ServerStep ==
    ASSUME CallsInv,
           \/ \E c \in Calls : Report(c)
           \/ Free \/ FreeTask \/ Abandon \/ FreeDone \/ ClosePool \/ CloseEnds
    PROVE  CallsInv'
<1>1. CASE \E c \in Calls : Report(c)
  <2>1. /\ \E c \in Calls : reported' = reported \cup {c}
        /\ UNCHANGED <<open, inside, pending, active, finished, refused, step, on_reader, method,
                       table, stored, failed, abandoned, released, reply, handed, phase,
                       swept, doomed, shutdown, undefined>>
    BY <1>1 DEF Report, service, freeing
  <2>2. ServerTypeOK'
    BY <2>1 DEF CallsInv, ServerTypeOK
  <2> QED BY <2>1, <2>2, Quiet DEF CallsInv, UpInv, SafeWhileUp, Known
<1>2. CASE Free \/ FreeDone
  <2>1. /\ phase' \in {"freeing", "freed"}
        /\ UNCHANGED <<open, inside, pending, active, finished, refused, step, on_reader, method,
                       table, stored, failed, reported, abandoned, released, reply,
                       handed, swept, doomed, shutdown, undefined>>
    BY <1>2 DEF Free, FreeDone, service, tasks
  <2>2. ServerTypeOK'
    BY <2>1 DEF CallsInv, ServerTypeOK
  <2> QED BY <2>1, <2>2, Quiet DEF UpInv, SafeWhileUp
<1>3. CASE FreeTask
  <2> DEFINE c == table[swept + 1]
  <2>1. /\ phase = "freeing" /\ phase' = "freeing" /\ swept < Len(table)
        /\ IF c \in stored
           THEN Release(c) /\ swept' = swept + 1 /\ UNCHANGED doomed
           ELSE doomed' = c /\ UNCHANGED <<swept, released>>
        /\ UNCHANGED <<open, inside, pending, active, finished, refused, step, on_reader, method,
                       table, stored, failed, reported, abandoned, reply, handed,
                       shutdown, undefined>>
    BY <1>3 DEF FreeTask, service
  <2>2. c \in Calls
    <3>1. table \in Seq(Calls) /\ swept \in Nat /\ Len(table) \in Nat
      BY LenProperties DEF CallsInv, ServerTypeOK
    <3>2. swept + 1 \in 1..Len(table)
      BY <2>1, <3>1
    <3> QED BY <3>1, <3>2, ElementOfSeq
  <2> HIDE DEF c
  <2>3. released' \subseteq Calls /\ swept' \in Nat /\ doomed' \in Calls \cup {Nobody}
    BY <2>1, <2>2 DEF CallsInv, ServerTypeOK, Release
  <2>4. ServerTypeOK'
    BY <2>1, <2>3 DEF CallsInv, ServerTypeOK
  <2> QED BY <2>1, <2>4, Quiet DEF UpInv, SafeWhileUp
<1>4. CASE Abandon
  <2>1. phase # "up"
    BY <1>4 DEF Abandon, CallsInv, UpInv
  <2>2. CASE doomed \in released /\ Undefined
    BY <2>1, <2>2, Gone
  <2>3. CASE ~(doomed \in released /\ Undefined)
    <3>1. /\ abandoned' = abandoned \cup {doomed} /\ swept' = swept + 1 /\ doomed' = Nobody
          /\ doomed # Nobody
          /\ UNCHANGED <<open, inside, pending, active, finished, refused, step, on_reader,
                         method, table, stored, failed, reported, released, reply, handed,
                         phase, shutdown, undefined>>
      BY <1>4, <2>3 DEF Abandon, service
    <3>2. abandoned' \subseteq Calls /\ swept' \in Nat
      BY <3>1 DEF CallsInv, ServerTypeOK
    <3>3. ServerTypeOK'
      BY <3>1, <3>2 DEF CallsInv, ServerTypeOK
    <3> QED BY <2>1, <3>1, <3>3, Quiet DEF UpInv, SafeWhileUp
  <2> QED BY <2>2, <2>3
<1>5. CASE ClosePool
  <2>1. /\ shutdown' = "closing"
        /\ UNCHANGED <<step, on_reader, method, table, stored, failed, reported, abandoned,
                       released, reply, handed, phase, swept, doomed, undefined>>
    BY <1>5 DEF ClosePool, tasks
  <2>2. /\ pending' = pending /\ open' \in BOOLEAN
        /\ inside' \cup active' \cup finished' \cup refused' \subseteq Jobs
    BY <1>5 DEF ClosePool, Pool!Close, CallsInv, ServerTypeOK
  <2>3. ServerTypeOK'
    BY <2>1, <2>2 DEF CallsInv, ServerTypeOK
  <2>4. UpInv' /\ SafeWhileUp'
    BY <2>1 DEF CallsInv, UpInv, SafeWhileUp, Known
  <2> QED BY <2>1, <2>2, <2>3, <2>4, Quiet
<1>6. CASE CloseEnds
  <2>1. CASE Undefined
    BY <1>6, <2>1, Gone DEF CloseEnds
  <2>2. CASE ~Undefined
    <3>1. /\ shutdown' = "closed" /\ pending' = <<>>
          /\ UNCHANGED <<open, inside, active, finished, refused, step, on_reader, method,
                         table, stored, failed, reported, abandoned, released, reply,
                         handed, phase, swept, doomed, undefined>>
      BY <1>6, <2>2 DEF CloseEnds, tasks
    <3>2. pending' \in Seq(Jobs) /\ DOMAIN pending' = {}
      BY <3>1, EmptySeq
    <3>3. ServerTypeOK'
      BY <3>1, <3>2 DEF CallsInv, ServerTypeOK
    <3>4. PoolInv'
      BY <3>2 DEF PoolInv
    <3>5. UpInv' /\ SafeWhileUp'
      BY <3>1 DEF CallsInv, UpInv, SafeWhileUp, Known
    <3> QED BY <3>1, <3>3, <3>4, <3>5, QuietTable
  <2> QED BY <2>1, <2>2
<1> QED BY <1>1, <1>2, <1>3, <1>4, <1>5, <1>6

-----------------------------------------------------------------------------
(* Theorems                                                                *)

\* A server that was just created.
LEMMA InitCalls == ASSUME ServerInit PROVE CallsInv
<1>1. /\ open = TRUE /\ inside = {} /\ pending = <<>> /\ active = {} /\ finished = {} /\ refused = {}
      /\ step = [r \in AllRequests |-> "unsent"] /\ on_reader = Nobody
      /\ method = [c \in Calls |-> "none"]
      /\ table = <<>> /\ stored = {} /\ failed = {} /\ reported = {} /\ abandoned = {}
      /\ released = {} /\ reply = [r \in AllRequests |-> "none"] /\ handed = {}
      /\ phase = "up" /\ swept = 0 /\ doomed = Nobody /\ shutdown = "no" /\ undefined = FALSE
  BY DEF ServerInit, Pool!SInit
<1>2. DOMAIN pending = {} /\ DOMAIN table = {} /\ pending \in Seq(Jobs) /\ table \in Seq(Calls)
  BY <1>1, EmptySeq
<1>3. ServerTypeOK
  BY <1>1, <1>2 DEF ServerTypeOK, Steps, Replies
<1>4. /\ \A c \in Calls : c \in AllRequests
      /\ \A q \in Statuses \cup Results : q \in AllRequests /\ Of[q] \in Calls
  BY CallsAssumption DEF AllRequests, CallsAssumption
<1>5. \A q \in Statuses \cup Results : reply[q] = "none"
  BY <1>1, <1>4
<1>6. PoolInv /\ UpInv /\ SafeWhileUp
  BY <1>1, <1>2 DEF PoolInv, UpInv, SafeWhileUp
<1>7. StepInv
  BY <1>1, <1>4, <1>5 DEF StepInv, Told, Entering, Early
<1>8. TableInv
  BY <1>1, <1>2, <1>4 DEF TableInv, Known, ToSet, Entering
<1>9. ToldInv /\ OutcomeOnce /\ HandleWorks
  BY <1>5 DEF ToldInv, Told, OutcomeOnce, HandleWorks
<1> QED BY <1>3, <1>6, <1>7, <1>8, <1>9 DEF CallsInv

\* Every step keeps the invariant.
LEMMA StepCalls == ASSUME CallsInv, [ServerNext]_server_vars PROVE CallsInv'
<1>1. CASE UNCHANGED server_vars
  <2>1. UNCHANGED <<open, inside, pending, active, finished, refused, step, on_reader, method,
                    table, stored, failed, reported, abandoned, released, reply, handed,
                    phase, swept, doomed, shutdown, undefined>>
    BY <1>1 DEF server_vars, service, tasks, freeing
  <2>2. ServerTypeOK'
    BY <2>1 DEF CallsInv, ServerTypeOK
  <2> QED BY <2>1, <2>2, Quiet DEF CallsInv, UpInv, SafeWhileUp, Known
<1>2. ASSUME NEW r \in AllRequests, Send(r) \/ Receive(r) \/ Work(r) PROVE CallsInv'
  <2>1. CASE GetService(r)
    <3>1. step[r] = "registered" => r \in Calls
      BY DEF CallsInv, StepInv, Entering
    <3> QED BY <2>1, <3>1, RequestMoves, CallAsks DEF GetService
  <2> QED BY <1>2, <2>1, RequestMoves, StatusStep, ResultStep, RegisterStep, SubmitStep,
             InlineStep DEF Work
<1>3. ASSUME NEW c \in Calls, MethodReturns(c) \/ Report(c) PROVE CallsInv'
  BY <1>3, MethodStep, ServerStep
<1>4. CASE StartRequest \/ StartMethod
  BY <1>4, RequestStarts, MethodStarts
<1>5. CASE Free \/ FreeTask \/ Abandon \/ FreeDone \/ ClosePool \/ CloseEnds
  BY <1>5, ServerStep
<1> QED BY <1>1, <1>2, <1>3, <1>4, <1>5 DEF ServerNext, ServerRest

\* The invariant of the device side's requests.
LEMMA CallsInvariant == ServerSpec => []CallsInv
<1>1. ServerInit => CallsInv
  BY InitCalls
<1>2. CallsInv /\ [ServerNext]_server_vars => CallsInv'
  BY StepCalls
<1> QED BY <1>1, <1>2, PTL DEF ServerSpec

\* Of all the queries for a call one is told the outcome, once the method has returned,
\* and it is the method's outcome: for any calls, queries and handles.
THEOREM OutcomesSound == ServerSpec => []OutcomeSound
<1>1. CallsInv => OutcomeSound
  BY DEF CallsInv, OutcomeSound, OutcomeIsTheMethods, ToldInv, TableInv, Told
<1> QED BY <1>1, CallsInvariant, PTL

\* A handle works until its outcome has been collected, and no task is used after it
\* has been freed while the server is up and the service with it: for any calls,
\* queries and handles.
THEOREM HandlesWork == ServerSpec => []HandlesSound
<1>1. CallsInv => HandlesSound
  BY DEF CallsInv, HandlesSound
<1> QED BY <1>1, CallsInvariant, PTL

=============================================================================
