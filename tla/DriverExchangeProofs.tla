------------------------ MODULE DriverExchangeProofs ------------------------
(* Theorems about DriverExchange, for any threads, drivers and faults. *)
EXTENDS DriverExchange, SequenceTheorems, TLAPS

Answers == [request : Requests, function : AllOperations, number : 0..(Ids - 1)]

\* The places of a thread that holds the mutex of the driver.
Inside == {"connect", "opened", "ensure", "send", "receive", "failed", "reopen",
           "answered", "leave"}

\* A thread that is in a call has begun one.
Begun == \A t \in Threads : pc[t] # "idle" => calls[t] \in 1..MaxCalls

\* One exchange at a time: whoever is inside holds the mutex.
Locked == \A t \in Threads : pc[t] \in Inside => holder = t

\* The part of OwnReply that is about the drivers that cut the connection.
CuttingOwn ==
    drv \in Cutting => \A t \in Threads : pc[t] = "answered" => got[t] = Req(t)

IInv == TypeOK /\ Begun /\ Locked /\ NothingOwed /\ CuttingOwn

-----------------------------------------------------------------------------
(* What the steps do to the types                                          *)

\* The number of a request is a number.
LEMMA NumberType == ASSUME TypeOK PROVE (serial + 1) % Ids \in 0..(Ids - 1)
  BY DriverAssumption DEF DriverAssumption, TypeOK

\* The request of a thread that is in a call is a request.
LEMMA ReqType ==
    ASSUME TypeOK, Begun, NEW t \in Threads, pc[t] # "idle"
    PROVE  Req(t) \in Requests
  BY DriverAssumption DEF DriverAssumption, TypeOK, Begun, Req, Requests

\* Answers that are read, or flushed, leave answers.
LEMMA RestType ==
    ASSUME NEW s \in Seq(Answers)
    PROVE  /\ s # <<>> => Head(s) \in Answers /\ Tail(s) \in Seq(Answers)
           /\ \A n \in 0..Len(s) : SubSeq(s, n + 1, Len(s)) \in Seq(Answers)
<1>1. s # <<>> => Head(s) \in Answers /\ Tail(s) \in Seq(Answers)
  OBVIOUS
<1>2. ASSUME NEW n \in 0..Len(s) PROVE SubSeq(s, n + 1, Len(s)) \in Seq(Answers)
  <2>1. \A i \in (n + 1)..Len(s) : s[i] \in Answers
    OBVIOUS
  <2> QED BY <2>1
<1> QED BY <1>1, <1>2

\* What a driver's description is made of.
LEMMA Descriptions ==
    ASSUME NEW d \in AllDrivers
    PROVE  /\ Request(d).retries \in 0..2 /\ Request(d).reopens \in BOOLEAN
           /\ Exchange(d).cuts \in BOOLEAN
           /\ Session(d).seesShut \in BOOLEAN
<1>1. Request(d).retries \in 0..2 /\ Request(d).reopens \in BOOLEAN
  <2>1. Request(d) \in [retries : 0..2, reopens : BOOLEAN, flushes : BOOLEAN]
    BY DEF AllDrivers, Request, Reconnecting, Resending, ModbusRequest, RtuRequest,
           FinsRequest, McRequest, S7Request, Lsv2Request, MeldasRequest, SyntecRequest,
           FocasRequest, FocasRetryRequest
  <2> QED BY <2>1
<1>2. Exchange(d).cuts \in BOOLEAN
  BY DEF AllDrivers, Exchange, ModbusTcpExchange, RtuOverTcpExchange, RtuExchange,
         FinsExchange, Mc3EExchange, Mc4EExchange, Lsv2Exchange, MeldasExchange,
         SyntecExchange, FocasExchange, FocasRetryExchange, S7Exchange
<1>3. Session(d).seesShut \in BOOLEAN
  BY DEF AllDrivers, Session, Plain, ModbusSession, McSession, FinsSession, S7Session,
         Lsv2Session, MeldasSession, SyntecSession, FocasSession
<1> QED BY <1>1, <1>2, <1>3

\* A driver that cuts the connection does so in its exchange.
LEMMA CuttingCuts == ASSUME NEW d \in Cutting PROVE d \in AllDrivers /\ Exchange(d).cuts
  BY DEF Cutting, AllDrivers, Exchange, ModbusTcpExchange, RtuOverTcpExchange,
         Mc3EExchange, Mc4EExchange, MeldasExchange, SyntecExchange, FocasExchange

\* A connection that is dropped, or kept, is well typed.
LEMMA DroppedType ==
    ASSUME TypeOK, owed \in Seq(Answers), Drop("none") \/ Drop("shut") \/ UNCHANGED conn
    PROVE  /\ sock' \in {"none", "open", "shut"} /\ link' \in BOOLEAN /\ greeted' = greeted
           /\ owed' \in Seq(Answers)
<1>1. CASE Drop("none") \/ Drop("shut")
  <2>1. <<>> \in Seq(Answers)
    OBVIOUS
  <2> QED BY <1>1, <2>1 DEF Drop
<1>2. CASE UNCHANGED conn
  BY <1>2 DEF conn, TypeOK
<1> QED BY <1>1, <1>2

\* Types survive the steps of the session and of a call around its exchange.
LEMMA TypesAround ==
    ASSUME TypeOK, Begun, NEW t \in Threads,
           Call(t) \/ Look(t) \/ Enter(t) \/ Close(t) \/ Leave(t) \/ Connect(t)
    PROVE  TypeOK'
<1> USE DriverAssumption DEF DriverAssumption, TypeOK, Places, Goto, Answers
<1>a. owed \in Seq(Answers)
  OBVIOUS
<1>1. CASE Call(t)
  <2>1. PICK o \in Operations : /\ op' = [op EXCEPT ![t] = o]
                                /\ Goto(t, IF o \in {"read", "write"} THEN "look" ELSE "enter")
    BY <1>1 DEF Call
  <2>2. op' \in [Threads -> AllOperations] /\ pc' \in [Threads -> Places]
    BY <2>1
  <2>3. calls' \in [Threads -> 0..MaxCalls]
    BY <1>1 DEF Call
  <2>4. /\ part' \in [Threads -> 1..2] /\ tries' \in [Threads -> 0..2]
        /\ result' \in [Threads -> {"none", "OK", "error"}]
        /\ got' \in [Threads -> Requests \cup {NoRequest}]
    BY <1>1 DEF Call
  <2>5. UNCHANGED <<drv, sock, link, greeted, owed, serial, holder, faults>>
    BY <1>1 DEF Call, conn
  <2>6. owed' \in Seq([request : Requests, function : AllOperations, number : 0..(Ids - 1)])
    BY <2>5
  <2>7. /\ drv' \in Drivers
        /\ sock' \in {"none", "open", "shut"} /\ link' \in BOOLEAN /\ greeted' \in BOOLEAN
        /\ serial' \in 0..(Ids - 1)
        /\ holder' \in Threads \cup {NoThread}
        /\ faults' \in 0..MaxFaults
    BY <2>5
  <2> QED BY ONLY <2>2, <2>3, <2>4, <2>6, <2>7 DEF TypeOK
<1>2. CASE Look(t)
  BY <1>2 DEF Look, conn, call
<1>3. CASE Enter(t)
  BY <1>3 DEF Enter, conn, call, First
<1>4. CASE Close(t)
  <2>1. /\ sock' \in {"none", "open", "shut"} /\ link' \in BOOLEAN /\ greeted' \in BOOLEAN
        /\ owed' \in Seq([request : Requests, function : AllOperations, number : 0..(Ids - 1)])
    BY <1>a, <1>4, DroppedType DEF Close
  <2> QED BY <1>4, <2>1 DEF Close, call
<1>5. CASE Leave(t)
  BY <1>5 DEF Leave, conn, call
<1>6. CASE Connect(t)
  <2>1. /\ pc' \in [Threads -> Places]
        /\ result' \in [Threads -> {"none", "OK", "error"}]
    BY <1>6 DEF Connect, Opened, Error
  <2>2. serial' \in 0..(Ids - 1) /\ faults' \in 0..MaxFaults
    BY <1>6 DEF Connect
  <2>3. /\ sock' \in {"none", "open", "shut"} /\ link' \in BOOLEAN /\ greeted' \in BOOLEAN
        /\ owed' \in Seq([request : Requests, function : AllOperations, number : 0..(Ids - 1)])
    <3>1. CASE UNCHANGED conn
      BY <3>1 DEF conn
    <3>2. CASE /\ sock' = "open" /\ link' = TRUE /\ owed' = <<>>
               /\ greeted' = (Session(drv).greets => Session(drv).regreets \/ pc[t] # "reopen")
      <4>1. <<>> \in Seq([request : Requests, function : AllOperations, number : 0..(Ids - 1)])
        OBVIOUS
      <4>2. greeted' \in BOOLEAN
        <5> DEFINE g == Session(drv).greets => Session(drv).regreets \/ pc[t] # "reopen"
        <5>1. g \in BOOLEAN
          OBVIOUS
        <5> QED BY <3>2, <5>1
      <4>3. sock' \in {"none", "open", "shut"}
        BY <3>2
      <4>4. link' \in BOOLEAN
        BY <3>2, Zenon
      <4>5. owed' \in Seq([request : Requests, function : AllOperations, number : 0..(Ids - 1)])
        BY <3>2, <4>1
      <4> QED BY ONLY <4>2, <4>3, <4>4, <4>5
    <3>3. CASE Drop("none")
      BY <1>a, <3>3, DroppedType
    <3> HIDE DEF Goto
    <3>4. \/ UNCHANGED conn \/ Drop("none")
          \/ /\ sock' = "open" /\ link' = TRUE /\ owed' = <<>>
             /\ greeted' = (Session(drv).greets => Session(drv).regreets \/ pc[t] # "reopen")
      BY <1>6 DEF Connect
    <3> QED BY <3>4, <3>1, <3>2, <3>3
  <2> QED BY <1>6, <2>1, <2>2, <2>3 DEF Connect, call
<1> QED BY <1>1, <1>2, <1>3, <1>4, <1>5, <1>6

\* Types survive the steps of an exchange.
LEMMA TypesWithin ==
    ASSUME TypeOK, Begun, NEW t \in Threads,
           \/ Send(t) \/ Receive(t) \/ ReceiveFails(t) \/ Retry(t) \/ GiveUp(t) \/ Answered(t)
    PROVE  TypeOK'
<1> USE DriverAssumption DEF DriverAssumption, TypeOK, Places, Goto
<1>a. owed \in Seq(Answers)
  BY DEF Answers
<1> HIDE DEF TypeOK
<1>1. CASE Send(t)
  <2>1. serial' \in 0..(Ids - 1)
    BY <1>1, NumberType DEF Send
  <2>2. owed' \in Seq(Answers)
    <3>1. CASE UNCHANGED owed
      BY <1>a, <3>1
    <3>2. CASE owed' = Append(owed, [request |-> Req(t), function |-> op[t], number |-> serial'])
      <4>1. [request |-> Req(t), function |-> op[t], number |-> serial'] \in Answers
        BY <1>1, <2>1, ReqType DEF Send, Answers, TypeOK
      <4> QED BY <1>a, <3>2, <4>1
    <3> QED BY <1>1, <3>1, <3>2 DEF Send
  <2> QED BY <1>1, <2>1, <2>2 DEF Send, TypeOK, Answers, call
<1>2. CASE Receive(t)
  <2>1. owed' \in Seq(Answers) /\ Head(owed) \in Answers
    BY <1>a, <1>2, RestType DEF Receive
  <2>2. Head(owed).request \in Requests
    BY <2>1 DEF Answers
  <2> QED BY <1>2, <2>1, <2>2 DEF Receive, Error, TypeOK, Answers, call
<1>3. CASE ReceiveFails(t)
  <2>1. Drop("shut") \/ UNCHANGED conn
    BY <1>3 DEF ReceiveFails
  <2>2. faults' \in 0..MaxFaults
    BY <1>3 DEF ReceiveFails, TypeOK
  <2>3. /\ sock' \in {"none", "open", "shut"} /\ link' \in BOOLEAN /\ greeted' = greeted
        /\ owed' \in Seq(Answers)
    BY <1>a, <2>1, DroppedType
  <2>4. pc' \in [Threads -> Places]
    BY <1>3 DEF ReceiveFails, TypeOK
  <2>5. UNCHANGED <<drv, serial, holder, op, part, calls, tries, got, result>>
    BY <1>3 DEF ReceiveFails, call
  <2> QED BY <2>2, <2>3, <2>4, <2>5 DEF TypeOK, Answers
<1>4. CASE Retry(t)
  <2>1. owed' \in Seq(Answers) /\ greeted' = greeted
        /\ sock' \in {"none", "open", "shut"} /\ link' \in BOOLEAN
    <3>1. CASE Drop("none")
      BY <1>a, <3>1, DroppedType
    <3>2. CASE /\ \E n \in 0..Len(owed) : owed' = SubSeq(owed, n + 1, Len(owed))
               /\ UNCHANGED <<sock, link, greeted>>
      BY <1>a, <3>2, RestType DEF TypeOK
    <3>3. CASE UNCHANGED <<owed, sock, link, greeted>>
      BY <1>a, <3>3 DEF TypeOK
    <3> QED BY <1>4, <3>1, <3>2, <3>3 DEF Retry
  <2>2. tries[t] + 1 \in 0..2
    <3>1. tries[t] \in 0..2 /\ tries[t] < Request(drv).retries /\ drv \in AllDrivers
      BY <1>4 DEF Retry, TypeOK
    <3> QED BY <3>1, Descriptions
  <2>3. tries' \in [Threads -> 0..2] /\ pc' \in [Threads -> Places]
    BY <1>4, <2>2 DEF Retry, TypeOK
  <2>4. UNCHANGED <<drv, serial, holder, op, part, calls, got, result, faults>>
    BY <1>4 DEF Retry, call
  <2> QED BY <2>1, <2>3, <2>4 DEF TypeOK, Answers
<1>5. CASE GiveUp(t)
  <2>1. Drop("shut") \/ UNCHANGED conn
    BY <1>5 DEF GiveUp
  <2>2. /\ sock' \in {"none", "open", "shut"} /\ link' \in BOOLEAN /\ greeted' = greeted
        /\ owed' \in Seq(Answers)
    BY <1>a, <2>1, DroppedType
  <2>3. pc' \in [Threads -> Places] /\ result' \in [Threads -> {"none", "OK", "error"}]
    BY <1>5 DEF GiveUp, Error, TypeOK
  <2>4. UNCHANGED <<drv, serial, holder, op, part, calls, tries, got, faults>>
    BY <1>5 DEF GiveUp, call
  <2> QED BY <2>2, <2>3, <2>4 DEF TypeOK, Answers
<1>6. CASE Answered(t)
  <2>1. part[t] \in 1..2 /\ Parts(op[t]) \in 1..2
    BY DEF TypeOK, Parts
  <2>2. part' \in [Threads -> 1..2]
    BY <1>6, <2>1 DEF Answered, TypeOK
  <2>3. /\ pc' \in [Threads -> Places] /\ result' \in [Threads -> {"none", "OK", "error"}]
        /\ tries' \in [Threads -> 0..2]
    <3>1. First \in Places
      BY DEF First
    <3>2. pc' = [pc EXCEPT ![t] = First] \/ pc' = [pc EXCEPT ![t] = "leave"]
      BY <1>6 DEF Answered
    <3>3. pc' \in [Threads -> Places]
      BY <3>1, <3>2 DEF TypeOK
    <3>4. result' = [result EXCEPT ![t] = "OK"] \/ UNCHANGED result
      BY <1>6 DEF Answered
    <3>5. result' \in [Threads -> {"none", "OK", "error"}]
      BY <3>4 DEF TypeOK
    <3>6. tries' = [tries EXCEPT ![t] = 0] \/ UNCHANGED tries
      BY <1>6 DEF Answered
    <3>7. tries' \in [Threads -> 0..2]
      BY <3>6 DEF TypeOK
    <3> QED BY <3>3, <3>5, <3>7
  <2>4. UNCHANGED <<drv, sock, link, greeted, owed, serial, holder, op, calls, got, faults>>
    BY <1>6 DEF Answered, conn
  <2> QED BY <2>2, <2>3, <2>4 DEF TypeOK
<1> QED BY <1>1, <1>2, <1>3, <1>4, <1>5, <1>6

-----------------------------------------------------------------------------
(* The mutex                                                               *)

\* A step of one thread keeps every thread in its call, and inside the mutex.
LEMMA LockStep ==
    ASSUME TypeOK, Begun, Locked, NEW t \in Threads, Call(t) \/ Step(t)
    PROVE  Begun' /\ Locked'
<1> USE DriverAssumption DEF DriverAssumption, TypeOK, Goto, Inside, Begun, Locked
<1>1. CASE Call(t)
  BY <1>1 DEF Call
<1>2. CASE Look(t)
  BY <1>2 DEF Look, call
<1>3. CASE Enter(t)
  BY <1>3 DEF Enter, call, First
<1>4. CASE Close(t)
  BY <1>4 DEF Close, call
<1>5. CASE Leave(t)
  BY <1>5 DEF Leave, call
<1>6. CASE Connect(t)
  BY <1>6 DEF Connect, Opened, Error, call
<1>7. CASE Send(t)
  BY <1>7 DEF Send, call
<1>8. CASE Receive(t)
  BY <1>8 DEF Receive, Error, call
<1>9. CASE ReceiveFails(t)
  BY <1>9 DEF ReceiveFails, call
<1>10. CASE Retry(t)
  BY <1>10 DEF Retry, call
<1>11. CASE GiveUp(t)
  BY <1>11 DEF GiveUp, Error, call
<1>12. CASE Answered(t)
  BY <1>12 DEF Answered, First
<1> QED BY <1>1, <1>2, <1>3, <1>4, <1>5, <1>6, <1>7, <1>8, <1>9, <1>10, <1>11, <1>12 DEF Step

\* A step of one thread leaves the place and the request of every other alone.
LEMMA OthersKept ==
    ASSUME TypeOK, NEW t \in Threads, Call(t) \/ Step(t), NEW u \in Threads, u # t
    PROVE  /\ pc'[u] = pc[u] /\ got'[u] = got[u] /\ Req(u)' = Req(u)
         /\ tries'[u] = tries[u]
<1> USE DEF TypeOK, Goto, Req
<1>1. CASE Call(t)
  BY <1>1 DEF Call
<1>2. CASE Look(t)
  BY <1>2 DEF Look, call
<1>3. CASE Enter(t)
  BY <1>3 DEF Enter, call
<1>4. CASE Close(t)
  BY <1>4 DEF Close, call
<1>5. CASE Leave(t)
  BY <1>5 DEF Leave, call
<1>6. CASE Connect(t)
  BY <1>6 DEF Connect, Opened, Error, call
<1>7. CASE Send(t)
  BY <1>7 DEF Send, call
<1>8. CASE Receive(t)
  BY <1>8 DEF Receive, Error, call
<1>9. CASE ReceiveFails(t)
  BY <1>9 DEF ReceiveFails, call
<1>10. CASE Retry(t)
  BY <1>10 DEF Retry, call
<1>11. CASE GiveUp(t)
  BY <1>11 DEF GiveUp, Error, call
<1>12. CASE Answered(t)
  BY <1>12 DEF Answered
<1> QED BY <1>1, <1>2, <1>3, <1>4, <1>5, <1>6, <1>7, <1>8, <1>9, <1>10, <1>11, <1>12 DEF Step

\* What each step does to the answers that are owed, of a driver that cuts the connection.
LEMMA OwedStep ==
    ASSUME TypeOK, drv \in Cutting, NEW t \in Threads, Call(t) \/ Step(t), ~Send(t), ~Receive(t)
    PROVE  /\ drv' = drv /\ pc'[t] \notin {"receive", "answered"}
           /\ \/ owed' = <<>>
              \/ owed' = owed /\ pc[t] # "receive"
              \/ pc[t] = "failed" /\ \E n \in 0..Len(owed) : owed' = SubSeq(owed, n + 1, Len(owed))
<1> USE DEF TypeOK, Goto
<1>1. CASE Call(t)
  BY <1>1 DEF Call, conn
<1>2. CASE Look(t)
  BY <1>2 DEF Look, conn
<1>3. CASE Enter(t)
  BY <1>3 DEF Enter, conn, First
<1>4. CASE Close(t)
  BY <1>4 DEF Close, Drop
<1>5. CASE Leave(t)
  BY <1>5 DEF Leave, conn
<1>6. CASE Connect(t)
  <2>1. drv' = drv /\ pc'[t] \notin {"receive", "answered"} /\ pc[t] # "receive"
    BY <1>6 DEF Connect, Opened, Error
  <2>2. owed' = <<>> \/ owed' = owed
    BY <1>6 DEF Connect, Drop, conn
  <2> QED BY <2>1, <2>2
<1>7. CASE ReceiveFails(t)
  <2>1. Drop("shut")
    BY <1>7, CuttingCuts DEF ReceiveFails
  <2> QED BY <1>7, <2>1 DEF ReceiveFails, Drop
<1>8. CASE Retry(t)
  <2>1. drv' = drv /\ pc'[t] \notin {"receive", "answered"} /\ pc[t] = "failed"
    BY <1>8 DEF Retry
  <2>2. \/ owed' = <<>> \/ owed' = owed
        \/ \E n \in 0..Len(owed) : owed' = SubSeq(owed, n + 1, Len(owed))
    BY <1>8 DEF Retry, Drop
  <2> QED BY <2>1, <2>2
<1>9. CASE GiveUp(t)
  <2>1. drv' = drv /\ pc'[t] \notin {"receive", "answered"} /\ pc[t] # "receive"
    BY <1>9 DEF GiveUp, Error
  <2>2. owed' = <<>> \/ owed' = owed
    BY <1>9 DEF GiveUp, Drop, conn
  <2> QED BY <2>1, <2>2
<1>10. CASE Answered(t)
  BY <1>10 DEF Answered, conn, First
<1> QED BY <1>1, <1>2, <1>3, <1>4, <1>5, <1>6, <1>7, <1>8, <1>9, <1>10 DEF Step

-----------------------------------------------------------------------------
(* Answers                                                                 *)

\* Whoever is inside and not receiving finds no answer on the connection.
LEMMA NoneInside ==
    ASSUME Locked, NothingOwed, drv \in Cutting, NEW t \in Threads,
           pc[t] \in Inside \ {"receive"}
    PROVE  owed = <<>>
<1> SUFFICES ASSUME owed # <<>> PROVE FALSE
  OBVIOUS
<1>1. PICK u \in Threads : pc[u] = "receive"
  BY DEF NothingOwed
<1>2. holder = u /\ holder = t
  BY <1>1 DEF Locked, Inside
<1> QED BY <1>1, <1>2

\* Whoever receives finds its own answer.
LEMMA OwnInside ==
    ASSUME Locked, NothingOwed, drv \in Cutting, NEW t \in Threads, pc[t] = "receive", owed # <<>>
    PROVE  Len(owed) = 1 /\ Head(owed).request = Req(t)
<1>1. PICK u \in Threads : pc[u] = "receive" /\ Head(owed).request = Req(u) /\ Len(owed) = 1
  BY DEF NothingOwed
<1>2. holder = u /\ holder = t
  BY <1>1 DEF Locked, Inside
<1> QED BY <1>1, <1>2

\* No step leaves an answer behind, or takes an answer to another request.
LEMMA AnswersStep ==
    ASSUME IInv, NEW t \in Threads, Call(t) \/ Step(t)
    PROVE  NothingOwed' /\ CuttingOwn'
<1> USE DEF IInv
<1>a. drv' = drv
  BY DEF Call, Step, Look, Enter, Close, Leave, Connect, Send, Receive, ReceiveFails, Retry,
         GiveUp, Answered
<1> SUFFICES ASSUME drv \in Cutting PROVE NothingOwed' /\ CuttingOwn'
  BY <1>a DEF NothingOwed, CuttingOwn
<1>b. owed \in Seq(Answers)
  BY DEF TypeOK, Answers
<1>c. ASSUME NEW u \in Threads, u # t
      PROVE  pc'[u] = pc[u] /\ got'[u] = got[u] /\ Req(u)' = Req(u)
  BY <1>c, OthersKept
<1>1. CASE Send(t)
  <2>1. owed = <<>>
    BY <1>1, NoneInside DEF Send, Inside
  <2>2. pc'[t] # "answered"
    BY <1>1 DEF Send, Goto, TypeOK
  <2>3. CuttingOwn'
    BY <1>c, <2>2 DEF CuttingOwn
  <2>4. NothingOwed'
    <3>1. CASE owed' = owed
      BY <2>1, <3>1 DEF NothingOwed
    <3>2. CASE /\ owed' = Append(owed, [request |-> Req(t), function |-> op[t], number |-> serial'])
               /\ Goto(t, "receive")
      <4> DEFINE a == [request |-> Req(t), function |-> op[t], number |-> serial']
      <4>1. owed' = <<a>>
        BY <2>1, <3>2
      <4>2. Len(owed') = 1 /\ Head(owed') = a
        BY <4>1
      <4>3. pc'[t] = "receive"
        BY <3>2 DEF Goto, TypeOK
      <4>4. Req(t)' = Req(t)
        BY <1>1 DEF Send, Req, call
      <4>5. a.request = Req(t)
        OBVIOUS
      <4> HIDE DEF a
      <4> QED BY <4>2, <4>3, <4>4, <4>5 DEF NothingOwed
    <3> QED BY <1>1, <3>1, <3>2 DEF Send
  <2> QED BY <2>3, <2>4
<1>2. CASE Receive(t)
  <2>1. Len(owed) = 1 /\ Head(owed).request = Req(t)
    BY <1>2, OwnInside DEF Receive
  <2>2. owed' = <<>>
    <3>1. owed' = Tail(owed)
      BY <1>2 DEF Receive
    <3> QED BY <1>b, <2>1, <3>1
  <2>3. NothingOwed'
    BY <2>2 DEF NothingOwed
  <2>4. pc'[t] = "answered" => got'[t] = Req(t)'
    BY <1>2, <2>1 DEF Receive, Error, Goto, Req, call, TypeOK
  <2> QED BY <1>c, <2>3, <2>4 DEF CuttingOwn
<1>3. CASE ~Send(t) /\ ~Receive(t)
  <2>1. pc'[t] \notin {"receive", "answered"}
    BY <1>3, OwedStep
  <2>2. CuttingOwn'
    BY <1>c, <2>1 DEF CuttingOwn
  <2>3. CASE owed' = <<>>
    BY <2>2, <2>3 DEF NothingOwed
  <2>4. CASE owed' = owed /\ pc[t] # "receive"
    BY <1>c, <2>2, <2>4 DEF NothingOwed
  <2>5. CASE pc[t] = "failed" /\ \E n \in 0..Len(owed) : owed' = SubSeq(owed, n + 1, Len(owed))
    <3>1. owed = <<>>
      BY <2>5, NoneInside DEF Inside
    <3>2. owed' = <<>>
      BY <2>5, <3>1
    <3> QED BY <2>2, <3>2 DEF NothingOwed
  <2> QED BY <1>3, <2>3, <2>4, <2>5, OwedStep
<1> QED BY <1>1, <1>2, <1>3

-----------------------------------------------------------------------------
(* The invariant, and what follows                                         *)

\* The initial states satisfy the invariant.
LEMMA Start == Init => IInv
<1> SUFFICES ASSUME Init PROVE IInv
  OBVIOUS
<1>1. owed \in Seq(Answers)
  <2>1. <<>> \in Seq(Answers)
    OBVIOUS
  <2> QED BY <2>1 DEF Init
<1>2. TypeOK
  <2>0. link \in BOOLEAN /\ greeted \in BOOLEAN
    BY Zenon DEF Init
  <2>1. /\ drv \in Drivers /\ sock \in {"none", "open", "shut"}
        /\ serial \in 0..(Ids - 1) /\ holder \in Threads \cup {NoThread}
        /\ got \in [Threads -> Requests \cup {NoRequest}] /\ faults \in 0..MaxFaults
    BY DriverAssumption DEF DriverAssumption, Init
  <2>2. /\ pc \in [Threads -> Places] /\ op \in [Threads -> AllOperations]
        /\ part \in [Threads -> 1..2] /\ tries \in [Threads -> 0..2]
        /\ calls \in [Threads -> 0..MaxCalls] /\ result \in [Threads -> {"none", "OK", "error"}]
    BY DriverAssumption DEF DriverAssumption, Init, Places, AllOperations
  <2> QED BY ONLY <1>1, <2>0, <2>1, <2>2 DEF TypeOK, Answers
<1>3. Begun /\ Locked /\ NothingOwed /\ CuttingOwn
  BY DEF Init, Begun, Locked, Inside, NothingOwed, CuttingOwn
<1> QED BY <1>2, <1>3 DEF IInv

\* Every step keeps the invariant.
LEMMA Steps == IInv /\ [Next]_vars => IInv'
<1> SUFFICES ASSUME IInv, [Next]_vars PROVE IInv'
  OBVIOUS
<1>1. ASSUME NEW t \in Threads, Call(t) \/ Step(t) PROVE IInv'
  <2>1. TypeOK'
    BY <1>1, TypesAround, TypesWithin DEF IInv, Step
  <2>2. Begun' /\ Locked'
    BY <1>1, LockStep DEF IInv
  <2> QED BY <1>1, <2>1, <2>2, AnswersStep DEF IInv
<1>2. CASE LinkLoss
  <2>1. owed' = <<>> /\ <<>> \in Seq(Answers)
    BY <1>2 DEF LinkLoss
  <2>2. TypeOK'
    <3>1. faults' \in 0..MaxFaults
      BY <1>2, DriverAssumption DEF DriverAssumption, IInv, LinkLoss, TypeOK
    <3>2. link' \in BOOLEAN /\ owed' \in Seq(Answers)
      BY <1>2, <2>1 DEF LinkLoss
    <3>3. UNCHANGED <<drv, sock, greeted, serial, holder, pc, op, part, calls, tries, got, result>>
      BY <1>2 DEF LinkLoss, call
    <3> QED BY <3>1, <3>2, <3>3 DEF IInv, TypeOK, Answers
  <2>3. Begun' /\ Locked' /\ CuttingOwn'
    BY <1>2 DEF IInv, LinkLoss, Begun, Locked, CuttingOwn, Req, call
  <2> QED BY <2>1, <2>2, <2>3 DEF IInv, NothingOwed
<1>3. CASE UNCHANGED vars
  <2>1. TypeOK'
    BY <1>3 DEF IInv, vars, conn, call, TypeOK
  <2>2. Begun' /\ Locked' /\ NothingOwed' /\ CuttingOwn'
    BY <1>3 DEF IInv, vars, conn, call, Begun, Locked, NothingOwed, CuttingOwn, Req
  <2> QED BY <2>1, <2>2 DEF IInv
<1> QED BY <1>1, <1>2, <1>3 DEF Next, Rest

\* The invariant holds in every state: one exchange at a time, on a connection
\* that carries nothing but the answer to it.
THEOREM Invariance == Spec => []IInv
<1> QED BY Start, Steps, PTL DEF Spec

\* Type correctness of the driver, its connection and its callers.
THEOREM TypeCorrect == Spec => []TypeOK
<1>1. IInv => TypeOK
  BY DEF IInv
<1> QED BY <1>1, Invariance, PTL

\* A driver that cuts its connection never leaves an answer behind.
THEOREM NothingLeft == Spec => []NothingOwed
<1>1. IInv => NothingOwed
  BY DEF IInv
<1> QED BY <1>1, Invariance, PTL

\* The answer such a driver decodes is the answer to the request it sent, for
\* any number of threads, calls and faults.
THEOREM CuttingReadsOwn == Spec => []CuttingOwn
<1>1. IInv => CuttingOwn
  BY DEF IInv
<1> QED BY <1>1, Invariance, PTL

-----------------------------------------------------------------------------
(* Numbered requests: S7                                                   *)

\* What a description of S7 says.
LEMMA S7Description ==
    /\ Exchange("s7").number /\ ~Exchange("s7").cuts
    /\ Request("s7").retries = 1 /\ Request("s7").reopens
    /\ ~Session("s7").seesShut /\ ~Session("s7").renumbers
    /\ drv = "s7" => First = "send"
<1>1. Exchange("s7").number /\ ~Exchange("s7").cuts
  BY DEF Exchange, S7Exchange
<1>2. Request("s7").retries = 1 /\ Request("s7").reopens
  BY DEF Request, S7Request, Reconnecting
<1>3. ~Session("s7").seesShut /\ ~Session("s7").renumbers
  BY DEF Session, S7Session, Plain
<1> QED BY <1>1, <1>2, <1>3 DEF First

\* Between the exchanges of S7 at most one answer is owed, to the last request.
Quiet == owed = <<>> \/ (Len(owed) = 1 /\ owed[1].number = serial)

\* While a thread receives, its own answer is the last one that is owed; the one
\* before it, which the first attempt of a call may find, has another number.
OwnIsLast(t) ==
    \/ owed = <<>>
    \/ /\ Len(owed) = 1
       /\ owed[1].request = Req(t) /\ owed[1].number = serial
    \/ /\ Len(owed) = 2 /\ tries[t] = 0 /\ owed[1].number # serial
       /\ owed[2].request = Req(t) /\ owed[2].number = serial

S7At(t) ==
    /\ tries[t] \in 0..1 /\ pc[t] # "ensure"
    /\ pc[t] \in {"look", "open", "enter", "connect", "opened"} => tries[t] = 0
    /\ pc[t] = "reopen" => owed = <<>>
    /\ pc[t] = "send" => tries[t] = 0 \/ owed = <<>>
    /\ pc[t] = "failed" => tries[t] = 0 \/ Quiet
    /\ pc[t] = "receive" => OwnIsLast(t)
    /\ pc[t] = "answered" => got[t] = Req(t)

\* What keeps the numbers of S7 from being mistaken: a second attempt starts on a
\* connection of its own, so no answer is ever older than the request before.
S7Inv ==
    drv = "s7" =>
        /\ owed # <<>> => sock = "open" /\ link
        /\ \A t \in Threads : S7At(t)
        /\ (\A t \in Threads : pc[t] \notin {"receive", "failed"}) => Quiet

\* The next number is another one.
LEMMA NumberDiffers == ASSUME TypeOK PROVE (serial + 1) % Ids # serial
<1>1. serial \in Nat /\ serial < Ids /\ Ids \in Nat /\ Ids > 1
  BY DriverAssumption DEF DriverAssumption, TypeOK
<1>2. CASE serial + 1 < Ids
  <2>1. (serial + 1) % Ids = serial + 1
    BY <1>1, <1>2
  <2> QED BY <1>1, <2>1
<1>3. CASE serial + 1 = Ids
  <2>1. (serial + 1) % Ids = 0
    BY <1>1, <1>3
  <2> QED BY <1>1, <1>3, <2>1
<1> QED BY <1>1, <1>2, <1>3

\* The shapes of the answers owed, when one is added and when one is read.
LEMMA Shapes ==
    ASSUME NEW s \in Seq(Answers), NEW a \in Answers
    PROVE  /\ Len(s) = 0 <=> s = <<>>
           /\ s = <<>> => Len(Append(s, a)) = 1 /\ Append(s, a)[1] = a
           /\ Len(s) = 1 => /\ Len(Append(s, a)) = 2
                            /\ Append(s, a)[1] = s[1] /\ Append(s, a)[2] = a
           /\ Len(s) = 1 => Head(s) = s[1] /\ Tail(s) = <<>>
           /\ Len(s) = 2 => Head(s) = s[1] /\ Len(Tail(s)) = 1 /\ Tail(s)[1] = s[2]
<1> DEFINE rest == Tail(s)
           more == Append(s, a)
<1>1. (Len(s) = 0 <=> s = <<>>) /\ Len(s) \in Nat /\ Head(s) = s[1]
  BY LenProperties
<1>2. /\ Len(more) = Len(s) + 1 /\ more[Len(s) + 1] = a
      /\ \A i \in 1..Len(s) : more[i] = s[i]
  BY AppendProperties
<1>3. s # <<>> => /\ Len(rest) = Len(s) - 1 /\ rest \in Seq(Answers)
                  /\ \A i \in 1..Len(rest) : rest[i] = s[i + 1]
  BY HeadTailProperties
<1>4. rest \in Seq(Answers) /\ Len(rest) = 0 => rest = <<>>
  BY EmptySeq
<1> HIDE DEF rest, more
<1>5. s = <<>> => Len(more) = 1 /\ more[1] = a
  BY <1>1, <1>2
<1>6. Len(s) = 1 => Len(more) = 2 /\ more[1] = s[1] /\ more[2] = a
  BY <1>2
<1>7. Len(s) = 1 => rest = <<>>
  BY <1>1, <1>3, <1>4
<1>8. ASSUME Len(s) = 2 PROVE Len(rest) = 1 /\ rest[1] = s[2]
  <2>1. Len(rest) = 1 /\ \A i \in 1..Len(rest) : rest[i] = s[i + 1]
    BY <1>1, <1>3, <1>8
  <2>2. 1 \in 1..Len(rest) /\ 1 + 1 = 2
    BY <2>1
  <2>3. rest[1] = s[1 + 1]
    BY <2>1, <2>2
  <2> QED BY <2>1, <2>2, <2>3
<1> QED BY <1>1, <1>5, <1>6, <1>7, <1>8 DEF rest, more

\* Only a thread inside the mutex touches the answers and the numbers of S7.
LEMMA OwedInside ==
    ASSUME TypeOK, Locked, NEW t \in Threads, Call(t) \/ Step(t)
    PROVE  \/ UNCHANGED <<owed, serial>>
           \/ \A u \in Threads \ {t} : pc[u] \notin Inside
<1>1. CASE pc[t] \in Inside
  BY <1>1 DEF Locked
<1>2. CASE holder = NoThread
  BY <1>2, DriverAssumption DEF Locked, DriverAssumption
<1>3. CASE Call(t) \/ Look(t)
  BY <1>3 DEF Call, Look, conn
<1> QED BY <1>1, <1>2, <1>3
        DEF Step, Enter, Close, Leave, Connect, Send, Receive, ReceiveFails, Retry, GiveUp,
            Answered, Inside

\* A step of one thread disturbs the exchange of no other.
LEMMA S7Others ==
    ASSUME TypeOK, Locked, NEW t \in Threads, Call(t) \/ Step(t), NEW u \in Threads, u # t, S7At(u)
    PROVE  S7At(u)'
<1>1. /\ pc'[u] = pc[u] /\ got'[u] = got[u] /\ Req(u)' = Req(u)
      /\ tries'[u] = tries[u]
  BY OthersKept
<1>2. CASE UNCHANGED <<owed, serial>>
  BY <1>1, <1>2 DEF S7At, Quiet, OwnIsLast
<1>3. CASE pc[u] \notin Inside
  BY <1>1, <1>3 DEF S7At, Inside
<1> QED BY <1>2, <1>3, OwedInside

\* The steps of a call of S7, one by one.
LEMMA S7Steps ==
    ASSUME IInv, S7Inv, drv = "s7", NEW t \in Threads, Call(t) \/ Step(t)
    PROVE  /\ owed' # <<>> => sock' = "open" /\ link'
           /\ S7At(t)'
           /\ pc'[t] \notin {"receive", "failed"} =>
                  Quiet' \/ \E u \in Threads \ {t} : pc[u] \in {"receive", "failed"}
<1> DEFINE Goal == /\ owed' # <<>> => sock' = "open" /\ link'
                   /\ S7At(t)'
                   /\ pc'[t] \notin {"receive", "failed"} =>
                         Quiet' \/ \E u \in Threads \ {t} : pc[u] \in {"receive", "failed"}
<1>a. /\ TypeOK /\ Begun /\ Locked
      /\ owed # <<>> => sock = "open" /\ link
      /\ S7At(t)
  BY DEF IInv, S7Inv
<1>b. pc[t] \notin {"receive", "failed"} =>
          Quiet \/ \E u \in Threads \ {t} : pc[u] \in {"receive", "failed"}
  BY DEF S7Inv
<1>c. ASSUME NEW u \in Threads \ {t}, pc[u] \in {"receive", "failed"}, pc[t] \in Inside
      PROVE  FALSE
  BY <1>a, <1>c DEF Locked, Inside
<1>d. pc[t] \in Inside /\ pc[t] \notin {"receive", "failed"} => Quiet
  BY <1>b, <1>c
<1>e. owed \in Seq(Answers) /\ serial \in 0..(Ids - 1)
  BY <1>a DEF TypeOK, Answers
<1>f. <<>> \in Seq(Answers)
  OBVIOUS
<1>1. CASE Call(t)
  <2>1. UNCHANGED <<owed, sock, link, serial>>
    BY <1>1 DEF Call, conn
  <2>2. /\ pc'[t] \in {"look", "enter"} /\ tries'[t] = 0 /\ pc[t] = "idle"
    BY <1>a, <1>1 DEF Call, Goto, TypeOK
  <2> QED BY <1>a, <1>b, <2>1, <2>2 DEF S7At, Quiet
<1>2. CASE Look(t)
  <2>1. UNCHANGED <<owed, sock, link, serial, tries>>
    BY <1>2 DEF Look, conn
  <2>2. /\ pc'[t] \in {"open", "enter"} /\ pc[t] = "look"
    BY <1>a, <1>2 DEF Look, Goto, TypeOK
  <2> QED BY <1>a, <1>b, <2>1, <2>2 DEF S7At, Quiet
<1>3. CASE Enter(t)
  <2>1. UNCHANGED <<owed, sock, link, serial, tries>>
    BY <1>3 DEF Enter, conn
  <2>2. pc'[t] \in {"connect", "send"} /\ pc[t] \in {"open", "enter"}
    BY <1>a, <1>3, S7Description DEF Enter, Goto, TypeOK
  <2> QED BY <1>a, <1>b, <2>1, <2>2 DEF S7At, Quiet
<1>4. CASE Close(t)
  <2>1. owed' = <<>> /\ pc'[t] = "leave" /\ UNCHANGED tries
    BY <1>a, <1>4 DEF Close, Drop, Goto, TypeOK
  <2> QED BY <1>a, <2>1 DEF S7At, Quiet
<1>5. CASE Leave(t)
  <2>1. UNCHANGED <<owed, sock, link, serial, tries>>
    BY <1>5 DEF Leave, conn
  <2>2. /\ pc[t] \in {"opened", "leave"}
        /\ pc'[t] = IF pc[t] = "opened" THEN "enter" ELSE "idle"
    BY <1>a, <1>5 DEF Leave, Goto, TypeOK
  <2> QED BY <1>a, <1>b, <2>1, <2>2 DEF S7At, Quiet
<1>6. CASE Connect(t)
  <2>1. UNCHANGED tries /\ pc[t] \in {"connect", "ensure", "reopen"}
    BY <1>6 DEF Connect
  <2>2. Quiet
    BY <1>d, <2>1 DEF Inside
  <2>3. pc'[t] \in {"send", "leave", "opened"} /\ (pc'[t] = "opened" => pc[t] = "connect")
    BY <1>a, <1>6 DEF Connect, Opened, Error, Goto, TypeOK
  <2>4. pc'[t] = "send" => pc[t] # "connect"
    BY <1>a, <1>6 DEF Connect, Opened, Error, Goto, TypeOK
  <2>5. owed' = <<>> \/ UNCHANGED <<owed, sock, link, serial>>
    BY <1>6 DEF Connect, Drop, conn
  <2> QED BY <1>a, <2>1, <2>2, <2>3, <2>4, <2>5 DEF S7At, Quiet
<1>7. CASE Send(t)
  <2>1. Quiet /\ UNCHANGED tries /\ pc[t] = "send" /\ Req(t)' = Req(t)
    BY <1>d, <1>7 DEF Send, Inside, Req, call
  <2>2. serial' \in 0..(Ids - 1) /\ serial' # serial
    BY <1>a, <1>7, NumberType, NumberDiffers DEF Send
  <2>3. CASE /\ ~(sock = "open" /\ link) /\ Goto(t, "failed") /\ UNCHANGED owed
    <3>1. owed' = <<>> /\ pc'[t] = "failed"
      BY <1>a, <2>3 DEF Goto, TypeOK
    <3> QED BY <1>a, <2>1, <3>1 DEF S7At, Quiet
  <2>4. CASE /\ sock = "open" /\ link /\ Goto(t, "receive")
             /\ owed' = Append(owed, [request |-> Req(t), function |-> op[t], number |-> serial'])
    <3> DEFINE a == [request |-> Req(t), function |-> op[t], number |-> serial']
    <3>1. a \in Answers
      BY <1>a, <2>1, <2>2, ReqType DEF Answers, TypeOK
    <3>2. a.request = Req(t) /\ a.number = serial'
      OBVIOUS
    <3>3. pc'[t] = "receive" /\ sock' = "open" /\ link'
      BY <1>a, <1>7, <2>4 DEF Send, Goto, TypeOK
    <3>4. owed' = Append(owed, a)
      BY <2>4
    <3> HIDE DEF a
    <3>5. OwnIsLast(t)'
      <4>1. CASE owed = <<>>
        BY <1>e, <2>1, <3>1, <3>2, <3>4, <4>1, Shapes DEF OwnIsLast
      <4>2. CASE owed # <<>>
        <5>1. tries[t] = 0 /\ Len(owed) = 1 /\ owed[1].number = serial
          BY <1>a, <2>1, <4>2 DEF S7At, Quiet
        <5>2. Len(owed') = 2 /\ owed'[1] = owed[1] /\ owed'[2] = a
          BY <1>e, <3>1, <3>4, <5>1, Shapes
        <5> QED BY <2>1, <2>2, <3>2, <5>1, <5>2 DEF OwnIsLast
      <4> QED BY <4>1, <4>2
    <3> QED BY <1>a, <2>1, <3>3, <3>5 DEF S7At
  <2> QED BY <1>7, <2>3, <2>4 DEF Send
<1>8. CASE Receive(t)
  <2>1. /\ OwnIsLast(t) /\ owed # <<>> /\ owed' = Tail(owed)
        /\ UNCHANGED <<sock, link, serial, tries>> /\ Req(t)' = Req(t)
    BY <1>a, <1>8 DEF Receive, S7At, Req, call
  <2>2. /\ Head(owed).number # serial => pc'[t] = "leave"
        /\ Head(owed).number = serial => pc'[t] \in {"leave", "answered"}
        /\ pc'[t] = "answered" => got'[t] = Head(owed).request
    BY <1>a, <1>8, S7Description DEF Receive, Accepts, Error, Goto, TypeOK
  <2>3. CASE Len(owed) = 1
    <3>1. Head(owed) = owed[1] /\ owed' = <<>> /\ owed[1].request = Req(t)
      <4>1. owed[1] \in Answers
        BY <1>e, <2>3
      <4> QED BY <1>e, <2>1, <2>3, <4>1, Shapes DEF OwnIsLast
    <3> QED BY <1>a, <2>1, <2>2, <3>1 DEF S7At, Quiet
  <2>4. CASE Len(owed) = 2
    <3>1. /\ Head(owed).number # serial /\ Len(owed') = 1
          /\ owed'[1].number = serial
      <4>1. owed[1] \in Answers
        BY <1>e, <2>4
      <4> QED BY <1>e, <2>1, <2>4, <4>1, Shapes DEF OwnIsLast
    <3>2. pc'[t] = "leave"
      BY <2>2, <3>1
    <3> QED BY <1>a, <2>1, <3>1, <3>2 DEF S7At, Quiet
  <2> QED BY <2>1, <2>3, <2>4 DEF OwnIsLast
<1>9. CASE ReceiveFails(t)
  <2>1. /\ OwnIsLast(t) /\ UNCHANGED <<owed, sock, link, serial, tries>> /\ pc'[t] = "failed"
    BY <1>a, <1>9, S7Description DEF ReceiveFails, S7At, conn, TypeOK, Goto
  <2>2. tries[t] = 0 \/ Quiet
    BY <2>1 DEF OwnIsLast, Quiet
  <2> QED BY <1>a, <2>1, <2>2 DEF S7At, Quiet
<1>10. CASE Retry(t)
  <2>1. owed' = <<>> /\ pc'[t] = "reopen"
    BY <1>a, <1>10, S7Description DEF Retry, Drop, Goto, TypeOK
  <2>2. tries'[t] = tries[t] + 1 /\ tries[t] < 1 /\ tries[t] \in 0..2
    BY <1>a, <1>10, S7Description DEF Retry, TypeOK
  <2> QED BY <2>1, <2>2 DEF S7At, Quiet
<1>11. CASE GiveUp(t)
  <2>1. /\ UNCHANGED <<owed, sock, link, serial, tries>> /\ pc'[t] = "leave"
    BY <1>a, <1>11, S7Description DEF GiveUp, Error, Goto, TypeOK, conn
  <2>2. tries[t] = 1 /\ pc[t] = "failed"
    BY <1>11, S7Description DEF GiveUp
  <2> QED BY <1>a, <2>1, <2>2 DEF S7At, Quiet
<1>12. CASE Answered(t)
  <2>1. UNCHANGED <<owed, sock, link, serial>> /\ Quiet
    BY <1>d, <1>12 DEF Answered, conn, Inside
  <2>2. \/ pc'[t] = "send" /\ tries'[t] = 0
        \/ pc'[t] = "leave" /\ tries' = tries
    BY <1>a, <1>12, S7Description DEF Answered, Goto, TypeOK
  <2> QED BY <1>a, <2>1, <2>2 DEF S7At, Quiet
<1> QED BY <1>1, <1>2, <1>3, <1>4, <1>5, <1>6, <1>7, <1>8, <1>9, <1>10, <1>11, <1>12 DEF Step

\* Every step keeps the numbers of S7 apart.
LEMMA S7Step == ASSUME IInv, S7Inv, [Next]_vars PROVE S7Inv'
<1>1. ASSUME NEW t \in Threads, Call(t) \/ Step(t) PROVE S7Inv'
  <2>1. drv' = drv
    BY <1>1 DEF Call, Step, Look, Enter, Close, Leave, Connect, Send, Receive, ReceiveFails,
                Retry, GiveUp, Answered
  <2> SUFFICES ASSUME drv = "s7" PROVE S7Inv'
    BY <2>1 DEF S7Inv
  <2>2. /\ owed' # <<>> => sock' = "open" /\ link'
        /\ S7At(t)'
        /\ pc'[t] \notin {"receive", "failed"} =>
               Quiet' \/ \E u \in Threads \ {t} : pc[u] \in {"receive", "failed"}
    BY <1>1, S7Steps
  <2>3. ASSUME NEW u \in Threads, u # t PROVE S7At(u)' /\ pc'[u] = pc[u]
    <3>1. TypeOK /\ Locked /\ S7At(u)
      BY DEF IInv, S7Inv
    <3> QED BY <1>1, <2>3, <3>1, S7Others, OthersKept
  <2>4. \A u \in Threads : S7At(u)'
    BY <2>2, <2>3
  <2>5. (\A u \in Threads : pc'[u] \notin {"receive", "failed"}) => Quiet'
    BY <2>2, <2>3
  <2> QED BY <2>2, <2>4, <2>5 DEF S7Inv
<1>2. CASE LinkLoss
  <2>1. owed' = <<>> /\ UNCHANGED <<drv, pc, op, part, calls, tries, got>>
    BY <1>2 DEF LinkLoss, call
  <2>2. \A u \in Threads : S7At(u) => S7At(u)'
    BY <2>1 DEF S7At, Quiet, OwnIsLast, Req
  <2>3. Quiet'
    BY <2>1 DEF Quiet
  <2> QED BY <2>1, <2>2, <2>3 DEF S7Inv
<1>3. CASE UNCHANGED vars
  BY <1>3 DEF vars, conn, call, S7Inv, S7At, Quiet, OwnIsLast, Req
<1> QED BY <1>1, <1>2, <1>3 DEF Next, Rest

\* The answer that is decoded is the answer to the request that was sent, of every
\* driver that cuts the connection and of the one that numbers its requests.
THEOREM ReadsOwn == Spec => []OwnReply
<1>1. Init => S7Inv
  BY DEF Init, S7Inv, S7At, Quiet
<1>2. IInv /\ S7Inv /\ [Next]_vars => S7Inv'
  BY S7Step
<1>3. IInv /\ S7Inv => OwnReply
  BY DEF IInv, CuttingOwn, S7Inv, S7At, OwnReply
<1> QED BY <1>1, <1>2, <1>3, Invariance, PTL DEF Spec

-----------------------------------------------------------------------------
(* The handshake                                                           *)

\* Every connection of a driver whose retries greet is a greeted one.
Greeted ==
    drv # "lsv2" =>
        /\ sock = "open" => greeted
        /\ \A t \in Threads : pc[t] = "receive" => greeted

\* A driver that greets does so again when it reopens, but for LSV2.
LEMMA Regreets ==
    ASSUME NEW d \in AllDrivers, d # "lsv2", Session(d).greets PROVE Session(d).regreets
  BY DEF AllDrivers, Session, Plain, ModbusSession, McSession, FinsSession, S7Session,
         MeldasSession, SyntecSession, FocasSession

\* Only Connect makes a connection, and only Send goes on to receive.
LEMMA GreetedStep == ASSUME TypeOK, Greeted, [Next]_vars PROVE Greeted'
<1>1. ASSUME NEW t \in Threads, Connect(t) PROVE Greeted'
  <2>1. \A u \in Threads : pc'[u] = "receive" => pc[u] = "receive"
    BY <1>1 DEF Connect, Opened, Error, Goto, TypeOK
  <2>2. drv' = drv
    BY <1>1 DEF Connect
  <2>3. CASE UNCHANGED conn
    BY <2>1, <2>2, <2>3 DEF Greeted, conn
  <2>4. CASE greeted' = (Session(drv).greets => Session(drv).regreets \/ pc[t] # "reopen")
    <3>1. drv # "lsv2" => (Session(drv).greets => Session(drv).regreets)
      BY Regreets, DriverAssumption DEF TypeOK, DriverAssumption
    <3> QED BY <2>2, <2>4, <3>1 DEF Greeted
  <2>5. CASE Drop("none")
    BY <2>1, <2>2, <2>5 DEF Greeted, Drop
  <2> QED BY <1>1, <2>3, <2>4, <2>5 DEF Connect
<1>2. ASSUME NEW t \in Threads, Send(t) PROVE Greeted'
  <2>1. UNCHANGED <<drv, sock, greeted>>
    BY <1>2 DEF Send
  <2>2. \A u \in Threads : pc'[u] = "receive" => pc[u] = "receive" \/ sock = "open"
    BY <1>2 DEF Send, Goto, TypeOK
  <2> QED BY <2>1, <2>2 DEF Greeted
<1>3. ASSUME NEW t \in Threads,
             \/ Call(t) \/ Look(t) \/ Enter(t) \/ Close(t) \/ Leave(t) \/ Receive(t)
             \/ ReceiveFails(t) \/ Retry(t) \/ GiveUp(t) \/ Answered(t)
      PROVE  Greeted'
  <2>1. UNCHANGED <<drv, greeted>> /\ (sock' = "open" => sock = "open")
    BY <1>3 DEF Call, Look, Enter, Close, Leave, Receive, ReceiveFails, Retry, GiveUp,
                Answered, Drop, conn
  <2>2. \A u \in Threads : pc'[u] = "receive" => pc[u] = "receive"
    BY <1>3 DEF Call, Look, Enter, Close, Leave, Receive, ReceiveFails, Retry, GiveUp,
                Answered, Goto, Error, First, TypeOK
  <2> QED BY <2>1, <2>2 DEF Greeted
<1>4. CASE LinkLoss \/ UNCHANGED vars
  BY <1>4 DEF LinkLoss, vars, conn, Greeted
<1> QED BY <1>1, <1>2, <1>3, <1>4 DEF Next, Step, Rest

\* No request goes out on a connection without its handshake, however often it is
\* lost and made again; the retry of LSV2, which does not log in, is left out.
THEOREM Greets == Spec => []GreetedFirst
<1>1. Init => Greeted
  BY DEF Init, Greeted
<1>2. TypeOK /\ Greeted /\ [Next]_vars => Greeted'
  BY GreetedStep
<1>3. Greeted => GreetedFirst
  BY DEF Greeted, GreetedFirst
<1> QED BY <1>1, <1>2, <1>3, TypeCorrect, PTL DEF Spec
=============================================================================
