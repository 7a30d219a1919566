--------------------------- MODULE DriverExchange ---------------------------
(***************************************************************************)
(* The request/response drivers of clients/: threads share one driver      *)
(* context, and with it one connection, one receive buffer and one mutex.  *)
(* A driver is described by what its exchange, its retry, its session and  *)
(* its raw access do; the actions below read that description.  The device *)
(* answers in order, or late: an answer stays owed on the connection until *)
(* somebody reads it or the connection is closed.                          *)
(***************************************************************************)
EXTENDS Naturals, Sequences

CONSTANTS
    Threads,
    NoThread,
    Drivers,     \* the drivers under consideration, a subset of AllDrivers
    Operations,  \* what the threads call, a subset of AllOperations
    Ids,         \* request numbers are counted modulo this
    MaxCalls,    \* calls of one thread
    MaxFaults    \* late answers, lost links and refused connections

AllDrivers == {"modbus_tcp", "modbus_rtu_tcp", "modbus_rtu", "fins", "mc_3e", "mc_4e",
               "s7", "lsv2", "meldas", "syntec", "focas", "focas_retry"}

AllOperations == {"read", "write", "raw", "open", "close"}

ASSUME DriverAssumption ==
    /\ NoThread \notin Threads
    /\ Drivers \subseteq AllDrivers
    /\ Operations \subseteq AllOperations
    /\ Ids \in Nat /\ Ids > 1     \* they are of 8 bits or more
    /\ MaxCalls \in Nat /\ MaxFaults \in Nat

-----------------------------------------------------------------------------
(* What each driver does with one exchange: does a request carry a number  *)
(* that the answer must repeat, must the answer name the request's         *)
(* function, and does a receive that fails shut the socket down            *)

\* Mistake: the socket is left open after a receive that failed.
RtuOverTcpExchangeOpen == [number |-> FALSE, function |-> FALSE, cuts |-> FALSE]

ModbusTcpExchange  == [number |-> TRUE,  function |-> FALSE, cuts |-> TRUE]
RtuOverTcpExchange == [number |-> FALSE, function |-> FALSE, cuts |-> TRUE]
RtuExchange        == [number |-> FALSE, function |-> FALSE, cuts |-> FALSE]
FinsExchange       == [number |-> FALSE, function |-> TRUE,  cuts |-> FALSE]
Mc3EExchange       == [number |-> FALSE, function |-> FALSE, cuts |-> TRUE]
Mc4EExchange       == [number |-> TRUE,  function |-> FALSE, cuts |-> TRUE]
Lsv2Exchange       == [number |-> FALSE, function |-> TRUE,  cuts |-> FALSE]
MeldasExchange     == [number |-> TRUE,  function |-> FALSE, cuts |-> TRUE]
SyntecExchange     == [number |-> TRUE,  function |-> FALSE, cuts |-> TRUE]
FocasExchange      == [number |-> FALSE, function |-> TRUE,  cuts |-> TRUE]

\* It is not the receive that shuts the socket, but giving up (see GiveUp).
FocasRetryExchange == [FocasExchange EXCEPT !.cuts = FALSE]

S7Exchange    == [number |-> TRUE,  function |-> FALSE, cuts |-> FALSE]

Exchange(d) ==
    CASE d = "modbus_tcp" -> ModbusTcpExchange
      [] d = "modbus_rtu_tcp" -> RtuOverTcpExchange
      [] d = "modbus_rtu" -> RtuExchange
      [] d = "fins"   -> FinsExchange
      [] d = "mc_3e"  -> Mc3EExchange
      [] d = "mc_4e"  -> Mc4EExchange
      [] d = "s7"     -> S7Exchange
      [] d = "lsv2"   -> Lsv2Exchange
      [] d = "meldas" -> MeldasExchange
      [] d = "syntec" -> SyntecExchange
      [] d = "focas"  -> FocasExchange
      [] d = "focas_retry" -> FocasRetryExchange

(* How often a request is tried again after a transport error (the default *)
(* of the driver), on what, a new connection or the same one, and whether  *)
(* that is first cleared of what has come in                               *)

Reconnecting(n) == [retries |-> n, reopens |-> TRUE, flushes |-> FALSE]
Resending(n)    == [retries |-> n, reopens |-> FALSE, flushes |-> FALSE]

ModbusRequest == Reconnecting(1)
RtuRequest    == [retries |-> 2, reopens |-> FALSE, flushes |-> TRUE]
FinsRequest   == Reconnecting(1)
McRequest     == Reconnecting(1)
S7Request     == Reconnecting(1)
Lsv2Request   == Reconnecting(0)
MeldasRequest == Reconnecting(0)
SyntecRequest == Reconnecting(0)

\* The default; with "retries" in the configuration, here 1, the request goes out
\* again over the socket that failed.
FocasRequest      == Resending(0)
FocasRetryRequest == Resending(1)

Request(d) ==
    CASE d \in {"modbus_tcp", "modbus_rtu_tcp"} -> ModbusRequest
      [] d = "modbus_rtu" -> RtuRequest
      [] d = "fins"   -> FinsRequest
      [] d \in {"mc_3e", "mc_4e"} -> McRequest
      [] d = "s7"     -> S7Request
      [] d = "lsv2"   -> Lsv2Request
      [] d = "meldas" -> MeldasRequest
      [] d = "syntec" -> SyntecRequest
      [] d = "focas"  -> FocasRequest
      [] d = "focas_retry" -> FocasRetryRequest

(* The session: does an open include a handshake, does the open of a retry *)
(* include it, does a connection start the numbers over, is a session that *)
(* is shut taken for none (opening is on demand, by what is_connected says)*)

Plain         == [greets |-> FALSE, regreets |-> FALSE, renumbers |-> FALSE, seesShut |-> FALSE]
ModbusSession == Plain
McSession     == Plain
FinsSession   == [Plain EXCEPT !.greets = TRUE, !.regreets = TRUE]

\* Mistake: a retry opens the connection and skips the handshake.
S7SessionConnects == [Plain EXCEPT !.greets = TRUE]

S7Session     == [Plain EXCEPT !.greets = TRUE, !.regreets = TRUE]
Lsv2Session   == [Plain EXCEPT !.greets = TRUE]
MeldasSession == [Plain EXCEPT !.renumbers = TRUE]
SyntecSession == [Plain EXCEPT !.renumbers = TRUE]

FocasSession  == [Plain EXCEPT !.greets = TRUE, !.regreets = TRUE, !.seesShut = TRUE]

Session(d) ==
    CASE d \in {"modbus_tcp", "modbus_rtu_tcp", "modbus_rtu"} -> ModbusSession
      [] d \in {"mc_3e", "mc_4e"} -> McSession
      [] d = "fins"   -> FinsSession
      [] d = "s7"     -> S7Session
      [] d = "lsv2"   -> Lsv2Session
      [] d = "meldas" -> MeldasSession
      [] d = "syntec" -> SyntecSession
      [] d \in {"focas", "focas_retry"} -> FocasSession

-----------------------------------------------------------------------------
VARIABLES
    drv,      \* the driver
    sock,     \* ctx->socket: NULL, open, or shut down and not yet closed
    link,     \* the peer is still there
    greeted,  \* the handshake of this connection has been made
    owed,     \* answers of this connection that nobody has read, in order
    serial,   \* the last request number
    holder,   \* the thread that holds ctx->mutex
    pc, op, part, tries, calls,  \* where each thread stands in its call
    got,      \* the request whose answer the thread has accepted
    result,   \* what its last call returned
    faults

conn == <<sock, link, greeted, owed>>
call == <<op, part, calls>>
vars == <<drv, conn, serial, holder, pc, call, tries, got, result, faults>>

\* A batch makes one exchange for each of its groups.
Parts(o) == IF o = "read" THEN 2 ELSE 1

Requests == [thread : Threads, call : 1..MaxCalls, part : 1..2]
NoRequest == [thread |-> NoThread, call |-> 0, part |-> 0]

Req(t) == [thread |-> t, call |-> calls[t], part |-> part[t]]

Places == {"idle", "look", "open", "enter", "connect", "opened", "ensure", "send",
           "receive", "failed", "reopen", "answered", "leave"}

Init ==
    /\ drv \in Drivers
    /\ sock = "none" /\ link = FALSE /\ greeted = FALSE /\ owed = <<>>
    /\ serial = 0
    /\ holder = NoThread
    /\ pc = [t \in Threads |-> "idle"]
    /\ op = [t \in Threads |-> "close"]
    /\ part = [t \in Threads |-> 1]
    /\ tries = [t \in Threads |-> 0]
    /\ calls = [t \in Threads |-> 0]
    /\ got = [t \in Threads |-> NoRequest]
    /\ result = [t \in Threads |-> "none"]
    /\ faults = MaxFaults

Goto(t, place) == pc' = [pc EXCEPT ![t] = place]

Error(t) == Goto(t, "leave") /\ result' = [result EXCEPT ![t] = "error"]

\* is_connected of the driver: for most, whether there is a socket.
Connected == sock = "open" \/ (sock = "shut" /\ ~Session(drv).seesShut)

\* Where an exchange starts: with a look at the session, for drivers that do so.
First == IF Session(drv).seesShut THEN "ensure" ELSE "send"

-----------------------------------------------------------------------------
(* A call: ncl_driver_read_one, write_one, or an operation of the driver   *)

\* s7_raw takes no lock; what it does next to another call is left out.
Call(t) ==
    /\ pc[t] = "idle" /\ calls[t] < MaxCalls
    /\ \E o \in Operations :
          /\ ~(o = "raw" /\ drv = "s7")
          /\ op' = [op EXCEPT ![t] = o]
          /\ Goto(t, IF o \in {"read", "write"} THEN "look" ELSE "enter")
    /\ calls' = [calls EXCEPT ![t] = @ + 1]
    /\ part' = [part EXCEPT ![t] = 1]
    /\ tries' = [tries EXCEPT ![t] = 0]
    /\ got' = [got EXCEPT ![t] = NoRequest]
    /\ result' = [result EXCEPT ![t] = "none"]
    /\ UNCHANGED <<drv, conn, serial, holder, faults>>

\* ensure_open: is_connected is asked without the lock.
Look(t) ==
    /\ pc[t] = "look"
    /\ Goto(t, IF Connected THEN "enter" ELSE "open")
    /\ UNCHANGED <<drv, conn, serial, holder, call, tries, got, result, faults>>

\* Mistake: the exchange does not take the lock.
EnterUnlocked(t) ==
    /\ pc[t] \in {"open", "enter"} /\ op[t] # "close"
    /\ Goto(t, IF pc[t] = "open" \/ op[t] = "open" THEN "connect" ELSE First)
    /\ UNCHANGED <<drv, conn, serial, holder, call, tries, got, result, faults>>

Enter(t) ==
    /\ pc[t] \in {"open", "enter"} /\ op[t] # "close"
    /\ holder = NoThread
    /\ holder' = t
    /\ Goto(t, IF pc[t] = "open" \/ op[t] = "open" THEN "connect" ELSE First)
    /\ UNCHANGED <<drv, conn, serial, call, tries, got, result, faults>>

Drop(state) == sock' = state /\ link' = FALSE /\ owed' = <<>> /\ UNCHANGED greeted

\* close: the farewells of LSV2 and FOCAS end with the connection all the same.
Close(t) ==
    /\ pc[t] = "enter" /\ op[t] = "close"
    /\ holder = NoThread
    /\ holder' = t
    /\ Drop("none")
    /\ Goto(t, "leave")
    /\ result' = [result EXCEPT ![t] = "OK"]
    /\ UNCHANGED <<drv, serial, call, tries, got, faults>>

Leave(t) ==
    /\ pc[t] \in {"opened", "leave"}
    /\ holder' = NoThread
    /\ Goto(t, IF pc[t] = "opened" THEN "enter" ELSE "idle")
    /\ UNCHANGED <<drv, conn, serial, call, tries, got, result, faults>>

-----------------------------------------------------------------------------
(* The session                                                             *)

Opened(t) ==
    /\ Goto(t, CASE pc[t] # "connect" -> "send"
                 [] op[t] = "open"    -> "leave"
                 [] OTHER             -> "opened")
    /\ result' = IF op[t] = "open" THEN [result EXCEPT ![t] = "OK"] ELSE result

\* The open of the driver, of its exchange, or of a retry.
Connect(t) ==
    /\ pc[t] \in {"connect", "ensure", "reopen"}
    /\ \/ Connected /\ Opened(t) /\ UNCHANGED <<conn, serial, faults>>
       \/ /\ ~Connected
          /\ sock' = "open" /\ link' = TRUE /\ owed' = <<>>
          /\ greeted' = (Session(drv).greets => Session(drv).regreets \/ pc[t] # "reopen")
          /\ serial' = IF Session(drv).renumbers THEN 0 ELSE serial
          /\ Opened(t)
          /\ UNCHANGED faults
       \/ /\ ~Connected /\ faults > 0
          /\ faults' = faults - 1
          /\ Drop("none")
          /\ Error(t)
          /\ UNCHANGED serial
    /\ UNCHANGED <<drv, holder, call, tries, got>>

-----------------------------------------------------------------------------
(* The exchange                                                            *)

Send(t) ==
    /\ pc[t] = "send"
    /\ serial' = (serial + 1) % Ids
    /\ \/ /\ sock = "open" /\ link
          /\ owed' = Append(owed, [request |-> Req(t), function |-> op[t], number |-> serial'])
          /\ Goto(t, "receive")
       \/ /\ ~(sock = "open" /\ link)
          /\ Goto(t, "failed")
          /\ UNCHANGED owed
    /\ UNCHANGED <<drv, sock, link, greeted, holder, call, tries, got, result, faults>>

Accepts(t, answer) ==
    /\ Exchange(drv).number => answer.number = serial
    /\ Exchange(drv).function => answer.function = op[t]

\* An answer that does not fit is a protocol error: no retry, and the socket stays.
Receive(t) ==
    /\ pc[t] = "receive" /\ owed # <<>>
    /\ owed' = Tail(owed)
    /\ \/ /\ Accepts(t, Head(owed))
          /\ got' = [got EXCEPT ![t] = Head(owed).request]
          /\ Goto(t, "answered")
          /\ UNCHANGED result
       \/ ~Accepts(t, Head(owed)) /\ Error(t) /\ UNCHANGED got
    /\ UNCHANGED <<drv, sock, link, greeted, serial, holder, call, tries, faults>>

\* The link is lost, or the answer is late.
ReceiveFails(t) ==
    /\ pc[t] = "receive"
    /\ link => faults > 0
    /\ faults' = IF link THEN faults - 1 ELSE faults
    /\ IF Exchange(drv).cuts THEN Drop("shut") ELSE UNCHANGED conn
    /\ Goto(t, "failed")
    /\ UNCHANGED <<drv, serial, holder, call, tries, got, result>>

\* Mistake: the request is sent again on the connection that failed.
RetrySameSocket(t) ==
    /\ pc[t] = "failed" /\ tries[t] < Request(drv).retries
    /\ tries' = [tries EXCEPT ![t] = @ + 1]
    /\ Goto(t, "send")
    /\ UNCHANGED <<drv, conn, serial, holder, call, got, result, faults>>

\* A connection that is used again: a serial line is first flushed of what has
\* come in so far, a socket of FOCAS is not.
Retry(t) ==
    /\ pc[t] = "failed" /\ tries[t] < Request(drv).retries
    /\ tries' = [tries EXCEPT ![t] = @ + 1]
    /\ \/ Request(drv).reopens /\ Drop("none") /\ Goto(t, "reopen")
       \/ /\ ~Request(drv).reopens
          /\ IF Request(drv).flushes
             THEN \E n \in 0..Len(owed) : owed' = SubSeq(owed, n + 1, Len(owed))
             ELSE UNCHANGED owed
          /\ Goto(t, "send")
          /\ UNCHANGED <<sock, link, greeted>>
    /\ UNCHANGED <<drv, serial, holder, call, got, result, faults>>

GiveUp(t) ==
    /\ pc[t] = "failed" /\ tries[t] = Request(drv).retries
    /\ IF Session(drv).seesShut /\ sock = "open" THEN Drop("shut") ELSE UNCHANGED conn
    /\ Error(t)
    /\ UNCHANGED <<drv, serial, holder, call, tries, got, faults>>

\* The answer is decoded under the lock; the next group of a batch follows.
Answered(t) ==
    /\ pc[t] = "answered"
    /\ \/ /\ part[t] < Parts(op[t])
          /\ part' = [part EXCEPT ![t] = @ + 1]
          /\ tries' = [tries EXCEPT ![t] = 0]
          /\ Goto(t, First)
          /\ UNCHANGED result
       \/ /\ part[t] = Parts(op[t])
          /\ Goto(t, "leave")
          /\ result' = [result EXCEPT ![t] = "OK"]
          /\ UNCHANGED <<part, tries>>
    /\ UNCHANGED <<drv, conn, serial, holder, op, calls, got, faults>>

LinkLoss ==
    /\ sock = "open" /\ link /\ faults > 0
    /\ faults' = faults - 1
    /\ link' = FALSE
    /\ owed' = <<>>
    /\ UNCHANGED <<drv, sock, greeted, serial, holder, pc, call, tries, got, result>>

Step(t) ==
    \/ Look(t) \/ Enter(t) \/ Close(t) \/ Leave(t) \/ Connect(t) \/ Send(t)
    \/ Receive(t) \/ ReceiveFails(t) \/ Retry(t) \/ GiveUp(t) \/ Answered(t)

Rest ==
    /\ \A t \in Threads : pc[t] = "idle" /\ calls[t] = MaxCalls
    /\ UNCHANGED vars

Next == (\E t \in Threads : Call(t) \/ Step(t)) \/ LinkLoss \/ Rest

Spec == Init /\ [][Next]_vars

\* A call that has begun goes on; the mutex is handed to those that wait for it.
FairSpec == Spec /\ \A t \in Threads : WF_vars(Step(t))

-----------------------------------------------------------------------------
(* Properties                                                              *)

TypeOK ==
    /\ drv \in Drivers
    /\ sock \in {"none", "open", "shut"} /\ link \in BOOLEAN /\ greeted \in BOOLEAN
    /\ owed \in Seq([request : Requests, function : AllOperations, number : 0..(Ids - 1)])
    /\ serial \in 0..(Ids - 1)
    /\ holder \in Threads \cup {NoThread}
    /\ pc \in [Threads -> Places]
    /\ op \in [Threads -> AllOperations]
    /\ part \in [Threads -> 1..2] /\ tries \in [Threads -> 0..2]
    /\ calls \in [Threads -> 0..MaxCalls]
    /\ got \in [Threads -> Requests \cup {NoRequest}]
    /\ result \in [Threads -> {"none", "OK", "error"}]
    /\ faults \in 0..MaxFaults

\* The drivers that shut the socket down when a receive fails.  Of the others, S7
\* numbers its requests, and Modbus RTU, FINS, LSV2 and a FOCAS driver configured
\* to retry do neither.
Cutting == {"modbus_tcp", "modbus_rtu_tcp", "mc_3e", "mc_4e", "meldas", "syntec", "focas"}

\* "keeps a stale answer from being read as data": whatever came late, and
\* whoever else uses the connection, the answer that is decoded is the answer to
\* the request that was sent - of drivers that cut the connection or number requests.
OwnReply ==
    drv \in Cutting \cup {"s7"} =>
        \A t \in Threads : pc[t] = "answered" => got[t] = Req(t)

\* A driver that cuts the connection when a receive fails never leaves an answer
\* behind for the next request: not when it retries, gives up or is closed.
NothingOwed ==
    drv \in Cutting /\ owed # <<>> =>
        /\ Len(owed) = 1
        /\ \E t \in Threads : pc[t] = "receive" /\ Head(owed).request = Req(t)

\* "must be re-established, handshake included": no request goes out on a
\* connection that has not been greeted.  The retry of LSV2 does not log in.
GreetedFirst ==
    drv # "lsv2" => \A t \in Threads : pc[t] = "receive" => greeted

\* "One session, one request in flight": of a FOCAS driver configured to retry this
\* does not hold, and the answer to a first attempt can be taken for that of a later
\* request of the same function.
FocasReadsOwn ==
    drv \in {"focas", "focas_retry"} =>
        \A t \in Threads : pc[t] = "answered" => got[t] = Req(t)

\* One failed receive does not disturb later calls: with nothing in the way any
\* more, a call succeeds, of a driver that cuts the connection and reopens it.
Recovers ==
    drv \in Cutting \ {"meldas", "syntec"} =>
        \A t \in Threads :
            (pc[t] = "look" /\ faults = 0 /\ (Session(drv).seesShut => link \/ sock # "open"))
                ~> (pc[t] = "idle" /\ result[t] = "OK")

\* "Open the session on demand. A driver that can lose its session implements
\* both open() and is_connected()": a call that finds the session lost opens it.
OpensOnDemand ==
    \A t \in Threads :
        (pc[t] = "look" /\ faults = 0 /\ sock = "shut") ~> (pc[t] = "idle" /\ result[t] = "OK")
=============================================================================
