---------------------------- MODULE FtpTransfer ----------------------------
(***************************************************************************)
(* A file moved between the two sides of a file channel: the file tool and *)
(* its FTP client (stack/src/file/server_file_tool.c, ftp/ftp_client.c)    *)
(* with the sessions of the FTP server at the peer (ftp/ftp_server.c).     *)
(* The client waits for each reply on the control connection; data         *)
(* connections die, dials fail, the control connection is lost and made    *)
(* anew while the old session is still at work, the server is stopped.     *)
(*                                                                         *)
(* A file is a sequence of pieces; a copy that is longer than the original *)
(* is stale.  A reply that is due comes before the client gives up waiting *)
(* for it; if none is due, the wait times out.                             *)
(***************************************************************************)
EXTENDS Naturals, Sequences, SequencesExt

CONSTANTS
    Total,        \* pieces of the file
    Attempts,     \* NCL_FTP_TRANSFER_ATTEMPTS, 3 in the code
    Tries,        \* of ncl_server_file_tool_write and _read, 2 in the code
    MaxToolCalls, \* bound on the calls of the file tool
    MaxFaults,    \* bound on connections that are lost, refused or given up
    MaxLosses     \* bound on control connections among them

ASSUME TransferAssumption ==
    /\ Total \in Nat \ {0} /\ Attempts \in Nat \ {0} /\ Tries \in Nat \ {0}
    /\ MaxToolCalls \in Nat /\ MaxFaults \in Nat /\ MaxLosses \in Nat

VARIABLES
    \* the file tool and its FTP client
    passive,   \* client->passive
    pc, asked, \* the command the client is at; whether its reply is awaited
    op, try, attempt,
    ctrl,      \* the session of the control connection, 0 if there is no client
    rc,        \* rc = NCL_OK
    have,      \* pieces the copy had; for an upload, sent so far
    result,
    \* the copy: of an upload at the peer, of a download in the mirror
    copy,
    dir,       \* the directory of an upload exists
    \* the sessions of the server
    place, open, inbox, replies, rest, mode, job,
    data,      \* the data connection of each session
    stop,      \* server->stop
    tool_calls, faults, losses,
    strayed,   \* a transfer began at an offset that the client had not asked for
    crossed    \* a session was made while another could still be storing

client  == <<passive, pc, asked, op, try, attempt, ctrl, rc, have, result, tool_calls>>
serving == <<place, rest, mode, job>>
wires   == <<open, inbox, replies>>
ghosts  == <<strayed, crossed>>
ftp_vars == <<client, copy, dir, serving, wires, data, stop, faults, losses, ghosts>>

Whole    == [i \in 1..Total |-> i]
Stale    == [i \in 1..Total + 1 |-> 0]
Sessions == 1..MaxLosses + 1
NoData   == [at |-> "none", pieces |-> <<>>]
Broken   == [at |-> "broken", pieces |-> <<>>]
NoJob    == [verb |-> "none", next |-> 0, written |-> 0]

FtpInit ==
    /\ passive \in BOOLEAN
    /\ pc = "idle" /\ asked = FALSE /\ op = "download" /\ try = 1 /\ attempt = 1
    /\ ctrl = 0 /\ rc = TRUE /\ have = 0 /\ result = "none" /\ tool_calls = 0
    /\ \E f \in {SubSeq(Whole, 1, n) : n \in 0..Total} \cup {Stale} :
          copy = [upload |-> f, download |-> f]
    /\ dir = FALSE
    /\ place = [s \in Sessions |-> "none"]
    /\ open = [s \in Sessions |-> FALSE]
    /\ inbox = [s \in Sessions |-> <<>>]
    /\ replies = [s \in Sessions |-> <<>>]
    /\ rest = [s \in Sessions |-> 0]
    /\ mode = [s \in Sessions |-> "none"]
    /\ job = [s \in Sessions |-> NoJob]
    /\ data = [s \in Sessions |-> NoData]
    /\ stop = FALSE /\ faults = 0 /\ losses = 0 /\ strayed = FALSE /\ crossed = FALSE

Fault == faults < MaxFaults /\ faults' = faults + 1

-----------------------------------------------------------------------------
(* The sessions of the server                                              *)

SessionReply(s, code, size) ==
    replies' = [replies EXCEPT ![s] = IF open[s] THEN Append(@, [code |-> code, size |-> size])
                                                 ELSE @]

\* session_dispatch: the commands that are answered at once.
Answers(s, c) ==
    /\ CASE c.verb = "SIZE" -> LET size == IF c.of = "upload" THEN Len(copy["upload"]) ELSE Total
                               IN  SessionReply(s, IF size = 0 THEN 5 ELSE 2, size)
         [] c.verb = "REST" -> SessionReply(s, 3, 0)
         [] c.verb = "CWD"  -> SessionReply(s, IF dir THEN 2 ELSE 5, 0)
         [] OTHER           -> SessionReply(s, 2, 0)
    /\ rest' = IF c.verb = "REST" THEN [rest EXCEPT ![s] = c.arg] ELSE rest
    /\ mode' = IF c.verb \in {"PORT", "PASV"} THEN [mode EXCEPT ![s] = c.verb] ELSE mode
    /\ dir'  = (dir \/ c.verb = "MKD")
    /\ UNCHANGED <<place, job, copy, strayed>>

Put(f, at, piece) ==
    [i \in 1..(IF Len(f) > at THEN Len(f) ELSE at + 1) |->
        IF i = at + 1 THEN piece ELSE IF i <= Len(f) THEN f[i] ELSE 0]

\* stream_truncate, which also makes a file longer.
Truncate(f, n) == [i \in 1..n |-> IF i <= Len(f) THEN f[i] ELSE 0]

\* Mistake: what an appending writer finds does not count as written.
OpenFileForgets(s, c) ==
    [verb |-> c.verb, next |-> IF c.verb = "APPE" THEN 0 ELSE rest[s],
     written |-> IF c.verb = "APPE" THEN 0 ELSE rest[s]]

\* ncl_file_open_write and _open_read: where a transfer begins.
OpenFile(s, c) ==
    [verb    |-> c.verb,
     next    |-> IF c.verb = "APPE" THEN 0 ELSE rest[s],
     written |-> IF c.verb = "APPE" THEN Len(copy["upload"]) ELSE rest[s]]

\* The head of session_handle_retr and of session_store_file, up to the 150.
Begins(s, c) ==
    /\ job'  = [job EXCEPT ![s] = OpenFile(s, c)]
    /\ rest' = IF c.verb = "RETR" THEN rest ELSE [rest EXCEPT ![s] = 0]
    /\ copy' = IF c.verb = "STOR" /\ rest[s] = 0 THEN [copy EXCEPT !["upload"] = <<>>] ELSE copy
    /\ strayed' = (strayed \/ (c.verb # "APPE" /\ rest[s] # c.arg))
    /\ place' = [place EXCEPT ![s] = "dial"]
    /\ SessionReply(s, 1, 0)
    /\ UNCHANGED <<mode, dir>>

Command(s) ==
    /\ place[s] = "command" /\ inbox[s] # <<>> /\ ~stop
    /\ inbox' = [inbox EXCEPT ![s] = Tail(@)]
    /\ LET c == Head(inbox[s])
       IN  IF c.verb \in {"RETR", "STOR", "APPE"} THEN Begins(s, c) ELSE Answers(s, c)
    /\ UNCHANGED <<client, open, data, stop, faults, losses, crossed>>

\* The end of a transfer command; a writer is closed, which cuts the file.
Done(s, code) ==
    /\ SessionReply(s, code, 0)
    /\ copy' = IF job[s].verb = "RETR" THEN copy
               ELSE [copy EXCEPT !["upload"] = Truncate(@, job[s].written)]
    /\ place' = [place EXCEPT ![s] = "command"]
    /\ job' = [job EXCEPT ![s] = NoJob]

\* session_open_data: accepts in passive mode until the server stops, else dials.
Dial(s) ==
    /\ place[s] = "dial"
    /\ mode' = [mode EXCEPT ![s] = "none"]
    /\ \/ /\ mode[s] = "PASV" /\ data[s].at # "none"
          /\ place' = [place EXCEPT ![s] = "move"]
          /\ UNCHANGED <<replies, copy, job, data, faults>>
       \/ /\ mode[s] = "PORT" /\ data[s].at = "listening"
          /\ data' = [data EXCEPT ![s].at = "open"]
          /\ place' = [place EXCEPT ![s] = "move"]
          /\ UNCHANGED <<replies, copy, job, faults>>
       \/ /\ mode[s] = "PASV" => stop
          /\ IF mode[s] = "PORT" /\ data[s].at = "listening" THEN Fault ELSE UNCHANGED faults
          /\ Done(s, 4)
          /\ data' = [data EXCEPT ![s].at = IF @ = "open" THEN "broken" ELSE @]
    /\ UNCHANGED <<client, dir, rest, open, inbox, stop, losses, ghosts>>

\* Mistake: an error of the data connection is taken for a wait that timed out.
ReceiveOn(s) ==
    /\ place[s] = "move" /\ job[s].verb # "RETR"
    /\ \/ /\ data[s].pieces # <<>>
          /\ LET w  == job[s]
                 at == IF w.verb = "APPE" THEN Len(copy["upload"]) ELSE w.written
             IN  copy' = [copy EXCEPT !["upload"] = Put(@, at, Head(data[s].pieces))]
          /\ job' = [job EXCEPT ![s].written = @ + 1]
          /\ data' = [data EXCEPT ![s].pieces = Tail(@)]
          /\ UNCHANGED <<replies, place>>
       \/ /\ data[s] = [at |-> "closed", pieces |-> <<>>]
          /\ Done(s, 2)
          /\ UNCHANGED data
    /\ UNCHANGED <<client, dir, rest, mode, open, inbox, stop, faults, losses, ghosts>>

\* The loop of session_store_file; nothing but data, an end or an error ends a wait.
Receive(s) ==
    /\ place[s] = "move" /\ job[s].verb # "RETR"
    /\ \/ /\ data[s].pieces # <<>>
          /\ LET w  == job[s]
                 at == IF w.verb = "APPE" THEN Len(copy["upload"]) ELSE w.written
             IN  copy' = [copy EXCEPT !["upload"] = Put(@, at, Head(data[s].pieces))]
          /\ job' = [job EXCEPT ![s].written = @ + 1]
          /\ data' = [data EXCEPT ![s].pieces = Tail(@)]
          /\ UNCHANGED <<replies, place>>
       \/ /\ data[s].at \in {"closed", "broken"} /\ data[s].pieces = <<>>
          /\ Done(s, IF data[s].at = "closed" THEN 2 ELSE 5)
          /\ UNCHANGED data
    /\ UNCHANGED <<client, dir, rest, mode, open, inbox, stop, faults, losses, ghosts>>

\* session_send_file_range, and what session_handle_retr does after it.
Send(s) ==
    /\ place[s] = "move" /\ job[s].verb = "RETR"
    /\ \/ /\ job[s].next < Total /\ data[s].at \in {"open", "leaked"}
          /\ data' = [data EXCEPT ![s].pieces = Append(@, job[s].next + 1)]
          /\ job' = [job EXCEPT ![s].next = @ + 1]
          /\ UNCHANGED <<replies, rest, place, copy>>
       \/ /\ job[s].next >= Total \/ data[s].at \notin {"open", "leaked"}
          /\ \E code \in {2, 5} :
                /\ code = 2 => job[s].next >= Total \/ data[s].at = "closed"
                /\ code = 5 => job[s].next < Total
                /\ Done(s, code)
          /\ rest' = [rest EXCEPT ![s] = 0]
          /\ data' = [data EXCEPT ![s].at = IF @ = "open" THEN "ended" ELSE @]
    /\ UNCHANGED <<client, dir, mode, open, inbox, stop, faults, losses, ghosts>>

\* The loop of session_thread ends; the session is reaped by the next accept or the stop.
Leaves(s) ==
    /\ place[s] = "command" /\ (~open[s] \/ stop)
    /\ place' = [place EXCEPT ![s] = "ended"]
    /\ rest' = [rest EXCEPT ![s] = 0]
    /\ mode' = [mode EXCEPT ![s] = "none"]
    /\ inbox' = [inbox EXCEPT ![s] = <<>>]
    /\ UNCHANGED <<client, copy, dir, job, open, replies, data, stop, faults, losses, ghosts>>

SessionStep(s) == Command(s) \/ Dial(s) \/ Receive(s) \/ Send(s) \/ Leaves(s)

\* ncl_ftp_server_stop: the flag, and a shutdown of every control connection.
Stop ==
    /\ ~stop /\ stop' = TRUE
    /\ open' = [s \in Sessions |-> FALSE]
    /\ UNCHANGED <<client, copy, dir, serving, inbox, replies, data, faults, losses, ghosts>>

-----------------------------------------------------------------------------
(* The client: its places, and the command that is sent at each            *)

Verb == [noop |-> "NOOP", cwd |-> "CWD", mkd |-> "MKD", again |-> "CWD", total |-> "SIZE",
         size |-> "SIZE", rest |-> "REST", landed |-> "SIZE", check |-> "NOOP"]

Asking == DOMAIN Verb \cup {"mode", "verb"}

Connected == ctrl # 0 /\ open[ctrl]

\* What the command at this place is, with the offset that is meant by it.
ClientCommand ==
    [verb |-> CASE pc = "mode" -> IF passive THEN "PASV" ELSE "PORT"
                [] pc = "verb" -> IF op = "download" THEN "RETR"
                                  ELSE IF have > 0 THEN "APPE" ELSE "STOR"
                [] OTHER       -> Verb[pc],
     arg  |-> IF pc \in {"rest", "verb"} THEN have ELSE 0,
     of   |-> op]

Goto(place_) == pc' = place_ /\ asked' = FALSE
Return(res)  == Goto("idle") /\ result' = res

Begin ==
    /\ pc = "idle" /\ tool_calls < MaxToolCalls
    /\ tool_calls' = tool_calls + 1
    /\ op' \in {"upload", "download"}
    /\ try' = 1 /\ attempt' = 1 /\ result' = "none"
    /\ Goto(IF ctrl = 0 THEN "connect" ELSE "noop")
    /\ UNCHANGED <<passive, ctrl, rc, have, copy, dir, serving, wires, data, stop, faults, losses,
                   ghosts>>

\* The next attempt of the file tool, or its failure; a read removes what it got.
NextTry(c) ==
    /\ copy' = IF op = "download" THEN [copy EXCEPT !["download"] = <<>>] ELSE copy
    /\ IF try < Tries
       THEN try' = try + 1 /\ Goto(IF c = 0 THEN "connect" ELSE "noop") /\ UNCHANGED result
       ELSE Return("failed") /\ UNCHANGED try

Storing(s) ==
    \/ place[s] \in {"dial", "move"} /\ job[s].verb \in {"STOR", "APPE"}
    \/ place[s] = "command" /\ \E i \in DOMAIN inbox[s] : inbox[s][i].verb \in {"STOR", "APPE"}

\* A client is made, with a session that logs it in, or none.
MakeClient ==
    /\ pc = "connect"
    /\ \/ \E s \in Sessions :
             /\ ~stop /\ place[s] = "none"
             /\ \A r \in 1..s - 1 : place[r] # "none"
             /\ place' = [place EXCEPT ![s] = "command"]
             /\ open' = [open EXCEPT ![s] = TRUE]
             /\ ctrl' = s
             /\ crossed' = (crossed \/ \E r \in Sessions : Storing(r))
             /\ attempt' = 1
             /\ Goto(IF op = "upload" THEN "cwd" ELSE "total")
             /\ UNCHANGED <<try, result, copy>>
       \/ /\ stop \/ \A s \in Sessions : place[s] # "none"
          /\ IF try < Tries THEN try' = try + 1 /\ Goto("connect") /\ UNCHANGED result
                            ELSE Return("failed") /\ UNCHANGED try
          /\ UNCHANGED <<place, open, ctrl, crossed, attempt, copy>>
    /\ UNCHANGED <<passive, op, rc, have, tool_calls, dir, rest, mode, job, inbox, replies, data,
                   stop, faults, losses, strayed>>

\* Mistake: a mirror that is longer than the file is kept.
DownloadLoopKeepsStale ==
    LET size == Len(copy["download"])
    IN  /\ have' = IF size > Total THEN Total ELSE size
        /\ IF size = Total THEN Return("ok")
                           ELSE Goto(IF have' > 0 THEN "rest" ELSE "mode") /\ UNCHANGED result
        /\ UNCHANGED copy

\* The head of the loop of ncl_ftp_client_download.
DownloadLoop ==
    LET size == Len(copy["download"])
    IN  /\ have' = IF size > Total THEN 0 ELSE size
        /\ copy' = IF size > Total THEN [copy EXCEPT !["download"] = <<>>] ELSE copy
        /\ IF size = Total THEN Return("ok")
                           ELSE Goto(IF have' > 0 THEN "rest" ELSE "mode") /\ UNCHANGED result

NextAttempt ==
    IF attempt = Attempts
    THEN Goto("check") /\ UNCHANGED <<attempt, have, copy, result>>
    ELSE /\ attempt' = attempt + 1
         /\ IF op = "download" THEN DownloadLoop
            ELSE Goto("size") /\ UNCHANGED <<have, copy, result>>

FtpFails == rc' = FALSE /\ pc' = "complete" /\ asked' = TRUE

\* The listener goes, and with it a connection that the server made to it meanwhile.
CloseData ==
    data' = CASE data[ctrl].at = "listening" -> [data EXCEPT ![ctrl] = NoData]
              [] data[ctrl].at = "open"      -> [data EXCEPT ![ctrl] = Broken]
              [] OTHER                       -> data

\* What the client does once a command is answered; code 0 stands for no answer.

Detected(r) ==
    /\ pc = "noop"
    /\ IF r.code = 2
       THEN Goto(IF op = "upload" THEN "cwd" ELSE "total") /\ UNCHANGED <<ctrl, open>>
       ELSE Goto("connect") /\ ctrl' = 0 /\ open' = [open EXCEPT ![ctrl] = FALSE]
    /\ attempt' = 1
    /\ UNCHANGED <<try, rc, have, result, copy, data, faults>>

Directory(r) ==
    /\ \/ pc = "cwd" /\ Goto(IF r.code = 2 THEN "size" ELSE "mkd") /\ UNCHANGED result
       \/ pc = "mkd" /\ r.code = 2 /\ Goto("again") /\ UNCHANGED result
       \/ pc = "mkd" /\ r.code # 2 /\ Return("failed")
       \/ pc = "again" /\ Goto("size") /\ UNCHANGED result
    /\ UNCHANGED <<try, attempt, ctrl, open, rc, have, copy, data, faults>>

\* SIZE before a download, before each attempt of an upload, and after one.
Sized(r) ==
    /\ \/ /\ pc = "total"
          /\ IF r.code = 2 THEN DownloadLoop
                           ELSE Goto("check") /\ UNCHANGED <<have, copy, result>>
          /\ UNCHANGED attempt
       \/ /\ pc = "size"
          /\ have' = IF r.code = 2 /\ r.size <= Total THEN r.size ELSE 0
          /\ IF have' = Total THEN Return("ok") ELSE Goto("mode") /\ UNCHANGED result
          /\ UNCHANGED <<attempt, copy>>
       \/ /\ pc = "landed"
          /\ IF r.code = 2 /\ r.size >= Total
             THEN Return("ok") /\ UNCHANGED <<attempt, have, copy>>
             ELSE NextAttempt
    /\ UNCHANGED <<try, ctrl, open, rc, data, faults>>

Restarts(r) ==
    /\ pc = "rest"
    /\ have' = IF r.code = 3 THEN have ELSE 0
    /\ copy' = IF r.code = 3 THEN copy ELSE [copy EXCEPT !["download"] = <<>>]
    /\ Goto("mode")
    /\ UNCHANGED <<try, attempt, ctrl, open, rc, result, data, faults>>

\* The answer to PORT or PASV; a passive client now connects.
Modes(r) ==
    /\ pc = "mode"
    /\ \/ /\ r.code = 2 /\ rc' = TRUE
          /\ Goto("verb")
          /\ data' = IF passive THEN [data EXCEPT ![ctrl].at = "open"] ELSE data
          /\ UNCHANGED faults
       \/ r.code = 2 /\ passive /\ Fault /\ FtpFails /\ UNCHANGED data
       \/ r.code # 2 /\ FtpFails /\ CloseData /\ UNCHANGED faults
    /\ UNCHANGED <<try, attempt, ctrl, open, have, result, copy>>

\* If the transfer is refused, what a passive client connected is never closed.
Transfers(r) ==
    /\ pc = "verb"
    /\ IF r.code = 1 THEN Goto(IF passive THEN "move" ELSE "accept") /\ UNCHANGED rc ELSE FtpFails
    /\ data' = IF r.code # 1 /\ data[ctrl].at = "open" THEN [data EXCEPT ![ctrl].at = "leaked"]
               ELSE data
    /\ UNCHANGED <<try, attempt, ctrl, open, have, result, copy, faults>>

Completes(r) ==
    /\ pc = "complete"
    /\ rc' = (rc /\ r.code = 2)
    /\ IF ~rc' \/ (op = "download" /\ Len(copy["download"]) < Total)
       THEN NextAttempt
       ELSE /\ IF op = "upload" THEN Goto("landed") /\ UNCHANGED result ELSE Return("ok")
            /\ UNCHANGED <<attempt, have, copy>>
    /\ CloseData
    /\ UNCHANGED <<try, ctrl, open, faults>>

\* After a failed transfer the file tool keeps a connection that answers a NOOP.
Checked(r) ==
    /\ pc = "check"
    /\ ctrl' = IF r.code = 2 THEN ctrl ELSE 0
    /\ open' = IF r.code = 2 THEN open ELSE [open EXCEPT ![ctrl] = FALSE]
    /\ NextTry(ctrl')
    /\ attempt' = 1 /\ rc' = TRUE /\ have' = 0
    /\ UNCHANGED <<data, faults>>

OnReply(r) ==
    \/ Detected(r) \/ Directory(r) \/ Sized(r) \/ Restarts(r) \/ Modes(r)
    \/ Transfers(r) \/ Completes(r) \/ Checked(r)

NoReply == [code |-> 0, size |-> 0]

Owed(s) == replies[s] # <<>> \/ inbox[s] # <<>> \/ place[s] \in {"dial", "move"}

\* ncl_ftp_client_command; before PORT the client listens.
Ask ==
    /\ pc \in Asking /\ ~asked /\ Connected
    /\ asked' = TRUE
    /\ inbox' = [inbox EXCEPT ![ctrl] = Append(@, ClientCommand)]
    /\ data' = IF pc = "mode"
               THEN [data EXCEPT ![ctrl] = [NoData EXCEPT !.at = IF passive THEN "none"
                                                                 ELSE "listening"]]
               ELSE data
    /\ UNCHANGED <<passive, pc, op, try, attempt, ctrl, rc, have, result, tool_calls, copy, dir,
                   serving, open, replies, stop, faults, losses, ghosts>>

CannotAsk ==
    /\ pc \in Asking /\ ~asked /\ ~Connected
    /\ OnReply(NoReply)
    /\ UNCHANGED <<passive, op, tool_calls, dir, serving, inbox, replies, stop, losses, ghosts>>

\* ncl_ftp_client_expect
Take ==
    /\ asked /\ replies[ctrl] # <<>>
    /\ replies' = [replies EXCEPT ![ctrl] = Tail(@)]
    /\ OnReply(Head(replies[ctrl]))
    /\ UNCHANGED <<passive, op, tool_calls, dir, serving, inbox, stop, losses, ghosts>>

Misses ==
    /\ asked /\ (~open[ctrl] \/ ~Owed(ctrl))
    /\ OnReply(NoReply)
    /\ UNCHANGED <<passive, op, tool_calls, dir, serving, inbox, replies, stop, losses, ghosts>>

\* ncl_ftp_client_accept_data: until the server dials, or will not.
Accept ==
    /\ pc = "accept"
    /\ \/ data[ctrl].at # "listening" /\ Goto("move") /\ UNCHANGED rc
       \/ data[ctrl].at = "listening" /\ (~open[ctrl] \/ replies[ctrl] # <<>>) /\ FtpFails
    /\ UNCHANGED <<passive, op, try, attempt, ctrl, have, result, tool_calls, copy, dir, serving,
                   wires, data, stop, faults, losses, ghosts>>

DataClosed(s) == [data EXCEPT ![s].at = IF @ \in {"open", "ended"} THEN "closed" ELSE @]

\* Mistake: a transfer that was given up does not wait for its completion reply.
EndsUntaken(ok) ==
    /\ rc' = ok /\ pc' = (IF ok THEN "complete" ELSE "check") /\ asked' = ok
    /\ data' = DataClosed(ctrl)
    /\ UNCHANGED <<have, copy>>

\* The end of the loop over the pieces: the data connection is closed, the
\* completion reply is waited for.
Ends(ok) ==
    /\ rc' = ok /\ pc' = "complete" /\ asked' = TRUE
    /\ data' = DataClosed(ctrl)
    /\ UNCHANGED <<have, copy>>

\* One turn of the loop of ncl_ftp_client_upload.
SendPiece ==
    /\ pc = "move" /\ op = "upload"
    /\ \/ /\ have < Total /\ data[ctrl].at = "open"
          /\ data' = [data EXCEPT ![ctrl].pieces = Append(@, have + 1)]
          /\ have' = have + 1
          /\ UNCHANGED <<pc, asked, rc, copy>>
       \/ have < Total /\ data[ctrl].at # "open" /\ Ends(FALSE)
       \/ have = Total /\ Ends(TRUE)
    /\ UNCHANGED <<passive, op, try, attempt, ctrl, result, tool_calls, dir, serving, wires, stop,
                   faults, losses, ghosts>>

\* One turn of the loop of ncl_ftp_client_download.
TakePiece ==
    /\ pc = "move" /\ op = "download"
    /\ \/ /\ data[ctrl].pieces # <<>>
          /\ data' = [data EXCEPT ![ctrl].pieces = Tail(@)]
          /\ copy' = [copy EXCEPT !["download"] = Append(@, Head(data[ctrl].pieces))]
          /\ have' = have + 1
          /\ UNCHANGED <<pc, asked, rc>>
       \/ /\ data[ctrl].pieces = <<>> /\ data[ctrl].at # "open"
          /\ Ends(data[ctrl].at = "ended")
    /\ UNCHANGED <<passive, op, try, attempt, ctrl, result, tool_calls, dir, serving, wires, stop,
                   faults, losses, ghosts>>

\* The client gives the transfer up half way: a local error, or the test seam.
GiveUp ==
    /\ pc = "move" /\ Fault /\ Ends(FALSE)
    /\ UNCHANGED <<passive, op, try, attempt, ctrl, result, tool_calls, dir, serving, wires, stop,
                   losses, ghosts>>

BreakData(s) ==
    /\ data[s].at \in {"open", "closed", "ended"} /\ Fault
    /\ data' = [data EXCEPT ![s] = Broken]
    /\ UNCHANGED <<client, copy, dir, serving, wires, stop, losses, ghosts>>

LoseControl(s) ==
    /\ open[s] /\ losses < MaxLosses /\ Fault
    /\ losses' = losses + 1
    /\ open' = [open EXCEPT ![s] = FALSE]
    /\ UNCHANGED <<client, copy, dir, serving, inbox, replies, data, stop, ghosts>>

ClientStep ==
    MakeClient \/ Ask \/ CannotAsk \/ Take \/ Misses \/ Accept \/ SendPiece \/ TakePiece

ToolRests == pc = "idle" /\ UNCHANGED ftp_vars

FtpNext ==
    \/ Begin \/ ClientStep \/ GiveUp \/ Stop \/ ToolRests
    \/ \E s \in Sessions : SessionStep(s) \/ BreakData(s) \/ LoseControl(s)

FtpSpec == FtpInit /\ [][FtpNext]_ftp_vars

\* The threads of both sides go on when they can; faults, and a stop, need not come.
FtpFairSpec ==
    /\ FtpSpec
    /\ WF_ftp_vars(ClientStep)
    /\ \A s \in Sessions : WF_ftp_vars(SessionStep(s))

-----------------------------------------------------------------------------
(* Properties                                                              *)

FtpTypeOK ==
    /\ passive \in BOOLEAN /\ asked \in BOOLEAN /\ rc \in BOOLEAN /\ dir \in BOOLEAN
    /\ pc \in Asking \cup {"idle", "connect", "accept", "move", "complete"}
    /\ op \in {"upload", "download"} /\ result \in {"none", "ok", "failed"}
    /\ try \in 1..Tries /\ attempt \in 1..Attempts /\ have \in 0..Total
    /\ ctrl \in {0} \cup Sessions
    /\ place \in [Sessions -> {"none", "command", "dial", "move", "ended"}]
    /\ open \in [Sessions -> BOOLEAN] /\ rest \in [Sessions -> 0..Total]
    /\ mode \in [Sessions -> {"none", "PORT", "PASV"}]
    /\ \A s \in Sessions : data[s].at \in {"none", "listening", "open", "leaked", "closed", "ended",
                                           "broken"}

\* "That line has to leave the control connection before the resume sends anything
\* else": a command is sent when the session waits for one and owes no reply,
\* however the transfer before it ended.
InStep ==
    /\ FtpTypeOK
    /\ pc \in Asking /\ ~asked /\ Connected =>
          ~Owed(ctrl) /\ place[ctrl] \in {"command", "ended"}

\* "Returns NCL_OK only when the peer ends up holding the whole file", and so for
\* a download: the copy equals the original, through any number of resumptions.
OkMeansWhole == pc = "idle" /\ result = "ok" => copy[op] = Whole \/ strayed \/ crossed

\* "A transfer that dies half way is resumed instead of restarted": what an upload
\* has brought over is never cut back.
KeepsPrefix ==
    [][IsPrefix(copy["upload"], Whole) =>
          Len(copy'["upload"]) >= Len(copy["upload"]) \/ strayed' \/ crossed']_ftp_vars

\* A session whose control connection is gone comes to its end, in whatever loop
\* it is, unless the client has left its data connection open.
SessionsEnd ==
    \A s \in Sessions :
        place[s] # "none" /\ ~open[s] ~> place[s] = "ended" \/ data[s].at = "leaked"
=============================================================================
