---------------------------- MODULE MqttSession ----------------------------
(***************************************************************************)
(* The life of a connection in stack/src/mqtt/client.c: one application    *)
(* thread that calls ncl_mqtt_client_connect and _disconnect, the reader   *)
(* thread with its session loop and its reconnects, and the peer.  The     *)
(* flags of the client are read and written by both threads, some of them  *)
(* without the mutex; every action is one such access.  The names it would *)
(* share with MqttPublish, the other model of the client, are prefixed.    *)
(***************************************************************************)
EXTENDS Naturals, FiniteSets

CONSTANTS
    Ops,          \* what the application may call
    MaxOps,       \* bound on its calls
    MaxSockets,   \* bound on the sockets opened
    MaxRefusals,  \* bound on the attempts to connect that fail
    Automatic,    \* options->automatic_reconnect
    KeepAlive,    \* options->keep_alive_seconds > 0
    StartMayFail  \* may ncl_thread_start return NULL?

ASSUME SessionAssumption ==
    /\ Ops \subseteq {"connect", "disconnect"}
    /\ MaxOps \in Nat /\ MaxSockets \in Nat /\ MaxRefusals \in Nat
    /\ Automatic \in BOOLEAN /\ KeepAlive \in BOOLEAN /\ StartMayFail \in BOOLEAN

VARIABLES
    stopping, automatic_reconnect, user_disconnect, running,
    is_connected,        \* client->connected
    server_disconnect,   \* "none", or the reason of the server's DISCONNECT
    socket,              \* client->sock, 0 for NULL; sockets are numbered
    opened,              \* how many were opened
    closes,              \* how often each was closed
    peer,                \* what the peer of the newest socket does
    thread,              \* client->reader: "null" or "set"
    reader,              \* where the reader thread stands
    rsock,               \* the socket it reads from
    ping,                \* its ping_outstanding
    will_reconnect,      \* its decision after a session
    app, asock,          \* the application thread, and its local `dead'
    call_ok,             \* whether its last call returned NCL_OK
    was_accepted,        \* the broker accepted a connection during that call
    ops, refusals

flags == <<stopping, automatic_reconnect, user_disconnect>>
state == <<running, is_connected, server_disconnect>>
wire  == <<socket, opened, closes, peer, refusals>>
rvars == <<reader, rsock, ping, will_reconnect>>
avars == <<app, asock, call_ok, thread, ops>>
session_vars == <<flags, state, wire, rvars, avars, was_accepted>>

-----------------------------------------------------------------------------
Sockets == 1..MaxSockets

\* "none": no thread; then the session loop, its end, the reconnect loop.
ReaderPlaces == {"none", "session", "reading", "detach", "check", "decide", "mark",
                 "backoff", "open", "shake", "shaking", "established", "exit", "finished"}
AppPlaces    == {"idle", "running?", "prepare", "join finished", "open", "shake",
                 "start", "stop", "mark", "detach", "join", "close"}

Connecting    == app \in {"running?", "prepare", "join finished", "open", "shake", "start"}
Disconnecting == app \in {"stop", "mark", "detach", "join", "close"}
ReaderAlive   == reader \notin {"none", "finished"}

SessionInit ==
    /\ stopping = FALSE /\ automatic_reconnect = Automatic /\ user_disconnect = FALSE
    /\ running = FALSE /\ is_connected = FALSE /\ server_disconnect = "none"
    /\ socket = 0 /\ opened = 0 /\ closes = [s \in Sockets |-> 0] /\ peer = "gone"
    /\ reader = "none" /\ rsock = 0 /\ ping = FALSE /\ will_reconnect = FALSE
    /\ app = "idle" /\ asock = 0 /\ call_ok = FALSE /\ thread = "null"
    /\ ops = 0 /\ refusals = 0 /\ was_accepted = FALSE

\* ncl_socket_connect, then the store of the socket.
Open ==
    /\ opened < MaxSockets
    /\ opened' = opened + 1
    /\ socket' = opened'
    /\ peer' = "up"
    /\ UNCHANGED <<closes, refusals>>

\* An attempt fails; at the bound on sockets every attempt does.
Refused ==
    \/ refusals < MaxRefusals /\ refusals' = refusals + 1
    \/ opened = MaxSockets /\ UNCHANGED refusals

\* ncl_mqtt_client_detach_socket and ncl_socket_close.
DetachAndClose ==
    /\ socket' = 0
    /\ closes' = [s \in Sockets |-> IF s = socket THEN closes[s] + 1 ELSE closes[s]]
    /\ peer' = IF socket # 0 THEN "gone" ELSE peer

\* CONNACK has been read: the end of ncl_mqtt_client_handshake.
Establish ==
    /\ is_connected' = TRUE
    /\ server_disconnect' = "none"
    /\ was_accepted' = TRUE

-----------------------------------------------------------------------------
(* ncl_mqtt_client_connect                                                 *)

At(place) == app = place
AppGoto(place) == app' = place /\ UNCHANGED <<asock, call_ok, ops>>
AppReturn(rc)  == app' = "idle" /\ call_ok' = rc /\ UNCHANGED <<asock, ops>>

ConnectCall ==
    /\ At("idle") /\ "connect" \in Ops /\ ops < MaxOps
    /\ ops' = ops + 1
    /\ app' = IF running THEN "running?" ELSE "prepare"
    /\ was_accepted' = FALSE
    /\ UNCHANGED <<asock, call_ok, thread, flags, state, wire, rvars>>

\* A wait of at most two seconds for the reader to end; "already running" after it.
ConnectWait ==
    /\ At("running?")
    /\ IF running THEN AppReturn(TRUE) ELSE AppGoto("prepare")
    /\ UNCHANGED <<thread, flags, state, wire, rvars, was_accepted>>

ConnectPrepare ==
    /\ At("prepare")
    /\ stopping' = FALSE /\ user_disconnect' = FALSE
    /\ AppGoto("join finished")
    /\ UNCHANGED <<automatic_reconnect, thread, state, wire, rvars, was_accepted>>

ConnectJoin ==
    /\ At("join finished")
    /\ thread = "set" => reader = "finished"
    /\ thread' = "null"
    /\ AppGoto("open")
    /\ UNCHANGED <<flags, state, wire, rvars, was_accepted>>

ConnectOpen ==
    /\ At("open")
    /\ \/ Open /\ AppGoto("shake")
       \/ Refused /\ AppReturn(FALSE) /\ UNCHANGED <<socket, opened, closes, peer>>
    /\ UNCHANGED <<thread, flags, state, rvars, was_accepted>>

ConnectShake ==
    /\ At("shake")
    /\ \/ /\ peer = "up"
          /\ Establish
          /\ AppGoto("start")
          /\ UNCHANGED wire
       \/ /\ Refused \/ (peer # "up" /\ UNCHANGED refusals)
          /\ DetachAndClose
          /\ AppReturn(FALSE)
          /\ UNCHANGED <<opened, is_connected, server_disconnect, was_accepted>>
    /\ UNCHANGED <<thread, flags, running, rvars>>

\* running is set before the thread is known to have started.
ConnectStart ==
    /\ At("start")
    /\ running' = TRUE
    /\ \/ thread' = "set" /\ reader' = "session" /\ AppReturn(TRUE)
       \/ StartMayFail /\ UNCHANGED <<thread, reader>> /\ AppReturn(FALSE)
    /\ ping' = FALSE
    /\ UNCHANGED <<flags, is_connected, server_disconnect, wire, rsock, will_reconnect,
                   was_accepted>>

-----------------------------------------------------------------------------
(* ncl_mqtt_client_disconnect                                              *)

\* The DISCONNECT packet tells the peer, if there is one.
DisconnectCall ==
    /\ At("idle") /\ "disconnect" \in Ops /\ ops < MaxOps
    /\ ops' = ops + 1
    /\ user_disconnect' = TRUE
    /\ app' = "stop"
    /\ peer' = IF is_connected /\ socket # 0 /\ peer = "up" THEN "gone" ELSE peer
    /\ UNCHANGED <<stopping, automatic_reconnect, asock, call_ok, thread, state, socket, opened,
                   closes, refusals, rvars, was_accepted>>

\* Mistake: the reader is not told to stop.
DisconnectWithoutStop ==
    /\ At("stop")
    /\ automatic_reconnect' = FALSE
    /\ AppGoto("mark")
    /\ UNCHANGED <<stopping, user_disconnect, thread, state, wire, rvars, was_accepted>>

DisconnectStop ==
    /\ At("stop")
    /\ stopping' = TRUE /\ automatic_reconnect' = FALSE
    /\ AppGoto("mark")
    /\ UNCHANGED <<user_disconnect, thread, state, wire, rvars, was_accepted>>

DisconnectMark ==
    /\ At("mark")
    /\ is_connected' = FALSE
    /\ AppGoto("detach")
    /\ UNCHANGED <<running, server_disconnect, thread, flags, wire, rvars, was_accepted>>

\* Mistake: the socket is closed while the reader may be inside a receive.
DisconnectDetachAndClose ==
    /\ At("detach")
    /\ DetachAndClose
    /\ AppGoto("join")
    /\ UNCHANGED <<opened, refusals, thread, flags, state, rvars,
                   was_accepted>>

\* Detach and shut the socket down: a receive on it returns.
DisconnectDetach ==
    /\ At("detach")
    /\ asock' = socket
    /\ socket' = 0
    /\ peer' = IF socket # 0 THEN "gone" ELSE peer
    /\ app' = "join"
    /\ UNCHANGED <<call_ok, ops, opened, closes, refusals, thread, flags, state, rvars,
                   was_accepted>>

DisconnectJoin ==
    /\ At("join")
    /\ thread = "set" => reader = "finished"
    /\ thread' = "null"
    /\ AppGoto("close")
    /\ UNCHANGED <<flags, state, wire, rvars, was_accepted>>

DisconnectClose ==
    /\ At("close")
    /\ closes' = [s \in Sockets |-> IF s = asock THEN closes[s] + 1 ELSE closes[s]]
    /\ asock' = 0
    /\ running' = FALSE
    /\ app' = "idle" /\ call_ok' = TRUE
    /\ UNCHANGED <<ops, socket, opened, peer, refusals, thread, flags, is_connected,
                   server_disconnect, rvars, was_accepted>>

-----------------------------------------------------------------------------
(* ncl_mqtt_client_reader                                                  *)

Step(from, to) ==
    /\ reader = from
    /\ reader' = to
    /\ UNCHANGED <<avars, rsock, ping>>

\* The head of the session loop; read_packet takes its copy of the socket.
ReaderLoop ==
    /\ reader = "session"
    /\ reader' = IF stopping THEN "detach" ELSE "reading"
    /\ rsock' = IF stopping THEN 0 ELSE socket
    /\ UNCHANGED <<ping, will_reconnect, avars, flags, state, wire, was_accepted>>

\* The receive ends: nothing for a second, a packet, end of file, a DISCONNECT.
\* With no socket it returns at once, and so it does when the peer is well.
ReaderIdle ==
    /\ reader = "reading"
    /\ rsock = 0 \/ (rsock = socket /\ peer = "up")
    /\ reader' = IF stopping THEN "detach" ELSE "session"
    /\ rsock' = 0
    /\ UNCHANGED <<ping, will_reconnect, avars, flags, state, wire, was_accepted>>

\* A silent peer: keep alive sends a ping and, when that has been outstanding for
\* too long, ends the session.  The idle ticks in between change nothing.
ReaderKeepAlive ==
    /\ reader = "reading"
    /\ rsock # 0 /\ rsock = socket /\ peer = "silent"
    /\ reader' = IF stopping \/ (is_connected /\ ping) THEN "detach" ELSE "session"
    /\ ping' = (ping \/ (KeepAlive /\ is_connected))
    /\ rsock' = 0
    /\ UNCHANGED <<will_reconnect, avars, flags, state, wire, was_accepted>>

ReaderEof ==
    /\ reader = "reading"
    /\ rsock # 0
    /\ rsock # socket \/ peer = "gone"
    /\ reader' = "detach"
    /\ rsock' = 0
    /\ UNCHANGED <<ping, will_reconnect, avars, flags, state, wire, was_accepted>>

\* The server's DISCONNECT, 0x8E when another client took the identifier over.
ReaderServerDisconnect ==
    /\ reader = "reading"
    /\ rsock # 0 /\ rsock = socket
    /\ peer \in {"disconnect", "takeover"}
    /\ server_disconnect' = peer
    /\ reader' = "detach"
    /\ rsock' = 0
    /\ UNCHANGED <<running, is_connected, ping, will_reconnect, avars, flags, wire, was_accepted>>

ReaderDetach ==
    /\ Step("detach", "check")
    /\ DetachAndClose
    /\ UNCHANGED <<opened, refusals, will_reconnect, flags, state, was_accepted>>

ReaderCheck ==
    /\ Step("check", IF stopping THEN "exit" ELSE "decide")
    /\ UNCHANGED <<will_reconnect, flags, state, wire, was_accepted>>

Wanted == automatic_reconnect /\ ~user_disconnect /\ server_disconnect # "takeover"

ReaderDecide ==
    /\ Step("decide", "mark")
    /\ will_reconnect' = Wanted
    /\ UNCHANGED <<flags, state, wire, was_accepted>>

\* ncl_mqtt_client_mark_disconnected
ReaderMark ==
    /\ Step("mark", IF will_reconnect THEN "backoff" ELSE "exit")
    /\ is_connected' = FALSE
    /\ UNCHANGED <<will_reconnect, flags, running, server_disconnect, wire, was_accepted>>

ReaderBackoff ==
    /\ Step("backoff", IF stopping THEN "exit" ELSE "open")
    /\ UNCHANGED <<will_reconnect, flags, state, wire, was_accepted>>

\* Mistake: one failed attempt is the last.
ReaderOpenOnce ==
    /\ \/ Step("open", "shake") /\ Open
       \/ Step("open", "exit") /\ Refused /\ UNCHANGED <<socket, opened, closes, peer>>
    /\ UNCHANGED <<will_reconnect, flags, state, was_accepted>>

ReaderOpen ==
    /\ \/ Step("open", "shake") /\ Open
       \/ Step("open", "backoff") /\ Refused /\ UNCHANGED <<socket, opened, closes, peer>>
    /\ UNCHANGED <<will_reconnect, flags, state, was_accepted>>

\* CONNECT goes out, the wait for CONNACK begins; without a socket neither happens.
ReaderShake ==
    /\ reader = "shake"
    /\ reader' = IF socket = 0 THEN "backoff" ELSE "shaking"
    /\ rsock' = socket
    /\ UNCHANGED <<ping, will_reconnect, avars, flags, state, wire, was_accepted>>

ReaderShaken ==
    /\ reader = "shaking"
    /\ rsock' = 0
    /\ \/ /\ rsock = socket /\ peer = "up"
          /\ reader' = "established"
          /\ UNCHANGED wire
       \/ /\ Refused \/ ((rsock # socket \/ peer # "up") /\ UNCHANGED refusals)
          /\ reader' = "backoff"
          /\ DetachAndClose
          /\ UNCHANGED opened
    /\ UNCHANGED <<ping, will_reconnect, avars, flags, state, was_accepted>>

ReaderEstablish ==
    /\ reader = "established" /\ reader' = "session"
    /\ ping' = FALSE
    /\ Establish
    /\ UNCHANGED <<rsock, will_reconnect, avars, flags, running, wire>>

ReaderExit ==
    /\ Step("exit", "finished")
    /\ running' = FALSE
    /\ UNCHANGED <<will_reconnect, flags, is_connected, server_disconnect, wire, was_accepted>>

-----------------------------------------------------------------------------
\* The peer of a socket stops answering, closes, or sends DISCONNECT and closes.
PeerChange ==
    /\ peer = "up" /\ is_connected
    /\ \E p \in {"silent", "gone", "disconnect", "takeover"} : peer' = p
    /\ UNCHANGED <<socket, opened, closes, refusals, flags, state, rvars, avars, was_accepted>>

App ==
    \/ ConnectWait \/ ConnectPrepare \/ ConnectJoin \/ ConnectOpen \/ ConnectShake
    \/ ConnectStart
    \/ DisconnectStop \/ DisconnectMark \/ DisconnectDetach \/ DisconnectJoin
    \/ DisconnectClose

SessionReader ==
    \/ ReaderLoop \/ ReaderIdle \/ ReaderKeepAlive \/ ReaderEof \/ ReaderServerDisconnect
    \/ ReaderDetach \/ ReaderCheck \/ ReaderDecide \/ ReaderMark \/ ReaderBackoff
    \/ ReaderOpen \/ ReaderShake \/ ReaderShaken \/ ReaderEstablish \/ ReaderExit

\* The application has made its last call and there is no reader.
Rest ==
    /\ At("idle") /\ ops = MaxOps /\ ~ReaderAlive
    /\ UNCHANGED session_vars

SessionNext == ConnectCall \/ DisconnectCall \/ App \/ SessionReader \/ PeerChange \/ Rest

SessionSpec == SessionInit /\ [][SessionNext]_session_vars

\* Both threads run, and so do the timeouts of what they wait for.
SessionFairSpec == SessionSpec /\ WF_session_vars(App) /\ WF_session_vars(SessionReader)

-----------------------------------------------------------------------------
(* Properties                                                              *)

\* The values every variable may take.
SessionTypeOK ==
    /\ stopping \in BOOLEAN /\ automatic_reconnect \in BOOLEAN /\ user_disconnect \in BOOLEAN
    /\ running \in BOOLEAN /\ is_connected \in BOOLEAN
    /\ server_disconnect \in {"none", "disconnect", "takeover"}
    /\ socket \in 0..MaxSockets /\ opened \in 0..MaxSockets
    /\ closes \in [Sockets -> 0..1]
    /\ peer \in {"up", "silent", "gone", "disconnect", "takeover"}
    /\ reader \in ReaderPlaces /\ rsock \in 0..MaxSockets
    /\ ping \in BOOLEAN /\ will_reconnect \in BOOLEAN
    /\ app \in AppPlaces /\ asock \in 0..MaxSockets /\ thread \in {"null", "set"}
    /\ call_ok \in BOOLEAN /\ was_accepted \in BOOLEAN
    /\ ops \in 0..MaxOps /\ refusals \in 0..MaxRefusals

\* "so it can be shut down and freed exactly once": no socket is closed while the
\* reader is inside a receive on it, and none is lost: every socket
\* that is neither closed nor client->sock is on its way to be closed.
SocketsOwned ==
    /\ \A s \in {socket, rsock, asock} \ {0} : closes[s] = 0
    /\ \A s \in 1..opened : closes[s] = 0 => s \in {socket, asock}

\* client->running says whether there is a reader, whenever the application may
\* look: "reader thread alive".
RunningMeansReader ==
    At("idle") => (running <=> ReaderAlive)

\* The socket and the reader are each there exactly as long as client->sock,
\* client->running and client->thread say so.
SessionSound == SessionTypeOK /\ SocketsOwned /\ RunningMeansReader

\* "Send DISCONNECT and close the socket (no reconnect afterwards)": after
\* disconnect has returned, the client does not say it is connected.
DisconnectIsFinal ==
    At("idle") /\ user_disconnect => ~is_connected

\* "Returns NCL_OK only when the broker accepted the connection": during this call,
\* or before it if the session still stands.
ConnectMeansAccepted ==
    [][Connecting /\ app' = "idle" /\ call_ok' => was_accepted' \/ is_connected']_session_vars

\* A call of connect or disconnect returns.
CallsReturn == app # "idle" ~> app = "idle"

\* While client->automatic_reconnect is set a lost session is replaced, unless
\* another client took the identifier over.
Reconnects ==
    automatic_reconnect /\ ~is_connected /\ reader \in {"backoff", "exit"} ~>
        is_connected \/ ~automatic_reconnect \/ server_disconnect = "takeover"
                  \/ opened = MaxSockets

\* "subscription bookkeeping and automatic reconnect": the same for a client
\* whose options ask for it, until the application disconnects.
KeepsReconnecting ==
    Automatic /\ ~is_connected /\ reader \in {"backoff", "exit"} ~>
        is_connected \/ user_disconnect \/ server_disconnect = "takeover"
                  \/ opened = MaxSockets

\* Keep alive notices a peer that has fallen silent.
SilenceNoticed ==
    KeepAlive /\ peer = "silent" /\ ReaderAlive ~> socket = 0 \/ peer # "silent"

\* A dead session is found out, and a lost one replaced.
LossHandled == SilenceNoticed /\ Reconnects
=============================================================================
