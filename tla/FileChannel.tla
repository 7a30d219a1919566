---------------------------- MODULE FileChannel ----------------------------
(***************************************************************************)
(* The file channel: a peer (file_channel.c) mints a login on its own FTP  *)
(* endpoint (ftp_server.c) and hands it to the device in openFileChannel,  *)
(* with the name of a lease; the device (file_tool.c) keeps one lease and  *)
(* dials that endpoint when a file is to be moved (server_file_tool.c).    *)
(* Both method calls travel over MQTT and may time out at the peer before  *)
(* or after the device handles them; the device may restart.               *)
(***************************************************************************)
EXTENDS Naturals, FiniteSets

CONSTANTS
    Peers,      \* client processes, each with an endpoint of its own
    Leases,     \* channel ids
    Owner,      \* the peer that uses each of them
    Forcing,    \* the peers that set options.force
    MaxCalls,   \* bound on the calls made, and so on the passwords minted
    MaxRestarts,
    None

ASSUME FileChannelAssumption ==
    /\ Owner \in [Leases -> Peers]
    /\ Forcing \subseteq Peers
    /\ MaxCalls \in Nat /\ MaxRestarts \in Nat
    /\ None \notin Peers \cup Leases

VARIABLES
    calls,      \* calls made; the number of a call is its @id and its password
    call,       \* the call each peer waits in
    held,       \* client->file_channel_id, which has the peer's login with it
    account,    \* the password of the peer's login on its endpoint, 0 for none
    requests,   \* method calls on their way to the device, in any order
    responses,  \* and answers on their way back
    channel,    \* state->channel_id
    remote,     \* state->remote: the endpoint dialled and the password used
    session,    \* the FTP session: none, checked (inside PASS), live
    slipped,    \* its login was revoked while it was inside PASS
    busy,       \* a transfer is using state->remote
    restarts,
    troubled,   \* the peers something unusual has happened to
    undefined   \* state->remote was freed under a transfer

peers   == <<calls, call, held, account>>
wire    == <<requests, responses>>
device  == <<channel, remote, session, slipped, busy>>
history == <<restarts, troubled, undefined>>
vars    == <<peers, wire, device, history>>

Idle == [op |-> "none", id |-> 0]
NoRemote == [peer |-> None, password |-> 0]

Init ==
    /\ calls = 0
    /\ call = [p \in Peers |-> Idle]
    /\ held = [p \in Peers |-> None]
    /\ account = [p \in Peers |-> 0]
    /\ requests = {} /\ responses = {}
    /\ channel = None /\ remote = NoRemote
    /\ session = "none" /\ slipped = FALSE /\ busy = FALSE
    /\ restarts = 0 /\ troubled = {} /\ undefined = FALSE

-----------------------------------------------------------------------------
(* The peer                                                                *)

\* Mistake: the sessions of a revoked login go on.
RevokeKeepsSession(p) ==
    /\ account' = [account EXCEPT ![p] = 0]
    /\ slipped' = IF remote.peer = p THEN session = "checked" ELSE slipped
    /\ UNCHANGED session

\* ncl_ftp_server_remove_account: the login is gone and a session that is logged
\* in is closed; one that is inside PASS is not.
Revoke(p) ==
    /\ account' = [account EXCEPT ![p] = 0]
    /\ session' = IF remote.peer = p /\ session = "live" THEN "none" ELSE session
    /\ slipped' = IF remote.peer = p THEN session = "checked" ELSE slipped

\* channel_call: the request is sent, the call waits for its answer.
Request(p, op, l) ==
    /\ call[p] = Idle /\ calls < MaxCalls
    /\ calls' = calls + 1
    /\ call' = [call EXCEPT ![p] = [op |-> op, id |-> calls + 1]]
    /\ requests' = requests \cup
         {[op |-> op, id |-> calls + 1, peer |-> p, lease |-> l]}

\* ncl_client_open_file_channel: the login is registered (a new password if it
\* is there already) before the device is asked.
Open(p, l) ==
    /\ Owner[l] = p
    /\ Request(p, "open", l)
    /\ account' = [account EXCEPT ![p] = calls + 1]
    /\ UNCHANGED <<held, responses, device, history>>

Answered(p, ok) ==
    \E m \in responses :
        /\ m.id = call[p].id /\ m.ok = ok
        /\ responses' = responses \ {m}

Opened(p) ==
    /\ call[p].op = "open"
    /\ \E m \in responses :
           /\ m.id = call[p].id /\ m.ok
           /\ responses' = responses \ {m}
           /\ held' = [held EXCEPT ![p] = m.lease]
    /\ call' = [call EXCEPT ![p] = Idle]
    /\ UNCHANGED <<calls, account, requests, device, history>>

\* The answer is NG, or timeout_ms passes first.
Fails(p) ==
    \/ /\ Answered(p, FALSE)
       /\ UNCHANGED troubled
    \/ /\ troubled' = troubled \cup {p}
       /\ UNCHANGED responses

\* Mistake: the login is left behind when the device refuses or does not answer.
OpenFailedKeepsLogin(p) ==
    /\ call[p].op = "open"
    /\ Fails(p)
    /\ call' = [call EXCEPT ![p] = Idle]
    /\ UNCHANGED <<calls, held, account, requests, device, restarts, undefined>>

\* The login is revoked, unless a previous channel of this client keeps it.
OpenFailed(p) ==
    /\ call[p].op = "open"
    /\ Fails(p)
    /\ call' = [call EXCEPT ![p] = Idle]
    /\ IF held[p] = None THEN Revoke(p) ELSE UNCHANGED <<account, session, slipped>>
    /\ UNCHANGED <<calls, held, requests, channel, remote, busy, restarts, undefined>>

\* ncl_client_close_file_channel; without a lease there is nothing to do.
Close(p) ==
    /\ held[p] # None
    /\ Request(p, "close", held[p])
    /\ UNCHANGED <<held, account, responses, device, history>>

\* The lease and the login are dropped whatever the device answers.
Closed(p) ==
    /\ call[p].op = "close"
    /\ \/ Answered(p, TRUE) /\ UNCHANGED troubled
       \/ Fails(p)
    /\ call' = [call EXCEPT ![p] = Idle]
    /\ held' = [held EXCEPT ![p] = None]
    /\ Revoke(p)
    /\ UNCHANGED <<calls, requests, channel, remote, busy, restarts, undefined>>

-----------------------------------------------------------------------------
(* The device                                                              *)

Reply(m, ok) ==
    /\ requests' = requests \ {m}
    /\ responses' = responses \cup {[id |-> m.id, lease |-> m.lease, ok |-> ok]}

\* state->remote is freed, which a transfer on another pool thread may be using.
Undefined ==
    /\ busy
    /\ undefined' = TRUE
    /\ UNCHANGED <<peers, wire, device, restarts, troubled>>

Taken(m) == channel # None /\ channel # m.lease /\ m.peer \notin Forcing

Connect(m) ==
    /\ channel' = m.lease
    /\ remote' = [peer |-> m.peer, password |-> m.id]
    /\ session' = "none" /\ slipped' = FALSE

\* Mistake: the second peer to ask gets the channel.
HandleOpenLast(m) ==
    /\ m.op = "open"
    /\ IF channel = m.lease THEN UNCHANGED <<channel, remote, session, slipped>>
                           ELSE Connect(m)
    /\ Reply(m, TRUE)
    /\ UNCHANGED <<peers, busy, history>>

\* file_tool_open_channel
HandleOpen(m) ==
    /\ m.op = "open"
    /\ \/ /\ channel = m.lease          \* reused: only the idle clock moves
          /\ Reply(m, TRUE)
          /\ UNCHANGED <<device, troubled, restarts, undefined>>
       \/ /\ Taken(m)
          /\ Reply(m, FALSE)
          /\ UNCHANGED <<device, troubled, restarts, undefined>>
       \/ /\ channel # m.lease /\ ~Taken(m) /\ ~busy
          /\ Connect(m)
          /\ troubled' = troubled \cup (IF channel = None THEN {} ELSE {Owner[channel]})
          /\ Reply(m, TRUE)
          /\ UNCHANGED <<busy, restarts, undefined>>
    /\ UNCHANGED peers

\* file_tool_close_channel: no channel is fine, another one's is not.
HandleClose(m) ==
    /\ m.op = "close"
    /\ \/ /\ channel = None \/ channel # m.lease
          /\ Reply(m, channel = None)
          /\ UNCHANGED <<peers, device, history>>
       \/ /\ channel = m.lease /\ ~busy
          /\ channel' = None /\ remote' = NoRemote
          /\ session' = "none" /\ slipped' = FALSE
          /\ Reply(m, TRUE)
          /\ UNCHANGED <<peers, busy, history>>

HandleBusy(m) ==
    /\ \/ m.op = "open" /\ channel # m.lease /\ ~Taken(m)
       \/ m.op = "close" /\ channel = m.lease
    /\ Undefined

\* A file is to be moved: ncl_server_file_tool_detect finds the session alive or
\* logs in; the endpoint checks the password.
Transfer ==
    /\ remote # NoRemote /\ ~busy
    /\ \/ session = "live" /\ UNCHANGED session
       \/ /\ session = "none"
          /\ account[remote.peer] = remote.password
          /\ session' = "checked"
    /\ busy' = TRUE
    /\ UNCHANGED <<peers, wire, channel, remote, slipped, history>>

\* PASS: the session is logged in after the lock of the accounts is released.
LogIn ==
    /\ session = "checked"
    /\ session' = "live"
    /\ UNCHANGED <<peers, wire, channel, remote, slipped, busy, history>>

TransferEnd ==
    /\ busy /\ session # "checked"
    /\ busy' = FALSE
    /\ UNCHANGED <<peers, wire, channel, remote, session, slipped, history>>

\* The idle timeout of the endpoint, or the network.
SessionDrops ==
    /\ session = "live"
    /\ session' = "none" /\ slipped' = FALSE
    /\ UNCHANGED <<peers, wire, channel, remote, busy, history>>

Restart ==
    /\ restarts < MaxRestarts
    /\ restarts' = restarts + 1
    /\ channel' = None /\ remote' = NoRemote /\ busy' = FALSE
    /\ session' = "none" /\ slipped' = FALSE
    /\ troubled' = Peers
    /\ UNCHANGED <<peers, wire, undefined>>

Rest ==
    /\ undefined \/ (calls = MaxCalls /\ \A p \in Peers : call[p] = Idle)
    /\ UNCHANGED vars

Next ==
    \/ /\ ~undefined
       /\ \/ \E p \in Peers : \/ \E l \in Leases : Open(p, l)
                              \/ Opened(p) \/ OpenFailed(p) \/ Close(p) \/ Closed(p)
          \/ \E m \in requests : HandleOpen(m) \/ HandleClose(m) \/ HandleBusy(m)
          \/ Transfer \/ LogIn \/ TransferEnd \/ SessionDrops \/ Restart
    \/ Rest

Spec == Init /\ [][Next]_vars

-----------------------------------------------------------------------------
(* Properties                                                              *)

\* The values every variable may take.
TypeOK ==
    /\ calls \in 0..MaxCalls
    /\ call \in [Peers -> [op : {"none", "open", "close"}, id : 0..MaxCalls]]
    /\ held \in [Peers -> Leases \cup {None}]
    /\ account \in [Peers -> 0..MaxCalls]
    /\ requests \subseteq [op : {"open", "close"}, id : 1..MaxCalls, peer : Peers, lease : Leases]
    /\ responses \subseteq [id : 1..MaxCalls, lease : Leases, ok : BOOLEAN]
    /\ channel \in Leases \cup {None}
    /\ remote \in [peer : Peers \cup {None}, password : 0..MaxCalls]
    /\ (channel = None) = (remote = NoRemote)
    /\ session \in {"none", "checked", "live"} /\ slipped \in BOOLEAN /\ busy \in BOOLEAN
    /\ restarts \in 0..MaxRestarts /\ troubled \subseteq Peers /\ undefined \in BOOLEAN

\* A login exists exactly while it can be of use: for a lease the peer holds, or
\* for one it is asking for.  Each of the failing paths has to see to that.
LoginTracksLease ==
    \A p \in Peers : account[p] # 0 <=> held[p] # None \/ call[p].op = "open"

\* Peer and device agree on who has the channel, as long as no call has timed
\* out, the device has not restarted and nobody has used force.
LeaseAgrees ==
    \A p \in Peers \ troubled :
        call[p] = Idle =>
            /\ held[p] # None => channel = held[p]
            /\ held[p] = None => \A l \in Leases : Owner[l] = p => channel # l

\* "A revoked credential must not keep its control connection alive", though the
\* device logs in, transfers and reconnects while the peer revokes and mints
\* logins: a session that is logged in has a login.  The one way around it is to
\* be inside PASS, checked but not yet logged in, when the login is revoked.
LiveSessionsHaveLogin ==
    session = "live" /\ ~slipped => account[remote.peer] # 0

\* The same with no way around it, which the code does not keep.
EveryLiveSessionHasLogin == session = "live" => account[remote.peer] # 0

\* "A second lease is refused, and the open one survives the refusal", and the
\* same lease may be opened again: the device can log in with what it was given.
HeldLeaseWorks ==
    \A p \in Peers \ troubled :
        call[p] = Idle /\ held[p] # None /\ channel = held[p] =>
            account[p] = remote.password

\* "In-flight operations fail from here on: that is the revocation."
RevocationFailsTransfers == ~undefined
=============================================================================
