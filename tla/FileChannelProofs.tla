------------------------- MODULE FileChannelProofs -------------------------
(***************************************************************************)
(* Theorems about FileChannel, for any peers, leases and number of calls,  *)
(* and about the transfers that FtpTransfer models, for any length of the  *)
(* file and any number of attempts, calls, lost connections and sessions.  *)
(***************************************************************************)
EXTENDS FileChannel, FtpTransfer, SequenceTheorems, TLAPS

\* The steps of a device leave everything a peer keeps alone.
Device ==
    \/ \E m \in requests : HandleOpen(m) \/ HandleClose(m) \/ HandleBusy(m)
    \/ Transfer \/ LogIn \/ TransferEnd \/ SessionDrops \/ Restart \/ Rest

\* What every proof about a step starts from: the actions, one by one.
LEMMA StepCases ==
    ASSUME Next
    PROVE  \/ \E p \in Peers, l \in Leases : Open(p, l)
           \/ \E p \in Peers : Opened(p) \/ OpenFailed(p) \/ Close(p) \/ Closed(p)
           \/ Device
  BY DEF Next, Device

\* The device never touches a peer's call, lease or login.
LEMMA DeviceLeavesPeers == ASSUME Device PROVE UNCHANGED peers
  BY DEF Device, HandleOpen, HandleClose, HandleBusy, Undefined, Transfer, LogIn, TransferEnd,
         SessionDrops, Restart, Rest, vars, peers

-----------------------------------------------------------------------------
(* Type correctness                                                        *)

\* The parts of TypeOK that a peer changes and those that the device changes.
PeersOK ==
    /\ calls \in 0..MaxCalls
    /\ call \in [Peers -> [op : {"none", "open", "close"}, id : 0..MaxCalls]]
    /\ held \in [Peers -> Leases \cup {None}]
    /\ account \in [Peers -> 0..MaxCalls]

WireOK ==
    /\ requests \subseteq [op : {"open", "close"}, id : 1..MaxCalls, peer : Peers, lease : Leases]
    /\ responses \subseteq [id : 1..MaxCalls, lease : Leases, ok : BOOLEAN]

DeviceOK ==
    /\ channel \in Leases \cup {None}
    /\ remote \in [peer : Peers \cup {None}, password : 0..MaxCalls]
    /\ (channel = None) = (remote = NoRemote)
    /\ session \in {"none", "checked", "live"} /\ slipped \in BOOLEAN /\ busy \in BOOLEAN

HistoryOK ==
    restarts \in 0..MaxRestarts /\ troubled \subseteq Peers /\ undefined \in BOOLEAN

\* TypeOK, in the four parts above.
LEMMA TypeParts == TypeOK <=> PeersOK /\ WireOK /\ DeviceOK /\ HistoryOK
  BY DEF TypeOK, PeersOK, WireOK, DeviceOK, HistoryOK

\* A request that is sent is well typed, and so is what the peer then keeps.
LEMMA RequestType ==
    ASSUME PeersOK, WireOK, NEW p \in Peers, NEW o \in {"open", "close"},
           NEW l \in Leases, Request(p, o, l)
    PROVE  /\ calls' \in 1..MaxCalls /\ calls' = calls + 1
           /\ call' \in [Peers -> [op : {"none", "open", "close"}, id : 0..MaxCalls]]
           /\ requests' \subseteq
                [op : {"open", "close"}, id : 1..MaxCalls, peer : Peers, lease : Leases]
  BY FileChannelAssumption DEF FileChannelAssumption, PeersOK, WireOK, Request

\* What a step that leaves the device and the history alone does to the types.
LEMMA DeviceKept ==
    ASSUME DeviceOK, HistoryOK, UNCHANGED device, UNCHANGED history
    PROVE  DeviceOK' /\ HistoryOK'
  BY DEF DeviceOK, HistoryOK, device, history

\* A revoked login and an ended session are well typed.
LEMMA RevokeType ==
    ASSUME PeersOK, DeviceOK, NEW p \in Peers, Revoke(p)
    PROVE  /\ account' \in [Peers -> 0..MaxCalls]
           /\ session' \in {"none", "checked", "live"} /\ slipped' \in BOOLEAN
<1>1. account' \in [Peers -> 0..MaxCalls]
  BY FileChannelAssumption DEF FileChannelAssumption, PeersOK, Revoke
<1>2. session' \in {"none", "checked", "live"} /\ slipped' \in BOOLEAN
  BY DEF DeviceOK, Revoke
<1> QED BY <1>1, <1>2

\* A peer whose call ends waits in none.
LEMMA IdleType ==
    ASSUME PeersOK, NEW p \in Peers, call' = [call EXCEPT ![p] = Idle]
    PROVE  call' \in [Peers -> [op : {"none", "open", "close"}, id : 0..MaxCalls]]
<1>1. Idle \in [op : {"none", "open", "close"}, id : 0..MaxCalls]
  BY FileChannelAssumption DEF FileChannelAssumption, Idle
<1> QED BY <1>1 DEF PeersOK

\* A call that ends takes at most an answer away.
LEMMA FailsType ==
    ASSUME WireOK, HistoryOK, NEW p \in Peers,
           \/ Fails(p)
           \/ Answered(p, TRUE) /\ troubled' = troubled
    PROVE  /\ responses' \subseteq [id : 1..MaxCalls, lease : Leases, ok : BOOLEAN]
           /\ troubled' \subseteq Peers
<1>1. responses' \subseteq responses
  BY DEF Fails, Answered
<1>2. troubled' \subseteq troubled \cup {p}
  BY DEF Fails
<1> QED BY <1>1, <1>2 DEF WireOK, HistoryOK

\* Every action of a peer preserves the types.
LEMMA PeerTypes ==
    ASSUME TypeOK, NEW p \in Peers,
           \/ \E l \in Leases : Open(p, l)
           \/ Opened(p) \/ OpenFailed(p) \/ Close(p) \/ Closed(p)
    PROVE  TypeOK'
<1> SUFFICES PeersOK' /\ WireOK' /\ DeviceOK' /\ HistoryOK'
  BY DEF TypeOK, PeersOK, WireOK, DeviceOK, HistoryOK
<1>1. PeersOK /\ WireOK /\ DeviceOK /\ HistoryOK
  BY TypeParts
<1>3. ASSUME NEW l \in Leases, Open(p, l)
      PROVE  PeersOK' /\ WireOK' /\ DeviceOK' /\ HistoryOK'
  <2>1. /\ calls' \in 1..MaxCalls /\ calls' = calls + 1
        /\ call' \in [Peers -> [op : {"none", "open", "close"}, id : 0..MaxCalls]]
        /\ requests' \subseteq
             [op : {"open", "close"}, id : 1..MaxCalls, peer : Peers, lease : Leases]
    BY <1>1, <1>3, RequestType DEF Open
  <2>2. calls' \in 0..MaxCalls
    BY <2>1, FileChannelAssumption DEF FileChannelAssumption
  <2>3. account' \in [Peers -> 0..MaxCalls]
    BY <1>1, <1>3, <2>1, <2>2 DEF Open, PeersOK
  <2>4. PeersOK'
    BY <1>1, <1>3, <2>1, <2>2, <2>3 DEF Open, PeersOK
  <2>5. WireOK'
    BY <1>1, <1>3, <2>1 DEF Open, WireOK
  <2>6. DeviceOK' /\ HistoryOK'
    BY <1>1, <1>3, DeviceKept DEF Open
  <2> QED BY <2>4, <2>5, <2>6
<1>4. ASSUME Opened(p) PROVE PeersOK' /\ WireOK' /\ DeviceOK' /\ HistoryOK'
  <2>1. PICK r \in responses : /\ responses' = responses \ {r}
                              /\ held' = [held EXCEPT ![p] = r.lease]
    BY <1>4 DEF Opened
  <2>2. r.lease \in Leases
    BY <1>1 DEF WireOK
  <2>3. held' \in [Peers -> Leases \cup {None}]
    BY <1>1, <2>1, <2>2 DEF PeersOK
  <2>4. PeersOK'
    BY <1>1, <1>4, <2>3, IdleType DEF Opened, PeersOK
  <2>5. WireOK'
    BY <1>1, <1>4, <2>1 DEF Opened, WireOK
  <2>6. DeviceOK' /\ HistoryOK'
    BY <1>1, <1>4, DeviceKept DEF Opened
  <2> QED BY <2>4, <2>5, <2>6
<1>7. ASSUME OpenFailed(p) PROVE PeersOK' /\ WireOK' /\ DeviceOK' /\ HistoryOK'
  <2>1. /\ account' \in [Peers -> 0..MaxCalls]
        /\ session' \in {"none", "checked", "live"} /\ slipped' \in BOOLEAN
    <3>1. CASE held[p] = None
      BY <1>1, <1>7, <3>1, RevokeType DEF OpenFailed
    <3>2. CASE held[p] # None
      BY <1>1, <1>7, <3>2 DEF OpenFailed, PeersOK, DeviceOK
    <3> QED BY <3>1, <3>2
  <2>2. /\ responses' \subseteq [id : 1..MaxCalls, lease : Leases, ok : BOOLEAN]
        /\ troubled' \subseteq Peers
    <3>1. Fails(p)
      BY <1>7 DEF OpenFailed
    <3> QED BY <1>1, <3>1, FailsType
  <2>3. PeersOK'
    BY <1>1, <1>7, <2>1, IdleType DEF OpenFailed, PeersOK
  <2>4. WireOK'
    BY <1>1, <1>7, <2>2 DEF OpenFailed, WireOK
  <2>5. DeviceOK'
    BY <1>1, <1>7, <2>1 DEF OpenFailed, DeviceOK
  <2>6. HistoryOK'
    BY <1>1, <1>7, <2>2 DEF OpenFailed, HistoryOK
  <2> QED BY <2>3, <2>4, <2>5, <2>6
<1>8. ASSUME Close(p) PROVE PeersOK' /\ WireOK' /\ DeviceOK' /\ HistoryOK'
  <2>1. held[p] \in Leases /\ Request(p, "close", held[p])
    BY <1>1, <1>8 DEF Close, PeersOK
  <2>2. /\ calls' \in 1..MaxCalls
        /\ call' \in [Peers -> [op : {"none", "open", "close"}, id : 0..MaxCalls]]
        /\ requests' \subseteq
             [op : {"open", "close"}, id : 1..MaxCalls, peer : Peers, lease : Leases]
    BY <1>1, <2>1, RequestType
  <2>3. calls' \in 0..MaxCalls
    BY <2>2, FileChannelAssumption DEF FileChannelAssumption
  <2>4. PeersOK'
    BY <1>1, <1>8, <2>2, <2>3 DEF Close, PeersOK
  <2>5. WireOK'
    BY <1>1, <1>8, <2>2 DEF Close, WireOK
  <2>6. DeviceOK' /\ HistoryOK'
    BY <1>1, <1>8, DeviceKept DEF Close
  <2> QED BY <2>4, <2>5, <2>6
<1>9. ASSUME Closed(p) PROVE PeersOK' /\ WireOK' /\ DeviceOK' /\ HistoryOK'
  <2>1. /\ account' \in [Peers -> 0..MaxCalls]
        /\ session' \in {"none", "checked", "live"} /\ slipped' \in BOOLEAN
    BY <1>1, <1>9, RevokeType DEF Closed
  <2>2. /\ responses' \subseteq [id : 1..MaxCalls, lease : Leases, ok : BOOLEAN]
        /\ troubled' \subseteq Peers
    <3>1. Fails(p) \/ (Answered(p, TRUE) /\ troubled' = troubled)
      BY <1>9 DEF Closed
    <3> QED BY <1>1, <3>1, FailsType
  <2>3. held' \in [Peers -> Leases \cup {None}]
    BY <1>1, <1>9 DEF Closed, PeersOK
  <2>4. PeersOK'
    BY <1>1, <1>9, <2>1, <2>3, IdleType DEF Closed, PeersOK
  <2>5. WireOK'
    BY <1>1, <1>9, <2>2 DEF Closed, WireOK
  <2>6. DeviceOK'
    BY <1>1, <1>9, <2>1 DEF Closed, DeviceOK
  <2>7. HistoryOK'
    BY <1>1, <1>9, <2>2 DEF Closed, HistoryOK
  <2> QED BY <2>4, <2>5, <2>6, <2>7
<1> QED BY <1>3, <1>4, <1>7, <1>8, <1>9

\* An answer of the device is well typed.
LEMMA ReplyType ==
    ASSUME WireOK, NEW m \in requests, NEW ok \in BOOLEAN, Reply(m, ok)
    PROVE  WireOK'
  BY DEF WireOK, Reply

\* A device with no channel is well typed.
LEMMA ChannelGone ==
    /\ channel' = None /\ remote' = NoRemote
    /\ session' = "none" /\ slipped' = FALSE /\ busy' \in BOOLEAN
    => DeviceOK'
<1>1. NoRemote \in [peer : Peers \cup {None}, password : 0..MaxCalls]
  BY FileChannelAssumption DEF NoRemote, FileChannelAssumption
<1> QED BY <1>1 DEF DeviceOK

\* So is one that has connected.
LEMMA ConnectType ==
    ASSUME WireOK, DeviceOK, NEW m \in requests, Connect(m), UNCHANGED busy
    PROVE  DeviceOK'
<1>1. m.peer \in Peers /\ m.lease \in Leases /\ m.id \in 1..MaxCalls
  BY DEF WireOK
<1>2. m.id \in 0..MaxCalls /\ m.peer # None /\ m.lease # None
  BY <1>1, FileChannelAssumption DEF FileChannelAssumption
<1>3. remote' \in [peer : Peers \cup {None}, password : 0..MaxCalls]
  BY <1>1, <1>2 DEF Connect
<1>4. channel' # None /\ remote' # NoRemote
  BY <1>2 DEF Connect, NoRemote
<1> QED BY <1>1, <1>3, <1>4 DEF Connect, DeviceOK

\* Every action of the device preserves the types.
LEMMA DeviceTypes == ASSUME TypeOK, Device PROVE TypeOK'
<1> SUFFICES PeersOK' /\ WireOK' /\ DeviceOK' /\ HistoryOK'
  BY DEF TypeOK, PeersOK, WireOK, DeviceOK, HistoryOK
<1>1. PeersOK /\ WireOK /\ DeviceOK /\ HistoryOK
  BY TypeParts
<1>2. PeersOK'
  BY <1>1, DeviceLeavesPeers DEF PeersOK, peers
<1>3. ASSUME NEW m \in requests, HandleOpen(m) PROVE WireOK' /\ DeviceOK' /\ HistoryOK'
  <2>1. WireOK'
    BY <1>1, <1>3, ReplyType DEF HandleOpen
  <2>2. CASE UNCHANGED device /\ UNCHANGED troubled
    BY <1>1, <1>3, <2>1, <2>2, DeviceKept DEF HandleOpen, history
  <2>3. CASE /\ channel # m.lease /\ Connect(m) /\ UNCHANGED <<busy, restarts, undefined>>
             /\ troubled' = troubled \cup (IF channel = None THEN {} ELSE {Owner[channel]})
    <3>1. DeviceOK'
      BY <1>1, <2>3, ConnectType
    <3>2. HistoryOK'
      BY <1>1, <2>3, FileChannelAssumption
      DEF HistoryOK, DeviceOK, FileChannelAssumption
    <3> QED BY <2>1, <3>1, <3>2
  <2> QED BY <1>3, <2>2, <2>3 DEF HandleOpen
<1>4. ASSUME NEW m \in requests, HandleClose(m) PROVE WireOK' /\ DeviceOK' /\ HistoryOK'
  <2>1. WireOK'
    BY <1>1, <1>4, ReplyType DEF HandleClose
  <2>2. DeviceOK'
    BY <1>1, <1>4, DeviceKept, ChannelGone DEF HandleClose, DeviceOK, device
  <2>3. HistoryOK'
    BY <1>1, <1>4 DEF HandleClose, HistoryOK, history
  <2> QED BY <2>1, <2>2, <2>3
<1>5. ASSUME NEW m \in requests, HandleBusy(m) PROVE WireOK' /\ DeviceOK' /\ HistoryOK'
  BY <1>1, <1>5 DEF HandleBusy, Undefined, WireOK, DeviceOK, HistoryOK, wire, device
<1>6. ASSUME Transfer \/ LogIn \/ TransferEnd \/ SessionDrops
      PROVE  WireOK' /\ DeviceOK' /\ HistoryOK'
  BY <1>1, <1>6 DEF Transfer, LogIn, TransferEnd, SessionDrops, WireOK, DeviceOK, HistoryOK,
                    wire, history
<1>7. ASSUME Restart PROVE WireOK' /\ DeviceOK' /\ HistoryOK'
  <2>1. DeviceOK'
    BY <1>7, ChannelGone DEF Restart
  <2>2. restarts' \in 0..MaxRestarts
    BY <1>1, <1>7, FileChannelAssumption DEF Restart, HistoryOK, FileChannelAssumption
  <2>3. WireOK' /\ HistoryOK'
    BY <1>1, <1>7, <2>2 DEF Restart, WireOK, HistoryOK, wire
  <2> QED BY <2>1, <2>3
<1>8. ASSUME Rest PROVE WireOK' /\ DeviceOK' /\ HistoryOK'
  BY <1>1, <1>8 DEF Rest, WireOK, DeviceOK, HistoryOK, vars, wire, device, history
<1>9. WireOK' /\ DeviceOK' /\ HistoryOK'
  BY <1>3, <1>4, <1>5, <1>6, <1>7, <1>8 DEF Device
<1> QED BY <1>1, <1>2, <1>9

\* The types hold in every reachable state.
THEOREM TypeCorrect == Spec => []TypeOK
<1>1. Init => TypeOK
  <2> SUFFICES ASSUME Init PROVE PeersOK /\ WireOK /\ DeviceOK /\ HistoryOK
    BY TypeParts
  <2>1. PeersOK
    BY FileChannelAssumption DEF Init, PeersOK, Idle, FileChannelAssumption
  <2>2. WireOK
    BY DEF Init, WireOK
  <2>5. HistoryOK
    <3>1. restarts \in 0..MaxRestarts
      BY FileChannelAssumption DEF Init, FileChannelAssumption
    <3>2. troubled \subseteq Peers /\ undefined \in BOOLEAN
      BY DEF Init
    <3> QED BY <3>1, <3>2 DEF HistoryOK
  <2>3. NoRemote \in [peer : Peers \cup {None}, password : 0..MaxCalls]
    BY FileChannelAssumption DEF NoRemote, FileChannelAssumption
  <2>4. DeviceOK
    BY <2>3 DEF Init, DeviceOK
  <2> QED BY <2>1, <2>2, <2>4, <2>5
<1>2. TypeOK /\ [Next]_vars => TypeOK'
  <2> SUFFICES ASSUME TypeOK, [Next]_vars PROVE TypeOK'
    OBVIOUS
  <2>1. CASE Next
    BY <2>1, StepCases, PeerTypes, DeviceTypes
  <2>2. CASE UNCHANGED vars
    BY <2>2 DEF TypeOK, vars, peers, wire, device, history
  <2> QED BY <2>1, <2>2
<1> QED BY <1>1, <1>2, PTL DEF Spec

-----------------------------------------------------------------------------
(* Logins and leases                                                       *)

\* A login exists exactly while the peer holds a lease or asks for one: on
\* success, on refusal, on a time-out, and through every close.
THEOREM LoginCorrect == Spec => []LoginTracksLease
<1>1. Init => LoginTracksLease
  BY DEF Init, LoginTracksLease, Idle
<1>2. TypeOK /\ LoginTracksLease /\ [Next]_vars => LoginTracksLease'
  <2> SUFFICES ASSUME TypeOK, LoginTracksLease, [Next]_vars PROVE LoginTracksLease'
    OBVIOUS
  <2> USE FileChannelAssumption DEF LoginTracksLease, TypeOK, FileChannelAssumption, Idle
  <2>1. ASSUME NEW p \in Peers, NEW l \in Leases, Open(p, l) PROVE LoginTracksLease'
    BY <2>1 DEF Open, Request
  <2>2. ASSUME NEW p \in Peers, Opened(p) PROVE LoginTracksLease'
    BY <2>2 DEF Opened
  <2>3. ASSUME NEW p \in Peers, OpenFailed(p) PROVE LoginTracksLease'
    BY <2>3 DEF OpenFailed, Revoke
  <2>4. ASSUME NEW p \in Peers, Close(p) PROVE LoginTracksLease'
    BY <2>4 DEF Close, Request
  <2>5. ASSUME NEW p \in Peers, Closed(p) PROVE LoginTracksLease'
    BY <2>5 DEF Closed, Revoke
  <2>6. CASE UNCHANGED peers
    BY <2>6 DEF peers
  <2>7. CASE Next
    BY <2>1, <2>2, <2>3, <2>4, <2>5, <2>6, <2>7, StepCases, DeviceLeavesPeers
  <2>8. CASE UNCHANGED vars
    BY <2>6, <2>8 DEF vars
  <2> QED BY <2>7, <2>8
<1> QED BY <1>1, <1>2, TypeCorrect, PTL DEF Spec

\* What the next theorem rests on: the device dials with a password that was
\* minted, and a session that has passed the check has a login, unless the login
\* was revoked while the session was inside PASS.
SessionInv ==
    /\ remote # NoRemote => remote.peer \in Peers /\ remote.password # 0
    /\ session \in {"checked", "live"} => remote # NoRemote
    /\ session \in {"checked", "live"} /\ ~slipped => account[remote.peer] # 0

\* Revoking one login leaves the session of another alone.
LEMMA RevokeSessions ==
    ASSUME TypeOK, SessionInv, NEW p \in Peers, Revoke(p), UNCHANGED remote
    PROVE  SessionInv'
<1>1. session' \in {"checked", "live"} => session' = session
  BY DEF Revoke, TypeOK
<1>2. CASE remote.peer = p
  BY <1>1, <1>2 DEF Revoke, SessionInv
<1>3. CASE remote.peer # p
  BY <1>1, <1>3 DEF Revoke, SessionInv, TypeOK
<1> QED BY <1>2, <1>3

\* The device connects, logs in, transfers, drops its session and restarts.
LEMMA DeviceSessions == ASSUME TypeOK, SessionInv, Device PROVE SessionInv'
<1>1. UNCHANGED account
  BY DeviceLeavesPeers DEF peers
<1>2. CASE remote' = NoRemote /\ session' = "none"
  BY <1>2 DEF SessionInv
<1>3. ASSUME NEW m \in requests, Connect(m) PROVE SessionInv'
  <2>1. m.peer \in Peers /\ m.id # 0
    BY DEF TypeOK
  <2> QED BY <1>3, <2>1 DEF Connect, SessionInv
<1>4. CASE UNCHANGED <<remote, session, slipped>>
  BY <1>1, <1>4 DEF SessionInv
<1>5. ASSUME NEW m \in requests, HandleOpen(m) PROVE SessionInv'
  BY <1>3, <1>4, <1>5 DEF HandleOpen, device
<1>6. ASSUME NEW m \in requests, HandleClose(m) PROVE SessionInv'
  BY <1>2, <1>4, <1>6 DEF HandleClose, device
<1>7. ASSUME NEW m \in requests, HandleBusy(m) PROVE SessionInv'
  BY <1>4, <1>7 DEF HandleBusy, Undefined, device
<1>8. CASE Transfer
  BY <1>1, <1>8 DEF Transfer, SessionInv
<1>9. CASE LogIn
  BY <1>1, <1>9 DEF LogIn, SessionInv
<1>10. CASE TransferEnd \/ Rest
  BY <1>4, <1>10 DEF TransferEnd, Rest, vars, device
<1>11. CASE SessionDrops
  BY <1>1, <1>11 DEF SessionDrops, SessionInv
<1>12. CASE Restart
  BY <1>2, <1>12 DEF Restart
<1> QED BY <1>5, <1>6, <1>7, <1>8, <1>9, <1>10, <1>11, <1>12 DEF Device

\* A session that is logged in has a login, however often the peer revokes and
\* mints one and the device logs in meanwhile; excepted is the session that was
\* inside PASS, checked and not yet logged in, when its login was revoked.
THEOREM RevocationHolds == Spec => []LiveSessionsHaveLogin
<1>1. Init => SessionInv
  BY DEF Init, SessionInv
<1>2. TypeOK /\ SessionInv /\ [Next]_vars => SessionInv'
  <2> SUFFICES ASSUME TypeOK, SessionInv, [Next]_vars PROVE SessionInv'
    OBVIOUS
  <2>1. ASSUME NEW p \in Peers, NEW l \in Leases, Open(p, l) PROVE SessionInv'
    <3>1. calls + 1 # 0 /\ account' = [account EXCEPT ![p] = calls + 1]
      BY <2>1 DEF Open, TypeOK
    <3>2. UNCHANGED <<remote, session, slipped>>
      BY <2>1 DEF Open, device
    <3>3. \A q \in Peers : account[q] # 0 => account'[q] # 0
      BY <3>1 DEF TypeOK
    <3> QED BY <3>2, <3>3 DEF SessionInv
  <2>2. CASE UNCHANGED <<account, remote, session, slipped>>
    BY <2>2 DEF SessionInv
  <2>3. ASSUME NEW p \in Peers, Opened(p) \/ Close(p) PROVE SessionInv'
    BY <2>2, <2>3 DEF Opened, Close, device
  <2>4. ASSUME NEW p \in Peers, OpenFailed(p) PROVE SessionInv'
    BY <2>2, <2>4, RevokeSessions DEF OpenFailed
  <2>5. ASSUME NEW p \in Peers, Closed(p) PROVE SessionInv'
    BY <2>5, RevokeSessions DEF Closed
  <2>6. CASE Next
    BY <2>1, <2>3, <2>4, <2>5, <2>6, StepCases, DeviceSessions
  <2>7. CASE UNCHANGED vars
    BY <2>2, <2>7 DEF vars, peers, device
  <2> QED BY <2>6, <2>7
<1>3. SessionInv => LiveSessionsHaveLogin
  BY DEF SessionInv, LiveSessionsHaveLogin
<1> QED BY <1>1, <1>2, <1>3, TypeCorrect, PTL DEF Spec

-----------------------------------------------------------------------------
(* Who has the channel                                                     *)

\* The number of a call, which is the @id of its request and of its answer,
\* belongs to one call, and what bears it is on its way there or back.
Numbered ==
    /\ \A m \in requests : m.id <= calls
    /\ \A r \in responses : r.id <= calls
    /\ \A p \in Peers : call[p].id <= calls /\ (call[p].id = 0 <=> call[p] = Idle)
    /\ \A p, q \in Peers : call[p].id # 0 /\ call[p].id = call[q].id => p = q
    /\ \A m, n \in requests : m.id = n.id => m = n
    /\ \A m \in requests, r \in responses : m.id # r.id

\* A request and the answer to it are about a lease of the peer that waits.
Named ==
    /\ \A m \in requests : Owner[m.lease] = m.peer
    /\ \A p \in Peers : held[p] # None => Owner[held[p]] = p
    /\ \A m \in requests, p \in Peers :
           m.id = call[p].id => m.peer = p /\ m.op = call[p].op
    /\ \A r \in responses, p \in Peers : r.id = call[p].id => Owner[r.lease] = p

\* The channel of the device is none of the leases of p.
NotOf(p) == \A l \in Leases : Owner[l] = p => channel # l

Agrees(p) ==
    /\ held[p] # None => channel = held[p]
    /\ held[p] = None => NotOf(p)

\* What holds of a peer that nothing unusual has happened to: while its request
\* is on the way the device still agrees with it, and what the answer says is
\* true of the device until the peer has read it.
Calm(p) ==
    /\ call[p] = Idle => Agrees(p)
    /\ \A m \in requests : m.peer = p =>
           /\ m.id = call[p].id
           /\ Agrees(p)
           /\ m.op = "close" => m.lease = held[p]
    /\ \A r \in responses : r.id = call[p].id =>
           /\ call[p].op = "open" => IF r.ok THEN channel = r.lease ELSE Agrees(p)
           /\ call[p].op = "close" => NotOf(p)

LeaseInv == Numbered /\ Named /\ \A p \in Peers \ troubled : Calm(p)

\* The invariant says what LeaseAgrees does of the peers that wait in no call.
LEMMA CalmAgrees == LeaseInv => LeaseAgrees
  BY DEF LeaseInv, Calm, Agrees, NotOf, LeaseAgrees

\* A request takes a new number: the invariant on numbers and leases is kept.
LEMMA RequestNumbered ==
    ASSUME TypeOK, Numbered, Named, NEW p \in Peers, NEW o \in {"open", "close"},
           NEW l \in Leases, Owner[l] = p, Request(p, o, l), UNCHANGED <<held, responses>>
    PROVE  Numbered' /\ Named'
<1> DEFINE new == [op |-> o, id |-> calls + 1, peer |-> p, lease |-> l]
<1>1. /\ calls \in Nat /\ calls' = calls + 1
      /\ requests' = requests \cup {new}
      /\ \A q \in Peers : call'[q] = IF q = p THEN [op |-> o, id |-> calls + 1] ELSE call[q]
  BY DEF TypeOK, Request
<1>2. /\ \A m \in requests : m.id \in Nat /\ m.id # 0 /\ m.id <= calls
      /\ \A r \in responses : r.id \in Nat /\ r.id # 0 /\ r.id <= calls
      /\ \A q \in Peers : call[q].id \in Nat /\ call[q].id <= calls
  BY DEF TypeOK, Numbered
<1>3. new.id = calls + 1 /\ new.peer = p /\ new.op = o /\ new.lease = l
  OBVIOUS
<1>4. /\ \A m \in requests : m.id # calls + 1
      /\ \A r \in responses : r.id # calls + 1
      /\ \A q \in Peers : call[q].id # calls + 1
  BY <1>1, <1>2
<1> HIDE DEF new
<1>5. Numbered'
  <2>1. /\ \A m \in requests' : m.id <= calls'
        /\ \A r \in responses' : r.id <= calls'
    BY <1>1, <1>2, <1>3
  <2>2. \A q \in Peers : call'[q].id <= calls' /\ (call'[q].id = 0 <=> call'[q] = Idle)
    BY <1>1, <1>2 DEF Numbered, Idle
  <2>3. \A q, s \in Peers : call'[q].id # 0 /\ call'[q].id = call'[s].id => q = s
    BY <1>1, <1>4 DEF Numbered
  <2>4. \A m, n \in requests' : m.id = n.id => m = n
    BY <1>1, <1>3, <1>4 DEF Numbered
  <2>5. \A m \in requests', r \in responses' : m.id # r.id
    BY <1>1, <1>3, <1>4 DEF Numbered
  <2> QED BY <2>1, <2>2, <2>3, <2>4, <2>5 DEF Numbered, Idle
<1>6. Named'
  <2>1. \A m \in requests', q \in Peers :
            m.id = call'[q].id => m.peer = q /\ m.op = call'[q].op
    BY <1>1, <1>3, <1>4 DEF Named
  <2>2. \A r \in responses', q \in Peers : r.id = call'[q].id => Owner[r.lease] = q
    BY <1>1, <1>4 DEF Named
  <2> QED BY <1>1, <1>3, <2>1, <2>2 DEF Named
<1> QED BY <1>5, <1>6

\* A call that ends, and what it takes off the wire, keep it too.
LEMMA EndNumbered ==
    ASSUME TypeOK, Numbered, Named, NEW p \in Peers, call' = [call EXCEPT ![p] = Idle],
           responses' \subseteq responses, UNCHANGED <<calls, requests>>,
           held' \in [Peers -> Leases \cup {None}],
           \A q \in Peers : held'[q] # None => Owner[held'[q]] = q
    PROVE  Numbered' /\ Named'
<1>1. \A q \in Peers : call'[q] = IF q = p THEN Idle ELSE call[q]
  BY DEF TypeOK
<1>2. /\ \A m \in requests : m.id # 0
      /\ \A r \in responses : r.id # 0
      /\ calls \in Nat
  BY DEF TypeOK
<1>3. Idle.id = 0
  BY DEF Idle
<1>4. Numbered'
  <2>1. /\ \A m \in requests' : m.id <= calls'
        /\ \A r \in responses' : r.id <= calls'
        /\ \A m, n \in requests' : m.id = n.id => m = n
        /\ \A m \in requests', r \in responses' : m.id # r.id
    BY DEF Numbered
  <2>2. \A q \in Peers : call'[q].id <= calls' /\ (call'[q].id = 0 <=> call'[q] = Idle)
    BY <1>1, <1>2, <1>3 DEF Numbered
  <2>3. \A q, s \in Peers : call'[q].id # 0 /\ call'[q].id = call'[s].id => q = s
    BY <1>1, <1>3 DEF Numbered
  <2> QED BY <2>1, <2>2, <2>3 DEF Numbered, Idle
<1>5. Named'
  <2>1. \A m \in requests', q \in Peers :
            m.id = call'[q].id => m.peer = q /\ m.op = call'[q].op
    BY <1>1, <1>2, <1>3 DEF Named
  <2>2. \A r \in responses', q \in Peers : r.id = call'[q].id => Owner[r.lease] = q
    BY <1>1, <1>2, <1>3 DEF Named
  <2> QED BY <2>1, <2>2 DEF Named
<1> QED BY <1>4, <1>5

\* An answer takes the number of its request.
LEMMA ReplyNumbered ==
    ASSUME TypeOK, Numbered, Named, NEW m \in requests, NEW ok \in BOOLEAN, Reply(m, ok),
           UNCHANGED peers
    PROVE  Numbered' /\ Named'
<1> DEFINE new == [id |-> m.id, lease |-> m.lease, ok |-> ok]
<1>1. /\ requests' = requests \ {m} /\ responses' = responses \cup {new}
      /\ UNCHANGED <<calls, call, held>>
  BY DEF Reply, peers
<1>2. new.id = m.id /\ new.lease = m.lease
  OBVIOUS
<1> HIDE DEF new
<1>3. Numbered'
  <2>1. \A n \in requests', r \in responses' : n.id # r.id
    BY <1>1, <1>2 DEF Numbered
  <2> QED BY <1>1, <1>2, <2>1 DEF Numbered, Idle
<1>4. Named'
  <2>1. \A r \in responses', q \in Peers : r.id = call'[q].id => Owner[r.lease] = q
    BY <1>1, <1>2 DEF Named
  <2> QED BY <1>1, <2>1 DEF Named
<1> QED BY <1>3, <1>4

\* What another peer or the device does for it leaves a peer calm.
LEMMA CalmElsewhere ==
    ASSUME NEW p \in Peers, Named, Calm(p),
           \/ channel' = channel
           \/ NotOf(p) /\ NotOf(p)',
           call'[p] = call[p], held'[p] = held[p],
           \A m \in requests' : m \in requests \/ m.peer # p,
           \A r \in responses' : r \in responses \/ r.id # call[p].id,
           \A r \in responses : r.lease \in Leases,
           held[p] \in Leases \cup {None}
    PROVE  Calm(p)'
<1>1. Agrees(p) => Agrees(p)'
  BY DEF Agrees, NotOf, Named
<1>2. ASSUME NEW r \in responses, r.id = call[p].id, channel = r.lease PROVE channel' = r.lease
  BY <1>2 DEF NotOf, Named
<1>3. NotOf(p) => NotOf(p)'
  BY DEF NotOf
<1>4. \A r \in responses' : r.id = call[p].id =>
          /\ call[p].op = "open" => IF r.ok THEN channel' = r.lease ELSE Agrees(p)'
          /\ call[p].op = "close" => NotOf(p)'
  BY <1>1, <1>2, <1>3 DEF Calm
<1>5. \A m \in requests' : m.peer = p =>
          m.id = call[p].id /\ Agrees(p)' /\ (m.op = "close" => m.lease = held[p])
  BY <1>1 DEF Calm
<1>6. call[p] = Idle => Agrees(p)'
  BY <1>1 DEF Calm
<1> QED BY <1>4, <1>5, <1>6 DEF Calm, Idle

\* So does the answer to its own request, when that says what was done.
LEMMA CalmAnswer ==
    ASSUME TypeOK, Numbered, Named, NEW m \in requests, NEW ok \in BOOLEAN, Calm(m.peer),
           Reply(m, ok), UNCHANGED peers,
           m.op = "open" => channel' = IF ok THEN m.lease ELSE channel,
           m.op = "close" => NotOf(m.peer)'
    PROVE  Calm(m.peer)'
<1> DEFINE p == m.peer
           new == [id |-> m.id, lease |-> m.lease, ok |-> ok]
<1>1. p \in Peers /\ m.id # 0 /\ m.op \in {"open", "close"}
  BY DEF TypeOK
<1>2. m.id = call[p].id /\ Agrees(p) /\ m.op = call[p].op
  BY <1>1 DEF Calm, Named
<1>3. /\ requests' = requests \ {m} /\ responses' = responses \cup {new}
      /\ UNCHANGED <<call, held>>
  BY DEF Reply, peers
<1>4. new.id = m.id /\ new.lease = m.lease /\ new.ok = ok
  OBVIOUS
<1> HIDE DEF new
<1>5. \A n \in requests' : n.peer # p
  BY <1>1, <1>2, <1>3 DEF Calm, Numbered
<1>6. \A r \in responses' : r.id = call[p].id => r = new
  BY <1>2, <1>3 DEF Numbered
<1>7. m.op = "open" => IF ok THEN channel' = m.lease ELSE Agrees(p)'
  BY <1>2, <1>3 DEF Agrees, NotOf
<1>8. call'[p] # Idle
  BY <1>1, <1>2, <1>3 DEF Idle
<1>9. call'[p].op = "open" => m.op = "open"
  BY <1>2, <1>3
<1>10. call'[p].op = "close" => m.op = "close"
  BY <1>2, <1>3
<1>11. \A r \in responses' : r.id = call'[p].id =>
           /\ call'[p].op = "open" => IF r.ok THEN channel' = r.lease ELSE Agrees(p)'
           /\ call'[p].op = "close" => NotOf(p)'
  BY <1>3, <1>4, <1>6, <1>7, <1>9, <1>10
<1> HIDE DEF p
<1>12. Calm(p)'
  BY <1>5, <1>8, <1>11 DEF Calm, Idle
<1> QED BY <1>12 DEF p

\* A peer that has read the answer to its call is calm if it agrees.
LEMMA CalmIdle ==
    ASSUME TypeOK, Numbered, Named, NEW p \in Peers, Calm(p),
           call' = [call EXCEPT ![p] = Idle], responses' \subseteq responses,
           UNCHANGED requests, \E r \in responses : r.id = call[p].id, Agrees(p)'
    PROVE  Calm(p)'
<1>1. call'[p] = Idle /\ Idle.id = 0
  BY DEF TypeOK, Idle
<1>2. \A m \in requests : m.peer # p
  BY DEF Calm, Numbered
<1>3. \A r \in responses : r.id # 0
  BY DEF TypeOK
<1> QED BY <1>1, <1>2, <1>3 DEF Calm

\* So is one that has just sent a request: nothing else of it is on the way.
LEMMA CalmRequest ==
    ASSUME TypeOK, Numbered, Named, NEW p \in Peers, Calm(p), NEW o \in {"open", "close"},
           NEW l \in Leases, Request(p, o, l), UNCHANGED <<held, responses, channel>>,
           o = "close" => l = held[p]
    PROVE  Calm(p)'
<1> DEFINE new == [op |-> o, id |-> calls + 1, peer |-> p, lease |-> l]
<1>1. /\ calls \in Nat /\ requests' = requests \cup {new}
      /\ call[p] = Idle /\ call'[p] = [op |-> o, id |-> calls + 1]
  BY DEF TypeOK, Request
<1>2. new.id = calls + 1 /\ new.peer = p /\ new.op = o /\ new.lease = l
  OBVIOUS
<1> HIDE DEF new
<1>3. call'[p].id = calls + 1 /\ call'[p] # Idle
  BY <1>1 DEF Idle
<1>4. \A m \in requests : m.peer # p
  <2>1. \A m \in requests : m.id # 0
    BY DEF TypeOK
  <2> QED BY <1>1, <2>1 DEF Calm, Idle
<1>5. \A r \in responses : r.id # calls + 1
  <2>1. \A r \in responses : r.id \in Nat /\ r.id <= calls
    BY DEF TypeOK, Numbered
  <2> QED BY <1>1, <2>1
<1>6. Agrees(p)'
  BY <1>1 DEF Calm, Agrees, NotOf
<1>7. \A m \in requests' : m.peer = p => m = new
  BY <1>1, <1>4
<1> QED BY <1>2, <1>3, <1>5, <1>6, <1>7 DEF Calm, Idle

\* A step of one peer leaves the others calm: it takes the answers of its own
\* call away, sends requests of its own, and never touches the channel.
LEMMA OthersCalm ==
    ASSUME TypeOK, Named, NEW p \in Peers, NEW q \in Peers, p # q, Calm(q),
           call'[q] = call[q], held'[q] = held[q], UNCHANGED channel,
           \A m \in requests' : m \in requests \/ m.peer = p,
           responses' \subseteq responses
    PROVE  Calm(q)'
<1>1. /\ \A m \in requests' : m \in requests \/ m.peer # q
      /\ \A r \in responses' : r \in responses \/ r.id # call[q].id
      /\ \A r \in responses : r.lease \in Leases
      /\ held[q] \in Leases \cup {None}
  BY DEF TypeOK
<1> QED BY <1>1, CalmElsewhere

\* Every action of a peer preserves the invariant.
LEMMA PeerLeases ==
    ASSUME TypeOK, LeaseInv, NEW p \in Peers,
           \/ \E l \in Leases : Open(p, l)
           \/ Opened(p) \/ OpenFailed(p) \/ Close(p) \/ Closed(p)
    PROVE  LeaseInv'
<1>1. Numbered /\ Named /\ \A q \in Peers \ troubled : Calm(q)
  BY DEF LeaseInv
<1>2. ASSUME NEW o \in {"open", "close"}, NEW l \in Leases, Owner[l] = p,
             Request(p, o, l), UNCHANGED <<held, responses, channel, troubled>>,
             o = "close" => l = held[p]
      PROVE  LeaseInv'
  <2>1. Numbered' /\ Named'
    BY <1>1, <1>2, RequestNumbered
  <2>2. ASSUME NEW q \in Peers \ troubled PROVE Calm(q)'
    <3>1. CASE q = p
      BY <1>1, <1>2, <3>1, CalmRequest
    <3>2. CASE q # p
      <4>1. call'[q] = call[q]
        BY <1>2, <3>2 DEF Request, TypeOK
      <4>2. \A m \in requests' : m \in requests \/ m.peer = p
        BY <1>2 DEF Request
      <4> QED BY <1>1, <1>2, <3>2, <4>1, <4>2, OthersCalm
    <3> QED BY <3>1, <3>2
  <2> QED BY <1>2, <2>1, <2>2 DEF LeaseInv
<1>3. ASSUME call' = [call EXCEPT ![p] = Idle], UNCHANGED <<calls, requests, channel>>,
             responses' \subseteq responses, troubled \subseteq troubled',
             held' \in [Peers -> Leases \cup {None}],
             \A q \in Peers \ {p} : held'[q] = held[q],
             held'[p] # None => Owner[held'[p]] = p,
             \/ p \in troubled'
             \/ Agrees(p)' /\ \E r \in responses : r.id = call[p].id
      PROVE  LeaseInv'
  <2>1. \A q \in Peers : held'[q] # None => Owner[held'[q]] = q
    BY <1>1, <1>3 DEF Named
  <2>2. Numbered' /\ Named'
    BY <1>1, <1>3, <2>1, EndNumbered
  <2>3. ASSUME NEW q \in Peers \ troubled' PROVE Calm(q)'
    <3>1. Calm(q)
      BY <1>1, <1>3, <2>3
    <3>2. CASE q = p
      BY <1>1, <1>3, <2>3, <3>1, <3>2, CalmIdle
    <3>3. CASE q # p
      <4>1. call'[q] = call[q] /\ held'[q] = held[q]
        BY <1>3, <3>3 DEF TypeOK
      <4> QED BY <1>1, <1>3, <3>1, <3>3, <4>1, OthersCalm
    <3> QED BY <3>2, <3>3
  <2> QED BY <2>2, <2>3 DEF LeaseInv
<1>4. ASSUME NEW l \in Leases, Open(p, l) PROVE LeaseInv'
  BY <1>2, <1>4 DEF Open, device, history
<1>5. ASSUME Close(p) PROVE LeaseInv'
  <2>1. held[p] \in Leases /\ Owner[held[p]] = p
    BY <1>1, <1>5 DEF Close, Named, TypeOK
  <2> QED BY <1>2, <1>5, <2>1 DEF Close, device, history
<1>6. ASSUME Opened(p) PROVE LeaseInv'
  <2>1. PICK r \in responses : /\ r.id = call[p].id /\ r.ok
                               /\ responses' = responses \ {r}
                               /\ held' = [held EXCEPT ![p] = r.lease]
    BY <1>6 DEF Opened
  <2>2. r.lease \in Leases /\ Owner[r.lease] = p /\ r.lease # None
    BY <1>1, <2>1, FileChannelAssumption DEF Named, TypeOK, FileChannelAssumption
  <2>3. /\ held' \in [Peers -> Leases \cup {None}] /\ held'[p] = r.lease
        /\ \A q \in Peers \ {p} : held'[q] = held[q]
    BY <2>1, <2>2 DEF TypeOK
  <2>4. /\ call[p].op = "open" /\ call' = [call EXCEPT ![p] = Idle]
        /\ UNCHANGED <<calls, requests, channel, troubled>>
    BY <1>6 DEF Opened, device, history
  <2>5. p \in troubled \/ Agrees(p)'
    <3>1. CASE p \notin troubled
      <4>1. channel = r.lease
        BY <1>1, <2>1, <2>4, <3>1 DEF Calm
      <4> QED BY <2>2, <2>3, <2>4, <4>1 DEF Agrees
    <3> QED BY <3>1
  <2> QED BY <1>3, <2>1, <2>2, <2>3, <2>4, <2>5
<1>7. ASSUME OpenFailed(p) PROVE LeaseInv'
  <2>1. /\ call[p].op = "open" /\ call' = [call EXCEPT ![p] = Idle]
        /\ UNCHANGED <<calls, held, requests, channel>>
    BY <1>7 DEF OpenFailed
  <2>2. responses' \subseteq responses /\ troubled \subseteq troubled'
    BY <1>7 DEF OpenFailed, Fails, Answered
  <2>3. p \in troubled' \/ (Agrees(p)' /\ \E r \in responses : r.id = call[p].id)
    <3>1. CASE p \notin troubled'
      <4>1. PICK r \in responses : r.id = call[p].id /\ r.ok = FALSE
        BY <1>7, <3>1 DEF OpenFailed, Fails, Answered
      <4>2. Agrees(p)
        BY <1>1, <2>1, <2>2, <3>1, <4>1 DEF Calm
      <4> QED BY <2>1, <4>1, <4>2 DEF Agrees, NotOf
    <3> QED BY <3>1
  <2>4. held \in [Peers -> Leases \cup {None}] /\ (held[p] # None => Owner[held[p]] = p)
    BY <1>1 DEF TypeOK, Named
  <2> QED BY <1>3, <2>1, <2>2, <2>3, <2>4
<1>8. ASSUME Closed(p) PROVE LeaseInv'
  <2>1. /\ call[p].op = "close" /\ call' = [call EXCEPT ![p] = Idle]
        /\ held' = [held EXCEPT ![p] = None]
        /\ UNCHANGED <<calls, requests, channel>>
    BY <1>8 DEF Closed
  <2>2. responses' \subseteq responses /\ troubled \subseteq troubled'
    BY <1>8 DEF Closed, Fails, Answered
  <2>3. /\ held' \in [Peers -> Leases \cup {None}] /\ held'[p] = None
        /\ \A q \in Peers \ {p} : held'[q] = held[q]
    BY <2>1 DEF TypeOK
  <2>4. p \in troubled' \/ (Agrees(p)' /\ \E r \in responses : r.id = call[p].id)
    <3>1. CASE p \notin troubled'
      <4>1. PICK r \in responses : r.id = call[p].id
        BY <1>8, <3>1 DEF Closed, Fails, Answered
      <4>2. NotOf(p)
        BY <1>1, <2>1, <2>2, <3>1, <4>1 DEF Calm
      <4> QED BY <2>1, <2>3, <4>1, <4>2 DEF Agrees, NotOf
    <3> QED BY <3>1
  <2> QED BY <1>3, <2>1, <2>2, <2>3, <2>4
<1> QED BY <1>4, <1>5, <1>6, <1>7, <1>8

\* Handling one request: the peer that sent it gets a true answer, and the
\* channel of no other peer is given away unless that peer is troubled by it.
LEMMA HandleLeases ==
    ASSUME TypeOK, LeaseInv, NEW m \in requests, NEW ok \in BOOLEAN, Reply(m, ok),
           UNCHANGED peers, troubled \subseteq troubled',
           m.op = "open" => channel' = IF ok THEN m.lease ELSE channel,
           m.op = "close" => NotOf(m.peer)' \/ m.peer \in troubled,
           \A p \in Peers \ troubled' :
               p # m.peer => channel' = channel \/ (NotOf(p) /\ NotOf(p)')
    PROVE  LeaseInv'
<1>1. Numbered /\ Named /\ \A q \in Peers \ troubled : Calm(q)
  BY DEF LeaseInv
<1>2. Numbered' /\ Named'
  BY <1>1, ReplyNumbered
<1>3. ASSUME NEW q \in Peers \ troubled' PROVE Calm(q)'
  <2>1. Calm(q) /\ q \notin troubled
    BY <1>1, <1>3
  <2>2. CASE q = m.peer
    BY <1>1, <2>1, <2>2, CalmAnswer
  <2>3. CASE q # m.peer
    <3>1. call' = call /\ held' = held
      BY DEF peers
    <3>2. \A n \in requests' : n \in requests \/ n.peer # q
      BY DEF Reply
    <3>3. \A r \in responses' : r \in responses \/ r.id # call[q].id
      BY <1>1, <2>3 DEF Reply, Named
    <3>4. (\A r \in responses : r.lease \in Leases) /\ held[q] \in Leases \cup {None}
      BY DEF TypeOK
    <3> QED BY <1>1, <2>1, <2>3, <3>1, <3>2, <3>3, <3>4, CalmElsewhere
  <2> QED BY <2>2, <2>3
<1> QED BY <1>2, <1>3 DEF LeaseInv

\* What leaves the peers, the wire and the channel alone, and forgets nobody's
\* trouble, preserves the invariant.
LEMMA ElsewhereLeases ==
    ASSUME LeaseInv, UNCHANGED peers, UNCHANGED wire, troubled \subseteq troubled',
           \/ UNCHANGED channel
           \/ Peers \subseteq troubled'
    PROVE  LeaseInv'
<1>1. UNCHANGED <<calls, call, held, requests, responses>>
  BY DEF peers, wire
<1>2. Numbered' /\ Named'
  BY <1>1 DEF LeaseInv, Numbered, Named, Idle
<1>3. ASSUME NEW p \in Peers \ troubled' PROVE Calm(p)'
  BY <1>1, <1>3 DEF LeaseInv, Calm, Agrees, NotOf, Idle
<1> QED BY <1>2, <1>3 DEF LeaseInv

\* Every action of the device preserves the invariant.
LEMMA DeviceLeases == ASSUME TypeOK, LeaseInv, Device PROVE LeaseInv'
<1>1. Named /\ \A q \in Peers \ troubled : Calm(q)
  BY DEF LeaseInv
<1>2. ASSUME NEW m \in requests, HandleOpen(m) PROVE LeaseInv'
  <2>1. /\ m.op = "open" /\ UNCHANGED peers /\ Owner[m.lease] = m.peer
        /\ m.lease \in Leases /\ m.lease # None
    BY <1>1, <1>2, FileChannelAssumption
    DEF HandleOpen, Named, TypeOK, FileChannelAssumption
  <2>2. CASE /\ channel = m.lease /\ Reply(m, TRUE)
             /\ UNCHANGED <<device, troubled>>
    BY <2>1, <2>2, HandleLeases DEF device
  <2>3. CASE Reply(m, FALSE) /\ UNCHANGED <<device, troubled>>
    BY <2>1, <2>3, HandleLeases DEF device
  <2>4. CASE /\ channel # m.lease /\ Connect(m) /\ Reply(m, TRUE)
             /\ troubled' = troubled \cup (IF channel = None THEN {} ELSE {Owner[channel]})
    <3>1. channel' = m.lease /\ troubled \subseteq troubled'
      BY <2>4 DEF Connect
    <3>2. ASSUME NEW p \in Peers \ troubled', p # m.peer PROVE NotOf(p) /\ NotOf(p)'
      <4>1. Owner[m.lease] # p
        BY <2>1, <3>2
      <4>2. NotOf(p)'
        BY <2>1, <3>1, <4>1 DEF NotOf
      <4>3. channel # None => Owner[channel] # p
        BY <2>4, <3>2
      <4>4. None \notin Leases
        BY FileChannelAssumption DEF FileChannelAssumption
      <4> QED BY <4>2, <4>3, <4>4 DEF NotOf
    <3> QED BY <2>1, <2>4, <3>1, <3>2, HandleLeases
  <2> QED BY <1>2, <2>2, <2>3, <2>4 DEF HandleOpen
<1>3. ASSUME NEW m \in requests, HandleClose(m) PROVE LeaseInv'
  <2>1. /\ m.op = "close" /\ UNCHANGED peers /\ Owner[m.lease] = m.peer
        /\ m.lease \in Leases /\ m.peer \in Peers /\ m.lease # None
        /\ UNCHANGED troubled
    <3>1. m.op = "close" /\ UNCHANGED peers /\ UNCHANGED troubled
      BY <1>3 DEF HandleClose, history
    <3>2. Owner[m.lease] = m.peer /\ m.lease \in Leases
      BY <1>1, FileChannelAssumption DEF Named, TypeOK, FileChannelAssumption
    <3>3. Owner \in [Leases -> Peers] /\ None \notin Leases
      BY FileChannelAssumption DEF FileChannelAssumption
    <3> QED BY <3>1, <3>2, <3>3
  <2>2. m.peer \notin troubled => channel = m.lease
    BY <1>1, <2>1 DEF Calm, Agrees
  <2>3. CASE channel # m.lease /\ Reply(m, channel = None) /\ UNCHANGED device
    <3>1. (channel = None) \in BOOLEAN
      OBVIOUS
    <3> QED BY <2>1, <2>2, <2>3, <3>1, HandleLeases DEF device
  <2>4. CASE channel = m.lease /\ channel' = None /\ Reply(m, TRUE)
    <3>1. \A p \in Peers : NotOf(p)'
      BY <2>4, FileChannelAssumption DEF NotOf, FileChannelAssumption
    <3>2. \A p \in Peers : p # m.peer => NotOf(p)
      BY <2>1, <2>4 DEF NotOf
    <3> QED BY <2>1, <2>4, <3>1, <3>2, HandleLeases
  <2>5. channel = None => channel # m.lease
    BY <2>1
  <2> QED BY <1>3, <2>3, <2>4, <2>5 DEF HandleClose
<1>4. ASSUME NEW m \in requests, HandleBusy(m) PROVE LeaseInv'
  BY <1>4, ElsewhereLeases DEF HandleBusy, Undefined, device
<1>5. ASSUME Transfer \/ LogIn \/ TransferEnd \/ SessionDrops \/ Rest PROVE LeaseInv'
  BY <1>5, ElsewhereLeases
  DEF Transfer, LogIn, TransferEnd, SessionDrops, Rest, history, vars, device
<1>6. ASSUME Restart PROVE LeaseInv'
  <2>1. troubled \subseteq troubled'
    BY <1>6 DEF Restart, TypeOK
  <2> QED BY <1>6, <2>1, ElsewhereLeases DEF Restart
<1> QED BY <1>2, <1>3, <1>4, <1>5, <1>6 DEF Device

\* Peer and device agree on who has the channel, whatever other peers do, until
\* a call of the peer times out, the device restarts or another peer takes the
\* channel by force.
THEOREM LeasesCorrect == Spec => []LeaseAgrees
<1>1. Init => LeaseInv
  <2> SUFFICES ASSUME Init PROVE LeaseInv
    OBVIOUS
  <2>1. \A p \in Peers : call[p] = Idle /\ held[p] = None
    BY DEF Init
  <2>2. Idle.id = 0 /\ Idle.op = "none" /\ calls = 0 /\ requests = {} /\ responses = {}
    BY DEF Init, Idle
  <2>3. Numbered /\ Named
    BY <2>1, <2>2 DEF Numbered, Named
  <2>4. \A p \in Peers : Calm(p)
    BY <2>1, <2>2, FileChannelAssumption DEF Calm, Agrees, NotOf, Init, FileChannelAssumption
  <2> QED BY <2>3, <2>4 DEF LeaseInv
<1>2. TypeOK /\ LeaseInv /\ [Next]_vars => LeaseInv'
  <2> SUFFICES ASSUME TypeOK, LeaseInv, [Next]_vars PROVE LeaseInv'
    OBVIOUS
  <2>1. CASE Next
    BY <2>1, StepCases, PeerLeases, DeviceLeases
  <2>2. CASE UNCHANGED vars
    BY <2>2, ElsewhereLeases DEF vars, device, history
  <2> QED BY <2>1, <2>2
<1> QED BY <1>1, <1>2, TypeCorrect, CalmAgrees, PTL DEF Spec

-----------------------------------------------------------------------------
(* Transfers: the types, with what FtpTypeOK leaves out                    *)
Ways  == {"upload", "download"}
Ats   == {"none", "listening", "open", "leaked", "closed", "ended", "broken"}
Verbs == {"NOOP", "CWD", "MKD", "SIZE", "REST", "PASV", "PORT", "RETR", "APPE", "STOR"}

Commands == [verb : Verbs, arg : 0..Total, of : Ways]
Replies == [code : 0..5, size : Nat]
Links    == [at : Ats, pieces : Seq(Nat)]
Jobs     == [verb : {"none", "RETR", "STOR", "APPE"}, next : 0..Total, written : Nat]

ClientTypes ==
    /\ passive \in BOOLEAN /\ asked \in BOOLEAN /\ rc \in BOOLEAN
    /\ pc \in Asking \cup {"idle", "connect", "accept", "move", "complete"}
    /\ op \in Ways /\ result \in {"none", "ok", "failed"}
    /\ try \in 1..Tries /\ attempt \in 1..Attempts /\ have \in 0..Total
    /\ ctrl \in {0} \cup Sessions

SessionTypes ==
    /\ dir \in BOOLEAN
    /\ place \in [Sessions -> {"none", "command", "dial", "move", "ended"}]
    /\ open \in [Sessions -> BOOLEAN] /\ rest \in [Sessions -> 0..Total]
    /\ mode \in [Sessions -> {"none", "PORT", "PASV"}]
    /\ inbox \in [Sessions -> Seq(Commands)]
    /\ replies \in [Sessions -> Seq(Replies)]
    /\ data \in [Sessions -> Links]
    /\ job \in [Sessions -> Jobs]
    /\ copy \in [Ways -> Seq(Nat)]

FtpTypes == ClientTypes /\ SessionTypes

-----------------------------------------------------------------------------
(* Transfers: the invariant                                                *)

\* A session that has not been made has nothing; one that is open is at work.
Sound(s) ==
    /\ place[s] = "none" => inbox[s] = <<>> /\ replies[s] = <<>>
    /\ open[s] => place[s] \in {"command", "dial", "move"} /\ ~stop

\* Where the client may stand.
Stand ==
    /\ pc = "connect" => ctrl = 0
    /\ pc \notin {"idle", "connect"} => ctrl # 0
    /\ ctrl # 0 => place[ctrl] # "none"
    /\ pc = "complete" => asked
    /\ asked => pc \in Asking \cup {"complete"}
    /\ pc \in {"cwd", "mkd", "again", "size", "landed"} => op = "upload"
    /\ pc \in {"total", "rest"} => op = "download"

\* What session s owes: nothing, the answer to a command, ...
Silent(s)  == inbox[s] = <<>> /\ replies[s] = <<>> /\ place[s] = "command"
Pending(s) == inbox[s] = <<ClientCommand>> /\ replies[s] = <<>> /\ place[s] = "command"
Replied(s) == inbox[s] = <<>> /\ Len(replies[s]) = 1 /\ place[s] = "command"
\* ... or the end of a transfer.
Moving(s)  == inbox[s] = <<>> /\ replies[s] = <<>> /\ place[s] \in {"dial", "move"}
Begun(s) ==
    /\ inbox[s] = <<>> /\ replies[s] # <<>> /\ Head(replies[s]).code = 1
    /\ \/ Len(replies[s]) = 1 /\ place[s] \in {"dial", "move"}
       \/ Len(replies[s]) = 2 /\ place[s] = "command"

\* The client knows what the session of its connection owes.
Agreed(s) ==
    /\ pc = "idle" \/ (pc \in Asking /\ ~asked) => Silent(s)
    /\ pc \in Asking \ {"verb"} /\ asked => Pending(s) \/ Replied(s)
    /\ pc = "verb" /\ asked => Pending(s) \/ Begun(s)
    /\ pc \in {"accept", "move"} => Moving(s) \/ Replied(s)
    /\ pc = "complete" => Moving(s) \/ Replied(s) \/ Silent(s)
Protocol == ctrl # 0 /\ open[ctrl] => Agreed(ctrl)

\* Before RETR is answered the session is to start no earlier than the client has,
\* and the data connection is empty.
Unanswered == pc = "verb" /\ (asked => replies[ctrl] = <<>>)
Offset ==
    ctrl # 0 /\ open[ctrl] =>
        /\ op = "download" /\ pc = "rest" /\ asked /\ Replied(ctrl) => rest[ctrl] = have
        /\ op = "download" /\ (pc = "mode" \/ Unanswered) => rest[ctrl] >= have
        /\ (pc = "mode" /\ asked) \/ Unanswered => data[ctrl].pieces = <<>>

\* After that, what the client has and what is under way is no more than was sent.
TransferAnswered == (pc = "verb" /\ asked /\ replies[ctrl] # <<>>) \/ pc \in {"accept", "move"}
Bounded ==
    TransferAnswered =>
        /\ inbox[ctrl] = <<>>
        /\ op = "download" =>
              /\ place[ctrl] \in {"dial", "move"} =>
                    /\ job[ctrl].verb = "RETR"
                    /\ have + Len(data[ctrl].pieces) <= job[ctrl].next
              /\ have + Len(data[ctrl].pieces) <= Total

FtpInv == FtpTypes /\ (\A s \in Sessions : Sound(s)) /\ Stand /\ Protocol /\ Offset /\ Bounded


-----------------------------------------------------------------------------
(* Transfers: the steps of a session                                       *)

\* The places of the client at which it has a command to send.
LEMMA Places ==
    Asking = {"noop", "cwd", "mkd", "again", "total", "size", "rest", "landed", "check",
              "mode", "verb"}
  BY DEF Asking, Verb

\* The types are those of FtpTypeOK.
LEMMA TypesOK == FtpTypes => FtpTypeOK
<1>1. ASSUME FtpTypes, NEW s \in Sessions PROVE data[s].at \in Ats
  BY <1>1 DEF FtpTypes, SessionTypes, Links
<1> QED BY <1>1 DEF FtpTypes, ClientTypes, SessionTypes, FtpTypeOK, Ways, Ats

\* A step of a session leaves the client's part alone.
LEMMA ClientStays ==
    ASSUME FtpTypes, UNCHANGED client
    PROVE  ClientTypes'
  BY DEF FtpTypes, SessionTypes, ClientTypes, client

\* The offset of a transfer, and its closing, stay within the types.
LEMMA PutType ==
    ASSUME NEW f \in Seq(Nat), NEW at \in Nat, NEW piece \in Nat, NEW n \in Nat
    PROVE  /\ Put(f, at, piece) \in Seq(Nat)
           /\ Truncate(f, n) \in Seq(Nat)
<1>1. Truncate(f, n) \in [1..n -> Nat]
  BY DEF Truncate
<1>2. PICK m \in Nat : Put(f, at, piece) \in [1..m -> Nat]
  <2> DEFINE m == IF Len(f) > at THEN Len(f) ELSE at + 1
  <2>1. m \in Nat
    OBVIOUS
  <2>2. \A i \in 1..m : (IF i = at + 1 THEN piece ELSE IF i <= Len(f) THEN f[i] ELSE 0) \in Nat
    OBVIOUS
  <2>3. Put(f, at, piece) \in [1..m -> Nat]
    BY <2>2 DEF Put
  <2> QED BY <2>1, <2>3
<1>3. \A k \in Nat : [1..k -> Nat] \subseteq Seq(Nat)
  OBVIOUS
<1> QED BY <1>1, <1>2, <1>3

\* A reply is added to those of an open session.
LEMMA SessionReplyType ==
    ASSUME FtpTypes, NEW s \in Sessions, NEW code \in 0..5, NEW size \in Nat,
           SessionReply(s, code, size)
    PROVE  /\ replies' \in [Sessions -> Seq(Replies)]
           /\ \A t \in Sessions \ {s} : replies'[t] = replies[t]
           /\ ~open[s] => replies'[s] = replies[s]
           /\ open[s] => /\ Len(replies'[s]) = Len(replies[s]) + 1 /\ replies'[s] # <<>>
                         /\ replies[s] # <<>> => Head(replies'[s]) = Head(replies[s])
                         /\ replies[s] = <<>> => Head(replies'[s]).code = code
<1> DEFINE r == [code |-> code, size |-> size]
<1>1. r \in Replies /\ replies[s] \in Seq(Replies) /\ Append(replies[s], r) \in Seq(Replies)
  BY DEF Replies, FtpTypes, SessionTypes
<1>2. replies' = [replies EXCEPT ![s] = IF open[s] THEN Append(replies[s], r) ELSE replies[s]]
  BY DEF SessionReply
<1>3. replies' \in [Sessions -> Seq(Replies)] /\ \A t \in Sessions \ {s} : replies'[t] = replies[t]
  BY <1>1, <1>2 DEF FtpTypes, SessionTypes
<1>4. replies'[s] = IF open[s] THEN Append(replies[s], r) ELSE replies[s]
  BY <1>2 DEF FtpTypes, SessionTypes
<1>5. /\ Len(Append(replies[s], r)) = Len(replies[s]) + 1 /\ Append(replies[s], r) # <<>>
      /\ replies[s] # <<>> => Head(Append(replies[s], r)) = Head(replies[s])
      /\ replies[s] = <<>> => Head(Append(replies[s], r)) = r
  <2>1. Len(replies[s]) \in Nat /\ Len(Append(replies[s], r)) = Len(replies[s]) + 1
    BY <1>1
  <2>2. Append(replies[s], r) # <<>>
    <3>1. Len(Append(replies[s], r)) # 0
      BY <2>1
    <3>2. Len(<<>>) = 0
      OBVIOUS
    <3> QED BY <3>1, <3>2, Zenon
  <2>3. replies[s] # <<>> => Head(Append(replies[s], r)) = Head(replies[s])
    BY <1>1
  <2>4. replies[s] = <<>> => Head(Append(replies[s], r)) = r
    BY <1>1
  <2> QED BY <2>1, <2>2, <2>3, <2>4
<1> QED BY <1>3, <1>4, <1>5

\* What the client does not look at: the sessions of its earlier connections.
LEMMA OtherSession ==
    ASSUME Stand, Protocol, Offset, Bounded, UNCHANGED client, NEW s \in Sessions, s # ctrl,
           ctrl # 0 => ctrl \in Sessions,
           \A t \in Sessions \ {s} :
               UNCHANGED <<place[t], open[t], inbox[t], replies[t], rest[t], data[t], job[t]>>
    PROVE  Stand' /\ Protocol' /\ Offset' /\ Bounded'
<1>1. /\ UNCHANGED <<passive, pc, asked, op, ctrl, have>>
      /\ ctrl # 0 => UNCHANGED <<place[ctrl], open[ctrl], inbox[ctrl], replies[ctrl], rest[ctrl],
                                 data[ctrl], job[ctrl]>>
  BY DEF client
<1>2. ClientCommand' = ClientCommand
  BY <1>1 DEF ClientCommand
<1>3. Stand'
  BY <1>1 DEF Stand
<1>4. Protocol'
  BY <1>1, <1>2 DEF Protocol, Agreed, Silent, Pending, Replied, Moving, Begun
<1>5. Offset'
  BY <1>1 DEF Offset, Unanswered, Replied
<1>6. Bounded'
  BY <1>1, <1>3 DEF Bounded, TransferAnswered, Stand, Asking
<1> QED BY <1>3, <1>4, <1>5, <1>6

\* A step of a transfer: the session goes on, or it replies and waits for a command.
LEMMA TransferStep ==
    ASSUME FtpInv, UNCHANGED client, NEW s \in Sessions, place[s] \in {"dial", "move"},
           UNCHANGED <<open, inbox, stop>>,
           \A t \in Sessions \ {s} : UNCHANGED <<place[t], replies[t], rest[t], data[t], job[t]>>,
           \/ place'[s] = "move" /\ replies'[s] = replies[s]
           \/ place'[s] = "command" /\ \E code \in 0..5 : SessionReply(s, code, 0),
           job[s].verb = "RETR" /\ have + Len(data[s].pieces) <= job[s].next =>
               /\ place'[s] = "move" => /\ job'[s].verb = "RETR"
                                        /\ have + Len(data'[s].pieces) <= job'[s].next
               /\ have + Len(data'[s].pieces) <= Total
    PROVE  /\ \A t \in Sessions : Sound(t)'
           /\ Stand' /\ Protocol' /\ Offset' /\ Bounded'
<1> USE DEF FtpInv
<1>1. /\ UNCHANGED <<passive, pc, asked, op, ctrl, have>>
      /\ ctrl # 0 => ctrl \in Sessions
  BY DEF client, FtpTypes, ClientTypes, SessionTypes
<1>2. \A t \in Sessions : Sound(t)'
  <2>1. Sound(s) /\ Sound(s)'
    BY DEF Sound
  <2>2. \A t \in Sessions \ {s} : Sound(t)'
    BY DEF Sound
  <2> QED BY <2>1, <2>2
<1>3. CASE s # ctrl
  BY <1>1, <1>2, <1>3, OtherSession
<1>4. CASE s = ctrl
  <2>1. Stand'
    BY <1>1, <1>4 DEF Stand
  <2>2. /\ ~open[s] => replies'[s] = replies[s]
        /\ replies[s] # <<>> => replies'[s] # <<>> /\ Head(replies'[s]) = Head(replies[s])
        /\ place'[s] = "command" /\ open[s] => Len(replies'[s]) = Len(replies[s]) + 1
    BY SessionReplyType
  <2>3. open[s] => \/ Moving(s) /\ pc \in {"accept", "move", "complete"}
                   \/ pc = "verb" /\ asked /\ Begun(s) /\ Len(replies[s]) = 1
    <3>1. ~Silent(s) /\ ~Pending(s) /\ ~Replied(s) /\ (Begun(s) => Len(replies[s]) = 1)
      BY DEF Silent, Pending, Replied, Begun
    <3>2. pc \in Asking \cup {"idle", "connect", "accept", "move", "complete"}
      BY DEF FtpTypes, ClientTypes, SessionTypes
    <3>3. ctrl # 0 /\ pc # "connect"
      BY <1>4 DEF Stand, FtpTypes, ClientTypes, SessionTypes, Sessions
    <3> QED BY <1>4, <3>1, <3>2, <3>3 DEF Protocol, Agreed
  <2>4. open[s] /\ Moving(s) => Moving(s)' \/ Replied(s)'
    BY <2>2 DEF Moving, Replied
  <2>5. open[s] /\ Begun(s) /\ Len(replies[s]) = 1 => Begun(s)'
    BY <2>2 DEF Begun
  <2>6. Protocol'
    BY <1>1, <1>4, <2>3, <2>4, <2>5, Places DEF Protocol, Agreed
  <2>7. Offset'
    BY <1>1, <1>4, <2>2, <2>3 DEF Offset, Unanswered, Begun
  <2>8. TransferAnswered' => TransferAnswered
    BY <1>1, <1>4, <2>2, <2>3 DEF TransferAnswered, Begun
  <2>9. Bounded'
    BY <1>1, <1>4, <2>8 DEF Bounded
  <2> QED BY <1>2, <2>1, <2>6, <2>7, <2>9
<1> QED BY <1>3, <1>4

\* A transfer ends with a reply; a writer is closed.
LEMMA DoneType ==
    ASSUME FtpTypes, NEW s \in Sessions, NEW code \in 0..5, Done(s, code)
    PROVE  /\ replies' \in [Sessions -> Seq(Replies)] /\ copy' \in [Ways -> Seq(Nat)]
           /\ place' = [place EXCEPT ![s] = "command"] /\ job' = [job EXCEPT ![s] = NoJob]
           /\ \A t \in Sessions \ {s} : replies'[t] = replies[t]
           /\ \E c \in 0..5 : SessionReply(s, c, 0)
<1>1. SessionReply(s, code, 0)
  BY DEF Done
<1>2. \/ copy' = copy
      \/ copy' = [copy EXCEPT !["upload"] = Truncate(copy["upload"], job[s].written)]
  BY DEF Done
<1>3. copy["upload"] \in Seq(Nat) /\ job[s].written \in Nat
  BY DEF FtpTypes, SessionTypes, Ways, Jobs
<1>4. Truncate(copy["upload"], job[s].written) \in Seq(Nat)
  BY <1>3, PutType
<1>5. copy' \in [Ways -> Seq(Nat)]
  BY <1>2, <1>4 DEF FtpTypes, SessionTypes
<1> QED BY <1>1, <1>5, SessionReplyType DEF Done

\* session_open_data
LEMMA DialKeeps == ASSUME FtpInv, NEW s \in Sessions, Dial(s) PROVE FtpInv'
<1> USE DEF FtpInv
<1>1. /\ place[s] = "dial" /\ mode' = [mode EXCEPT ![s] = "none"]
      /\ UNCHANGED <<passive, pc, asked, op, try, attempt, ctrl, rc, have, result, tool_calls>>
      /\ UNCHANGED <<dir, rest, open, inbox, stop>>
  BY DEF Dial, client
<1>2. data' = data \/ \E at \in Ats : data' = [data EXCEPT ![s].at = at]
  <2>1. data[s].at \in Ats
    BY DEF FtpTypes, SessionTypes, Links
  <2>2. "open" \in Ats /\ (IF data[s].at = "open" THEN "broken" ELSE data[s].at) \in Ats
    BY <2>1 DEF Ats
  <2> QED BY <2>2 DEF Dial
<1>3. /\ data' \in [Sessions -> Links] /\ data'[s].pieces = data[s].pieces
      /\ \A t \in Sessions \ {s} : data'[t] = data[t]
  <2>1. CASE data' = data
    BY <2>1 DEF FtpTypes, SessionTypes
  <2>2. ASSUME NEW at \in Ats, data' = [data EXCEPT ![s].at = at]
        PROVE  /\ data' \in [Sessions -> Links] /\ data'[s].pieces = data[s].pieces
               /\ \A t \in Sessions \ {s} : data'[t] = data[t]
    <3> DEFINE d == [data[s] EXCEPT !.at = at]
    <3>1. d \in Links /\ d.pieces = data[s].pieces
      <4>1. data[s] \in Links
        BY DEF FtpTypes, SessionTypes
      <4> QED BY <4>1 DEF Links
    <3>2. data' = [data EXCEPT ![s] = d]
      BY <2>2
    <3> HIDE DEF d
    <3> QED BY <3>1, <3>2 DEF FtpTypes, SessionTypes
  <2> QED BY <1>2, <2>1, <2>2
<1>4. CASE place' = [place EXCEPT ![s] = "move"] /\ UNCHANGED <<replies, copy, job>>
  <2>1. FtpTypes'
    BY <1>1, <1>3, <1>4, ClientStays DEF client, FtpTypes, SessionTypes, Links
  <2>2. Len(data[s].pieces) \in Nat /\ have \in Nat /\ job[s].next \in 0..Total
    BY DEF FtpTypes, ClientTypes, SessionTypes, Links, Jobs
  <2>3. /\ \A t \in Sessions : Sound(t)'
        /\ Stand' /\ Protocol' /\ Offset' /\ Bounded'
    <3>1. /\ place'[s] = "move" /\ job' = job /\ replies' = replies /\ rest' = rest
          /\ \A t \in Sessions \ {s} : place'[t] = place[t]
      BY <1>1, <1>4 DEF FtpTypes, SessionTypes
    <3>2. have + Len(data[s].pieces) <= job[s].next => have + Len(data[s].pieces) <= Total
      BY <2>2, TransferAssumption DEF TransferAssumption
    <3>3. UNCHANGED client /\ UNCHANGED <<open, inbox, stop>>
      BY <1>1 DEF client
    <3> HIDE DEF FtpInv
    <3> QED BY <1>1, <1>3, <3>1, <3>2, <3>3, TransferStep
  <2> QED BY <2>1, <2>3
<1>5. CASE Done(s, 4)
  <2>1. /\ replies' \in [Sessions -> Seq(Replies)] /\ copy' \in [Ways -> Seq(Nat)]
        /\ place' = [place EXCEPT ![s] = "command"] /\ job' = [job EXCEPT ![s] = NoJob]
        /\ \A t \in Sessions \ {s} : replies'[t] = replies[t]
        /\ \E c \in 0..5 : SessionReply(s, c, 0)
    BY <1>5, DoneType
  <2>2. FtpTypes'
    <3>1. ClientTypes'
      BY <1>1, ClientStays DEF client, FtpTypes
    <3>2. NoJob \in Jobs
      BY TransferAssumption DEF NoJob, Jobs, TransferAssumption
    <3>3. job' \in [Sessions -> Jobs]
      BY <2>1, <3>2 DEF FtpTypes, SessionTypes
    <3>4. place' \in [Sessions -> {"none", "command", "dial", "move", "ended"}]
      BY <2>1 DEF FtpTypes, SessionTypes
    <3>5. mode' \in [Sessions -> {"none", "PORT", "PASV"}]
      BY <1>1 DEF FtpTypes, SessionTypes
    <3> HIDE DEF FtpInv
    <3>6. SessionTypes'
      BY <1>1, <1>3, <2>1, <3>3, <3>4, <3>5 DEF FtpInv, FtpTypes, SessionTypes
    <3> QED BY <3>1, <3>6 DEF FtpTypes
  <2>3. Len(data[s].pieces) \in Nat /\ have \in Nat /\ job[s].next \in 0..Total /\ Total \in Nat
    BY TransferAssumption DEF FtpTypes, ClientTypes, SessionTypes, Links, Jobs, TransferAssumption
  <2>4. place'[s] = "command" /\ \A t \in Sessions \ {s} : place'[t] = place[t] /\ job'[t] = job[t]
    BY <2>1 DEF FtpTypes, SessionTypes
  <2>5. /\ \A t \in Sessions : Sound(t)'
        /\ Stand' /\ Protocol' /\ Offset' /\ Bounded'
    <3>1. UNCHANGED client /\ UNCHANGED <<open, inbox, stop>> /\ rest' = rest
      BY <1>1 DEF client
    <3>2. have + Len(data[s].pieces) <= job[s].next =>
             have + Len(data'[s].pieces) <= Total
      BY <1>3, <2>3
    <3>3. \E code \in 0..5 : SessionReply(s, code, 0)
      BY <2>1
    <3>4. \A t \in Sessions \ {s} :
             UNCHANGED <<place[t], replies[t], rest[t], data[t], job[t]>>
      BY <1>3, <2>1, <2>4, <3>1
    <3>5. place'[s] = "command" /\ place'[s] # "move"
      BY <2>4
    <3> HIDE DEF FtpInv
    <3> QED BY <1>1, <3>1, <3>2, <3>3, <3>4, <3>5, TransferStep
  <2> QED BY <2>2, <2>5
<1> QED BY <1>4, <1>5 DEF Dial

\* The loop of session_store_file
LEMMA ReceiveKeeps == ASSUME FtpInv, NEW s \in Sessions, Receive(s) PROVE FtpInv'
<1> USE DEF FtpInv
<1>1. /\ place[s] = "move" /\ job[s].verb # "RETR"
      /\ UNCHANGED <<passive, pc, asked, op, try, attempt, ctrl, rc, have, result, tool_calls>>
      /\ UNCHANGED <<dir, rest, mode, open, inbox, stop>>
  BY DEF Receive, client
<1>2. data[s] \in Links /\ job[s] \in Jobs /\ copy["upload"] \in Seq(Nat)
  BY DEF FtpTypes, SessionTypes, Ways
<1>3. CASE /\ data[s].pieces # <<>>
           /\ \E at \in Nat :
                 copy' = [copy EXCEPT !["upload"] = Put(copy["upload"], at, Head(data[s].pieces))]
           /\ job' = [job EXCEPT ![s].written = job[s].written + 1]
           /\ data' = [data EXCEPT ![s].pieces = Tail(data[s].pieces)]
           /\ UNCHANGED <<replies, place>>
  <2>1. Head(data[s].pieces) \in Nat /\ Tail(data[s].pieces) \in Seq(Nat)
    BY <1>2, <1>3 DEF Links
  <2>2. \A at \in Nat : Put(copy["upload"], at, Head(data[s].pieces)) \in Seq(Nat)
    BY <1>2, <2>1, PutType
  <2>3. copy' \in [Ways -> Seq(Nat)]
    BY <1>3, <2>2 DEF FtpTypes, SessionTypes
  <2>4. job' \in [Sessions -> Jobs] /\ \A t \in Sessions \ {s} : job'[t] = job[t]
    <3>1. job[s].next \in 0..Total /\ job[s].written + 1 \in Nat
      BY <1>2 DEF Jobs
    <3> DEFINE j == [job[s] EXCEPT !.written = job[s].written + 1]
    <3>2. j \in Jobs
      BY <1>2, <3>1 DEF Jobs
    <3>3. job' = [job EXCEPT ![s] = j]
      BY <1>3
    <3> HIDE DEF j
    <3> QED BY <3>2, <3>3 DEF FtpTypes, SessionTypes
  <2>5. data' \in [Sessions -> Links] /\ \A t \in Sessions \ {s} : data'[t] = data[t]
    <3> DEFINE d == [data[s] EXCEPT !.pieces = Tail(data[s].pieces)]
    <3>1. d \in Links
      BY <1>2, <2>1 DEF Links
    <3>2. data' = [data EXCEPT ![s] = d]
      BY <1>3
    <3> HIDE DEF d
    <3> QED BY <3>1, <3>2 DEF FtpTypes, SessionTypes
  <2>6. FtpTypes'
    BY <1>1, <1>3, <2>3, <2>4, <2>5, ClientStays DEF client, FtpTypes, SessionTypes, Links
  <2>7. /\ \A t \in Sessions : Sound(t)'
        /\ Stand' /\ Protocol' /\ Offset' /\ Bounded'
    BY <1>1, <1>3, <2>4, <2>5, TransferStep DEF client
  <2> QED BY <2>6, <2>7
<1>4. CASE (\E code \in 0..5 : Done(s, code)) /\ UNCHANGED data
  <2>1. /\ replies' \in [Sessions -> Seq(Replies)] /\ copy' \in [Ways -> Seq(Nat)]
        /\ place' = [place EXCEPT ![s] = "command"] /\ job' = [job EXCEPT ![s] = NoJob]
        /\ \A t \in Sessions \ {s} : replies'[t] = replies[t]
        /\ \E c \in 0..5 : SessionReply(s, c, 0)
    BY <1>4, DoneType
  <2>2. FtpTypes'
    BY <1>1, <1>4, <2>1, TransferAssumption, ClientStays DEF client, FtpTypes, SessionTypes,
           NoJob, Jobs, TransferAssumption
  <2>3. place'[s] = "command" /\ \A t \in Sessions \ {s} : place'[t] = place[t] /\ job'[t] = job[t]
    BY <2>1 DEF FtpTypes, SessionTypes
  <2>4. /\ \A t \in Sessions : Sound(t)'
        /\ Stand' /\ Protocol' /\ Offset' /\ Bounded'
    BY <1>1, <1>4, <2>1, <2>3, TransferStep DEF client
  <2> QED BY <2>2, <2>4
<1>5. \A at : at = (IF job[s].verb = "APPE" THEN Len(copy["upload"]) ELSE job[s].written)
                 => at \in Nat
  BY <1>2 DEF Jobs
<1>6. CASE /\ data[s].pieces # <<>>
           /\ LET w  == job[s]
                  at == IF w.verb = "APPE" THEN Len(copy["upload"]) ELSE w.written
              IN  copy' = [copy EXCEPT !["upload"] = Put(@, at, Head(data[s].pieces))]
           /\ job' = [job EXCEPT ![s].written = @ + 1]
           /\ data' = [data EXCEPT ![s].pieces = Tail(@)]
           /\ UNCHANGED <<replies, place>>
  <2> HIDE DEF FtpInv
  <2> QED BY <1>3, <1>5, <1>6
<1>7. CASE /\ Done(s, IF data[s].at = "closed" THEN 2 ELSE 5)
           /\ UNCHANGED data
  <2>1. (IF data[s].at = "closed" THEN 2 ELSE 5) \in 0..5
    OBVIOUS
  <2> HIDE DEF FtpInv
  <2> QED BY <1>4, <1>7, <2>1
<1> QED BY <1>6, <1>7 DEF Receive

\* session_send_file_range, and the end of session_handle_retr
LEMMA SendKeeps == ASSUME FtpInv, NEW s \in Sessions, Send(s) PROVE FtpInv'
<1> USE DEF FtpInv
<1>1. /\ place[s] = "move" /\ job[s].verb = "RETR"
      /\ UNCHANGED <<passive, pc, asked, op, try, attempt, ctrl, rc, have, result, tool_calls>>
      /\ UNCHANGED <<dir, mode, open, inbox, stop>>
  BY DEF Send, client
<1>2. /\ data[s] \in Links /\ job[s] \in Jobs /\ have \in Nat
      /\ Len(data[s].pieces) \in Nat /\ job[s].next \in 0..Total /\ Total \in Nat \ {0}
  BY TransferAssumption DEF FtpTypes, ClientTypes, SessionTypes, Links, Jobs, TransferAssumption
<1>3. CASE /\ job[s].next < Total
           /\ data' = [data EXCEPT ![s].pieces = Append(data[s].pieces, job[s].next + 1)]
           /\ job' = [job EXCEPT ![s].next = job[s].next + 1]
           /\ UNCHANGED <<replies, rest, place, copy>>
  <2>1. /\ Append(data[s].pieces, job[s].next + 1) \in Seq(Nat)
        /\ Len(Append(data[s].pieces, job[s].next + 1)) = Len(data[s].pieces) + 1
    BY <1>2 DEF Links
  <2>2. /\ job' \in [Sessions -> Jobs] /\ \A t \in Sessions \ {s} : job'[t] = job[t]
        /\ job'[s].verb = "RETR" /\ job'[s].next = job[s].next + 1
    <3>1. job[s].next + 1 \in 0..Total /\ job[s].written \in Nat
      BY <1>2, <1>3 DEF Jobs
    <3> DEFINE j == [job[s] EXCEPT !.next = job[s].next + 1]
    <3>2. j \in Jobs /\ j.verb = "RETR" /\ j.next = job[s].next + 1
      BY <1>1, <1>2, <3>1 DEF Jobs
    <3>3. job' = [job EXCEPT ![s] = j]
      BY <1>3
    <3> HIDE DEF j
    <3> QED BY <3>2, <3>3 DEF FtpTypes, SessionTypes
  <2>3. /\ data' \in [Sessions -> Links] /\ \A t \in Sessions \ {s} : data'[t] = data[t]
        /\ Len(data'[s].pieces) = Len(data[s].pieces) + 1
    <3> DEFINE d == [data[s] EXCEPT !.pieces = Append(data[s].pieces, job[s].next + 1)]
    <3>1. d \in Links /\ Len(d.pieces) = Len(data[s].pieces) + 1
      BY <1>2, <2>1 DEF Links
    <3>2. data' = [data EXCEPT ![s] = d]
      BY <1>3
    <3> HIDE DEF d
    <3> QED BY <3>1, <3>2 DEF FtpTypes, SessionTypes
  <2>4. FtpTypes'
    BY <1>1, <1>3, <2>2, <2>3, ClientStays DEF client, FtpTypes, SessionTypes, Links
  <2>5. /\ \A t \in Sessions : Sound(t)'
        /\ Stand' /\ Protocol' /\ Offset' /\ Bounded'
    BY <1>1, <1>2, <1>3, <2>2, <2>3, TransferStep DEF client
  <2> QED BY <2>4, <2>5
<1>4. CASE /\ \E code \in 0..5 : Done(s, code)
           /\ rest' = [rest EXCEPT ![s] = 0]
           /\ data' = [data EXCEPT ![s].at = IF data[s].at = "open" THEN "ended" ELSE data[s].at]
  <2>1. /\ replies' \in [Sessions -> Seq(Replies)] /\ copy' \in [Ways -> Seq(Nat)]
        /\ place' = [place EXCEPT ![s] = "command"] /\ job' = [job EXCEPT ![s] = NoJob]
        /\ \A t \in Sessions \ {s} : replies'[t] = replies[t]
        /\ \E c \in 0..5 : SessionReply(s, c, 0)
    BY <1>4, DoneType
  <2>2. /\ data' \in [Sessions -> Links] /\ data'[s].pieces = data[s].pieces
        /\ \A t \in Sessions \ {s} : data'[t] = data[t]
    <3>1. (IF data[s].at = "open" THEN "ended" ELSE data[s].at) \in Ats
      BY <1>2 DEF Links, Ats
    <3> DEFINE d == [data[s] EXCEPT !.at = IF data[s].at = "open" THEN "ended" ELSE data[s].at]
    <3>2. d \in Links /\ d.pieces = data[s].pieces
      BY <1>2, <3>1 DEF Links
    <3>3. data' = [data EXCEPT ![s] = d]
      BY <1>4
    <3> HIDE DEF d
    <3> QED BY <3>2, <3>3 DEF FtpTypes, SessionTypes
  <2>3. FtpTypes'
    <3>1. job' \in [Sessions -> Jobs] /\ rest' \in [Sessions -> 0..Total]
      BY <1>2, <1>4, <2>1 DEF FtpTypes, SessionTypes, NoJob, Jobs
    <3> QED BY <1>1, <2>1, <2>2, <3>1, ClientStays DEF client, FtpTypes, SessionTypes
  <2>4. /\ place'[s] = "command"
        /\ \A t \in Sessions \ {s} :
              place'[t] = place[t] /\ job'[t] = job[t] /\ rest'[t] = rest[t]
    BY <1>4, <2>1 DEF FtpTypes, SessionTypes
  <2>5. /\ \A t \in Sessions : Sound(t)'
        /\ Stand' /\ Protocol' /\ Offset' /\ Bounded'
    <3>1. have + Len(data[s].pieces) <= job[s].next => have + Len(data[s].pieces) <= Total
      BY <1>2
    <3>2. UNCHANGED client /\ UNCHANGED <<open, inbox, stop>>
      BY <1>1 DEF client
    <3> HIDE DEF FtpInv
    <3> QED BY <1>1, <2>1, <2>2, <2>4, <3>1, <3>2, TransferStep
  <2> QED BY <2>3, <2>5
<1> QED BY <1>3, <1>4 DEF Send

\* What the client asks for at each place.
LEMMA CommandIs ==
    ASSUME FtpTypes, pc \in Asking
    PROVE  /\ ClientCommand \in Commands
           /\ ClientCommand.verb \in {"RETR", "STOR", "APPE"} <=> pc = "verb"
           /\ pc = "verb" /\ op = "download" => ClientCommand.verb = "RETR"
           /\ ClientCommand.verb = "REST" <=> pc = "rest"
           /\ pc = "rest" => ClientCommand.arg = have
<1>1. have \in 0..Total /\ 0 \in 0..Total /\ op \in Ways
  BY TransferAssumption DEF FtpTypes, ClientTypes, TransferAssumption
<1>2. CASE pc = "mode"
  BY <1>1, <1>2 DEF ClientCommand, Commands, Verbs
<1>3. CASE pc = "verb"
  BY <1>1, <1>3 DEF ClientCommand, Commands, Verbs
<1>4. CASE pc \in DOMAIN Verb
  <2>1. pc \in {"noop", "cwd", "mkd", "again", "total", "size", "rest", "landed", "check"}
    BY <1>4 DEF Verb
  <2>2. /\ Verb[pc] \in {"NOOP", "CWD", "MKD", "SIZE", "REST"}
        /\ Verb[pc] = "REST" <=> pc = "rest"
    BY <2>1 DEF Verb
  <2>3. /\ ClientCommand.verb = Verb[pc]
        /\ pc = "rest" => ClientCommand.arg = have
        /\ ClientCommand = [verb |-> Verb[pc], arg |-> IF pc = "rest" THEN have ELSE 0, of |-> op]
    BY <2>1 DEF ClientCommand
  <2> QED BY <1>1, <2>1, <2>2, <2>3 DEF Commands, Verbs
<1> QED BY <1>2, <1>3, <1>4 DEF Asking

\* The only command that the session of the client can find is the one it waits for.
LEMMA OnlyPending ==
    ASSUME FtpInv, NEW s \in Sessions, s = ctrl, open[s], place[s] = "command", inbox[s] # <<>>
    PROVE  /\ Pending(s) /\ asked /\ pc \in Asking
           /\ Head(inbox[s]) = ClientCommand /\ Tail(inbox[s]) = <<>>
<1> USE DEF FtpInv
<1>1. ~Silent(s) /\ ~Replied(s) /\ ~Moving(s) /\ ~Begun(s)
  BY DEF Silent, Replied, Moving, Begun
<1>2. ctrl # 0 /\ pc # "connect"
  BY DEF Stand, FtpTypes, ClientTypes, SessionTypes, Sessions
<1>3. pc \in Asking \cup {"idle", "connect", "accept", "move", "complete"}
  BY DEF FtpTypes, ClientTypes, SessionTypes
<1>4. Pending(s) /\ asked /\ pc \in Asking
  BY <1>1, <1>2, <1>3 DEF Protocol, Agreed
<1> QED BY <1>4 DEF Pending

\* A session that starts a transfer: session_handle_retr, session_store_file
LEMMA BeginsKeeps ==
    ASSUME FtpInv, NEW s \in Sessions, Command(s), NEW c \in Commands, c = Head(inbox[s]),
           c.verb \in {"RETR", "STOR", "APPE"}, Begins(s, c)
    PROVE  FtpInv'
<1> USE DEF FtpInv
<1>1. /\ place[s] = "command" /\ inbox[s] # <<>> /\ ~stop
      /\ inbox' = [inbox EXCEPT ![s] = Tail(inbox[s])]
      /\ UNCHANGED <<passive, pc, asked, op, try, attempt, ctrl, rc, have, result, tool_calls>>
      /\ UNCHANGED <<open, data, stop, mode, dir>>
      /\ place' = [place EXCEPT ![s] = "dial"]
      /\ job' = [job EXCEPT ![s] = OpenFile(s, c)]
      /\ rest' = IF c.verb = "RETR" THEN rest ELSE [rest EXCEPT ![s] = 0]
      /\ SessionReply(s, 1, 0)
  BY DEF Command, Begins, client
<1>2. /\ inbox[s] \in Seq(Commands) /\ copy["upload"] \in Seq(Nat) /\ rest[s] \in 0..Total
      /\ 0 \in 0..Total /\ data[s] \in Links /\ have \in 0..Total /\ Total \in Nat
  BY TransferAssumption DEF FtpTypes, ClientTypes, SessionTypes, Ways, TransferAssumption
<1>3. /\ OpenFile(s, c) \in Jobs
      /\ c.verb = "RETR" => OpenFile(s, c).verb = "RETR" /\ OpenFile(s, c).next = rest[s]
  <2>1. Len(copy["upload"]) \in Nat /\ rest[s] \in Nat
    BY <1>2
  <2> QED BY <1>2, <2>1 DEF OpenFile, Jobs
<1>4. /\ inbox' \in [Sessions -> Seq(Commands)] /\ inbox'[s] = Tail(inbox[s])
      /\ \A t \in Sessions \ {s} : inbox'[t] = inbox[t]
  <2>1. Tail(inbox[s]) \in Seq(Commands)
    BY <1>1, <1>2
  <2> QED BY <1>1, <2>1 DEF FtpTypes, SessionTypes
<1>5. copy' \in [Ways -> Seq(Nat)]
  <2>1. copy' = copy \/ copy' = [copy EXCEPT !["upload"] = <<>>]
    BY DEF Begins
  <2>2. <<>> \in Seq(Nat)
    OBVIOUS
  <2> QED BY <2>1, <2>2 DEF FtpTypes, SessionTypes
<1>6. /\ job' \in [Sessions -> Jobs] /\ job'[s] = OpenFile(s, c)
      /\ place' \in [Sessions -> {"none", "command", "dial", "move", "ended"}] /\ place'[s] = "dial"
      /\ rest' \in [Sessions -> 0..Total]
      /\ c.verb = "RETR" => rest'[s] = rest[s]
      /\ \A t \in Sessions \ {s} : job'[t] = job[t] /\ place'[t] = place[t] /\ rest'[t] = rest[t]
  BY <1>1, <1>2, <1>3 DEF FtpTypes, SessionTypes
<1>7. /\ replies' \in [Sessions -> Seq(Replies)]
      /\ \A t \in Sessions \ {s} : replies'[t] = replies[t]
      /\ ~open[s] => replies'[s] = replies[s]
      /\ open[s] => /\ Len(replies'[s]) = Len(replies[s]) + 1 /\ replies'[s] # <<>>
                    /\ replies[s] = <<>> => Head(replies'[s]).code = 1
  <2> HIDE DEF FtpInv
  <2>1. FtpTypes /\ 1 \in 0..5 /\ 0 \in Nat
    BY DEF FtpInv
  <2> QED BY <1>1, <2>1, SessionReplyType
<1>8. FtpTypes'
  <2>1. ClientTypes'
    BY <1>1, ClientStays DEF client
  <2>2. SessionTypes'
    <3>1. UNCHANGED <<open, data, mode, dir>>
      BY <1>1
    <3>2. SessionTypes
      BY DEF FtpTypes
    <3>3. /\ place' \in [Sessions -> {"none", "command", "dial", "move", "ended"}]
          /\ rest' \in [Sessions -> 0..Total] /\ inbox' \in [Sessions -> Seq(Commands)]
          /\ replies' \in [Sessions -> Seq(Replies)] /\ job' \in [Sessions -> Jobs]
      BY <1>4, <1>6, <1>7
    <3> HIDE DEF FtpInv
    <3> QED BY <1>5, <3>1, <3>2, <3>3 DEF SessionTypes
  <2> QED BY <2>1, <2>2 DEF FtpTypes
<1>9. \A t \in Sessions : Sound(t)'
  <2>1. \A t \in Sessions : Sound(t)
    OBVIOUS
  <2>2. \A t \in Sessions \ {s} : Sound(t)'
    <3>1. UNCHANGED <<open, stop>>
      BY <1>1
    <3>2. \A t \in Sessions \ {s} : place'[t] = place[t] /\ inbox'[t] = inbox[t]
                                 /\ replies'[t] = replies[t]
      BY <1>4, <1>6, <1>7
    <3> HIDE DEF FtpInv
    <3> QED BY <2>1, <3>1, <3>2 DEF Sound
  <2>3. Sound(s)'
    BY <1>1, <1>6, <2>1 DEF Sound
  <2> QED BY <2>2, <2>3
<1>10. CASE s # ctrl
  <2>1. UNCHANGED client /\ (ctrl # 0 => ctrl \in Sessions)
    BY <1>1 DEF client, FtpTypes, ClientTypes, SessionTypes
  <2> QED BY <1>1, <1>4, <1>6, <1>7, <1>8, <1>9, <1>10, <2>1, OtherSession
<1>11. CASE s = ctrl /\ ~open[s]
  <2>1. Stand'
    BY <1>1, <1>6, <1>11 DEF Stand
  <2>2. ~TransferAnswered
    BY <1>1, <1>11 DEF Bounded
  <2>3. Protocol' /\ Offset' /\ Bounded'
    BY <1>1, <1>7, <1>11, <2>2 DEF Protocol, Offset, Bounded, TransferAnswered
  <2> QED BY <1>8, <1>9, <2>1, <2>3
<1>12. CASE s = ctrl /\ open[s]
  <2>1. Pending(s) /\ asked /\ pc \in Asking /\ c = ClientCommand /\ inbox'[s] = <<>>
    BY <1>1, <1>4, <1>12, OnlyPending
  <2>2. pc = "verb" /\ (op = "download" => c.verb = "RETR")
    BY <2>1, CommandIs
  <2>3. /\ replies[s] = <<>> /\ replies'[s] # <<>>
        /\ Head(replies'[s]).code = 1 /\ Len(replies'[s]) = 1
    BY <1>7, <1>12, <2>1 DEF Pending
  <2>4. Stand'
    BY <1>1, <1>6, <1>12 DEF Stand
  <2>5. Protocol'
    BY <1>1, <1>6, <1>12, <2>1, <2>2, <2>3 DEF Protocol, Agreed, Begun
  <2>6. Offset'
    BY <1>1, <1>12, <2>2, <2>3, <2>1 DEF Offset, Unanswered
  <2>7. Unanswered
    BY <1>12, <2>2, <2>3 DEF Unanswered
  <2>8. ctrl # 0
    BY <1>12 DEF Sessions
  <2>9. op = "download" => rest[s] >= have /\ data[s].pieces = <<>>
    BY <1>12, <2>7, <2>8 DEF Offset
  <2>10. op = "download" => job'[s].verb = "RETR" /\ have + Len(data[s].pieces) <= job'[s].next
    BY <1>2, <1>3, <1>6, <2>2, <2>9
  <2>11. op = "download" => have + Len(data[s].pieces) <= Total
    BY <1>2, <2>9
  <2>12. Bounded'
    BY <1>1, <1>12, <2>1, <2>10, <2>11 DEF Bounded
  <2> QED BY <1>8, <1>9, <2>4, <2>5, <2>6, <2>12
<1> QED BY <1>10, <1>11, <1>12

\* A session that answers at once
LEMMA AnswersKeeps ==
    ASSUME FtpInv, NEW s \in Sessions, Command(s), NEW c \in Commands, c = Head(inbox[s]),
           c.verb \notin {"RETR", "STOR", "APPE"}, Answers(s, c)
    PROVE  FtpInv'
<1> USE DEF FtpInv
<1>1. /\ place[s] = "command" /\ inbox[s] # <<>> /\ ~stop
      /\ inbox' = [inbox EXCEPT ![s] = Tail(inbox[s])]
      /\ UNCHANGED <<passive, pc, asked, op, try, attempt, ctrl, rc, have, result, tool_calls>>
      /\ UNCHANGED <<open, data, stop, place, job, copy>>
      /\ rest' = IF c.verb = "REST" THEN [rest EXCEPT ![s] = c.arg] ELSE rest
      /\ mode' = IF c.verb \in {"PORT", "PASV"} THEN [mode EXCEPT ![s] = c.verb] ELSE mode
      /\ dir'  = (dir \/ c.verb = "MKD")
  BY DEF Command, Answers, client
<1>2. /\ inbox[s] \in Seq(Commands) /\ c.arg \in 0..Total
      /\ Len(copy["upload"]) \in Nat /\ Total \in Nat
  <2>1. inbox[s] \in Seq(Commands) /\ copy["upload"] \in Seq(Nat)
    BY DEF FtpTypes, SessionTypes, Ways
  <2>2. c.arg \in 0..Total
    BY DEF Commands
  <2> QED BY <2>1, <2>2, TransferAssumption DEF TransferAssumption
<1>3. \E code \in 0..5, size \in Nat : SessionReply(s, code, size)
  <2> DEFINE size == IF c.of = "upload" THEN Len(copy["upload"]) ELSE Total
  <2>1. size \in Nat
    BY <1>2
  <2>2. CASE c.verb = "SIZE"
    <3>1. SessionReply(s, IF size = 0 THEN 5 ELSE 2, size)
      BY <2>2 DEF Answers
    <3>2. (IF size = 0 THEN 5 ELSE 2) \in 0..5
      OBVIOUS
    <3> QED BY <2>1, <3>1, <3>2
  <2>3. CASE c.verb # "SIZE"
    <3>1. \/ SessionReply(s, 3, 0) \/ SessionReply(s, 2, 0)
          \/ SessionReply(s, IF dir THEN 2 ELSE 5, 0)
      BY <2>3 DEF Answers
    <3>2. (IF dir THEN 2 ELSE 5) \in 0..5 /\ 2 \in 0..5 /\ 3 \in 0..5 /\ 0 \in Nat
      OBVIOUS
    <3> QED BY <3>1, <3>2
  <2> QED BY <2>2, <2>3
<1>4. /\ inbox' \in [Sessions -> Seq(Commands)] /\ inbox'[s] = Tail(inbox[s])
      /\ \A t \in Sessions \ {s} : inbox'[t] = inbox[t]
  <2>1. Tail(inbox[s]) \in Seq(Commands)
    BY <1>1, <1>2
  <2> QED BY <1>1, <2>1 DEF FtpTypes, SessionTypes
<1>5. /\ rest' \in [Sessions -> 0..Total] /\ \A t \in Sessions \ {s} : rest'[t] = rest[t]
      /\ rest'[s] = IF c.verb = "REST" THEN c.arg ELSE rest[s]
  BY <1>1, <1>2 DEF FtpTypes, SessionTypes
<1>6. dir' \in BOOLEAN /\ mode' \in [Sessions -> {"none", "PORT", "PASV"}]
  BY <1>1 DEF FtpTypes, SessionTypes
<1>7. /\ replies' \in [Sessions -> Seq(Replies)]
      /\ \A t \in Sessions \ {s} : replies'[t] = replies[t]
      /\ ~open[s] => replies'[s] = replies[s]
      /\ open[s] => Len(replies'[s]) = Len(replies[s]) + 1
  <2> HIDE DEF FtpInv
  <2>1. FtpTypes
    BY DEF FtpInv
  <2> QED BY <1>3, <2>1, SessionReplyType
<1>8. FtpTypes'
  BY <1>1, <1>4, <1>5, <1>6, <1>7, ClientStays DEF client, FtpTypes, SessionTypes
<1>9. \A t \in Sessions : Sound(t)'
  BY <1>1, <1>4, <1>7 DEF Sound
<1>10. CASE s # ctrl
  <2>1. UNCHANGED client /\ (ctrl # 0 => ctrl \in Sessions)
    BY <1>1 DEF client, FtpTypes, ClientTypes, SessionTypes
  <2> QED BY <1>1, <1>4, <1>5, <1>7, <1>8, <1>9, <1>10, <2>1, OtherSession
<1>11. CASE s = ctrl /\ ~open[s]
  <2>1. Stand'
    BY <1>1 DEF Stand
  <2>2. ~TransferAnswered
    BY <1>1, <1>11 DEF Bounded
  <2>3. Protocol' /\ Offset' /\ Bounded'
    BY <1>1, <1>7, <1>11, <2>2 DEF Protocol, Offset, Bounded, TransferAnswered
  <2> QED BY <1>8, <1>9, <2>1, <2>3
<1>12. CASE s = ctrl /\ open[s]
  <2>1. Pending(s) /\ asked /\ pc \in Asking /\ c = ClientCommand /\ inbox'[s] = <<>>
    BY <1>1, <1>4, <1>12, OnlyPending
  <2>2. /\ pc # "verb"
        /\ pc = "rest" => rest'[s] = have
        /\ pc = "mode" => rest'[s] = rest[s]
    BY <1>5, <2>1, CommandIs
  <2>3. replies[s] = <<>> /\ Len(replies'[s]) = 1
    BY <1>7, <1>12, <2>1 DEF Pending
  <2>4. Stand'
    BY <1>1 DEF Stand
  <2>5. Protocol'
    BY <1>1, <1>12, <2>1, <2>2, <2>3, Places DEF Protocol, Agreed, Replied
  <2>6. Offset'
    BY <1>1, <1>12, <2>2 DEF Offset, Unanswered
  <2>7. Bounded'
    BY <1>1, <2>1, <2>2, Places DEF Bounded, TransferAnswered
  <2> QED BY <1>8, <1>9, <2>4, <2>5, <2>6, <2>7
<1> QED BY <1>10, <1>11, <1>12

\* session_dispatch
LEMMA CommandKeeps == ASSUME FtpInv, NEW s \in Sessions, Command(s) PROVE FtpInv'
<1>1. Head(inbox[s]) \in Commands
  <2>1. inbox[s] \in Seq(Commands) /\ inbox[s] # <<>>
    BY DEF FtpInv, FtpTypes, SessionTypes, Command
  <2> QED BY <2>1
<1>2. \/ Head(inbox[s]).verb \in {"RETR", "STOR", "APPE"} /\ Begins(s, Head(inbox[s]))
      \/ Head(inbox[s]).verb \notin {"RETR", "STOR", "APPE"} /\ Answers(s, Head(inbox[s]))
  BY DEF Command
<1> QED BY <1>1, <1>2, BeginsKeeps, AnswersKeeps

\* The loop of session_thread ends.
LEMMA LeavesKeeps == ASSUME FtpInv, NEW s \in Sessions, Leaves(s) PROVE FtpInv'
<1> USE DEF FtpInv
<1>1. /\ place[s] = "command" /\ (~open[s] \/ stop)
      /\ place' = [place EXCEPT ![s] = "ended"] /\ rest' = [rest EXCEPT ![s] = 0]
      /\ mode' = [mode EXCEPT ![s] = "none"] /\ inbox' = [inbox EXCEPT ![s] = <<>>]
      /\ UNCHANGED <<passive, pc, asked, op, try, attempt, ctrl, rc, have, result, tool_calls>>
      /\ UNCHANGED <<open, replies, data, stop, job, copy, dir>>
  BY DEF Leaves, client
<1>2. ~open[s]
  BY <1>1 DEF Sound
<1>3. /\ place' \in [Sessions -> {"none", "command", "dial", "move", "ended"}]
      /\ rest' \in [Sessions -> 0..Total] /\ mode' \in [Sessions -> {"none", "PORT", "PASV"}]
      /\ inbox' \in [Sessions -> Seq(Commands)] /\ place'[s] = "ended" /\ inbox'[s] = <<>>
      /\ \A t \in Sessions \ {s} : UNCHANGED <<place[t], inbox[t], rest[t]>>
  <2>1. <<>> \in Seq(Commands) /\ 0 \in 0..Total
    BY TransferAssumption DEF TransferAssumption
  <2> QED BY <1>1, <2>1 DEF FtpTypes, SessionTypes
<1>4. FtpTypes'
  <2>1. ClientTypes'
    BY <1>1, ClientStays DEF client
  <2> QED BY <1>1, <1>3, <2>1 DEF FtpTypes, SessionTypes
<1>5. \A t \in Sessions : Sound(t)'
  BY <1>1, <1>2, <1>3 DEF Sound
<1>6. CASE s # ctrl
  <2>1. UNCHANGED client /\ (ctrl # 0 => ctrl \in Sessions)
    BY <1>1 DEF client, FtpTypes, ClientTypes, SessionTypes
  <2> QED BY <1>1, <1>3, <1>4, <1>5, <1>6, <2>1, OtherSession
<1>7. CASE s = ctrl
  <2>1. Stand'
    BY <1>1, <1>3, <1>7 DEF Stand
  <2>2. Protocol' /\ Offset'
    BY <1>1, <1>2, <1>7 DEF Protocol, Offset
  <2>3. Bounded'
    BY <1>1, <1>3, <1>7 DEF Bounded, TransferAnswered
  <2> QED BY <1>4, <1>5, <2>1, <2>2, <2>3
<1> QED BY <1>6, <1>7

\* A step of a session
LEMMA SessionKeeps == ASSUME FtpInv, NEW s \in Sessions, SessionStep(s) PROVE FtpInv'
  BY CommandKeeps, DialKeeps, ReceiveKeeps, SendKeeps, LeavesKeeps DEF SessionStep

\* Control connections go: one is lost, or all are shut down by a stop.
LEMMA ShutKeeps ==
    ASSUME FtpInv, UNCHANGED client,
           UNCHANGED <<place, rest, mode, job, inbox, replies, data, copy, dir>>,
           open' \in [Sessions -> BOOLEAN],
           \A t \in Sessions : open'[t] => open[t] /\ ~stop'
    PROVE  FtpInv'
<1> USE DEF FtpInv
<1>1. UNCHANGED <<passive, pc, asked, op, try, attempt, ctrl, rc, have, result, tool_calls>>
  BY DEF client
<1>2. FtpTypes'
  <2>1. ClientTypes'
    BY ClientStays
  <2> QED BY <2>1 DEF FtpTypes, SessionTypes
<1>3. \A t \in Sessions : Sound(t)'
  BY DEF Sound
<1>4. Stand'
  BY <1>1 DEF Stand
<1>5. ClientCommand' = ClientCommand
  BY <1>1 DEF ClientCommand
<1>6. ctrl # 0 => ctrl \in Sessions
  BY DEF FtpTypes, ClientTypes, SessionTypes
<1>7. Protocol'
  BY <1>1, <1>5, <1>6 DEF Protocol, Agreed, Silent, Pending, Replied, Moving, Begun
<1>8. Offset'
  BY <1>1, <1>6 DEF Offset, Unanswered, Replied
<1>9. Bounded'
  BY <1>1 DEF Bounded, TransferAnswered
<1> QED BY <1>2, <1>3, <1>4, <1>7, <1>8, <1>9

\* ncl_ftp_server_stop, and a control connection that is lost
LEMMA StopKeeps == ASSUME FtpInv, Stop \/ \E s \in Sessions : LoseControl(s) PROVE FtpInv'
<1>1. CASE Stop
  BY <1>1, ShutKeeps DEF Stop, serving
<1>2. ASSUME NEW s \in Sessions, LoseControl(s) PROVE FtpInv'
  <2>1. /\ open' = [open EXCEPT ![s] = FALSE] /\ stop' = stop
        /\ UNCHANGED client
        /\ UNCHANGED <<place, rest, mode, job, inbox, replies, data, copy, dir>>
    BY <1>2 DEF LoseControl, serving
  <2>2. open \in [Sessions -> BOOLEAN] /\ \A t \in Sessions : open[t] => ~stop
    BY DEF FtpInv, FtpTypes, SessionTypes, Sound
  <2> QED BY <2>1, <2>2, ShutKeeps
<1> QED BY <1>1, <1>2

\* A data connection that dies
LEMMA BreakKeeps == ASSUME FtpInv, NEW s \in Sessions, BreakData(s) PROVE FtpInv'
<1> USE DEF FtpInv
<1>1. /\ data' = [data EXCEPT ![s] = Broken]
      /\ UNCHANGED <<passive, pc, asked, op, try, attempt, ctrl, rc, have, result, tool_calls>>
      /\ UNCHANGED <<place, open, rest, mode, job, inbox, replies, copy, dir, stop>>
  BY DEF BreakData, client, serving, wires
<1>2. /\ data' \in [Sessions -> Links] /\ data'[s].pieces = <<>>
      /\ \A t \in Sessions \ {s} : data'[t] = data[t]
  <2>1. Broken \in Links /\ Broken.pieces = <<>>
    <3>1. <<>> \in Seq(Nat)
      OBVIOUS
    <3> QED BY <3>1 DEF Broken, Links, Ats
  <2> HIDE DEF FtpInv
  <2>2. data \in [Sessions -> Links]
    BY DEF FtpInv, FtpTypes, SessionTypes
  <2> QED BY <1>1, <2>1, <2>2
<1>3. FtpTypes'
  <2>1. ClientTypes'
    BY <1>1, ClientStays DEF client
  <2> QED BY <1>1, <1>2, <2>1 DEF FtpTypes, SessionTypes
<1>4. \A t \in Sessions : Sound(t)'
  BY <1>1 DEF Sound
<1>5. Stand'
  BY <1>1 DEF Stand
<1>6. CASE s # ctrl
  <2>1. UNCHANGED client /\ (ctrl # 0 => ctrl \in Sessions)
    BY <1>1 DEF client, FtpTypes, ClientTypes, SessionTypes
  <2> QED BY <1>1, <1>2, <1>3, <1>4, <1>6, <2>1, OtherSession
<1>7. CASE s = ctrl
  <2>1. ClientCommand' = ClientCommand
    BY <1>1 DEF ClientCommand
  <2>2. Protocol'
    BY <1>1, <2>1 DEF Protocol, Agreed, Silent, Pending, Replied, Moving, Begun
  <2>3. Offset'
    BY <1>1, <1>2, <1>7 DEF Offset, Unanswered, Replied
  <2>4. /\ have \in Nat /\ Len(data[s].pieces) \in Nat /\ Len(data'[s].pieces) = 0
        /\ job[s].next \in Nat /\ Total \in Nat
    BY <1>2, TransferAssumption DEF FtpTypes, ClientTypes, SessionTypes, Links, Jobs,
           TransferAssumption
  <2>5. Bounded'
    BY <1>1, <1>7, <2>4 DEF Bounded, TransferAnswered
  <2> QED BY <1>3, <1>4, <1>5, <2>2, <2>3, <2>5
<1> QED BY <1>6, <1>7

\* The call of the file tool, up to its first command or connection
LEMMA BeginKeeps == ASSUME FtpInv, Begin PROVE FtpInv'
<1> USE DEF FtpInv
<1>1. /\ pc = "idle" /\ op' \in Ways /\ try' = 1 /\ attempt' = 1
      /\ result' = "none" /\ asked' = FALSE
      /\ pc' = IF ctrl = 0 THEN "connect" ELSE "noop"
      /\ UNCHANGED <<passive, ctrl, rc, have, copy, dir, place, rest, mode, job>>
      /\ UNCHANGED <<open, inbox, replies, data, stop>>
  BY DEF Begin, Goto, serving, wires, Ways
<1>2. FtpTypes'
  <2>1. ClientTypes'
    <3>1. pc' \in Asking \cup {"connect"} /\ 1 \in 1..Tries /\ 1 \in 1..Attempts
      BY <1>1, Places, TransferAssumption DEF TransferAssumption
    <3>2. ClientTypes
      BY DEF FtpTypes
    <3> HIDE DEF FtpInv
    <3> QED BY <1>1, <3>1, <3>2 DEF ClientTypes
  <2> QED BY <1>1, <2>1 DEF FtpTypes, SessionTypes
<1>3. \A t \in Sessions : Sound(t)'
  BY <1>1 DEF Sound
<1>4. Stand'
  BY <1>1, Places DEF Stand
<1>5. Protocol'
  BY <1>1, Places DEF Protocol, Agreed, Silent
<1>6. Offset' /\ Bounded'
  BY <1>1 DEF Offset, Unanswered, Bounded, TransferAnswered
<1> QED BY <1>2, <1>3, <1>4, <1>5, <1>6

\* A client is made, or none
LEMMA ConnectKeeps == ASSUME FtpInv, MakeClient PROVE FtpInv'
<1> USE DEF FtpInv
<1>1. /\ pc = "connect" /\ ctrl = 0 /\ asked' = FALSE
      /\ UNCHANGED <<passive, op, rc, have, dir, rest, mode, job, inbox, replies, data, stop, copy>>
  BY DEF MakeClient, Stand, Goto, Return
<1>2. CASE \E s \in Sessions :
              /\ ~stop /\ place[s] = "none"
              /\ place' = [place EXCEPT ![s] = "command"] /\ open' = [open EXCEPT ![s] = TRUE]
              /\ ctrl' = s /\ attempt' = 1
              /\ pc' = IF op = "upload" THEN "cwd" ELSE "total"
              /\ UNCHANGED <<try, result>>
  <2>1. PICK s \in Sessions :
              /\ ~stop /\ place[s] = "none"
              /\ place' = [place EXCEPT ![s] = "command"] /\ open' = [open EXCEPT ![s] = TRUE]
              /\ ctrl' = s /\ attempt' = 1
              /\ pc' = IF op = "upload" THEN "cwd" ELSE "total"
              /\ UNCHANGED <<try, result>>
    BY <1>2
  <2>2. /\ place' \in [Sessions -> {"none", "command", "dial", "move", "ended"}]
        /\ open' \in [Sessions -> BOOLEAN] /\ place'[s] = "command"
        /\ \A t \in Sessions \ {s} : place'[t] = place[t] /\ open'[t] = open[t]
    BY <2>1 DEF FtpTypes, SessionTypes
  <2>3. FtpTypes'
    <3>1. ClientTypes'
      <4>1. pc' \in Asking /\ 1 \in 1..Attempts
        BY <2>1, Places, TransferAssumption DEF TransferAssumption
      <4>2. ClientTypes
        BY DEF FtpTypes
      <4> HIDE DEF FtpInv
      <4> QED BY <1>1, <2>1, <4>1, <4>2 DEF ClientTypes
    <3> QED BY <1>1, <2>2, <3>1 DEF FtpTypes, SessionTypes
  <2>4. \A t \in Sessions : Sound(t)'
    BY <1>1, <2>1, <2>2 DEF Sound
  <2>5. Stand'
    <3>1. s # 0 /\ op \in {"upload", "download"}
      BY DEF Sessions, FtpTypes, ClientTypes, Ways
    <3> QED BY <1>1, <2>1, <2>2, <3>1, Places DEF Stand
  <2>6. inbox[s] = <<>> /\ replies[s] = <<>>
    BY <2>1 DEF Sound
  <2>7. Protocol'
    BY <1>1, <2>1, <2>2, <2>6 DEF Protocol, Agreed, Silent
  <2>8. Offset' /\ Bounded'
    BY <1>1, <2>1 DEF Offset, Unanswered, Bounded, TransferAnswered
  <2> QED BY <2>3, <2>4, <2>5, <2>7, <2>8
<1>3. CASE /\ UNCHANGED <<place, open, ctrl, attempt>>
           /\ \/ try < Tries /\ try' = try + 1 /\ pc' = "connect" /\ result' = result
              \/ try' = try /\ pc' = "idle" /\ result' = "failed"
  <2>1. FtpTypes'
    <3>1. try' \in 1..Tries
      BY <1>3, TransferAssumption DEF FtpTypes, ClientTypes, TransferAssumption
    <3>2. ClientTypes'
      <4>1. ClientTypes
        BY DEF FtpTypes
      <4> HIDE DEF FtpInv
      <4> QED BY <1>1, <1>3, <3>1, <4>1 DEF ClientTypes
    <3> QED BY <1>1, <1>3, <3>2 DEF FtpTypes, SessionTypes
  <2>2. \A t \in Sessions : Sound(t)'
    BY <1>1, <1>3 DEF Sound
  <2>3. Stand'
    BY <1>1, <1>3 DEF Stand
  <2>4. Protocol' /\ Offset' /\ Bounded'
    BY <1>1, <1>3 DEF Protocol, Offset, Bounded, TransferAnswered
  <2> QED BY <2>1, <2>2, <2>3, <2>4
<1> QED BY <1>2, <1>3 DEF MakeClient, Goto, Return

\* ncl_ftp_client_command
LEMMA AskKeeps == ASSUME FtpInv, Ask PROVE FtpInv'
<1> USE DEF FtpInv
<1> DEFINE e == [NoData EXCEPT !.at = IF passive THEN "none" ELSE "listening"]
<1>1. /\ pc \in Asking /\ ~asked /\ ctrl # 0 /\ open[ctrl] /\ asked' = TRUE
      /\ inbox' = [inbox EXCEPT ![ctrl] = Append(inbox[ctrl], ClientCommand)]
      /\ data' = IF pc = "mode" THEN [data EXCEPT ![ctrl] = e] ELSE data
      /\ UNCHANGED <<passive, pc, op, try, attempt, ctrl, rc, have, result, tool_calls, copy, dir>>
      /\ UNCHANGED <<place, rest, mode, job, open, replies, stop>>
  BY DEF Ask, Connected, serving
<1>2. ctrl \in Sessions /\ Silent(ctrl) /\ ClientCommand \in Commands
  BY <1>1, CommandIs DEF FtpTypes, ClientTypes, SessionTypes, Protocol, Agreed
<1>3. /\ inbox' \in [Sessions -> Seq(Commands)] /\ inbox'[ctrl] = <<ClientCommand>>
      /\ \A t \in Sessions \ {ctrl} : inbox'[t] = inbox[t]
  <2>1. /\ Append(inbox[ctrl], ClientCommand) = <<ClientCommand>>
        /\ <<ClientCommand>> \in Seq(Commands)
    BY <1>2 DEF Silent
  <2> QED BY <1>1, <1>2, <2>1 DEF FtpTypes, SessionTypes
<1>4. /\ data' \in [Sessions -> Links] /\ (pc = "mode" => data'[ctrl].pieces = <<>>)
      /\ pc # "mode" => data' = data
  <2>1. e \in Links /\ e.pieces = <<>>
    <3>1. <<>> \in Seq(Nat)
      OBVIOUS
    <3> QED BY <3>1 DEF NoData, Links, Ats
  <2>2. data \in [Sessions -> Links]
    BY DEF FtpTypes, SessionTypes
  <2> HIDE DEF FtpInv, e
  <2> QED BY <1>1, <1>2, <2>1, <2>2
<1>5. FtpTypes'
  <2>1. ClientTypes'
    BY <1>1 DEF FtpTypes, ClientTypes, SessionTypes
  <2> QED BY <1>1, <1>3, <1>4, <2>1 DEF FtpTypes, SessionTypes
<1>6. \A t \in Sessions : Sound(t)'
  BY <1>1, <1>2, <1>3 DEF Sound, Silent
<1>7. Stand'
  BY <1>1 DEF Stand
<1>8. ClientCommand' = ClientCommand
  BY <1>1 DEF ClientCommand
<1>9. Protocol'
  <2>1. Pending(ctrl)'
    BY <1>1, <1>2, <1>3, <1>8 DEF Silent, Pending
  <2>2. pc \notin {"idle", "accept", "move", "complete"}
    BY <1>1, Places
  <2> QED BY <1>1, <2>1, <2>2 DEF Protocol, Agreed
<1>10. Offset'
  BY <1>1, <1>2, <1>3, <1>4 DEF Offset, Unanswered, Replied
<1>11. Bounded'
  BY <1>1, <1>2, Places DEF Bounded, TransferAnswered, Silent
<1> QED BY <1>5, <1>6, <1>7, <1>9, <1>10, <1>11

\* A step of the client in a transfer: it goes on, or it waits for the completion reply.
LEMMA MoveStep ==
    ASSUME FtpInv, pc \in {"accept", "move"}, FtpTypes',
           UNCHANGED <<passive, op, ctrl, place, rest, job, inbox, replies, open, stop>>,
           \/ pc' = "complete" /\ asked'
           \/ pc' = "move" /\ asked' = FALSE
           \/ pc' = pc /\ asked' = asked,
           (pc' # "complete" /\ op = "download") =>
               have' + Len(data'[ctrl].pieces) = have + Len(data[ctrl].pieces)
    PROVE  FtpInv'
<1> USE DEF FtpInv
<1>1. \A t \in Sessions : Sound(t)'
  BY DEF Sound
<1>2. Stand'
  BY Places DEF Stand
<1>3. Protocol'
  BY Places DEF Protocol, Agreed, Moving, Replied
<1>4. Offset'
  BY DEF Offset, Unanswered
<1>5. Bounded'
  BY DEF Bounded, TransferAnswered
<1> QED BY <1>1, <1>2, <1>3, <1>4, <1>5

\* The transfer ends for the client: its end of the data connection is closed.
LEMMA EndsTypes ==
    ASSUME FtpTypes, ctrl # 0, NEW ok \in BOOLEAN, Ends(ok),
           UNCHANGED <<passive, op, try, attempt, ctrl, result, dir, place, rest, mode, job>>,
           UNCHANGED <<inbox, replies, open>>
    PROVE  FtpTypes'
<1>1. ctrl \in Sessions
  BY DEF FtpTypes, ClientTypes
<1> DEFINE d == [data[ctrl] EXCEPT !.at = IF data[ctrl].at \in {"open", "ended"} THEN "closed"
                                          ELSE data[ctrl].at]
<1>2. d \in Links
  <2>1. data[ctrl] \in Links
    BY <1>1 DEF FtpTypes, SessionTypes
  <2> QED BY <2>1 DEF Links, Ats
<1>3. data' = [data EXCEPT ![ctrl] = d]
  BY DEF Ends, DataClosed
<1> HIDE DEF d
<1>4. data' \in [Sessions -> Links]
  BY <1>1, <1>2, <1>3 DEF FtpTypes, SessionTypes
<1>5. ClientTypes'
  BY Places DEF FtpTypes, ClientTypes, Ends
<1> QED BY <1>4, <1>5 DEF FtpTypes, SessionTypes, Ends

\* ncl_ftp_client_accept_data, the loops of upload and download, and giving up
LEMMA MoveKeeps == ASSUME FtpInv, Accept \/ SendPiece \/ TakePiece \/ GiveUp PROVE FtpInv'
<1>1. /\ FtpTypes
      /\ UNCHANGED <<passive, op, ctrl, place, rest, mode, job, inbox, replies, open, stop>>
      /\ UNCHANGED <<try, attempt, result, dir>>
      /\ pc \in {"accept", "move"}
  BY DEF FtpInv, Accept, SendPiece, TakePiece, GiveUp, serving, wires
<1>2. /\ ctrl # 0 /\ ctrl \in Sessions /\ data \in [Sessions -> Links]
      /\ data[ctrl] \in Links /\ have \in 0..Total /\ Total \in Nat /\ op \in {"upload", "download"}
  <2>1. ctrl # 0
    BY <1>1 DEF FtpInv, Stand
  <2>2. ctrl \in Sessions
    BY <1>1, <2>1 DEF FtpTypes, ClientTypes
  <2> QED BY <1>1, <2>1, <2>2, TransferAssumption
          DEF FtpTypes, ClientTypes, SessionTypes, Ways, TransferAssumption
<1>3. ASSUME NEW ok \in BOOLEAN, Ends(ok) PROVE FtpInv'
  <2>1. FtpTypes'
    BY <1>1, <1>2, <1>3, EndsTypes
  <2>2. pc' = "complete" /\ asked'
    BY <1>3 DEF Ends
  <2> QED BY <1>1, <2>1, <2>2, MoveStep
<1>4. CASE Accept
  <2>1. /\ UNCHANGED <<have, copy, data>> /\ rc' \in BOOLEAN
        /\ \/ pc' = "complete" /\ asked' = TRUE
           \/ pc' = "move" /\ asked' = FALSE
    BY <1>1, <1>4 DEF Accept, Goto, FtpFails, FtpTypes, ClientTypes
  <2>2. FtpTypes'
    <3>1. ClientTypes'
      BY <1>1, <2>1, Places DEF FtpTypes, ClientTypes
    <3> QED BY <1>1, <2>1, <3>1 DEF FtpTypes, SessionTypes
  <2> QED BY <1>1, <2>1, <2>2, MoveStep
<1>5. CASE SendPiece
  <2>1. CASE /\ have < Total /\ data[ctrl].at = "open"
             /\ data' = [data EXCEPT ![ctrl].pieces = Append(data[ctrl].pieces, have + 1)]
             /\ have' = have + 1
             /\ UNCHANGED <<pc, asked, rc, copy>>
    <3> DEFINE d == [data[ctrl] EXCEPT !.pieces = Append(data[ctrl].pieces, have + 1)]
    <3>1. have + 1 \in Nat /\ have + 1 \in 0..Total
      BY <1>2, <2>1
    <3>2. d \in Links
      <4>1. Append(data[ctrl].pieces, have + 1) \in Seq(Nat)
        BY <1>2, <3>1 DEF Links
      <4> QED BY <1>2, <4>1 DEF Links
    <3>3. data' = [data EXCEPT ![ctrl] = d]
      BY <2>1
    <3> HIDE DEF d
    <3>4. data' \in [Sessions -> Links]
      BY <1>2, <3>2, <3>3
    <3>5. ClientTypes'
      BY <1>1, <2>1, <3>1 DEF FtpTypes, ClientTypes
    <3>6. FtpTypes'
      BY <1>1, <2>1, <3>4, <3>5 DEF FtpTypes, SessionTypes
    <3>7. op # "download"
      BY <1>5 DEF SendPiece
    <3> QED BY <1>1, <2>1, <3>6, <3>7, MoveStep
  <2>2. CASE Ends(FALSE) \/ Ends(TRUE)
    BY <1>3, <2>2
  <2> QED BY <1>5, <2>1, <2>2 DEF SendPiece
<1>6. CASE TakePiece
  <2>1. CASE /\ data[ctrl].pieces # <<>>
             /\ data' = [data EXCEPT ![ctrl].pieces = Tail(data[ctrl].pieces)]
             /\ copy' = [copy EXCEPT !["download"] =
                           Append(copy["download"], Head(data[ctrl].pieces))]
             /\ have' = have + 1
             /\ UNCHANGED <<pc, asked, rc>>
    <3> DEFINE d == [data[ctrl] EXCEPT !.pieces = Tail(data[ctrl].pieces)]
    <3>1. /\ Head(data[ctrl].pieces) \in Nat /\ Tail(data[ctrl].pieces) \in Seq(Nat)
          /\ Len(Tail(data[ctrl].pieces)) = Len(data[ctrl].pieces) - 1
          /\ Len(data[ctrl].pieces) \in Nat /\ Len(data[ctrl].pieces) >= 1
      BY <1>2, <2>1 DEF Links
    <3>2. d \in Links /\ d.pieces = Tail(data[ctrl].pieces)
      BY <1>2, <3>1 DEF Links
    <3>3. data' = [data EXCEPT ![ctrl] = d]
      BY <2>1
    <3> HIDE DEF d
    <3>4. data' \in [Sessions -> Links] /\ data'[ctrl].pieces = Tail(data[ctrl].pieces)
      BY <1>2, <3>2, <3>3
    <3>5. have + Len(data[ctrl].pieces) <= Total
      <4>1. TransferAnswered /\ op = "download"
        BY <1>1, <1>6 DEF TransferAnswered, TakePiece
      <4> QED BY <4>1 DEF FtpInv, Bounded
    <3>6. /\ have + 1 \in 0..Total
          /\ have + 1 + Len(Tail(data[ctrl].pieces)) = have + Len(data[ctrl].pieces)
      <4> DEFINE n == Len(data[ctrl].pieces)  m == Len(Tail(data[ctrl].pieces))
      <4>1. n \in Nat /\ n >= 1 /\ m = n - 1 /\ have \in Nat /\ Total \in Nat /\ have + n <= Total
        BY <1>2, <3>1, <3>5
      <4> HIDE DEF n, m
      <4>2. have + 1 \in 0..Total /\ have + 1 + m = have + n
        BY <4>1
      <4> QED BY <4>2 DEF n, m
    <3>7. ClientTypes'
      BY <1>1, <2>1, <3>6 DEF FtpTypes, ClientTypes
    <3>8. copy' \in [Ways -> Seq(Nat)]
      <4>1. copy \in [Ways -> Seq(Nat)] /\ copy["download"] \in Seq(Nat)
        BY <1>1 DEF FtpTypes, SessionTypes, Ways
      <4>2. Append(copy["download"], Head(data[ctrl].pieces)) \in Seq(Nat)
        BY <3>1, <4>1
      <4> QED BY <2>1, <4>1, <4>2
    <3>9. FtpTypes'
      BY <1>1, <2>1, <3>4, <3>7, <3>8 DEF FtpTypes, SessionTypes
    <3> QED BY <1>1, <2>1, <3>4, <3>6, <3>9, MoveStep
  <2>2. CASE \E ok \in BOOLEAN : Ends(ok)
    BY <1>3, <2>2
  <2>3. (data[ctrl].at = "ended") \in BOOLEAN
    OBVIOUS
  <2> QED BY <1>6, <2>1, <2>2, <2>3 DEF TakePiece
<1>7. CASE GiveUp
  BY <1>3, <1>7 DEF GiveUp
<1> QED BY <1>4, <1>5, <1>6, <1>7

-----------------------------------------------------------------------------
(* Transfers: the client once a command is answered                        *)

\* What every answer leaves alone, and what it may do to the wire.
AnswerFrame ==
    /\ UNCHANGED <<passive, op, tool_calls, dir, place, rest, mode, job, inbox, stop>>
    /\ replies' \in [Sessions -> Seq(Replies)]
    /\ \A t \in Sessions \ {ctrl} : replies'[t] = replies[t]

\* Where an answer other than that to a transfer command leads.
Leads ==
    /\ open' \in [Sessions -> BOOLEAN] /\ \A t \in Sessions : open'[t] => open[t]
    /\ ctrl' \in {0, ctrl}
    /\ ctrl' = 0 => pc' \in {"idle", "connect"}
    /\ pc' = "connect" => ctrl' = 0
    /\ pc' \in Asking \cup {"idle", "connect", "complete"}
    /\ asked' = (pc' = "complete")
    /\ pc' \in {"cwd", "mkd", "again", "size", "landed"} => op = "upload"
    /\ pc' \in {"total", "rest"} => op = "download"
    /\ op = "download" /\ open[ctrl] /\ pc' \in {"mode", "verb"} => rest[ctrl] >= have'
    /\ open[ctrl] /\ pc' = "verb" => data'[ctrl].pieces = <<>>

\* What an answer may change, by its type.
NewTypes ==
    /\ rc' \in BOOLEAN /\ result' \in {"none", "ok", "failed"} /\ have' \in 0..Total
    /\ try' \in 1..Tries /\ attempt' \in 1..Attempts
    /\ copy' \in [Ways -> Seq(Nat)] /\ data' \in [Sessions -> Links]

\* Such an answer keeps the invariant if nothing is owed after it.
LEMMA LeadsKeeps ==
    ASSUME FtpInv, pc \in (Asking \ {"verb"}) \cup {"complete"}, AnswerFrame, Leads, NewTypes,
           open[ctrl] /\ ctrl' = ctrl => Silent(ctrl)'
    PROVE  FtpInv'
<1>1. ctrl # 0 /\ ctrl \in Sessions /\ place[ctrl] # "none"
  <2>1. ctrl # 0
    BY Places DEF FtpInv, Stand
  <2> QED BY <2>1 DEF FtpInv, Stand, FtpTypes, ClientTypes
<1>2. FtpTypes'
  <2>1. asked' \in BOOLEAN /\ pc' \in Asking \cup {"idle", "connect", "accept", "move", "complete"}
        /\ ctrl' \in {0} \cup Sessions /\ open' \in [Sessions -> BOOLEAN]
    BY <1>1 DEF Leads
  <2>2. ClientTypes'
    BY <2>1 DEF FtpInv, FtpTypes, ClientTypes, NewTypes, AnswerFrame
  <2>3. SessionTypes'
    BY <2>1 DEF FtpInv, FtpTypes, SessionTypes, NewTypes, AnswerFrame
  <2> QED BY <2>2, <2>3 DEF FtpTypes
<1>3. \A t \in Sessions : Sound(t)'
  <2>1. \A t \in Sessions : Sound(t)
    BY DEF FtpInv
  <2> QED BY <1>1, <2>1 DEF Sound, AnswerFrame, Leads
<1>4. Stand'
  BY <1>1 DEF Stand, AnswerFrame, Leads
<1>5. CASE ctrl' = 0
  <2>1. Protocol' /\ Offset' /\ Bounded'
    BY <1>5 DEF Protocol, Offset, Bounded, TransferAnswered, Leads
  <2> QED BY <1>2, <1>3, <1>4, <2>1 DEF FtpInv
<1>6. CASE ctrl' = ctrl
  <2>1. open'[ctrl'] => open[ctrl] /\ Silent(ctrl)'
    BY <1>1, <1>6 DEF Leads
  <2>2. Protocol'
    BY <1>6, <2>1, Places DEF Protocol, Agreed, Leads, Silent
  <2>3. Offset'
    BY <1>6, <2>1, Places DEF Offset, Unanswered, Leads, AnswerFrame
  <2>4. Bounded'
    BY Places DEF Bounded, TransferAnswered, Leads
  <2> QED BY <1>2, <1>3, <1>4, <2>2, <2>3, <2>4 DEF FtpInv
<1> QED BY <1>5, <1>6 DEF Leads

\* The head of the loop of ncl_ftp_client_download, as far as the invariant goes.
LEMMA LoopType ==
    ASSUME FtpTypes, DownloadLoop
    PROVE  /\ have' \in 0..Total /\ copy' \in [Ways -> Seq(Nat)]
           /\ pc' \in {"idle", "rest", "mode"} /\ asked' = FALSE
           /\ pc' = "mode" => have' = 0
           /\ result' \in {"none", "ok", "failed"}
<1>1. Len(copy["download"]) \in Nat /\ copy \in [Ways -> Seq(Nat)] /\ Total \in Nat
      /\ result \in {"none", "ok", "failed"}
  BY TransferAssumption DEF FtpTypes, ClientTypes, SessionTypes, Ways, TransferAssumption
<1>2. have' \in 0..Total
  BY <1>1 DEF DownloadLoop
<1>3. copy' \in [Ways -> Seq(Nat)]
  <2>1. copy' = copy \/ copy' = [copy EXCEPT !["download"] = <<>>]
    BY DEF DownloadLoop
  <2>2. <<>> \in Seq(Nat)
    OBVIOUS
  <2> QED BY <1>1, <2>1, <2>2
<1>4. /\ pc' \in {"idle", "rest", "mode"} /\ asked' = FALSE
      /\ pc' = "mode" => ~(have' > 0)
      /\ result' \in {"none", "ok", "failed"}
  BY <1>1 DEF DownloadLoop, Goto, Return
<1> QED BY <1>2, <1>3, <1>4

\* The next attempt of ncl_ftp_client_upload or _download
LEMMA AttemptType ==
    ASSUME FtpTypes, NextAttempt
    PROVE  /\ have' \in 0..Total /\ copy' \in [Ways -> Seq(Nat)] /\ attempt' \in 1..Attempts
           /\ asked' = FALSE /\ result' \in {"none", "ok", "failed"}
           /\ \/ pc' = "check"
              \/ op = "upload" /\ pc' = "size"
              \/ op = "download" /\ pc' \in {"idle", "rest", "mode"}
           /\ pc' = "mode" => have' = 0
<1>1. /\ have \in 0..Total /\ copy \in [Ways -> Seq(Nat)] /\ attempt \in 1..Attempts
      /\ result \in {"none", "ok", "failed"} /\ op \in {"upload", "download"} /\ Attempts \in Nat
  BY TransferAssumption DEF FtpTypes, ClientTypes, SessionTypes, Ways, TransferAssumption
<1>2. CASE pc' = "check" /\ asked' = FALSE /\ UNCHANGED <<attempt, have, copy, result>>
  BY <1>1, <1>2
<1>3. CASE /\ attempt # Attempts /\ attempt' = attempt + 1 /\ op # "download"
           /\ pc' = "size" /\ asked' = FALSE /\ UNCHANGED <<have, copy, result>>
  <2>1. attempt' \in 1..Attempts
    BY <1>1, <1>3
  <2> QED BY <1>1, <1>3, <2>1
<1>4. CASE attempt # Attempts /\ attempt' = attempt + 1 /\ op = "download" /\ DownloadLoop
  <2>1. attempt' \in 1..Attempts
    BY <1>1, <1>4
  <2> QED BY <1>4, <2>1, LoopType
<1> QED BY <1>2, <1>3, <1>4 DEF NextAttempt, Goto

\* The data connection of the client after CloseData
LEMMA ClosedType ==
    ASSUME FtpTypes, ctrl \in Sessions, CloseData
    PROVE  data' \in [Sessions -> Links]
<1>1. data \in [Sessions -> Links]
  BY DEF FtpTypes, SessionTypes
<1>2. NoData \in Links /\ Broken \in Links
  <2>1. <<>> \in Seq(Nat)
    OBVIOUS
  <2> QED BY <2>1 DEF NoData, Broken, Links, Ats
<1>3. \/ data' = [data EXCEPT ![ctrl] = NoData]
      \/ data' = [data EXCEPT ![ctrl] = Broken]
      \/ data' = data
  BY DEF CloseData
<1> QED BY <1>1, <1>2, <1>3

\* The next attempt of the file tool
LEMMA TryType ==
    ASSUME FtpTypes, NEW c \in {0, ctrl}, NextTry(c)
    PROVE  /\ copy' \in [Ways -> Seq(Nat)] /\ try' \in 1..Tries
           /\ asked' = FALSE /\ result' \in {"none", "ok", "failed"}
           /\ pc' = "idle" \/ pc' = (IF c = 0 THEN "connect" ELSE "noop")
<1>1. /\ copy \in [Ways -> Seq(Nat)] /\ try \in 1..Tries /\ Tries \in Nat
      /\ result \in {"none", "ok", "failed"}
  BY TransferAssumption DEF FtpTypes, ClientTypes, SessionTypes, TransferAssumption
<1>2. copy' \in [Ways -> Seq(Nat)]
  <2>1. copy' = copy \/ copy' = [copy EXCEPT !["download"] = <<>>]
    BY DEF NextTry
  <2>2. <<>> \in Seq(Nat)
    OBVIOUS
  <2> QED BY <1>1, <2>1, <2>2
<1>3. /\ try' \in 1..Tries /\ asked' = FALSE /\ result' \in {"none", "ok", "failed"}
      /\ pc' = "idle" \/ pc' = (IF c = 0 THEN "connect" ELSE "noop")
  BY <1>1 DEF NextTry, Goto, Return
<1> QED BY <1>2, <1>3

\* Where the client is when a command is answered
LEMMA AtAnswer ==
    ASSUME FtpInv, pc \in Asking \cup {"complete"}
    PROVE  /\ ctrl # 0 /\ ctrl \in Sessions
           /\ have \in 0..Total /\ 0 \in 0..Total /\ rest[ctrl] \in 0..Total /\ Total \in Nat
           /\ op \in {"upload", "download"} /\ result \in {"none", "ok", "failed"}
           /\ try \in 1..Tries /\ attempt \in 1..Attempts /\ 1 \in 1..Attempts
           /\ rc \in BOOLEAN /\ passive \in BOOLEAN
           /\ copy \in [Ways -> Seq(Nat)] /\ data \in [Sessions -> Links]
           /\ open \in [Sessions -> BOOLEAN]
           /\ [open EXCEPT ![ctrl] = FALSE] \in [Sessions -> BOOLEAN]
           /\ \A t \in Sessions : [open EXCEPT ![ctrl] = FALSE][t] => open[t]
<1>1. ctrl # 0
  BY Places DEF FtpInv, Stand
<1>2. ctrl \in Sessions /\ ClientTypes /\ SessionTypes
  BY <1>1 DEF FtpInv, FtpTypes, ClientTypes
<1>3. open \in [Sessions -> BOOLEAN] /\ rest[ctrl] \in 0..Total
  BY <1>2 DEF SessionTypes
<1>4. /\ [open EXCEPT ![ctrl] = FALSE] \in [Sessions -> BOOLEAN]
      /\ \A t \in Sessions : [open EXCEPT ![ctrl] = FALSE][t] => open[t]
  BY <1>2, <1>3
<1>5. 0 \in 0..Total /\ Total \in Nat /\ 1 \in 1..Attempts
  BY TransferAssumption DEF TransferAssumption
<1> QED BY <1>1, <1>2, <1>3, <1>4, <1>5 DEF ClientTypes, SessionTypes, Ways

\* NOOP, before a call and after one that failed
LEMMA NoopLeads ==
    ASSUME FtpInv, NEW r, Detected(r) \/ Checked(r)
    PROVE  Leads /\ NewTypes /\ pc \in Asking \ {"verb"}
<1>1. pc \in Asking \ {"verb"}
  BY Places DEF Detected, Checked
<1>2. /\ ctrl # 0 /\ ctrl \in Sessions
      /\ have \in 0..Total /\ 0 \in 0..Total
      /\ op \in {"upload", "download"} /\ result \in {"none", "ok", "failed"}
      /\ try \in 1..Tries /\ 1 \in 1..Attempts /\ rc \in BOOLEAN
      /\ copy \in [Ways -> Seq(Nat)] /\ data \in [Sessions -> Links]
      /\ open \in [Sessions -> BOOLEAN]
      /\ [open EXCEPT ![ctrl] = FALSE] \in [Sessions -> BOOLEAN]
      /\ \A t \in Sessions : [open EXCEPT ![ctrl] = FALSE][t] => open[t]
  BY <1>1, AtAnswer
<1>3. CASE Detected(r)
  <2>1. /\ asked' = FALSE /\ attempt' = 1 /\ UNCHANGED <<try, rc, have, result, copy, data>>
        /\ \/ UNCHANGED <<ctrl, open>> /\ pc' = (IF op = "upload" THEN "cwd" ELSE "total")
           \/ ctrl' = 0 /\ open' = [open EXCEPT ![ctrl] = FALSE] /\ pc' = "connect"
    BY <1>3 DEF Detected, Goto
  <2>2. NewTypes
    BY <1>2, <2>1 DEF NewTypes
  <2>3. open' \in [Sessions -> BOOLEAN] /\ \A t \in Sessions : open'[t] => open[t]
    BY <1>2, <2>1
  <2>4. Leads
    BY <1>2, <2>1, <2>3, Places DEF Leads
  <2> QED BY <1>1, <2>2, <2>4
<1>4. CASE Checked(r)
  <2>1. /\ attempt' = 1 /\ rc' = TRUE /\ have' = 0 /\ data' = data
        /\ \/ ctrl' = ctrl /\ open' = open
           \/ ctrl' = 0 /\ open' = [open EXCEPT ![ctrl] = FALSE]
        /\ NextTry(ctrl')
    BY <1>4 DEF Checked
  <2>2. \A c \in {0, ctrl} : NextTry(c) =>
           /\ copy' \in [Ways -> Seq(Nat)] /\ try' \in 1..Tries
           /\ asked' = FALSE /\ result' \in {"none", "ok", "failed"}
           /\ pc' = "idle" \/ pc' = (IF c = 0 THEN "connect" ELSE "noop")
    BY TryType DEF FtpInv
  <2>3. /\ copy' \in [Ways -> Seq(Nat)] /\ try' \in 1..Tries
        /\ asked' = FALSE /\ result' \in {"none", "ok", "failed"}
        /\ pc' = "idle" \/ pc' = (IF ctrl' = 0 THEN "connect" ELSE "noop")
    BY <2>1, <2>2
  <2>4. NewTypes
    BY <1>2, <2>1, <2>3 DEF NewTypes
  <2>5. open' \in [Sessions -> BOOLEAN] /\ \A t \in Sessions : open'[t] => open[t]
    BY <1>2, <2>1
  <2>6. Leads
    BY <1>2, <2>1, <2>3, <2>5, Places DEF Leads
  <2> QED BY <1>1, <2>4, <2>6
<1> QED BY <1>3, <1>4

\* CWD, MKD and SIZE
LEMMA NamesLead ==
    ASSUME FtpInv, NEW r, r.size \in Nat, Directory(r) \/ Sized(r)
    PROVE  Leads /\ NewTypes /\ pc \in Asking \ {"verb"}
<1>1. pc \in Asking \ {"verb"}
  BY Places DEF Directory, Sized
<1>2. /\ ctrl # 0 /\ ctrl \in Sessions
      /\ have \in 0..Total /\ 0 \in 0..Total /\ rest[ctrl] \in 0..Total /\ Total \in Nat
      /\ op \in {"upload", "download"} /\ result \in {"none", "ok", "failed"}
      /\ try \in 1..Tries /\ attempt \in 1..Attempts /\ rc \in BOOLEAN
      /\ copy \in [Ways -> Seq(Nat)] /\ data \in [Sessions -> Links]
      /\ open \in [Sessions -> BOOLEAN]
  BY <1>1, AtAnswer
<1>3. /\ pc \in {"cwd", "mkd", "again", "size", "landed"} => op = "upload"
      /\ pc = "total" => op = "download"
  BY DEF FtpInv, Stand
<1>4. UNCHANGED <<try, ctrl, open, rc, data>>
  BY DEF Directory, Sized
<1>5. open' \in [Sessions -> BOOLEAN] /\ \A t \in Sessions : open'[t] => open[t]
  BY <1>2, <1>4
<1>6. CASE Directory(r)
  <2>1. /\ UNCHANGED <<attempt, have, copy>> /\ asked' = FALSE /\ op = "upload"
        /\ pc' \in {"size", "mkd", "again", "idle"} /\ result' \in {"none", "ok", "failed"}
    BY <1>2, <1>3, <1>6 DEF Directory, Goto, Return
  <2>2. NewTypes
    BY <1>2, <1>4, <2>1 DEF NewTypes
  <2>3. Leads
    BY <1>2, <1>4, <1>5, <2>1, Places DEF Leads
  <2> QED BY <1>1, <2>2, <2>3
<1>7. CASE Sized(r)
  <2>1. /\ have' \in 0..Total /\ copy' \in [Ways -> Seq(Nat)] /\ attempt' \in 1..Attempts
        /\ asked' = FALSE /\ result' \in {"none", "ok", "failed"}
        /\ \/ pc' \in {"check", "idle"}
           \/ op = "upload" /\ pc' \in {"size", "mode"}
           \/ op = "download" /\ pc' \in {"rest", "mode"}
        /\ op = "download" /\ pc' = "mode" => have' = 0
    <3>1. CASE pc = "total" /\ DownloadLoop /\ UNCHANGED attempt
      BY <1>2, <1>3, <3>1, LoopType DEF FtpInv
    <3>2. CASE pc' = "check" /\ asked' = FALSE /\ UNCHANGED <<have, copy, result, attempt>>
      BY <1>2, <3>2
    <3>3. CASE /\ pc = "size"
               /\ have' = IF r.code = 2 /\ r.size <= Total THEN r.size ELSE 0
               /\ IF have' = Total THEN Return("ok") ELSE Goto("mode") /\ UNCHANGED result
               /\ UNCHANGED <<attempt, copy>>
      <4>1. have' \in 0..Total
        BY <1>2, <3>3
      <4> QED BY <1>2, <1>3, <3>3, <4>1 DEF Return, Goto
    <3>4. CASE pc' = "idle" /\ asked' = FALSE /\ result' = "ok" /\ UNCHANGED <<attempt, have, copy>>
      BY <1>2, <3>4
    <3>5. CASE pc = "landed" /\ NextAttempt
      BY <1>3, <3>5, AttemptType DEF FtpInv
    <3> QED BY <1>7, <3>1, <3>2, <3>3, <3>4, <3>5 DEF Sized, Goto, Return
  <2>2. NewTypes
    BY <1>2, <1>4, <2>1 DEF NewTypes
  <2>3. op = "download" /\ pc' \in {"mode", "verb"} => rest[ctrl] >= have'
    BY <1>2, <2>1
  <2>4. Leads
    BY <1>2, <1>4, <1>5, <2>1, <2>3, Places DEF Leads
  <2> QED BY <1>1, <2>2, <2>4
<1> QED BY <1>6, <1>7

\* REST: the copy starts anew unless the server has taken the offset.
LEMMA RestLeads ==
    ASSUME FtpInv, NEW r, Restarts(r), open[ctrl] /\ r.code = 3 => rest[ctrl] = have
    PROVE  Leads /\ NewTypes /\ pc \in Asking \ {"verb"}
<1>1. pc \in Asking \ {"verb"}
  BY Places DEF Restarts
<1>2. /\ ctrl # 0 /\ ctrl \in Sessions
      /\ have \in 0..Total /\ 0 \in 0..Total /\ rest[ctrl] \in 0..Total
      /\ result \in {"none", "ok", "failed"}
      /\ try \in 1..Tries /\ attempt \in 1..Attempts /\ rc \in BOOLEAN
      /\ copy \in [Ways -> Seq(Nat)] /\ data \in [Sessions -> Links]
      /\ open \in [Sessions -> BOOLEAN]
  BY <1>1, AtAnswer
<1>3. /\ have' = IF r.code = 3 THEN have ELSE 0
      /\ copy' = copy \/ copy' = [copy EXCEPT !["download"] = <<>>]
      /\ pc' = "mode" /\ asked' = FALSE
      /\ UNCHANGED <<try, attempt, ctrl, open, rc, result, data>>
  BY DEF Restarts, Goto
<1>4. copy' \in [Ways -> Seq(Nat)]
  <2>1. <<>> \in Seq(Nat)
    OBVIOUS
  <2> QED BY <1>2, <1>3, <2>1
<1>5. NewTypes
  BY <1>2, <1>3, <1>4 DEF NewTypes
<1>6. open[ctrl] => rest[ctrl] >= have'
  BY <1>2, <1>3
<1>7. Leads
  BY <1>2, <1>3, <1>6, Places DEF Leads
<1> QED BY <1>1, <1>5, <1>7

\* PORT or PASV
LEMMA ModeLeads ==
    ASSUME FtpInv, NEW r, Modes(r), open[ctrl] => asked
    PROVE  Leads /\ NewTypes /\ pc \in Asking \ {"verb"}
<1>1. pc \in Asking \ {"verb"}
  BY Places DEF Modes
<1>2. /\ ctrl # 0 /\ ctrl \in Sessions
      /\ have \in 0..Total /\ result \in {"none", "ok", "failed"}
      /\ try \in 1..Tries /\ attempt \in 1..Attempts /\ rc \in BOOLEAN
      /\ copy \in [Ways -> Seq(Nat)] /\ data \in [Sessions -> Links]
      /\ open \in [Sessions -> BOOLEAN]
  BY <1>1, AtAnswer
<1>3. pc = "mode" /\ UNCHANGED <<try, attempt, ctrl, open, have, result, copy>>
  BY DEF Modes
<1>4. open[ctrl] => /\ data[ctrl].pieces = <<>>
                    /\ op = "download" => rest[ctrl] >= have
  BY <1>2, <1>3 DEF FtpInv, Offset
<1>5. CASE /\ rc' = TRUE /\ pc' = "verb" /\ asked' = FALSE
           /\ data' = IF passive THEN [data EXCEPT ![ctrl].at = "open"] ELSE data
  <2>1. data' \in [Sessions -> Links] /\ data'[ctrl].pieces = data[ctrl].pieces
    <3> DEFINE d == [data[ctrl] EXCEPT !.at = "open"]
    <3>1. d \in Links /\ d.pieces = data[ctrl].pieces
      <4>1. data[ctrl] \in Links
        BY <1>2
      <4> QED BY <4>1 DEF Links, Ats
    <3>2. data' = data \/ data' = [data EXCEPT ![ctrl] = d]
      BY <1>5
    <3> HIDE DEF d
    <3> QED BY <1>2, <3>1, <3>2
  <2>2. NewTypes
    BY <1>2, <1>3, <1>5, <2>1 DEF NewTypes
  <2>3. Leads
    BY <1>2, <1>3, <1>4, <1>5, <2>1, Places DEF Leads
  <2> QED BY <1>1, <2>2, <2>3
<1>6. CASE FtpFails /\ (data' = data \/ CloseData)
  <2>1. rc' = FALSE /\ pc' = "complete" /\ asked' = TRUE
    BY <1>6 DEF FtpFails
  <2>2. data' \in [Sessions -> Links]
    BY <1>2, <1>6, ClosedType DEF FtpInv
  <2>3. NewTypes
    BY <1>2, <1>3, <2>1, <2>2 DEF NewTypes
  <2>4. Leads
    BY <1>2, <1>3, <2>1, Places DEF Leads
  <2> QED BY <1>1, <2>3, <2>4
<1> QED BY <1>5, <1>6 DEF Modes, Goto

\* The end of a transfer
LEMMA CompletionLeads ==
    ASSUME FtpInv, NEW r, Completes(r)
    PROVE  Leads /\ NewTypes
<1>1. pc = "complete"
  BY DEF Completes
<1>2. /\ ctrl # 0 /\ ctrl \in Sessions
      /\ have \in 0..Total /\ 0 \in 0..Total /\ rest[ctrl] \in 0..Total
      /\ op \in {"upload", "download"} /\ result \in {"none", "ok", "failed"}
      /\ try \in 1..Tries /\ attempt \in 1..Attempts /\ rc \in BOOLEAN
      /\ copy \in [Ways -> Seq(Nat)] /\ open \in [Sessions -> BOOLEAN]
  BY <1>1, AtAnswer
<1>3. rc' \in BOOLEAN /\ UNCHANGED <<try, ctrl, open>> /\ data' \in [Sessions -> Links]
  <2>1. CloseData /\ rc' = (rc /\ r.code = 2) /\ UNCHANGED <<try, ctrl, open>>
    BY DEF Completes
  <2>2. data' \in [Sessions -> Links]
    BY <1>2, <2>1, ClosedType DEF FtpInv
  <2> QED BY <2>1, <2>2
<1>4. /\ have' \in 0..Total /\ copy' \in [Ways -> Seq(Nat)] /\ attempt' \in 1..Attempts
      /\ asked' = FALSE /\ result' \in {"none", "ok", "failed"}
      /\ \/ pc' \in {"check", "idle"}
         \/ op = "upload" /\ pc' \in {"size", "landed"}
         \/ op = "download" /\ pc' \in {"rest", "mode"}
      /\ pc' = "mode" => have' = 0
  <2>1. CASE NextAttempt
    BY <2>1, AttemptType DEF FtpInv
  <2>2. CASE /\ IF op = "upload" THEN Goto("landed") /\ UNCHANGED result ELSE Return("ok")
             /\ UNCHANGED <<attempt, have, copy>>
    BY <1>2, <2>2 DEF Goto, Return
  <2> QED BY <2>1, <2>2 DEF Completes
<1>5. NewTypes
  BY <1>2, <1>3, <1>4 DEF NewTypes
<1>6. pc' \in {"mode", "verb"} => rest[ctrl] >= have'
  BY <1>2, <1>4
<1>7. Leads
  BY <1>2, <1>3, <1>4, <1>6, Places DEF Leads
<1> QED BY <1>5, <1>7

\* The answer to RETR, STOR or APPE
LEMMA TransfersKeeps ==
    ASSUME FtpInv, NEW r, Transfers(r), AnswerFrame,
           r.code = 1 => /\ asked /\ replies[ctrl] # <<>>
                         /\ open[ctrl] => Moving(ctrl)' \/ Replied(ctrl)',
           r.code # 1 => ~open[ctrl]
    PROVE  FtpInv'
<1>1. /\ pc = "verb" /\ UNCHANGED <<try, attempt, ctrl, open, have, result, copy>>
      /\ \/ r.code = 1 /\ pc' \in {"move", "accept"} /\ asked' = FALSE /\ rc' = rc
         \/ r.code # 1 /\ pc' = "complete" /\ asked' = TRUE /\ rc' = FALSE
  BY DEF Transfers, Goto, FtpFails
<1>2. ctrl # 0 /\ ctrl \in Sessions
  BY <1>1, Places, AtAnswer
<1>3. /\ data' \in [Sessions -> Links] /\ data'[ctrl].pieces = data[ctrl].pieces
      /\ \A t \in Sessions \ {ctrl} : data'[t] = data[t]
  <2> DEFINE d == [data[ctrl] EXCEPT !.at = "leaked"]
  <2>1. data \in [Sessions -> Links]
    BY DEF FtpInv, FtpTypes, SessionTypes
  <2>2. d \in Links /\ d.pieces = data[ctrl].pieces
    <3>1. data[ctrl] \in Links
      BY <1>2, <2>1
    <3> QED BY <3>1 DEF Links, Ats
  <2>3. data' = data \/ data' = [data EXCEPT ![ctrl] = d]
    BY DEF Transfers
  <2> HIDE DEF d
  <2> QED BY <1>2, <2>1, <2>2, <2>3
<1>4. FtpTypes'
  <2>1. ClientTypes'
    BY <1>1, Places DEF FtpInv, FtpTypes, ClientTypes, AnswerFrame
  <2>2. SessionTypes'
    BY <1>1, <1>3 DEF FtpInv, FtpTypes, SessionTypes, AnswerFrame
  <2> QED BY <2>1, <2>2 DEF FtpTypes
<1>5. \A t \in Sessions : Sound(t)'
  <2>1. (\A t \in Sessions : Sound(t)) /\ place[ctrl] # "none"
    BY <1>2 DEF FtpInv, Stand
  <2> QED BY <1>1, <1>2, <2>1 DEF Sound, AnswerFrame
<1>6. Stand'
  BY <1>1, <1>2, Places DEF FtpInv, Stand, AnswerFrame
<1>7. Protocol'
  BY <1>1, <1>2, Places DEF Protocol, Agreed
<1>8. Offset'
  BY <1>1 DEF Offset, Unanswered
<1>9. Bounded'
  BY <1>1, <1>3 DEF FtpInv, Bounded, TransferAnswered, AnswerFrame
<1> QED BY <1>4, <1>5, <1>6, <1>7, <1>8, <1>9 DEF FtpInv

\* An answer, or none when the control connection is gone
LEMMA AnsweredKeeps ==
    ASSUME FtpInv, NEW r, r.size \in Nat, OnReply(r), AnswerFrame,
           open[ctrl] => /\ asked
                         /\ pc # "verb" /\ ctrl' = ctrl => Silent(ctrl)'
                         /\ pc = "rest" => rest[ctrl] = have
                         /\ pc = "verb" => r.code = 1 /\ (Moving(ctrl)' \/ Replied(ctrl)'),
           r.code = 1 => asked /\ replies[ctrl] # <<>>
    PROVE  FtpInv'
<1>1. CASE Transfers(r)
  <2>1. pc = "verb"
    BY <1>1 DEF Transfers
  <2> QED BY <1>1, <2>1, TransfersKeeps
<1>2. CASE Detected(r) \/ Checked(r)
  <2>1. Leads /\ NewTypes /\ pc \in Asking \ {"verb"}
    BY <1>2, NoopLeads
  <2> QED BY <2>1, LeadsKeeps
<1>3. CASE Directory(r) \/ Sized(r)
  <2>1. Leads /\ NewTypes /\ pc \in Asking \ {"verb"}
    BY <1>3, NamesLead
  <2> QED BY <2>1, LeadsKeeps
<1>4. CASE Restarts(r)
  <2>1. pc = "rest"
    BY <1>4 DEF Restarts
  <2>2. Leads /\ NewTypes /\ pc \in Asking \ {"verb"}
    BY <1>4, <2>1, RestLeads
  <2> QED BY <2>2, LeadsKeeps
<1>5. CASE Modes(r)
  <2>1. Leads /\ NewTypes /\ pc \in Asking \ {"verb"}
    BY <1>5, ModeLeads
  <2> QED BY <2>1, LeadsKeeps
<1>6. CASE Completes(r)
  <2>1. Leads /\ NewTypes /\ pc = "complete"
    BY <1>6, CompletionLeads DEF Completes
  <2> QED BY <2>1, LeadsKeeps
<1> QED BY <1>1, <1>2, <1>3, <1>4, <1>5, <1>6 DEF OnReply

\* ncl_ftp_client_command without a connection, and a wait that has no answer
LEMMA NoAnswerKeeps == ASSUME FtpInv, CannotAsk \/ Misses PROVE FtpInv'
<1>1. /\ OnReply(NoReply) /\ NoReply.code = 0 /\ NoReply.size \in Nat
      /\ UNCHANGED <<passive, op, tool_calls, dir, place, rest, mode, job, inbox, stop, replies>>
  BY DEF CannotAsk, Misses, serving, NoReply
<1>2. AnswerFrame
  BY <1>1 DEF AnswerFrame, FtpInv, FtpTypes, SessionTypes
<1>3. ctrl # 0 /\ (pc \in Asking \/ (asked /\ pc = "complete"))
  <2>1. pc \in Asking \/ (asked /\ pc \in Asking \cup {"complete"})
    BY DEF CannotAsk, Misses, FtpInv, Stand
  <2> QED BY <2>1, Places DEF FtpInv, Stand
<1>4. open[ctrl] => asked /\ ~Owed(ctrl)
  BY <1>3 DEF CannotAsk, Misses, Connected
<1>5. open[ctrl] => pc = "complete" /\ Silent(ctrl)
  <2>1. ~Owed(ctrl) => ~Pending(ctrl) /\ ~Replied(ctrl) /\ ~Moving(ctrl) /\ ~Begun(ctrl)
    <3>1. Len(<<>>) # 1
      OBVIOUS
    <3> QED BY <3>1 DEF Owed, Pending, Replied, Moving, Begun
  <2> QED BY <1>3, <1>4, <2>1 DEF FtpInv, Protocol, Agreed
<1>6. open[ctrl] => Silent(ctrl)'
  <2>1. OnReply(NoReply) /\ pc = "complete" => ctrl' = ctrl
    BY Places DEF OnReply, Detected, Directory, Sized, Restarts, Modes, Transfers, Completes,
                  Checked
  <2> QED BY <1>1, <1>5, <2>1 DEF Silent
<1> QED BY <1>1, <1>2, <1>4, <1>5, <1>6, AnsweredKeeps

\* ncl_ftp_client_expect
LEMMA TakeKeeps == ASSUME FtpInv, Take PROVE FtpInv'
<1> DEFINE r == Head(replies[ctrl])
<1>1. /\ asked /\ replies[ctrl] # <<>> /\ OnReply(r)
      /\ replies' = [replies EXCEPT ![ctrl] = Tail(replies[ctrl])]
      /\ UNCHANGED <<passive, op, tool_calls, dir, place, rest, mode, job, inbox, stop>>
  BY DEF Take, serving
<1>2. pc \in Asking \cup {"complete"} /\ ctrl \in Sessions /\ ctrl # 0
  <2>1. pc \in Asking \cup {"complete"}
    BY <1>1 DEF FtpInv, Stand
  <2> QED BY <2>1, AtAnswer
<1>3. replies \in [Sessions -> Seq(Replies)] /\ replies[ctrl] \in Seq(Replies)
  BY <1>2 DEF FtpInv, FtpTypes, SessionTypes
<1>4. /\ r \in Replies /\ Tail(replies[ctrl]) \in Seq(Replies)
      /\ Len(replies[ctrl]) = 1 => Tail(replies[ctrl]) = <<>>
      /\ Len(replies[ctrl]) = 2 => Len(Tail(replies[ctrl])) = 1
  <2>1. \A q \in Seq(Replies) : q # <<>> =>
           /\ Head(q) \in Replies /\ Tail(q) \in Seq(Replies) /\ Len(Tail(q)) = Len(q) - 1
    OBVIOUS
  <2>2. \A q \in Seq(Replies) : Len(q) = 0 => q = <<>>
    BY EmptySeq
  <2>3. /\ r \in Replies /\ Tail(replies[ctrl]) \in Seq(Replies)
        /\ Len(Tail(replies[ctrl])) = Len(replies[ctrl]) - 1 /\ Len(replies[ctrl]) \in Nat
    BY <1>1, <1>3, <2>1
  <2>4. Len(Tail(replies[ctrl])) = 0 => Tail(replies[ctrl]) = <<>>
    BY <2>2, <2>3
  <2> HIDE DEF r
  <2>5. /\ Len(replies[ctrl]) = 1 => Len(Tail(replies[ctrl])) = 0
        /\ Len(replies[ctrl]) = 2 => Len(Tail(replies[ctrl])) = 1
    BY <2>3
  <2> QED BY <2>3, <2>4, <2>5
<1>5. r.size \in Nat
  BY <1>4 DEF Replies
<1>6. /\ replies' \in [Sessions -> Seq(Replies)] /\ replies'[ctrl] = Tail(replies[ctrl])
      /\ \A t \in Sessions \ {ctrl} : replies'[t] = replies[t]
  BY <1>1, <1>2, <1>3, <1>4
<1>7. AnswerFrame
  BY <1>1, <1>6 DEF AnswerFrame
<1> HIDE DEF r
<1>8. open[ctrl] => \/ pc # "verb" /\ Replied(ctrl)
                    \/ pc = "verb" /\ Begun(ctrl)
  <2>1. ~Silent(ctrl) /\ ~Pending(ctrl) /\ ~Moving(ctrl)
    BY <1>1 DEF Silent, Pending, Moving
  <2> QED BY <1>1, <1>2, <2>1 DEF FtpInv, Protocol, Agreed
<1>9. open[ctrl] /\ pc = "rest" => rest[ctrl] = have
  <2>1. pc = "rest" => op = "download"
    BY DEF FtpInv, Stand
  <2> QED BY <1>1, <1>2, <1>8, <2>1 DEF FtpInv, Offset
<1>10. \A s \in Sessions : s = ctrl /\ open[s] =>
          /\ pc # "verb" => inbox'[s] = <<>> /\ replies'[s] = <<>> /\ place'[s] = "command"
          /\ pc = "verb" =>
                /\ r.code = 1 /\ inbox'[s] = <<>>
                /\ \/ replies'[s] = <<>> /\ place'[s] \in {"dial", "move"}
                   \/ Len(replies'[s]) = 1 /\ place'[s] = "command"
  BY <1>1, <1>4, <1>6, <1>8 DEF Replied, Begun, r
<1>11. open[ctrl] /\ pc # "verb" /\ ctrl' = ctrl => Silent(ctrl)'
  BY <1>2, <1>10 DEF Silent
<1>12. pc = "verb" => ctrl' = ctrl
  BY <1>1, Places DEF OnReply, Detected, Directory, Sized, Restarts, Modes, Transfers,
                      Completes, Checked
<1>13. open[ctrl] /\ pc = "verb" => r.code = 1 /\ (Moving(ctrl)' \/ Replied(ctrl)')
  BY <1>2, <1>10, <1>12 DEF Moving, Replied
<1> QED BY <1>1, <1>5, <1>7, <1>9, <1>11, <1>13, AnsweredKeeps DEF r

-----------------------------------------------------------------------------
(* Transfers: the theorem                                                  *)

\* No client, no session
LEMMA FtpInvInit == FtpInit => FtpInv
<1> SUFFICES ASSUME FtpInit PROVE FtpInv
  OBVIOUS
<1>1. /\ pc = "idle" /\ asked = FALSE /\ ctrl = 0
      /\ place = [s \in Sessions |-> "none"] /\ open = [s \in Sessions |-> FALSE]
      /\ inbox = [s \in Sessions |-> <<>>] /\ replies = [s \in Sessions |-> <<>>]
  BY DEF FtpInit
<1>2. ClientTypes
  <2>1. 1 \in 1..Tries /\ 1 \in 1..Attempts /\ 0 \in 0..Total
    BY TransferAssumption DEF TransferAssumption
  <2> QED BY <2>1 DEF FtpInit, ClientTypes, Ways
<1>3. SessionTypes
  <2>1. NoData \in Links /\ NoJob \in Jobs /\ 0 \in 0..Total
    <3>1. <<>> \in Seq(Nat) /\ 0 \in 0..Total
      BY TransferAssumption DEF TransferAssumption
    <3> QED BY <3>1 DEF NoData, Links, Ats, NoJob, Jobs
  <2>2. copy \in [Ways -> Seq(Nat)]
    <3>1. PICK f \in {SubSeq(Whole, 1, n) : n \in 0..Total} \cup {Stale} :
             copy = [upload |-> f, download |-> f]
      BY DEF FtpInit
    <3>2. Stale \in Seq(Nat)
      <4>1. Total + 1 \in Nat
        BY TransferAssumption DEF TransferAssumption
      <4>2. Stale \in [1..Total + 1 -> Nat]
        BY DEF Stale
      <4> QED BY <4>1, <4>2
    <3>3. Whole \in Seq(Nat) /\ Len(Whole) = Total
      <4>1. Total \in Nat /\ Whole \in [1..Total -> Nat]
        BY TransferAssumption DEF Whole, TransferAssumption
      <4> QED BY <4>1
    <3>4. \A n \in 0..Total : SubSeq(Whole, 1, n) \in Seq(Nat)
      <4>1. \A n \in 0..Total : \A i \in 1..n : Whole[i] \in Nat
        BY TransferAssumption DEF Whole, TransferAssumption
      <4> QED BY <3>3, <4>1, SubSeqProperties, TransferAssumption DEF TransferAssumption
    <3>5. f \in Seq(Nat)
      BY <3>1, <3>2, <3>4
    <3> QED BY <3>1, <3>5 DEF Ways
  <2>3. <<>> \in Seq(Commands) /\ <<>> \in Seq(Replies)
    OBVIOUS
  <2> QED BY <2>1, <2>2, <2>3 DEF FtpInit, SessionTypes
<1>4. \A s \in Sessions : Sound(s)
  BY <1>1 DEF Sound
<1>5. Stand /\ Protocol /\ Offset /\ Bounded
  BY <1>1, Places DEF Stand, Protocol, Offset, Bounded, TransferAnswered
<1> QED BY <1>2, <1>3, <1>4, <1>5 DEF FtpInv, FtpTypes

\* A step that changes nothing, the idle client's among them
LEMMA FtpInvStays == ASSUME FtpInv, UNCHANGED ftp_vars PROVE FtpInv'
<1>1. /\ UNCHANGED <<passive, pc, asked, op, try, attempt, ctrl, rc, have, result, tool_calls>>
      /\ UNCHANGED <<copy, dir, place, rest, mode, job, open, inbox, replies, data, stop>>
  BY DEF ftp_vars, client, serving, wires
<1>2. ClientCommand' = ClientCommand
  BY <1>1 DEF ClientCommand
<1>3. FtpTypes' /\ \A s \in Sessions : Sound(s)'
  BY <1>1 DEF FtpInv, FtpTypes, ClientTypes, SessionTypes, Sound
<1>4. Stand' /\ Protocol' /\ Offset' /\ Bounded'
  BY <1>1, <1>2 DEF FtpInv, Stand, Protocol, Agreed, Silent, Pending, Replied, Moving, Begun,
                    Offset, Unanswered, Bounded, TransferAnswered
<1> QED BY <1>3, <1>4 DEF FtpInv

\* The invariant gives InStep: before a command is sent the session is Silent.
LEMMA FtpInvInStep == FtpInv => InStep
<1> SUFFICES ASSUME FtpInv PROVE InStep
  OBVIOUS
<1>1. FtpTypeOK
  BY TypesOK DEF FtpInv
<1>2. pc \in Asking /\ ~asked /\ Connected => Silent(ctrl)
  BY DEF FtpInv, Protocol, Agreed, Connected
<1> QED BY <1>1, <1>2 DEF InStep, Silent, Owed

\* Every step keeps the invariant.
LEMMA FtpInvKeeps == ASSUME FtpInv, [FtpNext]_ftp_vars PROVE FtpInv'
<1>1. CASE Begin
  BY <1>1, BeginKeeps
<1>2. CASE ClientStep
  BY <1>2, ConnectKeeps, AskKeeps, NoAnswerKeeps, TakeKeeps, MoveKeeps DEF ClientStep
<1>3. CASE GiveUp
  BY <1>3, MoveKeeps
<1>4. CASE Stop \/ \E s \in Sessions : LoseControl(s)
  BY <1>4, StopKeeps
<1>5. CASE \E s \in Sessions : SessionStep(s)
  BY <1>5, SessionKeeps
<1>6. CASE \E s \in Sessions : BreakData(s)
  BY <1>6, BreakKeeps
<1>7. CASE UNCHANGED ftp_vars
  BY <1>7, FtpInvStays
<1> QED BY <1>1, <1>2, <1>3, <1>4, <1>5, <1>6, <1>7 DEF FtpNext, ToolRests

\* Whatever the faults and wherever a transfer was given up, the client sends a command
\* only when the session of its connection waits for one and owes it no reply.
THEOREM CommandsInStep == FtpSpec => []InStep
<1>1. FtpInit => FtpInv
  BY FtpInvInit
<1>2. FtpInv /\ [FtpNext]_ftp_vars => FtpInv'
  BY FtpInvKeeps
<1>3. FtpInv => InStep
  BY FtpInvInStep
<1> QED BY <1>1, <1>2, <1>3, PTL DEF FtpSpec

-----------------------------------------------------------------------------
(* Transfers: what the copies hold                                         *)

\* No transfer began elsewhere than was asked, no session was made beside one that stores.
Clean == ~strayed /\ ~crossed

\* A copy is the beginning of the file; pieces go on where n of them end.
Prefix(f)     == Len(f) <= Total /\ \A i \in 1..Len(f) : f[i] = i
Follows(q, n) == n + Len(q) <= Total /\ \A j \in 1..Len(q) : q[j] = n + j

Up   == copy["upload"]
Down == copy["download"]
Bare == Len(Up) = 0 \/ Len(Up) > Total

\* A copy is the beginning of the file, or too long.
Sane == (Prefix(Up) \/ Len(Up) > Total) /\ (Prefix(Down) \/ Len(Down) > Total)

\* A session that stores has the beginning of the file, and what comes goes on from there.
Writing(s) == place[s] \in {"dial", "move"} /\ job[s].verb # "RETR"
Stores(s)  == Writing(s) =>
    /\ Prefix(Up) /\ Len(Up) = job[s].written
    /\ Follows(data[s].pieces, job[s].written)

\* So will one that has yet to read the command.
Ordered(s) == inbox[s] # <<>> =>
    /\ place[s] = "command" /\ Len(inbox[s]) = 1
    /\ Head(inbox[s]).verb = "STOR" => Head(inbox[s]).arg = 0 /\ Bare /\ data[s].pieces = <<>>
    /\ Head(inbox[s]).verb = "APPE" => /\ Head(inbox[s]).arg = Len(Up) /\ Prefix(Up)
                                    /\ data[s].pieces = <<>>

Jobbing(s) == place[s] \in {"dial", "move"} => job[s].verb \in {"RETR", "STOR", "APPE"}

\* Only the session of the client's connection stores, or else the last one did.
Alone ==
    /\ \A r, s \in Sessions : Storing(r) /\ Storing(s) => r = s
    /\ ctrl # 0 => \A r \in Sessions : Storing(r) => r = ctrl

\* An answer to a command is the last thing that its session did.
Told ==
    asked /\ pc \in Asking \ {"verb"} /\ replies[ctrl] # <<>> =>
        /\ Len(replies[ctrl]) = 1 /\ inbox[ctrl] = <<>> /\ place[ctrl] \in {"command", "ended"}
Measured ==
    op = "upload" /\ asked /\ pc \in {"size", "landed"} /\ replies[ctrl] # <<>> =>
        /\ Head(replies[ctrl]).code = 2 => Head(replies[ctrl]).size = Len(Up)
        /\ Head(replies[ctrl]).code # 2 => Len(Up) = 0

\* What an upload goes on from is what there is.
Resumes ==
    op = "upload" /\ (pc = "mode" \/ (pc = "verb" /\ ~asked)) =>
        /\ have > 0 => ~Storing(ctrl) /\ Len(Up) = have /\ Prefix(Up)
        /\ have = 0 /\ open[ctrl] => Bare
Uploads ==
    op = "upload" =>
        /\ TransferAnswered \/ (pc = "complete" /\ rc) \/ pc = "landed" => Prefix(Up)
        /\ TransferAnswered /\ Writing(ctrl) /\ data[ctrl].at \in {"listening", "open"} =>
              have = job[ctrl].written + Len(data[ctrl].pieces)
        /\ pc = "idle" /\ result = "ok" =>
              ctrl # 0 /\ ~Storing(ctrl) /\ Prefix(Up) /\ Len(Up) = Total

\* What a download takes goes on from what it has.
Downloads ==
    op = "download" =>
        /\ pc \in {"rest", "mode", "verb", "accept", "move", "complete"} =>
              Prefix(Down) /\ Len(Down) = have
        /\ TransferAnswered => Follows(data[ctrl].pieces, have)
        /\ TransferAnswered /\ place[ctrl] \in {"dial", "move"}
                            /\ data[ctrl].at \in {"listening", "open", "leaked"} =>
              job[ctrl].next = have + Len(data[ctrl].pieces)
        /\ pc = "idle" /\ result = "ok" => Prefix(Down) /\ Len(Down) = Total

\* The server's part, what the client goes by, and the invariant of the copies.
Held == Sane /\ Alone /\ \A s \in Sessions : Stores(s) /\ Ordered(s)
Kept == Measured /\ Resumes /\ Uploads /\ Downloads
Copies == (\A s \in Sessions : Jobbing(s)) /\ Told /\ (Clean => Held /\ Kept)

-----------------------------------------------------------------------------
(* Transfers: pieces                                                       *)

\* The empty copy, and no piece under way
LEMMA NoPieces ==
    /\ Len(<<>>) = 0 /\ Prefix(<<>>)
    /\ \A n \in 0..Total : Follows(<<>>, n)
<1>1. Len(<<>>) = 0 /\ Total \in Nat
  BY TransferAssumption DEF TransferAssumption
<1>2. Prefix(<<>>)
  BY <1>1 DEF Prefix
<1>3. \A n \in 0..Total : Follows(<<>>, n)
  BY <1>1 DEF Follows
<1> QED BY <1>1, <1>2, <1>3

\* The next piece at the end of a copy
LEMMA PrefixGrows ==
    ASSUME NEW f \in Seq(Nat), Prefix(f), Len(f) < Total
    PROVE  /\ Prefix(Append(f, Len(f) + 1)) /\ Len(Append(f, Len(f) + 1)) = Len(f) + 1
           /\ Prefix(Put(f, Len(f), Len(f) + 1)) /\ Len(Put(f, Len(f), Len(f) + 1)) = Len(f) + 1
<1> DEFINE n == Len(f)
<1>1. n \in Nat /\ Total \in Nat /\ n < Total /\ n + 1 \in Nat /\ n + 1 <= Total
  BY TransferAssumption DEF TransferAssumption
<1>2. \A i \in 1..n : f[i] = i
  BY DEF Prefix
<1>3. /\ Len(Append(f, n + 1)) = n + 1
      /\ \A i \in 1..n + 1 : Append(f, n + 1)[i] = i
  <2>1. /\ Len(Append(f, n + 1)) = n + 1
        /\ \A i \in 1..n + 1 : Append(f, n + 1)[i] = IF i <= n THEN f[i] ELSE n + 1
    BY <1>1
  <2> QED BY <1>1, <1>2, <2>1
<1>4. /\ Len(Put(f, n, n + 1)) = n + 1
      /\ \A i \in 1..n + 1 : Put(f, n, n + 1)[i] = i
  <2>1. Put(f, n, n + 1) = [i \in 1..n + 1 |-> IF i = n + 1 THEN n + 1
                                               ELSE IF i <= n THEN f[i] ELSE 0]
    BY <1>1 DEF Put
  <2>2. Len(Put(f, n, n + 1)) = n + 1
    BY <1>1, <2>1
  <2>3. \A i \in 1..n + 1 : Put(f, n, n + 1)[i] = i
    BY <1>1, <1>2, <2>1
  <2> QED BY <2>2, <2>3
<1> HIDE DEF n
<1>5. Prefix(Append(f, n + 1)) /\ Prefix(Put(f, n, n + 1))
  BY <1>1, <1>3, <1>4 DEF Prefix
<1> QED BY <1>3, <1>4, <1>5 DEF n

\* A copy that is cut where it ends, and one that is complete
LEMMA CutAtEnd == ASSUME NEW f \in Seq(Nat) PROVE Truncate(f, Len(f)) = f
<1>1. f = [i \in 1..Len(f) |-> f[i]]
  OBVIOUS
<1>2. Truncate(f, Len(f)) = [i \in 1..Len(f) |-> f[i]]
  BY DEF Truncate
<1> QED BY <1>1, <1>2

\* A copy that is the beginning of the file, and as long, is the file.
LEMMA CompleteIsWhole ==
    ASSUME NEW f \in Seq(Nat), Prefix(f), Len(f) = Total
    PROVE  f = Whole
<1>1. f = [i \in 1..Len(f) |-> f[i]]
  OBVIOUS
<1> QED BY <1>1 DEF Prefix, Whole

\* The first of the pieces under way
LEMMA PieceTaken ==
    ASSUME NEW q \in Seq(Nat), NEW n \in Nat, Follows(q, n), q # <<>>
    PROVE  /\ Head(q) = n + 1 /\ n < Total /\ Follows(Tail(q), n + 1)
           /\ Len(Tail(q)) = Len(q) - 1 /\ Len(q) \in Nat /\ Tail(q) \in Seq(Nat)
<1>1. /\ Len(q) \in Nat /\ Len(q) >= 1 /\ Head(q) = q[1] /\ Len(Tail(q)) = Len(q) - 1
      /\ Tail(q) \in Seq(Nat) /\ \A j \in 1..Len(q) - 1 : Tail(q)[j] = q[j + 1]
  OBVIOUS
<1>2. Total \in Nat /\ n + Len(q) <= Total /\ \A j \in 1..Len(q) : q[j] = n + j
  BY TransferAssumption DEF TransferAssumption, Follows
<1> DEFINE m == Len(q)
<1>3. m \in Nat /\ m >= 1 /\ n + m <= Total
  BY <1>1, <1>2
<1> HIDE DEF m
<1>4. n < Total /\ (n + 1) + (m - 1) <= Total /\ 1 \in 1..m
  BY <1>2, <1>3
<1>5. \A j \in 1..m - 1 : j + 1 \in 1..m /\ n + (j + 1) = (n + 1) + j
  BY <1>3
<1>6. \A j \in 1..Len(Tail(q)) : Tail(q)[j] = (n + 1) + j
  BY <1>1, <1>2, <1>5 DEF m
<1>7. Follows(Tail(q), n + 1)
  BY <1>1, <1>4, <1>6 DEF Follows, m
<1> QED BY <1>1, <1>2, <1>4, <1>7 DEF m

\* One more piece behind those under way
LEMMA PieceSent ==
    ASSUME NEW q \in Seq(Nat), NEW n \in Nat, Follows(q, n), n + Len(q) < Total
    PROVE  /\ Follows(Append(q, n + Len(q) + 1), n)
           /\ Len(Append(q, n + Len(q) + 1)) = Len(q) + 1 /\ Len(q) \in Nat
<1> DEFINE m == Len(q)
<1>1. m \in Nat /\ Total \in Nat /\ n + m < Total /\ \A j \in 1..m : q[j] = n + j
  BY TransferAssumption DEF TransferAssumption, Follows
<1>2. /\ Len(Append(q, n + m + 1)) = m + 1
      /\ \A j \in 1..m + 1 : Append(q, n + m + 1)[j] = IF j <= m THEN q[j] ELSE n + m + 1
  <2>1. n + m + 1 \in Nat
    BY <1>1
  <2> QED BY <2>1
<1> HIDE DEF m
<1>3. \A j \in 1..m + 1 : Append(q, n + m + 1)[j] = n + j
  BY <1>1, <1>2
<1>4. n + (m + 1) <= Total
  BY <1>1
<1> QED BY <1>1, <1>2, <1>3, <1>4 DEF Follows, m

-----------------------------------------------------------------------------
(* Transfers: what a step of a session does to the copies                  *)

\* The types that the copies need.
LEMMA CopyTypes ==
    ASSUME FtpTypes
    PROVE  /\ copy \in [Ways -> Seq(Nat)] /\ Up \in Seq(Nat) /\ Down \in Seq(Nat)
           /\ Len(Up) \in Nat /\ Len(Down) \in Nat /\ have \in 0..Total
           /\ Total \in Nat /\ Total > 0 /\ 0 \in 0..Total
           /\ \A s \in Sessions :
                 /\ data[s] \in Links /\ data[s].pieces \in Seq(Nat) /\ Len(data[s].pieces) \in Nat
                 /\ job[s] \in Jobs /\ job[s].written \in Nat /\ job[s].next \in 0..Total
                 /\ inbox[s] \in Seq(Commands) /\ replies[s] \in Seq(Replies)
                 /\ rest[s] \in 0..Total
<1>1. copy \in [Ways -> Seq(Nat)] /\ Up \in Seq(Nat) /\ Down \in Seq(Nat)
  BY DEF FtpTypes, SessionTypes, Ways, Up, Down
<1>2. Len(Up) \in Nat /\ Len(Down) \in Nat /\ have \in 0..Total /\ Total \in Nat /\ Total > 0
  BY <1>1, TransferAssumption DEF FtpTypes, ClientTypes, TransferAssumption
<1>3. \A s \in Sessions :
         /\ data[s] \in Links /\ data[s].pieces \in Seq(Nat) /\ Len(data[s].pieces) \in Nat
         /\ job[s] \in Jobs /\ job[s].written \in Nat /\ job[s].next \in 0..Total
  <2>1. \A s \in Sessions : data[s] \in Links /\ job[s] \in Jobs
    BY DEF FtpTypes, SessionTypes
  <2>2. \A d \in Links : d.pieces \in Seq(Nat) /\ Len(d.pieces) \in Nat
    BY DEF Links
  <2>3. \A j \in Jobs : j.written \in Nat /\ j.next \in 0..Total
    BY DEF Jobs
  <2> QED BY <2>1, <2>2, <2>3
<1>4. \A s \in Sessions :
         inbox[s] \in Seq(Commands) /\ replies[s] \in Seq(Replies) /\ rest[s] \in 0..Total
  BY DEF FtpTypes, SessionTypes
<1> QED BY <1>1, <1>2, <1>3, <1>4

\* What the other sessions have, and what of the client, a step of session s leaves alone;
\* it writes to the copy of an upload only if it stores, and in order.
Apart(s) ==
    /\ UNCHANGED client /\ UNCHANGED <<open, stop>>
    /\ \A t \in Sessions \ {s} :
          UNCHANGED <<place[t], inbox[t], replies[t], rest[t], data[t], job[t]>>
    /\ inbox'[s] = <<>>
    /\ Down' = Down /\ copy' \in [Ways -> Seq(Nat)]
InOrder(s) ==
    /\ Storing(s)' => Storing(s)
    /\ Up' # Up => Storing(s)
    /\ Len(Up) <= Total => Len(Up') >= Len(Up)
    /\ Prefix(Up)' \/ Len(Up') > Total
    /\ Prefix(Up) => Prefix(Up)'
    /\ Stores(s)'

\* A session that writes is one that stores.
LEMMA WriterStores ==
    ASSUME NEW s \in Sessions, Jobbing(s)
    PROVE  /\ Writing(s) <=> place[s] \in {"dial", "move"} /\ job[s].verb \in {"STOR", "APPE"}
           /\ Writing(s) => Storing(s)
  BY DEF Jobbing, Writing, Storing

\* Without a command in its inbox it stores only what it writes.
LEMMA StorerWrites ==
    ASSUME NEW s \in Sessions, inbox[s] = <<>>, Storing(s)
    PROVE  Writing(s)
<1>1. DOMAIN <<>> = {}
  OBVIOUS
<1> QED BY <1>1 DEF Storing, Writing

\* The end of a transfer: the file is cut where it ends.
LEMMA DoneSame ==
    ASSUME FtpTypes, NEW s \in Sessions, NEW code, Done(s, code), place[s] \in {"dial", "move"},
           Stores(s)
    PROVE  copy' = copy
<1>1. CASE job[s].verb = "RETR"
  BY <1>1 DEF Done
<1>2. CASE job[s].verb # "RETR"
  <2>1. Len(Up) = job[s].written /\ Up \in Seq(Nat) /\ copy \in [Ways -> Seq(Nat)]
    BY <1>2, CopyTypes DEF Stores, Writing
  <2>2. Truncate(copy["upload"], job[s].written) = copy["upload"]
    BY <2>1, CutAtEnd DEF Up
  <2>3. copy' = [copy EXCEPT !["upload"] = Truncate(copy["upload"], job[s].written)]
    BY <1>2 DEF Done
  <2> QED BY <2>1, <2>2, <2>3
<1> QED BY <1>1, <1>2

\* A step of a transfer that leaves the copy as it is
LEMMA SameCopy ==
    ASSUME NEW s \in Sessions, Jobbing(s), inbox'[s] = <<>>, copy' = copy, Sane,
           FtpTypes, Writing(s)' => Writing(s) /\ Stores(s)'
    PROVE  InOrder(s)
<1>1. Up' = Up /\ Len(Up) \in Nat
  BY CopyTypes DEF Up
<1>2. Prefix(Up)' = Prefix(Up)
  BY <1>1 DEF Prefix
<1>3. Prefix(Up)' \/ Len(Up') > Total
  BY <1>1, <1>2 DEF Sane
<1>4. Stores(s)'
  BY DEF Stores
<1>5. Storing(s)' => Storing(s)
  <2>1. Writing(s) => Storing(s)
    BY WriterStores
  <2>2. Storing(s)' => Writing(s)'
    <3>1. DOMAIN <<>> = {}
      OBVIOUS
    <3> QED BY <3>1 DEF Storing, Writing
  <2> QED BY <2>1, <2>2
<1> QED BY <1>1, <1>2, <1>3, <1>4, <1>5 DEF InOrder

\* The inbox of a session in a transfer is empty.
LEMMA NoOrder ==
    ASSUME NEW s \in Sessions, Ordered(s), place[s] \in {"dial", "move"}
    PROVE  inbox[s] = <<>>
  BY DEF Ordered

\* session_open_data
LEMMA DialCopies ==
    ASSUME FtpInv, FtpInv', NEW s \in Sessions, Dial(s), Jobbing(s), Stores(s), Ordered(s), Sane
    PROVE  Apart(s) /\ InOrder(s)
<1>1. /\ place[s] = "dial"
      /\ UNCHANGED client /\ UNCHANGED <<rest, open, inbox, stop>>
  BY DEF Dial
<1>2. inbox'[s] = <<>> /\ FtpTypes
  BY <1>1, NoOrder DEF FtpInv
<1>3. /\ place \in [Sessions -> {"none", "command", "dial", "move", "ended"}]
      /\ job \in [Sessions -> Jobs] /\ data \in [Sessions -> Links]
      /\ replies \in [Sessions -> Seq(Replies)] /\ copy \in [Ways -> Seq(Nat)]
  BY <1>2 DEF FtpTypes, SessionTypes
<1>4. /\ data'[s].pieces = data[s].pieces
      /\ \A t \in Sessions \ {s} : data'[t] = data[t]
  <2>1. data' = data \/ \E at : data' = [data EXCEPT ![s].at = at]
    BY DEF Dial
  <2>2. ASSUME NEW at, data' = [data EXCEPT ![s].at = at]
        PROVE  /\ data'[s].pieces = data[s].pieces
               /\ \A t \in Sessions \ {s} : data'[t] = data[t]
    <3> DEFINE d == [data[s] EXCEPT !.at = at]
    <3>1. data[s] \in Links
      BY <1>3
    <3>2. d.pieces = data[s].pieces
      BY <3>1 DEF Links
    <3>3. data' = [data EXCEPT ![s] = d]
      BY <2>2
    <3> HIDE DEF d
    <3> QED BY <1>3, <3>2, <3>3
  <2> QED BY <2>1, <2>2
<1>5. CASE place' = [place EXCEPT ![s] = "move"] /\ UNCHANGED <<replies, copy, job>>
  <2>1. Apart(s)
    BY <1>1, <1>2, <1>3, <1>4, <1>5 DEF Apart, Down
  <2>2. Writing(s)' => Writing(s)
    BY <1>1, <1>3, <1>5 DEF Writing
  <2>3. Writing(s) => Stores(s)'
    <3>1. Up' = Up /\ job'[s] = job[s]
      BY <1>5 DEF Up
    <3> QED BY <1>4, <3>1 DEF Stores, Prefix, Follows
  <2> QED BY <1>2, <1>5, <2>1, <2>2, <2>3, SameCopy
<1>6. CASE Done(s, 4)
  <2>1. copy' = copy
    BY <1>1, <1>2, <1>6, DoneSame
  <2>2. /\ place'[s] = "command"
        /\ \A t \in Sessions \ {s} : UNCHANGED <<place[t], job[t], replies[t]>>
    BY <1>2, <1>3, <1>6, DoneType
  <2>3. Apart(s)
    BY <1>1, <1>2, <1>3, <1>4, <2>1, <2>2 DEF Apart, Down
  <2>4. ~Writing(s)'
    BY <2>2 DEF Writing
  <2> QED BY <1>2, <2>1, <2>3, <2>4, SameCopy
<1> QED BY <1>5, <1>6 DEF Dial

\* session_send_file_range, and the end of session_handle_retr
LEMMA SendCopies ==
    ASSUME FtpInv, FtpInv', NEW s \in Sessions, Send(s), Jobbing(s), Stores(s), Ordered(s), Sane
    PROVE  Apart(s) /\ InOrder(s)
<1>1. /\ place[s] = "move" /\ job[s].verb = "RETR"
      /\ UNCHANGED client /\ UNCHANGED <<open, inbox, stop>>
  BY DEF Send
<1>2. inbox'[s] = <<>> /\ FtpTypes
  BY <1>1, NoOrder DEF FtpInv
<1>3. /\ place \in [Sessions -> {"none", "command", "dial", "move", "ended"}]
      /\ job \in [Sessions -> Jobs] /\ data \in [Sessions -> Links]
      /\ replies \in [Sessions -> Seq(Replies)] /\ copy \in [Ways -> Seq(Nat)]
      /\ rest \in [Sessions -> 0..Total]
  BY <1>2 DEF FtpTypes, SessionTypes
<1>4. \A t \in Sessions \ {s} : data'[t] = data[t] /\ rest'[t] = rest[t]
  <2>1. \A t \in Sessions \ {s} : data'[t] = data[t]
    BY <1>3 DEF Send
  <2>2. \A t \in Sessions \ {s} : rest'[t] = rest[t]
    BY <1>3 DEF Send
  <2> QED BY <2>1, <2>2
<1>5. CASE job' = [job EXCEPT ![s].next = job[s].next + 1] /\ UNCHANGED <<replies, place, copy>>
  <2>1. job'[s].verb = "RETR" /\ \A t \in Sessions \ {s} : job'[t] = job[t]
    <3> DEFINE j == [job[s] EXCEPT !.next = job[s].next + 1]
    <3>1. job[s] \in Jobs
      BY <1>3
    <3>2. j.verb = "RETR"
      BY <1>1, <3>1 DEF Jobs
    <3>3. job' = [job EXCEPT ![s] = j]
      BY <1>5
    <3> HIDE DEF j
    <3> QED BY <1>3, <3>2, <3>3
  <2>2. Apart(s)
    BY <1>1, <1>2, <1>3, <1>4, <1>5, <2>1 DEF Apart, Down
  <2>3. ~Writing(s)'
    BY <2>1 DEF Writing
  <2> QED BY <1>2, <1>5, <2>2, <2>3, SameCopy
<1>6. ASSUME NEW code, Done(s, code), code \in 0..5 PROVE Apart(s) /\ InOrder(s)
  <2>1. copy' = copy
    BY <1>1, <1>2, <1>6, DoneSame
  <2>2. /\ place'[s] = "command"
        /\ \A t \in Sessions \ {s} : UNCHANGED <<place[t], job[t], replies[t]>>
    BY <1>2, <1>3, <1>6, DoneType
  <2>3. Apart(s)
    BY <1>1, <1>2, <1>3, <1>4, <2>1, <2>2 DEF Apart, Down
  <2>4. ~Writing(s)'
    BY <2>2 DEF Writing
  <2> QED BY <1>2, <2>1, <2>3, <2>4, SameCopy
<1> QED BY <1>5, <1>6 DEF Send

\* The loop of session_thread ends.
LEMMA LeavesCopies ==
    ASSUME FtpInv, NEW s \in Sessions, Leaves(s), Jobbing(s), Sane
    PROVE  Apart(s) /\ InOrder(s)
<1>1. /\ place' = [place EXCEPT ![s] = "ended"] /\ rest' = [rest EXCEPT ![s] = 0]
      /\ inbox' = [inbox EXCEPT ![s] = <<>>]
      /\ UNCHANGED client /\ UNCHANGED <<open, replies, data, stop, job, copy>>
  BY DEF Leaves
<1>2. FtpTypes
  BY DEF FtpInv
<1>3. /\ place'[s] = "ended" /\ inbox'[s] = <<>> /\ copy \in [Ways -> Seq(Nat)]
      /\ \A t \in Sessions \ {s} : UNCHANGED <<place[t], rest[t], inbox[t]>>
  BY <1>1, <1>2 DEF FtpTypes, SessionTypes
<1>4. Apart(s)
  BY <1>1, <1>3 DEF Apart, Down
<1>5. ~Writing(s)'
  BY <1>3 DEF Writing
<1> QED BY <1>1, <1>2, <1>3, <1>4, <1>5, SameCopy

\* The loop of session_store_file
LEMMA ReceiveCopies ==
    ASSUME FtpInv, FtpInv', NEW s \in Sessions, Receive(s),
           Jobbing(s), Stores(s), Ordered(s), Sane
    PROVE  Apart(s) /\ InOrder(s)
<1>1. /\ place[s] = "move" /\ job[s].verb # "RETR"
      /\ UNCHANGED client /\ UNCHANGED <<rest, open, inbox, stop>>
  BY DEF Receive
<1>2. inbox'[s] = <<>> /\ FtpTypes
  BY <1>1, NoOrder DEF FtpInv
<1>3. /\ place \in [Sessions -> {"none", "command", "dial", "move", "ended"}]
      /\ job \in [Sessions -> Jobs] /\ data \in [Sessions -> Links]
      /\ replies \in [Sessions -> Seq(Replies)] /\ copy \in [Ways -> Seq(Nat)]
  BY <1>2 DEF FtpTypes, SessionTypes
<1>4. /\ Writing(s) /\ Storing(s)
      /\ Prefix(Up) /\ Len(Up) = job[s].written /\ Follows(data[s].pieces, job[s].written)
  BY <1>1, WriterStores DEF Stores, Writing
<1>5. CASE /\ data[s].pieces # <<>>
           /\ copy' = [copy EXCEPT !["upload"] = Put(Up, Len(Up), Head(data[s].pieces))]
           /\ job' = [job EXCEPT ![s].written = job[s].written + 1]
           /\ data' = [data EXCEPT ![s].pieces = Tail(data[s].pieces)]
           /\ UNCHANGED <<replies, place>>
  <2>1. /\ Up \in Seq(Nat) /\ Len(Up) \in Nat /\ data[s].pieces \in Seq(Nat)
        /\ job[s].written \in Nat
    BY <1>2, CopyTypes
  <2>2. /\ Head(data[s].pieces) = Len(Up) + 1 /\ Len(Up) < Total
        /\ Follows(Tail(data[s].pieces), Len(Up) + 1)
    BY <1>4, <1>5, <2>1, PieceTaken
  <2>3. Up' = Put(Up, Len(Up), Len(Up) + 1)
    BY <1>3, <1>5, <2>2 DEF Up, Ways
  <2>4. Prefix(Up') /\ Len(Up') = Len(Up) + 1
    BY <1>4, <2>1, <2>2, <2>3, PrefixGrows
  <2>5. Prefix(Up)' = Prefix(Up')
    BY DEF Prefix
  <2>6. /\ job'[s].written = Len(Up) + 1 /\ job'[s].verb = job[s].verb
        /\ \A t \in Sessions \ {s} : job'[t] = job[t]
    <3> DEFINE j == [job[s] EXCEPT !.written = job[s].written + 1]
    <3>1. job[s] \in Jobs
      BY <1>3
    <3>2. j.verb = job[s].verb /\ j.written = Len(Up) + 1
      BY <1>4, <3>1 DEF Jobs
    <3>3. job' = [job EXCEPT ![s] = j]
      BY <1>5
    <3> HIDE DEF j
    <3> QED BY <1>3, <3>2, <3>3
  <2>7. /\ data'[s].pieces = Tail(data[s].pieces)
        /\ \A t \in Sessions \ {s} : data'[t] = data[t]
    <3> DEFINE d == [data[s] EXCEPT !.pieces = Tail(data[s].pieces)]
    <3>1. data[s] \in Links
      BY <1>3
    <3>2. d.pieces = Tail(data[s].pieces)
      BY <3>1 DEF Links
    <3>3. data' = [data EXCEPT ![s] = d]
      BY <1>5
    <3> HIDE DEF d
    <3> QED BY <1>3, <3>2, <3>3
  <2>8. Down' = Down /\ copy' \in [Ways -> Seq(Nat)]
    BY <1>3, <1>5 DEF Down, Ways, FtpInv, FtpTypes, SessionTypes
  <2>9. Apart(s)
    BY <1>1, <1>2, <1>3, <1>5, <2>6, <2>7, <2>8 DEF Apart
  <2>10. Stores(s)'
    <3>1. Follows(data'[s].pieces, job'[s].written)
      BY <2>2, <2>6, <2>7
    <3>2. Follows(data[s].pieces, job[s].written)' = Follows(data'[s].pieces, job'[s].written)
      BY DEF Follows
    <3> QED BY <2>4, <2>5, <2>6, <3>1, <3>2 DEF Stores
  <2>11. Len(Up') >= Len(Up)
    BY <2>1, <2>4
  <2> QED BY <1>4, <2>4, <2>5, <2>9, <2>10, <2>11 DEF InOrder
<1>6. ASSUME NEW code, Done(s, code), code \in 0..5, data' = data PROVE Apart(s) /\ InOrder(s)
  <2>1. copy' = copy
    BY <1>1, <1>2, <1>6, DoneSame
  <2>2. /\ place'[s] = "command"
        /\ \A t \in Sessions \ {s} : UNCHANGED <<place[t], job[t], replies[t]>>
    BY <1>2, <1>3, <1>6, DoneType
  <2>3. Apart(s)
    BY <1>1, <1>2, <1>3, <1>6, <2>1, <2>2 DEF Apart, Down
  <2>4. ~Writing(s)'
    BY <2>2 DEF Writing
  <2> QED BY <1>2, <2>1, <2>3, <2>4, SameCopy
<1>7. CASE /\ Done(s, IF data[s].at = "closed" THEN 2 ELSE 5)
           /\ UNCHANGED data
  <2>1. (IF data[s].at = "closed" THEN 2 ELSE 5) \in 0..5
    OBVIOUS
  <2> QED BY <1>6, <1>7, <2>1
<1>8. (IF job[s].verb = "APPE" THEN Len(copy["upload"]) ELSE job[s].written) = Len(Up)
  BY <1>4 DEF Up
<1> QED BY <1>5, <1>7, <1>8 DEF Receive, Up

\* session_dispatch: a session that starts a transfer, or answers at once
LEMMA CommandCopies ==
    ASSUME FtpInv, FtpInv', NEW s \in Sessions, Command(s), Clean',
           Jobbing(s), Stores(s), Ordered(s), Sane
    PROVE  Apart(s) /\ InOrder(s)
<1> DEFINE c == Head(inbox[s])
<1>1. /\ place[s] = "command" /\ inbox[s] # <<>>
      /\ inbox' = [inbox EXCEPT ![s] = Tail(inbox[s])]
      /\ UNCHANGED client /\ UNCHANGED <<open, data, stop>>
  BY DEF Command
<1>2. FtpTypes /\ Len(inbox[s]) = 1
  BY <1>1 DEF FtpInv, Ordered
<1>3. /\ place \in [Sessions -> {"none", "command", "dial", "move", "ended"}]
      /\ job \in [Sessions -> Jobs] /\ inbox \in [Sessions -> Seq(Commands)]
      /\ replies \in [Sessions -> Seq(Replies)] /\ copy \in [Ways -> Seq(Nat)]
      /\ rest \in [Sessions -> 0..Total]
  BY <1>2 DEF FtpTypes, SessionTypes
<1>4. inbox'[s] = <<>> /\ \A t \in Sessions \ {s} : inbox'[t] = inbox[t]
  <2>1. \A q \in Seq(Commands) : Len(q) = 1 => Tail(q) \in Seq(Commands) /\ Len(Tail(q)) = 0
    OBVIOUS
  <2>2. Tail(inbox[s]) = <<>>
    BY <1>2, <1>3, <2>1, EmptySeq
  <2> QED BY <1>1, <1>3, <2>2
<1>5. /\ Len(Up) \in Nat /\ Up \in Seq(Nat) /\ Total \in Nat /\ rest[s] \in 0..Total
      /\ copy' \in [Ways -> Seq(Nat)]
  <2>1. copy' \in [Ways -> Seq(Nat)]
    BY DEF FtpInv, FtpTypes, SessionTypes
  <2> QED BY <1>2, <2>1, CopyTypes
<1>6. CASE Answers(s, c)
  <2>1. UNCHANGED <<place, job, copy>>
    BY <1>6 DEF Answers
  <2>2. \A t \in Sessions \ {s} : replies'[t] = replies[t] /\ rest'[t] = rest[t]
    <3>1. \A t \in Sessions \ {s} : rest'[t] = rest[t]
      BY <1>3, <1>6 DEF Answers
    <3>2. \E code, size : SessionReply(s, code, size)
      BY <1>6 DEF Answers
    <3>3. \A t \in Sessions \ {s} : replies'[t] = replies[t]
      BY <1>3, <3>2 DEF SessionReply
    <3> QED BY <3>1, <3>3
  <2>3. Apart(s)
    BY <1>1, <1>3, <1>4, <2>1, <2>2 DEF Apart, Down
  <2>4. ~Writing(s)'
    BY <1>1, <2>1 DEF Writing
  <2> QED BY <1>2, <1>4, <2>1, <2>3, <2>4, SameCopy
<1>7. CASE Begins(s, c) /\ c.verb \in {"RETR", "STOR", "APPE"}
  <2>1. /\ job' = [job EXCEPT ![s] = OpenFile(s, c)]
        /\ place' = [place EXCEPT ![s] = "dial"]
        /\ rest' = IF c.verb = "RETR" THEN rest ELSE [rest EXCEPT ![s] = 0]
        /\ copy' = IF c.verb = "STOR" /\ rest[s] = 0 THEN [copy EXCEPT !["upload"] = <<>>]
                                                     ELSE copy
        /\ strayed' = (strayed \/ (c.verb # "APPE" /\ rest[s] # c.arg))
        /\ SessionReply(s, 1, 0)
    BY <1>7 DEF Begins
  <2>2. /\ job'[s] = OpenFile(s, c) /\ place'[s] = "dial"
        /\ \A t \in Sessions \ {s} :
              UNCHANGED <<place[t], job[t], rest[t], replies[t]>>
    <3>1. \A t \in Sessions \ {s} : replies'[t] = replies[t]
      BY <1>3, <2>1 DEF SessionReply
    <3>2. \A t \in Sessions \ {s} : rest'[t] = rest[t]
      BY <1>3, <2>1
    <3> QED BY <1>3, <2>1, <3>1, <3>2
  <2>3. Down' = Down
    BY <1>3, <2>1 DEF Down, Ways
  <2>4. Apart(s)
    BY <1>1, <1>4, <1>5, <2>2, <2>3 DEF Apart
  <2>5. c.verb \in {"STOR", "APPE"} => Storing(s)
    <3>1. 1 \in DOMAIN inbox[s] /\ inbox[s][1] = c
      BY <1>2, <1>3
    <3> HIDE DEF c
    <3> QED BY <1>1, <3>1 DEF Storing
  <2>6. c.verb # "APPE" => rest[s] = c.arg
    BY <2>1 DEF Clean
  <2> HIDE DEF c
  <2>7. CASE c.verb = "RETR"
    <3>1. copy' = copy /\ ~Writing(s)'
      BY <2>1, <2>2, <2>7 DEF Writing, OpenFile
    <3> QED BY <1>2, <1>4, <2>4, <3>1, SameCopy
  <2>8. CASE c.verb = "STOR"
    <3>1. c.arg = 0 /\ Bare /\ data[s].pieces = <<>>
      BY <1>1, <2>8 DEF Ordered, c
    <3>2. Up' = <<>> /\ OpenFile(s, c).written = 0
      BY <1>3, <2>1, <2>6, <2>8, <3>1 DEF Up, OpenFile, Ways
    <3>3. Len(Up') = 0 /\ Prefix(Up') /\ Follows(<<>>, 0)
      BY <1>5, <3>2, NoPieces
    <3>4. Prefix(Up)' = Prefix(Up')
      BY DEF Prefix
    <3>5. Len(Up) <= Total => Len(Up') >= Len(Up)
      BY <1>5, <3>1, <3>3 DEF Bare
    <3>6. Follows(data[s].pieces, job[s].written)'
      <4>1. data'[s].pieces = <<>> /\ job'[s].written = 0
        BY <1>1, <2>2, <3>1, <3>2
      <4> QED BY <3>3, <4>1 DEF Follows
    <3>7. Stores(s)'
      BY <2>2, <3>2, <3>3, <3>4, <3>6 DEF Stores
    <3>8. InOrder(s)
      BY <2>5, <2>8, <3>3, <3>4, <3>5, <3>7 DEF InOrder
    <3> QED BY <2>4, <3>8
  <2>9. CASE c.verb = "APPE"
    <3>1. c.arg = Len(Up) /\ Prefix(Up) /\ data[s].pieces = <<>>
      BY <1>1, <2>9 DEF Ordered, c
    <3>2. Up' = Up /\ OpenFile(s, c).written = Len(Up)
      BY <2>1, <2>9 DEF Up, OpenFile
    <3>3. Prefix(Up)' /\ Follows(<<>>, Len(Up))
      BY <1>5, <3>1, <3>2, NoPieces DEF Prefix
    <3>4. Follows(data[s].pieces, job[s].written)'
      <4>1. data'[s].pieces = <<>> /\ job'[s].written = Len(Up)
        BY <1>1, <2>2, <3>1, <3>2
      <4> QED BY <3>3, <4>1 DEF Follows
    <3>5. Stores(s)'
      BY <2>2, <3>2, <3>3, <3>4 DEF Stores
    <3>6. InOrder(s)
      BY <1>5, <2>5, <2>9, <3>2, <3>3, <3>5 DEF InOrder
    <3> QED BY <2>4, <3>6
  <2> QED BY <1>7, <2>7, <2>8, <2>9
<1> QED BY <1>6, <1>7 DEF Command

\* What every step of a session does, and does not do, to what others go by
LEMMA SessionCopies ==
    ASSUME FtpInv, FtpInv', NEW s \in Sessions, SessionStep(s), Clean', Held, Jobbing(s)
    PROVE  Apart(s) /\ InOrder(s)
<1>1. Stores(s) /\ Ordered(s) /\ Sane
  BY DEF Held
<1> QED BY <1>1, CommandCopies, DialCopies, ReceiveCopies, SendCopies, LeavesCopies
        DEF SessionStep

\* So the server keeps its part.
LEMMA SessionHolds ==
    ASSUME FtpInv, FtpInv', NEW s \in Sessions, Apart(s), InOrder(s), Held,
           \A t \in Sessions : Jobbing(t)
    PROVE  Held'
<1>1. \A t \in Sessions \ {s} : Storing(t)' = Storing(t)
  BY DEF Storing, Apart
<1>2. Alone'
  <2>1. ctrl' = ctrl
    BY DEF Apart, client
  <2>2. \A t \in Sessions : Storing(t)' => Storing(t)
    BY <1>1 DEF InOrder
  <2> QED BY <2>1, <2>2 DEF Alone, Held
<1>3. Sane'
  <2>1. Prefix(Down)' = Prefix(Down)
    BY DEF Prefix, Apart
  <2> QED BY <2>1 DEF Sane, Held, InOrder, Apart
<1>4. \A t \in Sessions \ {s} : Stores(t)' /\ Ordered(t)'
  <2> TAKE t \in Sessions \ {s}
  <2>1. UNCHANGED <<place[t], inbox[t], replies[t], rest[t], data[t], job[t]>>
    BY DEF Apart
  <2>2. Stores(t) /\ Ordered(t) /\ Jobbing(t)
    BY DEF Held
  <2>3. CASE Up' = Up
    <3>1. Prefix(Up)' = Prefix(Up) /\ Bare' = Bare
      BY <2>3 DEF Prefix, Bare
    <3>2. Follows(data[t].pieces, job[t].written)' = Follows(data[t].pieces, job[t].written)
      BY <2>1 DEF Follows
    <3>3. Stores(t)'
      BY <2>1, <2>2, <2>3, <3>1, <3>2 DEF Stores, Writing
    <3>4. Ordered(t)'
      BY <2>1, <2>2, <2>3, <3>1 DEF Ordered
    <3> QED BY <3>3, <3>4
  <2>4. CASE Up' # Up
    <3>1. ~Storing(t)
      BY <2>4 DEF InOrder, Held, Alone
    <3>2. Stores(t)'
      BY <2>1, <2>2, <3>1, WriterStores DEF Stores, Writing
    <3>3. inbox[t] # <<>> => Head(inbox[t]).verb \notin {"STOR", "APPE"}
      <4> SUFFICES ASSUME inbox[t] # <<>> PROVE Head(inbox[t]).verb \notin {"STOR", "APPE"}
        OBVIOUS
      <4>1. inbox[t] \in Seq(Commands)
        BY DEF FtpInv, FtpTypes, SessionTypes
      <4>2. 1 \in DOMAIN inbox[t] /\ Head(inbox[t]) = inbox[t][1] /\ place[t] = "command"
        BY <2>2, <4>1 DEF Ordered
      <4> QED BY <3>1, <4>2 DEF Storing
    <3>4. Ordered(t)'
      BY <2>1, <2>2, <3>3 DEF Ordered
    <3> QED BY <3>2, <3>4
  <2> QED BY <2>3, <2>4
<1>5. Stores(s)' /\ Ordered(s)'
  BY DEF InOrder, Apart, Ordered
<1> QED BY <1>2, <1>3, <1>4, <1>5 DEF Held

-----------------------------------------------------------------------------
(* Transfers: what the client goes by, while a session takes a step        *)

\* Whatever the copies hold: a session at a transfer knows which it is, and it adds
\* a reply only when it takes a command or ends a transfer, on an open connection.
LEMMA SessionReplies ==
    ASSUME FtpInv, NEW s \in Sessions, SessionStep(s), \A t \in Sessions : Jobbing(t)
    PROVE  /\ UNCHANGED client /\ open' = open
           /\ \A t \in Sessions \ {s} : UNCHANGED <<place[t], inbox[t], replies[t], job[t]>>
           /\ ~open[s] => replies'[s] = replies[s]
           /\ \/ place[s] = "command" /\ inbox[s] # <<>>
              \/ place[s] \in {"dial", "move"}
              \/ Leaves(s)
           /\ Jobbing(s)'
<1>1. /\ place \in [Sessions -> {"none", "command", "dial", "move", "ended"}]
      /\ job \in [Sessions -> Jobs] /\ inbox \in [Sessions -> Seq(Commands)]
      /\ replies \in [Sessions -> Seq(Replies)]
  BY DEF FtpInv, FtpTypes, SessionTypes
<1>2. ASSUME replies' = replies \/ \E code, size : SessionReply(s, code, size)
      PROVE  /\ \A t \in Sessions \ {s} : replies'[t] = replies[t]
             /\ ~open[s] => replies'[s] = replies[s]
  BY <1>1, <1>2 DEF SessionReply
<1>3. CASE Command(s)
  <2>1. /\ UNCHANGED client /\ open' = open /\ place[s] = "command" /\ inbox[s] # <<>>
        /\ inbox' = [inbox EXCEPT ![s] = Tail(inbox[s])]
    BY <1>3 DEF Command
  <2>2. CASE Answers(s, Head(inbox[s]))
    <3>1. UNCHANGED <<place, job>>
      BY <2>2 DEF Answers
    <3>2. \E code, size : SessionReply(s, code, size)
      BY <2>2 DEF Answers
    <3> QED BY <1>1, <1>2, <2>1, <3>1, <3>2 DEF Jobbing
  <2>3. CASE /\ Begins(s, Head(inbox[s]))
             /\ Head(inbox[s]).verb \in {"RETR", "STOR", "APPE"}
    <3>1. /\ place' = [place EXCEPT ![s] = "dial"] /\ SessionReply(s, 1, 0)
          /\ job' = [job EXCEPT ![s] = OpenFile(s, Head(inbox[s]))]
      BY <2>3 DEF Begins
    <3>2. OpenFile(s, Head(inbox[s])).verb = Head(inbox[s]).verb
      BY DEF OpenFile
    <3>3. Jobbing(s)'
      BY <1>1, <2>3, <3>1, <3>2 DEF Jobbing
    <3> QED BY <1>1, <1>2, <2>1, <3>1, <3>3
  <2> QED BY <1>3, <2>2, <2>3 DEF Command
<1>4. ASSUME NEW code, Done(s, code), UNCHANGED client, UNCHANGED <<open, inbox>>,
             place[s] \in {"dial", "move"}
      PROVE  /\ UNCHANGED client /\ open' = open
             /\ \A t \in Sessions \ {s} : UNCHANGED <<place[t], inbox[t], replies[t], job[t]>>
             /\ ~open[s] => replies'[s] = replies[s]
             /\ place[s] \in {"dial", "move"}
             /\ Jobbing(s)'
  BY <1>1, <1>2, <1>4 DEF Done, Jobbing
<1>5. ASSUME replies' = replies, \A t \in Sessions \ {s} : place'[t] = place[t] /\ job'[t] = job[t],
             UNCHANGED client, UNCHANGED <<open, inbox>>,
             place[s] \in {"dial", "move"}, job'[s].verb = job[s].verb
      PROVE  /\ UNCHANGED client /\ open' = open
             /\ \A t \in Sessions \ {s} : UNCHANGED <<place[t], inbox[t], replies[t], job[t]>>
             /\ ~open[s] => replies'[s] = replies[s]
             /\ place[s] \in {"dial", "move"}
             /\ Jobbing(s)'
  BY <1>5 DEF Jobbing
<1>6. CASE Dial(s)
  <2>1. /\ place[s] \in {"dial", "move"} /\ UNCHANGED client /\ UNCHANGED <<open, inbox>>
        /\ \/ replies' = replies /\ job' = job /\ place' = [place EXCEPT ![s] = "move"]
           \/ Done(s, 4)
    BY <1>6 DEF Dial
  <2> QED BY <1>1, <1>4, <1>5, <2>1
<1>7. job[s] \in Jobs
  BY <1>1
<1>8. ASSUME NEW n, \/ job' = [job EXCEPT ![s].next = n]
                    \/ job' = [job EXCEPT ![s].written = n]
      PROVE  job'[s].verb = job[s].verb /\ \A t \in Sessions \ {s} : job'[t] = job[t]
  <2> DEFINE j == [job[s] EXCEPT !.next = n]  k == [job[s] EXCEPT !.written = n]
  <2>1. j.verb = job[s].verb /\ k.verb = job[s].verb
    BY <1>7 DEF Jobs
  <2>2. job' = [job EXCEPT ![s] = j] \/ job' = [job EXCEPT ![s] = k]
    BY <1>8
  <2> HIDE DEF j, k
  <2> QED BY <1>1, <2>1, <2>2
<1>9. CASE Receive(s)
  <2>1. /\ place[s] \in {"dial", "move"} /\ UNCHANGED client /\ UNCHANGED <<open, inbox>>
        /\ \/ replies' = replies /\ place' = place /\ \E n : job' = [job EXCEPT ![s].written = n]
           \/ \E code : Done(s, code)
    BY <1>9 DEF Receive
  <2> QED BY <1>4, <1>5, <1>8, <2>1
<1>10. CASE Send(s)
  <2>1. /\ place[s] \in {"dial", "move"} /\ UNCHANGED client /\ UNCHANGED <<open, inbox>>
        /\ \/ replies' = replies /\ place' = place /\ \E n : job' = [job EXCEPT ![s].next = n]
           \/ \E code : Done(s, code)
    BY <1>10 DEF Send
  <2> QED BY <1>4, <1>5, <1>8, <2>1
<1>11. CASE Leaves(s)
  <2>1. /\ place' = [place EXCEPT ![s] = "ended"] /\ inbox' = [inbox EXCEPT ![s] = <<>>]
        /\ UNCHANGED client /\ UNCHANGED <<open, replies, job>>
    BY <1>11 DEF Leaves
  <2> QED BY <1>1, <1>11, <2>1 DEF Jobbing
<1> QED BY <1>3, <1>6, <1>9, <1>10, <1>11 DEF SessionStep

\* The answer to a command is still the last thing that the session did.
LEMMA SessionTold ==
    ASSUME FtpInv, FtpInv', NEW s \in Sessions, SessionStep(s), Told,
           \A t \in Sessions : Jobbing(t)
    PROVE  Told' /\ \A t \in Sessions : Jobbing(t)'
<1>1. /\ UNCHANGED client /\ open' = open
      /\ \A t \in Sessions \ {s} : UNCHANGED <<place[t], inbox[t], replies[t], job[t]>>
      /\ ~open[s] => replies'[s] = replies[s]
      /\ \/ place[s] = "command" /\ inbox[s] # <<>>
         \/ place[s] \in {"dial", "move"}
         \/ Leaves(s)
      /\ Jobbing(s)'
  BY SessionReplies
<1>2. UNCHANGED <<pc, asked, ctrl>>
  BY <1>1 DEF client
<1>3. \A t \in Sessions : Jobbing(t)'
  BY <1>1 DEF Jobbing
<1>4. ASSUME asked, pc \in Asking \ {"verb"}, replies'[ctrl] # <<>>
      PROVE  /\ Len(replies'[ctrl]) = 1 /\ inbox'[ctrl] = <<>>
             /\ place'[ctrl] \in {"command", "ended"}
  <2>1. ctrl # 0 /\ ctrl \in Sessions
    BY <1>4, AtAnswer
  <2>2. CASE open[ctrl]
    <3>1. Agreed(ctrl)'
      BY <1>1, <1>2, <2>1, <2>2 DEF FtpInv, Protocol
    <3> QED BY <1>2, <1>4, <3>1 DEF Agreed, Pending, Replied
  <2>3. CASE ~open[ctrl] /\ s # ctrl
    BY <1>1, <1>4, <2>1, <2>3 DEF Told
  <2>4. CASE ~open[ctrl] /\ s = ctrl
    <3>1. Len(replies[s]) = 1 /\ inbox[s] = <<>> /\ place[s] \in {"command", "ended"}
      BY <1>1, <1>4, <2>4 DEF Told
    <3>2. Leaves(s)
      BY <1>1, <3>1
    <3>3. place'[s] = "ended" /\ inbox'[s] = <<>>
      BY <3>2 DEF Leaves, FtpInv, FtpTypes, SessionTypes
    <3> QED BY <1>1, <2>4, <3>1, <3>3
  <2> QED BY <2>2, <2>3, <2>4
<1> QED BY <1>2, <1>3, <1>4 DEF Told

\* Another session than that of the connection writes only while there is no client.
LEMMA OtherKept ==
    ASSUME FtpInv, NEW s \in Sessions, s # ctrl, Apart(s), InOrder(s), Held, Kept
    PROVE  Kept'
<1>1. /\ UNCHANGED <<pc, asked, op, ctrl, rc, have, result, open>> /\ Down' = Down
      /\ ctrl # 0 => /\ ctrl \in Sessions
                     /\ UNCHANGED <<place[ctrl], inbox[ctrl], replies[ctrl], rest[ctrl],
                                    data[ctrl], job[ctrl]>>
  BY DEF Apart, client, FtpInv, FtpTypes, ClientTypes
<1>2. ctrl = 0 => pc \in {"idle", "connect"}
  BY DEF FtpInv, Stand
<1>3. Prefix(Down)' = Prefix(Down)
  BY <1>1 DEF Prefix
<1>4. TransferAnswered' <=> TransferAnswered
  BY <1>1, <1>2, Places DEF TransferAnswered
<1>5. TransferAnswered => ctrl # 0
  BY <1>2, Places DEF TransferAnswered
<1>6. ctrl # 0 => Follows(data[ctrl].pieces, have)' = Follows(data[ctrl].pieces, have)
  BY <1>1 DEF Follows
<1>7. Downloads'
  BY <1>1, <1>3, <1>4, <1>5, <1>6 DEF Downloads, Kept
<1>8. CASE Up' # Up
  <2>1. ctrl = 0
    BY <1>8 DEF InOrder, Held, Alone
  <2>2. pc \in {"idle", "connect"} /\ (op = "upload" => ~(pc = "idle" /\ result = "ok"))
    BY <1>2, <2>1 DEF Kept, Uploads
  <2>3. Measured' /\ Resumes' /\ Uploads'
    BY <1>1, <2>2 DEF Measured, Resumes, Uploads, TransferAnswered
  <2> QED BY <1>7, <2>3 DEF Kept
<1>9. CASE Up' = Up /\ ctrl # 0
  <2>1. Prefix(Up)' = Prefix(Up) /\ Bare' = Bare
    BY <1>9 DEF Prefix, Bare
  <2>2. Storing(ctrl)' = Storing(ctrl) /\ Writing(ctrl)' = Writing(ctrl)
    BY <1>1, <1>9 DEF Storing, Writing
  <2>3. Measured'
    BY <1>1, <1>9 DEF Measured, Kept
  <2>4. Resumes'
    BY <1>1, <1>9, <2>1, <2>2 DEF Resumes, Kept
  <2>5. Uploads'
    BY <1>1, <1>4, <1>9, <2>1, <2>2 DEF Uploads, Kept
  <2> QED BY <1>7, <2>3, <2>4, <2>5 DEF Kept
<1>10. CASE Up' = Up /\ ctrl = 0
  <2>1. Measured' /\ Resumes'
    BY <1>1, <1>2, <1>10 DEF Measured, Resumes
  <2>2. Uploads'
    BY <1>1, <1>2, <1>4, <1>5, <1>10 DEF Uploads, Kept
  <2> QED BY <1>7, <2>1, <2>2 DEF Kept
<1> QED BY <1>8, <1>9, <1>10

\* The session of the connection, in a transfer: it goes on, or it ends it.
LEMMA TransferKept ==
    ASSUME FtpInv, NEW s \in Sessions, s = ctrl, Apart(s), InOrder(s), Held, Kept, Told,
           place[s] \in {"dial", "move"}, Jobbing(s),
           \/ place'[s] = "move" /\ replies'[s] = replies[s]
           \/ place'[s] = "command" /\ \E code \in 0..5 : SessionReply(s, code, 0),
           op = "upload" /\ TransferAnswered /\ Writing(s)'
                /\ data'[s].at \in {"listening", "open"} =>
                   have = job'[s].written + Len(data'[s].pieces),
           op = "download" /\ TransferAnswered =>
              /\ Follows(data'[s].pieces, have)
              /\ place'[s] = "move" /\ data'[s].at \in {"listening", "open", "leaked"} =>
                    job'[s].next = have + Len(data'[s].pieces)
    PROVE  Kept'
<1>1. /\ UNCHANGED <<pc, asked, op, ctrl, rc, have, result, open>> /\ Down' = Down
      /\ inbox'[s] = <<>> /\ ctrl # 0
  BY DEF Apart, client, Sessions
<1>2. /\ ~open[s] => replies'[s] = replies[s]
      /\ replies'[s] # replies[s] => place'[s] = "command"
  <2>1. FtpTypes
    BY DEF FtpInv
  <2> QED BY <2>1, SessionReplyType
<1>3. open[s] => ~Silent(s) /\ ~Pending(s) /\ ~Replied(s)
  BY DEF Silent, Pending, Replied
<1>4. open[s] /\ pc \in Asking => pc = "verb" /\ asked /\ replies[s] # <<>>
  BY <1>1, <1>3 DEF FtpInv, Protocol, Agreed, Begun
<1>5. TransferAnswered' => TransferAnswered
  BY <1>1, <1>2, <1>4, Places DEF TransferAnswered
<1>6. Measured'
  <2>1. asked /\ pc \in {"size", "landed"} => replies'[s] = replies[s] /\ replies[s] = <<>>
    BY <1>2, <1>4, Places DEF Told
  <2> QED BY <1>1, <2>1 DEF Measured
<1>7. Resumes'
  <2>1. op = "upload" /\ (pc = "mode" \/ (pc = "verb" /\ ~asked)) => ~open[s]
    BY <1>4, Places
  <2>2. CASE Up' = Up
    <3>1. Prefix(Up)' = Prefix(Up)
      BY <2>2 DEF Prefix
    <3>2. Storing(ctrl)' => Storing(ctrl)
      BY <1>1 DEF InOrder
    <3> QED BY <1>1, <2>1, <2>2, <3>1, <3>2 DEF Resumes, Kept
  <2>3. CASE Up' # Up
    <3>1. Storing(ctrl)
      BY <2>3 DEF InOrder
    <3> QED BY <1>1, <2>1, <3>1 DEF Resumes, Kept, FtpInv, FtpTypes, ClientTypes
  <2> QED BY <2>2, <2>3
<1>8. Uploads'
  <2>1. Prefix(Up) => Prefix(Up)'
    BY DEF InOrder
  <2>2. op = "upload" /\ (TransferAnswered \/ (pc = "complete" /\ rc) \/ pc = "landed") =>
           Prefix(Up)'
    BY <2>1 DEF Uploads, Kept
  <2>3. op = "upload" /\ pc = "idle" /\ result = "ok" =>
            ~Storing(ctrl) /\ Prefix(Up) /\ Len(Up) = Total
    BY DEF Uploads, Kept
  <2>4. ~Storing(ctrl) => ~Storing(ctrl)' /\ Up' = Up
    BY <1>1 DEF InOrder
  <2> QED BY <1>1, <1>5, <2>1, <2>2, <2>3, <2>4 DEF Uploads
<1>9. Downloads'
  <2>1. Prefix(Down)' = Prefix(Down)
    BY <1>1 DEF Prefix
  <2>2. Follows(data[ctrl].pieces, have)' = Follows(data'[ctrl].pieces, have)
    BY <1>1 DEF Follows
  <2>3. place'[s] # "dial"
    OBVIOUS
  <2> QED BY <1>1, <1>5, <2>1, <2>2, <2>3 DEF Downloads, Kept
<1> QED BY <1>6, <1>7, <1>8, <1>9 DEF Kept

\* session_open_data leaves what the client goes by.
LEMMA DialKept ==
    ASSUME FtpInv, NEW s \in Sessions, s = ctrl, Dial(s), Apart(s), InOrder(s), Held, Kept, Told,
           Jobbing(s)
    PROVE  Kept'
<1>1. place[s] = "dial" /\ FtpTypes
  BY DEF Dial, FtpInv
<1>2. /\ place \in [Sessions -> {"none", "command", "dial", "move", "ended"}]
      /\ job \in [Sessions -> Jobs] /\ data \in [Sessions -> Links]
      /\ replies \in [Sessions -> Seq(Replies)] /\ data[s] \in Links
  BY <1>1 DEF FtpTypes, SessionTypes
<1>3. CASE /\ place' = [place EXCEPT ![s] = "move"] /\ UNCHANGED <<replies, job>>
           /\ data' = data \/ (data[s].at = "listening" /\ data' = [data EXCEPT ![s].at = "open"])
  <2>1. place'[s] = "move"
    BY <1>2, <1>3
  <2>2. /\ data'[s].pieces = data[s].pieces
        /\ \/ data'[s].at = data[s].at
           \/ data[s].at = "listening" /\ data'[s].at = "open"
    <3> DEFINE d == [data[s] EXCEPT !.at = "open"]
    <3>1. d.at = "open" /\ d.pieces = data[s].pieces
      BY <1>2 DEF Links
    <3>2. data' = data \/ (data[s].at = "listening" /\ data' = [data EXCEPT ![s] = d])
      BY <1>3
    <3> HIDE DEF d
    <3> QED BY <1>2, <3>1, <3>2
  <2>3. Writing(s)' <=> Writing(s)
    BY <1>1, <1>3, <2>1 DEF Writing
  <2>4. op = "upload" /\ TransferAnswered /\ Writing(s)' /\ data'[s].at \in {"listening", "open"}
           => have = job'[s].written + Len(data'[s].pieces)
    BY <1>3, <2>2, <2>3 DEF Kept, Uploads
  <2>5. op = "download" /\ TransferAnswered =>
           /\ Follows(data'[s].pieces, have)
           /\ place'[s] = "move" /\ data'[s].at \in {"listening", "open", "leaked"} =>
                 job'[s].next = have + Len(data'[s].pieces)
    BY <1>1, <1>3, <2>2 DEF Kept, Downloads
  <2> QED BY <1>1, <1>3, <2>1, <2>4, <2>5, TransferKept
<1>4. CASE /\ Done(s, 4)
           /\ data' = [data EXCEPT ![s].at = IF @ = "open" THEN "broken" ELSE @]
  <2>1. place'[s] = "command" /\ \E code \in 0..5 : SessionReply(s, code, 0)
    BY <1>1, <1>2, <1>4, DoneType
  <2>2. data'[s].pieces = data[s].pieces
    <3> DEFINE d == [data[s] EXCEPT !.at = IF data[s].at = "open" THEN "broken" ELSE data[s].at]
    <3>1. d.pieces = data[s].pieces
      BY <1>2 DEF Links
    <3>2. data' = [data EXCEPT ![s] = d]
      BY <1>4
    <3> HIDE DEF d
    <3> QED BY <1>2, <3>1, <3>2
  <2>3. ~Writing(s)'
    BY <2>1 DEF Writing
  <2>4. op = "download" /\ TransferAnswered => Follows(data'[s].pieces, have)
    BY <2>2 DEF Kept, Downloads
  <2> QED BY <1>1, <2>1, <2>3, <2>4, TransferKept
<1> QED BY <1>3, <1>4 DEF Dial

\* A piece that is stored leaves what the client goes by.
LEMMA ReceiveKept ==
    ASSUME FtpInv, NEW s \in Sessions, s = ctrl, Receive(s), Apart(s), InOrder(s), Held, Kept, Told,
           Jobbing(s)
    PROVE  Kept'
<1>1. place[s] = "move" /\ job[s].verb # "RETR" /\ FtpTypes /\ Writing(s)
  BY DEF Receive, FtpInv, Writing
<1>2. /\ place \in [Sessions -> {"none", "command", "dial", "move", "ended"}]
      /\ job \in [Sessions -> Jobs] /\ data \in [Sessions -> Links]
      /\ data[s] \in Links /\ job[s] \in Jobs
  BY <1>1 DEF FtpTypes, SessionTypes
<1>3. ~(op = "download" /\ TransferAnswered)
  BY <1>1 DEF FtpInv, Bounded
<1>4. CASE /\ data[s].pieces # <<>>
           /\ job' = [job EXCEPT ![s].written = job[s].written + 1]
           /\ data' = [data EXCEPT ![s].pieces = Tail(data[s].pieces)]
           /\ UNCHANGED <<replies, place>>
  <2>1. /\ data'[s].at = data[s].at /\ data'[s].pieces = Tail(data[s].pieces)
        /\ job'[s].written = job[s].written + 1
    <3> DEFINE d == [data[s] EXCEPT !.pieces = Tail(data[s].pieces)]
               j == [job[s] EXCEPT !.written = job[s].written + 1]
    <3>1. d.at = data[s].at /\ d.pieces = Tail(data[s].pieces) /\ j.written = job[s].written + 1
      BY <1>2 DEF Links, Jobs
    <3>2. data' = [data EXCEPT ![s] = d] /\ job' = [job EXCEPT ![s] = j]
      BY <1>4
    <3> HIDE DEF d, j
    <3> QED BY <1>2, <3>1, <3>2
  <2>2. Len(Tail(data[s].pieces)) = Len(data[s].pieces) - 1 /\ Len(data[s].pieces) \in Nat
    BY <1>2, <1>4 DEF Links
  <2>3. job[s].written \in Nat
    BY <1>2 DEF Jobs
  <2>4. job[s].written + 1 + Len(Tail(data[s].pieces)) = job[s].written + Len(data[s].pieces)
    BY <2>2, <2>3
  <2>5. op = "upload" /\ TransferAnswered /\ data'[s].at \in {"listening", "open"}
           => have = job'[s].written + Len(data'[s].pieces)
    BY <1>1, <2>1, <2>4 DEF Kept, Uploads
  <2>6. place'[s] = "move" /\ replies'[s] = replies[s]
    BY <1>1, <1>4
  <2> QED BY <1>1, <1>3, <2>5, <2>6, TransferKept
<1>5. ASSUME NEW code \in 0..5, Done(s, code) PROVE Kept'
  <2>1. place'[s] = "command" /\ \E c \in 0..5 : SessionReply(s, c, 0)
    BY <1>1, <1>2, <1>5, DoneType
  <2>2. ~Writing(s)'
    BY <2>1 DEF Writing
  <2> QED BY <1>1, <1>3, <2>1, <2>2, TransferKept
<1>6. (IF data[s].at = "closed" THEN 2 ELSE 5) \in 0..5
  OBVIOUS
<1> QED BY <1>4, <1>5, <1>6 DEF Receive

\* A piece that is sent goes on from what the client has.
LEMMA SendKept ==
    ASSUME FtpInv, NEW s \in Sessions, s = ctrl, Send(s), Apart(s), InOrder(s), Held, Kept, Told,
           Jobbing(s)
    PROVE  Kept'
<1>1. place[s] = "move" /\ job[s].verb = "RETR" /\ FtpTypes
  BY DEF Send, FtpInv
<1>2. /\ place \in [Sessions -> {"none", "command", "dial", "move", "ended"}]
      /\ job \in [Sessions -> Jobs] /\ data \in [Sessions -> Links]
      /\ data[s] \in Links /\ job[s] \in Jobs /\ have \in 0..Total
  BY <1>1 DEF FtpTypes, SessionTypes, ClientTypes
<1>3. CASE /\ job[s].next < Total /\ data[s].at \in {"open", "leaked"}
           /\ data' = [data EXCEPT ![s].pieces = Append(data[s].pieces, job[s].next + 1)]
           /\ job' = [job EXCEPT ![s].next = job[s].next + 1]
           /\ UNCHANGED <<replies, place>>
  <2>1. /\ data'[s].at = data[s].at
        /\ data'[s].pieces = Append(data[s].pieces, job[s].next + 1)
        /\ job'[s].next = job[s].next + 1 /\ job'[s].verb = "RETR"
    <3> DEFINE d == [data[s] EXCEPT !.pieces = Append(data[s].pieces, job[s].next + 1)]
               j == [job[s] EXCEPT !.next = job[s].next + 1]
    <3>1. /\ d.at = data[s].at /\ d.pieces = Append(data[s].pieces, job[s].next + 1)
          /\ j.next = job[s].next + 1 /\ j.verb = job[s].verb
      BY <1>2 DEF Links, Jobs
    <3>2. data' = [data EXCEPT ![s] = d] /\ job' = [job EXCEPT ![s] = j]
      BY <1>3
    <3> HIDE DEF d, j
    <3> QED BY <1>1, <1>2, <3>1, <3>2
  <2>2. op = "download" /\ TransferAnswered =>
           /\ Follows(data'[s].pieces, have)
           /\ job'[s].next = have + Len(data'[s].pieces)
    <3> SUFFICES ASSUME op = "download", TransferAnswered
                 PROVE  /\ Follows(data'[s].pieces, have)
                        /\ job'[s].next = have + Len(data'[s].pieces)
      OBVIOUS
    <3>1. Follows(data[s].pieces, have) /\ job[s].next = have + Len(data[s].pieces)
      BY <1>1, <1>3 DEF Kept, Downloads
    <3>2. data[s].pieces \in Seq(Nat) /\ have \in Nat /\ have + Len(data[s].pieces) < Total
      BY <1>2, <1>3, <3>1 DEF Links
    <3>3. /\ Follows(data'[s].pieces, have)
          /\ Len(data'[s].pieces) = Len(data[s].pieces) + 1 /\ Len(data[s].pieces) \in Nat
      <4> DEFINE q == data[s].pieces
      <4>1. q \in Seq(Nat) /\ have \in Nat /\ Follows(q, have) /\ have + Len(q) < Total
        BY <3>1, <3>2
      <4>2. data'[s].pieces = Append(q, have + Len(q) + 1)
        BY <2>1, <3>1
      <4> HIDE DEF q
      <4>3. /\ Follows(Append(q, have + Len(q) + 1), have)
            /\ Len(Append(q, have + Len(q) + 1)) = Len(q) + 1 /\ Len(q) \in Nat
        BY <4>1, PieceSent
      <4>4. /\ Follows(data'[s].pieces, have)
            /\ Len(data'[s].pieces) = Len(q) + 1 /\ Len(q) \in Nat
        BY <4>2, <4>3
      <4> QED BY <4>4 DEF q
    <3>4. have + Len(data[s].pieces) + 1 = have + (Len(data[s].pieces) + 1)
      BY <3>2, <3>3
    <3> QED BY <2>1, <3>1, <3>3, <3>4
  <2>3. ~Writing(s)'
    BY <2>1 DEF Writing
  <2>4. place'[s] = "move" /\ replies'[s] = replies[s]
    BY <1>1, <1>3
  <2> QED BY <1>1, <2>2, <2>3, <2>4, TransferKept
<1>4. ASSUME NEW code \in {2, 5}, Done(s, code),
             data' = [data EXCEPT ![s].at = IF @ = "open" THEN "ended" ELSE @]
      PROVE  Kept'
  <2>1. code \in 0..5
    OBVIOUS
  <2>2. place'[s] = "command" /\ \E c \in 0..5 : SessionReply(s, c, 0)
    BY <1>1, <1>2, <1>4, <2>1, DoneType
  <2>3. data'[s].pieces = data[s].pieces
    <3> DEFINE d == [data[s] EXCEPT !.at = IF data[s].at = "open" THEN "ended" ELSE data[s].at]
    <3>1. d.pieces = data[s].pieces
      BY <1>2 DEF Links
    <3>2. data' = [data EXCEPT ![s] = d]
      BY <1>4
    <3> HIDE DEF d
    <3> QED BY <1>2, <3>1, <3>2
  <2>4. ~Writing(s)'
    BY <2>2 DEF Writing
  <2>5. op = "download" /\ TransferAnswered => Follows(data'[s].pieces, have)
    BY <2>3 DEF Kept, Downloads
  <2> QED BY <1>1, <2>2, <2>4, <2>5, TransferKept
<1> QED BY <1>3, <1>4 DEF Send

\* A session that ends leaves what the client goes by.
LEMMA LeavesKept ==
    ASSUME FtpInv, NEW s \in Sessions, s = ctrl, Leaves(s), Apart(s), InOrder(s), Kept
    PROVE  Kept'
<1>1. /\ place' = [place EXCEPT ![s] = "ended"]
      /\ UNCHANGED <<pc, asked, op, ctrl, rc, have, result, open, replies, data, copy>>
      /\ place \in [Sessions -> {"none", "command", "dial", "move", "ended"}]
  BY DEF Leaves, client, FtpInv, FtpTypes, SessionTypes
<1>2. /\ place'[ctrl] = "ended" /\ Up' = Up /\ Down' = Down /\ ctrl # 0
      /\ Storing(ctrl)' => Storing(ctrl)
  BY <1>1 DEF Up, Down, Sessions, InOrder
<1>3. /\ Prefix(Up)' = Prefix(Up) /\ Prefix(Down)' = Prefix(Down) /\ Bare' = Bare
      /\ Follows(data[ctrl].pieces, have)' = Follows(data[ctrl].pieces, have)
      /\ TransferAnswered' = TransferAnswered
  BY <1>1, <1>2 DEF Prefix, Bare, Follows, TransferAnswered
<1>4. Measured' /\ Resumes'
  BY <1>1, <1>2, <1>3 DEF Kept, Measured, Resumes
<1>5. Uploads'
  BY <1>1, <1>2, <1>3 DEF Kept, Uploads, Writing
<1>6. Downloads'
  BY <1>1, <1>2, <1>3 DEF Kept, Downloads
<1> QED BY <1>4, <1>5, <1>6 DEF Kept

\* The session of the connection, at a command: no transfer has been answered.
LEMMA CommandKept ==
    ASSUME FtpInv, NEW s \in Sessions, s = ctrl, Apart(s), InOrder(s), Kept,
           inbox[s] # <<>>, ~TransferAnswered', Measured',
           op = "upload" /\ (pc = "mode" \/ (pc = "verb" /\ ~asked)) => ~open[s] \/ Up' = Up
    PROVE  Kept'
<1>1. UNCHANGED <<pc, asked, op, ctrl, rc, have, result, open>> /\ Down' = Down /\ ctrl # 0
  BY DEF Apart, client, Sessions
<1>2. /\ Prefix(Up) => Prefix(Up)'
      /\ Storing(ctrl)' => Storing(ctrl)
      /\ Up' # Up => Storing(ctrl)
  BY <1>1 DEF InOrder
<1>3. Up' = Up => Bare' = Bare
  BY DEF Bare
<1>4. Prefix(Down)' = Prefix(Down)
  BY <1>1 DEF Prefix
<1>5. Resumes'
  BY <1>1, <1>2, <1>3 DEF Kept, Resumes
<1>6. Uploads'
  BY <1>1, <1>2 DEF Kept, Uploads
<1>7. Downloads'
  BY <1>1, <1>4 DEF Kept, Downloads
<1> QED BY <1>5, <1>6, <1>7 DEF Kept

\* An answer to SIZE is what the copy holds.
LEMMA AnswersKept ==
    ASSUME FtpInv, NEW s \in Sessions, s = ctrl, Command(s), Apart(s), InOrder(s), Held, Kept, Told,
           Answers(s, Head(inbox[s])), Head(inbox[s]).verb \notin {"RETR", "STOR", "APPE"}
    PROVE  Kept'
<1> DEFINE c == Head(inbox[s])
<1>1. /\ place[s] = "command" /\ inbox[s] # <<>> /\ FtpTypes
      /\ UNCHANGED <<pc, asked, op, ctrl, rc, have, result, open, copy>>
  BY DEF Command, Answers, client, FtpInv
<1>2. ~TransferAnswered
  BY <1>1 DEF FtpInv, Bounded
<1>3. replies \in [Sessions -> Seq(Replies)] /\ copy \in [Ways -> Seq(Nat)]
  BY <1>1 DEF FtpTypes, SessionTypes
<1>4. Up' = Up /\ Len(Up) \in Nat
  BY <1>1, CopyTypes DEF Up
<1>5. CASE ~open[s]
  <2>1. \E code, size : SessionReply(s, code, size)
    BY DEF Answers
  <2>2. replies'[s] = replies[s]
    BY <1>3, <1>5, <2>1 DEF SessionReply
  <2>3. ~TransferAnswered'
    BY <1>1, <1>2, <2>2 DEF TransferAnswered
  <2>4. Measured'
    BY <1>1, <2>2, Places DEF Measured, Told
  <2> QED BY <1>1, <1>5, <2>3, <2>4, CommandKept
<1>6. CASE open[s]
  <2>1. /\ asked /\ pc \in Asking /\ c = ClientCommand /\ replies[s] = <<>>
    BY <1>1, <1>6, OnlyPending DEF Pending
  <2>2. pc # "verb"
    BY <1>1, <2>1, CommandIs
  <2>3. ~TransferAnswered'
    BY <1>1, <2>1, <2>2, Places DEF TransferAnswered
  <2>4. Measured'
    <3> SUFFICES ASSUME op = "upload", pc \in {"size", "landed"}
                 PROVE  /\ Head(replies'[s]).code = 2 => Head(replies'[s]).size = Len(Up)
                        /\ Head(replies'[s]).code # 2 => Len(Up) = 0
      BY <1>1, <1>4 DEF Measured
    <3>1. c.verb = "SIZE" /\ c.of = "upload"
      BY <2>1 DEF ClientCommand, Verb
    <3> DEFINE r == [code |-> IF Len(Up) = 0 THEN 5 ELSE 2, size |-> Len(Up)]
    <3>2. SessionReply(s, IF Len(Up) = 0 THEN 5 ELSE 2, Len(Up))
      BY <3>1 DEF Answers, Up
    <3>3. replies' = [replies EXCEPT ![s] = Append(<<>>, r)]
      BY <1>6, <2>1, <3>2 DEF SessionReply
    <3>4. replies'[s] = <<r>>
      <4> HIDE DEF r
      <4> QED BY <1>3, <3>3
    <3>5. Head(replies'[s]) = r
      BY <3>4
    <3> QED BY <1>4, <3>5
  <2>5. Up' = Up
    BY <1>1 DEF Up
  <2> QED BY <1>1, <2>3, <2>4, <2>5, CommandKept
<1> QED BY <1>5, <1>6

\* A transfer begins where the client means it to.
LEMMA BeginsKept ==
    ASSUME FtpInv, NEW s \in Sessions, s = ctrl, Command(s), Clean',
           Apart(s), InOrder(s), Held, Kept, Told,
           Begins(s, Head(inbox[s])), Head(inbox[s]).verb \in {"RETR", "STOR", "APPE"}
    PROVE  Kept'
<1> DEFINE c == Head(inbox[s])
<1>1. /\ place[s] = "command" /\ inbox[s] # <<>> /\ FtpTypes
      /\ UNCHANGED <<pc, asked, op, ctrl, rc, have, result, open, data>>
      /\ place' = [place EXCEPT ![s] = "dial"] /\ job' = [job EXCEPT ![s] = OpenFile(s, c)]
      /\ SessionReply(s, 1, 0)
  BY DEF Command, Begins, client, FtpInv
<1>2. ~TransferAnswered
  BY <1>1 DEF FtpInv, Bounded
<1>3. /\ place \in [Sessions -> {"none", "command", "dial", "move", "ended"}]
      /\ job \in [Sessions -> Jobs] /\ replies \in [Sessions -> Seq(Replies)]
      /\ have \in 0..Total /\ Total \in Nat /\ Len(Up) \in Nat /\ rest[s] \in 0..Total
  BY <1>1, CopyTypes DEF FtpTypes, SessionTypes
<1>4. CASE ~open[s]
  <2>1. replies'[s] = replies[s]
    BY <1>1, <1>3, <1>4 DEF SessionReply
  <2>2. ~TransferAnswered'
    BY <1>1, <1>2, <2>1 DEF TransferAnswered
  <2>3. Measured'
    BY <1>1, <2>1, Places DEF Measured, Told
  <2> QED BY <1>1, <1>4, <2>2, <2>3, CommandKept
<1>5. CASE open[s]
  <2>1. /\ asked /\ pc \in Asking /\ c = ClientCommand /\ replies[s] = <<>>
    BY <1>1, <1>5, OnlyPending DEF Pending
  <2>2. pc = "verb"
    BY <1>1, <2>1, CommandIs
  <2>3. /\ c.verb = IF op = "download" THEN "RETR" ELSE IF have > 0 THEN "APPE" ELSE "STOR"
        /\ c.arg = have
    BY <2>1, <2>2 DEF ClientCommand
  <2>4. data'[s].pieces = <<>>
    BY <1>1, <1>5, <2>1, <2>2 DEF FtpInv, Offset, Unanswered, Sessions
  <2>5. strayed' = (strayed \/ (c.verb # "APPE" /\ rest[s] # c.arg))
    BY DEF Begins
  <2>6. c.verb # "APPE" => rest[s] = have
    BY <2>3, <2>5 DEF Clean
  <2>7. job'[s] = OpenFile(s, c) /\ place'[s] = "dial"
    BY <1>1, <1>3
  <2> HIDE DEF c
  <2>8. op = "upload" => Prefix(Up)' /\ job'[s].written = have
    <3> SUFFICES ASSUME op = "upload" PROVE Prefix(Up)' /\ job'[s].written = have
      OBVIOUS
    <3>1. Ordered(s)
      BY DEF Held
    <3>2. CASE have > 0
      <4>1. c.verb = "APPE" /\ c.arg = Len(Up) /\ Prefix(Up)
        BY <1>1, <2>3, <3>1, <3>2 DEF Ordered, c
      <4>2. OpenFile(s, c).written = have
        BY <2>3, <4>1 DEF OpenFile, Up
      <4> QED BY <2>7, <4>1, <4>2 DEF InOrder
    <3>3. CASE have = 0
      <4>1. c.verb = "STOR"
        BY <2>3, <3>3
      <4>2. OpenFile(s, c).written = 0 /\ OpenFile(s, c).verb = "STOR"
        BY <2>6, <3>3, <4>1 DEF OpenFile
      <4>3. Writing(s)'
        BY <2>7, <4>2 DEF Writing
      <4> QED BY <2>7, <3>3, <4>2, <4>3 DEF InOrder, Stores
    <3> QED BY <1>3, <3>2, <3>3
  <2>9. op = "download" => job'[s].next = have
    BY <2>3, <2>6, <2>7 DEF OpenFile
  <2>10. UNCHANGED <<pc, asked, op, ctrl, rc, have, result, open>> /\ Down' = Down
    BY <1>1 DEF Apart
  <2>11. Measured' /\ Resumes'
    BY <2>1, <2>2, <2>10 DEF Measured, Resumes
  <2>12. Len(<<>>) = 0 /\ have + 0 = have
    BY <1>3
  <2>13. Uploads'
    BY <2>2, <2>4, <2>8, <2>10, <2>12 DEF Uploads
  <2>14. Downloads'
    <3>1. Prefix(Down)' = Prefix(Down)
      BY <2>10 DEF Prefix
    <3>2. Follows(data[ctrl].pieces, have)'
      BY <1>3, <2>4, <2>10, NoPieces DEF Follows
    <3> QED BY <2>2, <2>4, <2>9, <2>10, <2>12, <3>1, <3>2 DEF Kept, Downloads
  <2> QED BY <2>11, <2>13, <2>14 DEF Kept
<1> QED BY <1>4, <1>5

\* A step of a session keeps what the client goes by.
LEMMA SessionKept ==
    ASSUME FtpInv, NEW s \in Sessions, SessionStep(s), Clean', Apart(s), InOrder(s), Held, Kept,
           Told, Jobbing(s)
    PROVE  Kept'
<1>1. CASE s # ctrl
  BY <1>1, OtherKept
<1>2. CASE s = ctrl
  <2>1. CASE Command(s)
    <3>1. \/ /\ Begins(s, Head(inbox[s]))
             /\ Head(inbox[s]).verb \in {"RETR", "STOR", "APPE"}
          \/ /\ Answers(s, Head(inbox[s]))
             /\ Head(inbox[s]).verb \notin {"RETR", "STOR", "APPE"}
      BY <2>1 DEF Command
    <3> QED BY <1>2, <2>1, <3>1, BeginsKept, AnswersKept
  <2> QED BY <1>2, <2>1, DialKept, ReceiveKept, SendKept, LeavesKept DEF SessionStep
<1> QED BY <1>1, <1>2

-----------------------------------------------------------------------------
(* Transfers: what the client goes by, while it takes a step itself        *)

\* The client writes to no copy of an upload, and sends pieces only in a transfer.
LEMMA ClientHolds ==
    ASSUME FtpTypes, Held, UNCHANGED <<place, inbox, job>>, Up' = Up, ctrl' \in {0, ctrl},
           Prefix(Down)' \/ Len(Down') > Total,
           \A t \in Sessions :
               \/ data'[t].pieces = data[t].pieces \/ data'[t].pieces = <<>>
               \/ /\ inbox[t] = <<>>
                  /\ Writing(t) => Follows(data'[t].pieces, job[t].written)
    PROVE  Held'
<1>1. Prefix(Up)' = Prefix(Up) /\ Bare' = Bare
  BY DEF Prefix, Bare
<1>2. \A t \in Sessions : Storing(t)' = Storing(t) /\ Writing(t)' = Writing(t)
  BY DEF Storing, Writing
<1>3. Sane'
  BY <1>1 DEF Held, Sane
<1>4. Alone'
  BY <1>2 DEF Held, Alone
<1>5. \A t \in Sessions : Stores(t)'
  <2> SUFFICES ASSUME NEW t \in Sessions, Writing(t) PROVE Stores(t)'
    BY <1>2 DEF Stores
  <2>1. Prefix(Up) /\ Len(Up) = job[t].written /\ Follows(data[t].pieces, job[t].written)
    BY DEF Held, Stores
  <2>2. job[t].written \in 0..Total
    BY <2>1, CopyTypes DEF Prefix
  <2>3. Follows(data'[t].pieces, job[t].written)
    BY <2>1, <2>2, NoPieces
  <2>4. Follows(data[t].pieces, job[t].written)' = Follows(data'[t].pieces, job[t].written)
    BY DEF Follows
  <2> QED BY <1>1, <2>1, <2>3, <2>4 DEF Stores
<1>6. \A t \in Sessions : Ordered(t)'
  <2> SUFFICES ASSUME NEW t \in Sessions, inbox[t] # <<>> PROVE Ordered(t)'
    BY DEF Ordered
  <2>1. Ordered(t)
    BY DEF Held
  <2> QED BY <1>1, <2>1 DEF Ordered
<1> QED BY <1>3, <1>4, <1>5, <1>6 DEF Held

\* Nothing is gone by at most places.
LEMMA AtRest ==
    ASSUME asked' = FALSE,
           \/ pc' \in {"noop", "connect", "cwd", "mkd", "again", "total", "size", "check"}
           \/ pc' = "idle" /\ result' # "ok"
    PROVE  Told' /\ Kept'
<1>1. ~TransferAnswered'
  BY DEF TransferAnswered
<1> QED BY <1>1 DEF Told, Kept, Measured, Resumes, Uploads, Downloads

\* A transfer that is given up waits for its completion reply.
LEMMA AtEnd ==
    ASSUME pc' = "complete", op' = op, op = "upload" => ~rc' \/ Prefix(Up)',
           op = "download" => Prefix(Down)' /\ Len(Down') = have'
    PROVE  Told' /\ Kept'
<1>1. ~TransferAnswered'
  BY DEF TransferAnswered
<1> QED BY <1>1, Places DEF Told, Kept, Measured, Resumes, Uploads, Downloads

\* What an answer may do to the copies and to the pieces under way
LEMMA AnswerPieces ==
    ASSUME FtpInv, NEW r, OnReply(r), pc \in Asking \cup {"complete"}
    PROVE  /\ Up' = Up /\ (Down' = Down \/ Down' = <<>>) /\ ctrl' \in {0, ctrl}
           /\ \A t \in Sessions :
                 data'[t].pieces = data[t].pieces \/ data'[t].pieces = <<>>
<1>1. /\ copy \in [Ways -> Seq(Nat)] /\ data \in [Sessions -> Links]
      /\ ctrl \in Sessions /\ data[ctrl] \in Links
  BY AtAnswer
<1>2. copy' = copy \/ copy' = [copy EXCEPT !["download"] = <<>>]
  BY DEF OnReply, Detected, Directory, Sized, Restarts, Modes, Transfers, Completes, Checked,
         NextAttempt, DownloadLoop, NextTry
<1>3. Up' = Up /\ (Down' = Down \/ Down' = <<>>)
  BY <1>1, <1>2 DEF Up, Down, Ways
<1>4. ctrl' \in {0, ctrl}
  BY DEF OnReply, Detected, Directory, Sized, Restarts, Modes, Transfers, Completes, Checked
<1>5. \/ data' = data \/ CloseData
      \/ \E at : data' = [data EXCEPT ![ctrl].at = at]
  BY DEF OnReply, Detected, Directory, Sized, Restarts, Modes, Transfers, Completes, Checked
<1>6. \A t \in Sessions : data'[t].pieces = data[t].pieces \/ data'[t].pieces = <<>>
  <2>1. CASE data' = data
    BY <2>1
  <2>2. CASE CloseData
    <3>1. \/ data' = [data EXCEPT ![ctrl] = NoData]
          \/ data' = [data EXCEPT ![ctrl] = Broken]
          \/ data' = data
      BY <2>2 DEF CloseData
    <3>2. NoData.pieces = <<>> /\ Broken.pieces = <<>>
      BY DEF NoData, Broken
    <3> HIDE DEF FtpInv
    <3> QED BY <1>1, <3>1, <3>2
  <2>3. ASSUME NEW at, data' = [data EXCEPT ![ctrl].at = at]
        PROVE  \A t \in Sessions : data'[t].pieces = data[t].pieces
    <3> DEFINE d == [data[ctrl] EXCEPT !.at = at]
    <3>1. d.pieces = data[ctrl].pieces
      BY <1>1 DEF Links
    <3>2. data' = [data EXCEPT ![ctrl] = d]
      BY <2>3
    <3> HIDE DEF d
    <3> QED BY <1>1, <3>1, <3>2
  <2> QED BY <1>5, <2>1, <2>2, <2>3
<1> QED BY <1>3, <1>4, <1>6

\* So the server's part is kept by an answer.
LEMMA AnswerHolds ==
    ASSUME FtpInv, NEW r, OnReply(r), pc \in Asking \cup {"complete"}, Held,
           UNCHANGED <<place, inbox, job>>
    PROVE  Held'
<1>1. /\ Up' = Up /\ (Down' = Down \/ Down' = <<>>) /\ ctrl' \in {0, ctrl}
      /\ \A t \in Sessions : data'[t].pieces = data[t].pieces \/ data'[t].pieces = <<>>
  BY AnswerPieces
<1>2. Prefix(Down)' \/ Len(Down') > Total
  <2>1. CASE Down' = Down
    <3>1. Prefix(Down)' = Prefix(Down)
      BY <2>1 DEF Prefix
    <3> QED BY <2>1, <3>1 DEF Held, Sane
  <2>2. CASE Down' = <<>>
    BY <2>2, NoPieces DEF Prefix
  <2> QED BY <1>1, <2>1, <2>2
<1>3. FtpTypes
  BY DEF FtpInv
<1> QED BY <1>1, <1>2, <1>3, ClientHolds

\* An answer that was read, or none.
Heard(r) ==
    \/ asked /\ replies[ctrl] # <<>> /\ r = Head(replies[ctrl])
    \/ r = NoReply /\ (open[ctrl] => pc = "complete")

\* A download goes on from what there is, or starts anew, or is complete.
LEMMA LoopKept ==
    ASSUME FtpTypes, Sane, DownloadLoop, op' = "download"
    PROVE  Told' /\ Kept'
<1>1. /\ copy \in [Ways -> Seq(Nat)] /\ Len(Down) \in Nat /\ Total \in Nat
  BY CopyTypes
<1>2. asked' = FALSE /\ pc' \in {"idle", "rest", "mode"}
  BY DEF DownloadLoop, Goto, Return
<1>3. Prefix(Down)' /\ Len(Down') = have'
  <2>1. CASE Len(Down) > Total
    <3>1. Down' = <<>> /\ have' = 0
      BY <1>1, <2>1 DEF DownloadLoop, Down, Ways
    <3> QED BY <3>1, NoPieces DEF Prefix
  <2>2. CASE ~(Len(Down) > Total)
    <3>1. Down' = Down /\ have' = Len(Down)
      BY <2>2 DEF DownloadLoop, Down
    <3>2. Prefix(Down)
      BY <2>2 DEF Sane
    <3> QED BY <3>1, <3>2 DEF Prefix
  <2> QED BY <2>1, <2>2
<1>4. pc' = "idle" /\ result' = "ok" => Len(Down') = Total
  <2>1. pc' = "idle" => Len(Down) = Total
    BY DEF DownloadLoop, Goto, Down
  <2>2. Len(Down) = Total => Len(Down') = Total
    BY <1>1 DEF DownloadLoop, Down
  <2> QED BY <2>1, <2>2
<1>5. ~TransferAnswered'
  BY <1>2 DEF TransferAnswered
<1> QED BY <1>2, <1>3, <1>4, <1>5, Places
        DEF Told, Kept, Measured, Resumes, Uploads, Downloads

\* The next attempt goes by nothing yet, or by what a download has.
LEMMA AttemptKept ==
    ASSUME FtpTypes, Sane, NextAttempt, op' = op
    PROVE  Told' /\ Kept'
<1>1. CASE asked' = FALSE /\ pc' \in {"check", "size"}
  BY <1>1, AtRest
<1>2. CASE op = "download" /\ DownloadLoop
  BY <1>2, LoopKept
<1> QED BY <1>1, <1>2 DEF NextAttempt, Goto

\* NOOP, and the directory
LEMMA NamesKept ==
    ASSUME FtpInv, NEW r, Detected(r) \/ Directory(r) \/ Checked(r)
    PROVE  Told' /\ Kept'
<1>1. CASE Detected(r)
  BY <1>1, AtRest DEF Detected, Goto
<1>2. CASE Directory(r)
  BY <1>2, AtRest DEF Directory, Goto, Return
<1>3. CASE Checked(r)
  BY <1>3, AtRest DEF Checked, NextTry, Goto, Return
<1> QED BY <1>1, <1>2, <1>3

\* SIZE: the upload goes on from what the server has.
LEMMA SizedKept ==
    ASSUME FtpInv, NEW r, Sized(r), Heard(r), Held, Kept, Told, op' = op,
           UNCHANGED <<place, inbox, job>>
    PROVE  Told' /\ Kept'
<1>1. FtpTypes /\ Sane /\ pc \in Asking \ {"verb"}
  BY Places DEF FtpInv, Held, Sized
<1>2. ctrl # 0 /\ ctrl \in Sessions
  BY <1>1, AtAnswer
<1>3. Up' = Up
  BY <1>1, AnswerPieces DEF OnReply
<1>4. /\ Up \in Seq(Nat) /\ Len(Up) \in Nat /\ Total \in Nat /\ Total > 0
  BY <1>1, CopyTypes
<1>5. /\ pc \in {"size", "landed"} => op = "upload"
      /\ pc = "total" => op = "download"
  BY DEF FtpInv, Stand
<1>6. UNCHANGED <<ctrl, open, rc, data>>
  BY DEF Sized
<1>7. Prefix(Up)' = Prefix(Up)
  BY <1>3 DEF Prefix
<1>8. pc \in {"size", "landed"} =>
         \/ /\ ~Storing(ctrl)
            /\ r.code = 2 => r.size = Len(Up)
            /\ r.code # 2 => Len(Up) = 0
         \/ ~open[ctrl] /\ r.code = 0
  <2> SUFFICES ASSUME pc \in {"size", "landed"}
               PROVE  \/ /\ ~Storing(ctrl)
                         /\ r.code = 2 => r.size = Len(Up)
                         /\ r.code # 2 => Len(Up) = 0
                      \/ ~open[ctrl] /\ r.code = 0
    OBVIOUS
  <2>1. CASE asked /\ replies[ctrl] # <<>> /\ r = Head(replies[ctrl])
    <3>1. inbox[ctrl] = <<>> /\ place[ctrl] \in {"command", "ended"}
      BY <1>1, <2>1 DEF Told
    <3>2. ~Storing(ctrl)
      <4>1. DOMAIN <<>> = {}
        OBVIOUS
      <4> QED BY <3>1, <4>1 DEF Storing
    <3> QED BY <1>5, <2>1, <3>2 DEF Kept, Measured
  <2>2. CASE r = NoReply /\ (open[ctrl] => pc = "complete")
    BY <2>2 DEF NoReply
  <2> QED BY <2>1, <2>2 DEF Heard
<1>9. Storing(ctrl)' = Storing(ctrl)
  BY <1>6 DEF Storing
<1>10. CASE pc = "total"
  <2>1. \/ DownloadLoop
        \/ asked' = FALSE /\ pc' = "check"
    BY <1>10 DEF Sized, Goto
  <2> QED BY <1>1, <1>5, <1>10, <2>1, LoopKept, AtRest
<1>11. CASE pc = "size"
  <2>1. /\ have' = IF r.code = 2 /\ r.size <= Total THEN r.size ELSE 0
        /\ IF have' = Total THEN pc' = "idle" ELSE pc' = "mode"
        /\ asked' = FALSE
    BY <1>11 DEF Sized, Goto, Return
  <2>2. ~TransferAnswered'
    BY <2>1 DEF TransferAnswered
  <2>3. have' > 0 => ~Storing(ctrl) /\ Len(Up) = have' /\ Prefix(Up)
    <3> SUFFICES ASSUME have' > 0 PROVE ~Storing(ctrl) /\ Len(Up) = have' /\ Prefix(Up)
      OBVIOUS
    <3>1. r.code = 2 /\ r.size <= Total /\ have' = r.size
      BY <2>1
    <3>2. ~Storing(ctrl) /\ r.size = Len(Up)
      BY <1>8, <1>11, <3>1
    <3>3. ~(Len(Up) > Total)
      BY <1>4, <3>1, <3>2
    <3> QED BY <1>1, <3>1, <3>2, <3>3 DEF Sane
  <2>4. have' = 0 /\ open[ctrl] => Bare
    <3> SUFFICES ASSUME have' = 0, open[ctrl] PROVE Bare
      OBVIOUS
    <3>1. /\ r.code = 2 => r.size = Len(Up)
          /\ r.code # 2 => Len(Up) = 0
      BY <1>8, <1>11
    <3>2. r.code = 2 /\ ~(r.size <= Total) => Len(Up) > Total
      BY <1>4, <3>1
    <3> QED BY <2>1, <3>1, <3>2 DEF Bare
  <2>5. Bare' = Bare
    BY <1>3 DEF Bare
  <2>6. Resumes'
    BY <1>3, <1>6, <1>7, <1>9, <2>3, <2>4, <2>5 DEF Resumes
  <2>7. Uploads'
    <3>1. pc' = "idle" => have' = Total
      BY <2>1
    <3> QED BY <1>2, <1>3, <1>4, <1>6, <1>7, <1>9, <2>1, <2>2, <2>3, <3>1 DEF Uploads
  <2>8. Downloads'
    BY <1>5, <1>11 DEF Downloads
  <2>9. Told' /\ Measured'
    BY <2>1 DEF Told, Measured
  <2> QED BY <2>6, <2>7, <2>8, <2>9 DEF Kept
<1>12. CASE pc = "landed" /\ r.code = 2 /\ r.size >= Total /\ pc' = "idle" /\ asked' = FALSE
  <2>1. ~Storing(ctrl) /\ Len(Up) >= Total /\ Prefix(Up)
    BY <1>5, <1>8, <1>12 DEF Kept, Uploads
  <2>2. Len(Up) = Total
    BY <1>4, <2>1 DEF Prefix
  <2>3. ~TransferAnswered'
    BY <1>12 DEF TransferAnswered
  <2>4. Uploads'
    BY <1>2, <1>3, <1>6, <1>7, <1>9, <1>12, <2>1, <2>2, <2>3 DEF Uploads
  <2>5. Told' /\ Measured' /\ Resumes' /\ Downloads'
    BY <1>5, <1>12 DEF Told, Measured, Resumes, Downloads
  <2> QED BY <2>4, <2>5 DEF Kept
<1>13. CASE pc = "landed" /\ NextAttempt
  BY <1>1, <1>13, AttemptKept
<1> QED BY <1>10, <1>11, <1>12, <1>13 DEF Sized, Return, Goto

\* REST: what the client has is what it goes on from.
LEMMA RestKept ==
    ASSUME FtpInv, NEW r, Restarts(r), Kept, op' = op
    PROVE  Told' /\ Kept'
<1>1. /\ pc = "rest" /\ op = "download" /\ pc' = "mode" /\ asked' = FALSE
      /\ copy \in [Ways -> Seq(Nat)]
  BY DEF Restarts, Goto, FtpInv, Stand, FtpTypes, SessionTypes
<1>2. Prefix(Down) /\ Len(Down) = have
  BY <1>1 DEF Kept, Downloads
<1>3. Prefix(Down)' /\ Len(Down') = have'
  <2>1. CASE r.code = 3
    <3>1. Down' = Down /\ have' = have
      BY <2>1 DEF Restarts, Down
    <3> QED BY <1>2, <3>1 DEF Prefix
  <2>2. CASE r.code # 3
    <3>1. Down' = <<>> /\ have' = 0
      BY <1>1, <2>2 DEF Restarts, Down, Ways
    <3> QED BY <3>1, NoPieces DEF Prefix
  <2> QED BY <2>1, <2>2
<1>4. ~TransferAnswered'
  BY <1>1 DEF TransferAnswered
<1> QED BY <1>1, <1>3, <1>4 DEF Told, Kept, Measured, Resumes, Uploads, Downloads

\* PORT or PASV
LEMMA ModeKept ==
    ASSUME FtpInv, NEW r, Modes(r), Kept, op' = op, UNCHANGED <<place, inbox, job>>
    PROVE  Told' /\ Kept'
<1>1. pc = "mode" /\ UNCHANGED <<ctrl, open, have, result, copy>> /\ op \in {"upload", "download"}
  BY DEF Modes, FtpInv, FtpTypes, ClientTypes, Ways
<1>2. Up' = Up /\ Down' = Down
  BY <1>1 DEF Up, Down
<1>3. /\ Prefix(Down)' = Prefix(Down) /\ Prefix(Up)' = Prefix(Up) /\ Bare' = Bare
      /\ Storing(ctrl)' = Storing(ctrl)
  BY <1>1, <1>2 DEF Prefix, Bare, Storing
<1>4. op = "download" => Prefix(Down) /\ Len(Down) = have
  BY <1>1 DEF Kept, Downloads
<1>5. CASE pc' = "verb" /\ asked' = FALSE
  <2>1. ~TransferAnswered'
    BY <1>5 DEF TransferAnswered
  <2>2. Resumes'
    BY <1>1, <1>2, <1>3 DEF Kept, Resumes
  <2>3. Uploads' /\ Downloads'
    BY <1>1, <1>2, <1>3, <1>4, <1>5, <2>1 DEF Uploads, Downloads
  <2>4. Told' /\ Measured'
    BY <1>5 DEF Told, Measured
  <2> QED BY <2>2, <2>3, <2>4 DEF Kept
<1>6. CASE FtpFails
  <2>1. pc' = "complete" /\ rc' = FALSE
    BY <1>6 DEF FtpFails
  <2> QED BY <1>1, <1>2, <1>3, <1>4, <2>1, AtEnd
<1> QED BY <1>5, <1>6 DEF Modes, Goto

\* RETR, STOR or APPE
LEMMA BegunKept ==
    ASSUME FtpInv, NEW r, Transfers(r), Heard(r), Kept, op' = op, UNCHANGED <<place, inbox, job>>
    PROVE  Told' /\ Kept'
<1>1. pc = "verb" /\ UNCHANGED <<ctrl, open, have, result, copy>>
  BY DEF Transfers
<1>2. Up' = Up /\ Down' = Down
  BY <1>1 DEF Up, Down
<1>3. /\ Prefix(Down)' = Prefix(Down) /\ Prefix(Up)' = Prefix(Up)
      /\ Writing(ctrl)' = Writing(ctrl)
  BY <1>1, <1>2 DEF Prefix, Writing
<1>4. op = "download" => Prefix(Down) /\ Len(Down) = have
  BY <1>1 DEF Kept, Downloads
<1>5. CASE r.code = 1
  <2>1. pc' \in {"move", "accept"} /\ asked' = FALSE /\ data' = data
    BY <1>5 DEF Transfers, Goto
  <2>2. asked /\ replies[ctrl] # <<>>
    BY <1>5 DEF Heard, NoReply
  <2>3. TransferAnswered
    BY <1>1, <2>2 DEF TransferAnswered
  <2>4. Follows(data[ctrl].pieces, have)' = Follows(data[ctrl].pieces, have)
    BY <1>1, <2>1 DEF Follows
  <2>5. Uploads'
    BY <1>1, <1>2, <1>3, <2>1, <2>3 DEF Kept, Uploads
  <2>6. Downloads'
    BY <1>1, <1>2, <1>3, <1>4, <2>1, <2>3, <2>4 DEF Kept, Downloads
  <2>7. Told' /\ Measured' /\ Resumes'
    BY <2>1 DEF Told, Measured, Resumes
  <2> QED BY <2>5, <2>6, <2>7 DEF Kept
<1>6. CASE r.code # 1
  <2>1. pc' = "complete" /\ rc' = FALSE
    BY <1>6 DEF Transfers, FtpFails
  <2> QED BY <1>1, <1>2, <1>3, <1>4, <2>1, AtEnd
<1> QED BY <1>5, <1>6

\* The end of a transfer
LEMMA CompletionKept ==
    ASSUME FtpInv, NEW r, Completes(r), Held, Kept, op' = op
    PROVE  Told' /\ Kept'
<1>1. pc = "complete" /\ FtpTypes /\ Sane /\ op \in {"upload", "download"}
  BY DEF Completes, FtpInv, Held, FtpTypes, ClientTypes, Ways
<1>2. CASE NextAttempt
  BY <1>1, <1>2, AttemptKept
<1>3. CASE /\ ~(~rc' \/ (op = "download" /\ Len(copy["download"]) < Total))
           /\ IF op = "upload" THEN Goto("landed") /\ UNCHANGED result ELSE Return("ok")
           /\ UNCHANGED <<attempt, have, copy>>
  <2>1. Up' = Up /\ Down' = Down /\ asked' = FALSE
    BY <1>3 DEF Up, Down, Goto, Return
  <2>2. Prefix(Up)' = Prefix(Up) /\ Prefix(Down)' = Prefix(Down)
    BY <2>1 DEF Prefix
  <2>3. CASE op = "upload"
    <3>1. pc' = "landed" /\ rc
      BY <1>3, <2>3 DEF Goto, Completes
    <3>2. Prefix(Up)
      BY <1>1, <2>3, <3>1 DEF Kept, Uploads
    <3>3. ~TransferAnswered'
      BY <3>1 DEF TransferAnswered
    <3> QED BY <2>1, <2>2, <2>3, <3>1, <3>2, <3>3
            DEF Told, Kept, Measured, Resumes, Uploads, Downloads
  <2>4. CASE op = "download"
    <3>1. pc' = "idle" /\ ~(Len(Down) < Total)
      BY <1>3, <2>4 DEF Return, Goto, Down
    <3>2. Prefix(Down)
      BY <1>1, <2>4 DEF Kept, Downloads
    <3>3. Len(Down) = Total
      <4>1. Len(Down) \in Nat /\ Total \in Nat
        BY <1>1, CopyTypes
      <4> QED BY <3>1, <3>2, <4>1 DEF Prefix
    <3>4. ~TransferAnswered'
      BY <3>1 DEF TransferAnswered
    <3> QED BY <2>1, <2>2, <2>4, <3>1, <3>2, <3>3, <3>4
            DEF Told, Kept, Measured, Resumes, Uploads, Downloads
  <2> QED BY <1>1, <2>3, <2>4
<1> QED BY <1>2, <1>3 DEF Completes

\* After an answer the client waits for nothing but a completion reply.
LEMMA AnswerTold ==
    ASSUME NEW r, OnReply(r)
    PROVE  Told'
<1>1. asked' = FALSE \/ pc' = "complete"
  BY DEF OnReply, Detected, Directory, Sized, Restarts, Modes, Transfers, Completes, Checked,
         NextAttempt, DownloadLoop, NextTry, Goto, Return, FtpFails
<1> QED BY <1>1, Places DEF Told

\* An answer, or none
LEMMA AnswerCopies ==
    ASSUME FtpInv, Copies, CannotAsk \/ Take \/ Misses
    PROVE  Copies'
<1>1. /\ UNCHANGED <<op, place, job, inbox, strayed, crossed>>
      /\ pc \in Asking \cup {"complete"}
  BY DEF CannotAsk, Take, Misses, serving, ghosts, FtpInv, Stand
<1>2. PICK r : OnReply(r) /\ Heard(r)
  <2>1. CASE Take
    BY <2>1 DEF Take, Heard
  <2>2. CASE CannotAsk \/ Misses
    <3>1. open[ctrl] => asked /\ ~Owed(ctrl)
      <4>1. ctrl # 0
        BY <1>1, AtAnswer
      <4> QED BY <2>2, <4>1 DEF CannotAsk, Misses, Connected
    <3>2. ~Owed(ctrl) => ~Pending(ctrl) /\ ~Replied(ctrl) /\ ~Begun(ctrl)
      <4>1. Len(<<>>) # 1
        OBVIOUS
      <4> QED BY <4>1 DEF Owed, Pending, Replied, Begun
    <3>3. open[ctrl] => pc = "complete"
      <4>1. ctrl # 0
        BY <1>1, AtAnswer
      <4> QED BY <1>1, <3>1, <3>2, <4>1 DEF FtpInv, Protocol, Agreed
    <3> QED BY <2>2, <3>3 DEF CannotAsk, Misses, Heard
  <2> QED BY <2>1, <2>2
<1>3. Told'
  BY <1>2, AnswerTold
<1>4. \A s \in Sessions : Jobbing(s)'
  BY <1>1 DEF Copies, Jobbing
<1>5. ASSUME Clean' PROVE Held' /\ Kept'
  <2>1. Held /\ Kept /\ Told
    BY <1>1, <1>5 DEF Copies, Clean
  <2>2. Held'
    BY <1>1, <1>2, <2>1, AnswerHolds
  <2>3. Kept'
    BY <1>1, <1>2, <2>1, NamesKept, SizedKept, RestKept, ModeKept, BegunKept, CompletionKept
       DEF OnReply
  <2> QED BY <2>2, <2>3
<1> QED BY <1>3, <1>4, <1>5 DEF Copies

\* A fault: a data connection dies, a control connection goes.
LEMMA FaultCopies ==
    ASSUME FtpInv, Copies, UNCHANGED client,
           UNCHANGED <<place, inbox, replies, job, copy, strayed, crossed>>,
           \A t \in Sessions : open'[t] => open[t],
           \A t \in Sessions : data'[t] = data[t] \/ data'[t] = Broken
    PROVE  Copies'
<1>1. UNCHANGED <<pc, asked, op, ctrl, rc, have, result>>
  BY DEF client
<1>2. Told' /\ \A s \in Sessions : Jobbing(s)'
  BY <1>1 DEF Copies, Told, Jobbing
<1>3. Broken.pieces = <<>> /\ Broken.at = "broken"
  BY DEF Broken
<1>4. ASSUME Clean' PROVE Held' /\ Kept'
  <2>1. Held /\ Kept /\ FtpTypes
    BY <1>4 DEF Copies, Clean, FtpInv
  <2>2. Up' = Up /\ Down' = Down
    BY DEF Up, Down
  <2>3. Prefix(Up)' = Prefix(Up) /\ Prefix(Down)' = Prefix(Down) /\ Bare' = Bare
    BY <2>2 DEF Prefix, Bare
  <2>4. Prefix(Down)' \/ Len(Down') > Total
    BY <2>1, <2>2, <2>3 DEF Held, Sane
  <2>5. Held'
    BY <1>1, <1>3, <2>1, <2>2, <2>4, ClientHolds
  <2>6. /\ TransferAnswered' = TransferAnswered /\ Storing(ctrl)' = Storing(ctrl)
        /\ Writing(ctrl)' = Writing(ctrl)
    BY <1>1 DEF TransferAnswered, Storing, Writing
  <2>7. pc \notin {"idle", "connect"} => ctrl \in Sessions
    BY DEF FtpInv, Stand, FtpTypes, ClientTypes
  <2>8. TransferAnswered => ctrl \in Sessions
    BY <2>7, Places DEF TransferAnswered
  <2>9. Measured'
    BY <1>1, <2>1, <2>2 DEF Kept, Measured
  <2>10. Resumes'
    BY <1>1, <2>1, <2>2, <2>3, <2>6, <2>7 DEF Kept, Resumes
  <2>11. TransferAnswered =>
            data'[ctrl] = data[ctrl] \/ (data'[ctrl].pieces = <<>> /\ data'[ctrl].at = "broken")
    BY <1>3, <2>8
  <2>12. Uploads'
    BY <1>1, <2>1, <2>2, <2>3, <2>6, <2>11 DEF Kept, Uploads
  <2>13. Downloads'
    <3>1. op = "download" /\ TransferAnswered => Follows(data[ctrl].pieces, have)'
      <4>1. Follows(data[ctrl].pieces, have)' = Follows(data'[ctrl].pieces, have)
        BY <1>1 DEF Follows
      <4>2. have \in 0..Total
        BY <2>1, CopyTypes
      <4> QED BY <2>1, <2>11, <4>1, <4>2, NoPieces DEF Kept, Downloads
    <3> QED BY <1>1, <2>1, <2>2, <2>3, <2>6, <2>11, <3>1 DEF Kept, Downloads
  <2> QED BY <2>5, <2>9, <2>10, <2>12, <2>13 DEF Kept
<1> QED BY <1>2, <1>4 DEF Copies

\* A call begins, a client is made: nothing is gone by yet.
LEMMA BeginCopies ==
    ASSUME FtpInv, Copies, Begin
    PROVE  Copies'
<1>1. /\ asked' = FALSE /\ pc' \in {"connect", "noop"} /\ ctrl' = ctrl
      /\ UNCHANGED <<place, inbox, replies, job, copy, data, strayed, crossed>>
  BY DEF Begin, Goto, serving, wires, ghosts
<1>2. Told' /\ Kept'
  BY <1>1, AtRest
<1>3. \A s \in Sessions : Jobbing(s)'
  BY <1>1 DEF Copies, Jobbing
<1>4. ASSUME Clean' PROVE Held'
  <2>1. Held /\ FtpTypes
    BY <1>1, <1>4 DEF Copies, Clean, FtpInv
  <2>2. Up' = Up /\ Down' = Down
    BY <1>1 DEF Up, Down
  <2>3. Prefix(Down)' \/ Len(Down') > Total
    BY <2>1, <2>2 DEF Held, Sane, Prefix
  <2> QED BY <1>1, <2>1, <2>2, <2>3, ClientHolds
<1> QED BY <1>2, <1>3, <1>4 DEF Copies

\* A client is made, with a session that no other one stores beside, or none.
LEMMA ConnectCopies ==
    ASSUME FtpInv, Copies, MakeClient
    PROVE  Copies'
<1>1. /\ asked' = FALSE /\ UNCHANGED <<inbox, job, data, strayed>> /\ copy' = copy
      /\ \/ pc' \in {"cwd", "total", "connect"}
         \/ pc' = "idle" /\ result' # "ok"
  BY DEF MakeClient, Goto, Return
<1>2. Told' /\ Kept'
  BY <1>1, AtRest
<1>3. \/ place' = place /\ ctrl' = ctrl /\ crossed' = crossed
      \/ \E s \in Sessions :
            /\ place[s] = "none" /\ place' = [place EXCEPT ![s] = "command"] /\ ctrl' = s
            /\ crossed' = (crossed \/ \E r \in Sessions : Storing(r))
  BY DEF MakeClient
<1>4. Up' = Up /\ Down' = Down
  BY <1>1 DEF Up, Down
<1>5. Prefix(Up)' = Prefix(Up) /\ Prefix(Down)' = Prefix(Down) /\ Bare' = Bare
  BY <1>4 DEF Prefix, Bare
<1>6. CASE place' = place /\ ctrl' = ctrl /\ crossed' = crossed
  <2>1. \A s \in Sessions : Jobbing(s)'
    BY <1>1, <1>6 DEF Copies, Jobbing
  <2>2. Clean' => Held /\ FtpTypes
    BY <1>1, <1>6 DEF Copies, Clean, FtpInv
  <2>3. Held => Prefix(Down)' \/ Len(Down') > Total
    BY <1>4, <1>5 DEF Held, Sane
  <2>4. Clean' => Held'
    BY <1>1, <1>4, <1>6, <2>2, <2>3, ClientHolds
  <2> QED BY <1>2, <2>1, <2>4 DEF Copies
<1>7. ASSUME NEW s \in Sessions, place[s] = "none", place' = [place EXCEPT ![s] = "command"],
             ctrl' = s, crossed' = (crossed \/ \E r \in Sessions : Storing(r))
      PROVE  Copies'
  <2>1. inbox[s] = <<>> /\ place \in [Sessions -> {"none", "command", "dial", "move", "ended"}]
    BY <1>7 DEF FtpInv, Sound, FtpTypes, SessionTypes
  <2>2. place'[s] = "command" /\ \A t \in Sessions \ {s} : place'[t] = place[t]
    BY <1>7, <2>1
  <2>3. \A t \in Sessions : Jobbing(t)'
    BY <1>1, <2>2 DEF Copies, Jobbing
  <2>4. ASSUME Clean' PROVE Held'
    <3>1. Held /\ \A t \in Sessions : ~Storing(t)
      BY <1>1, <1>7, <2>4 DEF Copies, Clean
    <3>2. \A t \in Sessions : ~Storing(t)'
      <4>1. DOMAIN <<>> = {}
        OBVIOUS
      <4> QED BY <1>1, <2>1, <2>2, <3>1, <4>1 DEF Storing
    <3>3. Sane' /\ Alone'
      BY <1>4, <1>5, <3>1, <3>2 DEF Held, Sane, Alone
    <3>4. \A t \in Sessions : Stores(t)' /\ Ordered(t)'
      <4> TAKE t \in Sessions
      <4>1. Stores(t) /\ Ordered(t)
        BY <3>1 DEF Held
      <4>2. Stores(t)'
        BY <1>1, <1>4, <1>5, <2>2, <4>1 DEF Stores, Writing, Follows
      <4>3. Ordered(t)'
        BY <1>1, <1>4, <1>5, <2>1, <2>2, <4>1 DEF Ordered
      <4> QED BY <4>2, <4>3
    <3> QED BY <3>3, <3>4 DEF Held
  <2> QED BY <1>2, <2>3, <2>4 DEF Copies
<1> QED BY <1>3, <1>6, <1>7

\* A command is sent: the session gets it, and with it where the transfer is to begin.
LEMMA AskCopies ==
    ASSUME FtpInv, Copies, Ask
    PROVE  Copies'
<1>1. /\ pc \in Asking /\ ~asked /\ ctrl # 0 /\ open[ctrl] /\ asked' = TRUE
      /\ inbox' = [inbox EXCEPT ![ctrl] = Append(inbox[ctrl], ClientCommand)]
      /\ data' = IF pc = "mode"
                 THEN [data EXCEPT ![ctrl] = [NoData EXCEPT !.at = IF passive THEN "none"
                                                                   ELSE "listening"]]
                 ELSE data
      /\ UNCHANGED <<pc, op, ctrl, rc, have, result, copy, place, job, open, replies>>
      /\ UNCHANGED <<strayed, crossed>>
  BY DEF Ask, Connected, serving, ghosts
<1>2. ctrl \in Sessions /\ Silent(ctrl) /\ ClientCommand \in Commands /\ FtpTypes
  BY <1>1, CommandIs DEF FtpInv, FtpTypes, ClientTypes, SessionTypes, Protocol, Agreed
<1>3. /\ inbox \in [Sessions -> Seq(Commands)] /\ data \in [Sessions -> Links]
      /\ have \in 0..Total /\ Total \in Nat
  BY <1>2, CopyTypes DEF FtpTypes, SessionTypes
<1>4. /\ inbox'[ctrl] = <<ClientCommand>> /\ Len(inbox'[ctrl]) = 1
      /\ Head(inbox'[ctrl]) = ClientCommand /\ inbox'[ctrl][1] = ClientCommand
      /\ DOMAIN inbox'[ctrl] = {1}
      /\ \A t \in Sessions \ {ctrl} : inbox'[t] = inbox[t]
  <2>1. Append(inbox[ctrl], ClientCommand) = <<ClientCommand>>
    BY <1>2 DEF Silent
  <2>2. inbox'[ctrl] = <<ClientCommand>> /\ \A t \in Sessions \ {ctrl} : inbox'[t] = inbox[t]
    BY <1>1, <1>2, <1>3, <2>1
  <2>3. \A c \in Commands : Len(<<c>>) = 1 /\ Head(<<c>>) = c /\ <<c>>[1] = c /\ DOMAIN <<c>> = {1}
    OBVIOUS
  <2> QED BY <1>2, <2>2, <2>3
<1>5. /\ \A t \in Sessions \ {ctrl} : data'[t] = data[t]
      /\ pc # "mode" => data' = data
      /\ pc = "mode" => data'[ctrl].pieces = <<>>
  <2> DEFINE e == [NoData EXCEPT !.at = IF passive THEN "none" ELSE "listening"]
  <2>1. e.pieces = <<>>
    BY DEF NoData
  <2>2. data' = IF pc = "mode" THEN [data EXCEPT ![ctrl] = e] ELSE data
    BY <1>1
  <2> HIDE DEF e
  <2> QED BY <1>2, <1>3, <2>1, <2>2
<1>6. Told' /\ \A s \in Sessions : Jobbing(s)'
  BY <1>1, <1>2 DEF Copies, Told, Jobbing, Silent
<1>7. ASSUME Clean' PROVE Held' /\ Kept'
  <2>1. Held /\ Kept
    BY <1>1, <1>7 DEF Copies, Clean
  <2>2. Up' = Up /\ Down' = Down
    BY <1>1 DEF Up, Down
  <2>3. Prefix(Up)' = Prefix(Up) /\ Prefix(Down)' = Prefix(Down) /\ Bare' = Bare
    BY <2>2 DEF Prefix, Bare
  <2>4. \A t \in Sessions \ {ctrl} : Storing(t)' = Storing(t)
    BY <1>1, <1>4 DEF Storing
  <2>5. Alone'
    <3>1. \A r \in Sessions : Storing(r)' => r = ctrl
      BY <1>1, <2>1, <2>4 DEF Held, Alone
    <3> QED BY <1>1, <3>1 DEF Alone
  <2>6. \A t \in Sessions : Stores(t)'
    <3> SUFFICES ASSUME NEW t \in Sessions, Writing(t)' PROVE Stores(t)'
      BY DEF Stores
    <3>1. Writing(t) /\ t # ctrl
      BY <1>1, <1>2 DEF Writing, Silent
    <3>2. Follows(data[t].pieces, job[t].written)' = Follows(data[t].pieces, job[t].written)
      BY <1>1, <1>5, <3>1 DEF Follows
    <3> QED BY <1>1, <2>1, <2>2, <2>3, <3>1, <3>2 DEF Held, Stores
  <2>7. \A t \in Sessions \ {ctrl} : Ordered(t)'
    <3> TAKE t \in Sessions \ {ctrl}
    <3>1. Ordered(t)
      BY <2>1 DEF Held
    <3> QED BY <1>1, <1>4, <1>5, <2>2, <2>3, <3>1 DEF Ordered
  <2>8. Ordered(ctrl)'
    <3>1. ClientCommand.verb \in {"STOR", "APPE"} =>
             /\ pc = "verb" /\ op = "upload" /\ ClientCommand.arg = have
             /\ ClientCommand.verb = IF have > 0 THEN "APPE" ELSE "STOR"
      <4>1. ClientCommand.verb \in {"STOR", "APPE"} => pc = "verb" /\ op # "download"
        BY <1>1, <1>2, CommandIs
      <4>2. op \in {"upload", "download"}
        BY <1>2 DEF FtpTypes, ClientTypes, Ways
      <4> QED BY <4>1, <4>2 DEF ClientCommand
    <3>2. pc = "verb" => data'[ctrl].pieces = <<>>
      BY <1>1, <1>5, Places DEF FtpInv, Offset, Unanswered
    <3>3. op = "upload" /\ pc = "verb" =>
             /\ have > 0 => Len(Up) = have /\ Prefix(Up)
             /\ have = 0 => Bare
      BY <1>1, <2>1 DEF Kept, Resumes
    <3>4. ClientCommand.verb = "STOR" => ClientCommand.arg = 0 /\ Bare /\ data'[ctrl].pieces = <<>>
      <4>1. ~(have > 0) => have = 0
        BY <1>3
      <4>2. ClientCommand.verb = "STOR" => pc = "verb" /\ op = "upload" /\ have = 0
        BY <3>1, <4>1
      <4> QED BY <3>1, <3>2, <3>3, <4>2
    <3>5. ClientCommand.verb = "APPE" =>
             ClientCommand.arg = Len(Up) /\ Prefix(Up) /\ data'[ctrl].pieces = <<>>
      <4>1. ClientCommand.verb = "APPE" => pc = "verb" /\ op = "upload" /\ have > 0
        BY <3>1
      <4> QED BY <3>1, <3>2, <3>3, <4>1
    <3>6. place'[ctrl] = "command"
      BY <1>1, <1>2 DEF Silent
    <3> DEFINE c == ClientCommand
    <3>7. Head(inbox'[ctrl]) = c /\ Len(inbox'[ctrl]) = 1
      BY <1>4
    <3> HIDE DEF c
    <3>8. /\ c.verb = "STOR" => c.arg = 0 /\ Bare /\ data'[ctrl].pieces = <<>>
          /\ c.verb = "APPE" => c.arg = Len(Up) /\ Prefix(Up) /\ data'[ctrl].pieces = <<>>
      BY <3>4, <3>5 DEF c
    <3> QED BY <1>1, <2>2, <2>3, <3>6, <3>7, <3>8 DEF Ordered
  <2>9. Held'
    <3>1. Sane'
      BY <2>1, <2>2, <2>3 DEF Held, Sane
    <3>2. \A t \in Sessions : Ordered(t)'
      <4>1. \A t \in Sessions : t # ctrl => Ordered(t)'
        BY <2>7
      <4>2. \A t \in Sessions : t = ctrl => Ordered(t)'
        BY <1>1, <2>8 DEF Ordered
      <4> QED BY <4>1, <4>2
    <3> QED BY <2>5, <2>6, <3>1, <3>2 DEF Held
  <2>10. replies'[ctrl'] = <<>> /\ ~TransferAnswered'
    BY <1>1, <1>2, Places DEF Silent, TransferAnswered
  <2>11. Measured'
    BY <2>10 DEF Measured
  <2>12. Resumes'
    <3>1. pc = "mode" => ~Storing(ctrl)'
      <4>1. pc = "mode" => ClientCommand.verb \notin {"STOR", "APPE"}
        BY <1>1, <1>2, CommandIs
      <4> QED BY <1>1, <1>2, <1>4, <4>1 DEF Storing, Silent
    <3>2. pc = "mode" /\ op = "upload" =>
             /\ have > 0 => Len(Up) = have /\ Prefix(Up)
             /\ have = 0 => Bare
      BY <1>1, <2>1 DEF Kept, Resumes
    <3> QED BY <1>1, <2>2, <2>3, <3>1, <3>2 DEF Resumes
  <2>13. Uploads' /\ Downloads'
    <3>1. pc \notin {"idle", "complete"}
      BY <1>1, Places
    <3> QED BY <1>1, <2>1, <2>2, <2>3, <2>10, <3>1 DEF Kept, Uploads, Downloads
  <2> QED BY <2>9, <2>11, <2>12, <2>13 DEF Kept
<1> QED BY <1>6, <1>7 DEF Copies

\* The client ends a transfer: what has been copied stays.
LEMMA EndCopies ==
    ASSUME FtpInv, Copies, pc \in {"accept", "move"}, pc' = "complete",
           UNCHANGED <<op, ctrl, have, copy, place, job, inbox, strayed, crossed>>,
           data' = data \/ data' = DataClosed(ctrl)
    PROVE  Copies'
<1>1. TransferAnswered /\ FtpTypes /\ ctrl \in Sessions /\ data \in [Sessions -> Links]
  <2>1. ctrl \in Sessions
    BY DEF FtpInv, Stand, FtpTypes, ClientTypes
  <2> QED BY <2>1 DEF TransferAnswered, FtpInv, FtpTypes, SessionTypes
<1>2. \A s \in Sessions : Jobbing(s)'
  BY DEF Copies, Jobbing
<1>3. Up' = Up /\ Down' = Down
  BY DEF Up, Down
<1>4. Prefix(Up)' = Prefix(Up) /\ Prefix(Down)' = Prefix(Down)
  BY <1>3 DEF Prefix
<1>5. \A t \in Sessions : data'[t].pieces = data[t].pieces
  <2> DEFINE d == [data[ctrl] EXCEPT !.at = IF data[ctrl].at \in {"open", "ended"} THEN "closed"
                                            ELSE data[ctrl].at]
  <2>1. data[ctrl] \in Links
    BY <1>1
  <2>2. d.pieces = data[ctrl].pieces
    BY <2>1 DEF Links
  <2>3. data' = data \/ data' = [data EXCEPT ![ctrl] = d]
    BY DEF DataClosed
  <2> HIDE DEF d
  <2> QED BY <1>1, <2>2, <2>3
<1>6. Told'
  BY Places DEF Told
<1>7. ASSUME Clean' PROVE Held' /\ Kept'
  <2>1. Held /\ Kept
    BY <1>7 DEF Copies, Clean
  <2>2. Prefix(Down)' \/ Len(Down') > Total
    BY <1>3, <1>4, <2>1 DEF Held, Sane
  <2>3. Held'
    BY <1>1, <1>3, <1>5, <2>1, <2>2, ClientHolds
  <2>4. op = "upload" => Prefix(Up)
    BY <1>1, <2>1 DEF Kept, Uploads
  <2>5. op = "download" => Prefix(Down) /\ Len(Down) = have
    BY <2>1 DEF Kept, Downloads
  <2>6. Kept'
    BY <1>3, <1>4, <2>4, <2>5, AtEnd
  <2> QED BY <2>3, <2>6
<1> QED BY <1>2, <1>6, <1>7 DEF Copies

\* ncl_ftp_client_accept_data
LEMMA AcceptCopies ==
    ASSUME FtpInv, Copies, Accept
    PROVE  Copies'
<1>1. /\ UNCHANGED <<op, ctrl, have, copy, place, job, inbox, replies, strayed, crossed, data>>
      /\ pc = "accept"
      /\ \/ pc' = "complete"
         \/ pc' = "move" /\ asked' = FALSE
  BY DEF Accept, Goto, FtpFails, serving, wires, ghosts
<1>2. CASE pc' = "complete"
  BY <1>1, <1>2, EndCopies
<1>3. CASE pc' = "move" /\ asked' = FALSE
  <2>1. TransferAnswered /\ FtpTypes /\ ctrl \in Sessions
    BY <1>1 DEF TransferAnswered, FtpInv, Stand, FtpTypes, ClientTypes
  <2>2. \A s \in Sessions : Jobbing(s)'
    BY <1>1 DEF Copies, Jobbing
  <2>3. Up' = Up /\ Down' = Down
    BY <1>1 DEF Up, Down
  <2>4. /\ Prefix(Up)' = Prefix(Up) /\ Prefix(Down)' = Prefix(Down)
        /\ Writing(ctrl)' = Writing(ctrl)
        /\ Follows(data[ctrl].pieces, have)' = Follows(data[ctrl].pieces, have)
    BY <1>1, <2>3 DEF Prefix, Writing, Follows
  <2>5. ASSUME Clean' PROVE Held' /\ Kept'
    <3>1. Held /\ Kept
      BY <1>1, <2>5 DEF Copies, Clean
    <3>2. Prefix(Down)' \/ Len(Down') > Total
      BY <2>3, <2>4, <3>1 DEF Held, Sane
    <3>3. Held'
      BY <1>1, <2>1, <2>3, <3>1, <3>2, ClientHolds
    <3>4. Measured' /\ Resumes'
      BY <1>3 DEF Measured, Resumes
    <3>5. Uploads'
      BY <1>1, <1>3, <2>1, <2>3, <2>4, <3>1 DEF Kept, Uploads
    <3>6. Downloads'
      BY <1>1, <1>3, <2>1, <2>3, <2>4, <3>1 DEF Kept, Downloads
    <3> QED BY <3>3, <3>4, <3>5, <3>6 DEF Kept
  <2>6. Told'
    BY <1>3 DEF Told
  <2> QED BY <2>2, <2>5, <2>6 DEF Copies
<1> QED BY <1>1, <1>2, <1>3

\* The loop of ncl_ftp_client_upload: the next piece follows those under way.
LEMMA SendPieceCopies ==
    ASSUME FtpInv, Copies, SendPiece
    PROVE  Copies'
<1>1. /\ UNCHANGED <<op, ctrl, copy, place, job, inbox, replies, strayed, crossed>>
      /\ pc = "move" /\ op = "upload"
  BY DEF SendPiece, Ends, serving, wires, ghosts
<1>2. TransferAnswered /\ FtpTypes /\ ctrl \in Sessions /\ data \in [Sessions -> Links]
  BY <1>1 DEF TransferAnswered, FtpInv, Stand, FtpTypes, ClientTypes, SessionTypes
<1>3. CASE \E ok : Ends(ok)
  BY <1>1, <1>3, EndCopies DEF Ends
<1>4. CASE /\ have < Total /\ data[ctrl].at = "open"
           /\ data' = [data EXCEPT ![ctrl].pieces = Append(data[ctrl].pieces, have + 1)]
           /\ have' = have + 1
           /\ UNCHANGED <<pc, asked, rc>>
  <2>1. /\ data'[ctrl].at = "open" /\ data'[ctrl].pieces = Append(data[ctrl].pieces, have + 1)
        /\ \A t \in Sessions \ {ctrl} : data'[t] = data[t]
    <3> DEFINE d == [data[ctrl] EXCEPT !.pieces = Append(data[ctrl].pieces, have + 1)]
    <3>1. data[ctrl] \in Links
      BY <1>2
    <3>2. d.at = "open" /\ d.pieces = Append(data[ctrl].pieces, have + 1)
      BY <1>4, <3>1 DEF Links
    <3>3. data' = [data EXCEPT ![ctrl] = d]
      BY <1>4
    <3> HIDE DEF d
    <3> QED BY <1>2, <3>2, <3>3
  <2>2. \A s \in Sessions : Jobbing(s)'
    BY <1>1 DEF Copies, Jobbing
  <2>3. Told'
    BY <1>1, <1>4, Places DEF Told
  <2>4. Up' = Up /\ Down' = Down
    BY <1>1 DEF Up, Down
  <2>5. Prefix(Up)' = Prefix(Up) /\ Prefix(Down)' = Prefix(Down) /\ Writing(ctrl)' = Writing(ctrl)
    BY <1>1, <2>4 DEF Prefix, Writing
  <2>6. ASSUME Clean' PROVE Held' /\ Kept'
    <3>1. Held /\ Kept
      BY <1>1, <2>6 DEF Copies, Clean
    <3>2. /\ data[ctrl].pieces \in Seq(Nat) /\ job[ctrl].written \in Nat
          /\ have \in Nat /\ Len(data[ctrl].pieces) \in Nat
      BY <1>2, CopyTypes
    <3>3. inbox[ctrl] = <<>>
      BY <1>2 DEF FtpInv, Bounded
    <3>4. Writing(ctrl) =>
             /\ Follows(data'[ctrl].pieces, job[ctrl].written)
             /\ have + 1 = job[ctrl].written + Len(data'[ctrl].pieces)
      <4> SUFFICES ASSUME Writing(ctrl)
                   PROVE  /\ Follows(data'[ctrl].pieces, job[ctrl].written)
                          /\ have + 1 = job[ctrl].written + Len(data'[ctrl].pieces)
        OBVIOUS
      <4>1. have = job[ctrl].written + Len(data[ctrl].pieces)
        BY <1>1, <1>2, <1>4, <3>1 DEF Kept, Uploads
      <4>2. Follows(data[ctrl].pieces, job[ctrl].written)
        BY <1>2, <3>1 DEF Held, Stores
      <4> DEFINE q == data[ctrl].pieces  n == job[ctrl].written
      <4>3. q \in Seq(Nat) /\ n \in Nat /\ Follows(q, n) /\ n + Len(q) < Total
        BY <1>4, <3>2, <4>1, <4>2
      <4>4. /\ Follows(Append(q, n + Len(q) + 1), n)
            /\ Len(Append(q, n + Len(q) + 1)) = Len(q) + 1
        BY <4>3, PieceSent
      <4>5. data'[ctrl].pieces = Append(q, n + Len(q) + 1)
        BY <2>1, <4>1
      <4>6. have + 1 = n + (Len(q) + 1)
        BY <3>2, <4>1
      <4> QED BY <4>4, <4>5, <4>6
    <3>5. Prefix(Down)' \/ Len(Down') > Total
      BY <2>4, <2>5, <3>1 DEF Held, Sane
    <3>6. \A t \in Sessions :
             \/ data'[t].pieces = data[t].pieces
             \/ /\ inbox[t] = <<>>
                /\ Writing(t) => Follows(data'[t].pieces, job[t].written)
      <4> TAKE t \in Sessions
      <4>1. CASE t = ctrl
        BY <3>3, <3>4, <4>1
      <4>2. CASE t # ctrl
        BY <2>1, <4>2
      <4> QED BY <4>1, <4>2
    <3>7. Held'
      BY <1>1, <1>2, <2>4, <3>1, <3>5, <3>6, ClientHolds
    <3>8. Measured' /\ Resumes' /\ Downloads'
      BY <1>1, <1>4 DEF Measured, Resumes, Downloads
    <3>9. Uploads'
      BY <1>1, <1>2, <1>4, <2>4, <2>5, <3>1, <3>4 DEF Kept, Uploads
    <3> QED BY <3>7, <3>8, <3>9 DEF Kept
  <2> QED BY <2>2, <2>3, <2>6 DEF Copies
<1> QED BY <1>3, <1>4 DEF SendPiece

\* The loop of ncl_ftp_client_download: the next piece goes where the copy ends.
LEMMA TakePieceCopies ==
    ASSUME FtpInv, Copies, TakePiece
    PROVE  Copies'
<1>1. /\ UNCHANGED <<op, ctrl, place, job, inbox, replies, strayed, crossed>>
      /\ pc = "move" /\ op = "download"
  BY DEF TakePiece, Ends, serving, wires, ghosts
<1>2. /\ TransferAnswered /\ FtpTypes /\ ctrl \in Sessions /\ data \in [Sessions -> Links]
      /\ copy \in [Ways -> Seq(Nat)]
  BY <1>1 DEF TransferAnswered, FtpInv, Stand, FtpTypes, ClientTypes, SessionTypes
<1>3. CASE \E ok : Ends(ok)
  BY <1>1, <1>3, EndCopies DEF Ends
<1>4. CASE /\ data[ctrl].pieces # <<>>
           /\ data' = [data EXCEPT ![ctrl].pieces = Tail(data[ctrl].pieces)]
           /\ copy' = [copy EXCEPT !["download"] =
                         Append(copy["download"], Head(data[ctrl].pieces))]
           /\ have' = have + 1
           /\ UNCHANGED <<pc, asked, rc>>
  <2>1. /\ data'[ctrl].at = data[ctrl].at /\ data'[ctrl].pieces = Tail(data[ctrl].pieces)
        /\ \A t \in Sessions \ {ctrl} : data'[t] = data[t]
    <3> DEFINE d == [data[ctrl] EXCEPT !.pieces = Tail(data[ctrl].pieces)]
    <3>1. data[ctrl] \in Links
      BY <1>2
    <3>2. d.at = data[ctrl].at /\ d.pieces = Tail(data[ctrl].pieces)
      BY <3>1 DEF Links
    <3>3. data' = [data EXCEPT ![ctrl] = d]
      BY <1>4
    <3> HIDE DEF d
    <3> QED BY <1>2, <3>2, <3>3
  <2>2. \A s \in Sessions : Jobbing(s)'
    BY <1>1 DEF Copies, Jobbing
  <2>3. Told'
    BY <1>1, <1>4, Places DEF Told
  <2>4. Up' = Up /\ Down' = Append(Down, Head(data[ctrl].pieces))
    BY <1>2, <1>4 DEF Up, Down, Ways
  <2>5. ASSUME Clean' PROVE Held' /\ Kept'
    <3>1. Held /\ Kept
      BY <1>1, <2>5 DEF Copies, Clean
    <3>2. /\ data[ctrl].pieces \in Seq(Nat) /\ Len(data[ctrl].pieces) \in Nat
          /\ have \in Nat /\ Down \in Seq(Nat)
      BY <1>2, CopyTypes
    <3>3. Prefix(Down) /\ Len(Down) = have /\ Follows(data[ctrl].pieces, have)
      BY <1>1, <1>2, <3>1 DEF Kept, Downloads
    <3>4. /\ Head(data[ctrl].pieces) = have + 1 /\ have < Total
          /\ Follows(Tail(data[ctrl].pieces), have + 1)
          /\ Len(Tail(data[ctrl].pieces)) = Len(data[ctrl].pieces) - 1
      BY <1>4, <3>2, <3>3, PieceTaken
    <3>5. Prefix(Down') /\ Len(Down') = have + 1
      BY <2>4, <3>2, <3>3, <3>4, PrefixGrows
    <3>6. Prefix(Down)' = Prefix(Down')
      BY DEF Prefix
    <3>7. inbox[ctrl] = <<>> /\ ~Writing(ctrl)
      BY <1>1, <1>2 DEF FtpInv, Bounded, Writing
    <3>8. \A t \in Sessions : data'[t].pieces = data[t].pieces \/ (inbox[t] = <<>> /\ ~Writing(t))
      <4> TAKE t \in Sessions
      <4>1. CASE t = ctrl
        BY <3>7, <4>1
      <4>2. CASE t # ctrl
        BY <2>1, <4>2
      <4> QED BY <4>1, <4>2
    <3>9. Held'
      BY <1>1, <1>2, <2>4, <3>1, <3>5, <3>6, <3>8, ClientHolds
    <3>10. Measured' /\ Resumes' /\ Uploads'
      BY <1>1, <1>4 DEF Measured, Resumes, Uploads
    <3>11. Follows(data[ctrl].pieces, have)' = Follows(data'[ctrl].pieces, have + 1)
      BY <1>1, <1>4 DEF Follows
    <3>12. /\ place[ctrl] \in {"dial", "move"} /\ data[ctrl].at \in {"listening", "open", "leaked"}
              => job[ctrl].next = have + Len(data[ctrl].pieces)
      BY <1>1, <1>2, <3>1 DEF Kept, Downloads
    <3>13. have + Len(data[ctrl].pieces) = have + 1 + Len(Tail(data[ctrl].pieces))
      <4> DEFINE n == Len(data[ctrl].pieces)  k == Len(Tail(data[ctrl].pieces))
      <4>1. n \in Nat /\ have \in Nat /\ k = n - 1
        BY <3>2, <3>4
      <4> HIDE DEF n, k
      <4>2. have + n = have + 1 + k
        BY <4>1
      <4> QED BY <4>2 DEF n, k
    <3>14. Downloads'
      BY <1>1, <1>4, <2>1, <3>4, <3>5, <3>6, <3>11, <3>12, <3>13 DEF Downloads
    <3> QED BY <3>9, <3>10, <3>14 DEF Kept
  <2> QED BY <2>2, <2>3, <2>5 DEF Copies
<1> QED BY <1>3, <1>4 DEF TakePiece

\* A transfer is given up: what has been copied stays.
LEMMA GiveUpCopies ==
    ASSUME FtpInv, Copies, GiveUp
    PROVE  Copies'
<1>1. /\ UNCHANGED <<op, ctrl, have, copy, place, job, inbox, strayed, crossed>>
      /\ pc = "move" /\ pc' = "complete" /\ data' = DataClosed(ctrl)
  BY DEF GiveUp, Ends, serving, wires, ghosts
<1> QED BY <1>1, EndCopies

-----------------------------------------------------------------------------
(* Transfers: every step, and what the copies then are worth               *)

\* A step of a session keeps the copies in order; what has gone astray stays so.
LEMMA SessionKeepsCopies ==
    ASSUME FtpInv, FtpInv', Copies, NEW s \in Sessions, SessionStep(s)
    PROVE  Copies' /\ (Clean' => Clean)
<1>1. Clean' => Clean
  <2>1. crossed' = crossed /\ (strayed => strayed')
    <3>1. CASE Command(s)
      BY <3>1, Zenon DEF Command, Begins, Answers
    <3>2. CASE Dial(s) \/ Receive(s) \/ Send(s) \/ Leaves(s)
      BY <3>2 DEF Dial, Receive, Send, Leaves, ghosts
    <3> QED BY <3>1, <3>2 DEF SessionStep
  <2> QED BY <2>1 DEF Clean
<1>2. Told /\ \A t \in Sessions : Jobbing(t)
  BY DEF Copies
<1>3. Told' /\ \A t \in Sessions : Jobbing(t)'
  BY <1>2, SessionTold
<1>4. ASSUME Clean' PROVE Held' /\ Kept'
  <2>1. Held /\ Kept
    BY <1>1, <1>4 DEF Copies
  <2>2. Apart(s) /\ InOrder(s)
    BY <1>2, <1>4, <2>1, SessionCopies
  <2> QED BY <1>2, <1>4, <2>1, <2>2, SessionHolds, SessionKept
<1> QED BY <1>1, <1>3, <1>4 DEF Copies

\* The server stops, a connection is lost, a data connection dies.
LEMMA StopCopies ==
    ASSUME FtpInv, Copies, Stop \/ \E s \in Sessions : LoseControl(s) \/ BreakData(s)
    PROVE  Copies'
<1>1. open \in [Sessions -> BOOLEAN] /\ data \in [Sessions -> Links]
  BY DEF FtpInv, FtpTypes, SessionTypes
<1>2. UNCHANGED client /\ UNCHANGED <<place, inbox, replies, job, copy, strayed, crossed>>
  BY DEF Stop, LoseControl, BreakData, serving, wires, ghosts
<1>3. \A t \in Sessions : open'[t] => open[t]
  <2>1. CASE Stop
    BY <2>1 DEF Stop
  <2>2. ASSUME NEW s \in Sessions, LoseControl(s) PROVE \A t \in Sessions : open'[t] => open[t]
    BY <1>1, <2>2 DEF LoseControl
  <2>3. ASSUME NEW s \in Sessions, BreakData(s) PROVE open' = open
    BY <2>3 DEF BreakData, wires
  <2> QED BY <2>1, <2>2, <2>3
<1>4. \A t \in Sessions : data'[t] = data[t] \/ data'[t] = Broken
  <2>1. CASE Stop \/ \E s \in Sessions : LoseControl(s)
    BY <2>1 DEF Stop, LoseControl
  <2>2. ASSUME NEW s \in Sessions, BreakData(s)
        PROVE  \A t \in Sessions : data'[t] = data[t] \/ data'[t] = Broken
    BY <1>1, <2>2 DEF BreakData
  <2> QED BY <2>1, <2>2
<1> QED BY <1>2, <1>3, <1>4, FaultCopies

\* Nothing happens.
LEMMA CopiesStay == ASSUME FtpInv, Copies, UNCHANGED ftp_vars PROVE Copies'
<1>1. /\ UNCHANGED client
      /\ UNCHANGED <<place, inbox, replies, job, copy, strayed, crossed, open, data>>
  BY DEF ftp_vars, serving, wires, ghosts
<1> QED BY <1>1, FaultCopies

\* The steps that are not a session's leave the copy of an upload alone.
LEMMA UploadStays ==
    ASSUME FtpInv,
           \/ Begin \/ ClientStep \/ GiveUp \/ Stop \/ UNCHANGED ftp_vars
           \/ \E s \in Sessions : BreakData(s) \/ LoseControl(s)
    PROVE  Up' = Up
<1>1. copy \in [Ways -> Seq(Nat)]
  BY DEF FtpInv, FtpTypes, SessionTypes
<1>2. CASE CannotAsk \/ Take \/ Misses
  <2>1. pc \in Asking \cup {"complete"} /\ \E r : OnReply(r)
    BY <1>2 DEF CannotAsk, Take, Misses, FtpInv, Stand
  <2> QED BY <2>1, AnswerPieces
<1>3. CASE TakePiece
  <2>1. copy' = copy \/ \E f : copy' = [copy EXCEPT !["download"] = f]
    BY <1>3 DEF TakePiece, Ends
  <2> QED BY <1>1, <2>1 DEF Up, Ways
<1>4. CASE \/ Begin \/ MakeClient \/ Ask \/ Accept \/ SendPiece \/ GiveUp \/ Stop
           \/ UNCHANGED ftp_vars \/ \E s \in Sessions : BreakData(s) \/ LoseControl(s)
  <2>1. copy' = copy
    BY <1>4 DEF Begin, MakeClient, Ask, Accept, SendPiece, GiveUp, Ends, Stop, ftp_vars,
                BreakData, LoseControl
  <2> QED BY <2>1 DEF Up
<1> QED BY <1>2, <1>3, <1>4 DEF ClientStep

\* At the start there is no transfer, and a copy is the beginning of the file or too long.
LEMMA CopiesInit == FtpInit => Copies
<1> SUFFICES ASSUME FtpInit PROVE Copies
  OBVIOUS
<1>1. /\ pc = "idle" /\ asked = FALSE /\ ctrl = 0 /\ result = "none"
      /\ place = [s \in Sessions |-> "none"] /\ inbox = [s \in Sessions |-> <<>>]
  BY DEF FtpInit
<1>2. (\A s \in Sessions : Jobbing(s)) /\ Told
  BY <1>1 DEF Jobbing, Told, Asking, Verb
<1>3. Kept
  BY <1>1 DEF Kept, Measured, Resumes, Uploads, Downloads, TransferAnswered
<1>4. Alone /\ \A s \in Sessions : Stores(s) /\ Ordered(s)
  BY <1>1 DEF Alone, Storing, Stores, Ordered, Writing
<1>5. Sane
  <2>1. PICK f \in {SubSeq(Whole, 1, n) : n \in 0..Total} \cup {Stale} :
           copy = [upload |-> f, download |-> f]
    BY DEF FtpInit
  <2>2. Total \in Nat /\ Total + 1 \in Nat /\ Total + 1 > Total
    BY TransferAssumption DEF TransferAssumption
  <2>3. Len(Stale) > Total
    <3>1. Stale \in Seq({0}) /\ Len(Stale) = Total + 1
      BY <2>2 DEF Stale
    <3> QED BY <2>2, <3>1
  <2>4. ASSUME NEW n \in 0..Total PROVE Prefix(SubSeq(Whole, 1, n))
    <3>1. Whole \in Seq(Nat) /\ Len(Whole) = Total /\ \A i \in 1..Total : Whole[i] = i
      BY <2>2 DEF Whole
    <3>2. \A i \in 1..n : Whole[i] \in Nat
      BY <2>2, <3>1
    <3>3. Len(SubSeq(Whole, 1, n)) = n /\ \A i \in 1..n : SubSeq(Whole, 1, n)[i] = Whole[i]
      BY <2>2, <3>1
    <3> QED BY <2>2, <3>1, <3>3 DEF Prefix
  <2>5. Prefix(f) \/ Len(f) > Total
    BY <2>1, <2>3, <2>4
  <2> QED BY <2>1, <2>5 DEF Sane, Up, Down
<1> QED BY <1>2, <1>3, <1>4, <1>5 DEF Copies, Held

\* Every step keeps the copies in order.
LEMMA CopiesKeep == ASSUME FtpInv, FtpInv', Copies, [FtpNext]_ftp_vars PROVE Copies'
<1>1. CASE Begin
  BY <1>1, BeginCopies
<1>2. CASE ClientStep
  BY <1>2, ConnectCopies, AskCopies, AnswerCopies, AcceptCopies, SendPieceCopies,
     TakePieceCopies
     DEF ClientStep
<1>3. CASE GiveUp
  BY <1>3, GiveUpCopies
<1>4. CASE Stop \/ \E s \in Sessions : LoseControl(s) \/ BreakData(s)
  BY <1>4, StopCopies
<1>5. CASE \E s \in Sessions : SessionStep(s)
  BY <1>5, SessionKeepsCopies
<1>6. CASE UNCHANGED ftp_vars
  BY <1>6, CopiesStay
<1> QED BY <1>1, <1>2, <1>3, <1>4, <1>5, <1>6 DEF FtpNext, ToolRests

\* A transfer that is reported as done has left a copy of the whole file.
LEMMA DoneIsWhole == ASSUME FtpInv, Copies PROVE OkMeansWhole
<1> SUFFICES ASSUME pc = "idle", result = "ok", Clean PROVE copy[op] = Whole
  BY DEF OkMeansWhole, Clean
<1>1. Up \in Seq(Nat) /\ Down \in Seq(Nat) /\ op \in {"upload", "download"}
  BY CopyTypes DEF FtpInv, FtpTypes, ClientTypes, Ways
<1>2. op = "upload" => Prefix(Up) /\ Len(Up) = Total
  BY DEF Copies, Kept, Uploads
<1>3. op = "download" => Prefix(Down) /\ Len(Down) = Total
  BY DEF Copies, Kept, Downloads
<1> QED BY <1>1, <1>2, <1>3, CompleteIsWhole DEF Up, Down

\* No step cuts the beginning of the file that an upload has brought over.
LEMMA PrefixStays ==
    ASSUME FtpInv, FtpInv', Copies, [FtpNext]_ftp_vars, IsPrefix(copy["upload"], Whole), Clean'
    PROVE  Len(copy'["upload"]) >= Len(copy["upload"])
<1>1. Up \in Seq(Nat) /\ Len(Up) \in Nat /\ Len(Whole) = Total /\ Len(Up) <= Total
  <2>1. Up \in Seq(Nat) /\ Len(Up) \in Nat /\ Total \in Nat
    BY CopyTypes DEF FtpInv
  <2>2. Len(Whole) = Total
    BY <2>1 DEF Whole
  <2> QED BY <2>1, <2>2 DEF IsPrefix, Up
<1>2. CASE \E s \in Sessions : SessionStep(s)
  <2>1. PICK s \in Sessions : SessionStep(s)
    BY <1>2
  <2>2. Held /\ Jobbing(s)
    BY <2>1, SessionKeepsCopies DEF Copies
  <2>3. InOrder(s)
    BY <2>1, <2>2, SessionCopies
  <2> QED BY <1>1, <2>3 DEF InOrder, Up
<1>3. CASE \/ Begin \/ ClientStep \/ GiveUp \/ Stop \/ UNCHANGED ftp_vars
           \/ \E s \in Sessions : BreakData(s) \/ LoseControl(s)
  <2>1. Up' = Up
    BY <1>3, UploadStays
  <2> QED BY <1>1, <2>1 DEF Up
<1> QED BY <1>2, <1>3 DEF FtpNext, ToolRests

\* "Returns NCL_OK only when the peer ends up holding the whole file".
THEOREM DoneMeansWhole == FtpSpec => []OkMeansWhole
<1>1. FtpInit => FtpInv /\ Copies
  BY FtpInvInit, CopiesInit
<1>2. FtpInv /\ Copies /\ [FtpNext]_ftp_vars => (FtpInv /\ Copies)'
  BY FtpInvKeeps, CopiesKeep
<1>3. FtpInv /\ Copies => OkMeansWhole
  BY DoneIsWhole
<1> QED BY <1>1, <1>2, <1>3, PTL DEF FtpSpec

\* "A transfer that dies half way is resumed instead of restarted".
THEOREM NeverCutBack == FtpSpec => KeepsPrefix
<1>1. FtpInit => FtpInv /\ Copies
  BY FtpInvInit, CopiesInit
<1>2. FtpInv /\ Copies /\ [FtpNext]_ftp_vars => (FtpInv /\ Copies)'
  BY FtpInvKeeps, CopiesKeep
<1>3. FtpInv /\ Copies /\ [FtpNext]_ftp_vars =>
         (IsPrefix(copy["upload"], Whole) =>
            Len(copy'["upload"]) >= Len(copy["upload"]) \/ strayed' \/ crossed')
  BY FtpInvKeeps, PrefixStays DEF Clean
<1> QED BY <1>1, <1>2, <1>3, PTL DEF FtpSpec, KeepsPrefix
=============================================================================
