SPECIFICATION Spec
CONSTANTS
    p1 = p1
    p2 = p2
    a = a
    b = b
    c = c
    None = None
    Peers <- TwoPeers
    Leases <- ThreeLeases
    Owner <- OwnerByName
    Forcing <- TheSecond
    MaxCalls = 4
    MaxRestarts = 1
INVARIANTS
    LoginTracksLease
    LeaseAgrees
    LiveSessionsHaveLogin
