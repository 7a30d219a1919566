SPECIFICATION FairSpec
CONSTANTS
    a1 = a1
    a2 = a2
    d1 = d1
    d2 = d2
    Apps <- TwoApps
    Reader = Reader
    Devices <- TwoDevices
    None = None
    Topics = 2
    MaxClients = 3
    MaxCalls = 4
    MaxMessages = 1
    MaxFaults = 1
INVARIANTS
    ClientsSound
    LookedUpLives
PROPERTIES
    CallsReturn
