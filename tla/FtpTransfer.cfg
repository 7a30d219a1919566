SPECIFICATION FtpFairSpec
CONSTANTS
    Total = 2
    Attempts = 2
    Tries = 2
    MaxToolCalls = 1
    MaxFaults = 2
    MaxLosses = 1
INVARIANTS
    InStep
    OkMeansWhole
PROPERTIES
    KeepsPrefix
    SessionsEnd
