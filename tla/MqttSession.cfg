SPECIFICATION SessionFairSpec
CONSTANTS
    Ops <- Both
    MaxOps = 4
    MaxSockets = 4
    MaxRefusals = 2
    Automatic = TRUE
    KeepAlive = TRUE
    StartMayFail = FALSE
INVARIANTS
    SessionSound
PROPERTIES
    CallsReturn
    LossHandled
