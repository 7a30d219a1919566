SPECIFICATION FairSpec
CONSTANTS
    c1 = c1
    c2 = c2
    NoCall = NoCall
    Calls <- TwoCalls
    Qos <- MixedQos
    MaxId = 2
    MaxSlots = 1
    MaxDrops = 2
    Recursive = TRUE
INVARIANTS
    SlotsSound
    AckWakesCaller
PROPERTIES
    PublishReturns
