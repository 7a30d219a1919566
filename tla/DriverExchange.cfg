SPECIFICATION FairSpec
CONSTANTS
    t1 = t1
    t2 = t2
    Threads <- TwoThreads
    NoThread = NoThread
    Drivers <- AllDrivers
    Operations <- AllOperations
    Ids = 8
    MaxCalls = 2
    MaxFaults = 2
INVARIANTS
    OwnReply
    NothingOwed
    GreetedFirst
PROPERTIES
    Recovers
