SPECIFICATION FairSpec
CONSTANTS
    t1 = t1
    t2 = t2
    t3 = t3
    w1 = w1
    w2 = w2
    w3 = w3
    NoTask = NoTask
    Tasks <- ThreeTasks
    Threads <- ThreeThreads
    CoreThreads = 1
    MaxThreads = 2
    Capacity = 1
    Rounds = 2
    StartMayFail = FALSE
    WaitModes <- BothModes
INVARIANTS
    WorkersSound
    CleanShutdown
PROPERTIES
    ServiceSpec
    WorkGetsDone
