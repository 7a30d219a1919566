SPECIFICATION FairSpec
CONSTANTS
    c1 = c1
    c2 = c2
    x = x
    y = y
    Callers <- TwoCallers
    Owner = Owner
    Channels <- TwoChannels
    MaxTasks = 2
    MaxCalls = 3
    Rounds = 2
INVARIANTS
    TasksSound
    StoppedBeforeFree
    WholePackets
PROPERTIES
    StopsReturn
