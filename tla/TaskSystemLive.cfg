SPECIFICATION FairSpec
CONSTANTS
    Tasks = {t1, t2}
    ShutdownTask = shutdown
    NoTask = NoTask
    NoDate = NoDate
    Threads = {p1}
    TaskExpiration = 1
    MaxEventId = 2
    MinTicks = 1
    Delays = {0, 2}
    MaxTime = 2
PROPERTIES
    AllServed
    ShutdownEnds
CHECK_DEADLOCK FALSE
