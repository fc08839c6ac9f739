SPECIFICATION Spec
CONSTANTS
    Tasks = {t1, t2, t3}
    ShutdownTask = shutdown
    NoTask = NoTask
    NoDate = NoDate
    Threads = {p1}
    TaskExpiration = 1
    MaxEventId = 3
    MinTicks = 1
    Delays = {0, 2}
    MaxTime = 2
SYMMETRY Symmetry
INVARIANTS
    OneOwner
    StoppedNeverRuns
    DueThenExecuted
    NoLostWakeup
CHECK_DEADLOCK FALSE
PROPERTIES
    ImplementsService
