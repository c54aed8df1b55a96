SPECIFICATION Spec
CONSTANTS
    Threads = {t1, t2}
    Free = Free
    Delays = {0, 4}
    Epoch = 1
    Jiffy = 1
    Second = 3
    HardLimit = 2
    MaxUid = 6
    MaxRuns = 1
    Horizon = 2
INVARIANTS
    TypeOK
    QueueIsAhead
    NeverEarly
    NoLostWakeup
PROPERTIES
    EventuallyServed
    MutexIsReleased
CHECK_DEADLOCK FALSE
