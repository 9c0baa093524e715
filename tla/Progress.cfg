SPECIFICATION MCFairSpec
CONSTANTS
    Parts = {"mutex", "log"}
    Lockers = {t1, t2, t3}
    SharedLimit = 4
    UniqueLimit = 4
    Threads = {a}
    MaxCalls <- MCCalls
    busy = a
    QueueCap = 1
    Block = TRUE
    FlushBufSize = 2
    Exits = TRUE
INVARIANTS
    MutualExclusion
    MutexInv
PROPERTIES
    UniquePriority
    WaitersEnter
    LoggedIsWritten
    StopReturns
CHECK_DEADLOCK FALSE
