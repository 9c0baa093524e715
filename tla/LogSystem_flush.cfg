SPECIFICATION Spec
CONSTANTS
    Threads = {a}
    MaxCalls <- MCCalls
    busy = nobody
    QueueCap = 1
    Block = TRUE
    FlushBufSize = 2
    Exits = TRUE
INVARIANT ForcedPollFlushes
CHECK_DEADLOCK FALSE
