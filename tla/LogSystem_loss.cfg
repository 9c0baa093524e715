SPECIFICATION Spec
CONSTANTS
    Threads = {a}
    MaxCalls <- MCCalls
    busy = nobody
    QueueCap = 1
    Block = FALSE
    FlushBufSize = 2
    Exits = TRUE
INVARIANT NoLoss
CHECK_DEADLOCK FALSE
