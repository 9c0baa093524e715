SPECIFICATION MCSpec
CONSTANTS
    Parts = {"log", "rc"}
    Threads = {a, b}
    MaxCalls <- MCCalls
    busy = a
    QueueCap = 2
    Block = TRUE
    FlushBufSize = 2
    Exits = TRUE
    t1 = t1
    t2 = t2
    Owners = {t1, t2}
    Objs = {o1, o2, o3}
    plain = {o1, o2}
    weak = {o3}
    RCs = {"r1", "r2", "s1", "s2"}
    Uniques = {"u1", "v1"}
    Weaks = {"w1", "w2"}
    Owner <- MCOwner
    Use <- MCConfined
    CounterMod = 16
    SelfAssign = FALSE
INVARIANTS
    EachOnceInOrder
    ExitWritesAll
    DestroyedOnce
    LifetimeIsHandles
PROPERTIES
    OldestFirst
CHECK_DEADLOCK FALSE
