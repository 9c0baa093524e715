SPECIFICATION RCSpec
CONSTANTS
    t1 = t1
    t2 = t2
    Owners = {t1, t2}
    Objs = {o1}
    plain = {}
    weak = {o1}
    RCs = {"r1"}
    Uniques = {}
    Weaks = {"x1"}
    Owner <- MCOwner
    Use <- MCAny
    CounterMod = 16
    SelfAssign = FALSE
INVARIANT DestroyedOnce
CHECK_DEADLOCK FALSE
