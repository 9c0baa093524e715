INIT Init
NEXT Next
CONSTANTS
    Parts = {"hstring"}
    None = None
    ka = ka
    kb = kb
    Empty = Empty
INVARIANT ReserveKeepsSize
CHECK_DEADLOCK FALSE
