SPECIFICATION Spec
CONSTANTS
    a = a
    b = b
    c = c
    Names = {a, b, c}
    Shapes <- MCShapes
    Hotfixes = {b, c}
    Addrs = {p1, p2, p3}
    MaxVersion = 30
VIEW View
SYMMETRY Symmetric
INVARIANTS
    MapAndGraphAreDeps
PROPERTIES
    OrderFollowsDeps
CHECK_DEADLOCK FALSE
