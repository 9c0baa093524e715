INIT MCInit
NEXT MCNext
CONSTANTS
    Parts = {"graph", "heap", "clock", "containers", "trees", "pointer", "memory"}
    GraphNodes = {n1, n2, n3}
    Edges = {e1}
    MaxIds = 3
    MaxNodes = 5
    MaxStamp = 2
    Rate = 100
    Slopes = {90, 130}
    Clamp = 50
    Interval = 200
    Steps = {70}
    MaxTsc = 4
    MaxSaves = 3
    Total = 28
    Sizes = {1, 3, 5}
    MaxBlocks = 3
    MaxChunks = 3
    MaxSpans = 3
    ka = ka
    kb = kb
    None = None
INVARIANTS
    MapsAgree
    OnlyLiveReached
    RootIsOldest
    CopiesKeepTree
    PointerIsRfc6901
    BlocksApart
    ReadsOneSave
    ErrorIsTakenBack
PROPERTIES
    ImplementsContainer
    PutChangesOnlyThere
    MergeIsRfc7386
VIEW View
SYMMETRY Symmetric
CHECK_DEADLOCK FALSE
