INIT Init
NEXT Next
CONSTANTS
    Parts = {"walk", "hstring", "view", "reader", "writer", "string", "number", "value", "archive"}
    None = None
    ka = ka
    kb = kb
    Empty = Empty
INVARIANTS
    WalksAgree
    HoldsText
    PartsOfText
    ReadsGrammar
    IncrIsWhole
    CutIsUnfinished
    WritesTree
    StringIsRead
    NumberIsRead
    SaysWhatWasSet
    DocumentIsScript
PROPERTY MirrorReads
CHECK_DEADLOCK FALSE
