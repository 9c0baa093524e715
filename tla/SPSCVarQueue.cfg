SPECIFICATION FairSpec
CONSTANTS
    BLK_CNT = 6
    Sizes = {0, 1, 12}
    MaxMsgs = 5
    Builds = {TRUE, FALSE}
INVARIANTS
    ReaderFindsOldest
    IInv
PROPERTIES
    ThreadsProceed
    ImplementsFifo
CHECK_DEADLOCK FALSE
