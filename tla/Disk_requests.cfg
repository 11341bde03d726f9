SPECIFICATION FairSpec
CONSTANTS
    d1 = d1
    d2 = d2
    none = none
    garbage = garbage
    NoData = none
    Garbage = garbage
    Data = {d1, d2}
    Tables <- MCTables
    NSectors = 3
    MAX_NSECS = 2
    MAX_DISK_NSECS = 4
    SIZE_WORD = 4
    Counts = {1, 2, 4}
    Sizes = {1, 2}
    WORD = 65536
INVARIANTS
    ReadIsDisk
    TransferFitsBuffer
    RegisteredAnswers
    LayoutWellFormed
PROPERTIES
    WritesOnlyRequested
    CallsReturn
CHECK_DEADLOCK FALSE
