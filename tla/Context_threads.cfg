SPECIFICATION FairSpec
CONSTANTS
    Threads = {boot, t1, t2}
    Boot = boot
    Lines = {0, 14}
    SysNos = {"read", "8"}
    Depth = 2
INVARIANT ResumesIntact
PROPERTIES
    NeverSwitchedInCritical
    LinesServed
CHECK_DEADLOCK FALSE
