SPECIFICATION Spec
CONSTANTS
    Threads = {boot, t1}
    Boot = boot
    Lines = {0}
    SysNos = {"test"}
    Depth = 1
INVARIANT SwitchKeepsSaved
CHECK_DEADLOCK FALSE
