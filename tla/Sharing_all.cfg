SPECIFICATION SharingSpec
CONSTANTS
    Threads = {t1, t2, t3, t4, t5}
    NoThread = NoThread
    SignBit = 4
    KBUFFER_LEN = 3
    ControlKeys = {"lshift", "caps"}
    CharKeys = {"a"}
    BlankKeys = {"f1"}
INVARIANTS
    MutualExclusion
    ReleasedIsClear
PROPERTIES
    Progress
    ImplementsMutex
    ImplementsQueue
    FrontConsumed
