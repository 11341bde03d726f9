SPECIFICATION ManagersSpec
CONSTANTS
    NPages = 7
    NoPage <- NullPage
    MAX_ORDER = 3
    Managers = {"first_fit", "buddy"}
    TestRounds <- SmallTest
    BootSizes = {0, 2, 3, 7, 8}
    PageSizes <- KernelSizes
    Arena = 330
    Sizes = {32, 40, 100}
    PMM_PAGE_SIZE = 16
    KVPAGE_SIZE = 48
    RAM_KERNEL_START = 16
    ZONE_HIGHMEM_ADDR = 144
    PAGE_T = 1
    Dirs = {0, 1, 2}
    KernDirs = {2}
    PTE_SIZE = 9
    KernEnds = {48}
    Lengths = {96, 112, 200}
    VAs <- UserVAs
    PAs = {1}
    Flags <- MapFlags
INVARIANTS
    BlocksMerged
    PagesAccounted
    FreeAccepted
    ChunksTileArena
    FreeChunksGlued
    MarkedAreHeld
    TranslatesAsAsked
    KernelIntact
PROPERTY ImplementsPageAllocator
CHECK_DEADLOCK FALSE
