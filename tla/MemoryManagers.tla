--------------------------- MODULE MemoryManagers ---------------------------
(***************************************************************************)
(* The three memory managers side by side: physical pages, kmalloc, and    *)
(* paging.  A behaviour uses one of them, chosen at the start, so that     *)
(* their states add up and do not multiply.                                *)
(***************************************************************************)
EXTENDS Memory, Slob

CONSTANTS
    NPages, NoPage, MAX_ORDER, TestRounds, Managers, BootSizes, PageSizes,  \* of Pmm
    Dirs, KernDirs, PTE_SIZE, KernEnds, Lengths, VAs, PAs, Flags    \* of Vmm

VARIABLES
    used,   \* what this behaviour uses
    pmm_manager, ff_list, ncount, has_ncount, reserved, ff_count,
    blocks, buddy_count, excess, owned, ret, booted, panicked,
    ram, pgd_kern, mem, free, taken, tlb, asked, unknown, failed

P == INSTANCE Pmm WITH Sizes <- PageSizes, mem <- blocks
V == INSTANCE Vmm WITH held <- taken

\* The constants are what each of the three modules takes them for.
ASSUME PartsAssumption == P!ConstantsFit /\ ConstantsFit /\ V!ConstantsFit

pageVars == <<pmm_manager, ff_list, ncount, has_ncount, reserved, ff_count,
              blocks, buddy_count, excess, owned, ret, booted, panicked>>
pagingVars == <<ram, pgd_kern, mem, free, taken, tlb, asked, unknown, failed>>
managersVars == <<used, pageVars, vars, pagingVars>>

ManagersInit ==
    /\ used \in {"pages", "kmalloc", "paging"}
    /\ P!Init /\ Init /\ V!Init
    /\ used # "pages" => pmm_manager = "first_fit"
    /\ used # "paging" => free = {}

ManagersNext ==
    \/ used = "pages" /\ P!Next /\ UNCHANGED <<used, vars, pagingVars>>
    \/ used = "kmalloc" /\ Next /\ UNCHANGED <<used, pageVars, pagingVars>>
    \/ used = "paging" /\ V!Next /\ UNCHANGED <<used, pageVars, vars>>

ManagersSpec == ManagersInit /\ [][ManagersNext]_managersVars

-----------------------------------------------------------------------------
\* The properties of the other two, whose comments say what they state; those of
\* kmalloc are Slob's own.
BlocksMerged == P!BlocksMerged
PagesAccounted == P!PagesAccounted
FreeAccepted == P!FreeAccepted
ImplementsPageAllocator == P!ImplementsPageAllocator
TranslatesAsAsked == V!TranslatesAsAsked
KernelIntact == V!KernelIntact
=============================================================================
