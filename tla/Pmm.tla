--------------------------------- MODULE Pmm ---------------------------------
(***************************************************************************)
(* The physical memory manager (arch/i386/mm/pmm.c): page_init,            *)
(* alloc_pages and free_pages call the manager the kernel is built with,   *)
(* first-fit or buddy, with interrupts off, so each call is one atomic     *)
(* step.  owned records what callers hold: they free what they were given. *)
(***************************************************************************)
EXTENDS Integers, FiniteSets, Sequences

CONSTANTS
    NPages,     \* number of managed pages
    NoPage,     \* the null address
    MAX_ORDER, TestRounds,  \* of the buddy manager
    Managers,   \* the managers the kernel may be built with
    BootSizes,  \* sizes of the request the kernel makes while it boots
    Sizes       \* the sizes of its later requests, for each manager

VARIABLES
    pmm_manager,                                        \* pmm_manager
    ff_list, ncount, has_ncount, reserved, ff_count,    \* ff_mm_info and its pages
    mem, buddy_count, excess,                           \* buddy_mm_info and its pages
    owned,          \* the blocks <<first page, number of pages>> callers hold
    ret,            \* what the last alloc_pages returned
    booted,         \* the boot-time request has been made
    panicked        \* an assertion failed

ff_vars == <<ff_list, ncount, has_ncount, reserved, ff_count>>
buddy_vars == <<mem, buddy_count, excess>>
vars == <<pmm_manager, ff_vars, buddy_vars, owned, ret, booted, panicked>>

FF == INSTANCE FirstFit WITH free_list <- ff_list, now_count <- ff_count
B == INSTANCE Buddy WITH now_count <- buddy_count

ConstantsFit ==
    /\ NPages \in Nat \ {0}
    /\ NoPage \notin 0 .. NPages - 1
    /\ MAX_ORDER \in Nat
    /\ Managers \subseteq {"first_fit", "buddy"}
    /\ Sizes \in [Managers -> SUBSET (0 .. 2 ^ MAX_ORDER)]
    /\ B!RoomToTest
    /\ BootSizes \subseteq 0 .. 2 ^ MAX_ORDER

Installed(m) == pmm_manager = m

----------------------------------------------------------------------------
\* pmm_init.  The manager that is not installed is never called.
Init ==
    /\ pmm_manager \in Managers
    /\ FF!Init
    /\ B!Init
    /\ owned = {}
    /\ ret = NoPage
    /\ booted = FALSE
    /\ panicked = FALSE

AllocPages(n) ==
    /\ \/ Installed("first_fit") /\ FF!Alloc(n) /\ UNCHANGED buddy_vars
       \/ Installed("buddy") /\ B!Alloc(n) /\ UNCHANGED <<ff_vars, panicked>>
    /\ owned' = IF ret' = NoPage THEN owned ELSE owned \cup {<<ret', n>>}
    /\ UNCHANGED pmm_manager

FreePages(base, n) ==
    /\ \/ Installed("first_fit") /\ FF!Free(base, n) /\ UNCHANGED buddy_vars
       \/ Installed("buddy") /\ B!Free(base, n) /\ UNCHANGED <<ff_vars, panicked>>
    /\ owned' = owned \ {<<base, n>>}
    /\ UNCHANGED pmm_manager

(***************************************************************************)
(* The callers.  While it boots the kernel makes one request of many pages *)
(* (slob_init takes 1024 of them from fresh memory); later ones come from  *)
(* do_fork and map.                                                        *)
(***************************************************************************)
BootAlloc == ~ booted /\ booted' = TRUE /\ \E n \in BootSizes : AllocPages(n)

LaterAlloc == booted /\ UNCHANGED booted /\ \E n \in Sizes[pmm_manager] : AllocPages(n)

LaterFree == UNCHANGED booted /\ \E block \in owned : FreePages(block[1], block[2])

Next == ~ panicked /\ (BootAlloc \/ LaterAlloc \/ LaterFree)

Spec == Init /\ [][Next]_vars

----------------------------------------------------------------------------
Run(b, n) == b .. b + n - 1

\* The pages the installed manager holds.
Free == IF Installed("first_fit") THEN {ff_list[i] : i \in DOMAIN ff_list} ELSE B!FreePages

\* The blocks of the installed manager: those the first-fit manager cuts and merges
\* (ff_mm.c:93-106, 148-169) are always the maximal runs of free pages; those the
\* buddy manager halves and merges (buddy_mm.c:130-138, 199-210) are what its lists
\* and flags both say, and never overlap.
BlocksMerged ==
    /\ Installed("first_fit") => FF!BlocksAreMaximalRuns
    /\ Installed("buddy") => B!BlocksConsistent

\* Every page is accounted for once: whatever is asked for and freed, in any order,
\* it is free or in one block some caller can still free; and phy_page_now_count,
\* which alloc trusts before it looks at the lists, is the number of free pages, for
\* the buddy manager with the pages it counted twice, those that rounded up the
\* requests of its self-test and of its callers.
PagesAccounted ==
    /\ \A p \in 0 .. NPages - 1 :
          LET holding == {x \in owned : p \in Run(x[1], x[2])}
          IN  IF p \in Free THEN holding = {} ELSE \E x \in owned : holding = {x}
    /\ Installed("first_fit") => ff_count = Len(ff_list)
    /\ Installed("buddy") => buddy_count = Cardinality(Free) + excess

\* The assertion of ff_free_pages (ff_mm.c:127) holds whenever a caller frees
\* what it was given.
FreeAccepted == ~ panicked

PA == INSTANCE PageAllocator
        WITH free <- Free,
             whole <- Installed("first_fit"),
             Requests <- BootSizes \cup UNION {Sizes[m] : m \in Managers}

\* Either manager is the page allocator its callers expect.
ImplementsPageAllocator == PA!Spec

----------------------------------------------------------------------------
\* What ff_mm.c:116 says ("no block of consecutive pages satisfies the request")
\* of a request that cannot be satisfied: it gets 0, and any other request gets
\* pages that were free.
GrantsFreePages ==
    [][\A x \in owned' \ owned : Run(x[1], x[2]) \subseteq Free]_vars
=============================================================================
