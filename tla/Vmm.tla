--------------------------------- MODULE Vmm ---------------------------------
(***************************************************************************)
(* Paging (arch/i386/mm/vmm.c): vmm_init, map, unmap and get_mapping on    *)
(* the kernel's page directory, over the memory pmm_init has divided, with *)
(* the processor that walks the tables and caches what it finds.           *)
(*                                                                         *)
(* A page is its number, a virtual address the pair of its directory and   *)
(* table index; an entry is a page and a set of flags, None the value 0.   *)
(* Page tables lie in pages of the same memory: a page map gets from       *)
(* alloc_pages holds what its last user left there, and map does not clear *)
(* it.  asked, unknown and failed are history.                             *)
(***************************************************************************)
EXTENDS Memory, FiniteSets

CONSTANTS
    Dirs,           \* indices of the directory
    KernDirs,       \* those from PGD_INDEX(PAGE_OFFSET) on, PTE_COUNT of them
    PTE_SIZE,       \* entries of a table
    KernEnds,       \* where the kernel may end
    Lengths,        \* the lengths of memory the loader may report
    VAs,            \* the addresses callers map
    PAs, Flags      \* the pages and flags they map them to and with

\* The kernel lies behind the first page; PTE_SIZE entries for each of the kernel's
\* directory indices cover what it maps.
ConstantsFit ==
    /\ KernEnds \subseteq Nat /\ Lengths \subseteq Nat
    /\ PMM_PAGE_SIZE <= RAM_KERNEL_START
    /\ \A kern_end \in KernEnds : RAM_KERNEL_START <= kern_end
    /\ \E n \in 0 .. KVPAGE_SIZE : Dirs = 0 .. n - 1 /\ KVPAGE_SIZE = n * PMM_PAGE_SIZE
    /\ KernDirs \subseteq Dirs
    /\ ZONE_HIGHMEM_ADDR = Cardinality(KernDirs) * PTE_SIZE * PMM_PAGE_SIZE
    /\ VAs \subseteq (Dirs \ KernDirs) \X (0 .. PTE_SIZE - 1)
    /\ \A flags \in Flags : "present" \in flags /\ flags \subseteq {"present", "write", "user"}

VARIABLES
    ram,        \* kern_end and the length of memory
    pgd_kern,   \* the page directory
    mem,        \* what each page holds, read as a page table
    free,       \* the pages alloc_pages can return
    held,       \* the pages other callers hold
    tlb,        \* what the processor has cached
    asked,      \* what map and unmap were last asked to do with each address
    unknown,    \* the addresses whose entry is what a fresh table was found with
    failed      \* the directory entries for which alloc_pages had no page

vars == <<ram, pgd_kern, mem, free, held, tlb, asked, unknown, failed>>

Pages == 0 .. ZONE_HIGHMEM_ADDR \div PMM_PAGE_SIZE - 1
Entry(page, flags) == [page |-> page, flags |-> flags]
None == Entry(0, {})

Clean == [i \in 0 .. PTE_SIZE - 1 |-> None]
Stale == [i \in 0 .. PTE_SIZE - 1 |-> Entry(i, {"present"})]
Contents == {Clean, Stale}

FirstKern == CHOOSE d \in KernDirs : \A e \in KernDirs : d <= e

\* vmm_init: the tables lie at kern_end, one page for each directory entry, and
\* map the kernel's part of the address space to physical memory from 0 on.
KernTable(d) == ram.kern_end \div PMM_PAGE_SIZE + d
KernEntry(d, i) == Entry((d - FirstKern) * PTE_SIZE + i, {"present", "write"})

Managed ==
    {page_to_addr(ram.kern_end, ram.length, i) \div PMM_PAGE_SIZE :
        i \in 0 .. phy_pages_count(ram.kern_end, ram.length) - 1}

\* After pmm_init and vmm_init.
Init ==
    /\ ram \in {r \in [kern_end : KernEnds, length : Lengths] : EndsWithPage(r.kern_end, r.length)}
    /\ pgd_kern = [d \in Dirs |-> IF d \in KernDirs THEN Entry(KernTable(d), {"present", "write"})
                                                    ELSE None]
    /\ \E left \in Contents :
        mem = [p \in Pages |->
                IF \E d \in KernDirs : KernTable(d) = p
                THEN LET d == CHOOSE d \in KernDirs : KernTable(d) = p
                     IN  [i \in 0 .. PTE_SIZE - 1 |-> KernEntry(d, i)]
                ELSE IF p \in Managed THEN left ELSE Clean]
    /\ free = Managed
    /\ held = {}
    /\ tlb = {}
    /\ asked = [va \in VAs |-> None]
    /\ unknown = {}
    /\ failed = {}

-----------------------------------------------------------------------------
\* FAULT: the cache is left as it is.
TlbUnloaded(va) == tlb

\* tlb_reload_page: invlpg drops what is cached for va.
TlbReload(va) == {c \in tlb : c.va # va}

Table(d) == pgd_kern[d].page

\* What map stores, in the table t.
Enter(t, va, page, flags) ==
    /\ mem' = [mem EXCEPT ![t][va[2]] = Entry(page, flags)]
    /\ tlb' = TlbReload(va)
    /\ asked' = [asked EXCEPT ![va] = Entry(page, flags)]

MapPresent(va, page, flags) ==
    /\ Table(va[1]) # 0
    /\ Enter(Table(va[1]), va, page, flags)
    /\ unknown' = unknown \ {va}
    /\ UNCHANGED <<ram, pgd_kern, free, held, failed>>

\* A fresh page becomes the table; nothing clears it.
MapFresh(va, page, flags) ==
    /\ Table(va[1]) = 0
    /\ \E t \in free :
        /\ free' = free \ {t}
        /\ pgd_kern' = [pgd_kern EXCEPT ![va[1]] = Entry(t, {"present", "write"})]
        /\ Enter(t, va, page, flags)
    /\ unknown' = (unknown \cup {u \in VAs : u[1] = va[1]}) \ {va}
    /\ UNCHANGED <<ram, held, failed>>

\* alloc_pages returns 0, which is not tested: page 0 becomes the table.
MapFails(va, page, flags) ==
    /\ Table(va[1]) = 0 /\ free = {}
    /\ pgd_kern' = [pgd_kern EXCEPT ![va[1]] = Entry(0, {"present", "write"})]
    /\ Enter(0, va, page, flags)
    /\ failed' = failed \cup {va[1]}
    /\ UNCHANGED <<ram, free, held, unknown>>

Map(va, page, flags) ==
    MapPresent(va, page, flags) \/ MapFresh(va, page, flags) \/ MapFails(va, page, flags)

Unmap(va) ==
    /\ IF Table(va[1]) = 0
       THEN UNCHANGED <<mem, tlb>>
       ELSE /\ mem' = [mem EXCEPT ![Table(va[1])][va[2]] = None]
            /\ tlb' = TlbReload(va)
    /\ asked' = [asked EXCEPT ![va] = None]
    /\ unknown' = unknown \ {va}
    /\ UNCHANGED <<ram, pgd_kern, free, held, failed>>

\* get_mapping with a pointer for its answer: the page, or nothing.
get_mapping(va) ==
    IF Table(va[1]) = 0 \/ mem[Table(va[1])][va[2]] = None THEN {}
    ELSE {mem[Table(va[1])][va[2]].page}

\* The processor's walk: the flags of both levels count.
Walk(va) ==
    LET dir == pgd_kern[va[1]]
        entry == mem[dir.page][va[2]]
    IN  IF "present" \in dir.flags \cap entry.flags
        THEN {Entry(entry.page, dir.flags \cap entry.flags)} ELSE {}

\* An access fills the cache, an entry of which may be dropped at any time.
Access(va) ==
    /\ \A c \in tlb : c.va # va
    /\ Walk(va) # {}
    /\ tlb' = tlb \cup {[va |-> va, entry |-> e] : e \in Walk(va)}
    /\ UNCHANGED <<ram, pgd_kern, mem, free, held, asked, unknown, failed>>

Evict == \E c \in tlb :
    /\ tlb' = tlb \ {c}
    /\ UNCHANGED <<ram, pgd_kern, mem, free, held, asked, unknown, failed>>

\* The other callers of alloc_pages and free_pages, who leave pages dirty.
Take == \E p \in free :
    /\ free' = free \ {p} /\ held' = held \cup {p}
    /\ UNCHANGED <<ram, pgd_kern, mem, tlb, asked, unknown, failed>>

GiveBack == \E p \in held, left \in Contents :
    /\ free' = free \cup {p} /\ held' = held \ {p}
    /\ mem' = [mem EXCEPT ![p] = left]
    /\ UNCHANGED <<ram, pgd_kern, tlb, asked, unknown, failed>>

Next ==
    \/ \E va \in VAs, page \in PAs, flags \in Flags : Map(va, page, flags)
    \/ \E va \in VAs : Unmap(va) \/ Access(va)
    \/ Evict \/ Take \/ GiveBack

Spec == Init /\ [][Next]_vars

-----------------------------------------------------------------------------
\* What map and unmap were asked is what get_mapping answers, what the processor
\* finds in the tables and what it has cached, for every address that is not left
\* to the contents of an uncleared table, and unless memory had run out for its
\* table.  The directory never grants access to user programs, so the flag for
\* that does not count.
TranslatesAsAsked ==
    \A va \in VAs \ unknown : va[1] \notin failed =>
        LET wanted == IF asked[va] = None THEN {}
                      ELSE {Entry(asked[va].page, asked[va].flags \ {"user"})}
        IN  /\ get_mapping(va) = {e.page : e \in wanted}
            /\ Walk(va) = wanted
            /\ \A c \in tlb : c.va = va => c.entry \in wanted

\* What the kernel runs on is never given away: page tables, descriptors and
\* managed pages do not overlap, and kernel addresses keep their mapping to
\* physical memory whatever is mapped and whatever pages are written.
KernelIntact ==
    /\ Divided(ram.kern_end, ram.length)
    /\ \A d \in KernDirs, i \in 0 .. PTE_SIZE - 1 : Walk(<<d, i>>) = {KernEntry(d, i)}
=============================================================================
