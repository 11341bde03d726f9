------------------------------- MODULE Memory -------------------------------
(***************************************************************************)
(* How pmm_init (arch/i386/mm/pmm.c) divides the physical memory that lies *)
(* behind the kernel: room for the page tables, the array of page          *)
(* descriptors, the pages it manages.  Addresses are physical.  The loader *)
(* reports at most one block of memory that begins at RAM_KERNEL_START.    *)
(*                                                                         *)
(* A definition marked FAULT is a plausible slip in the one after it, kept *)
(* to show that a property would notice it.                                *)
(***************************************************************************)
EXTENDS Integers

CONSTANTS
    PMM_PAGE_SIZE,      \* 4096
    KVPAGE_SIZE,        \* 4 MB, reserved for page tables
    RAM_KERNEL_START,   \* 1 MB
    ZONE_HIGHMEM_ADDR,  \* 896 MB
    PAGE_T              \* sizeof(page_t)

ASSUME MemoryAssumption ==
    /\ PMM_PAGE_SIZE \in Nat \ {0} /\ PAGE_T \in Nat
    /\ KVPAGE_SIZE \in Nat
    /\ RAM_KERNEL_START \in Nat /\ ZONE_HIGHMEM_ADDR \in Nat
    /\ RAM_KERNEL_START <= ZONE_HIGHMEM_ADDR

Smaller(a, b) == IF a < b THEN a ELSE b

\* FAULT: the room for the page tables is forgotten.
phy_pages_unreserved(kern_end) == kern_end

phy_pages(kern_end) == kern_end + KVPAGE_SIZE

\* phy_mem_length and pages_mem_length
MemLength(length) == IF RAM_KERNEL_START + length > ZONE_HIGHMEM_ADDR THEN ZONE_HIGHMEM_ADDR ELSE length
PagesMemLength(length) == PAGE_T * (MemLength(length) \div PMM_PAGE_SIZE)

pmm_addr_start(kern_end, length) ==
    ((phy_pages(kern_end) + PagesMemLength(length) + PMM_PAGE_SIZE) \div PMM_PAGE_SIZE) * PMM_PAGE_SIZE
pmm_addr_end(length) == Smaller(RAM_KERNEL_START + length, ZONE_HIGHMEM_ADDR)

\* One page for each turn of the loop from the start to the end.
phy_pages_count(kern_end, length) ==
    LET room == pmm_addr_end(length) - pmm_addr_start(kern_end, length)
    IN  IF room <= 0 THEN 0 ELSE (room + PMM_PAGE_SIZE - 1) \div PMM_PAGE_SIZE

page_to_addr(kern_end, length, i) == pmm_addr_start(kern_end, length) + i * PMM_PAGE_SIZE
addr_to_page(kern_end, length, a) ==
    ((a \div PMM_PAGE_SIZE) * PMM_PAGE_SIZE - pmm_addr_start(kern_end, length)) \div PMM_PAGE_SIZE

\* The assertion of phy_pages_init that can fail: memory ends with a page.
EndsWithPage(kern_end, length) ==
    pmm_addr_end(length) - PMM_PAGE_SIZE
        = page_to_addr(kern_end, length, phy_pages_count(kern_end, length) - 1)

\* Whatever the size of the kernel and of the memory, the descriptors of all the
\* managed pages lie between the page tables and the first of these pages, the
\* last page ends where memory, or the part the kernel maps, ends, and the two
\* conversions are each other's inverse on the addresses of managed pages.
Divided(kern_end, length) ==
    LET start == pmm_addr_start(kern_end, length)
        count == phy_pages_count(kern_end, length)
    IN  /\ kern_end + KVPAGE_SIZE <= phy_pages(kern_end)
        /\ phy_pages(kern_end) + count * PAGE_T <= start
        /\ start + count * PMM_PAGE_SIZE = pmm_addr_end(length)
        /\ \A i \in 0 .. count - 1 :
            addr_to_page(kern_end, length, page_to_addr(kern_end, length, i)) = i
=============================================================================
