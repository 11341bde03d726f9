------------------------------ MODULE FirstFit ------------------------------
(***************************************************************************)
(* The first-fit physical page manager (mm/ff_mm.c): its state and the     *)
(* three calls of its pmm_manager.  Module Pmm makes the calls.            *)
(*                                                                         *)
(* A page is its index in phy_pages.  A block is a run of pages of         *)
(* free_list whose first page carries the NCOUNT flag and, in ncount, the  *)
(* block's length.                                                         *)
(* A definition marked FAULT is a plausible slip in the one after it, kept *)
(* to show that a property would notice it.                                *)
(***************************************************************************)
EXTENDS Integers, FiniteSets, Sequences, SequencesExt

CONSTANTS
    NPages,     \* number of managed pages
    NoPage      \* the null address a failed request returns

Pages == 0 .. NPages - 1

VARIABLES
    free_list,      \* ff_mm_info.free_list
    ncount,         \* page_t.ncount
    has_ncount,     \* the pages whose PG_NCOUNT flag is set
    reserved,       \* the pages whose PG_RESERVED flag is set
    now_count,      \* ff_mm_info.phy_page_now_count
    ret,            \* what ff_alloc_pages returns
    panicked        \* the assertion of ff_free_pages failed

manager == <<free_list, ncount, has_ncount, reserved, now_count>>

Run(b, n) == b .. b + n - 1

\* The pages b, b + 1, ..., b + n - 1 as a list.
RunList(b, n) == [i \in 1 .. n |-> b + i - 1]

----------------------------------------------------------------------------
\* ff_page_init: every page is on the list, as one block.
Init ==
    /\ free_list = RunList(0, NPages)
    /\ ncount = [p \in Pages |-> IF p = 0 THEN NPages ELSE 0]
    /\ has_ncount = {0}
    /\ reserved = Pages
    /\ now_count = NPages

\* ff_alloc_pages when it reaches the end without a page to return.
AllocRefused(n) ==
    /\ n = 0 \/ n > now_count \/ free_list = <<>>
    /\ ret' = NoPage
    /\ UNCHANGED <<free_list, ncount, has_ncount, reserved, now_count, panicked>>

\* FAULT: a block of exactly n pages is taken for too small.
FitsStrictly(n) == Head(free_list) \in has_ncount /\ ncount[Head(free_list)] > n

\* The first page of the list heads a block of n pages or more.
Fits(n) == Head(free_list) \in has_ncount /\ ncount[Head(free_list)] >= n

\* The list ff_alloc_pages leaves.
Rest(n) == IF Fits(n) THEN SubSeq(free_list, n + 1, Len(free_list)) ELSE free_list

\* FAULT: no flag is cleared.
NoneTaken(n) == {}

\* The pages whose PG_RESERVED flag it clears.
Taken(n) == IF Fits(n) THEN ToSet(SubSeq(free_list, 1, n)) ELSE {}

\* ff_alloc_pages with a page on the list.  The body of the loop over the list
\* always returns, so only the first page p is ever looked at: when its block
\* has n pages they leave the list and the page after them, if any is left,
\* heads the rest; when it has fewer, p is returned all the same, stays on the
\* list and no longer heads a block.
AllocFirst(n) ==
    LET p == Head(free_list)
        cut == IF ncount[p] > n THEN {Head(Rest(n))} ELSE {}
    IN  /\ n > 0 /\ n <= now_count /\ free_list # <<>>
        /\ free_list' = Rest(n)
        /\ reserved' = reserved \ Taken(n)
        /\ has_ncount' = (has_ncount \cup cut) \ {p}
        /\ ncount' = [q \in Pages |-> IF q = p THEN 0
                                      ELSE IF q \in cut THEN ncount[p] - n
                                      ELSE ncount[q]]
        /\ now_count' = now_count - n
        /\ ret' = p
        /\ UNCHANGED panicked

\* The position free_pages inserts at: before the first page above base.
InsertPos(base) ==
    LET above == {i \in DOMAIN free_list : free_list[i] > base}
    IN  IF above = {} THEN Len(free_list) + 1 ELSE Min(above)

\* ff_free_pages: the run joins the list as a block, which absorbs the block
\* that starts right after it and is absorbed by the block that ends right
\* before it.  PG_RESERVED is not set again.
Free(base, n) ==
    LET pos == InsertPos(base)
        before == SubSeq(free_list, 1, pos - 1)
        after == SubSeq(free_list, pos, Len(free_list))
        joinsNext == after # <<>> /\ Head(after) = base + n
        count == IF joinsNext THEN n + ncount[Head(after)] ELSE n
        flags == (has_ncount \cup {base}) \ (IF joinsNext THEN {Head(after)} ELSE {})
        counts == [p \in Pages |-> CASE p = base -> count
                                     [] joinsNext /\ p = Head(after) -> 0
                                     [] OTHER -> ncount[p]]
        heads == {i \in DOMAIN before : before[i] \in flags}
        joinsPrev == before # <<>> /\ Last(before) = base - 1 /\ heads # {}
    IN  /\ IF base \in reserved
           THEN /\ panicked' = TRUE
                /\ UNCHANGED <<free_list, has_ncount, ncount, now_count>>
           ELSE /\ free_list' = before \o RunList(base, n) \o after
                /\ has_ncount' = IF joinsPrev THEN flags \ {base} ELSE flags
                /\ ncount' = IF joinsPrev
                             THEN [counts EXCEPT ![before[Max(heads)]] = @ + count,
                                                 ![base] = 0]
                             ELSE counts
                /\ now_count' = now_count + n
                /\ UNCHANGED panicked
        /\ UNCHANGED <<reserved, ret>>

Alloc(n) == AllocRefused(n) \/ AllocFirst(n)

----------------------------------------------------------------------------
\* The free list stays in address order, which the merging with both neighbours
\* relies on (ff_mm.c:157), and its blocks are exactly the maximal runs of free
\* pages: cutting and merging in any order leave no two adjacent blocks apart,
\* and every head knows the length of its run.
BlocksAreMaximalRuns ==
    LET free == ToSet(free_list)
        heads == {p \in free : p - 1 \notin free}
        Length(h) == CHOOSE n \in 1 .. NPages : Run(h, n) \subseteq free /\ h + n \notin free
    IN  /\ \A i, j \in DOMAIN free_list : i < j => free_list[i] < free_list[j]
        /\ has_ncount = heads
        /\ \A h \in heads : ncount[h] = Length(h)
=============================================================================
