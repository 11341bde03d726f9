-------------------------------- MODULE Buddy --------------------------------
(***************************************************************************)
(* The buddy physical page manager (mm/buddy_mm.c): its state and the      *)
(* three calls of its pmm_manager.  Module Pmm makes the calls.            *)
(*                                                                         *)
(* A page is its index in phy_pages.  A free block of 2^k pages is on      *)
(* free_list[k] and its first page carries the ORDER flag with order k.    *)
(* The order of an unflagged page is never read and not modelled, nor are  *)
(* the counters nr_free, which are only printed.  The manager tests itself *)
(* before it takes calls: it makes and undoes some requests of its own.    *)
(*                                                                         *)
(* A definition marked FAULT is a plausible slip in the one after it, kept *)
(* to show that a property would notice it.                                *)
(***************************************************************************)
EXTENDS Integers, Sequences, SequencesExt

CONSTANTS
    NPages,     \* number of managed pages
    NoPage,     \* the null address a failed request returns
    MAX_ORDER,  \* the largest blocks have 2 ^ MAX_ORDER pages
    TestRounds  \* the sizes of the requests of the self-test: those of a round are
                \* all made, then all freed (1, 2; and 8, 16, 18, 27, 32, 129, 547)

Pages == 0 .. NPages - 1

Orders == 0 .. MAX_ORDER

Unflagged == -1

VARIABLES
    mem,        \* the lists and the flags: [list |-> free_list, order |-> order]
    now_count,  \* buddy_mm_info.phy_page_now_count
    excess,     \* history: what the sizes granted were rounded up by, altogether
    ret         \* what buddy_alloc_pages returns

vars == <<mem, now_count, excess>>

Size(k) == 2 ^ k

\* The pages of the free blocks.
FreePages == UNION {p .. p + Size(mem.order[p]) - 1 : p \in {q \in Pages : mem.order[q] # Unflagged}}

----------------------------------------------------------------------------
\* The blocks buddy_page_init cuts the n pages into: as many of the largest as
\* there is room for, then one of each smaller order whose bit is set in n.
\* Each goes to the head of its list.
InitialList(k) ==
    IF k = MAX_ORDER
    THEN LET m == NPages \div Size(k) IN [i \in 1 .. m |-> (m - i) * Size(k)]
    ELSE IF (NPages \div Size(k)) % 2 = 1
         THEN <<(NPages \div Size(k + 1)) * Size(k + 1)>>
         ELSE <<>>

InitialMem ==
    LET lists == [k \in Orders |-> InitialList(k)]
        OrdersOf(p) == {k \in Orders : p \in ToSet(lists[k])}
    IN  [list |-> lists,
         order |-> [p \in Pages |-> IF OrdersOf(p) = {} THEN Unflagged
                                    ELSE CHOOSE k \in OrdersOf(p) : TRUE]]

----------------------------------------------------------------------------
GetOrder(n) == Min({k \in Orders : Size(k) >= n})

\* The lists buddy_alloc_pages_sub(k) may take a block from.
Candidates(m, k) == {j \in Orders : j >= k /\ m.list[j] # <<>>}

\* The page it returns: the first of the first block of the shortest sufficient order.
BlockFor(m, k) == Head(m.list[Min(Candidates(m, k))])

\* buddy_alloc_pages_sub: that block is taken off its list and halved down to
\* order k; the upper halves are free blocks.
Take(m, k) ==
    LET cur == Min(Candidates(m, k))
        page == BlockFor(m, k)
        split == k .. cur - 1
    IN  [list |-> [j \in Orders |-> IF j = cur THEN Tail(m.list[j])
                                    ELSE IF j \in split THEN <<page + Size(j)>> \o m.list[j]
                                    ELSE m.list[j]],
         order |-> [p \in Pages |-> IF p = page THEN Unflagged
                                    ELSE IF \E j \in split : p = page + Size(j)
                                    THEN CHOOSE j \in split : p = page + Size(j)
                                    ELSE m.order[p]]]

\* FAULT: the buddy is always the block that follows.
NextIdx(p, k) == p + Size(k)

\* The index p XOR 2^k.
BuddyIdx(p, k) == IF (p \div Size(k)) % 2 = 0 THEN p + Size(k) ELSE p - Size(k)

\* FAULT: the order of the buddy is not compared.
FlaggedBuddy(m, p, k) == p < NPages /\ m.order[p] # Unflagged

\* The page p heads a free block of order k.
PageIsBuddy(m, p, k) == p < NPages /\ m.order[p] = k

\* buddy_free_pages_sub: the block of order k at base is merged with its buddy
\* as long as that is a free block of the same order.  At(j) is the block's
\* first page once it has order j: the bits k .. j - 1 of base are cleared.
FreeSub(m, base, k) ==
    LET At(j) == base - ((base \div Size(k)) % Size(j - k)) * Size(k)
        top == Min({j \in k .. MAX_ORDER :
                       j = MAX_ORDER \/ ~ PageIsBuddy(m, BuddyIdx(At(j), j), j)})
        merged == {BuddyIdx(At(j), j) : j \in k .. top - 1}
    IN  [list |-> [j \in Orders |->
                     IF j = top THEN <<At(top)>> \o m.list[j]
                     ELSE SelectSeq(m.list[j], LAMBDA p : p \notin merged)],
         order |-> [p \in Pages |-> IF p = At(top) THEN top
                                    ELSE IF p \in merged THEN Unflagged
                                    ELSE m.order[p]]]

\* The orders whose bit is set in n, from the lowest.
Bits(n) == SelectSeq([i \in 1 .. MAX_ORDER + 1 |-> i - 1],
                     LAMBDA k : (n \div Size(k)) % 2 = 1)

\* buddy_free_pages on the lists: n pages from base are freed in pieces of a
\* power of two, the smallest first, whatever the alignment of base.
FreeRun(m, base, n) == FoldLeft(LAMBDA s, k : FreeSub(s, base + (n % Size(k)), k), m, Bits(n))

----------------------------------------------------------------------------
\* The manager: m.mem, m.count and m.excess are mem, now_count and excess.
Manager == [mem |-> mem, count |-> now_count, excess |-> excess]

\* buddy_alloc_pages has a block to return.  The count may say that there are
\* enough pages; the lists decide.
Grants(m, n) == n > 0 /\ n <= m.count /\ Candidates(m.mem, GetOrder(n)) # {}

\* buddy_alloc_pages: a block is taken and the pages the caller did not ask for
\* are freed, which adds them to the count they were never taken from.
Granted(m, n) ==
    LET k == GetOrder(n)
        rest == Size(k) - n
    IN  [mem |-> FreeRun(Take(m.mem, k), BlockFor(m.mem, k) + n, rest),
         count |-> m.count + rest - n,
         excess |-> m.excess + rest]

\* buddy_free_pages.
Freed(m, base, n) == [m EXCEPT !.mem = FreeRun(@, base, n), !.count = @ + n]

\* A round of the self-test; passed says that all its requests were granted.
TestRound(m, sizes) ==
    LET Request(s, n) ==
            [m |-> Granted(s.m, n),
             pages |-> Append(s.pages, BlockFor(s.m.mem, GetOrder(n))),
             passed |-> s.passed /\ Grants(s.m, n)]
        asked == FoldLeft(Request, [m |-> m.m, pages |-> <<>>, passed |-> m.passed], sizes)
        Undo(t, i) == Freed(t, asked.pages[i], sizes[i])
    IN  [m |-> FoldLeft(Undo, asked.m, [i \in DOMAIN sizes |-> i]), passed |-> asked.passed]

\* The manager buddy_page_init leaves: all pages are free and counted, then the
\* self-test.
Tested ==
    FoldLeft(TestRound,
             [m |-> [mem |-> InitialMem, count |-> NPages, excess |-> 0], passed |-> TRUE],
             TestRounds)

\* There is memory for the self-test, which would free what it did not get.
RoomToTest == Tested.passed

----------------------------------------------------------------------------
\* buddy_page_init
Init ==
    /\ mem = Tested.m.mem
    /\ now_count = Tested.m.count
    /\ excess = Tested.m.excess

AllocRefused(n) ==
    /\ ~ Grants(Manager, n)
    /\ ret' = NoPage
    /\ UNCHANGED vars

AllocBlock(n) ==
    LET after == Granted(Manager, n)
    IN  /\ Grants(Manager, n)
        /\ mem' = after.mem
        /\ now_count' = after.count
        /\ excess' = after.excess
        /\ ret' = BlockFor(mem, GetOrder(n))

Alloc(n) == AllocRefused(n) \/ AllocBlock(n)

Free(base, n) ==
    LET after == Freed(Manager, base, n)
    IN  /\ mem' = after.mem
        /\ now_count' = after.count
        /\ UNCHANGED <<excess, ret>>

----------------------------------------------------------------------------
\* The flags and the lists name the same blocks, which lie in memory and do not
\* overlap, whatever was halved and merged.  Sizes that are not powers of two,
\* like those of the self-test, leave blocks that are not aligned, which may lie
\* beside their buddies unmerged.
BlocksConsistent ==
    LET heads == {p \in Pages : mem.order[p] # Unflagged}
        Block(p) == p .. p + Size(mem.order[p]) - 1
    IN  /\ \A k \in Orders :
              /\ ToSet(mem.list[k]) = {p \in Pages : mem.order[p] = k}
              /\ \A i, j \in DOMAIN mem.list[k] : mem.list[k][i] = mem.list[k][j] => i = j
        /\ \A p \in heads : Block(p) \subseteq Pages /\ Block(p) \cap heads = {p}
=============================================================================
