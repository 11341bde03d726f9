---------------------------- MODULE MemoryProof ----------------------------
(***************************************************************************)
(* Proofs about the kernel's memory: pmm_init divides it without overlap,  *)
(* for every size of the kernel, of a page and of the memory (Memory);     *)
(* kmalloc and kfree keep the arena tiled, for every arena and all sizes   *)
(* of requests (Slob); map and unmap leave the addresses of the kernel     *)
(* alone and translate all others as asked, for any tables (Vmm); and the  *)
(* first-fit manager implements the page allocator, for any number of      *)
(* pages and any memory the loader reports (FirstFit, Pmm).                *)
(*                                                                         *)
(* split_chunk and glue_chunk both put a few chunks in the place of some   *)
(* that fill the same bytes (Replaced).  That this keeps a list of chunks  *)
(* tiled is shown once (ReplacedTiles), and so is where its used chunks    *)
(* come from (ReplacedUsed); a chunk marked used is one of these.          *)
(*                                                                         *)
(* The list of the first-fit manager is shown to be the free pages in      *)
(* ascending order, the first of each run with the length of the run, and  *)
(* all others with 0 (FirstFitInv).                                        *)
(***************************************************************************)
EXTENDS MemoryManagers, SequenceTheorems, FiniteSetTheorems, WellFoundedInduction, TLAPS

-----------------------------------------------------------------------------
(* How memory is divided.                                                   *)

\* Division by a positive number, for multiples.
LEMMA DivideMultiple ==
    ASSUME NEW d \in Nat \ {0}, NEW q \in Int
    PROVE  (q * d) \div d = q
OBVIOUS

LEMMA DivideBounds ==
    ASSUME NEW d \in Nat \ {0}, NEW n \in Int
    PROVE  /\ n \div d \in Int
           /\ (n \div d) * d <= n
           /\ n < (n \div d) * d + d
OBVIOUS

LEMMA DivideLargest ==
    ASSUME NEW d \in Nat \ {0}, NEW n \in Int, NEW q \in Int, q * d <= n
    PROVE  q <= n \div d
OBVIOUS

LEMMA MultiplyMonotonic ==
    ASSUME NEW d \in Nat, NEW p \in Int, NEW q \in Int, p <= q
    PROVE  d * p <= d * q
OBVIOUS

\* The part of memory the descriptors are counted for is no shorter than the managed part.
LEMMA ManagedFits ==
    ASSUME MemoryAssumption,
           NEW kern_end \in Nat, kern_end >= RAM_KERNEL_START, NEW length \in Nat
    PROVE  /\ MemLength(length) \in Nat
           /\ pmm_addr_end(length) \in Nat
           /\ pmm_addr_end(length) - kern_end <= MemLength(length)
BY DEF MemoryAssumption, MemLength, pmm_addr_end, Smaller

\* Managed pages begin on a page, behind the whole array of descriptors.
LEMMA StartBehindArray ==
    ASSUME MemoryAssumption, NEW kern_end \in Nat, NEW length \in Nat,
           MemLength(length) \in Nat
    PROVE  /\ PagesMemLength(length) \in Nat
           /\ phy_pages(kern_end) + PagesMemLength(length) < pmm_addr_start(kern_end, length)
           /\ \E s \in Int : pmm_addr_start(kern_end, length) = s * PMM_PAGE_SIZE
<1> DEFINE q == MemLength(length) \div PMM_PAGE_SIZE
           n == phy_pages(kern_end) + PagesMemLength(length) + PMM_PAGE_SIZE
<1>1. q \in Nat
  BY DEF MemoryAssumption
<1>2. PagesMemLength(length) \in Nat
  <2>1. \A a \in Nat, b \in Nat : a * b \in Nat
    OBVIOUS
  <2> HIDE DEF q
  <2>2. PagesMemLength(length) = PAGE_T * q
    BY DEF PagesMemLength, q
  <2> QED  BY <1>1, <2>1, <2>2 DEF MemoryAssumption
<1>3. n \in Int /\ PMM_PAGE_SIZE \in Nat \ {0}
  BY <1>2 DEF MemoryAssumption, phy_pages
<1>4. /\ n \div PMM_PAGE_SIZE \in Int
      /\ n < (n \div PMM_PAGE_SIZE) * PMM_PAGE_SIZE + PMM_PAGE_SIZE
  BY <1>3, DivideBounds
<1>5. pmm_addr_start(kern_end, length) = (n \div PMM_PAGE_SIZE) * PMM_PAGE_SIZE
  BY DEF pmm_addr_start
<1>6. phy_pages(kern_end) + PagesMemLength(length) \in Int
  BY <1>2 DEF MemoryAssumption, phy_pages
<1>7. (n \div PMM_PAGE_SIZE) * PMM_PAGE_SIZE \in Int
  BY <1>3, <1>4
<1> QED
  <2>1. phy_pages(kern_end) + PagesMemLength(length) < (n \div PMM_PAGE_SIZE) * PMM_PAGE_SIZE
    <3> DEFINE v == phy_pages(kern_end) + PagesMemLength(length)
               w == (n \div PMM_PAGE_SIZE) * PMM_PAGE_SIZE
    <3>1. v + PMM_PAGE_SIZE < w + PMM_PAGE_SIZE
      BY <1>4
    <3> SUFFICES v < w
      OBVIOUS
    <3>2. v \in Int /\ w \in Int /\ PMM_PAGE_SIZE \in Int
      BY <1>3, <1>6, <1>7
    <3> HIDE DEF v, w
    <3> QED  BY <3>1, <3>2
  <2> QED  BY <1>2, <1>4, <1>5, <2>1

\* When memory ends with a page, the loop counts the pages from the start to the end.
LEMMA CountedToEnd ==
    ASSUME MemoryAssumption, NEW kern_end \in Nat, NEW length \in Nat,
           pmm_addr_start(kern_end, length) \in Int, pmm_addr_end(length) \in Int,
           EndsWithPage(kern_end, length)
    PROVE  /\ phy_pages_count(kern_end, length) \in Nat
           /\ pmm_addr_start(kern_end, length) + phy_pages_count(kern_end, length) * PMM_PAGE_SIZE
                = pmm_addr_end(length)
<1> DEFINE S == pmm_addr_start(kern_end, length)
           E == pmm_addr_end(length)
           c == phy_pages_count(kern_end, length)
<1>1. c \in Nat
  <2>1. CASE E - S <= 0
    BY <2>1 DEF phy_pages_count
  <2>2. CASE ~(E - S <= 0)
    <3>1. c = (E - S + PMM_PAGE_SIZE - 1) \div PMM_PAGE_SIZE
      BY <2>2 DEF phy_pages_count
    <3>2. E - S + PMM_PAGE_SIZE - 1 \in Nat /\ PMM_PAGE_SIZE \in Nat \ {0}
      BY <2>2 DEF MemoryAssumption
    <3>3. \A a \in Nat, d \in Nat \ {0} : a \div d \in Nat
      OBVIOUS
    <3> QED  BY <3>1, <3>2, <3>3
  <2> QED  BY <2>1, <2>2
<1>2. E - PMM_PAGE_SIZE = S + (c - 1) * PMM_PAGE_SIZE
  BY DEF EndsWithPage, page_to_addr
<1>3. PMM_PAGE_SIZE \in Int /\ S \in Int /\ E \in Int
  BY DEF MemoryAssumption
<1> HIDE DEF S, E, c
<1>4. (c - 1) * PMM_PAGE_SIZE = c * PMM_PAGE_SIZE - PMM_PAGE_SIZE
  BY <1>1, <1>3
<1>5. c * PMM_PAGE_SIZE \in Int
  BY <1>1, <1>3
<1>6. S + c * PMM_PAGE_SIZE = E
  BY <1>2, <1>3, <1>4, <1>5
<1> QED  BY <1>1, <1>6 DEF S, E, c

\* The two conversions are each other's inverse.
LEMMA ConversionsInvert ==
    ASSUME MemoryAssumption, NEW kern_end, NEW length, NEW s \in Int,
           pmm_addr_start(kern_end, length) = s * PMM_PAGE_SIZE, NEW i \in Nat
    PROVE  addr_to_page(kern_end, length, page_to_addr(kern_end, length, i)) = i
<1> DEFINE pg == PMM_PAGE_SIZE
<1>1. pg \in Nat \ {0}
  BY DEF MemoryAssumption
<1>2. page_to_addr(kern_end, length, i) = s * pg + i * pg
  BY DEF page_to_addr
<1>3. addr_to_page(kern_end, length, page_to_addr(kern_end, length, i))
        = (((s * pg + i * pg) \div pg) * pg - s * pg) \div pg
  BY <1>2 DEF addr_to_page
<1> HIDE DEF pg
<1>4. s * pg + i * pg = (s + i) * pg
  BY <1>1
<1>5. ((s + i) * pg) \div pg = s + i
  BY <1>1, DivideMultiple
<1>6. (s + i) * pg - s * pg = i * pg
  BY <1>1
<1>7. (i * pg) \div pg = i
  BY <1>1, DivideMultiple
<1> QED  BY <1>3, <1>4, <1>5, <1>6, <1>7

\* pmm_init, for a kernel that lies behind RAM_KERNEL_START and a memory that ends with
\* a page: page tables, array and managed pages do not overlap, whatever their sizes.
THEOREM MemoryIsDivided ==
    ASSUME MemoryAssumption,
           NEW kern_end \in Nat, kern_end >= RAM_KERNEL_START, NEW length \in Nat,
           EndsWithPage(kern_end, length)
    PROVE  Divided(kern_end, length)
<1> DEFINE S == pmm_addr_start(kern_end, length)
           E == pmm_addr_end(length)
           c == phy_pages_count(kern_end, length)
           T == phy_pages(kern_end)
           ML == MemLength(length)
           q == ML \div PMM_PAGE_SIZE
<1>1. ML \in Nat /\ E \in Nat /\ E - kern_end <= ML
  BY ManagedFits
<1>2. /\ PagesMemLength(length) \in Nat
      /\ T + PagesMemLength(length) < S
  BY <1>1, StartBehindArray
<1>3. PICK s \in Int : S = s * PMM_PAGE_SIZE
  BY <1>1, StartBehindArray
<1>4. PMM_PAGE_SIZE \in Nat \ {0} /\ PAGE_T \in Nat
  BY DEF MemoryAssumption
<1>5. S \in Int
  BY <1>3, <1>4
<1>6. c \in Nat /\ S + c * PMM_PAGE_SIZE = E
  BY <1>1, <1>5, CountedToEnd
<1>7. T = kern_end + KVPAGE_SIZE /\ T \in Int /\ kern_end + KVPAGE_SIZE <= T /\ kern_end <= T
  BY DEF phy_pages, MemoryAssumption
<1>8. T + c * PAGE_T <= S
  <2>1. c * PMM_PAGE_SIZE \in Int
    BY <1>4, <1>6
  <2>2. c * PMM_PAGE_SIZE <= ML
    <3> HIDE DEF S, E, c, T, ML
    <3> QED  BY <1>1, <1>2, <1>5, <1>6, <1>7, <2>1
  <2>3. c <= q
    BY <1>1, <1>4, <1>6, <2>2, DivideLargest
  <2>4. q \in Int
    BY <1>1, <1>4, DivideBounds
  <2>5. PAGE_T * c <= PAGE_T * q
    BY <1>4, <1>6, <2>3, <2>4, MultiplyMonotonic
  <2>6. PagesMemLength(length) = PAGE_T * q
    BY DEF PagesMemLength
  <2>7. c * PAGE_T = PAGE_T * c /\ c * PAGE_T \in Int
    BY <1>4, <1>6
  <2> HIDE DEF S, E, c, T, ML, q
  <2> QED  BY <1>2, <1>5, <1>7, <2>5, <2>6, <2>7
<1>9. \A i \in 0 .. c - 1 : addr_to_page(kern_end, length, page_to_addr(kern_end, length, i)) = i
  <2> TAKE i \in 0 .. c - 1
  <2>1. i \in Nat
    BY <1>6
  <2> QED  BY <1>3, <2>1, ConversionsInvert
<1> QED  BY <1>6, <1>7, <1>8, <1>9 DEF Divided

-----------------------------------------------------------------------------
(* Lists of chunks.                                                         *)

\* A non-empty set of naturals has the least element Min picks: the chunk
\* the loop of kmalloc stops at.
LEMMA MinOfNats ==
    ASSUME NEW S \in SUBSET Nat, S # {}
    PROVE  /\ Min(S) \in S
           /\ \A x \in S : Min(S) <= x
<1> DEFINE R == OpToRel(<, Nat)
<1>1. IsWellFoundedOn(R, Nat)
  BY NatLessThanWellFounded
<1>2. \A x, y \in Nat : x < y => <<x, y>> \in R
  BY DEF OpToRel
<1> HIDE DEF R
<1>3. PICK m \in S : \A y \in S : ~ (<<y, m>> \in R)
  BY <1>1, WFMin
<1>4. ASSUME NEW y \in S PROVE m <= y
  <2>1. m \in Nat /\ y \in Nat
    OBVIOUS
  <2>2. ~ (y < m)
    BY <1>2, <1>3, <2>1
  <2> QED BY <2>1, <2>2
<1> QED
  BY <1>4 DEF Min

Chunks == [addr : Nat, length : Nat, used : BOOLEAN]
EndOf(c) == c.addr + Hdr + c.length

\* The chunks of s lie one behind the other, and fill what is between two addresses.
Tiles(s, from, to) ==
    /\ s \in Seq(Chunks) /\ Len(s) >= 1
    /\ s[1].addr = from /\ EndOf(s[Len(s)]) = to
    /\ \A i \in 1 .. Len(s) - 1 : s[i + 1].addr = EndOf(s[i])
    /\ \A i, j \in 1 .. Len(s) : i < j => EndOf(s[i]) <= s[j].addr

\* s with m in the place of its elements lo to hi.
Replaced(s, lo, hi, m) == SubSeq(s, 1, lo - 1) \o m \o SubSeq(s, hi + 1, Len(s))

LEMMA ReplacedElements ==
    ASSUME NEW s \in Seq(Chunks), NEW m \in Seq(Chunks),
           NEW lo \in Nat, NEW hi \in Nat, 1 <= lo, lo <= hi, hi <= Len(s)
    PROVE  /\ Replaced(s, lo, hi, m) \in Seq(Chunks)
           /\ Len(Replaced(s, lo, hi, m)) = Len(s) + Len(m) - (hi - lo + 1)
           /\ \A i \in 1 .. lo - 1 : Replaced(s, lo, hi, m)[i] = s[i]
           /\ \A i \in 1 .. Len(m) : Replaced(s, lo, hi, m)[lo + i - 1] = m[i]
           /\ \A i \in hi + 1 .. Len(s) :
                Replaced(s, lo, hi, m)[i + Len(m) - (hi - lo + 1)] = s[i]
<1> DEFINE a == SubSeq(s, 1, lo - 1)
           b == SubSeq(s, hi + 1, Len(s))
           am == a \o m
           r == am \o b
<1>1. /\ a \in Seq(Chunks) /\ Len(a) = lo - 1 /\ \A i \in 1 .. lo - 1 : a[i] = s[i]
  BY SubSeqProperties
<1>2. /\ b \in Seq(Chunks) /\ Len(b) = Len(s) - hi /\ \A i \in 1 .. Len(s) - hi : b[i] = s[hi + i]
  BY SubSeqProperties
<1>3. Len(m) \in Nat /\ Len(s) \in Nat
  OBVIOUS
<1> HIDE DEF a, b
<1>4. /\ am \in Seq(Chunks) /\ Len(am) = lo - 1 + Len(m)
      /\ \A i \in 1 .. lo - 1 : am[i] = s[i]
      /\ \A i \in 1 .. Len(m) : am[lo + i - 1] = m[i]
  <2>1. /\ am \in Seq(Chunks) /\ Len(am) = lo - 1 + Len(m)
        /\ \A i \in 1 .. lo - 1 + Len(m) : am[i] = IF i <= lo - 1 THEN a[i] ELSE m[i - (lo - 1)]
    <3>1. /\ am \in Seq(Chunks) /\ Len(am) = Len(a) + Len(m)
          /\ \A i \in 1 .. Len(a) + Len(m) : am[i] = IF i <= Len(a) THEN a[i] ELSE m[i - Len(a)]
      BY <1>1, ConcatProperties
    <3> QED BY <1>1, <3>1
  <2>2. \A i \in 1 .. lo - 1 : am[i] = s[i]
    BY <1>1, <1>3, <2>1
  <2>3. ASSUME NEW i \in 1 .. Len(m) PROVE am[lo + i - 1] = m[i]
    <3>1. lo + i - 1 \in 1 .. lo - 1 + Len(m) /\ ~ (lo + i - 1 <= lo - 1)
          /\ (lo + i - 1) - (lo - 1) = i
      BY <1>3
    <3> QED BY <2>1, <3>1
  <2> QED BY <2>1, <2>2, <2>3
<1> HIDE DEF am
<1>5. /\ r \in Seq(Chunks) /\ Len(r) = lo - 1 + Len(m) + Len(s) - hi
      /\ \A i \in 1 .. lo - 1 + Len(m) : r[i] = am[i]
      /\ \A i \in 1 .. Len(s) - hi : r[lo - 1 + Len(m) + i] = b[i]
  <2> DEFINE n == lo - 1 + Len(m)
  <2>1. n \in Nat
    BY <1>3
  <2>2. /\ r \in Seq(Chunks) /\ Len(r) = n + (Len(s) - hi)
        /\ \A i \in 1 .. n + (Len(s) - hi) : r[i] = IF i <= n THEN am[i] ELSE b[i - n]
    <3>1. /\ r \in Seq(Chunks) /\ Len(r) = Len(am) + Len(b)
          /\ \A i \in 1 .. Len(am) + Len(b) : r[i] = IF i <= Len(am) THEN am[i] ELSE b[i - Len(am)]
      <4>1. am \in Seq(Chunks) /\ b \in Seq(Chunks)
        BY <1>2, <1>4
      <4> QED BY <4>1, ConcatProperties
    <3> QED BY <1>2, <1>4, <3>1
  <2> HIDE DEF n, r
  <2>3. ASSUME NEW i \in 1 .. Len(s) - hi PROVE r[n + i] = b[i]
    <3>1. n + i \in 1 .. n + (Len(s) - hi) /\ ~ (n + i <= n) /\ (n + i) - n = i
      BY <1>3, <2>1
    <3> QED BY <2>2, <3>1
  <2>4. ASSUME NEW i \in 1 .. n PROVE r[i] = am[i]
    <3>1. i \in 1 .. n + (Len(s) - hi) /\ i <= n
      BY <1>3, <2>1
    <3> QED BY <2>2, <3>1
  <2>5. Len(r) = n + Len(s) - hi
    BY <1>3, <2>1, <2>2
  <2> QED BY <2>2, <2>3, <2>4, <2>5 DEF n
<1> HIDE DEF r
<1>6. \A i \in 1 .. lo - 1 : r[i] = s[i]
  BY <1>3, <1>4, <1>5
<1>7. \A i \in 1 .. Len(m) : r[lo + i - 1] = m[i]
  BY <1>3, <1>4, <1>5
<1>8. ASSUME NEW i \in hi + 1 .. Len(s) PROVE r[i + Len(m) - (hi - lo + 1)] = s[i]
  <2>1. i - hi \in 1 .. Len(s) - hi /\ i + Len(m) - (hi - lo + 1) = lo - 1 + Len(m) + (i - hi)
        /\ hi + (i - hi) = i
    BY <1>3
  <2> QED BY <1>2, <1>5, <2>1, SMTT(30)
<1>9. Len(r) = Len(s) + Len(m) - (hi - lo + 1)
  BY <1>3, <1>5
<1>10. r = Replaced(s, lo, hi, m)
  BY DEF r, am, a, b, Replaced
<1> QED
  BY <1>5, <1>6, <1>7, <1>8, <1>9, <1>10

LEMMA AddressLeq ==
    ASSUME NEW c \in Chunks, NEW b \in Nat, NEW e \in Chunks,
           EndOf(c) <= b, b <= e.addr
    PROVE  EndOf(c) <= e.addr
BY DEF Chunks, EndOf, Hdr

\* Every chunk lies between the two addresses.
LEMMA TilesWithin ==
    ASSUME NEW s, NEW from, NEW to, Tiles(s, from, to), NEW i \in 1 .. Len(s)
    PROVE  /\ from \in Nat /\ to \in Nat /\ s[i] \in Chunks /\ EndOf(s[i]) \in Nat
           /\ from <= s[i].addr /\ EndOf(s[i]) <= to
<1>1. /\ Len(s) \in Nat /\ s[1] \in Chunks /\ s[Len(s)] \in Chunks /\ s[i] \in Chunks
  BY DEF Tiles
<1>2. \A c \in Chunks : /\ c.addr \in Nat /\ c.length \in Nat /\ EndOf(c) \in Nat
                        /\ c.addr <= EndOf(c)
  BY DEF Chunks, EndOf, Hdr
<1>3. i = 1 \/ EndOf(s[1]) <= s[i].addr
  BY <1>1 DEF Tiles
<1>4. i = Len(s) \/ EndOf(s[i]) <= s[Len(s)].addr
  BY <1>1 DEF Tiles
<1> QED
  BY <1>1, <1>2, <1>3, <1>4, SMTT(30) DEF Tiles

\* Two positions behind hi keep their order when they are shifted back.
LEMMA BothBehind ==
    ASSUME NEW hi \in Nat, NEW d \in Int, NEW n \in Nat, NEW i \in Int, NEW j \in Int, i < j,
           i - d \in hi + 1 .. n, j - d \in hi + 1 .. n
    PROVE  i - d \in 1 .. n /\ j - d \in 1 .. n /\ i - d < j - d
OBVIOUS

LEMMA ReplacedTiles ==
    ASSUME NEW s, NEW from, NEW to, NEW m,
           Tiles(s, from, to), NEW lo \in Nat, NEW hi \in Nat, 1 <= lo, lo <= hi, hi <= Len(s),
           Tiles(m, s[lo].addr, EndOf(s[hi]))
    PROVE  Tiles(Replaced(s, lo, hi, m), from, to)
<1> DEFINE r == Replaced(s, lo, hi, m)
           d == Len(m) - (hi - lo + 1)
<1>1. s \in Seq(Chunks) /\ m \in Seq(Chunks) /\ Len(s) \in Nat /\ Len(m) \in Nat
      /\ Len(m) >= 1 /\ Len(s) >= 1
  BY DEF Tiles
<1>0. r = Replaced(s, lo, hi, m)
  OBVIOUS
<1> HIDE DEF r
<1>2. /\ r \in Seq(Chunks) /\ Len(r) = Len(s) + d
      /\ \A i \in 1 .. lo - 1 : r[i] = s[i]
      /\ \A i \in 1 .. Len(m) : r[lo + i - 1] = m[i]
      /\ \A i \in hi + 1 .. Len(s) : r[i + d] = s[i]
  <2>1. /\ r \in Seq(Chunks) /\ Len(r) = Len(s) + Len(m) - (hi - lo + 1)
        /\ \A i \in 1 .. lo - 1 : r[i] = s[i]
        /\ \A i \in 1 .. Len(m) : r[lo + i - 1] = m[i]
        /\ \A i \in hi + 1 .. Len(s) : r[i + Len(m) - (hi - lo + 1)] = s[i]
    <3>1. s \in Seq(Chunks) /\ m \in Seq(Chunks)
      BY <1>1
    <3>2. lo \in Nat /\ hi \in Nat /\ 1 <= lo /\ lo <= hi /\ hi <= Len(s)
      OBVIOUS
    <3>3. /\ Replaced(s, lo, hi, m) \in Seq(Chunks)
          /\ Len(Replaced(s, lo, hi, m)) = Len(s) + Len(m) - (hi - lo + 1)
          /\ \A i \in 1 .. lo - 1 : Replaced(s, lo, hi, m)[i] = s[i]
          /\ \A i \in 1 .. Len(m) : Replaced(s, lo, hi, m)[lo + i - 1] = m[i]
          /\ \A i \in hi + 1 .. Len(s) :
                Replaced(s, lo, hi, m)[i + Len(m) - (hi - lo + 1)] = s[i]
      BY <3>1, <3>2, ReplacedElements, ZenonT(60)
    <3> QED BY <1>0, <3>3
  <2>2. \A i \in Int : i + Len(m) - (hi - lo + 1) = i + d
    BY <1>1
  <2>3. Len(r) = Len(s) + d
    BY <1>1, <2>1, <2>2
  <2>4. \A i \in hi + 1 .. Len(s) : r[i + d] = s[i]
    <3> HIDE DEF d
    <3>1. \A i \in hi + 1 .. Len(s) : i \in Int
      BY <1>1
    <3> QED BY <2>1, <2>2, <3>1
  <2> QED BY <2>1, <2>3, <2>4
<1>3. /\ d \in Int /\ d = Len(m) - (hi - lo + 1)
      /\ lo \in Nat /\ hi \in Nat /\ 1 <= lo /\ lo <= hi /\ hi <= Len(s)
  BY <1>1
<1> HIDE DEF d
\* Where an element of r comes from.
<1>4. ASSUME NEW i \in 1 .. Len(r)
      PROVE  \/ i \in 1 .. lo - 1 /\ r[i] = s[i]
             \/ i - lo + 1 \in 1 .. Len(m) /\ r[i] = m[i - lo + 1]
             \/ i - d \in hi + 1 .. Len(s) /\ r[i] = s[i - d]
  <2>1. CASE i < lo
    <3>1. i \in 1 .. lo - 1
      BY <1>3, <2>1
    <3> QED BY <1>2, <3>1
  <2>2. CASE i >= lo /\ i < lo + Len(m)
    <3>1. i - lo + 1 \in 1 .. Len(m) /\ lo + (i - lo + 1) - 1 = i
      BY <1>1, <1>3, <2>2
    <3> QED BY <1>2, <3>1
  <2>3. CASE i >= lo + Len(m)
    <3>1. i <= Len(s) + d /\ i \in Int
      BY <1>2
    <3>2. i - d \in hi + 1 .. Len(s) /\ (i - d) + d = i
      BY <1>1, <1>3, <2>3, <3>1
    <3> QED BY <1>2, <3>2
  <2> QED BY <1>1, <1>3, <2>1, <2>2, <2>3
<1>5. \A c \in Chunks : c.addr \in Nat /\ c.length \in Nat /\ EndOf(c) \in Nat /\ c.addr <= EndOf(c)
  BY DEF Chunks, EndOf, Hdr
<1>6. \A i \in 1 .. Len(m) : s[lo].addr <= m[i].addr /\ EndOf(m[i]) <= EndOf(s[hi])
  BY TilesWithin
<1>7. /\ \A i, j \in 1 .. Len(s) : i < j => EndOf(s[i]) <= s[j].addr
      /\ \A i, j \in 1 .. Len(m) : i < j => EndOf(m[i]) <= m[j].addr
      /\ \A i \in 1 .. Len(s) : s[i] \in Chunks
      /\ \A i \in 1 .. Len(m) : m[i] \in Chunks
  BY <1>1 DEF Tiles
<1>8. ASSUME NEW i \in 1 .. Len(r), NEW j \in 1 .. Len(r), i < j PROVE EndOf(r[i]) <= r[j].addr
  <2>1. CASE i \in 1 .. lo - 1 /\ r[i] = s[i]
    <3>1. CASE j \in 1 .. lo - 1 /\ r[j] = s[j]
      <4>1. i \in 1 .. Len(s) /\ j \in 1 .. Len(s)
        BY <1>1, <1>3, <2>1, <3>1
      <4> QED BY <1>7, <1>8, <2>1, <3>1, <4>1
    <3>2. CASE j - lo + 1 \in 1 .. Len(m) /\ r[j] = m[j - lo + 1]
      <4>1. EndOf(s[i]) <= s[lo].addr
        <5>1. i \in 1 .. Len(s) /\ lo \in 1 .. Len(s) /\ i < lo
          BY <1>1, <1>3, <2>1
        <5> QED BY <1>7, <5>1
      <4>2. s[lo].addr <= m[j - lo + 1].addr
        BY <1>6, <3>2
      <4>3. s[i] \in Chunks /\ s[lo] \in Chunks /\ m[j - lo + 1] \in Chunks
        BY <1>1, <1>3, <1>7, <2>1, <3>2, SMTT(30)
      <4> QED BY <2>1, <3>2, <4>1, <4>2, <4>3, <1>5, AddressLeq
    <3>3. CASE j - d \in hi + 1 .. Len(s) /\ r[j] = s[j - d]
      <4>1. i \in 1 .. Len(s) /\ j - d \in 1 .. Len(s) /\ i < j - d
        BY <1>1, <1>3, <2>1, <3>3, SMTT(30)
      <4> QED BY <1>7, <2>1, <3>3, <4>1
    <3> QED BY <1>4, <3>1, <3>2, <3>3
  <2>2. CASE i - lo + 1 \in 1 .. Len(m) /\ r[i] = m[i - lo + 1]
    <3>1. j \notin 1 .. lo - 1
      BY <1>3, <1>8, <2>2
    <3>2. CASE j - lo + 1 \in 1 .. Len(m) /\ r[j] = m[j - lo + 1]
      <4>1. i - lo + 1 < j - lo + 1
        BY <1>3, <1>8
      <4> QED BY <1>7, <2>2, <3>2, <4>1
    <3>3. CASE j - d \in hi + 1 .. Len(s) /\ r[j] = s[j - d]
      <4>1. EndOf(s[hi]) <= s[j - d].addr
        <5>0. j - d \in hi + 1 .. Len(s)
          BY <3>3
        <5>1. hi \in 1 .. Len(s) /\ j - d \in 1 .. Len(s) /\ hi < j - d
          BY <1>1, <1>3, <5>0
        <5> QED BY <1>7, <5>1
      <4>2. EndOf(m[i - lo + 1]) <= EndOf(s[hi])
        BY <1>6, <2>2
      <4>3. s[hi] \in Chunks /\ s[j - d] \in Chunks /\ m[i - lo + 1] \in Chunks
        BY <1>1, <1>3, <1>7, <2>2, <3>3, SMTT(30)
      <4> QED BY <2>2, <3>3, <4>1, <4>2, <4>3, <1>5, AddressLeq
    <3> QED BY <1>4, <3>1, <3>2, <3>3
  <2>3. CASE i - d \in hi + 1 .. Len(s) /\ r[i] = s[i - d]
    <3>1. j - d \in hi + 1 .. Len(s) /\ r[j] = s[j - d]
      <4>1. j - d > hi /\ j - d <= Len(s)
        <5>1. i - d > hi /\ i < j /\ i \in Int /\ j \in Int
          BY <1>8, <2>3
        <5>2. j <= Len(s) + d /\ Len(s) \in Int /\ hi \in Int /\ d \in Int
          BY <1>1, <1>2, <1>3
        <5> QED  BY <5>1, <5>2
      <4>2. j - d \in hi + 1 .. Len(s) /\ (j - d) + d = j
        BY <1>1, <1>3, <4>1
      <4> QED BY <1>2, <4>2
    <3>2. i - d \in 1 .. Len(s) /\ j - d \in 1 .. Len(s) /\ i - d < j - d
      <4>1. /\ hi \in Nat /\ d \in Int /\ Len(s) \in Nat /\ i \in Int /\ j \in Int /\ i < j
            /\ i - d \in hi + 1 .. Len(s) /\ j - d \in hi + 1 .. Len(s)
        BY <1>1, <1>3, <1>8, <2>3, <3>1
      <4> QED BY ONLY <4>1, BothBehind
    <3> QED BY <1>7, <2>3, <3>1, <3>2
  <2> QED BY <1>4, <2>1, <2>2, <2>3
<1>9. ASSUME NEW i \in 1 .. Len(r) - 1 PROVE r[i + 1].addr = EndOf(r[i])
  <2>0. /\ \A k \in 1 .. Len(s) - 1 : s[k + 1].addr = EndOf(s[k])
        /\ \A k \in 1 .. Len(m) - 1 : m[k + 1].addr = EndOf(m[k])
        /\ m[1].addr = s[lo].addr /\ EndOf(m[Len(m)]) = EndOf(s[hi])
    BY DEF Tiles
  <2>1. CASE i < lo - 1
    <3>1. i \in 1 .. lo - 1 /\ i + 1 \in 1 .. lo - 1 /\ i \in 1 .. Len(s) - 1
      BY <1>1, <1>3, <2>1
    <3> QED BY <1>2, <2>0, <3>1
  <2>2. CASE i = lo - 1
    <3>1. r[i] = s[i] /\ r[i + 1] = m[1]
      <4>1. 1 \in 1 .. Len(m) /\ lo + 1 - 1 = i + 1 /\ i \in 1 .. lo - 1
        BY <1>1, <1>3, <2>2
      <4> QED BY <1>2, <4>1
    <3>2. s[i + 1].addr = EndOf(s[i]) /\ i + 1 = lo
      BY <1>1, <1>3, <2>0, <2>2
    <3> QED BY <2>0, <3>1, <3>2
  <2>3. CASE i >= lo /\ i < lo + Len(m) - 1
    <3>1. i - lo + 1 \in 1 .. Len(m) - 1 /\ i - lo + 1 \in 1 .. Len(m) /\ i - lo + 2 \in 1 .. Len(m)
          /\ lo + (i - lo + 1) - 1 = i /\ lo + (i - lo + 2) - 1 = i + 1
          /\ (i - lo + 1) + 1 = i - lo + 2
      BY <1>1, <1>3, <2>3
    <3>2. r[i] = m[i - lo + 1] /\ r[i + 1] = m[i - lo + 2]
      BY <1>2, <3>1
    <3> QED BY <2>0, <3>1, <3>2
  <2>4. CASE i = lo + Len(m) - 1
    <3>1. r[i] = m[Len(m)]
      <4>1. Len(m) \in 1 .. Len(m)
        BY <1>1
      <4> QED BY <1>2, <2>4, <4>1
    <3>2. hi + 1 \in hi + 1 .. Len(s) /\ (hi + 1) + d = i + 1 /\ hi \in 1 .. Len(s) - 1
      BY <1>1, <1>2, <1>3, <2>4
    <3>3. r[i + 1] = s[hi + 1]
      BY <1>2, <3>2
    <3> QED BY <2>0, <3>1, <3>2, <3>3
  <2>5. CASE i >= lo + Len(m)
    <3>1. i - d \in hi + 1 .. Len(s) /\ i + 1 - d \in hi + 1 .. Len(s)
          /\ (i - d) + d = i /\ (i + 1 - d) + d = i + 1 /\ (i - d) + 1 = i + 1 - d
          /\ i - d \in 1 .. Len(s) - 1
      BY <1>1, <1>2, <1>3, <2>5
    <3>2. r[i] = s[i - d] /\ r[i + 1] = s[i + 1 - d]
      BY <1>2, <3>1
    <3> QED BY <2>0, <3>1, <3>2
  <2> QED BY <1>1, <1>3, <2>1, <2>2, <2>3, <2>4, <2>5
<1>10. Len(r) \in Nat /\ Len(r) >= 1
  BY <1>1, <1>2, <1>3
<1>11. r[1].addr = from
  <2>1. CASE lo = 1
    <3>1. 1 \in 1 .. Len(m) /\ lo + 1 - 1 = 1
      BY <1>1, <2>1
    <3>2. r[1] = m[1]
      BY <1>2, <2>1, <3>1
    <3> QED BY <2>1, <3>2 DEF Tiles
  <2>2. CASE lo # 1
    BY <1>2, <1>3, <2>2 DEF Tiles
  <2> QED BY <2>1, <2>2
<1>12. EndOf(r[Len(r)]) = to
  <2>1. CASE hi = Len(s)
    <3>1. Len(m) \in 1 .. Len(m) /\ Len(r) = lo + Len(m) - 1
      BY <1>1, <1>2, <1>3, <2>1, SMTT(30)
    <3>2. r[Len(r)] = m[Len(m)]
      BY <1>2, <3>1
    <3> QED BY <2>1, <3>2 DEF Tiles
  <2>2. CASE hi # Len(s)
    <3>1. Len(s) \in hi + 1 .. Len(s)
      BY <1>1, <1>3, <2>2
    <3> QED BY <1>2, <3>1 DEF Tiles
  <2> QED BY <2>1, <2>2
<1> QED
  BY <1>2, <1>8, <1>9, <1>10, <1>11, <1>12 DEF Tiles, r

\* No two free chunks of s are neighbours.
Glued(s) == \A i \in 1 .. Len(s) - 1 : s[i].used \/ s[i + 1].used

LEMMA ReplacedGlued ==
    ASSUME NEW s \in Seq(Chunks), NEW m \in Seq(Chunks), Glued(s), Glued(m), Len(m) >= 1,
           NEW lo \in Nat, NEW hi \in Nat, 1 <= lo, lo <= hi, hi <= Len(s),
           lo = 1 \/ s[lo - 1].used \/ m[1].used,
           hi = Len(s) \/ m[Len(m)].used \/ s[hi + 1].used
    PROVE  Glued(Replaced(s, lo, hi, m))
<1>1. /\ Replaced(s, lo, hi, m) \in Seq(Chunks)
      /\ Len(Replaced(s, lo, hi, m)) = Len(s) + Len(m) - (hi - lo + 1)
      /\ \A i \in 1 .. lo - 1 : Replaced(s, lo, hi, m)[i] = s[i]
      /\ \A i \in 1 .. Len(m) : Replaced(s, lo, hi, m)[lo + i - 1] = m[i]
      /\ \A i \in hi + 1 .. Len(s) :
            Replaced(s, lo, hi, m)[i + Len(m) - (hi - lo + 1)] = s[i]
  <2>1. s \in Seq(Chunks) /\ m \in Seq(Chunks)
    OBVIOUS
  <2>2. lo \in Nat /\ hi \in Nat /\ 1 <= lo /\ lo <= hi /\ hi <= Len(s)
    OBVIOUS
  <2> QED BY ONLY <2>1, <2>2, ReplacedElements, ZenonT(60)
<1> DEFINE r == Replaced(s, lo, hi, m)
           d == Len(m) - (hi - lo + 1)
<1>2. /\ Len(s) \in Nat /\ Len(m) \in Nat /\ d \in Int /\ d = Len(m) - (hi - lo + 1)
      /\ 1 <= lo /\ lo <= hi /\ hi <= Len(s)
      /\ \A i \in Int : i + Len(m) - (hi - lo + 1) = i + d
  OBVIOUS
<1> HIDE DEF d
<1>3. /\ Len(r) = Len(s) + d
      /\ \A i \in 1 .. lo - 1 : r[i] = s[i]
      /\ \A i \in 1 .. Len(m) : r[lo + i - 1] = m[i]
      /\ \A i \in hi + 1 .. Len(s) : r[i + d] = s[i]
  <2> HIDE DEF r
  <2>1. /\ Len(r) = Len(s) + Len(m) - (hi - lo + 1)
        /\ \A i \in 1 .. lo - 1 : r[i] = s[i]
        /\ \A i \in 1 .. Len(m) : r[lo + i - 1] = m[i]
        /\ \A i \in hi + 1 .. Len(s) : r[i + Len(m) - (hi - lo + 1)] = s[i]
    BY <1>1 DEF r
  <2>2. \A i \in hi + 1 .. Len(s) : i \in Int
    BY <1>2
  <2>3. Len(r) = Len(s) + d
    BY <1>2, <2>1
  <2>4. \A i \in hi + 1 .. Len(s) : r[i + d] = s[i]
    BY <1>2, <2>1, <2>2
  <2> QED BY <2>1, <2>3, <2>4
<1>4. /\ \A i \in 1 .. Len(s) - 1 : s[i].used \/ s[i + 1].used
      /\ \A i \in 1 .. Len(m) - 1 : m[i].used \/ m[i + 1].used
  BY DEF Glued
<1> HIDE DEF r
<1>5. ASSUME NEW i \in 1 .. Len(r) - 1 PROVE r[i].used \/ r[i + 1].used
  <2>1. CASE i < lo - 1
    <3>1. i \in 1 .. lo - 1 /\ i + 1 \in 1 .. lo - 1 /\ i \in 1 .. Len(s) - 1
      BY <1>2, <2>1
    <3> QED BY <1>3, <1>4, <3>1
  <2>2. CASE i = lo - 1
    <3>1. 1 \in 1 .. Len(m) /\ lo + 1 - 1 = i + 1 /\ i \in 1 .. lo - 1 /\ lo # 1
      BY <1>2, <2>2
    <3>2. r[i] = s[lo - 1] /\ r[i + 1] = m[1]
      BY <1>3, <2>2, <3>1
    <3>3. s[lo - 1].used \/ s[lo].used
      <4>1. lo - 1 \in 1 .. Len(s) - 1 /\ (lo - 1) + 1 = lo
        BY <1>2, <3>1
      <4> QED BY <1>4, <4>1
    <3> QED BY <3>1, <3>2
  <2>3. CASE i >= lo /\ i < lo + Len(m) - 1
    <3>1. i - lo + 1 \in 1 .. Len(m) - 1 /\ i - lo + 1 \in 1 .. Len(m) /\ i - lo + 2 \in 1 .. Len(m)
          /\ lo + (i - lo + 1) - 1 = i /\ lo + (i - lo + 2) - 1 = i + 1
          /\ (i - lo + 1) + 1 = i - lo + 2
      BY <1>2, <2>3
    <3>2. r[lo + (i - lo + 1) - 1] = m[i - lo + 1] /\ r[lo + (i - lo + 2) - 1] = m[i - lo + 2]
      BY <1>3, <3>1
    <3>3. r[i] = m[i - lo + 1] /\ r[i + 1] = m[i - lo + 2]
      BY <3>1, <3>2
    <3> QED BY <1>4, <3>1, <3>3
  <2>4. CASE i = lo + Len(m) - 1
    <3>1. Len(m) \in 1 .. Len(m)
      BY <1>2
    <3>2. r[i] = m[Len(m)]
      BY <1>3, <2>4, <3>1
    <3>3. i <= Len(s) + d - 1
      BY <1>2, <1>3
    <3>4. hi + 1 \in hi + 1 .. Len(s) /\ (hi + 1) + d = i + 1 /\ hi # Len(s)
      BY <1>2, <2>4, <3>3
    <3>5. r[i + 1] = s[hi + 1]
      BY <1>3, <3>4
    <3> QED BY <3>2, <3>4, <3>5
  <2>5. CASE i >= lo + Len(m)
    <3>0. i <= Len(s) + d - 1
      BY <1>2, <1>3
    <3>1. i - d \in hi + 1 .. Len(s) /\ i + 1 - d \in hi + 1 .. Len(s)
          /\ (i - d) + d = i /\ (i + 1 - d) + d = i + 1 /\ (i - d) + 1 = i + 1 - d
          /\ i - d \in 1 .. Len(s) - 1
      BY <1>2, <2>5, <3>0
    <3>2. \A k \in hi + 1 .. Len(s) : r[k + d] = s[k]
      BY <1>3
    <3>3. r[(i - d) + d] = s[i - d] /\ r[(i + 1 - d) + d] = s[i + 1 - d]
      BY ONLY <3>1, <3>2
    <3>4. r[i] = s[i - d] /\ r[i + 1] = s[i + 1 - d]
      BY ONLY <3>1, <3>3
    <3> QED BY <1>4, <3>1, <3>4
  <2> QED BY <1>2, <2>1, <2>2, <2>3, <2>4, <2>5
<1> QED
  BY <1>5 DEF Glued, r

\* A list of one or two chunks.
LEMMA OneTiles ==
    ASSUME NEW c \in Chunks
    PROVE  Tiles(<<c>>, c.addr, EndOf(c)) /\ Glued(<<c>>)
BY DEF Tiles, Glued

LEMMA TwoTile ==
    ASSUME NEW a \in Chunks, NEW b \in Chunks, b.addr = EndOf(a), a.used
    PROVE  Tiles(<<a, b>>, a.addr, EndOf(b)) /\ Glued(<<a, b>>)
<1>1. /\ <<a, b>> \in Seq(Chunks) /\ Len(<<a, b>>) = 2
      /\ <<a, b>>[1] = a /\ <<a, b>>[2] = b
  OBVIOUS
<1>2. EndOf(a) \in Nat
  BY DEF EndOf, Chunks, Hdr
<1> DEFINE s == <<a, b>>
<1> HIDE DEF s
<1>3. /\ s \in Seq(Chunks) /\ Len(s) = 2 /\ s[1] = a /\ s[2] = b
  BY <1>1 DEF s
<1>4. \A i, j \in 1 .. 2 : i < j => i = 1 /\ j = 2
  OBVIOUS
<1>5. Tiles(s, a.addr, EndOf(b))
  BY <1>2, <1>3, <1>4 DEF Tiles
<1>6. Glued(s)
  BY <1>3 DEF Glued
<1> QED
  BY <1>5, <1>6 DEF s

-----------------------------------------------------------------------------
(* The list slob_head.                                                      *)

ListInv == Tiles(chunks, 0, Arena) /\ Glued(chunks)

LEMMA InitList ==
    ASSUME ConstantsFit, Init
    PROVE  ListInv
<1>1. Arena \in Nat /\ Arena > 12
  BY DEF ConstantsFit, Hdr
<1>2. Chunk(0, Arena - Hdr, FALSE) \in Chunks /\ EndOf(Chunk(0, Arena - Hdr, FALSE)) = Arena
  BY <1>1 DEF Chunk, Chunks, EndOf, Hdr
<1>3. chunks = <<Chunk(0, Arena - Hdr, FALSE)>>
  BY DEF Init
<1>4. Chunk(0, Arena - Hdr, FALSE).addr = 0
  BY DEF Chunk
<1> QED
  BY <1>2, <1>3, <1>4, OneTiles DEF ListInv

\* kmalloc takes a free chunk that is longer than it needs.
LEMMA KmallocTakes ==
    ASSUME ListInv, NEW size \in Nat, Kmalloc(size)
    PROVE  \E i \in 1 .. Len(chunks) :
              /\ ~ chunks[i].used /\ chunks[i].length > Need(size)
              /\ chunks' = Replaced(chunks, i, i, Split(chunks[i], Need(size)))
              /\ held' = held \cup {<<chunks[i].addr + Hdr, size>>}
<1> DEFINE i == Min(Suitable(Need(size)))
<1>1. chunks \in Seq(Chunks) /\ DOMAIN chunks = 1 .. Len(chunks)
  BY DEF ListInv, Tiles
<1>2. Suitable(Need(size)) # {} /\ Suitable(Need(size)) \in SUBSET Nat
  <2>1. Suitable(Need(size)) # {}
    BY DEF Kmalloc
  <2>2. Suitable(Need(size)) \subseteq DOMAIN chunks
    BY DEF Suitable
  <2> QED BY <1>1, <2>1, <2>2
<1>3. i \in Suitable(Need(size))
  BY <1>2, MinOfNats
<1>4. i \in 1 .. Len(chunks) /\ ~ chunks[i].used /\ chunks[i].length > Need(size)
  BY <1>1, <1>3 DEF Suitable
<1>5. chunks' = Replaced(chunks, i, i, Split(chunks[i], Need(size)))
      /\ held' = held \cup {<<chunks[i].addr + Hdr, size>>}
  BY DEF Kmalloc, Replaced
<1> HIDE DEF i
<1> QED
  BY <1>4, <1>5

\* split_chunk leaves chunks that fill the place of the one it was given.
LEMMA SplitTiles ==
    ASSUME NEW c \in Chunks, ~ c.used, NEW len \in Nat
    PROVE  LET m == Split(c, len)
           IN  /\ Tiles(m, c.addr, EndOf(c)) /\ Glued(m)
               /\ m = <<c>> \/ m[1].used
<1>1. CASE Splits(c, len)
  <2> DEFINE a == Chunk(c.addr, len, TRUE)
             b == Chunk(c.addr + Hdr + len, c.length - len - Hdr, FALSE)
  <2>1. Split(c, len) = <<a, b>>
    BY <1>1 DEF Split
  <2>2. a \in Chunks /\ b \in Chunks
    BY <1>1 DEF Splits, Chunk, Chunks, Hdr, SLOB_MIN_PART
  <2>3. a.addr = c.addr /\ a.used /\ b.addr = EndOf(a) /\ EndOf(b) = EndOf(c)
    BY <1>1 DEF Splits, Chunk, Chunks, EndOf, Hdr, SLOB_MIN_PART
  <2>4. <<a, b>>[1] = a
    OBVIOUS
  <2> HIDE DEF a, b
  <2> QED BY <2>1, <2>2, <2>3, <2>4, TwoTile
<1>2. CASE ~ Splits(c, len)
  <2>1. Split(c, len) = <<c>>
    BY <1>2 DEF Split
  <2> QED BY <2>1, OneTiles
<1> QED
  BY <1>1, <1>2

LEMMA KmallocList ==
    ASSUME ListInv, NEW size \in Nat, Kmalloc(size)
    PROVE  ListInv'
<1>1. PICK i \in 1 .. Len(chunks) :
         /\ ~ chunks[i].used /\ chunks[i].length > Need(size)
         /\ chunks' = Replaced(chunks, i, i, Split(chunks[i], Need(size)))
  BY KmallocTakes
<1> DEFINE m == Split(chunks[i], Need(size))
<1>2. chunks \in Seq(Chunks) /\ Len(chunks) \in Nat /\ chunks[i] \in Chunks
      /\ i \in Nat /\ 1 <= i /\ i <= Len(chunks)
  BY DEF ListInv, Tiles
<1>3. Need(size) \in Nat
  BY DEF Need, Hdr, SLOB_MIN_PART
<1>4. Tiles(m, chunks[i].addr, EndOf(chunks[i])) /\ Glued(m) /\ (m = <<chunks[i]>> \/ m[1].used)
  BY <1>1, <1>2, <1>3, SplitTiles
<1>5. Tiles(chunks', 0, Arena)
  BY <1>1, <1>2, <1>4, ReplacedTiles DEF ListInv
<1>6. (i = 1 \/ chunks[i - 1].used) /\ (i = Len(chunks) \/ chunks[i + 1].used)
  <2>1. i = 1 \/ (i - 1 \in 1 .. Len(chunks) - 1 /\ (i - 1) + 1 = i)
    BY <1>2
  <2>2. i = Len(chunks) \/ i \in 1 .. Len(chunks) - 1
    BY <1>2
  <2> QED BY <1>1, <2>1, <2>2 DEF ListInv, Glued
<1>7. m \in Seq(Chunks) /\ Len(m) >= 1
  BY <1>4 DEF Tiles
<1> HIDE DEF m
<1>8. Glued(Replaced(chunks, i, i, m))
  BY <1>2, <1>4, <1>6, <1>7, ReplacedGlued DEF ListInv
<1> QED
  BY <1>1, <1>5, <1>8 DEF ListInv, m

\* kfree joins chunk i and the free chunks beside it.
LEMMA GlueJoins ==
    ASSUME ListInv, NEW i \in 1 .. Len(chunks)
    PROVE  \E lo \in Nat, hi \in Nat, g \in Chunks :
              /\ 1 <= lo /\ lo <= i /\ i <= hi /\ hi <= Len(chunks)
              /\ Glue(i) = Replaced(chunks, lo, hi, <<g>>)
              /\ g.addr = chunks[lo].addr /\ EndOf(g) = EndOf(chunks[hi]) /\ ~ g.used
              /\ lo = 1 \/ chunks[lo - 1].used
              /\ hi = Len(chunks) \/ chunks[hi + 1].used
              /\ \A j \in lo .. hi : j = i \/ ~ chunks[j].used
<1> DEFINE lo == IF i > 1 /\ ~ chunks[i - 1].used THEN i - 1 ELSE i
           hi == IF i < Len(chunks) /\ ~ chunks[i + 1].used THEN i + 1 ELSE i
           Gain(j) == IF j = i THEN 0 ELSE chunks[j].length + Hdr
           g == Chunk(chunks[lo].addr, chunks[i].length + Gain(lo) + Gain(hi), FALSE)
<1>1. /\ chunks \in Seq(Chunks) /\ Len(chunks) \in Nat
      /\ \A k \in 1 .. Len(chunks) : chunks[k] \in Chunks
      /\ \A k \in 1 .. Len(chunks) - 1 : chunks[k + 1].addr = EndOf(chunks[k])
      /\ \A k \in 1 .. Len(chunks) - 1 : chunks[k].used \/ chunks[k + 1].used
  <2>1. /\ chunks \in Seq(Chunks)
        /\ \A k \in 1 .. Len(chunks) - 1 : chunks[k + 1].addr = EndOf(chunks[k])
    BY DEF ListInv, Tiles
  <2>2. \A k \in 1 .. Len(chunks) - 1 : chunks[k].used \/ chunks[k + 1].used
    BY DEF ListInv, Glued
  <2>3. Len(chunks) \in Nat /\ \A k \in 1 .. Len(chunks) : chunks[k] \in Chunks
    BY <2>1
  <2> QED BY <2>1, <2>2, <2>3
<1>2. i \in Nat /\ 1 <= i /\ i <= Len(chunks)
  BY <1>1
<1>3. /\ lo \in {i, i - 1} /\ hi \in {i, i + 1} /\ lo \in Nat /\ hi \in Nat
      /\ 1 <= lo /\ lo <= i /\ i <= hi /\ hi <= Len(chunks)
      /\ lo = i - 1 => ~ chunks[lo].used
      /\ hi = i + 1 => ~ chunks[hi].used
      /\ lo = i => i = 1 \/ chunks[i - 1].used
      /\ hi = i => i = Len(chunks) \/ chunks[i + 1].used
  BY <1>1, <1>2
<1>4. Glue(i) = Replaced(chunks, lo, hi, <<g>>)
  BY DEF Glue, Replaced
<1> HIDE DEF lo, hi
<1>5. lo = 1 \/ chunks[lo - 1].used
  <2>1. CASE lo = i
    BY <1>3, <2>1
  <2>2. CASE lo # i /\ lo # 1
    <3>1. lo - 1 \in 1 .. Len(chunks) - 1 /\ (lo - 1) + 1 = lo /\ ~ chunks[lo].used
      BY <1>2, <1>3, <2>2
    <3> QED BY <1>1, <3>1
  <2> QED BY <2>1, <2>2
<1>6. hi = Len(chunks) \/ chunks[hi + 1].used
  <2>1. CASE hi = i
    BY <1>3, <2>1
  <2>2. CASE hi # i /\ hi # Len(chunks)
    <3>1. hi \in 1 .. Len(chunks) - 1 /\ ~ chunks[hi].used
      BY <1>1, <1>2, <1>3, <2>2
    <3> QED BY <1>1, <3>1
  <2> QED BY <2>1, <2>2
<1>7. \A j \in lo .. hi : j = i \/ ~ chunks[j].used
  <2> TAKE j \in lo .. hi
  <2>1. j = i \/ (j = lo /\ lo = i - 1) \/ (j = hi /\ hi = i + 1)
    BY <1>2, <1>3
  <2> QED BY <1>3, <2>1
<1>8. /\ chunks[lo] \in Chunks /\ chunks[hi] \in Chunks /\ chunks[i] \in Chunks
      /\ lo = i \/ chunks[i].addr = EndOf(chunks[lo])
      /\ hi = i \/ chunks[hi].addr = EndOf(chunks[i])
  <2>1. lo \in 1 .. Len(chunks) /\ hi \in 1 .. Len(chunks)
    BY <1>1, <1>2, <1>3
  <2>2. lo = i \/ (lo \in 1 .. Len(chunks) - 1 /\ lo + 1 = i)
    BY <1>1, <1>2, <1>3
  <2>3. hi = i \/ (i \in 1 .. Len(chunks) - 1 /\ hi = i + 1)
    BY <1>1, <1>2, <1>3
  <2> QED BY <1>1, <2>1, <2>2, <2>3
<1>9. /\ g = [addr |-> chunks[lo].addr, length |-> chunks[i].length + Gain(lo) + Gain(hi),
              used |-> FALSE]
      /\ Gain(lo) = IF lo = i THEN 0 ELSE chunks[lo].length + 12
      /\ Gain(hi) = IF hi = i THEN 0 ELSE chunks[hi].length + 12
  BY DEF Chunk, Hdr
<1> HIDE DEF g, Gain
<1>10. Gain(lo) \in Nat /\ Gain(hi) \in Nat
  BY <1>8, <1>9, SMTT(30) DEF Chunks
<1>11. g \in Chunks /\ g.addr = chunks[lo].addr /\ ~ g.used
       /\ g.length = chunks[i].length + Gain(lo) + Gain(hi)
  <2>1. chunks[lo].addr \in Nat /\ chunks[i].length + Gain(lo) + Gain(hi) \in Nat
    BY <1>8, <1>10 DEF Chunks
  <2> QED BY <1>9, <2>1 DEF Chunks
<1>12. EndOf(g) = EndOf(chunks[hi])
  <2>1. chunks[lo].addr + Gain(lo) = chunks[i].addr
    BY <1>8, <1>9 DEF Chunks, EndOf, Hdr
  <2>2. chunks[i].addr + 12 + chunks[i].length + Gain(hi) = EndOf(chunks[hi])
    BY <1>8, <1>9 DEF Chunks, EndOf, Hdr
  <2>3. EndOf(g) = chunks[lo].addr + 12 + (chunks[i].length + Gain(lo) + Gain(hi))
    BY <1>11 DEF EndOf, Hdr
  <2>4. chunks[lo].addr \in Nat /\ chunks[i].length \in Nat /\ chunks[i].addr \in Nat
    BY <1>8 DEF Chunks
  <2> DEFINE a == chunks[lo].addr
             b == chunks[i].length
             c == Gain(lo)
             d == Gain(hi)
             e == chunks[i].addr
  <2>5. a \in Nat /\ b \in Nat /\ c \in Nat /\ d \in Nat /\ e \in Nat /\ a + c = e
    BY <1>10, <2>1, <2>4
  <2>6. EndOf(g) = a + 12 + (b + c + d) /\ EndOf(chunks[hi]) = e + 12 + b + d
    BY <2>2, <2>3
  <2> HIDE DEF a, b, c, d, e
  <2>7. a + 12 + (b + c + d) = e + 12 + b + d
    BY <2>5
  <2> QED BY <2>6, <2>7
<1> QED
  BY <1>3, <1>4, <1>5, <1>6, <1>7, <1>11, <1>12

LEMMA GlueList ==
    ASSUME ListInv, NEW i \in 1 .. Len(chunks), chunks' = Glue(i)
    PROVE  ListInv'
<1>1. PICK lo \in Nat, hi \in Nat, g \in Chunks :
         /\ 1 <= lo /\ lo <= i /\ i <= hi /\ hi <= Len(chunks)
         /\ Glue(i) = Replaced(chunks, lo, hi, <<g>>)
         /\ g.addr = chunks[lo].addr /\ EndOf(g) = EndOf(chunks[hi]) /\ ~ g.used
         /\ lo = 1 \/ chunks[lo - 1].used
         /\ hi = Len(chunks) \/ chunks[hi + 1].used
  BY GlueJoins
<1>2. chunks \in Seq(Chunks) /\ Len(chunks) \in Nat /\ i \in Nat
  BY DEF ListInv, Tiles
<1>3. lo <= hi
  BY <1>1, <1>2
<1>4. Tiles(<<g>>, g.addr, EndOf(g)) /\ Glued(<<g>>)
  BY OneTiles
<1>5. Tiles(chunks', 0, Arena)
  BY <1>1, <1>3, <1>4, ReplacedTiles DEF ListInv
<1>6. Glued(chunks')
  <2>1. <<g>> \in Seq(Chunks) /\ Len(<<g>>) = 1
    OBVIOUS
  <2>2. Glued(chunks) /\ Glued(<<g>>) /\ 1 <= lo /\ lo <= hi /\ hi <= Len(chunks)
    BY <1>1, <1>3, <1>4 DEF ListInv
  <2>3. (lo = 1 \/ chunks[lo - 1].used) /\ (hi = Len(chunks) \/ chunks[hi + 1].used)
    BY <1>1
  <2> DEFINE m == <<g>>
  <2>4. m \in Seq(Chunks) /\ Len(m) >= 1 /\ Glued(m)
    BY <2>1, <2>2
  <2> HIDE DEF m
  <2>5. Glued(Replaced(chunks, lo, hi, m))
    BY <1>2, <2>2, <2>3, <2>4, ReplacedGlued
  <2> QED BY <1>1, <2>5 DEF m
<1> QED
  BY <1>5, <1>6 DEF ListInv

\* kfree finds nothing, or one chunk.
LEMMA KfreeList ==
    ASSUME ListInv, NEW h, Kfree(h)
    PROVE  ListInv'
<1>1. CASE Marked(h) = {}
  BY <1>1 DEF Kfree, ListInv
<1>2. CASE Marked(h) # {}
  <2> DEFINE i == CHOOSE i \in Marked(h) : TRUE
  <2>1. i \in Marked(h) /\ chunks' = Glue(i)
    BY <1>2 DEF Kfree
  <2>2. i \in 1 .. Len(chunks)
    BY <2>1 DEF Marked, ListInv, Tiles
  <2> HIDE DEF i
  <2> QED BY <2>1, <2>2, GlueList
<1> QED
  BY <1>1, <1>2

LEMMA NextList ==
    ASSUME ConstantsFit, ListInv, [Next]_vars
    PROVE  ListInv'
<1>1. ASSUME NEW size \in Sizes, Kmalloc(size) PROVE ListInv'
  <2>1. size \in Nat
    BY DEF ConstantsFit
  <2> QED BY <1>1, <2>1, KmallocList
<1>2. ASSUME NEW size \in Sizes, KmallocFails(size) PROVE ListInv'
  BY <1>2 DEF KmallocFails, vars, ListInv
<1>3. ASSUME NEW h \in held, Kfree(h) PROVE ListInv'
  BY <1>3, KfreeList
<1>4. CASE UNCHANGED vars
  BY <1>4 DEF vars, ListInv
<1> QED
  BY <1>1, <1>2, <1>3, <1>4 DEF Next

-----------------------------------------------------------------------------
(* What callers hold.                                                       *)

UsedSet(s) == {s[k] : k \in {k \in 1 .. Len(s) : s[k].used}}

HeldInv ==
    \A c \in UsedSet(chunks) : \E h \in held : h[1] = c.addr + Hdr /\ h[2] <= c.length

\* Chunks at different places are different.
LEMMA TilesDistinct ==
    ASSUME NEW s, NEW from, NEW to, Tiles(s, from, to), NEW i \in 1 .. Len(s), NEW j \in 1 .. Len(s),
           s[i].addr = s[j].addr
    PROVE  i = j
<1>1. s[i] \in Chunks /\ s[j] \in Chunks /\ i \in Int /\ j \in Int
  BY DEF Tiles
<1>2. CASE i < j
  BY <1>1, <1>2, SMTT(30) DEF Tiles, Chunks, EndOf, Hdr
<1>3. CASE j < i
  BY <1>1, <1>3, SMTT(30) DEF Tiles, Chunks, EndOf, Hdr
<1> QED
  BY <1>1, <1>2, <1>3

\* Of the chunks from lo to hi at most the i-th is used.
OnlyUsed(s, lo, hi, i) == \A j \in lo .. hi : j = i \/ ~ s[j].used

\* When no used chunk but s[i] is replaced, only s[i] and the new ones matter.
LEMMA ReplacedUsed ==
    ASSUME NEW s, NEW from, NEW to, Tiles(s, from, to), NEW m \in Seq(Chunks),
           NEW lo \in Nat, NEW hi \in Nat, NEW i \in Nat,
           1 <= lo, lo <= i, i <= hi, hi <= Len(s), OnlyUsed(s, lo, hi, i)
    PROVE  UsedSet(Replaced(s, lo, hi, m)) = (UsedSet(s) \ {s[i]}) \cup UsedSet(m)
<1>1. s \in Seq(Chunks) /\ lo <= hi /\ m \in Seq(Chunks)
  BY DEF Tiles
<1>2. /\ Replaced(s, lo, hi, m) \in Seq(Chunks)
      /\ Len(Replaced(s, lo, hi, m)) = Len(s) + Len(m) - (hi - lo + 1)
      /\ \A k \in 1 .. lo - 1 : Replaced(s, lo, hi, m)[k] = s[k]
      /\ \A k \in 1 .. Len(m) : Replaced(s, lo, hi, m)[lo + k - 1] = m[k]
      /\ \A k \in hi + 1 .. Len(s) :
            Replaced(s, lo, hi, m)[k + Len(m) - (hi - lo + 1)] = s[k]
  <2>2. lo \in Nat /\ hi \in Nat /\ 1 <= lo /\ hi <= Len(s)
    OBVIOUS
  <2> QED BY ONLY <1>1, <2>2, ReplacedElements, ZenonT(60)
<1> DEFINE r == Replaced(s, lo, hi, m)
           d == Len(m) - (hi - lo + 1)
<1> HIDE DEF r
<1>3. /\ Len(s) \in Nat /\ Len(m) \in Nat /\ d \in Int /\ d = Len(m) - (hi - lo + 1)
      /\ 1 <= lo /\ lo <= hi /\ hi <= Len(s) /\ lo <= i /\ i <= hi
      /\ \A k \in Int : k + Len(m) - (hi - lo + 1) = k + d
  BY <1>1
<1>4. /\ Len(r) = Len(s) + Len(m) - (hi - lo + 1)
      /\ \A k \in 1 .. lo - 1 : r[k] = s[k]
      /\ \A k \in 1 .. Len(m) : r[lo + k - 1] = m[k]
      /\ \A k \in hi + 1 .. Len(s) : r[k + Len(m) - (hi - lo + 1)] = s[k]
  BY <1>2 DEF r
<1> HIDE DEF d
<1>5. Len(r) = Len(s) + d
  BY <1>3, <1>4
<1>6. \A k \in hi + 1 .. Len(s) : r[k + d] = s[k]
  BY <1>3, <1>4
<1>7. ASSUME NEW k \in 1 .. Len(s), k # i, s[k].used PROVE s[k] \in UsedSet(r)
  <2>1. CASE k < lo
    <3>1. k \in 1 .. lo - 1 /\ k \in 1 .. Len(r)
      BY <1>3, <1>5, <2>1
    <3>2. r[k] = s[k]
      BY <1>4, <3>1
    <3> QED BY <1>7, <3>1, <3>2 DEF UsedSet
  <2>2. CASE k > hi
    <3>1. k \in hi + 1 .. Len(s) /\ k + d \in 1 .. Len(r)
      BY <1>3, <1>5, <2>2
    <3>2. r[k + d] = s[k]
      BY <1>6, <3>1
    <3> QED BY <1>7, <3>1, <3>2 DEF UsedSet
  <2>3. CASE lo <= k /\ k <= hi
    BY <1>7, <2>3 DEF OnlyUsed
  <2> QED BY <1>3, <2>1, <2>2, <2>3
<1>8. ASSUME NEW k \in 1 .. Len(m), m[k].used PROVE m[k] \in UsedSet(r)
  <2>1. lo + k - 1 \in 1 .. Len(r)
    BY <1>3, <1>5
  <2>2. r[lo + k - 1] = m[k]
    BY <1>4
  <2> QED BY <1>8, <2>1, <2>2 DEF UsedSet
<1>9. ASSUME NEW k \in 1 .. Len(r), r[k].used
      PROVE  r[k] \in (UsedSet(s) \ {s[i]}) \cup UsedSet(m)
  <2>1. CASE k < lo
    <3>1. k \in 1 .. lo - 1 /\ k \in 1 .. Len(s) /\ k # i /\ i \in 1 .. Len(s)
      BY <1>3, <2>1
    <3>2. r[k] = s[k] /\ s[k] # s[i]
      BY <1>4, <3>1, TilesDistinct
    <3> QED BY <1>9, <3>1, <3>2 DEF UsedSet
  <2>2. CASE lo <= k /\ k < lo + Len(m)
    <3>1. k - lo + 1 \in 1 .. Len(m) /\ lo + (k - lo + 1) - 1 = k
      BY <1>3, <2>2
    <3>2. r[lo + (k - lo + 1) - 1] = m[k - lo + 1]
      BY <1>4, <3>1
    <3>3. r[k] = m[k - lo + 1]
      BY <3>1, <3>2
    <3> QED BY <1>9, <3>1, <3>3 DEF UsedSet
  <2>3. CASE k >= lo + Len(m)
    <3>0. k <= Len(s) + d
      BY <1>3, <1>5
    <3>1. k - d \in hi + 1 .. Len(s) /\ (k - d) + d = k /\ k - d \in 1 .. Len(s) /\ k - d # i
          /\ i \in 1 .. Len(s)
      BY <1>3, <2>3, <3>0
    <3>2. r[(k - d) + d] = s[k - d]
      BY <1>6, <3>1
    <3>3. r[k] = s[k - d]
      BY <3>1, <3>2
    <3>4. s[k - d] # s[i]
      BY <3>1, TilesDistinct
    <3> QED BY <1>9, <3>1, <3>3, <3>4 DEF UsedSet
  <2> QED BY <1>3, <2>1, <2>2, <2>3
<1>10. \A c \in UsedSet(r) : c \in (UsedSet(s) \ {s[i]}) \cup UsedSet(m)
  BY <1>9 DEF UsedSet
<1>11. \A c \in UsedSet(s) \ {s[i]} : c \in UsedSet(r)
  BY <1>7 DEF UsedSet
<1>12. \A c \in UsedSet(m) : c \in UsedSet(r)
  BY <1>8 DEF UsedSet
<1> QED
  BY <1>10, <1>11, <1>12 DEF r

\* split_chunk marks a chunk as long as what it was asked for, or none.
LEMMA SplitUsed ==
    ASSUME NEW c \in Chunks, ~ c.used, NEW len \in Nat,
           NEW x \in UsedSet(Split(c, len))
    PROVE  x.addr = c.addr /\ x.length = len
<1> DEFINE a == Chunk(c.addr, len, TRUE)
           b == Chunk(c.addr + Hdr + len, c.length - len - Hdr, FALSE)
<1>1. CASE Splits(c, len)
  <2>1. Split(c, len) = <<a, b>> /\ Len(<<a, b>>) = 2 /\ <<a, b>>[1] = a /\ <<a, b>>[2] = b
    BY <1>1 DEF Split
  <2>2. a.addr = c.addr /\ a.length = len /\ ~ b.used
    BY DEF Chunk
  <2> HIDE DEF a, b
  <2> QED BY <2>1, <2>2 DEF UsedSet
<1>2. CASE ~ Splits(c, len)
  <2>1. Split(c, len) = <<c>> /\ Len(<<c>>) = 1 /\ <<c>>[1] = c
    BY <1>2 DEF Split
  <2> QED BY <2>1 DEF UsedSet
<1> QED
  BY <1>1, <1>2

LEMMA KmallocHeld ==
    ASSUME ListInv, HeldInv, NEW size \in Nat, Kmalloc(size)
    PROVE  HeldInv'
<1>1. PICK i \in 1 .. Len(chunks) :
         /\ ~ chunks[i].used /\ chunks[i].length > Need(size)
         /\ chunks' = Replaced(chunks, i, i, Split(chunks[i], Need(size)))
         /\ held' = held \cup {<<chunks[i].addr + Hdr, size>>}
  BY KmallocTakes
<1> DEFINE c == chunks[i]
           m == Split(c, Need(size))
           new == <<c.addr + Hdr, size>>
<1>2. /\ Tiles(chunks, 0, Arena) /\ c \in Chunks
      /\ i \in Nat /\ 1 <= i /\ i <= i /\ i <= Len(chunks)
  BY DEF ListInv, Tiles
<1>3. Need(size) \in Nat /\ size <= Need(size)
  BY DEF Need, Hdr, SLOB_MIN_PART
<1>4. m \in Seq(Chunks)
  BY <1>1, <1>2, <1>3, SplitTiles DEF Tiles
<1>5. UsedSet(chunks') = (UsedSet(chunks) \ {c}) \cup UsedSet(m)
  <2>1. OnlyUsed(chunks, i, i, i)
    BY <1>2 DEF OnlyUsed
  <2> HIDE DEF m
  <2>2. UsedSet(Replaced(chunks, i, i, m)) = (UsedSet(chunks) \ {chunks[i]}) \cup UsedSet(m)
    BY ONLY <1>2, <1>4, <2>1, ReplacedUsed
  <2> QED BY <1>1, <2>2 DEF m
<1>6. new[1] = c.addr + Hdr /\ new[2] = size /\ held' = held \cup {new}
  BY <1>1
<1>7. \A x \in UsedSet(m) : x.addr = c.addr /\ x.length = Need(size)
  BY <1>1, <1>2, <1>3, SplitUsed
<1> HIDE DEF c, m, new
<1>8. ASSUME NEW x \in UsedSet(chunks')
      PROVE  \E h \in held' : h[1] = x.addr + Hdr /\ h[2] <= x.length
  <2>1. CASE x \in UsedSet(chunks)
    BY <1>6, <2>1 DEF HeldInv
  <2>2. CASE x \in UsedSet(m)
    <3>1. x.addr = c.addr /\ x.length = Need(size)
      BY <1>7, <2>2
    <3> QED BY <1>3, <1>6, <3>1
  <2> QED BY <1>5, <2>1, <2>2
<1> QED
  BY <1>8 DEF HeldInv

\* A pointer that finds no marked chunk is no marked chunk's only holder.
LEMMA KfreeHeld ==
    ASSUME ListInv, HeldInv, NEW h \in held, Kfree(h)
    PROVE  HeldInv'
<1>1. /\ DOMAIN chunks = 1 .. Len(chunks) /\ chunks \in Seq(Chunks) /\ Len(chunks) \in Nat
      /\ Tiles(chunks, 0, Arena)
  BY DEF ListInv, Tiles
<1>2. held' = held \ {h}
  BY DEF Kfree
<1>3. CASE Marked(h) = {}
  <2>1. chunks' = chunks
    BY <1>3 DEF Kfree
  <2>2. ASSUME NEW c \in UsedSet(chunks)
        PROVE  \E f \in held' : f[1] = c.addr + Hdr /\ f[2] <= c.length
    <3>1. PICK f \in held : f[1] = c.addr + Hdr /\ f[2] <= c.length
      BY DEF HeldInv
    <3>2. PICK k \in 1 .. Len(chunks) : c = chunks[k] /\ chunks[k].used
      BY DEF UsedSet
    <3>3. f # h
      <4>1. CASE f = h
        <5>1. k \in Marked(h)
          BY <1>1, <3>1, <3>2, <4>1 DEF Marked
        <5> QED BY <1>3, <5>1
      <4> QED BY <4>1
    <3> QED BY <1>2, <3>1, <3>3
  <2> QED BY <2>1, <2>2 DEF HeldInv
<1>4. CASE Marked(h) # {}
  <2> DEFINE i == CHOOSE i \in Marked(h) : TRUE
  <2>1. i \in Marked(h) /\ chunks' = Glue(i)
    BY <1>4 DEF Kfree
  <2> HIDE DEF i
  <2>2. i \in 1 .. Len(chunks) /\ chunks[i].addr + Hdr = h[1] /\ i \in Nat /\ chunks[i] \in Chunks
    BY <1>1, <2>1 DEF Marked
  <2>3. PICK lo \in Nat, hi \in Nat, g \in Chunks :
           /\ 1 <= lo /\ lo <= i /\ i <= hi /\ hi <= Len(chunks)
           /\ Glue(i) = Replaced(chunks, lo, hi, <<g>>)
           /\ ~ g.used
           /\ \A j \in lo .. hi : j = i \/ ~ chunks[j].used
    BY <2>2, GlueJoins
  <2> DEFINE m == <<g>>
  <2>4. m \in Seq(Chunks) /\ UsedSet(m) = {}
    <3>1. m \in Seq(Chunks) /\ Len(m) = 1 /\ m[1] = g
      OBVIOUS
    <3> HIDE DEF m
    <3> QED BY <2>3, <3>1 DEF UsedSet
  <2>5. chunks' = Replaced(chunks, lo, hi, m)
    BY <2>1, <2>3
  <2> HIDE DEF m
  <2>6. UsedSet(chunks') = UsedSet(chunks) \ {chunks[i]}
    <3>1. /\ lo \in Nat /\ hi \in Nat /\ i \in Nat
          /\ 1 <= lo /\ lo <= i /\ i <= hi /\ hi <= Len(chunks)
      BY <2>2, <2>3
    <3>2. OnlyUsed(chunks, lo, hi, i)
      BY <2>3 DEF OnlyUsed
    <3>3. UsedSet(Replaced(chunks, lo, hi, m)) = (UsedSet(chunks) \ {chunks[i]}) \cup UsedSet(m)
      BY ONLY <1>1, <2>4, <3>1, <3>2, ReplacedUsed
    <3> QED BY <2>4, <2>5, <3>3
  <2>7. ASSUME NEW c \in UsedSet(chunks')
        PROVE  \E f \in held' : f[1] = c.addr + Hdr /\ f[2] <= c.length
    <3>1. c \in UsedSet(chunks) /\ c # chunks[i]
      BY <2>6
    <3>2. PICK f \in held : f[1] = c.addr + Hdr /\ f[2] <= c.length
      BY <3>1 DEF HeldInv
    <3>3. PICK k \in 1 .. Len(chunks) : c = chunks[k]
      BY <3>1 DEF UsedSet
    <3>4. c.addr # chunks[i].addr /\ c.addr \in Nat /\ chunks[i].addr \in Nat
      <4>1. k # i /\ chunks[k] \in Chunks
        BY <1>1, <3>1, <3>3
      <4>2. c.addr # chunks[i].addr
        BY <1>1, <2>2, <3>3, <4>1, TilesDistinct
      <4> QED BY <2>2, <3>3, <4>1, <4>2 DEF Chunks
    <3>5. f # h
      BY <2>2, <3>2, <3>4 DEF Hdr
    <3> QED BY <1>2, <3>2, <3>5
  <2> QED BY <2>7 DEF HeldInv
<1> QED
  BY <1>3, <1>4

LEMMA NextHeld ==
    ASSUME ConstantsFit, ListInv, HeldInv, [Next]_vars
    PROVE  HeldInv'
<1>1. CASE UNCHANGED vars
  BY <1>1 DEF vars, HeldInv
<1>2. ASSUME NEW size \in Sizes, KmallocFails(size) PROVE UNCHANGED vars
  BY <1>2 DEF KmallocFails
<1>3. ASSUME NEW size \in Sizes, Kmalloc(size) PROVE HeldInv'
  <2>1. size \in Nat
    BY DEF ConstantsFit
  <2> QED BY <1>3, <2>1, KmallocHeld
<1> QED
  BY <1>1, <1>2, <1>3, KfreeHeld DEF Next

LEMMA InitHeld ==
    ASSUME Init
    PROVE  HeldInv
<1> DEFINE c == Chunk(0, Arena - Hdr, FALSE)
<1>1. chunks = <<c>> /\ ~ c.used
  BY DEF Init, Chunk
<1> HIDE DEF c
<1>2. Len(chunks) = 1 /\ chunks[1] = c
  BY <1>1
<1> QED
  BY <1>1, <1>2 DEF HeldInv, UsedSet

\* Free chunks that tile the arena and are glued are one chunk.
LEMMA AllFreeIsOne ==
    ASSUME ListInv, UsedSet(chunks) = {}
    PROVE  chunks = <<Chunk(0, Arena - Hdr, FALSE)>>
<1>1. /\ chunks \in Seq(Chunks) /\ Len(chunks) \in Nat /\ Len(chunks) >= 1
      /\ chunks[1].addr = 0 /\ EndOf(chunks[Len(chunks)]) = Arena
  BY DEF ListInv, Tiles
<1>2. \A k \in 1 .. Len(chunks) : ~ chunks[k].used
  BY DEF UsedSet
<1>3. Len(chunks) = 1
  <2>1. \A n \in Nat : n >= 1 /\ n # 1 => 1 \in 1 .. n - 1 /\ 1 \in 1 .. n /\ 1 + 1 \in 1 .. n
    OBVIOUS
  <2>2. CASE Len(chunks) # 1
    <3>1. 1 \in 1 .. Len(chunks) - 1 /\ 1 \in 1 .. Len(chunks) /\ 1 + 1 \in 1 .. Len(chunks)
      BY ONLY <1>1, <2>1, <2>2
    <3> QED BY <1>2, <3>1 DEF ListInv, Glued
  <2> QED BY <2>2
<1> DEFINE c == chunks[1]
<1>4. c \in Chunks /\ ~ c.used /\ c.addr = 0 /\ EndOf(c) = Arena
  <2>1. 1 \in 1 .. Len(chunks)
    BY ONLY <1>3
  <2>2. c \in Chunks
    BY ONLY <1>1, <2>1
  <2> QED BY <1>1, <1>2, <1>3, <2>1, <2>2
<1>5. chunks = <<c>>
  BY <1>1, <1>3
<1> HIDE DEF c
<1>6. c.length = Arena - 12 /\ c.used = FALSE
  BY <1>4 DEF Chunks, EndOf, Hdr
<1>7. c = [addr |-> 0, length |-> Arena - 12, used |-> FALSE]
  BY <1>4, <1>6 DEF Chunks
<1>8. Chunk(0, Arena - Hdr, FALSE) = [addr |-> 0, length |-> Arena - 12, used |-> FALSE]
  BY DEF Chunk, Hdr
<1> QED
  BY <1>5, <1>7, <1>8

-----------------------------------------------------------------------------
(* The theorems about kmalloc.                                              *)

LEMMA ListInvariance ==
    ASSUME ConstantsFit
    PROVE  Spec => []ListInv
<1>1. Init => ListInv
  BY InitList
<1>2. ListInv /\ [Next]_vars => ListInv'
  BY NextList
<1> QED
  BY <1>1, <1>2, PTL DEF Spec

\* kmalloc and kfree (slob.c:146 and 168) cut and join chunks without losing a byte
\* and without overlap, for every arena and all sizes.
THEOREM ArenaStaysTiled ==
    ASSUME ConstantsFit
    PROVE  Spec => []ChunksTileArena
<1>1. ListInv => ChunksTileArena
  <2> SUFFICES ASSUME ListInv PROVE ChunksTileArena
    OBVIOUS
  <2>1. Last(chunks) = chunks[Len(chunks)]
    BY DEF Last
  <2> QED BY <2>1 DEF ListInv, Tiles, EndOf, ChunksTileArena
<1> QED
  BY <1>1, ListInvariance, PTL

\* kfree leaves no two free chunks side by side (glue_chunk, slob.c:123).
THEOREM FreedIsGlued ==
    ASSUME ConstantsFit
    PROVE  Spec => []FreeChunksGlued
<1>1. ListInv => FreeChunksGlued
  BY DEF ListInv, Glued, FreeChunksGlued
<1> QED
  BY <1>1, ListInvariance, PTL

\* Every chunk marked used has a caller who can free it, with a size it has room
\* for, and when all callers have freed what they hold the arena is one free chunk
\* again, for every arena and all sizes, those that fit closely included (kmalloc,
\* kfree and split_chunk, slob.c:107-178).
THEOREM MarkedStayHeld ==
    ASSUME ConstantsFit
    PROVE  Spec => []MarkedAreHeld
<1>1. Init => ListInv /\ HeldInv
  BY InitList, InitHeld
<1>2. (ListInv /\ HeldInv) /\ [Next]_vars => (ListInv /\ HeldInv)'
  BY NextList, NextHeld
<1>3. ListInv /\ HeldInv => MarkedAreHeld
  <2> SUFFICES ASSUME ListInv, HeldInv PROVE MarkedAreHeld
    OBVIOUS
  <2>1. DOMAIN chunks = 1 .. Len(chunks)
    BY DEF ListInv, Tiles
  <2>2. ASSUME NEW i \in DOMAIN chunks, chunks[i].used
        PROVE  \E h \in held : h[1] = chunks[i].addr + Hdr /\ h[2] <= chunks[i].length
    <3>1. chunks[i] \in UsedSet(chunks)
      BY <2>1, <2>2 DEF UsedSet
    <3> QED BY <3>1 DEF HeldInv
  <2>3. held = {} => UsedSet(chunks) = {}
    BY DEF HeldInv
  <2> QED BY <2>2, <2>3, AllFreeIsOne DEF MarkedAreHeld
<1> QED
  BY <1>1, <1>2, <1>3, PTL DEF Spec

-----------------------------------------------------------------------------
(* Paging.                                                                  *)

\* Vmm's copy of Memory says what Memory says.
LEMMA SameMemory ==
    ASSUME NEW k, NEW l
    PROVE  /\ V!EndsWithPage(k, l) <=> EndsWithPage(k, l)
           /\ V!phy_pages_count(k, l) = phy_pages_count(k, l)
           /\ \A i : V!page_to_addr(k, l, i) = page_to_addr(k, l, i)
           /\ V!Divided(k, l) <=> Divided(k, l)
<1>1. /\ V!pmm_addr_start(k, l) = pmm_addr_start(k, l)
      /\ V!phy_pages(k) = phy_pages(k)
  BY DEF V!pmm_addr_start, pmm_addr_start, V!phy_pages, phy_pages, V!PagesMemLength,
         PagesMemLength, V!MemLength, MemLength
<1>2. V!pmm_addr_end(l) = pmm_addr_end(l)
  BY DEF V!pmm_addr_end, pmm_addr_end, V!Smaller, Smaller
<1>3. V!phy_pages_count(k, l) = phy_pages_count(k, l)
  BY <1>1, <1>2 DEF V!phy_pages_count, phy_pages_count
<1>4. \A i : V!page_to_addr(k, l, i) = page_to_addr(k, l, i)
  BY <1>1 DEF V!page_to_addr, page_to_addr
<1>5. V!EndsWithPage(k, l) <=> EndsWithPage(k, l)
  BY <1>2, <1>3, <1>4 DEF V!EndsWithPage, EndsWithPage
<1>6. \A a : V!addr_to_page(k, l, a) = addr_to_page(k, l, a)
  BY <1>1 DEF V!addr_to_page, addr_to_page
<1>7. V!Divided(k, l) <=> Divided(k, l)
  BY <1>1, <1>2, <1>3, <1>4, <1>6 DEF V!Divided, Divided
<1> QED  BY <1>3, <1>4, <1>5, <1>7

LEMMA MultiplyCancel ==
    ASSUME NEW d \in Nat \ {0}, NEW p \in Int, NEW q \in Int, d * p < d * q
    PROVE  p < q
<1> SUFFICES ASSUME q <= p PROVE FALSE
  OBVIOUS
<1>1. d * q <= d * p
  BY MultiplyMonotonic
<1>2. d * q \in Int /\ d * p \in Int
  OBVIOUS
<1> QED  BY <1>1, <1>2

\* Where page tables and managed pages lie, as numbers of pages: the tables in front
\* of page s, managed pages from s on.
LEMMA TablesBeforeManaged ==
    ASSUME MemoryAssumption, V!ConstantsFit,
           NEW k \in KernEnds, NEW l \in Lengths, EndsWithPage(k, l)
    PROVE  \E s \in Nat :
            /\ 1 <= s
            /\ \A d \in Dirs : k \div PMM_PAGE_SIZE + d \in 1 .. s - 1
            /\ \A i \in 0 .. phy_pages_count(k, l) - 1 :
                page_to_addr(k, l, i) \div PMM_PAGE_SIZE = s + i
            /\ phy_pages_count(k, l) \in Nat
            /\ s + phy_pages_count(k, l) <= ZONE_HIGHMEM_ADDR \div PMM_PAGE_SIZE
            /\ 1 <= ZONE_HIGHMEM_ADDR \div PMM_PAGE_SIZE
<1> DEFINE pg == PMM_PAGE_SIZE
           c == phy_pages_count(k, l)
           f == k \div pg
<1>1. /\ k \in Nat /\ l \in Nat /\ pg \in Nat \ {0} /\ RAM_KERNEL_START <= k
      /\ pg <= RAM_KERNEL_START /\ RAM_KERNEL_START \in Nat
  BY DEF MemoryAssumption, V!ConstantsFit
<1>2. MemLength(l) \in Nat /\ pmm_addr_end(l) \in Nat
  BY <1>1, ManagedFits
<1>3. /\ PagesMemLength(l) \in Nat
      /\ phy_pages(k) + PagesMemLength(l) < pmm_addr_start(k, l)
  BY <1>1, <1>2, StartBehindArray
<1>4. PICK s \in Int : pmm_addr_start(k, l) = s * pg
  BY <1>1, <1>2, StartBehindArray
<1>5. s * pg \in Int
  BY <1>1, <1>4
<1>6. /\ c \in Nat
      /\ s * pg + c * pg = pmm_addr_end(l)
  BY <1>1, <1>2, <1>4, <1>5, CountedToEnd
<1>7. PICK n \in 0 .. KVPAGE_SIZE : Dirs = 0 .. n - 1 /\ KVPAGE_SIZE = n * pg
  BY DEF V!ConstantsFit
<1>71. n \in Nat
  BY <1>7 DEF MemoryAssumption
<1>8. f \in Int /\ f * pg <= k /\ k < f * pg + pg
  BY <1>1, DivideBounds
<1>9. 1 <= f
  <2>1. 1 * pg <= k
    BY <1>1
  <2> QED  BY <1>1, <2>1, DivideLargest
<1>10. k + n * pg < s * pg
  <2>1. phy_pages(k) = k + n * pg /\ phy_pages(k) \in Int
    BY <1>1, <1>7, <1>71 DEF phy_pages, MemoryAssumption
  <2> HIDE DEF pg
  <2> QED  BY <1>3, <1>4, <1>5, <2>1
<1>11. f + n < s
  <2>1. pg * (f + n) = f * pg + n * pg /\ pg * s = s * pg
    BY <1>1, <1>4, <1>7, <1>71, <1>8
  <2>2. f * pg \in Int /\ n * pg \in Int
    BY <1>1, <1>7, <1>71, <1>8
  <2>3. pg * (f + n) < pg * s
    <3> HIDE DEF pg, f
    <3> QED BY <1>1, <1>5, <1>8, <1>10, <2>1, <2>2
  <2>4. f + n \in Int
    BY <1>7, <1>71, <1>8
  <2> HIDE DEF pg, f
  <2> QED  BY <1>1, <1>4, <2>3, <2>4, MultiplyCancel
<1>12. s \in Nat /\ 1 <= s
  <2> HIDE DEF pg, f
  <2> QED  BY <1>4, <1>7, <1>71, <1>8, <1>9, <1>11
<1>13. \A d \in Dirs : f + d \in 1 .. s - 1
  <2> HIDE DEF pg, f
  <2> QED  BY <1>4, <1>7, <1>71, <1>8, <1>9, <1>11
<1>14. \A i \in 0 .. c - 1 : page_to_addr(k, l, i) \div pg = s + i
  <2> TAKE i \in 0 .. c - 1
  <2>1. i \in Int
    BY <1>6
  <2>2. page_to_addr(k, l, i) = s * pg + i * pg
    BY <1>4 DEF page_to_addr
  <2> HIDE DEF pg, c
  <2>3. s * pg + i * pg = (s + i) * pg
    BY <1>1, <1>4, <2>1
  <2> QED  BY <1>1, <1>4, <2>1, <2>2, <2>3, DivideMultiple
<1>15. pmm_addr_end(l) <= ZONE_HIGHMEM_ADDR /\ ZONE_HIGHMEM_ADDR \in Nat
       /\ RAM_KERNEL_START <= ZONE_HIGHMEM_ADDR
  BY <1>1 DEF pmm_addr_end, Smaller, MemoryAssumption
<1>16. s + c <= ZONE_HIGHMEM_ADDR \div pg
  <2> HIDE DEF pg, c
  <2>1. (s + c) * pg = s * pg + c * pg
    BY <1>1, <1>4, <1>6
  <2>2. (s + c) * pg <= ZONE_HIGHMEM_ADDR
    BY <1>6, <1>15, <2>1
  <2> QED  BY <1>1, <1>4, <1>6, <1>15, <2>2, DivideLargest
<1>17. 1 <= ZONE_HIGHMEM_ADDR \div pg
  <2>1. 1 * pg <= ZONE_HIGHMEM_ADDR
    BY <1>1, <1>15
  <2> QED  BY <1>1, <1>15, <2>1, DivideLargest
<1> QED  BY <1>6, <1>12, <1>13, <1>14, <1>16, <1>17

\* What pmm_init found, for which its assertion does not fail.
RamDivided ==
    /\ ram.kern_end \in KernEnds /\ ram.length \in Lengths
    /\ EndsWithPage(ram.kern_end, ram.length)

\* The page tables of the kernel's directory entries, the managed pages and page 0,
\* which a failed map writes to, are pages of their own.
LEMMA PageTablesApart ==
    ASSUME MemoryAssumption, V!ConstantsFit, RamDivided
    PROVE  /\ 0 \in V!Pages
           /\ V!Managed \subseteq V!Pages \ {0}
           /\ \A d \in Dirs : V!KernTable(d) \in V!Pages \ {0} /\ V!KernTable(d) \notin V!Managed
           /\ \A d, e \in Dirs : V!KernTable(d) = V!KernTable(e) => d = e
<1> DEFINE k == ram.kern_end
           l == ram.length
           f == k \div PMM_PAGE_SIZE
           z == ZONE_HIGHMEM_ADDR \div PMM_PAGE_SIZE
           c == phy_pages_count(k, l)
<1>1. PICK s \in Nat :
        /\ 1 <= s
        /\ \A d \in Dirs : f + d \in 1 .. s - 1
        /\ \A i \in 0 .. c - 1 : page_to_addr(k, l, i) \div PMM_PAGE_SIZE = s + i
        /\ c \in Nat
        /\ s + c <= z
        /\ 1 <= z
  BY TablesBeforeManaged DEF RamDivided
<1>2. z \in Int /\ f \in Int
  <2>1. k \in Int /\ ZONE_HIGHMEM_ADDR \in Int /\ PMM_PAGE_SIZE \in Nat \ {0}
    <3>1. KernEnds \subseteq Nat
      BY DEF V!ConstantsFit
    <3>2. k \in Nat
      BY <3>1 DEF RamDivided
    <3> HIDE DEF k
    <3> QED  BY <3>2 DEF MemoryAssumption
  <2> HIDE DEF k
  <2> QED  BY <2>1, DivideBounds
<1>3. V!Managed = {s + i : i \in 0 .. c - 1}
  <2>1. V!Managed = {page_to_addr(k, l, i) \div PMM_PAGE_SIZE : i \in 0 .. c - 1}
    BY SameMemory DEF V!Managed
  <2> HIDE DEF c, k, l
  <2> QED  BY <1>1, <2>1
<1>4. V!Pages = 0 .. z - 1
  BY DEF V!Pages
<1>5. \A d : V!KernTable(d) = f + d
  BY DEF V!KernTable
<1>6. Dirs \subseteq Int
  BY DEF V!ConstantsFit
<1> HIDE DEF f, z, c
<1>7. 0 \in V!Pages
  BY <1>1, <1>2, <1>4
<1>8. V!Managed \subseteq V!Pages \ {0}
  <2> SUFFICES ASSUME NEW i \in 0 .. c - 1 PROVE s + i \in V!Pages \ {0}
    BY <1>3
  <2> QED  BY <1>1, <1>2, <1>4
<1>9. ASSUME NEW d \in Dirs PROVE V!KernTable(d) \in V!Pages \ {0} /\ V!KernTable(d) \notin V!Managed
  BY <1>1, <1>2, <1>3, <1>4, <1>5, <1>6
<1>10. ASSUME NEW d \in Dirs, NEW e \in Dirs, V!KernTable(d) = V!KernTable(e) PROVE d = e
  BY <1>2, <1>5, <1>6, <1>10
<1> QED  BY <1>7, <1>8, <1>9, <1>10

\* What callers may ask for, and what map stores and the tables then answer.
Asked(e) == e = V!None \/ \E page \in PAs, flags \in Flags : e = V!Entry(page, flags)
PresentWrite == {"present", "write"}
Wanted(va) ==
    IF asked[va] = V!None THEN {}
    ELSE {V!Entry(asked[va].page, asked[va].flags \ {"user"})}

\* The directory, the pages and the history are functions on what they are about.
PagingShape ==
    /\ DOMAIN pgd_kern = Dirs
    /\ DOMAIN mem = V!Pages
    /\ \A p \in V!Pages : DOMAIN mem[p] = 0 .. PTE_SIZE - 1
    /\ DOMAIN asked = VAs
    /\ \A va \in VAs : Asked(asked[va])

\* alloc_pages can return, and other callers hold, managed pages, and never the same.
PagesHandedOut ==
    /\ free \subseteq V!Managed /\ taken \subseteq V!Managed
    /\ free \cap taken = {}

\* The kernel's part of the directory and its tables are as vmm_init left them.
KernelMapped ==
    \A d \in KernDirs :
        /\ pgd_kern[d] = V!Entry(V!KernTable(d), PresentWrite)
        /\ \A i \in 0 .. PTE_SIZE - 1 : mem[V!KernTable(d)][i] = V!KernEntry(d, i)

\* Every other directory entry has no table, page 0 when memory ran out, or a table in
\* a managed page that nobody else holds and no other entry uses.
NoTable(d) == pgd_kern[d] = V!None /\ d \notin failed
FailedTable(d) == pgd_kern[d] = V!Entry(0, PresentWrite) /\ d \in failed
OwnTable(d) ==
    /\ V!Table(d) \in V!Managed \ (free \cup taken)
    /\ pgd_kern[d] = V!Entry(V!Table(d), PresentWrite)
UserTables ==
    /\ \A d \in Dirs \ KernDirs : NoTable(d) \/ FailedTable(d) \/ OwnTable(d)
    /\ \A d, e \in Dirs \ KernDirs : OwnTable(d) /\ OwnTable(e) /\ V!Table(d) = V!Table(e) => d = e

\* The address va has what was last asked for it in its table, and in the cache.
StoredAsAsked(va) ==
    /\ V!Table(va[1]) = 0 => asked[va] = V!None
    /\ V!Table(va[1]) # 0 => mem[V!Table(va[1])][va[2]] = asked[va]
    /\ \A c \in tlb : c.va = va => c.entry \in Wanted(va)
AskedStored == \A va \in VAs \ unknown : va[1] \notin failed => StoredAsAsked(va)

\* Entries are unknown in tables only.
UnknownInTables == \A va \in unknown : va \in VAs /\ V!Table(va[1]) # 0

PagingInv ==
    /\ RamDivided /\ PagingShape /\ PagesHandedOut
    /\ KernelMapped /\ UserTables /\ AskedStored /\ UnknownInTables
\* What a store of e in entry i of the table in page t changes.
LEMMA EntryStored ==
    ASSUME PagingShape, NEW t \in V!Pages, NEW i \in 0 .. PTE_SIZE - 1, NEW e,
           mem' = [mem EXCEPT ![t][i] = e]
    PROVE  /\ DOMAIN mem' = V!Pages
           /\ \A p \in V!Pages : DOMAIN mem'[p] = 0 .. PTE_SIZE - 1
           /\ mem'[t][i] = e
           /\ \A p \in V!Pages, j \in 0 .. PTE_SIZE - 1 :
                p # t \/ j # i => mem'[p][j] = mem[p][j]
BY DEF PagingShape

\* An address keeps what was asked for it when its table, the entry and the request
\* stay, and nothing is cached for it.
LEMMA StoredStays ==
    ASSUME NEW va, StoredAsAsked(va),
           V!Table(va[1])' = V!Table(va[1]),
           V!Table(va[1]) # 0 =>
                mem'[V!Table(va[1])][va[2]] = mem[V!Table(va[1])][va[2]],
           asked'[va] = asked[va],
           \A c \in tlb' : c.va = va => c \in tlb
    PROVE  StoredAsAsked(va)'
BY DEF StoredAsAsked, Wanted

\* The two indices of an address that callers map.
LEMMA IndicesOfAddress ==
    ASSUME V!ConstantsFit, NEW va \in VAs
    PROVE  /\ va = <<va[1], va[2]>>
           /\ va[1] \in Dirs \ KernDirs /\ va[1] \in Dirs
           /\ va[2] \in 0 .. PTE_SIZE - 1
BY DEF V!ConstantsFit

\* The directory entry with a table has one of its own.
LEMMA TableIsOwn ==
    ASSUME PagingInv, V!ConstantsFit, NEW d \in Dirs \ KernDirs, V!Table(d) # 0
    PROVE  OwnTable(d)
BY DEF PagingInv, UserTables, NoTable, FailedTable, V!Table, V!None, V!Entry

\* The machine after vmm_init.
LEMMA PagingInitially ==
    ASSUME MemoryAssumption, V!ConstantsFit, V!Init
    PROVE  PagingInv
<1>1. RamDivided
  BY SameMemory DEF V!Init, RamDivided
<1>2. /\ 0 \in V!Pages /\ V!Managed \subseteq V!Pages \ {0}
      /\ \A d \in Dirs : V!KernTable(d) \in V!Pages \ {0} /\ V!KernTable(d) \notin V!Managed
      /\ \A d, e \in Dirs : V!KernTable(d) = V!KernTable(e) => d = e
  BY <1>1, PageTablesApart
<1>3. KernDirs \subseteq Dirs
  BY DEF V!ConstantsFit
<1>4. PICK left \in V!Contents :
        mem = [p \in V!Pages |->
                IF \E d \in KernDirs : V!KernTable(d) = p
                THEN LET d == CHOOSE d \in KernDirs : V!KernTable(d) = p
                     IN  [i \in 0 .. PTE_SIZE - 1 |-> V!KernEntry(d, i)]
                ELSE IF p \in V!Managed THEN left ELSE V!Clean]
  BY DEF V!Init
<1>5. PagingShape
  <2>1. DOMAIN pgd_kern = Dirs /\ DOMAIN asked = VAs /\ DOMAIN mem = V!Pages
    BY <1>4 DEF V!Init
  <2>2. \A va \in VAs : Asked(asked[va])
    BY DEF V!Init, Asked
  <2>3. DOMAIN left = 0 .. PTE_SIZE - 1 /\ DOMAIN V!Clean = 0 .. PTE_SIZE - 1
    BY DEF V!Contents, V!Clean, V!Stale
  <2>4. ASSUME NEW p \in V!Pages PROVE DOMAIN mem[p] = 0 .. PTE_SIZE - 1
    BY <1>4, <2>3
  <2> QED  BY <2>1, <2>2, <2>4 DEF PagingShape
<1>6. PagesHandedOut
  BY DEF V!Init, PagesHandedOut
<1>7. KernelMapped
  <2> SUFFICES ASSUME NEW d \in KernDirs
               PROVE  /\ pgd_kern[d] = V!Entry(V!KernTable(d), PresentWrite)
                      /\ \A i \in 0 .. PTE_SIZE - 1 :
                            mem[V!KernTable(d)][i] = V!KernEntry(d, i)
    BY DEF KernelMapped
  <2>1. pgd_kern[d] = V!Entry(V!KernTable(d), PresentWrite)
    BY <1>3 DEF V!Init, PresentWrite
  <2>2. (CHOOSE e \in KernDirs : V!KernTable(e) = V!KernTable(d)) = d
    BY <1>2, <1>3
  <2>3. V!KernTable(d) \in V!Pages
    BY <1>2, <1>3
  <2>4. mem[V!KernTable(d)] = [i \in 0 .. PTE_SIZE - 1 |-> V!KernEntry(d, i)]
    BY <1>4, <2>2, <2>3
  <2> QED  BY <2>1, <2>4
<1>8. UserTables
  <2>1. \A d \in Dirs \ KernDirs : NoTable(d)
    BY DEF V!Init, NoTable
  <2>2. \A d \in Dirs \ KernDirs : ~ OwnTable(d)
    BY <1>2, <2>1 DEF NoTable, OwnTable, V!Table, V!None, V!Entry
  <2> QED  BY <2>1, <2>2 DEF UserTables
<1>9. AskedStored
  <2>1. \A va \in VAs : V!Table(va[1]) = 0
    BY IndicesOfAddress DEF V!Init, V!Table, V!None, V!Entry
  <2> QED  BY <2>1 DEF V!Init, AskedStored, StoredAsAsked
<1>10. UnknownInTables
  BY DEF V!Init, UnknownInTables
<1> QED  BY <1>1, <1>5, <1>6, <1>7, <1>8, <1>9, <1>10 DEF PagingInv

\* The properties follow from the invariant: what is stored is what the processor and
\* get_mapping find.
LEMMA PagingInvTranslates ==
    ASSUME MemoryAssumption, V!ConstantsFit, PagingInv
    PROVE  V!TranslatesAsAsked
<1>1. ASSUME NEW va \in VAs \ unknown, va[1] \notin failed
      PROVE  /\ V!get_mapping(va) = {e.page : e \in Wanted(va)}
             /\ V!Walk(va) = Wanted(va)
             /\ \A c \in tlb : c.va = va => c.entry \in Wanted(va)
  <2>1. StoredAsAsked(va)
    BY <1>1 DEF PagingInv, AskedStored
  <2>2. va[1] \in Dirs \ KernDirs
    BY IndicesOfAddress
  <2>3. CASE V!Table(va[1]) = 0
    <3>1. Wanted(va) = {}
      BY <2>1, <2>3 DEF StoredAsAsked, Wanted
    <3>2. NoTable(va[1])
      <4>1. ~ OwnTable(va[1])
        BY <2>3, PageTablesApart DEF PagingInv, OwnTable
      <4> QED  BY <1>1, <2>2, <4>1 DEF PagingInv, UserTables, FailedTable
    <3>3. V!Walk(va) = {}
      BY <3>2 DEF V!Walk, NoTable, V!None, V!Entry
    <3>4. V!get_mapping(va) = {}
      BY <2>3 DEF V!get_mapping
    <3> QED  BY <2>1, <3>1, <3>3, <3>4 DEF StoredAsAsked
  <2>4. CASE V!Table(va[1]) # 0
    <3>1. pgd_kern[va[1]] = V!Entry(V!Table(va[1]), PresentWrite)
      BY <2>2, <2>4, TableIsOwn DEF OwnTable
    <3>2. mem[V!Table(va[1])][va[2]] = asked[va]
      BY <2>1, <2>4 DEF StoredAsAsked
    <3>3. CASE asked[va] = V!None
      <4>1. Wanted(va) = {}
        BY <3>3 DEF Wanted
      <4>2. V!Walk(va) = {}
        BY <3>1, <3>2, <3>3 DEF V!Walk, V!None, V!Entry
      <4>3. V!get_mapping(va) = {}
        BY <3>2, <3>3 DEF V!get_mapping
      <4> QED  BY <2>1, <4>1, <4>2, <4>3 DEF StoredAsAsked
    <3>4. CASE asked[va] # V!None
      <4>1. PICK page \in PAs, flags \in Flags : asked[va] = V!Entry(page, flags)
        BY <3>4 DEF PagingInv, PagingShape, Asked
      <4>2. "present" \in flags /\ flags \subseteq {"present", "write", "user"}
        BY <4>1 DEF V!ConstantsFit
      <4>3. Wanted(va) = {V!Entry(page, flags \ {"user"})}
        BY <3>4, <4>1 DEF Wanted, V!Entry
      <4>4. PresentWrite \cap flags = flags \ {"user"}
        BY <4>2 DEF PresentWrite
      <4>5. /\ pgd_kern[va[1]].flags = PresentWrite
            /\ pgd_kern[va[1]].page = V!Table(va[1])
        BY <3>1 DEF V!Entry
      <4>6. asked[va].flags = flags /\ asked[va].page = page
        BY <4>1 DEF V!Entry
      <4>7. "present" \in PresentWrite \cap flags
        BY <4>2 DEF PresentWrite
      <4>8. V!Walk(va) = Wanted(va)
        BY <3>2, <4>3, <4>4, <4>5, <4>6, <4>7 DEF V!Walk
      <4>9. V!get_mapping(va) = {page}
        BY <2>4, <3>2, <3>4, <4>6 DEF V!get_mapping
      <4>10. {e.page : e \in Wanted(va)} = {page}
        BY <4>3 DEF V!Entry
      <4> QED  BY <2>1, <4>8, <4>9, <4>10 DEF StoredAsAsked
    <3> QED  BY <3>3, <3>4
  <2> QED  BY <2>3, <2>4
<1> QED  BY <1>1 DEF V!TranslatesAsAsked, Wanted

LEMMA PagingInvKernelIntact ==
    ASSUME MemoryAssumption, V!ConstantsFit, PagingInv
    PROVE  V!KernelIntact
<1>1. V!Divided(ram.kern_end, ram.length)
  <2>1. ram.kern_end \in Nat /\ ram.kern_end >= RAM_KERNEL_START /\ ram.length \in Nat
    BY DEF PagingInv, RamDivided, V!ConstantsFit
  <2>2. EndsWithPage(ram.kern_end, ram.length)
    BY DEF PagingInv, RamDivided
  <2> QED  BY <2>1, <2>2, MemoryIsDivided, SameMemory
<1>2. ASSUME NEW d \in KernDirs, NEW i \in 0 .. PTE_SIZE - 1
      PROVE  V!Walk(<<d, i>>) = {V!KernEntry(d, i)}
  <2>1. /\ pgd_kern[d] = V!Entry(V!KernTable(d), PresentWrite)
        /\ mem[V!KernTable(d)][i] = V!KernEntry(d, i)
    BY DEF PagingInv, KernelMapped
  <2>2. pgd_kern[d].page = V!KernTable(d) /\ pgd_kern[d].flags = PresentWrite
    BY <2>1 DEF V!Entry
  <2>3. V!KernEntry(d, i).flags = PresentWrite
        /\ V!KernEntry(d, i) = V!Entry(V!KernEntry(d, i).page, PresentWrite)
    BY DEF V!KernEntry, V!Entry, PresentWrite
  <2>4. "present" \in PresentWrite \cap PresentWrite /\ PresentWrite \cap PresentWrite = PresentWrite
    BY DEF PresentWrite
  <2> QED  BY <2>1, <2>2, <2>3, <2>4 DEF V!Walk
<1> QED  BY <1>1, <1>2 DEF V!KernelIntact

\* What pmm_init found is never changed.
LEMMA RamStays ==
    ASSUME RamDivided, ram' = ram
    PROVE  /\ RamDivided'
           /\ V!Managed' = V!Managed
           /\ \A d : V!KernTable(d)' = V!KernTable(d)
<1>1. RamDivided'
  BY DEF RamDivided
<1>2. V!Managed' = V!Managed
  BY DEF V!Managed
<1>3. \A d : V!KernTable(d)' = V!KernTable(d)
  BY DEF V!KernTable
<1> QED  BY <1>1, <1>2, <1>3

\* A store of e for va in its table t, which is not one of the kernel's and no other
\* entry's, by map or unmap: what is asked for va is e, nothing is cached for it.
StoresFor(t, va, e) ==
    /\ mem' = [mem EXCEPT ![t][va[2]] = e]
    /\ tlb' = V!TlbReload(va)
    /\ asked' = [asked EXCEPT ![va] = e]

LEMMA StoreKeepsShape ==
    ASSUME V!ConstantsFit, PagingShape, NEW t \in V!Pages, NEW va \in VAs, NEW e, Asked(e),
           StoresFor(t, va, e), DOMAIN pgd_kern' = Dirs
    PROVE  PagingShape'
<1>1. va[2] \in 0 .. PTE_SIZE - 1
  BY IndicesOfAddress
<1>2. DOMAIN mem' = V!Pages /\ \A p \in V!Pages : DOMAIN mem'[p] = 0 .. PTE_SIZE - 1
  BY <1>1, EntryStored DEF StoresFor
<1>3. DOMAIN asked' = VAs /\ \A u \in VAs : Asked(asked'[u])
  BY DEF StoresFor, PagingShape
<1> QED  BY <1>2, <1>3 DEF PagingShape, Asked

LEMMA StoreKeepsKernel ==
    ASSUME MemoryAssumption, V!ConstantsFit, RamDivided, PagingShape, KernelMapped, ram' = ram,
           NEW t \in V!Pages, \A d \in Dirs : V!KernTable(d) # t,
           NEW va \in VAs, NEW e, StoresFor(t, va, e),
           \A d \in KernDirs : pgd_kern'[d] = pgd_kern[d]
    PROVE  KernelMapped'
<1> SUFFICES ASSUME NEW d \in KernDirs
             PROVE  /\ pgd_kern'[d] = V!Entry(V!KernTable(d), PresentWrite)
                    /\ \A i \in 0 .. PTE_SIZE - 1 :
                        mem'[V!KernTable(d)][i] = V!KernEntry(d, i)
  BY RamStays DEF KernelMapped
<1>1. d \in Dirs
  BY DEF V!ConstantsFit
<1>2. V!KernTable(d) \in V!Pages /\ V!KernTable(d) # t
  BY <1>1, PageTablesApart
<1>3. va[2] \in 0 .. PTE_SIZE - 1
  BY IndicesOfAddress
<1>4. \A i \in 0 .. PTE_SIZE - 1 : mem'[V!KernTable(d)][i] = mem[V!KernTable(d)][i]
  <2>1. mem' = [mem EXCEPT ![t][va[2]] = e]
    BY DEF StoresFor
  <2> QED  BY <1>2, <1>3, <2>1, EntryStored
<1> QED  BY <1>4 DEF KernelMapped

\* The store is what map or unmap was asked for, and other addresses keep theirs.
LEMMA StoreIsAsked ==
    ASSUME V!ConstantsFit, PagingShape, NEW t \in V!Pages, t # 0, NEW va \in VAs, NEW e,
           Asked(e), StoresFor(t, va, e), V!Table(va[1])' = t
    PROVE  StoredAsAsked(va)'
<1>1. va[2] \in 0 .. PTE_SIZE - 1
  BY IndicesOfAddress
<1>2. mem'[t][va[2]] = e
  <2> DEFINE i == va[2]
  <2>1. mem' = [mem EXCEPT ![t][i] = e] /\ i \in 0 .. PTE_SIZE - 1
    BY <1>1 DEF StoresFor
  <2> HIDE DEF i
  <2>2. mem'[t][i] = e
    BY <2>1, EntryStored
  <2> QED  BY <2>2 DEF i
<1>3. asked'[va] = e
  <2>1. asked' = [asked EXCEPT ![va] = e] /\ va \in DOMAIN asked
    BY DEF StoresFor, PagingShape
  <2> QED  BY <2>1
<1>4. \A c \in tlb' : c.va # va
  BY DEF StoresFor, V!TlbReload
<1> QED  BY <1>2, <1>3, <1>4 DEF StoredAsAsked

LEMMA StoreKeepsOthers ==
    ASSUME V!ConstantsFit, PagingShape, NEW t \in V!Pages, NEW va \in VAs, NEW e,
           StoresFor(t, va, e), NEW u \in VAs, u # va, StoredAsAsked(u),
           V!Table(u[1]) # 0 => V!Table(u[1]) \in V!Pages,
           V!Table(u[1]) # 0 /\ V!Table(u[1]) = t => u[1] = va[1],
           V!Table(u[1])' = V!Table(u[1])
    PROVE  StoredAsAsked(u)'
<1>1. /\ va[2] \in 0 .. PTE_SIZE - 1 /\ u[2] \in 0 .. PTE_SIZE - 1
      /\ va = <<va[1], va[2]>> /\ u = <<u[1], u[2]>>
  BY IndicesOfAddress
<1>2. V!Table(u[1]) # 0 => mem'[V!Table(u[1])][u[2]] = mem[V!Table(u[1])][u[2]]
  <2>1. CASE V!Table(u[1]) # 0 /\ V!Table(u[1]) # t
    BY <1>1, <2>1, EntryStored DEF StoresFor
  <2>2. CASE V!Table(u[1]) # 0 /\ V!Table(u[1]) = t
    <3>1. u[2] # va[2]
      BY <1>1, <2>2
    <3> QED  BY <1>1, <2>2, <3>1, EntryStored DEF StoresFor
  <2> QED  BY <2>1, <2>2
<1>3. asked'[u] = asked[u]
  BY DEF StoresFor, PagingShape
<1>4. \A c \in tlb' : c \in tlb
  BY DEF StoresFor, V!TlbReload
<1> QED  BY <1>2, <1>3, <1>4, StoredStays

\* Requests that map may be given are requests that are remembered.
LEMMA MapIsAsked ==
    ASSUME NEW page \in PAs, NEW flags \in Flags
    PROVE  Asked(V!Entry(page, flags))
BY DEF Asked

LEMMA MapPresentKeeps ==
    ASSUME MemoryAssumption, V!ConstantsFit, PagingInv,
           NEW va \in VAs, NEW page \in PAs, NEW flags \in Flags, V!MapPresent(va, page, flags)
    PROVE  PagingInv'
<1> DEFINE t == V!Table(va[1])
           e == V!Entry(page, flags)
<1>1. /\ StoresFor(t, va, e) /\ t # 0 /\ unknown' = unknown \ {va}
      /\ UNCHANGED <<ram, pgd_kern, free, taken, failed>>
  BY DEF V!MapPresent, V!Enter, StoresFor
<1>2. va[1] \in Dirs \ KernDirs
  BY IndicesOfAddress
<1>3. OwnTable(va[1])
  BY <1>1, <1>2, TableIsOwn
<1>4. /\ t \in V!Managed /\ t \in V!Pages
      /\ \A d \in Dirs : V!KernTable(d) # t
  BY <1>3, PageTablesApart DEF PagingInv, OwnTable
<1>5. Asked(e)
  BY MapIsAsked
<1>6. \A d : V!Table(d)' = V!Table(d)
  BY <1>1 DEF V!Table
<1>7. RamDivided' /\ V!Managed' = V!Managed
  BY <1>1, RamStays DEF PagingInv
<1>8. PagingShape'
  BY <1>1, <1>4, <1>5, StoreKeepsShape DEF PagingInv, PagingShape
<1>9. PagesHandedOut'
  BY <1>1, <1>7 DEF PagingInv, PagesHandedOut
<1>10. KernelMapped'
  BY <1>1, <1>4, StoreKeepsKernel DEF PagingInv
<1>11. UserTables'
  BY <1>1, <1>6, <1>7 DEF PagingInv, UserTables, NoTable, FailedTable, OwnTable
<1>12. ASSUME NEW u \in VAs \ unknown', u[1] \notin failed' PROVE StoredAsAsked(u)'
  <2>1. CASE u = va
    BY <1>1, <1>4, <1>5, <1>6, <2>1, StoreIsAsked DEF PagingInv
  <2>2. CASE u # va
    <3>1. StoredAsAsked(u)
      BY <1>1, <1>12, <2>2 DEF PagingInv, AskedStored
    <3>2. u[1] \in Dirs \ KernDirs
      BY IndicesOfAddress
    <3>3. V!Table(u[1]) # 0 => OwnTable(u[1])
      BY <3>2, TableIsOwn
    <3>4. V!Table(u[1]) # 0 => V!Table(u[1]) \in V!Pages
      BY <3>3, PageTablesApart DEF PagingInv, OwnTable
    <3>5. V!Table(u[1]) # 0 /\ V!Table(u[1]) = t => u[1] = va[1]
      BY <1>2, <1>3, <3>2, <3>3 DEF PagingInv, UserTables
    <3> QED  BY <1>1, <1>4, <1>6, <2>2, <3>1, <3>4, <3>5, StoreKeepsOthers DEF PagingInv
  <2> QED  BY <2>1, <2>2
<1>13. UnknownInTables'
  BY <1>1, <1>6 DEF PagingInv, UnknownInTables
<1> QED  BY <1>7, <1>8, <1>9, <1>10, <1>11, <1>12, <1>13 DEF PagingInv, AskedStored

\* A fresh table is no other entry's: what its entries were found with is unknown, but
\* for the one that map stores.
LEMMA MapFreshKeeps ==
    ASSUME MemoryAssumption, V!ConstantsFit, PagingInv,
           NEW va \in VAs, NEW page \in PAs, NEW flags \in Flags, V!MapFresh(va, page, flags)
    PROVE  PagingInv'
<1> DEFINE e == V!Entry(page, flags)
           d0 == va[1]
<1>1. PICK t \in free :
        /\ free' = free \ {t}
        /\ pgd_kern' = [pgd_kern EXCEPT ![d0] = V!Entry(t, PresentWrite)]
        /\ StoresFor(t, va, e)
  BY DEF V!MapFresh, V!Enter, StoresFor, PresentWrite
<1>2. /\ V!Table(d0) = 0
      /\ unknown' = (unknown \cup {u \in VAs : u[1] = d0}) \ {va}
      /\ UNCHANGED <<ram, taken, failed>>
  BY DEF V!MapFresh
<1>3. d0 \in Dirs \ KernDirs
  BY IndicesOfAddress
<1>4. /\ t \in V!Managed /\ t \in V!Pages /\ t # 0 /\ t \notin taken
      /\ \A d \in Dirs : V!KernTable(d) # t
  BY PageTablesApart DEF PagingInv, PagesHandedOut
<1>5. Asked(e)
  BY MapIsAsked
<1>6. /\ DOMAIN pgd_kern' = Dirs
      /\ pgd_kern'[d0] = V!Entry(t, PresentWrite)
      /\ \A d \in Dirs : d # d0 => pgd_kern'[d] = pgd_kern[d]
  BY <1>1, <1>3 DEF PagingInv, PagingShape
<1>7. /\ V!Table(d0)' = t
      /\ \A d \in Dirs : d # d0 => V!Table(d)' = V!Table(d)
  BY <1>6 DEF V!Table, V!Entry
<1>8. RamDivided' /\ V!Managed' = V!Managed
  BY <1>2, RamStays DEF PagingInv
<1>9. PagingShape'
  BY <1>1, <1>4, <1>5, <1>6, StoreKeepsShape DEF PagingInv
<1>10. PagesHandedOut'
  BY <1>1, <1>2, <1>8 DEF PagingInv, PagesHandedOut
<1>11. KernelMapped'
  <2>1. KernDirs \subseteq Dirs
    BY DEF V!ConstantsFit
  <2>2. \A d \in KernDirs : pgd_kern'[d] = pgd_kern[d]
    BY <1>3, <1>6, <2>1
  <2> QED  BY <1>1, <1>2, <1>4, <2>2, StoreKeepsKernel DEF PagingInv
<1>12. OwnTable(d0)'
  BY <1>1, <1>2, <1>4, <1>6, <1>7, <1>8 DEF OwnTable
<1>13. ASSUME NEW d \in Dirs \ KernDirs, d # d0
       PROVE  /\ NoTable(d)' \/ FailedTable(d)' \/ OwnTable(d)'
              /\ OwnTable(d)' => OwnTable(d) /\ V!Table(d) # t
  <2>1. pgd_kern'[d] = pgd_kern[d] /\ V!Table(d)' = V!Table(d)
    BY <1>6, <1>7, <1>13
  <2>2. NoTable(d) \/ FailedTable(d) \/ OwnTable(d)
    BY DEF PagingInv, UserTables
  <2>3. OwnTable(d) => OwnTable(d)'
    BY <1>1, <1>2, <1>8, <2>1 DEF OwnTable
  <2>4. NoTable(d) => NoTable(d)'
    BY <1>2, <2>1 DEF NoTable
  <2>5. FailedTable(d) => FailedTable(d)'
    BY <1>2, <2>1 DEF FailedTable
  <2>6. NoTable(d) \/ FailedTable(d) => V!Table(d) = 0
    BY DEF NoTable, FailedTable, V!Table, V!None, V!Entry
  <2>7. OwnTable(d)' => OwnTable(d)
    <3>1. 0 \notin V!Managed
      BY PageTablesApart DEF PagingInv
    <3>2. OwnTable(d)' => V!Table(d) # 0
      BY <1>8, <2>1, <3>1 DEF OwnTable
    <3> QED  BY <2>2, <2>6, <3>2
  <2>8. OwnTable(d) => V!Table(d) # t
    BY DEF OwnTable
  <2> QED  BY <2>2, <2>3, <2>4, <2>5, <2>7, <2>8
<1>14. UserTables'
  <2>1. \A d \in Dirs \ KernDirs : NoTable(d)' \/ FailedTable(d)' \/ OwnTable(d)'
    BY <1>12, <1>13
  <2>2. ASSUME NEW d \in Dirs \ KernDirs, NEW c \in Dirs \ KernDirs,
               OwnTable(d)', OwnTable(c)', V!Table(d)' = V!Table(c)'
        PROVE  d = c
    <3>1. CASE d = d0 \/ c = d0
      BY <1>7, <1>13, <2>2, <3>1
    <3>2. CASE d # d0 /\ c # d0
      BY <1>7, <1>13, <2>2, <3>2 DEF PagingInv, UserTables
    <3> QED  BY <3>1, <3>2
  <2> QED  BY <2>1, <2>2 DEF UserTables
<1>15. ASSUME NEW u \in VAs \ unknown', u[1] \notin failed' PROVE StoredAsAsked(u)'
  <2>1. CASE u = va
    BY <1>1, <1>4, <1>5, <1>7, <2>1, StoreIsAsked DEF PagingInv
  <2>2. CASE u # va
    <3>1. u[1] # d0 /\ u \notin unknown
      BY <1>2, <1>15, <2>2
    <3>2. StoredAsAsked(u)
      BY <1>2, <1>15, <3>1 DEF PagingInv, AskedStored
    <3>3. u[1] \in Dirs \ KernDirs
      BY IndicesOfAddress
    <3>4. V!Table(u[1]) # 0 => OwnTable(u[1])
      BY <3>3, TableIsOwn
    <3>5. V!Table(u[1]) # 0 => V!Table(u[1]) \in V!Pages
      BY <3>4, PageTablesApart DEF PagingInv, OwnTable
    <3>6. V!Table(u[1]) # 0 => V!Table(u[1]) # t
      BY <3>4 DEF OwnTable
    <3>7. V!Table(u[1])' = V!Table(u[1])
      BY <1>7, <3>1, <3>3
    <3> QED  BY <1>1, <1>4, <2>2, <3>2, <3>5, <3>6, <3>7, StoreKeepsOthers DEF PagingInv
  <2> QED  BY <2>1, <2>2
<1>16. UnknownInTables'
  <2> SUFFICES ASSUME NEW u \in unknown' PROVE u \in VAs /\ V!Table(u[1])' # 0
    BY DEF UnknownInTables
  <2>1. u \in VAs /\ (u[1] # d0 => V!Table(u[1]) # 0)
    BY <1>2 DEF PagingInv, UnknownInTables
  <2>2. u[1] \in Dirs
    BY <2>1, IndicesOfAddress
  <2> QED  BY <1>4, <1>7, <2>1, <2>2
<1> QED  BY <1>8, <1>9, <1>10, <1>11, <1>14, <1>15, <1>16 DEF PagingInv, AskedStored

\* When memory runs out, page 0 is written to, which is nobody's table but of entries
\* that failed the same way.
LEMMA MapFailsKeeps ==
    ASSUME MemoryAssumption, V!ConstantsFit, PagingInv,
           NEW va \in VAs, NEW page \in PAs, NEW flags \in Flags, V!MapFails(va, page, flags)
    PROVE  PagingInv'
<1> DEFINE e == V!Entry(page, flags)
           d0 == va[1]
<1>1. /\ pgd_kern' = [pgd_kern EXCEPT ![d0] = V!Entry(0, PresentWrite)]
      /\ StoresFor(0, va, e)
      /\ V!Table(d0) = 0 /\ failed' = failed \cup {d0}
      /\ UNCHANGED <<ram, free, taken, unknown>>
  BY DEF V!MapFails, V!Enter, StoresFor, PresentWrite
<1>2. d0 \in Dirs \ KernDirs
  BY IndicesOfAddress
<1>3. 0 \in V!Pages /\ 0 \notin V!Managed /\ \A d \in Dirs : V!KernTable(d) # 0
  BY PageTablesApart DEF PagingInv
<1>4. Asked(e)
  BY MapIsAsked
<1>5. /\ DOMAIN pgd_kern' = Dirs
      /\ pgd_kern'[d0] = V!Entry(0, PresentWrite)
      /\ \A d \in Dirs : d # d0 => pgd_kern'[d] = pgd_kern[d]
  BY <1>1, <1>2 DEF PagingInv, PagingShape
<1>6. \A d \in Dirs : V!Table(d)' = V!Table(d)
  BY <1>1, <1>5 DEF V!Table, V!Entry
<1>7. RamDivided' /\ V!Managed' = V!Managed
  BY <1>1, RamStays DEF PagingInv
<1>8. PagingShape'
  BY <1>1, <1>3, <1>4, <1>5, StoreKeepsShape DEF PagingInv
<1>9. PagesHandedOut'
  BY <1>1, <1>7 DEF PagingInv, PagesHandedOut
<1>10. KernelMapped'
  <2>1. KernDirs \subseteq Dirs
    BY DEF V!ConstantsFit
  <2>2. \A d \in KernDirs : pgd_kern'[d] = pgd_kern[d]
    BY <1>2, <1>5, <2>1
  <2> QED  BY <1>1, <1>3, <2>2, StoreKeepsKernel DEF PagingInv
<1>11. FailedTable(d0)'
  BY <1>1, <1>5 DEF FailedTable
<1>12. ASSUME NEW d \in Dirs \ KernDirs, d # d0
       PROVE  NoTable(d)' \/ FailedTable(d)' \/ OwnTable(d)'
  <2>1. pgd_kern'[d] = pgd_kern[d] /\ V!Table(d)' = V!Table(d)
    BY <1>5, <1>6, <1>12
  <2>2. NoTable(d) \/ FailedTable(d) \/ OwnTable(d)
    BY DEF PagingInv, UserTables
  <2>3. OwnTable(d) => OwnTable(d)'
    BY <1>1, <1>7, <2>1 DEF OwnTable
  <2>4. NoTable(d) => NoTable(d)'
    BY <1>1, <1>12, <2>1 DEF NoTable
  <2>5. FailedTable(d) => FailedTable(d)'
    BY <1>1, <2>1 DEF FailedTable
  <2> QED  BY <2>2, <2>3, <2>4, <2>5
<1>13. ASSUME NEW d \in Dirs \ KernDirs, OwnTable(d)' PROVE OwnTable(d)
  <2>1. V!Table(d) # 0
    BY <1>3, <1>6, <1>7, <1>13 DEF OwnTable
  <2> QED  BY <2>1, TableIsOwn
<1>14. UserTables'
  BY <1>6, <1>11, <1>12, <1>13 DEF PagingInv, UserTables
<1>15. ASSUME NEW u \in VAs \ unknown', u[1] \notin failed' PROVE StoredAsAsked(u)'
  <2>1. u[1] # d0 /\ u # va /\ u[1] \notin failed /\ u \notin unknown
    BY <1>1, <1>15
  <2>2. StoredAsAsked(u)
    BY <2>1 DEF PagingInv, AskedStored
  <2>3. u[1] \in Dirs \ KernDirs
    BY IndicesOfAddress
  <2>4. V!Table(u[1]) # 0 => V!Table(u[1]) \in V!Pages
    <3>1. V!Table(u[1]) # 0 => OwnTable(u[1])
      BY <2>3, TableIsOwn
    <3> QED  BY <3>1, PageTablesApart DEF PagingInv, OwnTable
  <2>5. V!Table(u[1])' = V!Table(u[1])
    BY <1>6, <2>3
  <2> QED  BY <1>1, <1>3, <2>1, <2>2, <2>4, <2>5, StoreKeepsOthers DEF PagingInv
<1>16. UnknownInTables'
  <2> SUFFICES ASSUME NEW u \in unknown PROVE u \in VAs /\ V!Table(u[1])' # 0
    BY <1>1 DEF UnknownInTables
  <2>1. u \in VAs /\ V!Table(u[1]) # 0
    BY DEF PagingInv, UnknownInTables
  <2> QED  BY <1>6, <2>1, IndicesOfAddress
<1> QED  BY <1>7, <1>8, <1>9, <1>10, <1>14, <1>15, <1>16 DEF PagingInv, AskedStored

LEMMA UnmapKeeps ==
    ASSUME MemoryAssumption, V!ConstantsFit, PagingInv, NEW va \in VAs, V!Unmap(va)
    PROVE  PagingInv'
<1> DEFINE t == V!Table(va[1])
<1>1. /\ asked' = [asked EXCEPT ![va] = V!None]
      /\ unknown' = unknown \ {va}
      /\ UNCHANGED <<ram, pgd_kern, free, taken, failed>>
  BY DEF V!Unmap
<1>2. va[1] \in Dirs \ KernDirs
  BY IndicesOfAddress
<1>3. \A d : V!Table(d)' = V!Table(d)
  BY <1>1 DEF V!Table
<1>4. RamDivided' /\ V!Managed' = V!Managed /\ \A d : V!KernTable(d)' = V!KernTable(d)
  BY <1>1, RamStays DEF PagingInv
<1>5. PagesHandedOut'
  BY <1>1, <1>4 DEF PagingInv, PagesHandedOut
<1>6. UserTables'
  BY <1>1, <1>3, <1>4 DEF PagingInv, UserTables, NoTable, FailedTable, OwnTable
<1>7. Asked(V!None)
  BY DEF Asked
<1>8. UnknownInTables'
  BY <1>1, <1>3 DEF PagingInv, UnknownInTables
<1>9. CASE t = 0
  <2>1. mem' = mem /\ tlb' = tlb
    BY <1>9 DEF V!Unmap
  <2>2. PagingShape'
    BY <1>1, <1>7, <2>1 DEF PagingInv, PagingShape, Asked
  <2>3. KernelMapped'
    BY <1>1, <1>4, <2>1 DEF PagingInv, KernelMapped
  <2>4. ASSUME NEW u \in VAs \ unknown', u[1] \notin failed' PROVE StoredAsAsked(u)'
    <3>1. u \notin unknown
      BY <1>1, <1>9, <2>4 DEF PagingInv, UnknownInTables
    <3>2. StoredAsAsked(u)
      BY <1>1, <2>4, <3>1 DEF PagingInv, AskedStored
    <3>3. asked'[u] = asked[u]
      <4>1. CASE u = va
        BY <1>1, <1>9, <3>2, <4>1 DEF PagingInv, PagingShape, StoredAsAsked
      <4>2. CASE u # va
        BY <1>1, <4>2 DEF PagingInv, PagingShape
      <4> QED  BY <4>1, <4>2
    <3> QED  BY <1>3, <2>1, <3>2, <3>3, StoredStays
  <2> QED  BY <1>4, <1>5, <1>6, <1>8, <2>2, <2>3, <2>4 DEF PagingInv, AskedStored
<1>10. CASE t # 0
  <2>1. StoresFor(t, va, V!None)
    BY <1>10 DEF V!Unmap, StoresFor
  <2>2. OwnTable(va[1])
    BY <1>2, <1>10, TableIsOwn
  <2>3. t \in V!Pages /\ \A d \in Dirs : V!KernTable(d) # t
    BY <2>2, PageTablesApart DEF PagingInv, OwnTable
  <2>4. PagingShape'
    BY <1>1, <1>7, <2>1, <2>3, StoreKeepsShape DEF PagingInv, PagingShape
  <2>5. KernelMapped'
    BY <1>1, <2>1, <2>3, StoreKeepsKernel DEF PagingInv
  <2>6. ASSUME NEW u \in VAs \ unknown', u[1] \notin failed' PROVE StoredAsAsked(u)'
    <3>1. CASE u = va
      BY <1>3, <1>7, <1>10, <2>1, <2>3, <3>1, StoreIsAsked DEF PagingInv
    <3>2. CASE u # va
      <4>1. StoredAsAsked(u)
        BY <1>1, <2>6, <3>2 DEF PagingInv, AskedStored
      <4>2. V!Table(u[1]) # 0 => OwnTable(u[1])
        BY IndicesOfAddress, TableIsOwn
      <4>3. V!Table(u[1]) # 0 => V!Table(u[1]) \in V!Pages
        BY <4>2, PageTablesApart DEF PagingInv, OwnTable
      <4>4. V!Table(u[1]) # 0 /\ V!Table(u[1]) = t => u[1] = va[1]
        BY <1>2, <2>2, <4>2, IndicesOfAddress DEF PagingInv, UserTables
      <4> QED  BY <1>3, <2>1, <2>3, <3>2, <4>1, <4>3, <4>4, StoreKeepsOthers DEF PagingInv
    <3> QED  BY <3>1, <3>2
  <2> QED  BY <1>4, <1>5, <1>6, <1>8, <2>4, <2>5, <2>6 DEF PagingInv, AskedStored
<1> QED  BY <1>9, <1>10

\* What the processor caches is what it finds in the tables.
LEMMA AccessKeeps ==
    ASSUME MemoryAssumption, V!ConstantsFit, PagingInv, NEW va \in VAs, V!Access(va)
    PROVE  PagingInv'
<1>1. /\ tlb' = tlb \cup {[va |-> va, entry |-> e] : e \in V!Walk(va)}
      /\ UNCHANGED <<ram, pgd_kern, mem, free, taken, asked, unknown, failed>>
  BY DEF V!Access
<1>2. \A d : V!Table(d)' = V!Table(d)
  BY <1>1 DEF V!Table
<1>3. RamDivided' /\ V!Managed' = V!Managed /\ \A d : V!KernTable(d)' = V!KernTable(d)
  BY <1>1, RamStays DEF PagingInv
<1>4. PagingShape' /\ PagesHandedOut' /\ KernelMapped'
  BY <1>1, <1>3 DEF PagingInv, PagingShape, Asked, PagesHandedOut, KernelMapped
<1>5. UserTables' /\ UnknownInTables'
  BY <1>1, <1>2, <1>3 DEF PagingInv, UserTables, NoTable, FailedTable, OwnTable, UnknownInTables
<1>6. ASSUME NEW u \in VAs \ unknown', u[1] \notin failed' PROVE StoredAsAsked(u)'
  <2>1. StoredAsAsked(u)
    BY <1>1, <1>6 DEF PagingInv, AskedStored
  <2>2. V!Walk(u) = Wanted(u)
    BY <1>1, <1>6, PagingInvTranslates DEF V!TranslatesAsAsked, Wanted
  <2>3. ASSUME NEW c \in tlb', c.va = u PROVE c.entry \in Wanted(u)
    <3>1. CASE c \in tlb
      BY <2>1, <2>3, <3>1 DEF StoredAsAsked
    <3>2. CASE c \notin tlb
      <4>1. PICK e \in V!Walk(va) : c = [va |-> va, entry |-> e]
        BY <1>1, <3>2
      <4>2. va = u
        BY <2>3, <4>1
      <4> QED  BY <2>2, <4>1, <4>2
    <3> QED  BY <3>1, <3>2
  <2>4. Wanted(u)' = Wanted(u)
    BY <1>1 DEF Wanted
  <2> QED  BY <1>1, <1>2, <2>1, <2>3, <2>4 DEF StoredAsAsked
<1> QED  BY <1>3, <1>4, <1>5, <1>6 DEF PagingInv, AskedStored

LEMMA EvictKeeps ==
    ASSUME MemoryAssumption, V!ConstantsFit, PagingInv, V!Evict
    PROVE  PagingInv'
<1>1. /\ tlb' \subseteq tlb
      /\ UNCHANGED <<ram, pgd_kern, mem, free, taken, asked, unknown, failed>>
  BY DEF V!Evict
<1>2. \A d : V!Table(d)' = V!Table(d)
  BY <1>1 DEF V!Table
<1>3. RamDivided' /\ V!Managed' = V!Managed /\ \A d : V!KernTable(d)' = V!KernTable(d)
  BY <1>1, RamStays DEF PagingInv
<1>4. PagingShape' /\ PagesHandedOut' /\ KernelMapped'
  BY <1>1, <1>3 DEF PagingInv, PagingShape, Asked, PagesHandedOut, KernelMapped
<1>5. UserTables' /\ UnknownInTables'
  BY <1>1, <1>2, <1>3 DEF PagingInv, UserTables, NoTable, FailedTable, OwnTable, UnknownInTables
<1>6. ASSUME NEW u \in VAs \ unknown', u[1] \notin failed' PROVE StoredAsAsked(u)'
  <2>1. StoredAsAsked(u)
    BY <1>1, <1>6 DEF PagingInv, AskedStored
  <2> QED  BY <1>1, <1>2, <2>1, StoredStays
<1> QED  BY <1>3, <1>4, <1>5, <1>6 DEF PagingInv, AskedStored

LEMMA TakeKeeps ==
    ASSUME MemoryAssumption, V!ConstantsFit, PagingInv, V!Take
    PROVE  PagingInv'
<1>1. PICK p \in free :
        /\ free' = free \ {p} /\ taken' = taken \cup {p}
        /\ UNCHANGED <<ram, pgd_kern, mem, tlb, asked, unknown, failed>>
  BY DEF V!Take
<1>2. \A d : V!Table(d)' = V!Table(d)
  BY <1>1 DEF V!Table
<1>3. RamDivided' /\ V!Managed' = V!Managed /\ \A d : V!KernTable(d)' = V!KernTable(d)
  BY <1>1, RamStays DEF PagingInv
<1>4. PagingShape' /\ PagesHandedOut' /\ KernelMapped'
  BY <1>1, <1>3 DEF PagingInv, PagingShape, Asked, PagesHandedOut, KernelMapped
<1>5. free' \cup taken' = free \cup taken
  BY <1>1
<1>6. UserTables' /\ UnknownInTables'
  BY <1>1, <1>2, <1>3, <1>5 DEF PagingInv, UserTables, NoTable, FailedTable, OwnTable, UnknownInTables
<1>7. ASSUME NEW u \in VAs \ unknown', u[1] \notin failed' PROVE StoredAsAsked(u)'
  <2>1. StoredAsAsked(u)
    BY <1>1, <1>7 DEF PagingInv, AskedStored
  <2> QED  BY <1>1, <1>2, <2>1, StoredStays
<1> QED  BY <1>3, <1>4, <1>6, <1>7 DEF PagingInv, AskedStored

\* A page that is given back was nobody's table: its contents do not matter.
LEMMA GiveBackKeeps ==
    ASSUME MemoryAssumption, V!ConstantsFit, PagingInv, V!GiveBack
    PROVE  PagingInv'
<1>1. PICK p \in taken, left \in V!Contents :
        /\ free' = free \cup {p} /\ taken' = taken \ {p}
        /\ mem' = [mem EXCEPT ![p] = left]
        /\ UNCHANGED <<ram, pgd_kern, tlb, asked, unknown, failed>>
  BY DEF V!GiveBack
<1>2. \A d : V!Table(d)' = V!Table(d)
  BY <1>1 DEF V!Table
<1>3. RamDivided' /\ V!Managed' = V!Managed /\ \A d : V!KernTable(d)' = V!KernTable(d)
  BY <1>1, RamStays DEF PagingInv
<1>4. p \in V!Pages /\ \A d \in Dirs : V!KernTable(d) # p /\ V!KernTable(d) \in V!Pages
  BY PageTablesApart DEF PagingInv, PagesHandedOut
<1>5. DOMAIN left = 0 .. PTE_SIZE - 1
  BY DEF V!Contents, V!Clean, V!Stale
<1>6. PagingShape'
  BY <1>1, <1>5 DEF PagingInv, PagingShape, Asked
<1>7. PagesHandedOut'
  BY <1>1, <1>3 DEF PagingInv, PagesHandedOut
<1>8. \A q \in V!Pages : q # p => mem'[q] = mem[q]
  BY <1>1 DEF PagingInv, PagingShape
<1>9. KernelMapped'
  <2>1. KernDirs \subseteq Dirs
    BY DEF V!ConstantsFit
  <2> QED  BY <1>1, <1>3, <1>4, <1>8, <2>1 DEF PagingInv, KernelMapped
<1>10. free' \cup taken' = free \cup taken
  BY <1>1
<1>11. UserTables' /\ UnknownInTables'
  BY <1>1, <1>2, <1>3, <1>10 DEF PagingInv, UserTables, NoTable, FailedTable, OwnTable, UnknownInTables
<1>12. ASSUME NEW u \in VAs \ unknown', u[1] \notin failed' PROVE StoredAsAsked(u)'
  <2>1. StoredAsAsked(u)
    BY <1>1, <1>12 DEF PagingInv, AskedStored
  <2>2. u[1] \in Dirs \ KernDirs
    BY IndicesOfAddress
  <2>3. V!Table(u[1]) # 0 => V!Table(u[1]) \in V!Pages /\ V!Table(u[1]) # p
    <3>1. V!Table(u[1]) # 0 => OwnTable(u[1])
      BY <2>2, TableIsOwn
    <3> QED  BY <3>1, PageTablesApart DEF PagingInv, OwnTable
  <2> QED  BY <1>1, <1>2, <1>8, <2>1, <2>3, StoredStays
<1> QED  BY <1>3, <1>6, <1>7, <1>9, <1>11, <1>12 DEF PagingInv, AskedStored

LEMMA PagingStep ==
    ASSUME MemoryAssumption, V!ConstantsFit, PagingInv, [V!Next]_(V!vars)
    PROVE  PagingInv'
<1>1. CASE \E va \in VAs, page \in PAs, flags \in Flags : V!Map(va, page, flags)
  BY <1>1, MapPresentKeeps, MapFreshKeeps, MapFailsKeeps DEF V!Map
<1>2. CASE \E va \in VAs : V!Unmap(va) \/ V!Access(va)
  BY <1>2, UnmapKeeps, AccessKeeps
<1>3. CASE V!Evict \/ V!Take \/ V!GiveBack
  BY <1>3, EvictKeeps, TakeKeeps, GiveBackKeeps
<1>4. CASE UNCHANGED V!vars
  <2>1. UNCHANGED <<ram, pgd_kern, mem, free, taken, tlb, asked, unknown, failed>>
    BY <1>4 DEF V!vars
  <2>2. \A d : V!Table(d)' = V!Table(d)
    BY <2>1 DEF V!Table
  <2>3. RamDivided' /\ V!Managed' = V!Managed /\ \A d : V!KernTable(d)' = V!KernTable(d)
    BY <2>1, RamStays DEF PagingInv
  <2>4. PagingShape' /\ PagesHandedOut' /\ KernelMapped'
    BY <2>1, <2>3 DEF PagingInv, PagingShape, Asked, PagesHandedOut, KernelMapped
  <2>5. UserTables' /\ UnknownInTables'
    BY <2>1, <2>2, <2>3
       DEF PagingInv, UserTables, NoTable, FailedTable, OwnTable, UnknownInTables
  <2>6. AskedStored'
    BY <2>1, <2>2 DEF PagingInv, AskedStored, StoredAsAsked, Wanted
  <2> QED  BY <2>3, <2>4, <2>5, <2>6 DEF PagingInv
<1> QED  BY <1>1, <1>2, <1>3, <1>4 DEF V!Next

\* The inductive invariant of paging.
THEOREM PagingInvariant ==
    ASSUME V!ConstantsFit
    PROVE  V!Spec => []PagingInv
<1>1. V!Init => PagingInv
  BY PagingInitially, MemoryAssumption
<1>2. PagingInv /\ [V!Next]_(V!vars) => PagingInv'
  BY PagingStep, MemoryAssumption
<1> QED  BY <1>1, <1>2, PTL DEF V!Spec

\* map, unmap and get_mapping, the processor's walk and its cache agree on every address.
THEOREM TranslationIsAsked ==
    ASSUME V!ConstantsFit
    PROVE  V!Spec => []TranslatesAsAsked
<1>1. PagingInv => TranslatesAsAsked
  BY PagingInvTranslates, MemoryAssumption DEF TranslatesAsAsked
<1> QED  BY <1>1, PagingInvariant, PTL

\* What the kernel runs on is never given away, and stays mapped.
THEOREM KernelStaysIntact ==
    ASSUME V!ConstantsFit
    PROVE  V!Spec => []KernelIntact
<1>1. PagingInv => KernelIntact
  BY PagingInvKernelIntact, MemoryAssumption DEF KernelIntact
<1> QED  BY <1>1, PagingInvariant, PTL

\* A behaviour of the three managers side by side is a behaviour of each.
THEOREM EachManagerBehaves == ManagersSpec => P!Spec /\ Spec /\ V!Spec
<1>1. ManagersInit => P!Init /\ Init /\ V!Init
  BY DEF ManagersInit
<1>2. [ManagersNext]_managersVars =>
        [P!Next]_(P!vars) /\ [Next]_vars /\ [V!Next]_(V!vars)
  <2>1. UNCHANGED pageVars => UNCHANGED P!vars
    BY DEF P!vars, P!ff_vars, P!buddy_vars, pageVars
  <2>2. UNCHANGED pagingVars => UNCHANGED V!vars
    BY DEF V!vars, pagingVars
  <2>3. UNCHANGED managersVars => UNCHANGED <<pageVars, vars, pagingVars>>
    BY DEF managersVars
  <2> QED  BY <2>1, <2>2, <2>3 DEF ManagersNext
<1> QED  BY <1>1, <1>2, PTL DEF ManagersSpec, P!Spec, Spec, V!Spec

-----------------------------------------------------------------------------
(* The first-fit manager of physical pages.                                 *)

\* The pages of the first-fit manager's list, and the first pages of the runs among
\* a set of pages.
Elements(s) == {s[i] : i \in DOMAIN s}

Ascending(s) == \A i, j \in DOMAIN s : i < j => s[i] < s[j]

PageNos == 0 .. NPages - 1

PageRun(b, n) == b .. b + n - 1

HeadsOf(F) == {p \in F : p - 1 \notin F}

\* A count at the head of each run is the length of the run.
CountsRuns(F, count) ==
    \A h \in HeadsOf(F) :
        /\ count[h] \in Nat \ {0}
        /\ PageRun(h, count[h]) \subseteq F
        /\ h + count[h] \notin F

\* The blocks callers hold are the pages that are not free, each once.
HeldOnce(F, blks) ==
    /\ \A x \in blks : x \in PageNos \X (1 .. NPages) /\ PageRun(x[1], x[2]) \subseteq PageNos \ F
    /\ \A x, y \in blks : x # y => PageRun(x[1], x[2]) \cap PageRun(y[1], y[2]) = {}
    /\ \A p \in PageNos \ F : \E x \in blks : p \in PageRun(x[1], x[2])

FirstFitInv ==
    /\ pmm_manager = "first_fit"
    /\ ff_list \in Seq(PageNos) /\ Ascending(ff_list)
    /\ ff_count = Len(ff_list)
    /\ ncount \in [PageNos -> Nat]
    /\ has_ncount = HeadsOf(Elements(ff_list))
    /\ CountsRuns(Elements(ff_list), ncount)
    /\ reserved \subseteq Elements(ff_list)
    /\ HeldOnce(Elements(ff_list), owned)
    /\ ~ panicked
    /\ booted \in BOOLEAN /\ (~ booted => Elements(ff_list) = PageNos)

\* Behind a page that is not free, the first free page heads a run.
LEMMA HeadBetween ==
    ASSUME NEW F \in SUBSET Nat, NEW e \in Int, e \notin F, NEW q \in F, e < q
    PROVE  \E h \in HeadsOf(F) : e < h /\ h <= q
<1> DEFINE S == {x \in F : e < x}
           h == Min(S)
<1>1. q \in S /\ S \in SUBSET Nat
  OBVIOUS
<1>2. h \in S /\ \A x \in S : h <= x
  <2> HIDE DEF S
  <2> QED  BY <1>1, MinOfNats
<1> HIDE DEF h
<1>3. h - 1 \notin F
  <2> SUFFICES ASSUME h - 1 \in F PROVE FALSE
    OBVIOUS
  <2>1. h \in Nat /\ e < h
    BY <1>2
  <2>2. h - 1 # e
    OBVIOUS
  <2>3. h - 1 \in S
    BY <2>1, <2>2
  <2> QED  BY <1>2, <2>1, <2>3
<1> QED
  BY <1>1, <1>2, <1>3 DEF HeadsOf

\* The last run that starts below a page that is not free ends there, when the page before is free.
LEMMA RunBefore ==
    ASSUME NEW F \in SUBSET Nat, NEW c, CountsRuns(F, c),
           NEW b \in Nat, b \notin F, b - 1 \in F,
           NEW g \in HeadsOf(F), g < b, \A h \in HeadsOf(F) : h < b => h <= g
    PROVE  g + c[g] = b
<1>1. /\ g \in Nat /\ c[g] \in Nat \ {0}
      /\ PageRun(g, c[g]) \subseteq F /\ g + c[g] \notin F
  BY DEF CountsRuns, HeadsOf
<1> DEFINE e == g + c[g]
<1>2. e <= b
  <2> SUFFICES ASSUME b < e PROVE FALSE
    BY <1>1
  <2>1. b \in PageRun(g, c[g])
    BY <1>1 DEF PageRun
  <2> QED  BY <1>1, <2>1
<1>3. ~ (e < b)
  <2> SUFFICES ASSUME e < b PROVE FALSE
    OBVIOUS
  <2>1. e \in Int /\ e \notin F /\ g < e
    BY <1>1
  <2> HIDE DEF e
  <2>2. e < b - 1
    BY <2>1
  <2>3. PICK h \in HeadsOf(F) : e < h /\ h <= b - 1
    BY <2>1, <2>2, HeadBetween
  <2>4. h \in Nat
    BY DEF HeadsOf
  <2> QED  BY <1>1, <2>1, <2>3, <2>4
<1> QED
  BY <1>1, <1>2, <1>3

\* What is left of the run at p, when n pages are cut off it, is counted.
CountsCut(F, c, d, p, n) ==
    /\ \A q \in F : q # p /\ q # p + n => d[q] = c[q]
    /\ n < c[p] => d[p + n] = c[p] - n

\* Cutting n pages off the first run: what is left of it, if anything, is a run.
LEMMA CutRuns ==
    ASSUME NEW F \in SUBSET Nat, NEW c, CountsRuns(F, c),
           NEW p \in F, \A q \in F : p <= q,
           NEW n \in Nat \ {0}, n <= c[p]
    PROVE  /\ HeadsOf(F \ PageRun(p, n))
                = (HeadsOf(F) \cup IF c[p] > n THEN {p + n} ELSE {}) \ {p}
           /\ \A d : CountsCut(F, c, d, p, n) => CountsRuns(F \ PageRun(p, n), d)
<1> DEFINE G == F \ PageRun(p, n)
<1>1. p \in Nat /\ p \in HeadsOf(F) /\ c[p] \in Nat \ {0}
  BY DEF HeadsOf, CountsRuns
<1>2. PageRun(p, c[p]) \subseteq F /\ p + c[p] \notin F
  BY <1>1 DEF CountsRuns
<1>3. \A q : q \in G <=> q \in F /\ p + n <= q
  <2> SUFFICES ASSUME NEW q \in F PROVE q \notin PageRun(p, n) <=> p + n <= q
    OBVIOUS
  <2>1. q \in Nat /\ p <= q
    OBVIOUS
  <2> QED  BY <1>1, <2>1 DEF PageRun
<1>4. p + n \in F <=> n < c[p]
  <2>1. CASE n < c[p]
    <3>1. p + n \in PageRun(p, c[p])
      BY <1>1, <2>1 DEF PageRun
    <3> QED  BY <2>1, <3>1, <1>2
  <2>2. CASE n = c[p]
    BY <1>2, <2>2
  <2> QED  BY <2>1, <2>2, <1>1
<1>5. ASSUME NEW h \in F, h # p + n PROVE h \in HeadsOf(G) <=> h \in HeadsOf(F) /\ h # p
  <2>1. h \in Nat /\ p <= h
    OBVIOUS
  <2>2. CASE p + n < h
    BY <1>1, <1>3, <1>5, <2>1, <2>2 DEF HeadsOf
  <2>3. CASE h < p + n /\ h # p
    <3>1. h - 1 \in PageRun(p, c[p])
      BY <1>1, <2>1, <2>3 DEF PageRun
    <3>2. h - 1 \in F
      BY <3>1, <1>2
    <3> QED  BY <1>1, <1>3, <2>1, <2>3, <3>2 DEF HeadsOf
  <2>4. CASE h = p
    BY <1>1, <1>3, <2>4 DEF HeadsOf
  <2> QED  BY <1>1, <1>5, <2>1, <2>2, <2>3, <2>4
<1>6. p + n \in HeadsOf(G) <=> n < c[p]
  <2>1. p + n - 1 \notin G
    BY <1>1, <1>3
  <2> QED  BY <1>1, <1>3, <1>4, <2>1 DEF HeadsOf
<1>7. HeadsOf(G) = (HeadsOf(F) \cup IF c[p] > n THEN {p + n} ELSE {}) \ {p}
  <2>1. HeadsOf(G) \subseteq F /\ HeadsOf(F) \subseteq F
    BY DEF HeadsOf
  <2>2. c[p] > n <=> n < c[p]
    BY <1>1
  <2>3. p + n # p
    BY <1>1
  <2>4. p + n \in HeadsOf(F) => n < c[p]
    BY <1>4 DEF HeadsOf
  <2> HIDE DEF G
  <2> QED  BY <1>4, <1>5, <1>6, <2>1, <2>2, <2>3, <2>4
<1>8. ASSUME NEW d, CountsCut(F, c, d, p, n), NEW h \in HeadsOf(G)
      PROVE  /\ d[h] \in Nat \ {0}
             /\ PageRun(h, d[h]) \subseteq G
             /\ h + d[h] \notin G
  <2>1. h \in F /\ h \in Nat /\ p + n <= h
    BY <1>3 DEF HeadsOf
  <2>2. CASE h = p + n
    <3>1. n < c[p]
      BY <1>6, <2>2
    <3>2. d[h] = c[p] - n /\ d[h] \in Nat \ {0} /\ h + d[h] = p + c[p]
      BY <1>1, <2>2, <3>1, <1>8 DEF CountsCut
    <3>3. ASSUME NEW q \in PageRun(h, d[h]) PROVE q \in G
      <4>1. q \in PageRun(p, c[p]) /\ p + n <= q
        BY <1>1, <2>1, <2>2, <3>2 DEF PageRun
      <4> QED  BY <4>1, <1>2, <1>3
    <3> QED  BY <3>2, <3>3, <1>2, <1>3
  <2>3. CASE h # p + n
    <3>1. h \in HeadsOf(F) /\ h # p
      BY <1>5, <2>1, <2>3
    <3>2. d[h] = c[h]
      BY <2>1, <2>3, <3>1, <1>8 DEF CountsCut
    <3>3. c[h] \in Nat \ {0} /\ PageRun(h, c[h]) \subseteq F /\ h + c[h] \notin F
      BY <3>1 DEF CountsRuns
    <3>4. ASSUME NEW q \in PageRun(h, c[h]) PROVE q \in G
      <4>1. q \in F
        BY <3>3
      <4>2. h <= q
        BY <2>1, <3>3 DEF PageRun
      <4>3. p + n <= q
        BY <1>1, <2>1, <4>1, <4>2
      <4> QED  BY <1>3, <4>1, <4>3
    <3> QED  BY <3>2, <3>3, <3>4
  <2> QED  BY <2>2, <2>3
<1> QED
  BY <1>7, <1>8 DEF CountsRuns

\* The run n pages from b become part of is counted, at its first page g.
CountsJoined(F, c, e, b, n, g) ==
    LET d == n + IF b + n \in F THEN c[b + n] ELSE 0
    IN  /\ e[g] = IF b - 1 \in F THEN c[g] + d ELSE d
        /\ \A q \in F : q # g /\ q # b + n => e[q] = c[q]

\* Returning n pages: they form a run with the runs right before and right after them.
LEMMA JoinRuns ==
    ASSUME NEW F \in SUBSET Nat, NEW c, CountsRuns(F, c),
           NEW b \in Nat, NEW n \in Nat \ {0}, PageRun(b, n) \cap F = {},
           NEW g \in Nat,
           b - 1 \in F => g \in HeadsOf(F) /\ g + c[g] = b,
           b - 1 \notin F => g = b
    PROVE  /\ HeadsOf(F \cup PageRun(b, n))
                = (HeadsOf(F) \cup IF b - 1 \in F THEN {} ELSE {b}) \ {b + n}
           /\ \A e : CountsJoined(F, c, e, b, n, g) => CountsRuns(F \cup PageRun(b, n), e)
<1> DEFINE G == F \cup PageRun(b, n)
           d == n + IF b + n \in F THEN c[b + n] ELSE 0
<1>1. /\ \A q : q \in PageRun(b, n) <=> q \in Int /\ b <= q /\ q < b + n
      /\ b \notin F /\ b + n - 1 \notin F /\ b + n \in Nat /\ b + n # b
  <2>1. \A q : q \in PageRun(b, n) <=> q \in Int /\ b <= q /\ q < b + n
    BY DEF PageRun
  <2>2. b \in PageRun(b, n) /\ b + n - 1 \in PageRun(b, n)
    BY <2>1
  <2> QED  BY <2>1, <2>2
<1>2. b + n \in F => b + n \in HeadsOf(F)
  BY <1>1 DEF HeadsOf
<1>3. d \in Nat \ {0} /\ n <= d /\ b + d \notin F /\ PageRun(b, d) \subseteq G
  <2>1. CASE b + n \in F
    <3>1. /\ c[b + n] \in Nat \ {0} /\ PageRun(b + n, c[b + n]) \subseteq F
          /\ b + n + c[b + n] \notin F
      BY <1>2, <2>1 DEF CountsRuns
    <3>2. d = n + c[b + n] /\ d \in Nat \ {0} /\ b + d = b + n + c[b + n]
      BY <2>1, <3>1
    <3>3. ASSUME NEW q \in PageRun(b, d) PROVE q \in PageRun(b, n) \/ q \in PageRun(b + n, c[b + n])
      BY <3>1, <3>2 DEF PageRun
    <3> QED  BY <3>1, <3>2, <3>3
  <2>2. CASE b + n \notin F
    <3>1. d = n
      BY <2>2
    <3> QED  BY <2>2, <3>1
  <2> QED  BY <2>1, <2>2
<1>4. HeadsOf(G) = (HeadsOf(F) \cup IF b - 1 \in F THEN {} ELSE {b}) \ {b + n}
  <2>1. ASSUME NEW h \in Nat, h # b
        PROVE  h \in HeadsOf(G) <=> h \in HeadsOf(F) /\ h # b + n
    <3>1. CASE h \in PageRun(b, n)
      <4>1. h - 1 \in PageRun(b, n) /\ h \notin F
        BY <1>1, <2>1, <3>1
      <4> QED  BY <4>1 DEF HeadsOf
    <3>2. CASE h = b + n
      <4>1. h - 1 \in PageRun(b, n)
        BY <1>1, <3>2
      <4> QED  BY <3>2, <4>1 DEF HeadsOf
    <3>3. CASE h \notin PageRun(b, n) /\ h # b + n
      <4>1. h - 1 \notin PageRun(b, n)
        BY <1>1, <2>1, <3>3
      <4> QED  BY <3>3, <4>1 DEF HeadsOf
    <3> QED  BY <3>1, <3>2, <3>3
  <2>2. b \in HeadsOf(G) <=> b - 1 \notin F
    <3>1. b \in G /\ b - 1 \notin PageRun(b, n)
      BY <1>1
    <3> QED  BY <3>1 DEF HeadsOf
  <2>3. HeadsOf(G) \subseteq Nat /\ HeadsOf(F) \subseteq Nat /\ b \notin HeadsOf(F)
    <3>1. ASSUME NEW q \in PageRun(b, n) PROVE q \in Nat
      <4>1. q \in Int /\ b <= q
        BY <1>1
      <4> QED  BY <4>1
    <3> QED  BY <1>1, <3>1 DEF HeadsOf
  <2> HIDE DEF G
  <2> QED  BY <1>1, <2>1, <2>2, <2>3
<1>5. ASSUME NEW e, CountsJoined(F, c, e, b, n, g), NEW h \in HeadsOf(G)
      PROVE  /\ e[h] \in Nat \ {0}
             /\ PageRun(h, e[h]) \subseteq G
             /\ h + e[h] \notin G
  <2>0. /\ e[g] = IF b - 1 \in F THEN c[g] + d ELSE d
        /\ \A q \in F : q # g /\ q # b + n => e[q] = c[q]
    BY <1>5 DEF CountsJoined
  <2> HIDE DEF d
  <2>1. CASE b - 1 \in F /\ h = g
    <3>1. g \in HeadsOf(F) /\ g + c[g] = b
      BY <2>1
    <3>2. c[g] \in Nat \ {0} /\ PageRun(g, c[g]) \subseteq F
      BY <3>1 DEF CountsRuns
    <3>3. e[h] = c[g] + d
      BY <2>0, <2>1
    <3>4. h + e[h] = b + d /\ e[h] \in Nat \ {0}
      BY <2>1, <3>1, <3>2, <3>3, <1>3
    <3>5. ASSUME NEW q \in PageRun(h, e[h]) PROVE q \in PageRun(g, c[g]) \/ q \in PageRun(b, d)
      BY <1>3, <2>1, <3>1, <3>2, <3>3 DEF PageRun
    <3>6. b + d \notin PageRun(b, n)
      BY <1>1, <1>3
    <3> QED  BY <1>3, <3>2, <3>4, <3>5, <3>6
  <2>2. CASE b - 1 \notin F /\ h = g
    <3>1. h = b /\ e[h] = d
      BY <2>0, <2>2
    <3>2. b + d \notin PageRun(b, n)
      BY <1>1, <1>3
    <3> QED  BY <1>3, <3>1, <3>2
  <2>3. CASE h # g
    <3>1. h \in HeadsOf(F) /\ h # b + n
      <4>1. b - 1 \notin F => h # b
        BY <2>3
      <4> QED  BY <1>4, <4>1
    <3>2. h \in F /\ h \in Nat
      BY <3>1 DEF HeadsOf
    <3>3. e[h] = c[h]
      BY <2>0, <2>3, <3>1, <3>2
    <3>4. c[h] \in Nat \ {0} /\ PageRun(h, c[h]) \subseteq F /\ h + c[h] \notin F
      BY <3>1 DEF CountsRuns
    <3>5. h + c[h] \notin PageRun(b, n)
      <4> SUFFICES ASSUME h + c[h] \in PageRun(b, n) PROVE FALSE
        OBVIOUS
      <4>1. h + c[h] - 1 \in PageRun(h, c[h])
        BY <3>2, <3>4 DEF PageRun
      <4>2. h + c[h] - 1 \in F
        BY <3>4, <4>1
      <4>3. h + c[h] = b
        <5>1. h + c[h] - 1 \notin PageRun(b, n)
          BY <4>2
        <5> QED  BY <1>1, <3>2, <3>4, <5>1
      <4>4. b - 1 \in F
        <5>1. h + c[h] - 1 = b - 1
          BY <3>2, <3>4, <4>3
        <5> QED  BY <4>2, <5>1
      <4>5. g \in HeadsOf(F) /\ g + c[g] = b
        BY <4>4
      <4>6. c[g] \in Nat \ {0} /\ PageRun(g, c[g]) \subseteq F
        BY <4>5 DEF CountsRuns
      <4>7. CASE h < g
        <5>1. g - 1 \in PageRun(h, c[h])
          BY <3>2, <3>4, <4>3, <4>5, <4>6, <4>7 DEF PageRun
        <5> QED  BY <3>4, <4>5, <5>1 DEF HeadsOf
      <4>8. CASE g < h
        <5>1. h - 1 \in PageRun(g, c[g])
          BY <3>2, <3>4, <4>3, <4>5, <4>6, <4>8 DEF PageRun
        <5> QED  BY <3>1, <4>6, <5>1 DEF HeadsOf
      <4> QED  BY <2>3, <3>2, <4>7, <4>8
    <3> QED  BY <3>3, <3>4, <3>5
  <2> QED  BY <2>1, <2>2, <2>3
<1> QED
  BY <1>4, <1>5 DEF CountsRuns

\* What the elements of a list of pages are.
LEMMA PageList ==
    ASSUME NEW s \in Seq(PageNos)
    PROVE  /\ Len(s) \in Nat /\ DOMAIN s = 1 .. Len(s)
           /\ \A i \in 1 .. Len(s) : s[i] \in PageNos /\ s[i] \in Int
           /\ s # <<>> => Len(s) # 0
<1>1. /\ Len(s) \in Nat /\ DOMAIN s = 1 .. Len(s)
      /\ \A i \in 1 .. Len(s) : s[i] \in PageNos
      /\ s # <<>> => Len(s) # 0
  OBVIOUS
<1>2. \A p \in PageNos : p \in Int
  BY DEF PageNos
<1> QED
  BY <1>1, <1>2

\* A piece of a list of pages.
LEMMA PieceOfList ==
    ASSUME NEW s \in Seq(PageNos), NEW lo \in Nat \ {0}, NEW hi \in Nat,
           hi <= Len(s), lo <= hi + 1
    PROVE  /\ SubSeq(s, lo, hi) \in Seq(PageNos)
           /\ Len(SubSeq(s, lo, hi)) = hi - lo + 1
           /\ DOMAIN SubSeq(s, lo, hi) = 1 .. hi - lo + 1
           /\ \A i \in 1 .. hi - lo + 1 : SubSeq(s, lo, hi)[i] = s[lo + i - 1]
<1>1. \A i \in lo .. hi : s[i] \in PageNos
  BY PageList
<1>2. /\ SubSeq(s, lo, hi) \in Seq(PageNos)
      /\ Len(SubSeq(s, lo, hi)) = IF lo <= hi THEN hi - lo + 1 ELSE 0
      /\ \A i \in 1 .. hi - lo + 1 : SubSeq(s, lo, hi)[i] = s[lo + i - 1]
  BY <1>1, SubSeqProperties
<1>3. Len(SubSeq(s, lo, hi)) = hi - lo + 1
  BY <1>2
<1> QED
  BY <1>2, <1>3

\* Two lists of pages joined.
LEMMA JoinLists ==
    ASSUME NEW s \in Seq(PageNos), NEW t \in Seq(PageNos)
    PROVE  /\ s \o t \in Seq(PageNos)
           /\ Len(s \o t) = Len(s) + Len(t)
           /\ \A i \in 1 .. Len(s) : (s \o t)[i] = s[i]
           /\ \A i \in 1 .. Len(t) : (s \o t)[Len(s) + i] = t[i]
<1>1. /\ s \o t \in Seq(PageNos)
      /\ Len(s \o t) = Len(s) + Len(t)
      /\ \A i \in 1 .. Len(s) + Len(t) :
            (s \o t)[i] = IF i <= Len(s) THEN s[i] ELSE t[i - Len(s)]
  BY ConcatProperties
<1>2. Len(s) \in Nat /\ Len(t) \in Nat
  OBVIOUS
<1>3. ASSUME NEW i \in 1 .. Len(s) PROVE (s \o t)[i] = s[i]
  <2>1. i \in 1 .. Len(s) + Len(t) /\ i <= Len(s)
    BY <1>2
  <2> QED  BY <1>1, <2>1
<1>4. ASSUME NEW i \in 1 .. Len(t) PROVE (s \o t)[Len(s) + i] = t[i]
  <2>1. /\ Len(s) + i \in 1 .. Len(s) + Len(t) /\ ~ (Len(s) + i <= Len(s))
        /\ (Len(s) + i) - Len(s) = i
    BY <1>2
  <2> QED  BY <1>1, <2>1
<1> QED
  BY <1>1, <1>3, <1>4

\* An ascending list that has all pages of a run, the first of them first, begins with the run.
LEMMA FirstRun ==
    ASSUME NEW s \in Seq(PageNos), Ascending(s), s # <<>>,
           NEW n \in Nat, PageRun(s[1], n) \subseteq Elements(s)
    PROVE  \A i \in 1 .. n : i <= Len(s) /\ s[i] = s[1] + i - 1
<1> DEFINE Ok(i) == i <= Len(s) /\ s[i] = s[1] + i - 1
           S == {i \in 1 .. n : ~ Ok(i)}
           m == Min(S)
<1>1. SUFFICES ASSUME S # {} PROVE FALSE
  OBVIOUS
<1>2. m \in S /\ \A x \in S : m <= x
  <2>1. S \in SUBSET Nat
    OBVIOUS
  <2> HIDE DEF S
  <2> QED  BY <1>1, <2>1, MinOfNats
<1> HIDE DEF m
<1>3. m \in 1 .. n /\ ~ Ok(m)
  BY <1>2
<1>4. /\ Len(s) \in Nat \ {0} /\ DOMAIN s = 1 .. Len(s)
      /\ \A i \in 1 .. Len(s) : s[i] \in Int
  BY PageList
<1>5. m # 1
  BY <1>3, <1>4
<1>6. m - 1 \in 1 .. n /\ Ok(m - 1)
  <2>1. m - 1 \in 1 .. n
    BY <1>3, <1>5
  <2> QED  BY <1>2, <2>1
<1>7. PICK j \in 1 .. Len(s) : s[j] = s[1] + m - 1
  <2>1. s[1] + m - 1 \in PageRun(s[1], n)
    BY <1>3, <1>4 DEF PageRun
  <2> QED  BY <2>1, <1>4 DEF Elements
<1>8. m - 1 < j
  <2>1. s[m - 1] < s[j]
    BY <1>3, <1>4, <1>6, <1>7
  <2>2. m - 1 \in 1 .. Len(s)
    BY <1>3, <1>5, <1>6, <1>4
  <2>3. j < m - 1 => s[j] < s[m - 1]
    BY <1>4, <2>2 DEF Ascending
  <2> QED  BY <1>3, <1>4, <2>1, <2>2, <2>3
<1>9. m \in 1 .. Len(s) /\ m - 1 \in 1 .. Len(s)
  BY <1>3, <1>5, <1>8
<1>10. s[m - 1] < s[m] /\ s[m] <= s[j]
  <2>1. m < j => s[m] < s[j]
    BY <1>4, <1>9 DEF Ascending
  <2>2. s[m - 1] < s[m]
    BY <1>4, <1>9 DEF Ascending
  <2> QED  BY <1>3, <1>4, <1>8, <1>9, <2>1, <2>2
<1>11. s[m] = s[1] + m - 1
  BY <1>3, <1>4, <1>6, <1>7, <1>9, <1>10
<1> QED
  BY <1>3, <1>9, <1>11

\* The first page of an ascending list is the lowest.
LEMMA FirstIsLeast ==
    ASSUME NEW s \in Seq(PageNos), Ascending(s), s # <<>>
    PROVE  s[1] \in Elements(s) /\ \A q \in Elements(s) : s[1] <= q
<1>1. /\ Len(s) \in Nat \ {0} /\ DOMAIN s = 1 .. Len(s)
      /\ \A i \in 1 .. Len(s) : s[i] \in Int
  BY PageList
<1>2. ASSUME NEW i \in 1 .. Len(s) PROVE s[1] <= s[i]
  <2>1. 1 < i => s[1] < s[i]
    BY <1>1 DEF Ascending
  <2> QED  BY <1>1, <2>1
<1> QED
  BY <1>1, <1>2 DEF Elements

\* Cutting off the run an ascending list begins with.
LEMMA CutList ==
    ASSUME NEW s \in Seq(PageNos), Ascending(s),
           NEW n \in Nat \ {0}, n <= Len(s), \A i \in 1 .. n : s[i] = s[1] + i - 1,
           NEW t, t = SubSeq(s, n + 1, Len(s))
    PROVE  /\ t \in Seq(PageNos) /\ Ascending(t)
           /\ Len(t) = Len(s) - n
           /\ n < Len(s) => t # <<>> /\ Head(t) = s[n + 1]
           /\ Elements(t) = Elements(s) \ PageRun(s[1], n)
           /\ Elements(SubSeq(s, 1, n)) = PageRun(s[1], n)
<1>1. /\ Len(s) \in Nat \ {0} /\ DOMAIN s = 1 .. Len(s)
      /\ \A i \in 1 .. Len(s) : s[i] \in Int /\ s[i] \in PageNos
      /\ 1 \in 1 .. Len(s) /\ n \in 1 .. Len(s)
  BY PageList
<1>2. /\ t \in Seq(PageNos) /\ Len(t) = Len(s) - n
      /\ \A i \in 1 .. Len(s) - n : t[i] = s[i + n]
  <2>1. n + 1 \in Nat \ {0} /\ n + 1 <= Len(s) + 1
    BY <1>1
  <2>2. /\ t \in Seq(PageNos) /\ Len(t) = Len(s) - (n + 1) + 1
        /\ \A i \in 1 .. Len(s) - (n + 1) + 1 : t[i] = s[n + 1 + i - 1]
    <3>1. Len(s) \in Nat /\ Len(s) <= Len(s)
      BY <1>1
    <3> QED  BY <2>1, <3>1, PieceOfList
  <2>3. ASSUME NEW i \in 1 .. Len(s) - n PROVE t[i] = s[i + n]
    <3>1. i \in 1 .. Len(s) - (n + 1) + 1 /\ n + 1 + i - 1 = i + n
      BY <1>1
    <3> QED  BY <2>2, <3>1
  <2>4. Len(s) - (n + 1) + 1 = Len(s) - n
    BY <1>1
  <2> QED  BY <2>2, <2>3, <2>4
<1>3. DOMAIN t = 1 .. Len(s) - n
  BY <1>2
<1>4. Ascending(t)
  <2> SUFFICES ASSUME NEW i \in 1 .. Len(s) - n, NEW j \in 1 .. Len(s) - n, i < j
               PROVE  t[i] < t[j]
    BY <1>3 DEF Ascending
  <2>1. i + n \in DOMAIN s /\ j + n \in DOMAIN s /\ i + n < j + n
    BY <1>1
  <2> QED  BY <1>2, <2>1 DEF Ascending
<1>5. ASSUME NEW i \in 1 .. Len(s), n < i PROVE s[1] + n <= s[i]
  <2>1. s[n] < s[i]
    BY <1>1, <1>5 DEF Ascending
  <2>2. s[n] = s[1] + n - 1
    OBVIOUS
  <2> QED  BY <1>1, <2>1, <2>2
<1>6. Elements(t) = Elements(s) \ PageRun(s[1], n)
  <2>1. ASSUME NEW q \in Elements(t) PROVE q \in Elements(s) \ PageRun(s[1], n)
    <3>1. PICK i \in 1 .. Len(s) - n : q = t[i]
      BY <1>3, <2>1 DEF Elements
    <3>2. i + n \in 1 .. Len(s) /\ n < i + n /\ q = s[i + n]
      <4>1. i + n \in 1 .. Len(s) /\ n < i + n
        BY <1>1
      <4>2. q = s[i + n]
        BY <1>2, <3>1, Zenon
      <4> QED  BY <4>1, <4>2
    <3>3. s[1] + n <= q
      BY <1>5, <3>2
    <3>4. q \in Elements(s) /\ q \in Int /\ s[1] \in Int
      BY <1>1, <3>2 DEF Elements
    <3> QED  BY <3>3, <3>4 DEF PageRun
  <2>2. ASSUME NEW q \in Elements(s) \ PageRun(s[1], n) PROVE q \in Elements(t)
    <3>1. PICK i \in 1 .. Len(s) : q = s[i]
      BY <1>1, <2>2 DEF Elements
    <3>2. n < i
      <4> SUFFICES ASSUME i <= n PROVE FALSE
        BY <1>1
      <4>1. q = s[1] + i - 1
        BY <1>1, <3>1
      <4> QED  BY <1>1, <2>2, <4>1 DEF PageRun
    <3>3. i - n \in 1 .. Len(s) - n /\ (i - n) + n = i
      BY <1>1, <3>2
    <3>4. q = t[i - n]
      BY <1>2, <3>1, <3>3
    <3> QED  BY <1>3, <3>3, <3>4 DEF Elements
  <2> QED  BY <2>1, <2>2
<1>7. n < Len(s) => t # <<>> /\ Head(t) = s[n + 1]
  <2> SUFFICES ASSUME n < Len(s) PROVE t # <<>> /\ Head(t) = s[n + 1]
    OBVIOUS
  <2>1. Len(s) - n > 0 /\ 1 \in 1 .. Len(s) - n
    BY <1>1
  <2>2. t[1] = s[1 + n] /\ 1 + n = n + 1
    BY <1>2, <2>1
  <2>3. t # <<>>
    <3>1. Len(t) > 0
      BY <1>2, <2>1, Zenon
    <3>2. Len(<<>>) = 0 /\ ~ (0 > 0)
      OBVIOUS
    <3> QED  BY <3>1, <3>2, Zenon
  <2>4. Head(t) = t[1]
    BY <1>2, <2>3, HeadTailProperties
  <2> QED  BY <2>2, <2>3, <2>4
<1>8. Elements(SubSeq(s, 1, n)) = PageRun(s[1], n)
  <2> DEFINE r == SubSeq(s, 1, n)
  <2>1. /\ DOMAIN r = 1 .. n - 1 + 1
        /\ \A i \in 1 .. n - 1 + 1 : r[i] = s[1 + i - 1]
    BY <1>1, PieceOfList
  <2>2. ASSUME NEW i \in 1 .. n PROVE r[i] = s[i]
    <3>1. i \in 1 .. n - 1 + 1 /\ 1 + i - 1 = i
      OBVIOUS
    <3> QED  BY <2>1, <3>1
  <2>3. DOMAIN r = 1 .. n
    BY <2>1
  <2> HIDE DEF r
  <2>4. ASSUME NEW q \in Elements(r) PROVE q \in PageRun(s[1], n)
    <3>1. PICK i \in 1 .. n : q = s[1] + i - 1
      BY <2>2, <2>3 DEF Elements
    <3> QED  BY <1>1, <3>1 DEF PageRun
  <2>5. ASSUME NEW q \in PageRun(s[1], n) PROVE q \in Elements(r)
    <3>1. q - s[1] + 1 \in 1 .. n /\ q = s[1] + (q - s[1] + 1) - 1
      BY <1>1 DEF PageRun
    <3>2. q = r[q - s[1] + 1]
      BY <2>2, <3>1
    <3> QED  BY <2>3, <3>1, <3>2 DEF Elements
  <2> QED  BY <2>4, <2>5 DEF r
<1> QED
  BY <1>2, <1>4, <1>6, <1>7, <1>8

\* t is s with a run between its k-th page and the next.
Spliced(s, t, b, n, k) ==
    /\ Len(t) = Len(s) + n
    /\ \A i \in 1 .. k : t[i] = s[i] /\ s[i] < b
    /\ \A i \in 1 .. n : t[k + i] = b + i - 1
    /\ \A i \in k + 1 .. Len(s) : t[i + n] = s[i] /\ s[i] \in Int /\ b + n <= s[i]

\* Such a list is ascending, when s is.
LEMMA SplicedRun ==
    ASSUME NEW s \in Seq(PageNos), Ascending(s), NEW t \in Seq(PageNos),
           NEW b \in Int, NEW n \in Nat \ {0},
           NEW k \in Nat, k <= Len(s), Spliced(s, t, b, n, k)
    PROVE  /\ Ascending(t)
           /\ Elements(t) = Elements(s) \cup PageRun(b, n)
<1> DEFINE L == Len(s)
<1>1. /\ DOMAIN s = 1 .. L
      /\ \A i \in 1 .. L : s[i] \in PageNos /\ s[i] \in Int
  BY PageList
<1>2. b \in Int /\ k \in Nat /\ k <= L /\ L \in Nat
  OBVIOUS
<1>3. \A q : q \in PageRun(b, n) <=> q \in Int /\ b <= q /\ q < b + n
  BY DEF PageRun
<1>4. /\ \A i \in 1 .. k : t[i] = s[i]
      /\ \A i \in 1 .. n : t[k + i] = b + i - 1
      /\ \A i \in k + 1 .. L : t[i + n] = s[i]
  BY DEF Spliced
<1>5. DOMAIN t = 1 .. L + n
  BY DEF Spliced
<1>6. /\ \A i \in 1 .. k : s[i] < b
      /\ \A i \in k + 1 .. L : s[i] \in Int /\ b + n <= s[i]
  BY DEF Spliced
<1> HIDE DEF L
<1>7. ASSUME NEW j \in 1 .. L + n
       PROVE  \/ j \in 1 .. k /\ t[j] = s[j]
              \/ \E i \in 1 .. n : j = k + i /\ t[j] = b + i - 1
              \/ \E i \in k + 1 .. L : j = i + n /\ t[j] = s[i]
  <2>1. CASE j \in 1 .. k
    BY <1>4, <2>1
  <2>2. CASE j \in k + 1 .. k + n
    <3>1. j - k \in 1 .. n /\ j = k + (j - k)
      BY <1>2, <2>2
    <3>2. t[k + (j - k)] = b + (j - k) - 1
      BY <1>4, <3>1
    <3> QED  BY <3>1, <3>2
  <2>3. CASE j \in k + n + 1 .. L + n
    <3>1. j - n \in k + 1 .. L /\ j = (j - n) + n
      BY <1>2, <2>3
    <3>2. t[(j - n) + n] = s[j - n]
      BY <1>4, <3>1
    <3> QED  BY <3>1, <3>2
  <2> QED  BY <1>1, <1>2, <2>1, <2>2, <2>3
<1>8. Ascending(t)
  <2> SUFFICES ASSUME NEW i \in 1 .. L + n, NEW j \in 1 .. L + n, i < j
               PROVE  t[i] < t[j]
    BY <1>5 DEF Ascending
  <2>1. \A x, y \in 1 .. L : x < y => s[x] < s[y]
    BY <1>1 DEF Ascending
  <2>2. CASE i \in 1 .. k /\ t[i] = s[i]
    <3>1. i \in 1 .. L /\ s[i] < b /\ s[i] \in Int
      BY <1>1, <1>2, <1>6, <2>2
    <3>2. CASE j \in 1 .. k /\ t[j] = s[j]
      <4>1. j \in 1 .. L
        BY <1>2, <3>2
      <4> QED  BY <2>1, <2>2, <3>1, <3>2, <4>1
    <3>3. ASSUME NEW y \in 1 .. n, t[j] = b + y - 1 PROVE t[i] < t[j]
      BY <1>2, <2>2, <3>1, <3>3
    <3>4. ASSUME NEW y \in k + 1 .. L, t[j] = s[y] PROVE t[i] < t[j]
      BY <1>2, <1>6, <2>2, <3>1, <3>4
    <3> QED  BY <1>7, <3>2, <3>3, <3>4
  <2>3. ASSUME NEW x \in 1 .. n, i = k + x, t[i] = b + x - 1 PROVE t[i] < t[j]
    <3>1. ~ (j \in 1 .. k)
      BY <1>2, <2>3
    <3>2. ASSUME NEW y \in 1 .. n, j = k + y, t[j] = b + y - 1 PROVE t[i] < t[j]
      BY <1>2, <2>3, <3>2
    <3>3. ASSUME NEW y \in k + 1 .. L, t[j] = s[y] PROVE t[i] < t[j]
      <4>1. s[y] \in Int /\ b + n <= s[y]
        BY <1>6
      <4> QED  BY <1>2, <2>3, <3>3, <4>1
    <3> QED  BY <1>7, <3>1, <3>2, <3>3
  <2>4. ASSUME NEW x \in k + 1 .. L, i = x + n, t[i] = s[x] PROVE t[i] < t[j]
    <3>1. ~ (j \in 1 .. k)
      BY <1>2, <2>4
    <3>2. ASSUME NEW y \in 1 .. n, j = k + y PROVE FALSE
      BY <1>2, <2>4, <3>2
    <3>3. ASSUME NEW y \in k + 1 .. L, j = y + n, t[j] = s[y] PROVE t[i] < t[j]
      <4>1. x \in 1 .. L /\ y \in 1 .. L /\ x < y
        BY <1>1, <1>2, <2>4, <3>3
      <4> QED  BY <2>1, <2>4, <3>3, <4>1
    <3> QED  BY <1>7, <3>1, <3>2, <3>3
  <2> QED  BY <1>7, <2>2, <2>3, <2>4
<1>9. Elements(t) = Elements(s) \cup PageRun(b, n)
  <2>1. ASSUME NEW q \in Elements(t) PROVE q \in Elements(s) \cup PageRun(b, n)
    <3>1. PICK j \in 1 .. L + n : q = t[j]
      BY <1>5, <2>1 DEF Elements
    <3>2. ASSUME NEW i \in 1 .. L, q = s[i] PROVE q \in Elements(s)
      BY <1>1, <3>2 DEF Elements
    <3>3. ASSUME NEW i \in 1 .. n, q = b + i - 1 PROVE q \in PageRun(b, n)
      BY <1>2, <1>3, <3>3
    <3>4. 1 .. k \subseteq 1 .. L /\ k + 1 .. L \subseteq 1 .. L
      BY <1>1, <1>2
    <3> QED  BY <1>7, <3>1, <3>2, <3>3, <3>4
  <2>2. ASSUME NEW q \in PageRun(b, n) PROVE q \in Elements(t)
    <3>1. q - b + 1 \in 1 .. n /\ b + (q - b + 1) - 1 = q /\ k + (q - b + 1) \in 1 .. L + n
      BY <1>1, <1>2, <1>3
    <3>2. t[k + (q - b + 1)] = q
      BY <1>4, <3>1
    <3> QED  BY <1>5, <3>1, <3>2 DEF Elements
  <2>3. ASSUME NEW q \in Elements(s) PROVE q \in Elements(t)
    <3>1. PICK i \in 1 .. L : q = s[i]
      BY <1>1, <2>3 DEF Elements
    <3>2. CASE i \in 1 .. k
      <4>1. i \in 1 .. L + n /\ t[i] = q
        BY <1>1, <1>2, <1>4, <3>1, <3>2
      <4> QED  BY <1>5, <4>1 DEF Elements
    <3>3. CASE i \in k + 1 .. L
      <4>1. i + n \in 1 .. L + n /\ t[i + n] = q
        BY <1>1, <1>2, <1>4, <3>1, <3>3
      <4> QED  BY <1>5, <4>1 DEF Elements
    <3> QED  BY <1>1, <1>2, <3>2, <3>3
  <2> QED  BY <2>1, <2>2, <2>3
<1> QED
  BY <1>8, <1>9

\* Inserting the pages of a run, none of them on the list, where they belong.
LEMMA InsertRun ==
    ASSUME NEW s \in Seq(PageNos), Ascending(s),
           NEW b \in PageNos, NEW n \in Nat \ {0},
           PageRun(b, n) \subseteq PageNos \ Elements(s),
           NEW pos \in 1 .. Len(s) + 1,
           \A i \in 1 .. pos - 1 : s[i] < b,
           \A i \in pos .. Len(s) : s[i] > b,
           NEW r, r = [i \in 1 .. n |-> b + i - 1],
           NEW t, t = SubSeq(s, 1, pos - 1) \o r \o SubSeq(s, pos, Len(s))
    PROVE  t \in Seq(PageNos) /\ Spliced(s, t, b, n, pos - 1)
<1> DEFINE u == SubSeq(s, 1, pos - 1)
           v == SubSeq(s, pos, Len(s))
           k == pos - 1
           L == Len(s)
<1>1. /\ L \in Nat /\ DOMAIN s = 1 .. L
      /\ \A i \in 1 .. L : s[i] \in PageNos /\ s[i] \in Int
  BY PageList
<1>2. k \in Nat /\ k <= L /\ pos = k + 1 /\ b \in Int /\ pos \in Nat \ {0}
  BY <1>1 DEF PageNos
<1>3. \A q : q \in PageRun(b, n) <=> q \in Int /\ b <= q /\ q < b + n
  BY <1>2 DEF PageRun
<1>4. u \in Seq(PageNos) /\ Len(u) = k /\ \A i \in 1 .. k : u[i] = s[i]
  <2>1. /\ u \in Seq(PageNos) /\ Len(u) = k - 1 + 1
        /\ \A i \in 1 .. k - 1 + 1 : u[i] = s[1 + i - 1]
    <3>1. 1 \in Nat \ {0} /\ k \in Nat /\ k <= Len(s) /\ 1 <= k + 1
      BY <1>2
    <3> QED  BY <3>1, PieceOfList
  <2>2. ASSUME NEW i \in 1 .. k PROVE u[i] = s[i]
    <3>1. i \in 1 .. k - 1 + 1 /\ 1 + i - 1 = i
      BY <1>2
    <3> QED  BY <2>1, <3>1
  <2>3. k - 1 + 1 = k
    BY <1>2
  <2> QED  BY <2>1, <2>2, <2>3
<1>5. v \in Seq(PageNos) /\ Len(v) = L - k /\ \A i \in 1 .. L - k : v[i] = s[i + k]
  <2>1. /\ v \in Seq(PageNos) /\ Len(v) = L - pos + 1
        /\ \A i \in 1 .. L - pos + 1 : v[i] = s[pos + i - 1]
    <3>1. L \in Nat /\ L <= Len(s) /\ pos \in Nat \ {0} /\ pos <= L + 1
      BY <1>1, <1>2
    <3> QED  BY <3>1, PieceOfList
  <2>2. ASSUME NEW i \in 1 .. L - k PROVE v[i] = s[i + k]
    <3>1. i \in 1 .. L - pos + 1 /\ pos + i - 1 = i + k
      BY <1>1, <1>2
    <3> QED  BY <2>1, <3>1
  <2>3. L - pos + 1 = L - k
    BY <1>1, <1>2
  <2> QED  BY <2>1, <2>2, <2>3
<1>6. r \in Seq(PageNos) /\ Len(r) = n /\ \A i \in 1 .. n : r[i] = b + i - 1
  <2>1. ASSUME NEW i \in 1 .. n PROVE b + i - 1 \in PageNos
    <3>1. b + i - 1 \in PageRun(b, n)
      BY <1>2, <1>3
    <3> QED  BY <3>1
  <2> QED  BY <2>1, IsASeq
<1> HIDE DEF u, v, k, L
<1>7. /\ t \in Seq(PageNos) /\ Len(t) = L + n
      /\ \A i \in 1 .. k : t[i] = s[i]
      /\ \A i \in 1 .. n : t[k + i] = b + i - 1
      /\ \A i \in k + 1 .. L : t[i + n] = s[i]
  <2> DEFINE ur == u \o r
  <2>1. /\ ur \in Seq(PageNos) /\ Len(ur) = k + n
        /\ \A i \in 1 .. k : ur[i] = s[i]
        /\ \A i \in 1 .. n : ur[k + i] = b + i - 1
    <3>1. /\ ur \in Seq(PageNos) /\ Len(ur) = Len(u) + Len(r)
          /\ \A i \in 1 .. Len(u) : ur[i] = u[i]
          /\ \A i \in 1 .. Len(r) : ur[Len(u) + i] = r[i]
      BY <1>4, <1>6, JoinLists
    <3> QED  BY <1>4, <1>6, <3>1, Zenon
  <2> HIDE DEF ur
  <2>2. /\ ur \o v \in Seq(PageNos) /\ Len(ur \o v) = Len(ur) + Len(v)
        /\ \A i \in 1 .. Len(ur) : (ur \o v)[i] = ur[i]
        /\ \A i \in 1 .. Len(v) : (ur \o v)[Len(ur) + i] = v[i]
    BY <1>5, <2>1, JoinLists
  <2>3. t = ur \o v
    BY DEF ur, u, v, k, L
  <2>4. /\ t \in Seq(PageNos) /\ Len(t) = k + n + (L - k)
        /\ \A i \in 1 .. k + n : t[i] = ur[i]
        /\ \A i \in 1 .. L - k : t[k + n + i] = v[i]
    BY <1>5, <2>1, <2>2, <2>3, Zenon
  <2>5. k + n + (L - k) = L + n
    BY <1>1, <1>2
  <2>6. ASSUME NEW i \in 1 .. k PROVE t[i] = s[i]
    <3>1. i \in 1 .. k + n
      BY <1>2
    <3> QED  BY <2>1, <2>4, <3>1
  <2>7. ASSUME NEW i \in 1 .. n PROVE t[k + i] = b + i - 1
    <3>1. k + i \in 1 .. k + n
      BY <1>2
    <3> QED  BY <2>1, <2>4, <3>1
  <2>8. ASSUME NEW i \in k + 1 .. L PROVE t[i + n] = s[i]
    <3>1. i - k \in 1 .. L - k /\ k + n + (i - k) = i + n /\ (i - k) + k = i
      BY <1>1, <1>2
    <3>2. t[k + n + (i - k)] = v[i - k] /\ v[i - k] = s[(i - k) + k]
      BY <1>5, <2>4, <3>1
    <3> QED  BY <3>1, <3>2
  <2> QED  BY <2>4, <2>5, <2>6, <2>7, <2>8
<1>8. /\ \A i \in 1 .. k : s[i] < b
      /\ \A i \in k + 1 .. L : s[i] \in Int /\ b + n <= s[i]
  <2>1. ASSUME NEW i \in 1 .. k PROVE s[i] < b
    BY DEF k
  <2>2. ASSUME NEW i \in k + 1 .. L PROVE s[i] \in Int /\ b + n <= s[i]
    <3>1. i \in 1 .. L
      BY <1>2
    <3>2. s[i] \in Elements(s) /\ s[i] \in Int
      BY <1>1, <3>1 DEF Elements
    <3>3. i \in pos .. Len(s)
      BY <1>2 DEF L
    <3>4. s[i] > b
      BY <3>3
    <3>5. s[i] \notin PageRun(b, n)
      BY <3>2
    <3> QED  BY <1>2, <1>3, <3>2, <3>4, <3>5
  <2> QED  BY <2>1, <2>2
<1> QED
  <2>1. Len(s) = L
    BY DEF L
  <2>2. Spliced(s, t, b, n, k)
    BY <1>7, <1>8, <2>1, Zenon DEF Spliced
  <2> QED  BY <1>7, <2>2, Zenon DEF k

\* Inserting a run before the first page above it.
LEMMA InsertedRun ==
    ASSUME NEW s \in Seq(PageNos), Ascending(s),
           NEW b \in PageNos, NEW n \in Nat \ {0},
           NEW t \in Seq(PageNos), NEW k \in Nat, k <= Len(s), Spliced(s, t, b, n, k)
    PROVE  Ascending(t) /\ Elements(t) = Elements(s) \cup PageRun(b, n) /\ Len(t) = Len(s) + n
<1>1. b \in Int
  BY DEF PageNos
<1>2. Len(t) = Len(s) + n
  BY Zenon DEF Spliced
<1>3. Ascending(t)
  BY <1>1, SplicedRun
<1>4. Elements(t) = Elements(s) \cup PageRun(b, n)
  BY <1>1, SplicedRun
<1> QED
  BY <1>2, <1>3, <1>4

\* Granting free pages, and taking back a block, keep every page in one place.
LEMMA HeldGranted ==
    ASSUME P!ConstantsFit, NEW F \in SUBSET PageNos, NEW blks, HeldOnce(F, blks),
           NEW p \in PageNos, NEW n \in Nat \ {0}, PageRun(p, n) \subseteq F
    PROVE  HeldOnce(F \ PageRun(p, n), blks \cup {<<p, n>>})
<1> DEFINE x == <<p, n>>
<1>1. x \in PageNos \X (1 .. NPages) /\ PageRun(x[1], x[2]) = PageRun(p, n)
  <2>1. p \in Nat /\ p + n - 1 \in PageRun(p, n)
    BY DEF PageNos, PageRun
  <2>2. p + n - 1 \in 0 .. NPages - 1 /\ NPages \in Nat
    BY <2>1 DEF PageNos, P!ConstantsFit
  <2>3. n \in 1 .. NPages
    BY <2>1, <2>2
  <2> QED  BY <2>3
<1>2. /\ \A y \in blks : y \in PageNos \X (1 .. NPages) /\ PageRun(y[1], y[2]) \subseteq PageNos \ F
      /\ \A y, z \in blks : y # z => PageRun(y[1], y[2]) \cap PageRun(z[1], z[2]) = {}
      /\ \A q \in PageNos \ F : \E y \in blks : q \in PageRun(y[1], y[2])
  BY DEF HeldOnce
<1> HIDE DEF x
<1>3. \A y \in blks : PageRun(y[1], y[2]) \cap PageRun(x[1], x[2]) = {}
  BY <1>1, <1>2
<1>4. \A y \in blks \cup {x} :
        y \in PageNos \X (1 .. NPages) /\ PageRun(y[1], y[2]) \subseteq PageNos \ (F \ PageRun(p, n))
  BY <1>1, <1>2
<1>5. \A y, z \in blks \cup {x} : y # z => PageRun(y[1], y[2]) \cap PageRun(z[1], z[2]) = {}
  BY <1>2, <1>3
<1>6. \A q \in PageNos \ (F \ PageRun(p, n)) : \E y \in blks \cup {x} : q \in PageRun(y[1], y[2])
  BY <1>1, <1>2
<1> QED
  BY <1>4, <1>5, <1>6 DEF HeldOnce, x

LEMMA HeldReturned ==
    ASSUME NEW F \in SUBSET PageNos, NEW blks, HeldOnce(F, blks),
           NEW b, NEW n, <<b, n>> \in blks
    PROVE  HeldOnce(F \cup PageRun(b, n), blks \ {<<b, n>>})
<1> DEFINE x == <<b, n>>
<1>1. x \in blks /\ PageRun(x[1], x[2]) = PageRun(b, n)
  OBVIOUS
<1>2. /\ \A y \in blks : y \in PageNos \X (1 .. NPages) /\ PageRun(y[1], y[2]) \subseteq PageNos \ F
      /\ \A y, z \in blks : y # z => PageRun(y[1], y[2]) \cap PageRun(z[1], z[2]) = {}
      /\ \A q \in PageNos \ F : \E y \in blks : q \in PageRun(y[1], y[2])
  BY DEF HeldOnce
<1> HIDE DEF x
<1>3. \A y \in blks \ {x} :
        /\ y \in PageNos \X (1 .. NPages)
        /\ PageRun(y[1], y[2]) \subseteq PageNos \ (F \cup PageRun(b, n))
  BY <1>1, <1>2
<1>4. \A q \in PageNos \ (F \cup PageRun(b, n)) : \E y \in blks \ {x} : q \in PageRun(y[1], y[2])
  BY <1>1, <1>2
<1> QED
  BY <1>2, <1>3, <1>4 DEF HeldOnce, x

\* What a block that is held looks like.
LEMMA HeldBlock ==
    ASSUME NEW F \in SUBSET PageNos, NEW blks, HeldOnce(F, blks),
           NEW b, NEW n, <<b, n>> \in blks
    PROVE  /\ b \in PageNos /\ n \in 1 .. NPages
           /\ PageRun(b, n) \subseteq PageNos \ F
<1> DEFINE x == <<b, n>>
<1>1. x \in PageNos \X (1 .. NPages) /\ PageRun(x[1], x[2]) \subseteq PageNos \ F
  BY DEF HeldOnce
<1>2. x[1] = b /\ x[2] = n
  OBVIOUS
<1> QED
  BY <1>1, <1>2

\* alloc_pages of the first-fit manager, when the first block holds the n pages it is asked for.
LEMMA FirstFitGrants ==
    ASSUME P!ConstantsFit, FirstFitInv, NEW n \in Nat \ {0},
           ff_list # <<>>, n <= ncount[ff_list[1]], P!FF!AllocFirst(n),
           owned' = owned \cup {<<ret', n>>}, booted' = TRUE, pmm_manager' = pmm_manager
    PROVE  /\ FirstFitInv'
           /\ ret' \in Elements(ff_list) /\ PageRun(ret', n) \subseteq Elements(ff_list)
           /\ Elements(ff_list') = Elements(ff_list) \ PageRun(ret', n)
<1> DEFINE p == ff_list[1]
           F == Elements(ff_list)
           L == Len(ff_list)
           R == SubSeq(ff_list, n + 1, L)
           last == ncount[p] = n
<1>1. /\ ff_list \in Seq(PageNos) /\ Ascending(ff_list) /\ ff_count = L
      /\ ncount \in [PageNos -> Nat] /\ has_ncount = HeadsOf(F) /\ CountsRuns(F, ncount)
      /\ reserved \subseteq F /\ HeldOnce(F, owned) /\ ~ panicked
  BY DEF FirstFitInv
<1>2. F \in SUBSET PageNos /\ F \in SUBSET Nat /\ PageNos \in SUBSET Nat
  BY <1>1, PageList DEF Elements, PageNos
<1>3. p \in F /\ p \in PageNos /\ p \in Nat /\ \A q \in F : p <= q
  <2>1. p \in F /\ \A q \in F : p <= q
    BY <1>1, FirstIsLeast
  <2> QED  BY <1>2, <2>1
<1>4. p \in HeadsOf(F)
  BY <1>2, <1>3 DEF HeadsOf
<1>5. /\ ncount[p] \in Nat \ {0} /\ PageRun(p, ncount[p]) \subseteq F
      /\ p + ncount[p] \notin F
  BY <1>1, <1>4 DEF CountsRuns
<1>6. \A i \in 1 .. ncount[p] : i <= L /\ ff_list[i] = p + i - 1
  BY <1>1, <1>5, FirstRun
<1>7. n <= L /\ \A i \in 1 .. n : ff_list[i] = p + i - 1
  BY <1>5, <1>6
<1>8. PageRun(p, n) \subseteq F
  <2> SUFFICES ASSUME NEW q \in PageRun(p, n) PROVE q \in PageRun(p, ncount[p])
    BY <1>5
  <2> QED  BY <1>3, <1>5 DEF PageRun
<1>9. Head(ff_list) = p
  BY <1>1
<1>10. P!FF!Fits(n)
  BY <1>1, <1>4, <1>5, <1>9 DEF P!FF!Fits
<1>11. /\ R \in Seq(PageNos) /\ Ascending(R) /\ Len(R) = L - n
       /\ n < L => R # <<>> /\ Head(R) = ff_list[n + 1]
       /\ Elements(R) = F \ PageRun(p, n)
       /\ Elements(SubSeq(ff_list, 1, n)) = PageRun(p, n)
  BY <1>1, <1>7, CutList
<1>12. P!FF!Rest(n) = R /\ P!FF!Taken(n) = PageRun(p, n)
  BY <1>10, <1>11 DEF P!FF!Rest, P!FF!Taken, P!FF!ToSet, Elements
<1> DEFINE cut == IF ncount[p] > n THEN {Head(R)} ELSE {}
<1>13. /\ ff_list' = R
       /\ reserved' = reserved \ PageRun(p, n)
       /\ has_ncount' = (has_ncount \cup cut) \ {p}
       /\ ncount' = [q \in PageNos |-> IF q = p THEN 0
                                       ELSE IF q \in cut THEN ncount[p] - n ELSE ncount[q]]
       /\ ff_count' = ff_count - n
       /\ ret' = p
       /\ panicked' = panicked
  BY <1>9, <1>12 DEF P!FF!AllocFirst, P!FF!Pages, PageNos
<1>14. cut = IF ncount[p] > n THEN {p + n} ELSE {}
  <2> SUFFICES ASSUME ncount[p] > n PROVE Head(R) = p + n
    OBVIOUS
  <2>1. n + 1 \in 1 .. ncount[p] /\ p + (n + 1) - 1 = p + n
    BY <1>3, <1>5
  <2>2. n + 1 <= L /\ ff_list[n + 1] = p + n
    BY <1>6, <2>1
  <2>3. n < L
    BY <1>1, <2>2
  <2> QED  BY <1>11, <2>2, <2>3
<1>15. ncount[p] > n => p + n \in F /\ p + n # p
  <2> SUFFICES ASSUME ncount[p] > n PROVE p + n \in F /\ p + n # p
    OBVIOUS
  <2>1. p + n \in PageRun(p, ncount[p])
    BY <1>3, <1>5 DEF PageRun
  <2> QED  BY <1>3, <1>5, <2>1
<1> HIDE DEF cut, R, L
<1>16. ncount' \in [PageNos -> Nat]
  <2>1. ncount[p] > n => ncount[p] - n \in Nat
    BY <1>5
  <2>2. \A q \in cut : ncount[p] > n
    BY <1>14
  <2> QED  BY <1>1, <1>13, <2>1, <2>2
<1>17. /\ \A q \in F : q # p /\ q # p + n => ncount'[q] = ncount[q]
       /\ n < ncount[p] => ncount'[p + n] = ncount[p] - n
  BY <1>2, <1>5, <1>13, <1>14, <1>15
<1>18. /\ CountsRuns(F \ PageRun(p, n), ncount')
       /\ HeadsOf(F \ PageRun(p, n)) = (HeadsOf(F) \cup IF ncount[p] > n THEN {p + n} ELSE {}) \ {p}
  <2> DEFINE c == ncount
             d == ncount'
  <2>1. /\ CountsRuns(F, c) /\ n <= c[p]
        /\ CountsCut(F, c, d, p, n)
    BY <1>1, <1>17 DEF CountsCut
  <2> HIDE DEF c, d, F, p
  <2>2. CountsRuns(F \ PageRun(p, n), d)
    BY <1>2, <1>3, <2>1, CutRuns
  <2>3. HeadsOf(F \ PageRun(p, n)) = (HeadsOf(F) \cup IF c[p] > n THEN {p + n} ELSE {}) \ {p}
    BY <1>2, <1>3, <2>1, CutRuns
  <2> QED  BY <2>2, <2>3 DEF c, d
<1>19. Elements(ff_list') = F \ PageRun(p, n)
  BY <1>11, <1>13
<1>20. HeldOnce(F \ PageRun(p, n), owned')
  BY <1>1, <1>2, <1>3, <1>8, <1>13, HeldGranted
<1>21. ff_count' = Len(ff_list')
  BY <1>1, <1>11, <1>13
<1>22. FirstFitInv'
  <2>1. has_ncount' = HeadsOf(Elements(ff_list')) /\ CountsRuns(Elements(ff_list'), ncount')
    BY <1>1, <1>13, <1>14, <1>18, <1>19
  <2>2. reserved' \subseteq Elements(ff_list') /\ HeldOnce(Elements(ff_list'), owned')
    BY <1>1, <1>13, <1>19, <1>20
  <2>3. ff_list' \in Seq(PageNos) /\ Ascending(ff_list')
    BY <1>11, <1>13
  <2>4. pmm_manager' = "first_fit" /\ ~ panicked' /\ booted' = TRUE
    BY <1>13 DEF FirstFitInv
  <2> QED  BY <1>16, <1>21, <2>1, <2>2, <2>3, <2>4 DEF FirstFitInv
<1> QED
  BY <1>3, <1>8, <1>13, <1>19, <1>22

LEMMA MaxOfNats ==
    ASSUME NEW k \in Nat, NEW S \in SUBSET (1 .. k), S # {}
    PROVE  P!FF!Max(S) \in S /\ \A x \in S : x <= P!FF!Max(S)
<1> DEFINE D == {d \in Nat : k - d \in S}
           m == k - Min(D)
<1>1. D # {}
  <2>1. PICK x \in S : TRUE
    OBVIOUS
  <2>2. k - x \in Nat /\ k - (k - x) = x
    OBVIOUS
  <2> QED  BY <2>1, <2>2
<1>2. Min(D) \in D /\ \A d \in D : Min(D) <= d
  <2>1. D \in SUBSET Nat
    OBVIOUS
  <2> HIDE DEF D
  <2> QED  BY <1>1, <2>1, MinOfNats
<1>3. m \in S
  BY <1>2
<1>4. ASSUME NEW x \in S PROVE m >= x
  <2>1. k - x \in Nat /\ k - (k - x) = x
    OBVIOUS
  <2>2. k - x \in D
    BY <2>1
  <2>3. Min(D) \in Nat /\ Min(D) <= k - x
    BY <1>2, <2>2
  <2> QED  BY <2>1, <2>3
<1> HIDE DEF m
<1>5. P!FF!Max(S) \in S /\ \A x \in S : P!FF!Max(S) >= x
  BY <1>3, <1>4 DEF P!FF!Max
<1> QED
  BY <1>5

\* Where free_pages inserts a page that is not on the list: behind those below it.
LEMMA InsertPlace ==
    ASSUME NEW s \in Seq(PageNos), s = ff_list, Ascending(s),
           NEW b \in PageNos, b \notin Elements(s)
    PROVE  /\ P!FF!InsertPos(b) \in 1 .. Len(s) + 1
           /\ \A i \in 1 .. P!FF!InsertPos(b) - 1 : s[i] < b
           /\ \A i \in P!FF!InsertPos(b) .. Len(s) : s[i] > b
<1> DEFINE above == {i \in DOMAIN s : s[i] > b}
           pos == IF above = {} THEN Len(s) + 1 ELSE Min(above)
<1>1. P!FF!InsertPos(b) = pos
  BY DEF P!FF!InsertPos, P!FF!Min, Min
<1>2. /\ Len(s) \in Nat /\ DOMAIN s = 1 .. Len(s) /\ b \in Int
      /\ \A i \in 1 .. Len(s) : s[i] \in Int /\ s[i] # b
  BY PageList DEF Elements, PageNos
<1>3. CASE above = {}
  <2>1. pos = Len(s) + 1
    BY <1>3
  <2>2. \A i \in 1 .. Len(s) : s[i] < b
    BY <1>2, <1>3
  <2> HIDE DEF pos
  <2> QED  BY <1>1, <1>2, <2>1, <2>2
<1>4. CASE above # {}
  <2>1. pos = Min(above)
    BY <1>4
  <2>2. above \in SUBSET Nat
    BY <1>2
  <2>3. pos \in above /\ \A i \in above : pos <= i
    <3> HIDE DEF above, pos
    <3> QED  BY <1>4, <2>1, <2>2, MinOfNats
  <2> HIDE DEF pos
  <2>4. pos \in 1 .. Len(s) /\ s[pos] > b
    BY <1>2, <2>3
  <2>5. ASSUME NEW i \in 1 .. pos - 1 PROVE s[i] < b
    <3>1. i \in 1 .. Len(s) /\ i < pos
      BY <1>2, <2>4
    <3>2. ~ (s[i] > b)
      <4> SUFFICES ASSUME s[i] > b PROVE FALSE
        OBVIOUS
      <4>1. i \in above
        BY <1>2, <3>1
      <4>2. pos <= i
        BY <2>3, <4>1
      <4> QED  BY <2>4, <3>1, <4>2
    <3> QED  BY <1>2, <3>1, <3>2
  <2>6. ASSUME NEW i \in pos .. Len(s) PROVE s[i] > b
    <3>1. i \in DOMAIN s /\ pos \in DOMAIN s /\ pos <= i
      BY <1>2, <2>4
    <3>2. pos < i => s[pos] < s[i]
      BY <3>1 DEF Ascending
    <3>3. s[i] \in Int /\ s[pos] \in Int
      BY <1>2, <3>1
    <3> QED  BY <1>2, <2>4, <3>1, <3>2, <3>3
  <2> QED  BY <1>1, <1>2, <2>4, <2>5, <2>6
<1> QED
  BY <1>3, <1>4

\* The neighbours of a run that is inserted behind the k-th page: the page right after the
\* run is on the list exactly if it is the next page, and the page right before it exactly
\* if it is the k-th.
LEMMA Neighbours ==
    ASSUME NEW s \in Seq(PageNos), Ascending(s),
           NEW b \in PageNos, NEW n \in Nat \ {0},
           PageRun(b, n) \subseteq PageNos \ Elements(s),
           NEW k \in Nat, k <= Len(s),
           \A i \in 1 .. k : s[i] < b,
           \A i \in k + 1 .. Len(s) : s[i] > b
    PROVE  /\ b + n \in Elements(s) <=> k < Len(s) /\ s[k + 1] = b + n
           /\ b - 1 \in Elements(s) <=> k > 0 /\ s[k] = b - 1
<1>1. /\ Len(s) \in Nat /\ DOMAIN s = 1 .. Len(s) /\ b \in Int
      /\ \A i \in 1 .. Len(s) : s[i] \in Int /\ s[i] \in Elements(s)
      /\ \A q \in PageRun(b, n) : q \notin Elements(s)
  BY PageList DEF Elements, PageNos
<1>2. \A q : q \in PageRun(b, n) <=> q \in Int /\ b <= q /\ q < b + n
  BY <1>1 DEF PageRun
<1>3. ASSUME b + n \in Elements(s) PROVE k < Len(s) /\ s[k + 1] = b + n
  <2>1. PICK j \in 1 .. Len(s) : s[j] = b + n
    BY <1>1, <1>3 DEF Elements
  <2>2. ~ (j <= k)
    <3> SUFFICES ASSUME j <= k PROVE FALSE
      OBVIOUS
    <3>1. s[j] < b
      BY <1>1
    <3> QED  BY <1>1, <2>1, <3>1
  <2>3. k + 1 \in 1 .. Len(s) /\ k + 1 <= j
    BY <1>1, <2>2
  <2>4. s[k + 1] > b /\ s[k + 1] \in Int /\ s[k + 1] \notin PageRun(b, n)
    BY <1>1, <2>3
  <2>5. b + n <= s[k + 1]
    <3> DEFINE x == s[k + 1]
    <3>1. x > b /\ x \in Int /\ x \notin PageRun(b, n)
      BY <2>4
    <3> HIDE DEF x
    <3>2. b + n <= x
      BY <1>1, <1>2, <3>1
    <3> QED  BY <3>2 DEF x
  <2>6. k + 1 < j => s[k + 1] < s[j]
    BY <1>1, <2>3 DEF Ascending
  <2> QED  BY <1>1, <2>1, <2>3, <2>4, <2>5, <2>6
<1>4. ASSUME b - 1 \in Elements(s) PROVE k > 0 /\ s[k] = b - 1
  <2>1. PICK j \in 1 .. Len(s) : s[j] = b - 1
    BY <1>1, <1>4 DEF Elements
  <2>2. j <= k
    <3> SUFFICES ASSUME k < j PROVE FALSE
      BY <1>1
    <3>1. s[j] > b
      BY <1>1
    <3> QED  BY <1>1, <2>1, <3>1
  <2>3. k \in 1 .. Len(s) /\ k > 0 /\ k \in 1 .. k
    BY <1>1, <2>2
  <2>4. s[k] < b /\ s[k] \in Int
    BY <1>1, <2>3
  <2>5. j < k => s[j] < s[k]
    BY <1>1, <2>3 DEF Ascending
  <2> QED  BY <1>1, <2>1, <2>2, <2>3, <2>4, <2>5
<1>5. ASSUME k < Len(s), s[k + 1] = b + n PROVE b + n \in Elements(s)
  <2>1. k + 1 \in 1 .. Len(s)
    BY <1>1, <1>5
  <2> QED  BY <1>1, <1>5, <2>1
<1>6. ASSUME k > 0, s[k] = b - 1 PROVE b - 1 \in Elements(s)
  <2>1. k \in 1 .. Len(s)
    BY <1>1, <1>6
  <2> QED  BY <1>1, <1>6, <2>1
<1> QED
  BY <1>3, <1>4, <1>5, <1>6

\* free_pages of the first-fit manager, for a block that was granted.
LEMMA FirstFitTakesBack ==
    ASSUME P!ConstantsFit, FirstFitInv, NEW b, NEW n, <<b, n>> \in owned, P!FF!Free(b, n),
           owned' = owned \ {<<b, n>>}, booted' = booted, pmm_manager' = pmm_manager
    PROVE  FirstFitInv' /\ Elements(ff_list') = Elements(ff_list) \cup PageRun(b, n)
<1> DEFINE s == ff_list
           F == Elements(s)
           L == Len(s)
           pos == P!FF!InsertPos(b)
           k == pos - 1
           bef == SubSeq(s, 1, pos - 1)
           aft == SubSeq(s, pos, L)
           r == P!FF!RunList(b, n)
<1>1. /\ s \in Seq(PageNos) /\ Ascending(s) /\ ff_count = L
      /\ ncount \in [PageNos -> Nat] /\ has_ncount = HeadsOf(F) /\ CountsRuns(F, ncount)
      /\ reserved \subseteq F /\ HeldOnce(F, owned) /\ ~ panicked
  BY DEF FirstFitInv
<1>2. F \in SUBSET PageNos /\ F \in SUBSET Nat /\ PageNos \in SUBSET Nat
  BY <1>1, PageList DEF Elements, PageNos
<1>3. /\ b \in PageNos /\ b \in Nat /\ n \in Nat \ {0}
      /\ PageRun(b, n) \subseteq PageNos \ F
  <2>1. b \in PageNos /\ n \in 1 .. NPages /\ PageRun(b, n) \subseteq PageNos \ F
    BY <1>1, <1>2, HeldBlock
  <2>2. NPages \in Nat
    BY DEF P!ConstantsFit
  <2> QED  BY <1>2, <2>1, <2>2
<1>4. b \in PageRun(b, n) /\ b \notin F /\ b \notin reserved
  <2>1. b \in PageRun(b, n)
    BY <1>3 DEF PageRun
  <2> QED  BY <1>1, <1>3, <2>1
<1>5. /\ pos \in 1 .. L + 1
      /\ \A i \in 1 .. pos - 1 : s[i] < b
      /\ \A i \in pos .. L : s[i] > b
  BY <1>1, <1>3, <1>4, InsertPlace
<1>6. /\ L \in Nat /\ DOMAIN s = 1 .. L
      /\ \A i \in 1 .. L : s[i] \in Int /\ s[i] \in F
  BY <1>1, PageList DEF Elements
<1>7. k \in Nat /\ k <= L /\ pos = k + 1 /\ pos \in Nat \ {0}
  BY <1>5, <1>6
<1>8. /\ b + n \in F <=> k < L /\ s[k + 1] = b + n
      /\ b - 1 \in F <=> k > 0 /\ s[k] = b - 1
  <2>1. \A i \in k + 1 .. L : s[i] > b
    BY <1>5, <1>7
  <2>2. \A i \in 1 .. k : s[i] < b
    BY <1>5
  <2> HIDE DEF k, pos, s
  <2> QED  BY <1>1, <1>3, <1>7, <2>1, <2>2, Neighbours
<1>9. bef \in Seq(PageNos) /\ Len(bef) = k /\ DOMAIN bef = 1 .. k /\ \A i \in 1 .. k : bef[i] = s[i]
  <2>1. /\ bef \in Seq(PageNos) /\ Len(bef) = k - 1 + 1 /\ DOMAIN bef = 1 .. k - 1 + 1
        /\ \A i \in 1 .. k - 1 + 1 : bef[i] = s[1 + i - 1]
    <3>1. 1 \in Nat \ {0} /\ k \in Nat /\ k <= Len(s) /\ 1 <= k + 1
      BY <1>7
    <3> HIDE DEF s, pos
    <3> QED  BY <1>1, <3>1, PieceOfList
  <2>2. k - 1 + 1 = k
    BY <1>7
  <2>3. ASSUME NEW i \in 1 .. k PROVE bef[i] = s[i]
    <3>1. i \in 1 .. k - 1 + 1 /\ 1 + i - 1 = i
      BY <1>7
    <3> HIDE DEF bef, k
    <3> QED  BY <2>1, <3>1
  <2> HIDE DEF bef, k
  <2> QED  BY <2>1, <2>2, <2>3
<1>10. aft # <<>> <=> k < L
  <2>1. aft \in Seq(PageNos) /\ Len(aft) = L - pos + 1
    <3>1. L \in Nat /\ L <= Len(s) /\ pos \in Nat \ {0} /\ pos <= L + 1
      BY <1>6, <1>7
    <3> HIDE DEF s, pos
    <3> QED  BY <1>1, <3>1, PieceOfList
  <2>2. aft = <<>> <=> Len(aft) = 0
    <3> HIDE DEF aft
    <3> QED  BY <2>1
  <2>3. L - pos + 1 = 0 <=> ~ (k < L)
    BY <1>6, <1>7
  <2> HIDE DEF aft, k, L, pos
  <2> QED  BY <2>1, <2>2, <2>3
<1>11. k < L => Head(aft) = s[k + 1]
  <2> SUFFICES ASSUME k < L PROVE Head(aft) = s[k + 1]
    OBVIOUS
  <2>1. /\ aft \in Seq(PageNos)
        /\ \A i \in 1 .. L - pos + 1 : aft[i] = s[pos + i - 1]
    <3>1. L \in Nat /\ L <= Len(s) /\ pos \in Nat \ {0} /\ pos <= L + 1
      BY <1>6, <1>7
    <3> HIDE DEF s, pos
    <3> QED  BY <1>1, <3>1, PieceOfList
  <2>2. 1 \in 1 .. L - pos + 1 /\ pos + 1 - 1 = k + 1
    BY <1>6, <1>7
  <2>3. aft[1] = s[k + 1]
    BY <2>1, <2>2
  <2>4. Head(aft) = aft[1]
    BY <1>10, <2>1
  <2> QED  BY <2>3, <2>4
<1> DEFINE joinsNext == aft # <<>> /\ Head(aft) = b + n
           count == IF joinsNext THEN n + ncount[Head(aft)] ELSE n
           flags == (has_ncount \cup {b}) \ (IF joinsNext THEN {Head(aft)} ELSE {})
           counts == [p \in P!FF!Pages |-> CASE p = b -> count
                                             [] joinsNext /\ p = Head(aft) -> 0
                                             [] OTHER -> ncount[p]]
           heads == {i \in DOMAIN bef : bef[i] \in flags}
           joinsPrev == bef # <<>> /\ P!FF!Last(bef) = b - 1 /\ heads # {}
<1>12. /\ ff_list' = bef \o r \o aft
       /\ has_ncount' = IF joinsPrev THEN flags \ {b} ELSE flags
       /\ ncount' = IF joinsPrev
                    THEN [counts EXCEPT ![bef[P!FF!Max(heads)]] = @ + count, ![b] = 0]
                    ELSE counts
       /\ ff_count' = ff_count + n
       /\ panicked' = panicked /\ reserved' = reserved
  BY <1>4 DEF P!FF!Free
<1>13. joinsNext <=> b + n \in F
  <2> HIDE DEF aft, s, L, k
  <2> QED  BY <1>8, <1>10, <1>11
<1>14. b + n \in F => Head(aft) = b + n
  BY <1>13
<1> HIDE DEF bef, aft, s, L, k, pos, r
<1>15. /\ count = n + IF b + n \in F THEN ncount[b + n] ELSE 0
       /\ flags = (has_ncount \cup {b}) \ (IF b + n \in F THEN {b + n} ELSE {})
       /\ counts = [p \in PageNos |-> IF p = b THEN count
                                      ELSE IF p = b + n /\ b + n \in F THEN 0 ELSE ncount[p]]
  <2>1. count = n + IF b + n \in F THEN ncount[b + n] ELSE 0
    BY <1>3, <1>13, <1>14
  <2>2. flags = (has_ncount \cup {b}) \ (IF b + n \in F THEN {b + n} ELSE {})
    BY <1>13, <1>14
  <2>3. \A p : joinsNext /\ p = Head(aft) <=> p = b + n /\ b + n \in F
    BY <1>13, <1>14
  <2> HIDE DEF joinsNext, count
  <2>4. ASSUME NEW p
        PROVE  (CASE p = b -> count
                  [] joinsNext /\ p = Head(aft) -> 0
                  [] OTHER -> ncount[p])
               = IF p = b THEN count ELSE IF p = b + n /\ b + n \in F THEN 0 ELSE ncount[p]
    <3>1. p = b => ~ (p = b + n /\ b + n \in F)
      BY <1>3
    <3>2. joinsNext /\ p = Head(aft) <=> p = b + n /\ b + n \in F
      BY <2>3
    <3> HIDE DEF F
    <3> QED  BY <3>1, <3>2
  <2>5. counts = [p \in PageNos |-> IF p = b THEN count
                                    ELSE IF p = b + n /\ b + n \in F THEN 0 ELSE ncount[p]]
    BY <2>4, Zenon DEF P!FF!Pages, PageNos
  <2> QED  BY <2>1, <2>2, <2>5 DEF count
<1> HIDE DEF joinsNext, count, flags, counts
<1>16. heads = {i \in 1 .. k : s[i] \in HeadsOf(F)}
  <2>1. ASSUME NEW i \in 1 .. k PROVE bef[i] \in flags <=> s[i] \in HeadsOf(F)
    <3>1. bef[i] = s[i] /\ s[i] < b
      BY <1>5, <1>9 DEF k
    <3>2. i \in 1 .. L
      BY <1>6, <1>7
    <3>3. s[i] \in Int
      BY <1>6, <3>2
    <3>4. s[i] # b /\ s[i] # b + n
      BY <1>3, <3>1, <3>3
    <3> QED  BY <1>1, <1>15, <3>1, <3>4
  <2> QED  BY <1>9, <2>1
<1> HIDE DEF heads
<1>17. b - 1 \in F => heads # {} /\ bef # <<>> /\ P!FF!Last(bef) = b - 1
  <2> SUFFICES ASSUME b - 1 \in F PROVE heads # {} /\ bef # <<>> /\ P!FF!Last(bef) = b - 1
    OBVIOUS
  <2>1. k > 0 /\ s[k] = b - 1
    BY <1>8
  <2>2. PICK h \in HeadsOf(F) : -1 < h /\ h <= b - 1
    <3>1. -1 \in Int /\ -1 \notin F /\ -1 < b - 1
      BY <1>2, <1>3
    <3> HIDE DEF F
    <3> QED  BY <1>2, <3>1, HeadBetween
  <2>3. PICK i \in 1 .. L : h = s[i]
    BY <1>6 DEF HeadsOf, Elements
  <2>4. i <= k
    <3> SUFFICES ASSUME k < i PROVE FALSE
      BY <1>6, <1>7
    <3>1. i \in pos .. L
      BY <1>6, <1>7
    <3>2. s[i] > b /\ s[i] \in Int
      BY <1>5, <1>6, <3>1
    <3> QED  BY <1>3, <2>2, <2>3, <3>2
  <2>5. i \in heads
    BY <1>7, <1>16, <2>3, <2>4
  <2>6. bef # <<>> /\ k \in 1 .. k
    BY <1>7, <1>9, <2>1
  <2>7. P!FF!Last(bef) = bef[k]
    BY <1>9 DEF P!FF!Last
  <2> QED  BY <1>9, <2>1, <2>5, <2>6, <2>7
<1>18. joinsPrev <=> b - 1 \in F
  <2>1. ASSUME joinsPrev PROVE b - 1 \in F
    <3>1. k > 0
      BY <1>7, <1>9, <2>1
    <3>2. P!FF!Last(bef) = bef[k] /\ k \in 1 .. k
      BY <1>7, <1>9, <3>1 DEF P!FF!Last
    <3> QED  BY <1>8, <1>9, <2>1, <3>1, <3>2
  <2> QED  BY <1>17, <2>1
<1> DEFINE m == P!FF!Max(heads)
           g == IF b - 1 \in F THEN s[m] ELSE b
<1>19. b - 1 \in F => m \in 1 .. k /\ bef[m] = g /\ g \in HeadsOf(F) /\ g < b /\ g + ncount[g] = b
  <2> SUFFICES ASSUME b - 1 \in F
               PROVE  m \in 1 .. k /\ bef[m] = g /\ g \in HeadsOf(F) /\ g < b /\ g + ncount[g] = b
    OBVIOUS
  <2>1. m \in heads /\ \A x \in heads : x <= m
    <3>1. heads \in SUBSET (1 .. k) /\ heads # {}
      BY <1>16, <1>17
    <3> QED  BY <1>7, <3>1, MaxOfNats
  <2> HIDE DEF m
  <2>2. m \in 1 .. k /\ s[m] \in HeadsOf(F) /\ m \in Nat
    BY <1>7, <1>16, <2>1
  <2>3. bef[m] = s[m] /\ s[m] < b /\ m \in 1 .. L
    <3>1. m \in 1 .. L
      BY <1>6, <1>7, <2>2
    <3> QED  BY <1>5, <1>9, <2>2, <3>1 DEF k
  <2>4. ASSUME NEW h \in HeadsOf(F), h < b PROVE h <= s[m]
    <3>1. PICK i \in 1 .. L : h = s[i]
      BY <1>6 DEF HeadsOf, Elements
    <3>2. i <= k
      <4> SUFFICES ASSUME k < i PROVE FALSE
        BY <1>6, <1>7
      <4>1. i \in pos .. L
        BY <1>6, <1>7
      <4>2. s[i] > b /\ s[i] \in Int
        BY <1>5, <1>6, <4>1
      <4> QED  BY <1>3, <2>4, <3>1, <4>2
    <3>3. i \in heads
      BY <1>7, <1>16, <3>1, <3>2
    <3>4. i <= m
      BY <2>1, <3>3
    <3>5. i < m => s[i] < s[m]
      BY <1>1, <1>6, <2>3 DEF Ascending
    <3>6. s[i] \in Int /\ s[m] \in Int
      BY <1>6, <2>3
    <3> QED  BY <2>2, <3>1, <3>4, <3>5, <3>6
  <2>5. s[m] + ncount[s[m]] = b
    <3> DEFINE x == s[m]
               c == ncount
    <3>1. x \in HeadsOf(F) /\ x < b /\ \A h \in HeadsOf(F) : h < b => h <= x
      BY <2>2, <2>3, <2>4
    <3>2. CountsRuns(F, c)
      BY <1>1
    <3> HIDE DEF x, c, F
    <3>3. x + c[x] = b
      BY <1>2, <1>3, <1>4, <3>1, <3>2, RunBefore
    <3> QED  BY <3>3 DEF x, c
  <2> QED  BY <2>2, <2>3, <2>5
<1> HIDE DEF m
<1>20. g \in PageNos /\ g \in Nat
  <2>1. b - 1 \in F => g \in F
    BY <1>19 DEF HeadsOf
  <2> QED  BY <1>2, <1>3, <2>1
<1>21. /\ has_ncount' = (HeadsOf(F) \cup IF b - 1 \in F THEN {} ELSE {b}) \ {b + n}
       /\ ncount' = IF b - 1 \in F THEN [counts EXCEPT ![g] = @ + count, ![b] = 0] ELSE counts
  <2> HIDE DEF joinsPrev
  <2>1. b \notin HeadsOf(F) /\ (b + n \notin F => b + n \notin HeadsOf(F))
    BY <1>4 DEF HeadsOf
  <2>2. b # b + n
    BY <1>3
  <2> HIDE DEF F
  <2>3. has_ncount' = (HeadsOf(F) \cup IF b - 1 \in F THEN {} ELSE {b}) \ {b + n}
    BY <1>1, <1>12, <1>15, <1>18, <2>1, <2>2
  <2>4. ncount' = IF b - 1 \in F THEN [counts EXCEPT ![g] = @ + count, ![b] = 0] ELSE counts
    <3>1. b - 1 \in F => bef[P!FF!Max(heads)] = g
      BY <1>19 DEF m
    <3> HIDE DEF g
    <3> QED  BY <1>12, <1>18, <3>1
  <2> QED  BY <2>3, <2>4
<1>22. count \in Nat
  <2>1. b + n \in F => ncount[b + n] \in Nat
    BY <1>1, <1>2
  <2> HIDE DEF F
  <2> QED  BY <1>3, <1>15, <2>1
<1>23. counts \in [PageNos -> Nat]
  BY <1>1, <1>15, <1>22
<1>24. ncount' \in [PageNos -> Nat]
  <2> HIDE DEF F, g
  <2>1. counts[g] + count \in Nat
    BY <1>20, <1>22, <1>23
  <2> QED  BY <1>3, <1>20, <1>21, <1>23, <2>1
<1>25. CountsJoined(F, ncount, ncount', b, n, g)
  <2>1. ncount'[g] = IF b - 1 \in F THEN ncount[g] + count ELSE count
    <3>1. CASE b - 1 \in F
      <4>1. g # b /\ g # b + n
        BY <1>3, <1>19, <1>20, <3>1
      <4>2. counts[g] = ncount[g]
        BY <1>15, <1>20, <4>1
      <4> HIDE DEF F, g
      <4> QED  BY <1>20, <1>21, <1>23, <3>1, <4>1, <4>2
    <3>2. CASE b - 1 \notin F
      <4>1. g = b /\ counts[b] = count
        BY <1>3, <1>15, <3>2
      <4> HIDE DEF F, g
      <4> QED  BY <1>21, <3>2, <4>1
    <3> QED  BY <3>1, <3>2
  <2>2. ASSUME NEW q \in F, q # g, q # b + n PROVE ncount'[q] = ncount[q]
    <3>1. q # b /\ q \in PageNos
      BY <1>2, <1>4
    <3>2. counts[q] = ncount[q]
      BY <1>15, <2>2, <3>1
    <3> HIDE DEF F, g
    <3> QED  BY <1>21, <1>23, <2>2, <3>1, <3>2
  <2> HIDE DEF F, g
  <2>3. ncount'[g] = IF b - 1 \in F
                     THEN ncount[g] + (n + IF b + n \in F THEN ncount[b + n] ELSE 0)
                     ELSE n + IF b + n \in F THEN ncount[b + n] ELSE 0
    BY <1>15, <2>1
  <2> QED  BY <2>2, <2>3 DEF CountsJoined
<1>26. /\ HeadsOf(F \cup PageRun(b, n))
            = (HeadsOf(F) \cup IF b - 1 \in F THEN {} ELSE {b}) \ {b + n}
       /\ CountsRuns(F \cup PageRun(b, n), ncount')
  <2> DEFINE c == ncount
             e == ncount'
  <2>1. CountsRuns(F, c) /\ CountsJoined(F, c, e, b, n, g)
    BY <1>1, <1>25
  <2>2. /\ g \in Nat /\ (b - 1 \in F => g \in HeadsOf(F) /\ g + c[g] = b)
        /\ (b - 1 \notin F => g = b)
    BY <1>19, <1>20
  <2>3. PageRun(b, n) \cap F = {}
    BY <1>3
  <2> HIDE DEF F, g, c, e
  <2>4. /\ HeadsOf(F \cup PageRun(b, n))
              = (HeadsOf(F) \cup IF b - 1 \in F THEN {} ELSE {b}) \ {b + n}
        /\ \A d : CountsJoined(F, c, d, b, n, g) => CountsRuns(F \cup PageRun(b, n), d)
    BY <1>2, <1>3, <2>1, <2>2, <2>3, JoinRuns
  <2> QED  BY <2>1, <2>4 DEF e
<1>27. /\ ff_list' \in Seq(PageNos) /\ Ascending(ff_list')
       /\ Elements(ff_list') = F \cup PageRun(b, n) /\ Len(ff_list') = L + n
  <2> DEFINE t == ff_list'
  <2>1. t = SubSeq(s, 1, pos - 1) \o r \o SubSeq(s, pos, Len(s))
    BY <1>12 DEF bef, aft, L
  <2>2. r = [i \in 1 .. n |-> b + i - 1]
    BY DEF r, P!FF!RunList
  <2>3. /\ s \in Seq(PageNos) /\ Ascending(s) /\ b \in PageNos /\ n \in Nat \ {0}
        /\ PageRun(b, n) \subseteq PageNos \ Elements(s)
        /\ pos \in 1 .. Len(s) + 1
        /\ \A i \in 1 .. pos - 1 : s[i] < b
        /\ \A i \in pos .. Len(s) : s[i] > b
    BY <1>1, <1>3, <1>5 DEF L
  <2> HIDE DEF t
  <2>4. t \in Seq(PageNos) /\ Spliced(s, t, b, n, pos - 1)
    BY <2>1, <2>2, <2>3, InsertRun
  <2>5. pos - 1 \in Nat /\ pos - 1 <= Len(s)
    BY <1>7 DEF k, L
  <2>6. Ascending(t) /\ Elements(t) = Elements(s) \cup PageRun(b, n) /\ Len(t) = Len(s) + n
    BY <2>3, <2>4, <2>5, InsertedRun
  <2> QED  BY <2>4, <2>6 DEF t, L
<1>28. HeldOnce(F \cup PageRun(b, n), owned')
  BY <1>1, <1>2, HeldReturned
<1>29. booted' \in BOOLEAN /\ booted'
  <2>1. F # PageNos
    BY <1>3, <1>4
  <2> QED  BY <2>1 DEF FirstFitInv, s
<1>30. FirstFitInv'
  <2>1. has_ncount' = HeadsOf(Elements(ff_list')) /\ CountsRuns(Elements(ff_list'), ncount')
    BY <1>21, <1>26, <1>27
  <2>2. reserved' \subseteq Elements(ff_list') /\ HeldOnce(Elements(ff_list'), owned')
    BY <1>1, <1>12, <1>27, <1>28
  <2>3. ff_count' = Len(ff_list')
    BY <1>1, <1>12, <1>27
  <2>4. pmm_manager' = "first_fit" /\ ~ panicked'
    BY <1>1, <1>12 DEF FirstFitInv
  <2> QED  BY <1>24, <1>27, <1>29, <2>1, <2>2, <2>3, <2>4 DEF FirstFitInv
<1> QED
  BY <1>27, <1>30 DEF s

\* The kernel is built with the first-fit manager (pmm.c:29), and asks it for one page at
\* a time once it has booted (do_fork, map).
KernelRequests == "first_fit" \in Managers /\ PageSizes["first_fit"] \subseteq {0, 1}

\* With every page free, the first block is all of them.
LEMMA FreshList ==
    ASSUME P!ConstantsFit, FirstFitInv, Elements(ff_list) = PageNos
    PROVE  ff_list # <<>> /\ ncount[ff_list[1]] = NPages /\ Len(ff_list) = NPages
<1> DEFINE s == ff_list
           p == s[1]
<1>1. NPages \in Nat \ {0} /\ 0 \in PageNos /\ \A q : q \in PageNos <=> q \in Int /\ 0 <= q /\ q < NPages
  BY DEF P!ConstantsFit, PageNos
<1>2. /\ s \in Seq(PageNos) /\ Ascending(s) /\ Elements(s) = PageNos
      /\ CountsRuns(PageNos, ncount)
  BY DEF FirstFitInv
<1> HIDE DEF s
<1>3. /\ Len(s) \in Nat /\ DOMAIN s = 1 .. Len(s)
      /\ \A i \in 1 .. Len(s) : s[i] \in PageNos /\ s[i] \in Int
  BY <1>2, PageList
<1>4. s # <<>>
  <2>1. PICK i \in 1 .. Len(s) : s[i] = 0
    BY <1>1, <1>2, <1>3 DEF Elements
  <2> QED  BY <1>2, <1>3, <2>1
<1>5. p = 0
  <2>1. p \in PageNos /\ \A q \in PageNos : p <= q
    BY <1>2, <1>4, FirstIsLeast
  <2> QED  BY <1>1, <2>1
<1> HIDE DEF p
<1>6. 0 \in HeadsOf(PageNos)
  BY <1>1 DEF HeadsOf
<1>7. /\ ncount[0] \in Nat \ {0} /\ PageRun(0, ncount[0]) \subseteq PageNos
      /\ 0 + ncount[0] \notin PageNos
  BY <1>2, <1>6 DEF CountsRuns
<1>8. ncount[0] = NPages
  <2> DEFINE c == ncount[0]
  <2>1. c \in Nat \ {0} /\ c \notin PageNos
    BY <1>7
  <2>2. c - 1 \in PageRun(0, c)
    BY <2>1 DEF PageRun
  <2>3. c - 1 \in PageNos
    BY <1>7, <2>2
  <2> HIDE DEF c
  <2>4. c = NPages
    BY <1>1, <2>1, <2>3
  <2> QED  BY <2>4 DEF c
<1>9. \A i \in 1 .. NPages : i <= Len(s) /\ s[i] = i - 1
  <2>1. PageRun(p, NPages) \subseteq Elements(s)
    BY <1>1, <1>2, <1>5 DEF PageRun
  <2>2. \A i \in 1 .. NPages : i <= Len(s) /\ s[i] = p + i - 1
    BY <1>1, <1>2, <1>4, <2>1, FirstRun DEF p
  <2> QED  BY <1>1, <1>5, <2>2
<1>10. Len(s) = NPages
  <2>1. NPages <= Len(s) /\ s[NPages] = NPages - 1
    BY <1>1, <1>9
  <2>2. ~ (NPages < Len(s))
    <3> SUFFICES ASSUME NPages < Len(s) PROVE FALSE
      OBVIOUS
    <3>1. s[NPages] < s[Len(s)] /\ s[Len(s)] \in PageNos
      BY <1>1, <1>2, <1>3 DEF Ascending
    <3> QED  BY <1>1, <2>1, <3>1
  <2>3. NPages \in Nat /\ Len(s) \in Nat
    BY <1>1, <1>3
  <2> QED  BY <2>1, <2>2, <2>3
<1> QED
  BY <1>4, <1>5, <1>8, <1>10 DEF s, p

LEMMA FirstFitStarts ==
    ASSUME P!ConstantsFit, P!Init, pmm_manager = "first_fit"
    PROVE  FirstFitInv
<1>1. NPages \in Nat \ {0} /\ \A q : q \in PageNos <=> q \in Int /\ 0 <= q /\ q < NPages
  BY DEF P!ConstantsFit, PageNos
<1>2. /\ ff_list = [i \in 1 .. NPages |-> 0 + i - 1]
      /\ ncount = [p \in PageNos |-> IF p = 0 THEN NPages ELSE 0]
      /\ has_ncount = {0} /\ reserved = PageNos /\ ff_count = NPages
      /\ owned = {} /\ booted = FALSE /\ panicked = FALSE
  BY DEF P!Init, P!FF!Init, P!FF!RunList, P!FF!Pages, PageNos
<1>3. ff_list \in Seq(PageNos) /\ Len(ff_list) = NPages /\ DOMAIN ff_list = 1 .. NPages
  <2>1. \A i \in 1 .. NPages : 0 + i - 1 \in PageNos
    BY <1>1
  <2> QED  BY <1>1, <1>2, <2>1, IsASeq
<1>4. Ascending(ff_list)
  BY <1>1, <1>2 DEF Ascending
<1>5. Elements(ff_list) = PageNos
  <2>1. ASSUME NEW q \in PageNos PROVE q \in Elements(ff_list)
    <3>1. q + 1 \in 1 .. NPages /\ 0 + (q + 1) - 1 = q
      BY <1>1
    <3>2. ff_list[q + 1] = q
      BY <1>2, <3>1
    <3> QED  BY <1>3, <3>1, <3>2 DEF Elements
  <2>2. ASSUME NEW q \in Elements(ff_list) PROVE q \in PageNos
    BY <1>3 DEF Elements
  <2> QED  BY <2>1, <2>2
<1>6. HeadsOf(PageNos) = {0}
  BY <1>1 DEF HeadsOf
<1>7. CountsRuns(PageNos, ncount)
  <2>1. ncount[0] = NPages
    BY <1>1, <1>2
  <2>2. PageRun(0, NPages) \subseteq PageNos /\ 0 + NPages \notin PageNos
    BY <1>1 DEF PageRun
  <2> QED  BY <1>1, <1>6, <2>1, <2>2 DEF CountsRuns
<1>8. ncount \in [PageNos -> Nat]
  BY <1>1, <1>2
<1>9. HeldOnce(PageNos, owned)
  BY <1>2 DEF HeldOnce
<1> QED
  BY <1>2, <1>3, <1>4, <1>5, <1>6, <1>7, <1>8, <1>9 DEF FirstFitInv

\* A request of the kernel.
KernelAsks(n) == n \in Nat /\ (Elements(ff_list) = PageNos \/ n \in {0, 1})

\* The first block holds what the kernel asks for, when enough pages are free.
LEMMA FirstBlockFits ==
    ASSUME P!ConstantsFit, FirstFitInv, NEW n, KernelAsks(n), n > 0,
           n <= ff_count, ff_list # <<>>
    PROVE  n \in Nat \ {0} /\ n <= ncount[ff_list[1]]
<1>1. n \in Nat \ {0}
  BY DEF KernelAsks
<1>2. CASE Elements(ff_list) = PageNos
  <2>1. ncount[ff_list[1]] = NPages /\ Len(ff_list) = NPages /\ ff_count = Len(ff_list)
    BY <1>2, FreshList DEF FirstFitInv
  <2> QED  BY <1>1, <2>1
<1>3. CASE n \in {0, 1}
  <2> DEFINE F == Elements(ff_list)
             p == ff_list[1]
  <2>1. /\ ff_list \in Seq(PageNos) /\ Ascending(ff_list) /\ CountsRuns(F, ncount)
    BY DEF FirstFitInv
  <2>2. p \in F /\ \A q \in F : p <= q
    BY <2>1, FirstIsLeast
  <2>3. F \subseteq Int
    BY <2>1, PageList DEF Elements
  <2>4. p \in HeadsOf(F)
    <3> HIDE DEF F, p
    <3>1. p \in Int
      BY <2>2, <2>3
    <3>2. p - 1 \notin F
      BY <2>2, <3>1
    <3> QED  BY <2>2, <3>2 DEF HeadsOf
  <2>5. ncount[p] \in Nat \ {0}
    BY <2>1, <2>4 DEF CountsRuns
  <2> QED  BY <1>1, <1>3, <2>5
<1> QED
  BY <1>2, <1>3 DEF KernelAsks

\* What an allocation does to the free pages and to the blocks that are held, as module
\* PageAllocator tells it.
LEMMA FirstFitAllocates ==
    ASSUME P!ConstantsFit, FirstFitInv, NEW n, KernelAsks(n), P!AllocPages(n), booted' = TRUE
    PROVE  FirstFitInv' /\ (P!PA!Grant(n) \/ P!PA!Refuse(n))
<1>1. /\ pmm_manager = "first_fit" /\ pmm_manager' = "first_fit"
      /\ P!FF!Alloc(n)
      /\ owned' = IF ret' = NoPage THEN owned ELSE owned \cup {<<ret', n>>}
  BY DEF P!AllocPages, P!Installed, FirstFitInv
<1>2. /\ P!Free = Elements(ff_list) /\ P!Free' = Elements(ff_list')
      /\ P!Installed("first_fit") /\ P!Installed("first_fit")'
  BY <1>1 DEF P!Free, P!Installed, Elements
<1>3. P!Installed("first_fit") = TRUE /\ P!Installed("first_fit")' = TRUE
  BY <1>2
<1>4. CASE P!FF!AllocRefused(n)
  <2>1. /\ n = 0 \/ n > ff_count \/ ff_list = <<>>
        /\ ret' = NoPage
        /\ UNCHANGED <<ff_list, ncount, has_ncount, reserved, ff_count, panicked>>
    BY <1>4 DEF P!FF!AllocRefused
  <2>2. owned' = owned
    BY <1>1, <2>1
  <2>3. FirstFitInv'
    BY <1>1, <2>1, <2>2 DEF FirstFitInv
  <2>4. n = 0 \/ ~ P!PA!Available(n)
    <3>1. CASE ff_list = <<>>
      <4>1. Elements(ff_list) = {}
        BY <3>1 DEF Elements
      <4> QED  BY <1>2, <4>1 DEF P!PA!Available
    <3>2. CASE n > ff_count /\ n # 0 /\ Elements(ff_list) = PageNos
      <4>1. ff_count = NPages /\ NPages \in Nat /\ n \in Nat
        BY <3>2, FreshList DEF FirstFitInv, P!ConstantsFit, KernelAsks
      <4>2. n .. NPages = {}
        BY <3>2, <4>1
      <4> QED  BY <4>2 DEF P!PA!Available
    <3>3. CASE n > ff_count /\ n # 0 /\ n \in {0, 1}
      <4>1. ff_count = Len(ff_list) /\ Len(ff_list) \in Nat /\ ff_list \in Seq(PageNos)
        BY DEF FirstFitInv
      <4>2. ff_list = <<>>
        BY <3>3, <4>1
      <4> QED  BY <3>1, <4>2
    <3> QED  BY <2>1, <3>1, <3>2, <3>3 DEF KernelAsks
  <2>5. P!PA!Refuse(n)
    BY <1>2, <1>3, <2>1, <2>2, <2>4 DEF P!PA!Refuse
  <2> QED  BY <2>3, <2>5
<1>5. CASE P!FF!AllocFirst(n)
  <2>1. n > 0 /\ n <= ff_count /\ ff_list # <<>> /\ ret' = Head(ff_list)
    BY <1>5 DEF P!FF!AllocFirst
  <2>2. n \in Nat \ {0} /\ n <= ncount[ff_list[1]]
    BY <2>1, FirstBlockFits
  <2>3. ret' # NoPage
    <3>1. ff_list \in Seq(PageNos) /\ NoPage \notin PageNos
      BY DEF FirstFitInv, P!ConstantsFit, PageNos
    <3>2. Head(ff_list) \in PageNos
      BY <2>1, <3>1, HeadTailProperties
    <3> QED  BY <2>1, <3>1, <3>2
  <2>4. owned' = owned \cup {<<ret', n>>}
    BY <1>1, <2>3
  <2>5. /\ FirstFitInv'
        /\ ret' \in Elements(ff_list) /\ PageRun(ret', n) \subseteq Elements(ff_list)
        /\ Elements(ff_list') = Elements(ff_list) \ PageRun(ret', n)
    BY <1>1, <1>5, <2>1, <2>2, <2>4, FirstFitGrants
  <2>6. P!PA!Grant(n)
    BY <1>2, <1>3, <2>1, <2>4, <2>5 DEF P!PA!Grant, P!PA!Run, PageRun
  <2> QED  BY <2>5, <2>6
<1> QED
  BY <1>1, <1>4, <1>5 DEF P!FF!Alloc

\* The same of a block that is freed.
LEMMA FirstFitFrees ==
    ASSUME P!ConstantsFit, FirstFitInv, NEW x \in owned, P!FreePages(x[1], x[2]), booted' = booted
    PROVE  FirstFitInv' /\ P!PA!Free(x[1], x[2])
<1> DEFINE b == x[1]
           n == x[2]
<1>1. <<b, n>> \in owned /\ x = <<b, n>>
  <2>1. x \in PageNos \X (1 .. NPages)
    BY DEF FirstFitInv, HeldOnce
  <2>2. x = <<b, n>>
    BY <2>1
  <2> QED  BY <2>2
<1>2. /\ pmm_manager = "first_fit" /\ pmm_manager' = pmm_manager
      /\ P!FF!Free(b, n) /\ owned' = owned \ {<<b, n>>}
  BY DEF P!FreePages, P!Installed, FirstFitInv
<1> HIDE DEF b, n
<1>3. FirstFitInv' /\ Elements(ff_list') = Elements(ff_list) \cup PageRun(b, n)
  BY <1>1, <1>2, FirstFitTakesBack
<1>4. /\ P!Free = Elements(ff_list) /\ P!Free' = Elements(ff_list')
      /\ P!Installed("first_fit") /\ P!Installed("first_fit")'
  BY <1>2 DEF P!Free, P!Installed, Elements
<1>5. P!Installed("first_fit") = TRUE /\ P!Installed("first_fit")' = TRUE
  BY <1>4
<1>6. ret' = ret
  BY <1>2 DEF P!FF!Free
<1>7. P!PA!Free(b, n)
  BY <1>1, <1>2, <1>3, <1>4, <1>5, <1>6 DEF P!PA!Free, P!PA!Run, PageRun
<1> QED
  BY <1>3, <1>7 DEF b, n

\* Every step keeps the invariant, and is a step of the page allocator.
LEMMA FirstFitStep ==
    ASSUME P!ConstantsFit, KernelRequests, FirstFitInv, [P!Next]_(P!vars)
    PROVE  FirstFitInv' /\ [P!PA!Next]_(P!PA!vars)
<1> DEFINE Requests == BootSizes \cup UNION {PageSizes[m] : m \in Managers}
<1>1. CASE P!BootAlloc
  <2>1. PICK n \in BootSizes : P!AllocPages(n)
    BY <1>1 DEF P!BootAlloc
  <2>2. n \in Nat
    BY DEF P!ConstantsFit
  <2>3. KernelAsks(n) /\ booted' = TRUE
    BY <1>1, <2>2 DEF P!BootAlloc, FirstFitInv, KernelAsks
  <2>4. FirstFitInv' /\ (P!PA!Grant(n) \/ P!PA!Refuse(n))
    BY <2>1, <2>3, FirstFitAllocates
  <2> QED  BY <2>4 DEF P!PA!Next
<1>2. CASE P!LaterAlloc
  <2>1. PICK n \in PageSizes[pmm_manager] : P!AllocPages(n)
    BY <1>2 DEF P!LaterAlloc
  <2>2. n \in {0, 1} /\ n \in Requests
    BY <2>1 DEF FirstFitInv, KernelRequests
  <2>3. KernelAsks(n)
    BY <2>2 DEF KernelAsks
  <2>4. booted' = TRUE
    BY <1>2 DEF P!LaterAlloc, FirstFitInv
  <2>5. FirstFitInv' /\ (P!PA!Grant(n) \/ P!PA!Refuse(n))
    BY <2>1, <2>3, <2>4, FirstFitAllocates
  <2> QED  BY <2>2, <2>5 DEF P!PA!Next
<1>3. CASE P!LaterFree
  <2>1. PICK x \in owned : P!FreePages(x[1], x[2])
    BY <1>3 DEF P!LaterFree
  <2>2. booted' = booted
    BY <1>3 DEF P!LaterFree
  <2>3. FirstFitInv' /\ P!PA!Free(x[1], x[2])
    BY <2>1, <2>2, FirstFitFrees
  <2> QED  BY <2>3 DEF P!PA!Next
<1>4. CASE UNCHANGED P!vars
  <2>1. /\ pmm_manager' = pmm_manager /\ owned' = owned /\ ret' = ret /\ booted' = booted
        /\ panicked' = panicked
        /\ ff_list' = ff_list /\ ncount' = ncount /\ has_ncount' = has_ncount
        /\ reserved' = reserved /\ ff_count' = ff_count
    BY <1>4 DEF P!vars, P!ff_vars
  <2>2. FirstFitInv'
    BY <2>1 DEF FirstFitInv
  <2>3. /\ P!Free' = P!Free
        /\ P!Installed("first_fit") /\ P!Installed("first_fit")'
    BY <2>1 DEF P!Free, P!Installed, FirstFitInv
  <2>4. UNCHANGED P!PA!vars
    BY <2>1, <2>3 DEF P!PA!vars
  <2> QED  BY <2>2, <2>4
<1> QED
  BY <1>1, <1>2, <1>3, <1>4 DEF P!Next

\* FirstFitInv is an invariant of the kernel's page manager: of the list of free pages,
\* the counts and flags of its blocks, and the blocks that callers hold.
THEOREM FirstFitInvariant ==
    ASSUME KernelRequests
    PROVE  P!Spec /\ pmm_manager = "first_fit" => []FirstFitInv
<1>1. P!ConstantsFit
  BY PartsAssumption
<1>2. P!Init /\ pmm_manager = "first_fit" => FirstFitInv
  BY <1>1, FirstFitStarts
<1>3. FirstFitInv /\ [P!Next]_(P!vars) => FirstFitInv'
  BY <1>1, FirstFitStep
<1> QED
  BY <1>2, <1>3, PTL DEF P!Spec

\* The blocks of the first-fit manager are always the maximal runs of free pages
\* (ff_mm.c:93-106, 148-169): merging with both neighbours misses none, and cutting keeps
\* the counts of the rest right, in whatever order pages are asked for and freed.
THEOREM FirstFitMerges ==
    ASSUME KernelRequests
    PROVE  P!Spec /\ pmm_manager = "first_fit" => []BlocksMerged
<1>1. FirstFitInv => BlocksMerged
  <2> SUFFICES ASSUME FirstFitInv PROVE BlocksMerged
    OBVIOUS
  <2> DEFINE F == Elements(ff_list)
             heads == {p \in F : p - 1 \notin F}
  <2>1. P!FF!ToSet(ff_list) = F
    BY DEF P!FF!ToSet, Elements
  <2>2. \A i, j \in DOMAIN ff_list : i < j => ff_list[i] < ff_list[j]
    BY DEF FirstFitInv, Ascending
  <2>3. has_ncount = heads
    BY DEF FirstFitInv, HeadsOf
  <2>4. ASSUME NEW h \in heads
        PROVE  ncount[h] = CHOOSE n \in 1 .. NPages : P!FF!Run(h, n) \subseteq F /\ h + n \notin F
    <3> DEFINE c == ncount[h]
               IsLength(n) == P!FF!Run(h, n) \subseteq F /\ h + n \notin F
    <3>1. ff_list \in Seq(PageNos) /\ CountsRuns(F, ncount)
      BY DEF FirstFitInv
    <3>2. F \subseteq PageNos /\ h \in F
      BY <3>1, PageList DEF Elements
    <3>3. c \in Nat \ {0} /\ PageRun(h, c) \subseteq F /\ h + c \notin F
      BY <3>1 DEF CountsRuns, HeadsOf
    <3> HIDE DEF F, c
    <3>4. NPages \in Nat /\ h \in Int /\ 0 <= h
      BY <3>2, PartsAssumption DEF PageNos, P!ConstantsFit
    <3>5. c \in 1 .. NPages
      <4>1. h + c - 1 \in PageRun(h, c)
        BY <3>3, <3>4 DEF PageRun
      <4>2. h + c - 1 \in PageNos
        BY <3>2, <3>3, <4>1
      <4> QED  BY <3>3, <3>4, <4>2 DEF PageNos
    <3>6. IsLength(c)
      BY <3>3 DEF P!FF!Run, PageRun
    <3>7. ASSUME NEW n \in 1 .. NPages, IsLength(n) PROVE n = c
      <4>1. n \in Nat /\ c \in Nat /\ h \in Int
        BY <3>4, <3>5
      <4>2. ~ (n < c)
        <5> SUFFICES ASSUME n < c PROVE FALSE
          OBVIOUS
        <5>1. h + n \in PageRun(h, c)
          BY <3>4, <3>7, <4>1 DEF PageRun
        <5> QED  BY <3>3, <3>7, <5>1
      <4>3. ~ (c < n)
        <5> SUFFICES ASSUME c < n PROVE FALSE
          OBVIOUS
        <5>1. h + c \in P!FF!Run(h, n)
          BY <3>3, <3>4, <4>1 DEF P!FF!Run
        <5> QED  BY <3>3, <3>7, <5>1
      <4> QED  BY <4>1, <4>2, <4>3
    <3> HIDE DEF IsLength
    <3>8. c = CHOOSE n \in 1 .. NPages : IsLength(n)
      BY <3>5, <3>6, <3>7
    <3> QED  BY <3>8 DEF c, IsLength, F
  <2>5. P!FF!BlocksAreMaximalRuns
    BY <2>1, <2>2, <2>3, <2>4 DEF P!FF!BlocksAreMaximalRuns
  <2>6. ~ P!Installed("buddy")
    BY DEF P!Installed, FirstFitInv
  <2> QED  BY <2>5, <2>6 DEF BlocksMerged, P!BlocksMerged
<1> QED
  BY <1>1, FirstFitInvariant, PTL

\* Every page is free or in one block some caller holds, and phy_page_now_count, which
\* ff_alloc_pages trusts before it looks at the list, is the number of pages on the list.
THEOREM FirstFitAccounts ==
    ASSUME KernelRequests
    PROVE  P!Spec /\ pmm_manager = "first_fit" => []PagesAccounted
<1>1. FirstFitInv => PagesAccounted
  <2> SUFFICES ASSUME FirstFitInv PROVE PagesAccounted
    OBVIOUS
  <2>1. P!Installed("first_fit") /\ ~ P!Installed("buddy")
    BY DEF P!Installed, FirstFitInv
  <2>2. P!Free = Elements(ff_list)
    BY <2>1 DEF P!Free, Elements
  <2>3. HeldOnce(Elements(ff_list), owned) /\ ff_count = Len(ff_list)
    BY DEF FirstFitInv
  <2>4. ASSUME NEW p \in 0 .. NPages - 1
        PROVE  LET holding == {x \in owned : p \in P!Run(x[1], x[2])}
               IN  IF p \in P!Free THEN holding = {} ELSE \E x \in owned : holding = {x}
    <3> DEFINE holding == {x \in owned : p \in PageRun(x[1], x[2])}
    <3>1. p \in P!Free => holding = {}
      BY <2>2, <2>3 DEF HeldOnce
    <3>2. p \notin P!Free => \E x \in owned : holding = {x}
      <4> SUFFICES ASSUME p \notin P!Free PROVE \E x \in owned : holding = {x}
        OBVIOUS
      <4>1. PICK x \in owned : p \in PageRun(x[1], x[2])
        BY <2>2, <2>3 DEF HeldOnce, PageNos
      <4>2. ASSUME NEW y \in owned, p \in PageRun(y[1], y[2]) PROVE y = x
        BY <2>3, <4>1, <4>2 DEF HeldOnce
      <4>3. holding = {x}
        BY <4>1, <4>2
      <4> QED  BY <4>3
    <3>3. holding = {x \in owned : p \in P!Run(x[1], x[2])}
      BY DEF P!Run, PageRun
    <3> HIDE DEF holding
    <3> QED  BY <3>1, <3>2, <3>3
  <2> QED  BY <2>1, <2>3, <2>4 DEF PagesAccounted, P!PagesAccounted
<1> QED
  BY <1>1, FirstFitInvariant, PTL

\* The assertion of ff_free_pages (ff_mm.c:127) never fails: no page a caller holds still
\* has PG_RESERVED set, which free does not set again.
THEOREM FirstFitAccepts ==
    ASSUME KernelRequests
    PROVE  P!Spec /\ pmm_manager = "first_fit" => []FreeAccepted
<1>1. FirstFitInv => FreeAccepted
  BY DEF FirstFitInv, FreeAccepted, P!FreeAccepted
<1> QED
  BY <1>1, FirstFitInvariant, PTL

\* The first-fit manager is the page allocator its callers expect: it grants pages that
\* were free, to one caller, and refuses only what no aligned block of free pages holds.
THEOREM FirstFitIsAllocator ==
    ASSUME KernelRequests
    PROVE  P!Spec /\ pmm_manager = "first_fit" => ImplementsPageAllocator
<1>1. P!ConstantsFit
  BY PartsAssumption
<1>2. P!Init /\ pmm_manager = "first_fit" => P!PA!Init
  <2> SUFFICES ASSUME P!Init, pmm_manager = "first_fit" PROVE P!PA!Init
    OBVIOUS
  <2>1. P!Installed("first_fit")
    BY DEF P!Installed
  <2>2. FirstFitInv /\ booted = FALSE /\ owned = {} /\ ret = NoPage
    BY <1>1, FirstFitStarts DEF P!Init
  <2>3. P!Free = 0 .. NPages - 1
    BY <2>1, <2>2 DEF P!Free, FirstFitInv, Elements, PageNos
  <2> QED  BY <2>1, <2>2, <2>3 DEF P!PA!Init
<1>3. FirstFitInv /\ [P!Next]_(P!vars) => [P!PA!Next]_(P!PA!vars)
  BY <1>1, FirstFitStep
<1> QED
  BY <1>2, <1>3, FirstFitInvariant, PTL
     DEF P!Spec, P!PA!Spec, ImplementsPageAllocator, P!ImplementsPageAllocator

=============================================================================
