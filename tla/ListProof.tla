----------------------------- MODULE ListProof -----------------------------
(***************************************************************************)
(* The lists of List are sequences, for any number of heads and elements.  *)
(* The two directions agree: Inv is inductive as it stands once the loose  *)
(* nodes are kept apart, and one lemma shows for each kind of surgery that *)
(* it is preserved.  RingsInv adds that the pointers of every head in use  *)
(* are a ring, namely the sequence its traversal meets (RingOf, ListsAre). *)
(* Each function is then shown to make of those rings what Lists makes of  *)
(* its sequences, along one of the two directions, for Inv gives the other.*)
(*                                                                         *)
(* No induction over the sequences is needed.  That a node is at one place *)
(* of one list, and that the loop of list_for_each ends, follow from the   *)
(* least place, or the least number of turns, for which it would fail.     *)
(***************************************************************************)
EXTENDS List, SequenceTheorems, FiniteSetTheorems, FunctionTheorems, WellFoundedInduction,
        TLAPS

Inv == TypeInv /\ DirectionsAgree

\* Putting a detached node between two neighbours keeps the directions inverse.
LEMMA AddKeeps ==
    ASSUME Inv, NEW new \in Nodes, NEW before \in Nodes \ loose, NEW after \in Nodes \ loose,
           Detached(new), next[before] = after, new # before, new # after,
           AddBetween(new, before, after)
    PROVE  Inv'
BY DEF Inv, TypeInv, DirectionsAgree, Detached, list_empty, AddBetween

\* Taking an entry out keeps them inverse, whether or not it points to itself after.
LEMMA DeleteKeeps ==
    ASSUME Inv, NEW entry \in Nodes, list_del(entry) \/ list_del_init(entry)
    PROVE  Inv'
<1>1. CASE list_del(entry)
  BY <1>1 DEF Inv, TypeInv, DirectionsAgree, list_del
<1>2. CASE list_del_init(entry)
  BY <1>2 DEF Inv, TypeInv, DirectionsAgree, list_del_init
<1> QED  BY <1>1, <1>2

\* Putting a node in the place of another keeps them inverse.
LEMMA ReplaceKeeps ==
    ASSUME Inv, NEW old \in Nodes, NEW new \in Nodes, old # new,
           list_replace(old, new) \/ list_replace_init(old, new)
    PROVE  Inv'
<1>1. CASE list_replace(old, new)
  BY <1>1 DEF Inv, TypeInv, DirectionsAgree, list_replace, Replace, Detached, list_empty
<1>2. CASE list_replace_init(old, new)
  BY <1>2 DEF Inv, TypeInv, DirectionsAgree, list_replace_init, Detached, list_empty
<1> QED  BY <1>1, <1>2

\* Moving an entry from one place to another keeps them inverse.
LEMMA MoveKeeps ==
    ASSUME Inv, NEW entry \in Nodes, NEW at \in Nodes \ loose,
           list_move(entry, at) \/ list_move_tail(entry, at)
    PROVE  Inv'
<1>1. CASE list_move(entry, at)
  BY <1>1 DEF Inv, TypeInv, DirectionsAgree, list_move
<1>2. CASE list_move_tail(entry, at)
  BY <1>2 DEF Inv, TypeInv, DirectionsAgree, list_move_tail
<1> QED  BY <1>1, <1>2

\* Cutting a ring in two keeps them inverse.
LEMMA CutKeeps ==
    ASSUME Inv, NEW list \in Nodes, NEW head \in Nodes \ loose, NEW entry \in Nodes \ loose,
           Detached(list), list # head, list # entry, entry # head,
           CutAt(list, head, entry)
    PROVE  Inv'
BY DEF Inv, TypeInv, DirectionsAgree, CutAt, Detached, list_empty

\* Joining two rings keeps them inverse.
LEMMA SpliceKeeps ==
    ASSUME Inv, NEW list \in Nodes \ loose, NEW before \in Nodes \ loose,
           NEW after \in Nodes \ loose, next[before] = after,
           before # list, after # list, ~list_empty(list),
           Splice(list, before, after) \/ SpliceInit(list, before, after)
    PROVE  Inv'
<1>1. CASE Splice(list, before, after)
  BY <1>1 DEF Inv, TypeInv, DirectionsAgree, Splice, list_empty
<1>2. CASE SpliceInit(list, before, after)
  BY <1>2 DEF Inv, TypeInv, DirectionsAgree, SpliceInit, list_empty
<1> QED  BY <1>1, <1>2

LEMMA InitKeeps ==
    ASSUME Inv, NEW n \in Nodes, INIT_LIST_HEAD(n)
    PROVE  Inv'
BY DEF Inv, TypeInv, DirectionsAgree, INIT_LIST_HEAD, Detached, list_empty

-----------------------------------------------------------------------------
\* Two lists that are apart are not even neighbours.
LEMMA ApartNeighbours ==
    ASSUME Inv, NEW list \in Nodes, NEW at \in Nodes, Apart(list, at)
    PROVE  /\ list \in Nodes \ loose /\ at \in Nodes \ loose
           /\ at # list /\ next[at] # list /\ prev[at] # list
           /\ next[at] \in Nodes \ loose /\ prev[at] \in Nodes \ loose
           /\ next[prev[at]] = at
<1>1. /\ list \in Nodes \ loose /\ at \in Nodes \ loose
      /\ Ring(list) \cap Ring(at) = {}
  BY DEF Apart, Listed
<1>2. /\ at \in Ring(at) /\ next[at] \in Ring(at)
      /\ list \in Ring(list) /\ next[list] \in Ring(list)
  BY DEF Ring
<1>3. /\ next[at] \in Nodes \ loose /\ prev[at] \in Nodes \ loose
      /\ next[prev[at]] = at
  BY <1>1 DEF Inv, DirectionsAgree
<1>4. at # list /\ next[at] # list
  BY <1>1, <1>2
<1>5. prev[at] # list
  BY <1>1, <1>2, <1>3
<1> QED  BY <1>1, <1>3, <1>4, <1>5

\* A node in use has its neighbours in use.
LEMMA NeighboursInUse ==
    ASSUME Inv, NEW n \in Nodes \ loose
    PROVE  /\ next[n] \in Nodes \ loose /\ prev[next[n]] = n
           /\ prev[n] \in Nodes \ loose /\ next[prev[n]] = n
BY DEF Inv, DirectionsAgree

\* Inserting a detached node at a place in a list keeps the directions inverse.
\* The place can only be the node itself, or next to it, when it is a ring of
\* its own, which the assignments then leave as it is.
LEMMA InsertKeeps ==
    ASSUME Inv, NEW e \in Nodes, NEW at \in Nodes, list_add(e, at) \/ list_add_tail(e, at)
    PROVE  Inv'
<1>1. CASE list_add(e, at)
  <2>1. at \in Nodes \ loose /\ Detached(e) /\ AddBetween(e, at, next[at])
    BY <1>1 DEF list_add, Listed
  <2>2. CASE e = at \/ e = next[at]
    <3>1. at = e /\ next[e] = e /\ prev[e] = e
      BY <2>1, <2>2, NeighboursInUse DEF Detached, list_empty
    <3> QED  BY <2>1, <3>1 DEF Inv, TypeInv, DirectionsAgree, AddBetween
  <2>3. CASE e # at /\ e # next[at]
    BY <2>1, <2>3, NeighboursInUse, AddKeeps
  <2> QED  BY <2>2, <2>3
<1>2. CASE list_add_tail(e, at)
  <2>1. at \in Nodes \ loose /\ Detached(e) /\ AddBetween(e, prev[at], at)
    BY <1>2 DEF list_add_tail, Listed
  <2>2. CASE e = at \/ e = prev[at]
    <3>1. at = e /\ next[e] = e /\ prev[e] = e
      BY <2>1, <2>2, NeighboursInUse DEF Detached, list_empty
    <3> QED  BY <2>1, <3>1 DEF Inv, TypeInv, DirectionsAgree, AddBetween
  <2>3. CASE e # at /\ e # prev[at]
    BY <2>1, <2>3, NeighboursInUse, AddKeeps
  <2> QED  BY <2>2, <2>3
<1> QED  BY <1>1, <1>2

LEMMA ItemKeeps ==
    ASSUME Inv, NEW e \in Items, OfItem(e)
    PROVE  Inv'
<1> e \in Nodes
  BY DEF Nodes
<1>1. CASE INIT_LIST_HEAD(e)
  BY <1>1, InitKeeps
<1>2. CASE list_del(e) \/ list_del_init(e)
  BY <1>2, DeleteKeeps
<1>3. ASSUME NEW at \in Nodes, list_add(e, at) \/ list_add_tail(e, at)
      PROVE  Inv'
  BY <1>3, InsertKeeps
<1>4. ASSUME NEW at \in Nodes, list_move(e, at) \/ list_move_tail(e, at)
      PROVE  Inv'
  <2>1. at \in Nodes \ loose
    BY <1>4 DEF list_move, list_move_tail, Listed
  <2> QED  BY <1>4, <2>1, MoveKeeps
<1> QED  BY <1>1, <1>2, <1>3, <1>4 DEF OfItem

LEMMA HeadKeeps ==
    ASSUME Inv, NEW h \in Heads, OfHead(h)
    PROVE  Inv'
<1> h \in Nodes
  BY DEF Nodes
<1>1. CASE INIT_LIST_HEAD(h)
  BY <1>1, InitKeeps
<1>2. ASSUME NEW g \in Heads \ {h}, NEW e \in Nodes, list_cut_position(h, g, e)
      PROVE  Inv'
  <2>1. /\ g \in Nodes \ loose /\ e \in Nodes \ loose /\ e # h /\ Detached(h)
    BY <1>2 DEF list_cut_position, Nodes
  <2>2. CASE UNCHANGED vars
    BY <2>2 DEF vars, Inv, TypeInv, DirectionsAgree
  <2>3. CASE INIT_LIST_HEAD(h)
    BY <2>3, InitKeeps
  <2>4. CASE e # g /\ CutAt(h, g, e)
    BY <2>1, <2>4, CutKeeps
  <2> QED  BY <1>2, <2>2, <2>3, <2>4 DEF list_cut_position
<1>3. ASSUME NEW at \in Nodes,
             \/ list_splice(h, at) \/ list_splice_tail(h, at)
             \/ list_splice_init(h, at) \/ list_splice_tail_init(h, at)
      PROVE  Inv'
  <2>1. Apart(h, at)
    BY <1>3 DEF list_splice, list_splice_tail, list_splice_init, list_splice_tail_init
  <2>2. CASE UNCHANGED vars
    BY <2>2 DEF vars, Inv, TypeInv, DirectionsAgree
  <2>3. CASE /\ ~list_empty(h)
             /\ \/ Splice(h, at, next[at]) \/ SpliceInit(h, at, next[at])
                \/ Splice(h, prev[at], at) \/ SpliceInit(h, prev[at], at)
    BY <2>1, <2>3, ApartNeighbours, SpliceKeeps
  <2> QED  BY <1>3, <2>2, <2>3
           DEF list_splice, list_splice_tail, list_splice_init, list_splice_tail_init
<1> QED  BY <1>1, <1>2, <1>3 DEF OfHead

LEMMA ReplacingKeeps == Inv /\ Replacing => Inv'
<1> SUFFICES ASSUME Inv, Replacing
             PROVE  Inv'
  OBVIOUS
<1>1. PICK K \in {Heads, Items} : \E old \in K : \E new \in K \ {old} :
          list_replace(old, new) \/ list_replace_init(old, new)
  BY DEF Replacing
<1>2. PICK old \in K, new \in K :
          old # new /\ (list_replace(old, new) \/ list_replace_init(old, new))
  BY <1>1
<1>3. old \in Nodes /\ new \in Nodes
  BY <1>1, <1>2 DEF Nodes
<1> QED  BY <1>2, <1>3, ReplaceKeeps

-----------------------------------------------------------------------------
LEMMA InvStep == Inv /\ [Next]_vars => Inv'
<1> SUFFICES ASSUME Inv, [Next]_vars
             PROVE  Inv'
  OBVIOUS
<1>1. CASE \E e \in Items : OfItem(e)
  BY <1>1, ItemKeeps
<1>2. CASE \E h \in Heads : OfHead(h)
  BY <1>2, HeadKeeps
<1>3. CASE Replacing
  BY <1>3, ReplacingKeeps
<1>4. CASE UNCHANGED vars
  BY <1>4 DEF vars, Inv, TypeInv, DirectionsAgree
<1> QED  BY <1>1, <1>2, <1>3, <1>4 DEF Next

\* Whatever the callers do, the pointers of the nodes in use are each other's
\* inverse and lead to nodes in use.
THEOREM DirectionsAlwaysAgree == Spec => []DirectionsAgree
<1>1. Init => Inv
  BY DEF Init, Inv, TypeInv, DirectionsAgree, Nodes
<1>2. Inv => DirectionsAgree
  BY DEF Inv
<1> QED  BY <1>1, <1>2, InvStep, PTL DEF Spec

-----------------------------------------------------------------------------
(* Rings as sequences.                                                      *)

\* s is the list of head h along link, when the nodes in lo are not used: h and
\* then elements, each linked to the next and the last of them to h.
RingOf(link, lo, h, s) ==
    /\ s \in Seq(Nodes) /\ Len(s) >= 1 /\ s[1] = h
    /\ \A i \in 1 .. Len(s) : s[i] \notin lo
    /\ \A i \in 2 .. Len(s) : s[i] \in Items
    /\ \A i \in 1 .. Len(s) : link[s[i]] = IF i < Len(s) THEN s[i + 1] ELSE h

\* back leads from each node that is used to the one before it.
Undone(link, back, lo) == \A n \in Nodes \ lo : back[link[n]] = n

LEMMA LeastOfNats ==
    \A S \in SUBSET Nat : S # {} => \E m \in S : \A x \in S : m <= x
<1> SUFFICES ASSUME NEW S \in SUBSET Nat, S # {}
             PROVE  \E m \in S : \A x \in S : m <= x
  OBVIOUS
<1> DEFINE R == OpToRel(<, Nat)
<1>1. IsWellFoundedOn(R, Nat)
  BY NatLessThanWellFounded
<1>2. \A x, y \in Nat : x < y => <<x, y>> \in R
  BY DEF OpToRel
<1> HIDE DEF R
<1>3. PICK m \in S : \A y \in S : ~ (<<y, m>> \in R)
  BY <1>1, WFMin
<1>4. ASSUME NEW y \in S PROVE m <= y
  <2>1. y \in Nat /\ m \in Nat /\ ~ (y < m)
    BY <1>2, <1>3
  <2> QED  BY <2>1
<1> QED  BY <1>3, <1>4

LEMMA RingStep ==
    ASSUME NEW link, NEW lo, NEW h, NEW s, RingOf(link, lo, h, s)
    PROVE  \A i \in 2 .. Len(s) : /\ s[i - 1] \in Nodes \ lo /\ s[i] \in Items \ lo
                                  /\ link[s[i - 1]] = s[i]
<1> SUFFICES ASSUME NEW i \in 2 .. Len(s)
             PROVE  /\ s[i - 1] \in Nodes \ lo /\ s[i] \in Items \ lo
                    /\ link[s[i - 1]] = s[i]
  OBVIOUS
<1>1. /\ s \in Seq(Nodes) /\ Len(s) \in Nat
      /\ i - 1 \in 1 .. Len(s) /\ i \in 1 .. Len(s) /\ i - 1 < Len(s) /\ (i - 1) + 1 = i
  BY DEF RingOf
<1>2. link[s[i - 1]] = s[(i - 1) + 1]
  BY <1>1 DEF RingOf
<1>3. s[i - 1] \in Nodes
  BY <1>1
<1> QED  BY <1>1, <1>2, <1>3 DEF RingOf

\* A node is at one place of one list: two places lead back to the heads by the
\* same way.
LEMMA OnePlace ==
    ASSUME NEW link, NEW back, NEW lo, Undone(link, back, lo),
           NEW h \in Heads, NEW s, RingOf(link, lo, h, s),
           NEW g \in Heads, NEW t, RingOf(link, lo, g, t)
    PROVE  \A i \in 1 .. Len(s), j \in 1 .. Len(t) : s[i] = t[j] => i = j /\ h = g
<1> DEFINE Bad == {a \in 1 .. Len(s) : \E b \in 1 .. Len(t) : s[a] = t[b] /\ (a # b \/ h # g)}
<1>1. Len(s) \in Nat /\ Len(t) \in Nat
  BY DEF RingOf
<1>2. Bad = {}
  <2> SUFFICES ASSUME Bad # {} PROVE FALSE
    OBVIOUS
  <2>1. PICK a \in Bad : \A x \in Bad : a <= x
    <3>1. Bad \in SUBSET Nat
      BY <1>1
    <3> HIDE DEF Bad
    <3> QED  BY <3>1, LeastOfNats
  <2>2. PICK b \in 1 .. Len(t) : s[a] = t[b] /\ (a # b \/ h # g)
    BY <2>1
  <2>3. a # 1 /\ b # 1
    BY <2>2, <2>1, <1>1, ListAssumption DEF RingOf
  <2>4. a \in 2 .. Len(s) /\ b \in 2 .. Len(t)
    BY <2>1, <2>2, <2>3, <1>1
  <2>5. /\ link[s[a - 1]] = s[a] /\ s[a - 1] \in Nodes \ lo
        /\ link[t[b - 1]] = t[b] /\ t[b - 1] \in Nodes \ lo
    <3> HIDE DEF Bad
    <3>1. link[s[a - 1]] = s[a] /\ s[a - 1] \in Nodes \ lo
      BY <2>4, RingStep
    <3>2. link[t[b - 1]] = t[b] /\ t[b - 1] \in Nodes \ lo
      BY <2>4, RingStep
    <3> QED  BY <3>1, <3>2
  <2>7. s[a - 1] = t[b - 1]
    BY <2>2, <2>5 DEF Undone
  <2>8. a - 1 \in Bad
    <3>1. a - 1 \in 1 .. Len(s) /\ b - 1 \in 1 .. Len(t) /\ (a # b => a - 1 # b - 1)
      BY <2>4, <1>1
    <3> QED  BY <3>1, <2>2, <2>7
  <2>9. a \in Nat /\ ~ (a <= a - 1)
    BY <2>4
  <2> QED  BY <2>1, <2>8, <2>9
<1> QED  BY <1>2

\* A list has no more nodes than there are.
LEMMA RingBounded ==
    ASSUME NEW link, NEW back, NEW lo, Undone(link, back, lo),
           NEW h \in Heads, NEW s, RingOf(link, lo, h, s)
    PROVE  Cardinality(Nodes) \in Nat /\ Len(s) <= Cardinality(Nodes)
<1>1. Len(s) \in Nat /\ s \in [1 .. Len(s) -> Nodes]
  BY DEF RingOf
<1>2. s \in Injection(1 .. Len(s), Nodes)
  BY <1>1, OnePlace DEF Injection, IsInjective
<1>3. IsFiniteSet(Nodes)
  BY ListAssumption DEF Nodes
<1>4. Cardinality(1 .. Len(s)) <= Cardinality(Nodes)
  BY <1>2, <1>3, FS_Injection
<1>5. Cardinality(1 .. Len(s)) = Len(s)
  BY <1>1, FS_Interval
<1> QED  BY <1>3, <1>4, <1>5, FS_CardinalityType

-----------------------------------------------------------------------------
(* The traversal meets the list.                                            *)

\* The node after those met, and whether the loop ends there.
Coming(link, head, s) == IF s = <<>> THEN link[head] ELSE link[s[Len(s)]]
Ends(link, head, s) ==
    \/ Coming(link, head, s) = head \/ Coming(link, head, s) = Null
    \/ Len(s) > Cardinality(Nodes)
Turn(link, head, f, s) ==
    IF Ends(link, head, s) THEN s ELSE f[Append(s, Coming(link, head, s))]
Loop(link, head) == CHOOSE f : f = [s \in Seq(Nodes) |-> Turn(link, head, f, s)]

\* The loop of list_for_each is well defined, for it is not entered more often
\* than there are nodes: a function on long sequences extends to shorter ones.
LEMMA LoopDefined ==
    ASSUME NEW link \in [Nodes -> Nodes \cup {Null}], NEW head \in Nodes
    PROVE  \A s \in Seq(Nodes) : Loop(link, head)[s] = Turn(link, head, Loop(link, head), s)
<1> DEFINE N == Cardinality(Nodes)
           D(k) == {s \in Seq(Nodes) : Len(s) + k > N}
           Good(k) == \E f : f = [s \in D(k) |-> Turn(link, head, f, s)]
           Bad == {k \in 0 .. N + 1 : ~ Good(k)}
<1>1. N \in Nat
  BY ListAssumption, FS_CardinalityType DEF Nodes
<1> HIDE DEF N
<1>2. Bad = {}
  <2> SUFFICES ASSUME Bad # {} PROVE FALSE
    OBVIOUS
  <2>1. PICK k \in Bad : \A x \in Bad : k <= x
    <3>1. Bad \in SUBSET Nat
      BY <1>1
    <3> HIDE DEF Bad
    <3> QED  BY <3>1, LeastOfNats
  <2>2. k # 0
    <3> SUFFICES ASSUME k = 0 PROVE FALSE
      OBVIOUS
    <3> DEFINE f == [s \in D(0) |-> s]
    <3>1. \A s \in D(0) : Turn(link, head, f, s) = s
      BY <1>1 DEF Turn, Ends, N
    <3>2. f = [s \in D(0) |-> Turn(link, head, f, s)]
      BY <3>1
    <3> QED  BY <3>2, <2>1
  <2>3. k - 1 \in 0 .. N + 1 /\ k - 1 \notin Bad
    <3>1. k \in 0 .. N + 1
      BY <2>1
    <3>2. k - 1 \in 0 .. N + 1 /\ ~ (k <= k - 1)
      BY <3>1, <2>2, <1>1
    <3> HIDE DEF Bad
    <3> QED  BY <3>2, <2>1
  <2>4. PICK f : f = [s \in D(k - 1) |-> Turn(link, head, f, s)]
    BY <2>3
  <2> DEFINE f2 == [s \in D(k) |-> Turn(link, head, f, s)]
  <2>5. ASSUME NEW s \in D(k), ~ Ends(link, head, s)
        PROVE  Append(s, Coming(link, head, s)) \in D(k - 1)
    <3>1. Coming(link, head, s) \in Nodes
      BY <2>5 DEF Ends, Coming
    <3>2. /\ Append(s, Coming(link, head, s)) \in Seq(Nodes)
          /\ Len(Append(s, Coming(link, head, s))) = Len(s) + 1
      BY <3>1, AppendProperties
    <3> QED  BY <3>2, <2>1, <1>1
  <2>6. ASSUME NEW s \in D(k - 1) PROVE s \in D(k) /\ f2[s] = f[s]
    <3>1. s \in D(k)
      BY <2>1, <1>1
    <3> QED  BY <3>1, <2>4
  <2>7. ASSUME NEW s \in D(k) PROVE Turn(link, head, f, s) = Turn(link, head, f2, s)
    BY <2>5, <2>6 DEF Turn
  <2>8. f2 = [s \in D(k) |-> Turn(link, head, f2, s)]
    BY <2>7
  <2> HIDE DEF f2
  <2>9. Good(k)
    BY <2>8
  <2> QED  BY <2>9, <2>1
<1>3. D(N + 1) = Seq(Nodes)
  BY <1>1
<1>4. N + 1 \in 0 .. N + 1
  BY <1>1
<1>5. \E f : f = [s \in Seq(Nodes) |-> Turn(link, head, f, s)]
  <2>1. Good(N + 1)
    BY <1>2, <1>4
  <2> HIDE DEF D
  <2> QED  BY <2>1, <1>3
<1>6. Loop(link, head) = [s \in Seq(Nodes) |-> Turn(link, head, Loop(link, head), s)]
  BY <1>5 DEF Loop
<1> QED  BY <1>6

LEMMA VisitedIsLoop == \A link, head : Visited(link, head) = Loop(link, head)[<<>>]
BY DEF Visited, Loop, Turn, Ends, Coming

\* What list_for_each meets is the list behind its head.
LEMMA VisitedRing ==
    ASSUME NEW link \in [Nodes -> Nodes \cup {Null}], NEW back, NEW lo,
           Undone(link, back, lo), NEW h \in Heads, NEW s, RingOf(link, lo, h, s)
    PROVE  /\ Visited(link, h) = SubSeq(s, 2, Len(s))
           /\ <<h>> \o Visited(link, h) = s
<1> DEFINE W == Loop(link, h)
           n == Len(s)
           Met(k) == SubSeq(s, 2, k + 1)
           Bad == {k \in 0 .. n - 1 : W[<<>>] # W[Met(k)]}
<1>1. n \in Nat /\ n >= 1 /\ s \in Seq(Nodes) /\ s \in [1 .. n -> Nodes] /\ h \in Nodes
  BY DEF RingOf, Nodes
<1>2. n <= Cardinality(Nodes) /\ Cardinality(Nodes) \in Nat
  BY RingBounded
<1>3. \A t \in Seq(Nodes) : W[t] = Turn(link, h, W, t)
  BY <1>1, LoopDefined
<1> HIDE DEF W
<1>4. ASSUME NEW k \in 0 .. n - 1
      PROVE  /\ Met(k) \in Seq(Nodes) /\ Len(Met(k)) = k
             /\ \A i \in 1 .. k : Met(k)[i] = s[i + 1]
             /\ Coming(link, h, Met(k)) = link[s[k + 1]]
  <2>1. /\ Met(k) \in Seq(Nodes) /\ Len(Met(k)) = k
        /\ \A i \in 1 .. k : Met(k)[i] = s[i + 1]
    BY <1>1, SubSeqProperties
  <2>2. CASE k = 0
    BY <2>1, <2>2, <1>1 DEF Coming, RingOf
  <2>3. CASE k # 0
    BY <2>1, <2>3, <1>1 DEF Coming
  <2> QED  BY <2>1, <2>2, <2>3
<1>5. ASSUME NEW k \in 0 .. n - 1, k + 1 < n
      PROVE  W[Met(k)] = W[Met(k + 1)]
  <2>1. Coming(link, h, Met(k)) = s[k + 2] /\ s[k + 2] \in Items
    BY <1>4, <1>5, <1>1 DEF RingOf
  <2>2. ~ Ends(link, h, Met(k))
    BY <2>1, <1>1, <1>2, <1>4, <1>5, ListAssumption DEF Ends
  <2>3. Append(Met(k), s[k + 2]) = Met(k + 1)
    <3>1. /\ Append(Met(k), s[k + 2]) \in Seq(Nodes)
          /\ Len(Append(Met(k), s[k + 2])) = k + 1
          /\ \A i \in 1 .. k : Append(Met(k), s[k + 2])[i] = s[i + 1]
          /\ Append(Met(k), s[k + 2])[k + 1] = s[k + 2]
      BY <1>1, <1>4, <1>5, AppendProperties
    <3>2. /\ Met(k + 1) \in Seq(Nodes) /\ Len(Met(k + 1)) = k + 1
          /\ \A i \in 1 .. k + 1 : Met(k + 1)[i] = s[i + 1]
      BY <1>4, <1>5, <1>1
    <3> HIDE DEF Met
    <3> QED  BY <3>1, <3>2, SeqEqual
  <2>4. Met(k) \in Seq(Nodes)
    BY <1>4
  <2> HIDE DEF Met
  <2>5. W[Met(k)] = Turn(link, h, W, Met(k))
    BY <1>3, <2>4
  <2> QED  BY <2>5, <2>1, <2>2, <2>3 DEF Turn
<1>6. Bad = {}
  <2> SUFFICES ASSUME Bad # {} PROVE FALSE
    OBVIOUS
  <2>1. PICK k \in Bad : \A x \in Bad : k <= x
    <3>1. Bad \in SUBSET Nat
      BY <1>1
    <3> HIDE DEF Bad
    <3> QED  BY <3>1, LeastOfNats
  <2>2. k # 0
    <3>1. Met(0) = <<>>
      BY SubSeqEmpty
    <3> QED  BY <2>1, <3>1
  <2>3. k - 1 \in 0 .. n - 1 /\ k - 1 \notin Bad /\ (k - 1) + 1 = k /\ k < n
    <3>1. k \in 0 .. n - 1
      BY <2>1
    <3>2. k - 1 \in 0 .. n - 1 /\ ~ (k <= k - 1) /\ (k - 1) + 1 = k /\ k < n
      BY <3>1, <2>2, <1>1
    <3> HIDE DEF Bad
    <3> QED  BY <3>2, <2>1
  <2>4. W[Met(k - 1)] = W[Met((k - 1) + 1)]
    BY <2>3, <1>5
  <2> QED  BY <2>1, <2>3, <2>4
<1>7. n - 1 \in 0 .. n - 1
  BY <1>1
<1>8. W[Met(n - 1)] = Met(n - 1)
  <2>1. Coming(link, h, Met(n - 1)) = h
    BY <1>1, <1>4, <1>7 DEF RingOf
  <2> QED  BY <2>1, <1>3, <1>4, <1>7 DEF Turn, Ends
<1>9. Visited(link, h) = Met(n - 1)
  BY <1>6, <1>7, <1>8, VisitedIsLoop DEF W
<1>14. Visited(link, h) = SubSeq(s, 2, Len(s))
  BY <1>1, <1>9
<1>10. /\ Met(n - 1) \in Seq(Nodes) /\ Len(Met(n - 1)) = n - 1
       /\ \A i \in 1 .. n - 1 : Met(n - 1)[i] = s[i + 1]
  BY <1>4, <1>7
<1> HIDE DEF Met, n
<1> DEFINE u == <<h>> \o Met(n - 1)
<1>11. /\ u \in Seq(Nodes) /\ Len(u) = n
       /\ \A i \in 1 .. n : u[i] = IF i <= 1 THEN h ELSE Met(n - 1)[i - 1]
  BY <1>1, <1>10, ConcatProperties
<1>12. \A i \in 1 .. n : u[i] = s[i]
  BY <1>1, <1>10, <1>11 DEF RingOf
<1> HIDE DEF u
<1>13. u = s
  BY <1>1, <1>11, <1>12, SeqEqual DEF n
<1> QED  BY <1>9, <1>13, <1>14 DEF u

-----------------------------------------------------------------------------
(* What the functions do to one list.                                       *)

\* The sequence s with t inserted behind its place k.
Inserted(s, k, t) == SubSeq(s, 1, k) \o t \o SubSeq(s, k + 1, Len(s))

LEMMA InsertedElements ==
    ASSUME NEW S, NEW s \in Seq(S), NEW t \in Seq(S), NEW k \in 0 .. Len(s)
    PROVE  /\ Inserted(s, k, t) \in Seq(S)
           /\ Len(Inserted(s, k, t)) = Len(s) + Len(t)
           /\ \A i \in 1 .. Len(s) + Len(t) :
                 Inserted(s, k, t)[i] = IF i <= k THEN s[i]
                                        ELSE IF i <= k + Len(t) THEN t[i - k]
                                        ELSE s[i - Len(t)]
<1> DEFINE a == SubSeq(s, 1, k)
           b == SubSeq(s, k + 1, Len(s))
<1>1. Len(s) \in Nat /\ Len(t) \in Nat /\ k \in Nat /\ k <= Len(s)
  OBVIOUS
<1>2. /\ a \in Seq(S) /\ Len(a) = k
      /\ \A i \in 1 .. k : a[i] = s[i]
  BY <1>1, SubSeqProperties
<1>3. /\ b \in Seq(S) /\ Len(b) = Len(s) - k
      /\ \A i \in 1 .. Len(s) - k : b[i] = s[k + i]
  BY <1>1, SubSeqProperties
<1> HIDE DEF a, b
<1>4. /\ a \o t \in Seq(S) /\ Len(a \o t) = k + Len(t)
      /\ \A i \in 1 .. k + Len(t) : (a \o t)[i] = IF i <= k THEN a[i] ELSE t[i - k]
  BY <1>2, ConcatProperties
<1> DEFINE c == a \o t
<1>5. /\ c \in Seq(S) /\ Len(c) = k + Len(t)
      /\ \A i \in 1 .. k + Len(t) : c[i] = IF i <= k THEN a[i] ELSE t[i - k]
  BY <1>4
<1> HIDE DEF c
<1>6. /\ c \o b \in Seq(S) /\ Len(c \o b) = Len(s) + Len(t)
      /\ \A i \in 1 .. Len(s) + Len(t) :
            (c \o b)[i] = IF i <= k + Len(t) THEN c[i] ELSE b[i - (k + Len(t))]
  <2>1. /\ c \o b \in Seq(S) /\ Len(c \o b) = Len(c) + Len(b)
        /\ \A i \in 1 .. Len(c) + Len(b) :
              (c \o b)[i] = IF i <= Len(c) THEN c[i] ELSE b[i - Len(c)]
    BY <1>3, <1>5, ConcatProperties
  <2>2. Len(c) + Len(b) = Len(s) + Len(t)
    BY <1>1, <1>3, <1>5
  <2> QED  BY <2>1, <2>2, <1>5
<1>7. Inserted(s, k, t) = c \o b
  BY DEF Inserted, a, b, c
<1>8. ASSUME NEW i \in 1 .. Len(s) + Len(t)
      PROVE  (c \o b)[i] = IF i <= k THEN s[i]
                           ELSE IF i <= k + Len(t) THEN t[i - k]
                           ELSE s[i - Len(t)]
  <2>1. CASE i <= k + Len(t)
    BY <2>1, <1>1, <1>2, <1>5, <1>6
  <2>2. CASE ~ (i <= k + Len(t))
    <3>1. i - (k + Len(t)) \in 1 .. Len(s) - k /\ k + (i - (k + Len(t))) = i - Len(t)
      BY <2>2, <1>1
    <3>2. (c \o b)[i] = b[i - (k + Len(t))] /\ b[i - (k + Len(t))] = s[i - Len(t)]
      BY <2>2, <3>1, <1>3, <1>6
    <3>3. ~ (i <= k)
      BY <2>2, <1>1
    <3> QED  BY <2>2, <3>2, <3>3
  <2> QED  BY <2>1, <2>2
<1> QED  BY <1>6, <1>7, <1>8

\* Inserting nothing.
LEMMA InsertedNothing ==
    ASSUME NEW S, NEW s \in Seq(S), NEW k \in 0 .. Len(s)
    PROVE  Inserted(s, k, <<>>) = s
<1>1. <<>> \in Seq(S) /\ Len(<<>>) = 0 /\ Len(s) \in Nat
  OBVIOUS
<1> DEFINE t == <<>>
<1>3. t \in Seq(S) /\ Len(t) = 0
  BY <1>1
<1> HIDE DEF t
<1>4. /\ Inserted(s, k, t) \in Seq(S)
      /\ Len(Inserted(s, k, t)) = Len(s) + Len(t)
      /\ \A i \in 1 .. Len(s) + Len(t) :
            Inserted(s, k, t)[i] = IF i <= k THEN s[i]
                                   ELSE IF i <= k + Len(t) THEN t[i - k]
                                   ELSE s[i - Len(t)]
  <2>1. \A w \in Seq(S) : w = t =>
           /\ Inserted(s, k, w) \in Seq(S)
           /\ Len(Inserted(s, k, w)) = Len(s) + Len(w)
           /\ \A i \in 1 .. Len(s) + Len(w) :
                 Inserted(s, k, w)[i] = IF i <= k THEN s[i]
                                        ELSE IF i <= k + Len(w) THEN w[i - k]
                                        ELSE s[i - Len(w)]
    BY InsertedElements
  <2> QED  BY <1>3, <2>1
<1>2. /\ Inserted(s, k, t) \in Seq(S)
      /\ Len(Inserted(s, k, t)) = Len(s)
      /\ \A i \in 1 .. Len(s) : Inserted(s, k, t)[i] = s[i]
  BY <1>1, <1>3, <1>4
<1>5. Inserted(s, k, t) = s
  BY <1>1, <1>2, SeqEqual
<1> QED  BY <1>5 DEF t

\* The sequence s without its place k.
LEMMA RemovedElements ==
    ASSUME NEW S, NEW s \in Seq(S), NEW k \in 1 .. Len(s)
    PROVE  /\ Sequence!RemoveAt(s, k) \in Seq(S)
           /\ Len(Sequence!RemoveAt(s, k)) = Len(s) - 1
           /\ \A i \in 1 .. Len(s) - 1 :
                 Sequence!RemoveAt(s, k)[i] = IF i < k THEN s[i] ELSE s[i + 1]
<1> DEFINE a == SubSeq(s, 1, k - 1)
           b == SubSeq(s, k + 1, Len(s))
<1>1. Len(s) \in Nat /\ k \in Nat /\ 1 <= k /\ k <= Len(s)
  OBVIOUS
<1>2. /\ a \in Seq(S) /\ Len(a) = k - 1
      /\ \A i \in 1 .. k - 1 : a[i] = s[i]
  BY <1>1, SubSeqProperties
<1>3. /\ b \in Seq(S) /\ Len(b) = Len(s) - k
      /\ \A i \in 1 .. Len(s) - k : b[i] = s[k + i]
  BY <1>1, SubSeqProperties
<1>4. Sequence!RemoveAt(s, k) = a \o b
  BY DEF Sequence!RemoveAt
<1> HIDE DEF a, b
<1>5. /\ a \o b \in Seq(S) /\ Len(a \o b) = Len(s) - 1
      /\ \A i \in 1 .. Len(s) - 1 : (a \o b)[i] = IF i <= k - 1 THEN a[i] ELSE b[i - (k - 1)]
  <2>1. /\ a \o b \in Seq(S) /\ Len(a \o b) = Len(a) + Len(b)
        /\ \A i \in 1 .. Len(a) + Len(b) :
              (a \o b)[i] = IF i <= Len(a) THEN a[i] ELSE b[i - Len(a)]
    BY <1>2, <1>3, ConcatProperties
  <2>2. Len(a) + Len(b) = Len(s) - 1
    BY <1>1, <1>2, <1>3
  <2> QED  BY <2>1, <2>2, <1>2
<1>6. ASSUME NEW i \in 1 .. Len(s) - 1
      PROVE  (a \o b)[i] = IF i < k THEN s[i] ELSE s[i + 1]
  <2>1. CASE i < k
    BY <2>1, <1>1, <1>2, <1>5
  <2>2. CASE ~ (i < k)
    <3>1. i - (k - 1) \in 1 .. Len(s) - k /\ k + (i - (k - 1)) = i + 1 /\ ~ (i <= k - 1)
      BY <2>2, <1>1
    <3> QED  BY <2>2, <3>1, <1>1, <1>3, <1>5
  <2> QED  BY <2>1, <2>2
<1> QED  BY <1>4, <1>5, <1>6

-----------------------------------------------------------------------------
\* t is linked, and its last node to z.
Leads(link, t, z) ==
    \A i \in 1 .. Len(t) : link[t[i]] = IF i < Len(t) THEN t[i + 1] ELSE z

\* The nodes of s, but for places in K, are linked as before and are used.
Kept(link, link2, lo2, s, K) ==
    \A i \in (1 .. Len(s)) \ K : s[i] \notin lo2 /\ link2[s[i]] = link[s[i]]

LEMMA SameRing ==
    ASSUME NEW link, NEW link2, NEW lo, NEW lo2, NEW h, NEW s,
           RingOf(link, lo, h, s), Kept(link, link2, lo2, s, {})
    PROVE  RingOf(link2, lo2, h, s)
BY DEF RingOf, Kept

\* Elements join a list.
Joins(link, link2, lo2, s, k, t) ==
    /\ t \in Seq(Nodes) /\ Len(t) >= 1
    /\ \A i \in 1 .. Len(t) : t[i] \in Items /\ t[i] \notin lo2
    /\ Leads(link2, t, link[s[k]])
    /\ link2[s[k]] = t[1] /\ s[k] \notin lo2
    /\ Kept(link, link2, lo2, s, {k})

LEMMA JoinedRing ==
    ASSUME NEW link, NEW link2, NEW lo, NEW lo2, NEW h, NEW s, NEW t,
           RingOf(link, lo, h, s), NEW k \in 1 .. Len(s), Joins(link, link2, lo2, s, k, t)
    PROVE  RingOf(link2, lo2, h, Inserted(s, k, t))
<1> DEFINE u == Inserted(s, k, t)
           n == Len(s)
           m == Len(t)
<1>1. /\ s \in Seq(Nodes) /\ n \in Nat /\ n >= 1 /\ t \in Seq(Nodes) /\ m \in Nat /\ m >= 1
      /\ k \in Nat /\ 1 <= k /\ k <= n
  BY DEF RingOf, Joins
<1>2. /\ u \in Seq(Nodes) /\ Len(u) = n + m
      /\ \A i \in 1 .. n + m : u[i] = IF i <= k THEN s[i]
                                      ELSE IF i <= k + m THEN t[i - k] ELSE s[i - m]
  BY <1>1, InsertedElements
<1>3. /\ s[1] = h
      /\ \A i \in 2 .. n : s[i] \in Items
      /\ \A i \in 1 .. n : link[s[i]] = IF i < n THEN s[i + 1] ELSE h
  BY DEF RingOf
<1>4. /\ \A i \in 1 .. m : t[i] \in Items /\ t[i] \notin lo2
      /\ \A i \in 1 .. m : link2[t[i]] = IF i < m THEN t[i + 1] ELSE link[s[k]]
      /\ link2[s[k]] = t[1] /\ s[k] \notin lo2
      /\ \A i \in 1 .. n : i # k => s[i] \notin lo2 /\ link2[s[i]] = link[s[i]]
  BY <1>1 DEF Joins, Kept, Leads
<1> HIDE DEF u, n, m
<1>5. u[1] = h
  BY <1>1, <1>2, <1>3
<1>6. ASSUME NEW i \in 1 .. n + m
      PROVE  /\ u[i] \notin lo2
             /\ i >= 2 => u[i] \in Items
             /\ link2[u[i]] = IF i < n + m THEN u[i + 1] ELSE h
  <2>1. CASE i < k
    <3>1. /\ u[i] = s[i] /\ u[i + 1] = s[i + 1] /\ i < n + m /\ i < n /\ i # k
          /\ i \in 1 .. n /\ (i >= 2 => i \in 2 .. n)
      BY <2>1, <1>1, <1>2
    <3> QED  BY <3>1, <1>3, <1>4
  <2>2. CASE i = k
    <3>1. u[i] = s[k] /\ u[i + 1] = t[1] /\ i < n + m
      BY <2>2, <1>1, <1>2
    <3> QED  BY <2>2, <3>1, <1>1, <1>3, <1>4
  <2>3. CASE k < i /\ i < k + m
    <3>1. u[i] = t[i - k] /\ u[i + 1] = t[(i - k) + 1] /\ i < n + m
      BY <2>3, <1>1, <1>2
    <3>2. i - k \in 1 .. m /\ i - k < m
      BY <2>3, <1>1
    <3> QED  BY <3>1, <3>2, <1>4
  <2>4. CASE i = k + m
    <3>1. /\ u[i] = t[m] /\ m \in 1 .. m /\ link2[t[m]] = link[s[k]]
          /\ t[m] \in Items /\ t[m] \notin lo2
      BY <2>4, <1>1, <1>2, <1>4
    <3>2. CASE k < n
      <4>1. u[i + 1] = s[k + 1] /\ i < n + m
        BY <2>4, <3>2, <1>1, <1>2
      <4> QED  BY <3>1, <3>2, <4>1, <1>1, <1>3
    <3>3. CASE k = n
      BY <2>4, <3>1, <3>3, <1>1, <1>3
    <3> QED  BY <3>2, <3>3, <1>1
  <2>5. CASE k + m < i
    <3>1. i - m \in 2 .. n /\ i - m # k /\ u[i] = s[i - m]
      <4>1. i - m \in 2 .. n /\ i - m # k /\ ~ (i <= k) /\ ~ (i <= k + m)
        BY <2>5, <1>1
      <4> QED  BY <4>1, <1>2
    <3>2. CASE i < n + m
      <4>1. u[i + 1] = s[(i - m) + 1] /\ i - m < n
        BY <2>5, <3>2, <1>1, <1>2
      <4> QED  BY <3>1, <3>2, <4>1, <1>1, <1>3, <1>4
    <3>3. CASE i = n + m
      <4>1. i - m = n /\ n \in 1 .. n
        BY <3>3, <1>1
      <4> QED  BY <3>1, <3>3, <4>1, <1>1, <1>3, <1>4
    <3>4. i < n + m \/ i = n + m
      BY <1>1
    <3> QED  BY <3>2, <3>3, <3>4
  <2> QED  BY <2>1, <2>2, <2>3, <2>4, <2>5, <1>1
<1>7. RingOf(link2, lo2, h, u)
  <2>1. Len(u) = n + m /\ n + m >= 1 /\ (\A i \in 2 .. n + m : i \in 1 .. n + m /\ i >= 2)
    BY <1>1, <1>2
  <2>2. u \in Seq(Nodes) /\ u[1] = h
    BY <1>2, <1>5
  <2> QED  BY <1>6, <2>1, <2>2 DEF RingOf
<1> QED  BY <1>7 DEF u

\* An element leaves its list.
Leaves(link, link2, lo2, s, k) ==
    /\ link2[s[k - 1]] = link[s[k]] /\ s[k - 1] \notin lo2
    /\ Kept(link, link2, lo2, s, {k - 1, k})

LEMMA LeftRing ==
    ASSUME NEW link, NEW link2, NEW lo, NEW lo2, NEW h, NEW s,
           RingOf(link, lo, h, s), NEW k \in 2 .. Len(s), Leaves(link, link2, lo2, s, k)
    PROVE  RingOf(link2, lo2, h, Sequence!RemoveAt(s, k))
<1> DEFINE u == Sequence!RemoveAt(s, k)
           n == Len(s)
<1>1. s \in Seq(Nodes) /\ n \in Nat /\ k \in Nat /\ 2 <= k /\ k <= n /\ k \in 1 .. Len(s)
  BY DEF RingOf
<1>2. /\ u \in Seq(Nodes) /\ Len(u) = n - 1
      /\ \A i \in 1 .. n - 1 : u[i] = IF i < k THEN s[i] ELSE s[i + 1]
  BY <1>1, RemovedElements
<1>3. /\ s[1] = h
      /\ \A i \in 2 .. n : s[i] \in Items
      /\ \A i \in 1 .. n : link[s[i]] = IF i < n THEN s[i + 1] ELSE h
  BY DEF RingOf
<1>4. /\ link2[s[k - 1]] = link[s[k]] /\ s[k - 1] \notin lo2
      /\ \A i \in 1 .. n : i # k - 1 /\ i # k => s[i] \notin lo2 /\ link2[s[i]] = link[s[i]]
  BY <1>1 DEF Leaves, Kept
<1> HIDE DEF u, n
<1>5. u[1] = h
  BY <1>1, <1>2, <1>3
<1>6. ASSUME NEW i \in 1 .. n - 1
      PROVE  /\ u[i] \notin lo2
             /\ i >= 2 => u[i] \in Items
             /\ link2[u[i]] = IF i < n - 1 THEN u[i + 1] ELSE h
  <2>1. CASE i < k - 1
    <3>1. /\ u[i] = s[i] /\ u[i + 1] = s[i + 1] /\ i < n - 1 /\ i < n /\ i # k - 1 /\ i # k
          /\ i \in 1 .. n /\ (i >= 2 => i \in 2 .. n)
      BY <2>1, <1>1, <1>2
    <3> QED  BY <3>1, <1>3, <1>4
  <2>2. CASE i = k - 1
    <3>1. u[i] = s[k - 1] /\ i < k
      BY <2>2, <1>1, <1>2
    <3>2. CASE k < n
      <4>1. u[i + 1] = s[k + 1] /\ i < n - 1
        BY <2>2, <3>2, <1>1, <1>2
      <4> QED  BY <2>2, <3>1, <3>2, <4>1, <1>1, <1>3, <1>4
    <3>3. CASE k = n
      BY <2>2, <3>1, <3>3, <1>1, <1>3, <1>4
    <3> QED  BY <3>2, <3>3, <1>1
  <2>3. CASE k - 1 < i
    <3>1. i + 1 \in 2 .. n /\ i + 1 # k /\ i + 1 # k - 1 /\ u[i] = s[i + 1]
      BY <2>3, <1>1, <1>2
    <3>2. CASE i < n - 1
      <4>1. u[i + 1] = s[(i + 1) + 1] /\ i + 1 < n
        BY <2>3, <3>2, <1>1, <1>2
      <4> QED  BY <3>1, <3>2, <4>1, <1>1, <1>3, <1>4
    <3>3. CASE i = n - 1
      <4>1. i + 1 = n /\ n \in 1 .. n
        BY <3>3, <1>1
      <4> QED  BY <3>1, <3>3, <4>1, <1>1, <1>3, <1>4
    <3> QED  BY <3>2, <3>3, <1>1
  <2> QED  BY <2>1, <2>2, <2>3, <1>1
<1>7. RingOf(link2, lo2, h, u)
  <2>1. 1 .. n - 1 = 1 .. Len(u) /\ n - 1 >= 1
    BY <1>1, <1>2
  <2>2. \A i \in 2 .. Len(u) : i \in 1 .. n - 1 /\ i >= 2
    BY <1>1, <1>2
  <2> QED  BY <1>2, <1>5, <1>6, <2>1, <2>2 DEF RingOf
<1> QED  BY <1>7 DEF u

\* An element takes the place of another.
LEMMA RenamedRing ==
    ASSUME NEW link, NEW link2, NEW lo, NEW lo2, NEW h, NEW s, NEW new,
           RingOf(link, lo, h, s), NEW k \in 2 .. Len(s),
           \A i \in 1 .. Len(s) : s[i] = s[k] => i = k,
           new \in Items, new \notin lo2, link2[new] = link[s[k]],
           link2[s[k - 1]] = new, s[k - 1] \notin lo2,
           Kept(link, link2, lo2, s, {k - 1, k})
    PROVE  RingOf(link2, lo2, h, Sequence!Renamed(s, s[k], new))
<1> DEFINE u == Sequence!Renamed(s, s[k], new)
           n == Len(s)
<1>1. s \in Seq(Nodes) /\ n \in Nat /\ k \in Nat /\ 2 <= k /\ k <= n /\ DOMAIN s = 1 .. n
  BY DEF RingOf
<1>2. u = [i \in 1 .. n |-> IF i = k THEN new ELSE s[i]]
  BY <1>1 DEF Sequence!Renamed
<1>3. /\ s[1] = h
      /\ \A i \in 1 .. n : s[i] \in Nodes
      /\ \A i \in 2 .. n : s[i] \in Items
      /\ \A i \in 1 .. n : link[s[i]] = IF i < n THEN s[i + 1] ELSE h
  BY <1>1 DEF RingOf
<1>4. \A i \in 1 .. n : i # k - 1 /\ i # k => s[i] \notin lo2 /\ link2[s[i]] = link[s[i]]
  BY <1>1 DEF Kept
<1>5. new \in Nodes
  BY DEF Nodes
<1> HIDE DEF u, n
<1>6. u \in Seq(Nodes) /\ Len(u) = n
  BY <1>1, <1>2, <1>3, <1>5
<1>7. ASSUME NEW i \in 1 .. n
      PROVE  /\ u[i] \notin lo2
             /\ i >= 2 => u[i] \in Items
             /\ link2[u[i]] = IF i < n THEN u[i + 1] ELSE h
  <2>1. CASE i = k
    <3>1. u[i] = new /\ (i < n => u[i + 1] = s[k + 1])
      BY <2>1, <1>1, <1>2
    <3> QED  BY <2>1, <3>1, <1>1, <1>3
  <2>2. CASE i = k - 1
    <3>1. u[i] = s[k - 1] /\ i < n /\ u[i + 1] = new /\ i \in 1 .. n
      BY <2>2, <1>1, <1>2
    <3> QED  BY <2>2, <3>1, <1>1, <1>3
  <2>3. CASE i # k - 1 /\ i # k
    <3>1. u[i] = s[i] /\ (i < n => u[i + 1] = s[i + 1])
      BY <2>3, <1>1, <1>2
    <3> QED  BY <2>3, <3>1, <1>1, <1>3, <1>4
  <2> QED  BY <2>1, <2>2, <2>3
<1>8. u[1] = h /\ n >= 1
  BY <1>1, <1>2, <1>3
<1>9. RingOf(link2, lo2, h, u)
  BY <1>1, <1>6, <1>7, <1>8 DEF RingOf
<1> QED  BY <1>9 DEF u

\* A head followed by part of a sequence.
LEMMA HeadedElements ==
    ASSUME NEW s \in Seq(Nodes), NEW h \in Nodes, NEW m \in Nat, NEW n \in Nat,
           1 <= m, n <= Len(s), m <= n + 1
    PROVE  /\ <<h>> \o SubSeq(s, m, n) \in Seq(Nodes)
           /\ Len(<<h>> \o SubSeq(s, m, n)) = n - m + 2
           /\ \A i \in 1 .. n - m + 2 :
                 (<<h>> \o SubSeq(s, m, n))[i] = IF i = 1 THEN h ELSE s[m + i - 2]
<1> DEFINE a == <<h>>
           b == SubSeq(s, m, n)
<1>1. a \in Seq(Nodes) /\ Len(a) = 1 /\ a[1] = h
  OBVIOUS
<1>2. /\ b \in Seq(Nodes) /\ Len(b) = n - m + 1
      /\ \A i \in 1 .. n - m + 1 : b[i] = s[m + i - 1]
  BY SubSeqProperties
<1> HIDE DEF a, b
<1>3. /\ a \o b \in Seq(Nodes) /\ Len(a \o b) = Len(a) + Len(b)
      /\ \A i \in 1 .. Len(a) + Len(b) : (a \o b)[i] = IF i <= Len(a) THEN a[i] ELSE b[i - Len(a)]
  <2>1. a \in Seq(Nodes) /\ b \in Seq(Nodes)
    BY <1>1, <1>2
  <2> QED  BY <2>1, ConcatProperties
<1>4. Len(a) + Len(b) = n - m + 2
  BY <1>1, <1>2
<1>5. ASSUME NEW i \in 1 .. n - m + 2
      PROVE  (a \o b)[i] = IF i = 1 THEN h ELSE s[m + i - 2]
  <2>1. CASE i = 1
    BY <2>1, <1>1, <1>3, <1>4
  <2>2. CASE i # 1
    <3>1. i - 1 \in 1 .. n - m + 1 /\ m + (i - 1) - 1 = m + i - 2 /\ ~ (i <= 1)
      BY <2>2
    <3> QED  BY <2>2, <3>1, <1>1, <1>2, <1>3, <1>4
  <2> QED  BY <2>1, <2>2
<1>6. /\ a \o b \in Seq(Nodes) /\ Len(a \o b) = n - m + 2
      /\ \A i \in 1 .. n - m + 2 : (a \o b)[i] = IF i = 1 THEN h ELSE s[m + i - 2]
  BY <1>3, <1>4, <1>5
<1> QED  BY <1>6 DEF a, b

\* The elements up to place k get a head of their own.
Fronts(link, link2, lo2, s, k, new) ==
    /\ new \in Nodes /\ new \notin lo2
    /\ link2[new] = IF 1 < k THEN s[2] ELSE new
    /\ \A i \in 2 .. k : s[i] \notin lo2 /\ link2[s[i]] = IF i < k THEN s[i + 1] ELSE new

LEMMA FrontRing ==
    ASSUME NEW link, NEW link2, NEW lo, NEW lo2, NEW h, NEW s, NEW new,
           RingOf(link, lo, h, s), NEW k \in 1 .. Len(s), Fronts(link, link2, lo2, s, k, new)
    PROVE  RingOf(link2, lo2, new, <<new>> \o SubSeq(s, 2, k))
<1> DEFINE u == <<new>> \o SubSeq(s, 2, k)
<1>1. s \in Seq(Nodes) /\ Len(s) \in Nat /\ k \in Nat /\ 1 <= k /\ k <= Len(s) /\ new \in Nodes
  BY DEF RingOf, Fronts
<1>2. /\ u \in Seq(Nodes) /\ Len(u) = k
      /\ \A i \in 1 .. k : u[i] = IF i = 1 THEN new ELSE s[i]
  <2>1. /\ u \in Seq(Nodes) /\ Len(u) = k - 2 + 2
        /\ \A i \in 1 .. k - 2 + 2 : u[i] = IF i = 1 THEN new ELSE s[2 + i - 2]
    BY <1>1, HeadedElements
  <2> QED  BY <2>1, <1>1
<1> HIDE DEF u
<1>3. ASSUME NEW i \in 1 .. k
      PROVE  /\ u[i] \notin lo2
             /\ i >= 2 => u[i] \in Items
             /\ link2[u[i]] = IF i < k THEN u[i + 1] ELSE new
  <2>1. CASE i = 1
    <3>1. u[i] = new /\ (1 < k => u[i + 1] = s[2])
      BY <2>1, <1>1, <1>2
    <3> QED  BY <2>1, <3>1, <1>1 DEF Fronts
  <2>2. CASE i # 1
    <3>1. /\ u[i] = s[i] /\ (i < k => u[i + 1] = s[i + 1])
          /\ i \in 2 .. k /\ i \in 2 .. Len(s)
      BY <2>2, <1>1, <1>2
    <3> QED  BY <3>1 DEF Fronts, RingOf
  <2> QED  BY <2>1, <2>2
<1>4. u[1] = new
  BY <1>1, <1>2
<1>5. RingOf(link2, lo2, new, u)
  BY <1>1, <1>2, <1>3, <1>4 DEF RingOf
<1> QED  BY <1>5 DEF u

\* The elements behind place k stay.
Stays(link, link2, lo2, s, k, h) ==
    /\ h \notin lo2 /\ link2[h] = link[s[k]]
    /\ \A i \in k + 1 .. Len(s) : s[i] \notin lo2 /\ link2[s[i]] = link[s[i]]

LEMMA BackRing ==
    ASSUME NEW link, NEW link2, NEW lo, NEW lo2, NEW h, NEW s,
           RingOf(link, lo, h, s), NEW k \in 1 .. Len(s), Stays(link, link2, lo2, s, k, h)
    PROVE  RingOf(link2, lo2, h, <<h>> \o SubSeq(s, k + 1, Len(s)))
<1> DEFINE u == <<h>> \o SubSeq(s, k + 1, Len(s))
           n == Len(s)
<1>1. /\ s \in Seq(Nodes) /\ n \in Nat /\ k \in Nat /\ 1 <= k /\ k <= n
      /\ s[1] = h /\ h \in Nodes
  BY DEF RingOf
<1>2. /\ u \in Seq(Nodes) /\ Len(u) = n - k + 1
      /\ \A i \in 1 .. n - k + 1 : u[i] = IF i = 1 THEN h ELSE s[k + i - 1]
  <2>1. /\ u \in Seq(Nodes) /\ Len(u) = n - (k + 1) + 2
        /\ \A i \in 1 .. n - (k + 1) + 2 : u[i] = IF i = 1 THEN h ELSE s[(k + 1) + i - 2]
    BY <1>1, HeadedElements
  <2> QED  BY <2>1, <1>1
<1>3. /\ \A i \in 2 .. n : s[i] \in Items
      /\ \A i \in 1 .. n : link[s[i]] = IF i < n THEN s[i + 1] ELSE h
  BY DEF RingOf
<1> HIDE DEF u, n
<1>4. ASSUME NEW i \in 1 .. n - k + 1
      PROVE  /\ u[i] \notin lo2
             /\ i >= 2 => u[i] \in Items
             /\ link2[u[i]] = IF i < n - k + 1 THEN u[i + 1] ELSE h
  <2>1. CASE i = 1
    <3>1. u[i] = h /\ (1 < n - k + 1 => u[i + 1] = s[k + 1])
      BY <2>1, <1>1, <1>2
    <3>2. (1 < n - k + 1) <=> k < n
      BY <1>1
    <3> QED  BY <2>1, <3>1, <3>2, <1>1, <1>3 DEF Stays
  <2>2. CASE i # 1
    <3>1. /\ u[i] = s[k + i - 1] /\ (i < n - k + 1 => u[i + 1] = s[(k + i - 1) + 1])
      <4>1. u[i] = s[k + i - 1]
        BY <2>2, <1>2
      <4>2. CASE i < n - k + 1
        <5>1. i + 1 \in 1 .. n - k + 1 /\ i + 1 # 1 /\ k + (i + 1) - 1 = (k + i - 1) + 1
          BY <4>2, <1>1
        <5>2. u[i + 1] = s[k + (i + 1) - 1]
          BY <5>1, <1>2
        <5> QED  BY <4>1, <5>1, <5>2
      <4> QED  BY <4>1, <4>2
    <3>2. /\ k + i - 1 \in k + 1 .. n /\ k + i - 1 \in 2 .. n /\ k + i - 1 \in 1 .. n
          /\ (i < n - k + 1) <=> k + i - 1 < n
      BY <2>2, <1>1
    <3> QED  BY <3>1, <3>2, <1>3 DEF Stays, n
  <2> QED  BY <2>1, <2>2
<1>5. u[1] = h
  BY <1>1, <1>2
<1>6. RingOf(link2, lo2, h, u)
  <2>1. Len(u) >= 1 /\ 1 .. Len(u) = 1 .. n - k + 1
    BY <1>1, <1>2
  <2>2. \A i \in 2 .. Len(u) : i \in 1 .. n - k + 1 /\ i >= 2
    BY <1>1, <1>2
  <2> QED  BY <1>2, <1>4, <1>5, <2>1, <2>2 DEF RingOf
<1> QED  BY <1>6 DEF u, n

-----------------------------------------------------------------------------
(* All lists at a time.                                                     *)

\* L has the list of each head in use.
ListsAre(link, lo, L) ==
    /\ L = [h \in Heads \ lo |-> L[h]]
    /\ \A h \in Heads \ lo : RingOf(link, lo, h, L[h])

\* A node is in no list, or at one place of one.
LEMMA PlaceIsOne ==
    ASSUME NEW link, NEW back, NEW lo, NEW L, Undone(link, back, lo), ListsAre(link, lo, L)
    PROVE  \A g, h \in Heads \ lo : \A i \in 1 .. Len(L[g]), j \in 1 .. Len(L[h]) :
              L[g][i] = L[h][j] => g = h /\ i = j
<1> SUFFICES ASSUME NEW g \in Heads \ lo, NEW h \in Heads \ lo
             PROVE  \A i \in 1 .. Len(L[g]), j \in 1 .. Len(L[h]) :
                        L[g][i] = L[h][j] => g = h /\ i = j
  OBVIOUS
<1>1. RingOf(link, lo, g, L[g]) /\ RingOf(link, lo, h, L[h])
  BY DEF ListsAre
<1> QED  BY <1>1, OnePlace

\* The traversals meet the lists.
LEMMA ListsShown ==
    ASSUME NEW link, NEW back, NEW lo, NEW L, Undone(link, back, lo), ListsAre(link, lo, L),
           link \in [Nodes -> Nodes \cup {Null}]
    PROVE  L = [h \in Heads \ lo |-> <<h>> \o Visited(link, h)]
<1>1. ASSUME NEW h \in Heads \ lo
      PROVE  <<h>> \o Visited(link, h) = L[h]
  <2>1. RingOf(link, lo, h, L[h])
    BY DEF ListsAre
  <2> QED  BY <2>1, VisitedRing
<1> QED  BY <1>1 DEF ListsAre

\* The places Lists has for a node.
LEMMA IndexIsPlace ==
    ASSUME NEW s, NEW n \in Nat, DOMAIN s = 1 .. n, NEW k \in 1 .. n,
           \A i \in 1 .. n : s[i] = s[k] => i = k
    PROVE  Sequence!Index(s, s[k]) = k
BY DEF Sequence!Index

\* Lists inserts behind a place, before which there is another.
LEMMA AfterIsInserted ==
    ASSUME NEW s, NEW n \in Nat, DOMAIN s = 1 .. n, NEW k \in 1 .. n, NEW t,
           \A i \in 1 .. n : s[i] = s[k] => i = k
    PROVE  Sequence!After(s, s[k], t) = Inserted(s, k, t)
<1>1. Sequence!Index(s, s[k]) = k
  BY IndexIsPlace
<1> QED  BY <1>1 DEF Sequence!After, Inserted

Before(s, k) == IF k = 1 THEN Len(s) ELSE k - 1

LEMMA BeforeIsInserted ==
    ASSUME NEW s \in Seq(Nodes), NEW k \in 1 .. Len(s), NEW t \in Seq(Nodes),
           \A i \in 1 .. Len(s) : s[i] = s[k] => i = k
    PROVE  /\ Before(s, k) \in 1 .. Len(s)
           /\ Sequence!Before(s, s[k], t) = Inserted(s, Before(s, k), t)
<1>1. Len(s) \in Nat /\ DOMAIN s = 1 .. Len(s)
  OBVIOUS
<1>2. Sequence!Index(s, s[k]) = k
  BY <1>1, IndexIsPlace
<1>3. Before(s, k) \in 1 .. Len(s)
  BY <1>1 DEF Before
<1>4. CASE k = 1
  <2>1. SubSeq(s, 1, Len(s)) = s /\ SubSeq(s, Len(s) + 1, Len(s)) = <<>>
    BY <1>1, SubSeqFull, SubSeqEmpty
  <2>2. s \o t \in Seq(Nodes)
    BY ConcatProperties
  <2>3. (s \o t) \o <<>> = s \o t
    BY <2>2, ConcatEmptySeq
  <2> QED  BY <1>2, <1>3, <1>4, <2>1, <2>3 DEF Sequence!Before, Inserted, Before
<1>5. CASE k # 1
  <2>1. (k - 1) + 1 = k
    BY <1>1
  <2> QED  BY <1>2, <1>3, <1>5, <2>1 DEF Sequence!Before, Inserted, Before
<1> QED  BY <1>4, <1>5

-----------------------------------------------------------------------------
(* What the functions do to all lists.                                      *)

\* e is at no place.
Nowhere(lo, L, e) == \A g \in Heads \ lo : \A i \in 1 .. Len(L[g]) : L[g][i] # e

\* The pointers that change are those of the nodes in K.
Relinked(link, link2, K) == \A n \in Nodes \ K : link2[n] = link[n]

\* A list with none of the nodes in K stays as it is.
LEMMA UntouchedRing ==
    ASSUME NEW link, NEW link2, NEW K, NEW lo, NEW lo2, NEW h, NEW s,
           RingOf(link, lo, h, s), Relinked(link, link2, K),
           \A i \in 1 .. Len(s) : s[i] \notin K, lo2 \subseteq lo \cup K
    PROVE  RingOf(link2, lo2, h, s)
<1>1. \A i \in 1 .. Len(s) : s[i] \in Nodes /\ s[i] \notin lo
  BY DEF RingOf
<1>2. Kept(link, link2, lo2, s, {})
  BY <1>1 DEF Kept, Relinked
<1> QED  BY <1>2, SameRing

\* In a list with its elements x is not the node before an element it lacks.
LEMMA NotBefore ==
    ASSUME NEW link, NEW lo, NEW h \in Heads, NEW s, RingOf(link, lo, h, s),
           NEW e \in Items, \A i \in 1 .. Len(s) : s[i] # e, NEW x, link[x] = e
    PROVE  \A i \in 1 .. Len(s) : s[i] # x
<1> SUFFICES ASSUME NEW i \in 1 .. Len(s), s[i] = x PROVE FALSE
  OBVIOUS
<1>1. Len(s) \in Nat
  BY DEF RingOf
<1>2. link[s[i]] = IF i < Len(s) THEN s[i + 1] ELSE h
  BY DEF RingOf
<1>3. e # h
  BY ListAssumption
<1>4. i < Len(s) => i + 1 \in 1 .. Len(s)
  BY <1>1
<1> QED  BY <1>2, <1>3, <1>4

\* An element joins a list behind place k.
LEMMA InsertedLists ==
    ASSUME NEW link, NEW link2, NEW back, NEW lo, NEW L,
           Undone(link, back, lo), ListsAre(link, lo, L),
           NEW h \in Heads \ lo, NEW k \in 1 .. Len(L[h]),
           NEW e \in Items, Nowhere(lo, L, e),
           link2[e] = link[L[h][k]], link2[L[h][k]] = e,
           Relinked(link, link2, {e, L[h][k]})
    PROVE  ListsAre(link2, lo \ {e}, [L EXCEPT ![h] = Inserted(L[h], k, <<e>>)])
<1> DEFINE lo2 == lo \ {e}
           s == L[h]
           t == <<e>>
           L2 == [L EXCEPT ![h] = Inserted(s, k, t)]
<1>1. Heads \ lo2 = Heads \ lo
  BY ListAssumption
<1>2. \A g \in Heads \ lo : RingOf(link, lo, g, L[g])
  BY DEF ListsAre
<1>3. L = [g \in Heads \ lo |-> L[g]]
  BY DEF ListsAre
<1>4. RingOf(link2, lo2, h, Inserted(s, k, t))
  <2>1. t \in Seq(Nodes) /\ Len(t) = 1 /\ t[1] = e
    BY DEF Nodes
  <2>2. \A i \in 1 .. Len(s) : s[i] = s[k] => i = k
    BY PlaceIsOne
  <2>3. \A i \in 1 .. Len(s) : s[i] \in Nodes /\ s[i] \notin lo /\ s[i] # e
    BY <1>2 DEF RingOf, Nowhere
  <2>4. Kept(link, link2, lo2, s, {k})
    BY <2>2, <2>3 DEF Kept, Relinked
  <2>5. Leads(link2, t, link[s[k]])
    BY <2>1 DEF Leads
  <2>6. Joins(link, link2, lo2, s, k, t)
    BY <2>1, <2>3, <2>4, <2>5 DEF Joins
  <2>7. RingOf(link, lo, h, s)
    BY <1>2
  <2> HIDE DEF s, t, lo2
  <2>8. k \in 1 .. Len(s)
    BY DEF s
  <2> QED  BY <2>6, <2>7, <2>8, JoinedRing
<1>5. ASSUME NEW g \in Heads \ lo, g # h
      PROVE  RingOf(link2, lo2, g, L[g])
  <2>1. \A i \in 1 .. Len(L[g]) : L[g][i] \notin {e, L[h][k]}
    BY <1>5, PlaceIsOne DEF Nowhere
  <2>2. RingOf(link, lo, g, L[g]) /\ lo2 \subseteq lo \cup {e, L[h][k]}
    BY <1>2
  <2> QED  BY <2>1, <2>2, UntouchedRing
<1> HIDE DEF s, t, lo2
<1>6. /\ L2 = [g \in Heads \ lo |-> L2[g]]
      /\ L2[h] = Inserted(s, k, t)
      /\ \A g \in Heads \ lo : g # h => L2[g] = L[g]
  BY <1>3
<1> HIDE DEF L2
<1>7. ListsAre(link2, lo2, L2)
  BY <1>1, <1>4, <1>5, <1>6 DEF ListsAre
<1> QED  BY <1>7 DEF L2, s, t, lo2

\* The lists without e.
DroppedFrom(L, lo, e) == [g \in Heads \ lo |-> Sequence!Dropped(L[g], e)]

\* An element leaves its list, if it is in one.
LEMMA LeftLists ==
    ASSUME NEW link, NEW link2, NEW back, NEW lo, NEW lo2, NEW L,
           Undone(link, back, lo), ListsAre(link, lo, L),
           NEW e \in Items, e \notin lo, link[back[e]] = e,
           link2[back[e]] = link[e], Relinked(link, link2, {e, back[e]}),
           lo2 = lo \/ lo2 = lo \cup {e}
    PROVE  ListsAre(link2, lo2, DroppedFrom(L, lo, e))
<1> DEFINE L2 == DroppedFrom(L, lo, e)
<1>1. Heads \ lo2 = Heads \ lo
  BY ListAssumption
<1>2. ASSUME NEW g \in Heads \ lo
      PROVE  RingOf(link2, lo2, g, Sequence!Dropped(L[g], e))
  <2> DEFINE s == L[g]
  <2>1. RingOf(link, lo, g, s)
    BY DEF ListsAre
  <2>2. s \in Seq(Nodes) /\ Len(s) \in Nat /\ DOMAIN s = 1 .. Len(s) /\ s[1] = g
    BY <2>1 DEF RingOf
  <2>3. CASE e \in Sequence!ToSet(s)
    <3>1. PICK k \in 1 .. Len(s) : s[k] = e
      BY <2>2, <2>3 DEF Sequence!ToSet
    <3>2. \A i \in 1 .. Len(s) : s[i] = s[k] => i = k
      BY PlaceIsOne
    <3>3. Sequence!Index(s, e) = k
      BY <2>2, <3>1, <3>2, IndexIsPlace
    <3>4. Sequence!Dropped(s, e) = Sequence!RemoveAt(s, k)
      BY <2>3, <3>3 DEF Sequence!Dropped
    <3>5. k \in 2 .. Len(s) /\ k - 1 \in 1 .. Len(s)
      <4>1. k # 1
        BY <2>2, <3>1, ListAssumption
      <4> QED  BY <4>1, <2>2
    <3>6. link[s[k - 1]] = e /\ s[k - 1] \in Nodes \ lo
      BY <2>1, <3>1, <3>5, RingStep
    <3>7. back[e] = s[k - 1]
      BY <3>6 DEF Undone
    <3>8. \A i \in 1 .. Len(s) : s[i] \in Nodes /\ s[i] \notin lo
      BY <2>1 DEF RingOf
    <3>9. \A i \in 1 .. Len(s) : i # k /\ i # k - 1 => s[i] # e /\ s[i] # back[e]
      BY <3>1, <3>5, <3>7, PlaceIsOne
    <3>10. s[k - 1] \notin lo2
      BY <3>6, <3>9, <3>5, <3>1, PlaceIsOne
    <3>11. Leaves(link, link2, lo2, s, k)
      BY <3>1, <3>7, <3>8, <3>9, <3>10 DEF Leaves, Kept, Relinked
    <3> HIDE DEF s
    <3>12. RingOf(link2, lo2, g, Sequence!RemoveAt(s, k))
      BY <2>1, <3>5, <3>11, LeftRing
    <3> QED  BY <3>4, <3>12 DEF s
  <2>4. CASE e \notin Sequence!ToSet(s)
    <3>1. \A i \in 1 .. Len(s) : s[i] # e
      BY <2>2, <2>4 DEF Sequence!ToSet
    <3> HIDE DEF s
    <3>2. \A i \in 1 .. Len(s) : s[i] \notin {e, back[e]}
      BY <2>1, <3>1, NotBefore
    <3>3. lo2 \subseteq lo \cup {e, back[e]}
      OBVIOUS
    <3>4. RingOf(link2, lo2, g, s)
      BY <2>1, <3>2, <3>3, UntouchedRing
    <3> QED  BY <3>4, <2>4 DEF Sequence!Dropped, s
  <2> QED  BY <2>3, <2>4
<1>3. \A g \in Heads \ lo : L2[g] = Sequence!Dropped(L[g], e)
  BY DEF DroppedFrom
<1>4. L2 = [g \in Heads \ lo |-> L2[g]]
  BY DEF DroppedFrom
<1> HIDE DEF L2
<1>5. ListsAre(link2, lo2, L2)
  BY <1>1, <1>2, <1>3, <1>4 DEF ListsAre
<1> QED  BY <1>5 DEF L2

\* The lists with new in the place of old.
RenamedIn(L, lo, old, new) == [g \in Heads \ lo |-> Sequence!Renamed(L[g], old, new)]

\* An element takes the place of another.
LEMMA RenamedLists ==
    ASSUME NEW link, NEW link2, NEW back, NEW lo, NEW lo2, NEW L,
           Undone(link, back, lo), ListsAre(link, lo, L),
           NEW old \in Items, old \notin lo, link[back[old]] = old,
           NEW new \in Items, new # old, Nowhere(lo, L, new),
           back[old] # old => link2[back[old]] = new /\ link2[new] = link[old],
           Relinked(link, link2, {old, new, back[old]}),
           lo2 = lo \ {new} \/ lo2 = (lo \ {new}) \cup {old}
    PROVE  ListsAre(link2, lo2, RenamedIn(L, lo, old, new))
<1> DEFINE L2 == [g \in Heads \ lo |-> Sequence!Renamed(L[g], old, new)]
<1>1. Heads \ lo2 = Heads \ lo
  BY ListAssumption
<1>2. ASSUME NEW g \in Heads \ lo
      PROVE  RingOf(link2, lo2, g, Sequence!Renamed(L[g], old, new))
  <2> DEFINE s == L[g]
  <2>1. RingOf(link, lo, g, s)
    BY DEF ListsAre
  <2>2. s \in Seq(Nodes) /\ Len(s) \in Nat /\ DOMAIN s = 1 .. Len(s) /\ s[1] = g
    BY <2>1 DEF RingOf
  <2>3. \A i \in 1 .. Len(s) : s[i] \in Nodes /\ s[i] \notin lo /\ s[i] # new
    BY <2>1 DEF RingOf, Nowhere
  <2>4. ASSUME NEW k \in 1 .. Len(s), s[k] = old
        PROVE  RingOf(link2, lo2, g, Sequence!Renamed(s, old, new))
    <3>1. \A i \in 1 .. Len(s) : s[i] = s[k] => i = k
      BY PlaceIsOne
    <3>2. k \in 2 .. Len(s) /\ k - 1 \in 1 .. Len(s) /\ k - 1 # k
      <4>1. k # 1
        BY <2>2, <2>4, ListAssumption
      <4> QED  BY <4>1, <2>2
    <3>3. link[s[k - 1]] = old /\ s[k - 1] \in Nodes \ lo
      BY <2>1, <2>4, <3>2, RingStep
    <3>4. back[old] = s[k - 1] /\ s[k - 1] # old
      BY <3>1, <3>2, <3>3, <2>4 DEF Undone
    <3>5. \A i \in 1 .. Len(s) : i # k /\ i # k - 1 => s[i] # old /\ s[i] # back[old]
      BY <3>1, <3>2, <3>4, <2>4, PlaceIsOne
    <3>6. Kept(link, link2, lo2, s, {k - 1, k})
      BY <2>3, <3>5 DEF Kept, Relinked
    <3>7. s[k - 1] \notin lo2 /\ new \notin lo2
      BY <3>3, <3>4
    <3>8. link2[s[k - 1]] = new /\ link2[new] = link[s[k]]
      BY <3>4, <2>4
    <3> HIDE DEF s
    <3> QED  BY <2>1, <2>4, <3>1, <3>2, <3>6, <3>7, <3>8, RenamedRing
  <2>5. CASE \A i \in 1 .. Len(s) : s[i] # old
    <3> HIDE DEF s
    <3>1. \A i \in 1 .. Len(s) : s[i] \notin {old, new, back[old]}
      <4>1. \A i \in 1 .. Len(s) : s[i] # back[old]
        <5>1. \A i \in 1 .. Len(s) : s[i] # old
          BY <2>5
        <5>2. RingOf(link, lo, g, s) /\ g \in Heads /\ old \in Items /\ link[back[old]] = old
          BY <2>1
        <5> QED  BY <5>1, <5>2, NotBefore
      <4> QED  BY <2>3, <2>5, <4>1
    <3>2. lo2 \subseteq lo \cup {old, new, back[old]}
      OBVIOUS
    <3>3. RingOf(link2, lo2, g, s)
      BY <2>1, <3>1, <3>2, UntouchedRing
    <3>4. Sequence!Renamed(s, old, new) = s
      BY <2>2, <2>5 DEF Sequence!Renamed
    <3> QED  BY <3>3, <3>4 DEF s
  <2> QED  BY <2>4, <2>5
<1>3. \A g \in Heads \ lo : L2[g] = Sequence!Renamed(L[g], old, new)
  OBVIOUS
<1>4. L2 = [g \in Heads \ lo |-> L2[g]]
  OBVIOUS
<1> HIDE DEF L2
<1>5. ListsAre(link2, lo2, L2)
  BY <1>1, <1>2, <1>3, <1>4 DEF ListsAre
<1> QED  BY <1>5 DEF L2, RenamedIn

\* The lists of heads when new has taken over the elements of old.
HeadReplacedIn(L, heads, old, new) ==
    [h \in heads |-> CASE h = new -> <<new>> \o Tail(L[old])
                      [] h = old -> <<old>>
                      [] OTHER -> L[h]]

\* A head takes over the elements of another; new is not used, or has none.
LEMMA HeadReplacedLists ==
    ASSUME NEW link, NEW link2, NEW back, NEW lo, NEW lo2, NEW L,
           Undone(link, back, lo), ListsAre(link, lo, L),
           NEW old \in Heads \ lo, NEW new \in Heads, new # old,
           new \in lo \/ link[new] = new, link[back[old]] = old,
           link2[new] = IF link[old] = old THEN new ELSE link[old],
           link[old] # old => link2[back[old]] = new,
           Relinked(link, link2, {old, new, back[old]}),
           \/ lo2 = (lo \ {new}) \cup {old}
           \/ lo2 = lo \ {new} /\ link2[old] = old
    PROVE  ListsAre(link2, lo2, HeadReplacedIn(L, Heads \ lo2, old, new))
<1> DEFINE s == L[old]
           n == Len(s)
           L2 == [h \in Heads \ lo2 |-> CASE h = new -> <<new>> \o Tail(L[old])
                                          [] h = old -> <<old>>
                                          [] OTHER -> L[h]]
<1>1. /\ RingOf(link, lo, old, s) /\ s \in Seq(Nodes) /\ n \in Nat /\ n >= 1 /\ s[1] = old
      /\ \A i \in 1 .. n : s[i] \in Nodes /\ s[i] \notin lo
      /\ \A i \in 1 .. n : link[s[i]] = IF i < n THEN s[i + 1] ELSE old
      /\ \A i \in 2 .. n : s[i] \in Items
  BY DEF ListsAre, RingOf
<1>2. \A i \in 1 .. n, j \in 1 .. n : s[i] = s[j] => i = j
  BY PlaceIsOne
<1>3. back[old] = s[n]
  <2>1. n \in 1 .. n /\ link[s[n]] = old
    BY <1>1
  <2> QED  BY <2>1, <1>1 DEF Undone
<1>4. (link[old] = old) <=> n = 1
  <2>1. 1 \in 1 .. n /\ (n # 1 => 1 < n /\ 2 \in 1 .. n /\ 1 # 2)
    <3>1. n \in Nat /\ n >= 1
      BY <1>1
    <3> HIDE DEF n
    <3> QED  BY <3>1
  <2> QED  BY <2>1, <1>1, <1>2
<1>5. RingOf(link2, lo2, new, <<new>> \o Tail(s))
  <2>1. s # <<>>
    BY <1>1
  <2>2. Tail(s) = SubSeq(s, 2, n)
    BY <1>1, <2>1, TailIsSubSeq
  <2>3. ASSUME NEW i \in 2 .. n
        PROVE  s[i] \notin lo2 /\ link2[s[i]] = IF i < n THEN s[i + 1] ELSE new
    <3>1. i \in 1 .. n /\ i # 1 /\ n # 1
      <4>1. n \in Nat /\ i \in 2 .. n
        BY <1>1
      <4> HIDE DEF n
      <4> QED  BY <4>1
    <3>2. s[i] # old /\ s[i] # new /\ s[i] \notin lo
      BY <1>1, ListAssumption
    <3>3. s[i] \notin lo2
      BY <3>2
    <3>4. CASE i = n
      BY <3>1, <3>3, <3>4, <1>3, <1>4
    <3>5. CASE i # n
      <4>1. s[i] # back[old] /\ i < n
        BY <3>1, <3>5, <1>1, <1>2, <1>3
      <4> QED  BY <4>1, <3>1, <3>2, <3>3, <1>1 DEF Relinked
    <3> QED  BY <3>4, <3>5
  <2>4. link2[new] = IF 1 < n THEN s[2] ELSE new
    <3>1. 1 \in 1 .. n /\ (n # 1 <=> 1 < n)
      <4>1. n \in Nat /\ n >= 1
        BY <1>1
      <4> HIDE DEF n
      <4> QED  BY <4>1
    <3> QED  BY <3>1, <1>1, <1>4
  <2>5. Fronts(link, link2, lo2, s, n, new)
    BY <2>3, <2>4 DEF Fronts, Nodes
  <2>6. n \in 1 .. Len(s)
    BY <1>1
  <2>7. RingOf(link2, lo2, new, <<new>> \o SubSeq(s, 2, n))
    <3> HIDE DEF s, n
    <3>1. RingOf(link, lo, old, s)
      BY <1>1
    <3> QED  BY <3>1, <2>5, <2>6, FrontRing
  <2> QED  BY <2>2, <2>7
<1>6. ASSUME NEW h \in Heads \ lo2, h = old
      PROVE  RingOf(link2, lo2, h, <<old>>)
  <2>1. link2[old] = old /\ old \notin lo2
    BY <1>6
  <2>2. <<old>> \in Seq(Nodes) /\ Len(<<old>>) = 1 /\ <<old>>[1] = old
    BY DEF Nodes
  <2> QED  BY <2>1, <2>2, <1>6 DEF RingOf
<1>7. ASSUME NEW h \in Heads \ lo2, h # old, h # new
      PROVE  RingOf(link2, lo2, h, L[h])
  <2>1. h \in Heads \ lo /\ RingOf(link, lo, h, L[h])
    BY <1>7 DEF ListsAre
  <2>2. \A i \in 1 .. Len(L[h]) : L[h][i] # old /\ L[h][i] # back[old]
    <3>1. 1 \in 1 .. n /\ n \in 1 .. n
      BY <1>1
    <3> QED  BY <3>1, <1>1, <1>3, <1>7, <2>1, PlaceIsOne
  <2>3. \A i \in 1 .. Len(L[h]) : L[h][i] # new
    <3> SUFFICES ASSUME NEW i \in 1 .. Len(L[h]), L[h][i] = new PROVE FALSE
      OBVIOUS
    <3>1. Len(L[h]) \in Nat /\ L[h][1] = h /\ \A j \in 2 .. Len(L[h]) : L[h][j] \in Items
      BY <2>1 DEF RingOf
    <3>2. i = 1 \/ i \in 2 .. Len(L[h])
      BY <3>1
    <3> QED  BY <3>1, <3>2, <1>7, ListAssumption
  <2>4. lo2 \subseteq lo \cup {old, new, back[old]}
    OBVIOUS
  <2> DEFINE u == L[h]
  <2>5. /\ RingOf(link, lo, h, u)
        /\ \A i \in 1 .. Len(u) : u[i] \notin {old, new, back[old]}
    BY <2>1, <2>2, <2>3
  <2> HIDE DEF u
  <2>6. RingOf(link2, lo2, h, u)
    BY <2>4, <2>5, UntouchedRing
  <2> QED  BY <2>6 DEF u
<1>8. /\ L2 = [h \in Heads \ lo2 |-> L2[h]]
      /\ \A h \in Heads \ lo2 : L2[h] = IF h = new THEN <<new>> \o Tail(s)
                                        ELSE IF h = old THEN <<old>> ELSE L[h]
  OBVIOUS
<1> HIDE DEF L2, s, n
<1>9. ASSUME NEW h \in Heads \ lo2
      PROVE  RingOf(link2, lo2, h, L2[h])
  BY <1>5, <1>6, <1>7, <1>8
<1>10. ListsAre(link2, lo2, L2)
  BY <1>8, <1>9 DEF ListsAre
<1> QED  BY <1>10 DEF L2, HeadReplacedIn

\* A head that is not used, or has no elements, is made an empty list.
LEMMA EmptiedLists ==
    ASSUME NEW link, NEW link2, NEW back, NEW lo, NEW L,
           Undone(link, back, lo), ListsAre(link, lo, L),
           NEW new \in Nodes, new \in Heads \/ Nowhere(lo, L, new),
           new \in lo \/ link[new] = new, link2[new] = new,
           Relinked(link, link2, {new})
    PROVE  ListsAre(link2, lo \ {new},
               [h \in Heads \ (lo \ {new}) |-> IF h = new THEN <<new>> ELSE L[h]])
<1> DEFINE lo2 == lo \ {new}
           L2 == [h \in Heads \ lo2 |-> IF h = new THEN <<new>> ELSE L[h]]
<1>1. ASSUME NEW h \in Heads \ lo2, h = new
      PROVE  RingOf(link2, lo2, h, <<new>>)
  <2>1. <<new>> \in Seq(Nodes) /\ Len(<<new>>) = 1 /\ <<new>>[1] = new
    OBVIOUS
  <2> QED  BY <2>1, <1>1 DEF RingOf
<1>2. ASSUME NEW h \in Heads \ lo2, h # new
      PROVE  RingOf(link2, lo2, h, L[h])
  <2>1. h \in Heads \ lo /\ RingOf(link, lo, h, L[h])
    BY <1>2 DEF ListsAre
  <2>2. \A i \in 1 .. Len(L[h]) : L[h][i] # new
    <3> SUFFICES ASSUME NEW i \in 1 .. Len(L[h]), L[h][i] = new PROVE FALSE
      OBVIOUS
    <3>1. Len(L[h]) \in Nat /\ L[h][1] = h /\ \A j \in 2 .. Len(L[h]) : L[h][j] \in Items
      BY <2>1 DEF RingOf
    <3>2. i = 1 \/ i \in 2 .. Len(L[h])
      BY <3>1
    <3> QED  BY <2>1, <3>1, <3>2, <1>2, ListAssumption DEF Nowhere
  <2> DEFINE u == L[h]
  <2>3. RingOf(link, lo, h, u) /\ (\A i \in 1 .. Len(u) : u[i] \notin {new})
    BY <2>1, <2>2
  <2>4. lo2 \subseteq lo \cup {new}
    OBVIOUS
  <2> HIDE DEF u, lo2
  <2>5. RingOf(link2, lo2, h, u)
    BY <2>3, <2>4, UntouchedRing
  <2> QED  BY <2>5 DEF u
<1>3. /\ L2 = [h \in Heads \ lo2 |-> L2[h]]
      /\ \A h \in Heads \ lo2 : L2[h] = IF h = new THEN <<new>> ELSE L[h]
  OBVIOUS
<1> HIDE DEF L2, lo2
<1>4. ASSUME NEW h \in Heads \ lo2
      PROVE  RingOf(link2, lo2, h, L2[h])
  BY <1>1, <1>2, <1>3
<1>5. ListsAre(link2, lo2, L2)
  BY <1>3, <1>4 DEF ListsAre
<1> QED  BY <1>5 DEF L2, lo2

\* The lists of heads when new has the elements of h up to place k.
CutIn(L, heads, new, h, k) ==
    [g \in heads |-> CASE g = new -> <<new>> \o SubSeq(L[h], 2, k)
                       [] g = h -> <<h>> \o SubSeq(L[h], k + 1, Len(L[h]))
                       [] OTHER -> L[g]]

\* The elements of h up to place k get new as their head.
LEMMA CutLists ==
    ASSUME NEW link, NEW link2, NEW back, NEW lo, NEW L,
           Undone(link, back, lo), ListsAre(link, lo, L),
           NEW h \in Heads \ lo, NEW new \in Heads, new # h,
           new \in lo \/ link[new] = new,
           NEW k \in 2 .. Len(L[h]),
           link2[new] = link[h], link2[L[h][k]] = new, link2[h] = link[L[h][k]],
           Relinked(link, link2, {new, h, L[h][k]})
    PROVE  ListsAre(link2, lo \ {new}, CutIn(L, Heads \ (lo \ {new}), new, h, k))
<1> DEFINE lo2 == lo \ {new}
           s == L[h]
           n == Len(s)
           L2 == [g \in Heads \ lo2 |->
                   CASE g = new -> <<new>> \o SubSeq(L[h], 2, k)
                     [] g = h -> <<h>> \o SubSeq(L[h], k + 1, Len(L[h]))
                     [] OTHER -> L[g]]
<1>1. /\ RingOf(link, lo, h, s) /\ s \in Seq(Nodes) /\ n \in Nat /\ s[1] = h
      /\ \A i \in 1 .. n : s[i] \in Nodes /\ s[i] \notin lo
      /\ \A i \in 1 .. n : link[s[i]] = IF i < n THEN s[i + 1] ELSE h
      /\ \A i \in 2 .. n : s[i] \in Items
  BY DEF ListsAre, RingOf
<1>2. \A i \in 1 .. n, j \in 1 .. n : s[i] = s[j] => i = j
  BY PlaceIsOne
<1>3. k \in Nat /\ 2 <= k /\ k <= n /\ k \in 1 .. n /\ 1 \in 1 .. n /\ 1 < n
  BY <1>1
<1>4. \A i \in 2 .. n : s[i] # new /\ s[i] # h
  BY <1>1, ListAssumption
<1>5. RingOf(link2, lo2, new, <<new>> \o SubSeq(s, 2, k))
  <2>1. link2[new] = IF 1 < k THEN s[2] ELSE new
    BY <1>1, <1>3
  <2>2. ASSUME NEW i \in 2 .. k
        PROVE  s[i] \notin lo2 /\ link2[s[i]] = IF i < k THEN s[i + 1] ELSE new
    <3>1. i \in 2 .. n /\ i \in 1 .. n
      BY <1>3
    <3>2. s[i] \notin lo2
      BY <3>1, <1>1
    <3>3. CASE i = k
      BY <3>2, <3>3
    <3>4. CASE i # k
      <4>1. s[i] # s[k] /\ i < n /\ i < k
        BY <3>1, <3>4, <1>2, <1>3
      <4> QED  BY <4>1, <3>1, <3>2, <1>1, <1>4 DEF Relinked
    <3> QED  BY <3>3, <3>4
  <2>3. Fronts(link, link2, lo2, s, k, new)
    BY <2>1, <2>2 DEF Fronts, Nodes
  <2> HIDE DEF s, n, lo2
  <2>4. k \in 1 .. Len(s) /\ RingOf(link, lo, h, s)
    BY <1>1, <1>3 DEF n
  <2> QED  BY <2>3, <2>4, FrontRing
<1>6. RingOf(link2, lo2, h, <<h>> \o SubSeq(s, k + 1, n))
  <2>1. h \notin lo2 /\ link2[h] = link[s[k]]
    OBVIOUS
  <2>2. ASSUME NEW i \in k + 1 .. n
        PROVE  s[i] \notin lo2 /\ link2[s[i]] = link[s[i]]
    <3>1. i \in 2 .. n /\ i \in 1 .. n /\ i # k
      BY <1>3
    <3> QED  BY <3>1, <1>1, <1>2, <1>3, <1>4 DEF Relinked
  <2>3. Stays(link, link2, lo2, s, k, h)
    BY <2>1, <2>2 DEF Stays
  <2> HIDE DEF s, lo2
  <2>4. k \in 1 .. Len(s) /\ RingOf(link, lo, h, s)
    BY <1>1, <1>3
  <2> QED  BY <2>3, <2>4, BackRing
<1>7. ASSUME NEW g \in Heads \ lo2, g # h, g # new
      PROVE  RingOf(link2, lo2, g, L[g])
  <2>1. g \in Heads \ lo /\ RingOf(link, lo, g, L[g])
    BY <1>7 DEF ListsAre
  <2>2. \A i \in 1 .. Len(L[g]) : L[g][i] # h /\ L[g][i] # s[k]
    BY <1>1, <1>3, <1>7, <2>1, PlaceIsOne
  <2>3. \A i \in 1 .. Len(L[g]) : L[g][i] # new
    <3> SUFFICES ASSUME NEW i \in 1 .. Len(L[g]), L[g][i] = new PROVE FALSE
      OBVIOUS
    <3>1. Len(L[g]) \in Nat /\ L[g][1] = g /\ \A j \in 2 .. Len(L[g]) : L[g][j] \in Items
      BY <2>1 DEF RingOf
    <3>2. i = 1 \/ i \in 2 .. Len(L[g])
      BY <3>1
    <3> QED  BY <3>1, <3>2, <1>7, ListAssumption
  <2>4. lo2 \subseteq lo \cup {new, h, s[k]}
    OBVIOUS
  <2>5. Relinked(link, link2, {new, h, s[k]})
    OBVIOUS
  <2> DEFINE u == L[g]
  <2>6. /\ RingOf(link, lo, g, u)
        /\ \A i \in 1 .. Len(u) : u[i] \notin {new, h, s[k]}
    BY <2>1, <2>2, <2>3
  <2> HIDE DEF u, s, lo2
  <2>7. RingOf(link2, lo2, g, u)
    BY <2>4, <2>5, <2>6, UntouchedRing
  <2> QED  BY <2>7 DEF u
<1>8. /\ L2 = [g \in Heads \ lo2 |-> L2[g]]
      /\ \A g \in Heads \ lo2 : L2[g] = IF g = new THEN <<new>> \o SubSeq(s, 2, k)
                                        ELSE IF g = h THEN <<h>> \o SubSeq(s, k + 1, n) ELSE L[g]
  OBVIOUS
<1> HIDE DEF L2, s, n, lo2
<1>9. ASSUME NEW g \in Heads \ lo2
      PROVE  RingOf(link2, lo2, g, L2[g])
  BY <1>5, <1>6, <1>7, <1>8
<1>10. ListsAre(link2, lo2, L2)
  BY <1>8, <1>9 DEF ListsAre
<1> QED  BY <1>10 DEF L2, s, n, lo2, CutIn

\* The lists of heads when the elements of l have joined that of h behind place k.
JoinedIn(L, heads, l, h, k) ==
    [g \in heads |-> CASE g = l -> <<l>>
                      [] g = h -> Inserted(L[h], k, Tail(L[l]))
                      [] OTHER -> L[g]]

\* The elements of l join the list of h behind place k.
LEMMA JoinedLists ==
    ASSUME NEW link, NEW link2, NEW back, NEW lo, NEW lo2, NEW L,
           Undone(link, back, lo), ListsAre(link, lo, L),
           NEW l \in Heads \ lo, NEW h \in Heads \ lo, h # l, NEW k \in 1 .. Len(L[h]),
           link[l] # l, link[back[l]] = l,
           link2[L[h][k]] = link[l], link2[back[l]] = link[L[h][k]],
           Relinked(link, link2, {l, L[h][k], back[l]}),
           lo2 = lo \cup {l} \/ (lo2 = lo /\ link2[l] = l)
    PROVE  ListsAre(link2, lo2, JoinedIn(L, Heads \ lo2, l, h, k))
<1> DEFINE s == L[h]
           u == L[l]
           n == Len(u)
           t == Tail(u)
           L2 == [g \in Heads \ lo2 |-> CASE g = l -> <<l>>
                                          [] g = h -> Inserted(L[h], k, Tail(L[l]))
                                          [] OTHER -> L[g]]
<1>1. /\ RingOf(link, lo, l, u) /\ u \in Seq(Nodes) /\ n \in Nat /\ n >= 1 /\ u[1] = l
      /\ \A i \in 1 .. n : u[i] \in Nodes /\ u[i] \notin lo
      /\ \A i \in 1 .. n : link[u[i]] = IF i < n THEN u[i + 1] ELSE l
      /\ \A i \in 2 .. n : u[i] \in Items
  BY DEF ListsAre, RingOf
<1>2. /\ RingOf(link, lo, h, s) /\ s \in Seq(Nodes) /\ Len(s) \in Nat
      /\ \A i \in 1 .. Len(s) : s[i] \in Nodes /\ s[i] \notin lo
  BY DEF ListsAre, RingOf
<1>3. /\ \A i \in 1 .. n, j \in 1 .. n : u[i] = u[j] => i = j
      /\ \A i \in 1 .. n, j \in 1 .. Len(s) : u[i] # s[j]
      /\ \A i \in 1 .. Len(s), j \in 1 .. Len(s) : s[i] = s[j] => i = j
  <2>1. \A i \in 1 .. n, j \in 1 .. n : u[i] = u[j] => i = j
    BY PlaceIsOne
  <2>2. \A i \in 1 .. n, j \in 1 .. Len(s) : u[i] # s[j]
    BY PlaceIsOne
  <2>3. \A i \in 1 .. Len(s), j \in 1 .. Len(s) : s[i] = s[j] => i = j
    BY PlaceIsOne
  <2> QED  BY <2>1, <2>2, <2>3
<1>4. n > 1
  <2>1. n = 1 => link[u[1]] = l
    BY <1>1
  <2>2. n # 1
    BY <2>1, <1>1
  <2>3. n \in Nat /\ n >= 1
    BY <1>1
  <2> HIDE DEF n
  <2> QED  BY <2>2, <2>3
<1>5. back[l] = u[n] /\ n \in 1 .. n /\ 1 \in 1 .. n /\ n \in 2 .. n
  <2>1. n \in 1 .. n /\ 1 \in 1 .. n /\ n \in 2 .. n /\ ~ (n < n)
    <3>1. n \in Nat /\ n > 1
      BY <1>1, <1>4
    <3> HIDE DEF n
    <3> QED  BY <3>1
  <2> QED  BY <2>1, <1>1 DEF Undone
<1>6. /\ t \in Seq(Nodes) /\ Len(t) = n - 1
      /\ \A i \in 1 .. n - 1 : t[i] = u[i + 1]
  <2>1. u # <<>>
    BY <1>1
  <2> HIDE DEF u
  <2>2. t \in Seq(Nodes) /\ Len(t) = n - 1 /\ \A i \in 1 .. Len(t) : t[i] = u[i + 1]
    BY <1>1, <2>1, HeadTailProperties
  <2> QED  BY <2>2
<1>7. RingOf(link2, lo2, h, Inserted(s, k, t))
  <2>1. link[l] = u[2] /\ t[1] = u[2]
    BY <1>1, <1>4, <1>5, <1>6
  <2>2. ASSUME NEW i \in 1 .. n - 1
        PROVE  /\ t[i] \in Items /\ t[i] \notin lo2
               /\ link2[t[i]] = IF i < n - 1 THEN t[i + 1] ELSE link[s[k]]
    <3>1. /\ i + 1 \in 2 .. n /\ i + 1 \in 1 .. n /\ i + 1 # 1 /\ (i < n - 1 <=> i + 1 < n)
          /\ (i < n - 1 => i + 1 \in 1 .. n - 1) /\ (i < n - 1 \/ i + 1 = n) /\ (i + 1 = n => ~ (i < n - 1))
          /\ (i + 1 < n => i + 1 # n)
      <4>1. n \in Nat /\ n > 1
        BY <1>1, <1>4
      <4> HIDE DEF n
      <4> QED  BY <4>1
    <3>2. t[i] = u[i + 1] /\ u[i + 1] \in Items /\ u[i + 1] \in Nodes /\ u[i + 1] \notin lo
      BY <3>1, <1>1, <1>6
    <3>3. u[i + 1] # l
      BY <3>1, <1>1, <1>3, <1>5
    <3>4. t[i] \notin lo2
      BY <3>2, <3>3
    <3>5. CASE i < n - 1
      <4>1. u[i + 1] # back[l] /\ u[i + 1] # s[k]
        BY <3>1, <3>5, <1>3, <1>5
      <4>2. link2[u[i + 1]] = link[u[i + 1]]
        BY <4>1, <3>2, <3>3 DEF Relinked
      <4>3. link[u[i + 1]] = u[(i + 1) + 1] /\ t[i + 1] = u[(i + 1) + 1]
        BY <3>1, <3>5, <1>1, <1>6
      <4> QED  BY <3>2, <3>4, <3>5, <4>2, <4>3
    <3>6. CASE i + 1 = n
      <4>1. link2[t[i]] = link[s[k]]
        BY <3>2, <3>6, <1>5
      <4> QED  BY <3>1, <3>2, <3>4, <3>6, <4>1
    <3> QED  BY <3>1, <3>5, <3>6
  <2>3. Leads(link2, t, link[s[k]])
    BY <2>2, <1>6 DEF Leads
  <2>4. \A i \in 1 .. Len(s) : s[i] # l /\ s[i] # back[l]
    BY <1>1, <1>3, <1>5
  <2>5. Kept(link, link2, lo2, s, {k})
    BY <1>2, <1>3, <2>4 DEF Kept, Relinked
  <2>6. s[k] \notin lo2
    BY <1>2, <2>4
  <2>7. Len(t) >= 1
    <3>1. n \in Nat /\ n > 1 /\ Len(t) = n - 1
      BY <1>1, <1>4, <1>6
    <3> HIDE DEF n, t
    <3> QED  BY <3>1
  <2>8. Joins(link, link2, lo2, s, k, t)
    BY <1>6, <2>1, <2>2, <2>3, <2>5, <2>6, <2>7 DEF Joins
  <2>9. k \in 1 .. Len(s) /\ RingOf(link, lo, h, s)
    BY <1>2
  <2> HIDE DEF s, t
  <2> QED  BY <2>8, <2>9, JoinedRing
<1>8. ASSUME NEW g \in Heads \ lo2, g = l
      PROVE  RingOf(link2, lo2, g, <<l>>)
  <2>1. <<l>> \in Seq(Nodes) /\ Len(<<l>>) = 1 /\ <<l>>[1] = l
    BY DEF Nodes
  <2>2. link2[l] = l /\ l \notin lo2
    BY <1>8
  <2> QED  BY <2>1, <2>2, <1>8 DEF RingOf
<1>9. ASSUME NEW g \in Heads \ lo2, g # l, g # h
      PROVE  RingOf(link2, lo2, g, L[g])
  <2>1. g \in Heads \ lo /\ RingOf(link, lo, g, L[g])
    BY <1>9 DEF ListsAre
  <2>2. \A i \in 1 .. Len(L[g]) : L[g][i] # l /\ L[g][i] # back[l]
    BY <1>1, <1>5, <1>9, <2>1, PlaceIsOne
  <2>3. \A i \in 1 .. Len(L[g]) : L[g][i] # L[h][k]
    BY <1>9, <2>1, PlaceIsOne
  <2>4. lo2 \subseteq lo \cup {l, L[h][k], back[l]}
    OBVIOUS
  <2> DEFINE v == L[g]
  <2>5. /\ RingOf(link, lo, g, v)
        /\ \A i \in 1 .. Len(v) : v[i] \notin {l, L[h][k], back[l]}
    BY <2>1, <2>2, <2>3
  <2> HIDE DEF v
  <2>6. RingOf(link2, lo2, g, v)
    BY <2>4, <2>5, UntouchedRing
  <2> QED  BY <2>6 DEF v
<1>10. /\ L2 = [g \in Heads \ lo2 |-> L2[g]]
       /\ \A g \in Heads \ lo2 : L2[g] = IF g = l THEN <<l>>
                                         ELSE IF g = h THEN Inserted(s, k, t) ELSE L[g]
  OBVIOUS
<1> HIDE DEF L2, s, t, u, n
<1>11. ASSUME NEW g \in Heads \ lo2
       PROVE  RingOf(link2, lo2, g, L2[g])
  BY <1>7, <1>8, <1>9, <1>10
<1>12. ListsAre(link2, lo2, L2)
  BY <1>10, <1>11 DEF ListsAre
<1> QED  BY <1>12 DEF L2, JoinedIn

-----------------------------------------------------------------------------
(* The lists of a state.                                                    *)

\* What the traversals show: lists of Lists.
Shown == [h \in InUse |-> <<h>> \o Visited(next, h)]

RingsInv == Inv /\ ListsAre(next, loose, Shown)

LEMMA InvUndone ==
    ASSUME Inv
    PROVE  /\ Undone(next, prev, loose)
           /\ next \in [Nodes -> Nodes \cup {Null}]
           /\ \A n \in Nodes \ loose : next[prev[n]] = n /\ prev[next[n]] = n
           /\ \A n \in Nodes \ loose : next[n] \in Nodes \ loose /\ prev[n] \in Nodes \ loose
BY DEF Inv, TypeInv, DirectionsAgree, Undone

\* After a step there are the lists its pointers make.
LEMMA ShownAfter ==
    ASSUME Inv', NEW L, ListsAre(next', loose', L)
    PROVE  RingsInv' /\ Shown' = L
<1>1. Undone(next', prev', loose') /\ next' \in [Nodes -> Nodes \cup {Null}]
  BY DEF Inv, TypeInv, DirectionsAgree, Undone
<1>2. L = [h \in Heads \ loose' |-> <<h>> \o Visited(next', h)]
  BY <1>1, ListsShown
<1>3. Shown' = [h \in Heads \ loose' |-> <<h>> \o Visited(next', h)]
  BY DEF Shown, InUse
<1> QED  BY <1>2, <1>3 DEF RingsInv

\* The list of a head in use.
LEMMA ShownRing ==
    ASSUME RingsInv, NEW h \in InUse
    PROVE  /\ RingOf(next, loose, h, Shown[h])
           /\ Shown[h] \in Seq(Nodes) /\ Len(Shown[h]) \in Nat \ {0}
           /\ DOMAIN Shown[h] = 1 .. Len(Shown[h]) /\ Shown[h][1] = h
           /\ Ring(h) = {Shown[h][i] : i \in 1 .. Len(Shown[h])}
<1> DEFINE s == Shown[h]
           v == Visited(next, h)
<1>1. RingOf(next, loose, h, s)
  BY DEF RingsInv, ListsAre, InUse
<1>2. s \in Seq(Nodes) /\ Len(s) \in Nat \ {0} /\ DOMAIN s = 1 .. Len(s) /\ s[1] = h
  BY <1>1 DEF RingOf
<1>3. v = SubSeq(s, 2, Len(s))
  <2> HIDE DEF s
  <2> QED  BY <1>1, InvUndone, VisitedRing DEF RingsInv, InUse
<1>4. DOMAIN v = 1 .. Len(s) - 1 /\ \A i \in 1 .. Len(s) - 1 : v[i] = s[i + 1]
  <2> HIDE DEF s, v
  <2>1. /\ v \in Seq(Nodes) /\ Len(v) = IF 2 <= Len(s) THEN Len(s) - 2 + 1 ELSE 0
        /\ \A i \in 1 .. Len(s) - 2 + 1 : v[i] = s[2 + i - 1]
    BY <1>2, <1>3, SubSeqProperties
  <2> DEFINE n == Len(s)
  <2>3. n \in Nat \ {0} /\ Len(v) = IF 2 <= n THEN n - 2 + 1 ELSE 0
    BY <2>1, <1>2
  <2> HIDE DEF n
  <2>4. Len(v) = n - 1 /\ n - 2 + 1 = n - 1
    BY <2>3
  <2>2. Len(v) = Len(s) - 1 /\ Len(s) - 2 + 1 = Len(s) - 1
    BY <2>4 DEF n
  <2> QED  BY <2>1, <2>2, <1>2
<1> HIDE DEF s, v
<1>5. next[h] = IF 1 < Len(s) THEN s[2] ELSE h
  <2>1. 1 \in 1 .. Len(s)
    BY <1>2
  <2> QED  BY <2>1, <1>1, <1>2 DEF RingOf
<1>6. ASSUME NEW x \in Ring(h)
      PROVE  \E i \in 1 .. Len(s) : s[i] = x
  <2>1. CASE x = h \/ x = next[h]
    BY <2>1, <1>2, <1>5
  <2>2. CASE \E i \in DOMAIN v : x = v[i]
    BY <2>2, <1>2, <1>4
  <2> QED  BY <1>6, <2>1, <2>2 DEF Ring, v
<1>7. ASSUME NEW i \in 1 .. Len(s)
      PROVE  s[i] \in Ring(h)
  <2>1. CASE i = 1
    BY <2>1, <1>2 DEF Ring
  <2>2. CASE i # 1
    <3>1. i - 1 \in DOMAIN v /\ v[i - 1] = s[i]
      BY <2>2, <1>2, <1>4
    <3> QED  BY <3>1 DEF Ring, v
  <2> QED  BY <2>1, <2>2
<1>8. Ring(h) = {s[i] : i \in 1 .. Len(s)}
  BY <1>6, <1>7
<1> QED  BY <1>1, <1>2, <1>8 DEF s

\* A node of a list that is in use has a place there, and Lists finds it.
LEMMA ListedPlace ==
    ASSUME RingsInv, NEW at \in Nodes, Listed(at)
    PROVE  \E h \in InUse : \E k \in 1 .. Len(Shown[h]) : Shown[h][k] = at
<1>1. PICK h \in InUse : at \in Ring(h)
  BY DEF Listed, InUse
<1> QED  BY <1>1, ShownRing

LEMMA ShownOnce ==
    ASSUME RingsInv
    PROVE  \A g, h \in InUse : \A i \in 1 .. Len(Shown[g]), j \in 1 .. Len(Shown[h]) :
              Shown[g][i] = Shown[h][j] => g = h /\ i = j
<1>1. Undone(next, prev, loose) /\ ListsAre(next, loose, Shown)
  BY InvUndone DEF RingsInv
<1> QED  BY <1>1, PlaceIsOne DEF InUse

LEMMA HolderIsHead ==
    ASSUME RingsInv, NEW h \in InUse, NEW k \in 1 .. Len(Shown[h])
    PROVE  Sequence!Holder(Shown[h][k]) = h
<1>1. \A g \in InUse : Shown[h][k] \in Sequence!ToSet(Shown[g]) <=> g = h
  <2> SUFFICES ASSUME NEW g \in InUse
               PROVE  Shown[h][k] \in Sequence!ToSet(Shown[g]) <=> g = h
    OBVIOUS
  <2>1. DOMAIN Shown[g] = 1 .. Len(Shown[g])
    BY ShownRing
  <2> QED  BY <2>1, ShownOnce DEF Sequence!ToSet
<1>2. DOMAIN Shown = InUse
  BY DEF Shown
<1>3. Sequence!Holder(Shown[h][k]) = CHOOSE g \in DOMAIN Shown : Shown[h][k] \in Sequence!ToSet(Shown[g])
  BY DEF Sequence!Holder, Shown
<1> QED  BY <1>1, <1>2, <1>3

\* An element that is in no list is at no place.
LEMMA DetachedNowhere ==
    ASSUME RingsInv, NEW e \in Items, Detached(e)
    PROVE  Nowhere(loose, Shown, e)
<1> SUFFICES ASSUME NEW h \in InUse, NEW i \in 1 .. Len(Shown[h]), Shown[h][i] = e
             PROVE  FALSE
  BY DEF Nowhere, InUse
<1>1. /\ RingOf(next, loose, h, Shown[h])
      /\ Len(Shown[h]) \in Nat
  BY ShownRing
<1>2. e \notin loose /\ next[e] = IF i < Len(Shown[h]) THEN Shown[h][i + 1] ELSE h
  BY <1>1 DEF RingOf
<1>3. next[e] = e
  BY <1>2 DEF Detached, list_empty
<1>4. e # h
  BY ListAssumption DEF InUse
<1>5. i < Len(Shown[h]) => i + 1 \in 1 .. Len(Shown[h]) /\ i + 1 # i
  BY <1>1
<1> QED  BY <1>2, <1>3, <1>4, <1>5, ShownOnce

-----------------------------------------------------------------------------
(* Each function keeps the lists and changes them as its name says.         *)

\* The node before a place of a list, round its end.
LEMMA BeforePlace ==
    ASSUME NEW link, NEW back, NEW lo, Undone(link, back, lo),
           NEW h \in Heads, NEW s, RingOf(link, lo, h, s), NEW k \in 1 .. Len(s)
    PROVE  /\ Before(s, k) \in 1 .. Len(s)
           /\ link[s[Before(s, k)]] = s[k] /\ back[s[k]] = s[Before(s, k)]
<1>1. /\ Len(s) \in Nat /\ s \in Seq(Nodes) /\ s[1] = h
      /\ \A i \in 1 .. Len(s) : s[i] \in Nodes \ lo
      /\ \A i \in 1 .. Len(s) : link[s[i]] = IF i < Len(s) THEN s[i + 1] ELSE h
  BY DEF RingOf
<1>2. Before(s, k) \in 1 .. Len(s)
  BY <1>1 DEF Before
<1>3. link[s[Before(s, k)]] = s[k]
  <2>1. CASE k = 1
    BY <2>1, <1>1, <1>2 DEF Before
  <2>2. CASE k # 1
    <3>1. Before(s, k) = k - 1 /\ k - 1 < Len(s) /\ (k - 1) + 1 = k
      BY <2>2, <1>1 DEF Before
    <3> QED  BY <3>1, <1>1, <1>2
  <2> QED  BY <2>1, <2>2
<1> QED  BY <1>1, <1>2, <1>3 DEF Undone

\* What Lists does to one list, in terms of places.
LEMMA ListsInsert ==
    ASSUME RingsInv, NEW h \in InUse, NEW k \in 1 .. Len(Shown[h]), NEW t \in Seq(Nodes)
    PROVE  /\ Sequence!After(Shown[h], Shown[h][k], t) = Inserted(Shown[h], k, t)
           /\ Sequence!Before(Shown[h], Shown[h][k], t) = Inserted(Shown[h], Before(Shown[h], k), t)
<1> DEFINE s == Shown[h]
<1>1. s \in Seq(Nodes) /\ Len(s) \in Nat /\ DOMAIN s = 1 .. Len(s)
  BY ShownRing
<1>2. \A i \in 1 .. Len(s) : s[i] = s[k] => i = k
  BY ShownOnce
<1>3. k \in 1 .. Len(s)
  OBVIOUS
<1> HIDE DEF s
<1>4. Sequence!After(s, s[k], t) = Inserted(s, k, t)
  BY <1>1, <1>2, <1>3, AfterIsInserted
<1>5. Sequence!Before(s, s[k], t) = Inserted(s, Before(s, k), t)
  BY <1>1, <1>2, <1>3, BeforeIsInserted
<1> QED  BY <1>4, <1>5 DEF s

\* What an insertion behind place j of the list of h makes of the lists.
LEMMA InsertsAt ==
    ASSUME RingsInv, Inv', NEW h \in InUse, NEW j \in 1 .. Len(Shown[h]),
           NEW e \in Items, Detached(e),
           next'[e] = next[Shown[h][j]], next'[Shown[h][j]] = e,
           Relinked(next, next', {e, Shown[h][j]}), loose' = loose \ {e}
    PROVE  RingsInv' /\ Shown' = [Shown EXCEPT ![h] = Inserted(Shown[h], j, <<e>>)]
<1>1. Undone(next, prev, loose) /\ ListsAre(next, loose, Shown)
  BY InvUndone DEF RingsInv
<1>2. Nowhere(loose, Shown, e)
  BY DetachedNowhere
<1>3. h \in Heads \ loose
  BY DEF InUse
<1>4. ListsAre(next', loose \ {e}, [Shown EXCEPT ![h] = Inserted(Shown[h], j, <<e>>)])
  BY <1>1, <1>2, <1>3, InsertedLists
<1>5. ListsAre(next', loose', [Shown EXCEPT ![h] = Inserted(Shown[h], j, <<e>>)])
  BY <1>4
<1> HIDE DEF Shown
<1> QED  BY <1>5, ShownAfter

LEMMA AddLists ==
    ASSUME RingsInv, Inv', NEW e \in Items, NEW at \in Nodes,
           list_add(e, at)
    PROVE  RingsInv' /\ Sequence!InsertAfter(e, at)
<1>1. PICK h \in InUse : \E k \in 1 .. Len(Shown[h]) : Shown[h][k] = at
  BY ListedPlace DEF list_add
<1>2. PICK k \in 1 .. Len(Shown[h]) : Shown[h][k] = at
  BY <1>1
<1>3. Nowhere(loose, Shown, e) /\ Detached(e)
  BY DetachedNowhere DEF list_add
<1>4. e # at
  BY <1>2, <1>3 DEF Nowhere, InUse
<1>5. next \in [Nodes -> Nodes \cup {Null}] /\ e \in Nodes
  BY InvUndone DEF RingsInv, Nodes
<1>6. /\ next'[e] = next[at] /\ next'[at] = e
      /\ Relinked(next, next', {e, at}) /\ loose' = loose \ {e}
  BY <1>4, <1>5 DEF list_add, AddBetween, Relinked
<1>7. RingsInv' /\ Shown' = [Shown EXCEPT ![h] = Inserted(Shown[h], k, <<e>>)]
  BY <1>2, <1>3, <1>6, InsertsAt
<1>8. Sequence!After(Shown[h], at, <<e>>) = Inserted(Shown[h], k, <<e>>)
  <2>1. <<e>> \in Seq(Nodes)
    BY <1>5
  <2> QED  BY <1>2, <2>1, ListsInsert
<1>9. Sequence!Holder(at) = h
  BY <1>2, HolderIsHead
<1>10. Sequence!InsertAfter(e, at)
          <=> Shown' = [Shown EXCEPT ![Sequence!Holder(at)] = Sequence!After(@, at, <<e>>)]
  BY DEF Sequence!InsertAfter, Shown
<1> HIDE DEF Shown
<1> QED  BY <1>7, <1>8, <1>9, <1>10

LEMMA AddTailLists ==
    ASSUME RingsInv, Inv', NEW e \in Items, NEW at \in Nodes,
           list_add_tail(e, at)
    PROVE  RingsInv' /\ Sequence!InsertBefore(e, at)
<1>1. PICK h \in InUse : \E k \in 1 .. Len(Shown[h]) : Shown[h][k] = at
  BY ListedPlace DEF list_add_tail
<1>2. PICK k \in 1 .. Len(Shown[h]) : Shown[h][k] = at
  BY <1>1
<1>3. Nowhere(loose, Shown, e) /\ Detached(e)
  BY DetachedNowhere DEF list_add_tail
<1> DEFINE j == Before(Shown[h], k)
<1>4. j \in 1 .. Len(Shown[h]) /\ next[Shown[h][j]] = at /\ prev[at] = Shown[h][j]
  BY <1>2, InvUndone, ShownRing, BeforePlace DEF RingsInv, InUse
<1>5. e # at /\ e # prev[at]
  BY <1>2, <1>3, <1>4 DEF Nowhere, InUse
<1>6. next \in [Nodes -> Nodes \cup {Null}] /\ e \in Nodes /\ prev[at] \in Nodes
  <2>1. Shown[h] \in Seq(Nodes)
    BY ShownRing
  <2> QED  BY <1>4, <2>1, InvUndone DEF RingsInv, Nodes
<1>7. /\ next'[e] = at /\ next'[prev[at]] = e
      /\ Relinked(next, next', {e, prev[at]}) /\ loose' = loose \ {e}
  BY <1>5, <1>6 DEF list_add_tail, AddBetween, Relinked
<1>8. RingsInv' /\ Shown' = [Shown EXCEPT ![h] = Inserted(Shown[h], j, <<e>>)]
  <2> HIDE DEF j
  <2> QED  BY <1>3, <1>4, <1>7, InsertsAt
<1>9. Sequence!Before(Shown[h], at, <<e>>) = Inserted(Shown[h], j, <<e>>)
  <2>1. <<e>> \in Seq(Nodes)
    BY <1>6
  <2> QED  BY <1>2, <2>1, ListsInsert
<1>10. Sequence!Holder(at) = h
  BY <1>2, HolderIsHead
<1>11. Sequence!InsertBefore(e, at)
          <=> Shown' = [Shown EXCEPT ![Sequence!Holder(at)] = Sequence!Before(@, at, <<e>>)]
  BY DEF Sequence!InsertBefore, Shown
<1> HIDE DEF Shown, j
<1> QED  BY <1>8, <1>9, <1>10, <1>11

\* What taking e out makes of the lists.
LEMMA DeleteLists ==
    ASSUME RingsInv, Inv', NEW e \in Items, list_del(e) \/ list_del_init(e)
    PROVE  RingsInv' /\ Sequence!Delete(e)
<1>1. /\ Undone(next, prev, loose) /\ ListsAre(next, loose, Shown)
      /\ next \in [Nodes -> Nodes \cup {Null}]
  BY InvUndone DEF RingsInv
<1>2. /\ e \in Nodes \ loose /\ e \notin loose
      /\ loose' = loose \/ loose' = loose \cup {e}
  BY DEF list_del, list_del_init, Nodes
<1>3. next[prev[e]] = e /\ prev[e] \in Nodes
  BY <1>2, InvUndone DEF RingsInv
<1>4. next'[prev[e]] = next[e] /\ Relinked(next, next', {e, prev[e]})
  <2>1. CASE prev[e] # e
    BY <1>1, <1>2, <1>3, <2>1 DEF list_del, list_del_init, Relinked
  <2>2. CASE prev[e] = e
    <3>1. next[e] = e
      BY <1>3, <2>2
    <3> QED  BY <1>1, <1>2, <2>2, <3>1 DEF list_del, list_del_init, Relinked
  <2> QED  BY <2>1, <2>2
<1>5. ListsAre(next', loose', DroppedFrom(Shown, loose, e))
  BY <1>1, <1>2, <1>3, <1>4, LeftLists
<1>6. RingsInv' /\ Shown' = DroppedFrom(Shown, loose, e)
  BY <1>5, ShownAfter
<1>7. Sequence!Delete(e) <=> Shown' = [h \in DOMAIN Shown |-> Sequence!Dropped(Shown[h], e)]
  BY DEF Sequence!Delete, Sequence!Without, Shown
<1>8. DOMAIN Shown = Heads \ loose
  BY DEF Shown, InUse
<1> HIDE DEF Shown
<1> QED  BY <1>6, <1>7, <1>8 DEF DroppedFrom

\* A node that stays has a place in what is left of its list.
LEMMA DroppedKeeps ==
    ASSUME NEW s \in Seq(Nodes), NEW e, NEW k \in 1 .. Len(s), s[k] # e,
           \A i, j \in 1 .. Len(s) : s[i] = s[j] => i = j
    PROVE  \E m \in 1 .. Len(Sequence!Dropped(s, e)) : Sequence!Dropped(s, e)[m] = s[k]
<1>1. Len(s) \in Nat /\ DOMAIN s = 1 .. Len(s)
  OBVIOUS
<1>2. CASE e \in Sequence!ToSet(s)
  <2>1. PICK d \in 1 .. Len(s) : s[d] = e
    BY <1>1, <1>2 DEF Sequence!ToSet
  <2>2. Sequence!Index(s, s[d]) = d
    BY <1>1, IndexIsPlace
  <2> DEFINE u == Sequence!RemoveAt(s, d)
  <2>3. Sequence!Dropped(s, e) = u
    BY <1>2, <2>1, <2>2 DEF Sequence!Dropped
  <2>4. /\ Len(u) = Len(s) - 1
        /\ \A i \in 1 .. Len(s) - 1 : u[i] = IF i < d THEN s[i] ELSE s[i + 1]
    BY RemovedElements
  <2> HIDE DEF u
  <2>5. k # d
    BY <2>1
  <2>6. CASE k < d
    <3>1. k \in 1 .. Len(s) - 1 /\ u[k] = s[k]
      BY <2>4, <2>6, <1>1
    <3> QED  BY <2>3, <2>4, <3>1
  <2>7. CASE k > d
    <3>1. k - 1 \in 1 .. Len(s) - 1 /\ ~ (k - 1 < d) /\ (k - 1) + 1 = k
      BY <2>7, <1>1
    <3>2. u[k - 1] = s[k]
      BY <2>4, <3>1
    <3> QED  BY <2>3, <2>4, <3>1, <3>2
  <2> QED  BY <2>5, <2>6, <2>7, <1>1
<1>3. CASE e \notin Sequence!ToSet(s)
  BY <1>3 DEF Sequence!Dropped
<1> QED  BY <1>2, <1>3

\* Between the two halves of a move, when e has left: the pointers and the lists.
NextWithout(e) == [next EXCEPT ![prev[e]] = next[e]]
PrevWithout(e) == [prev EXCEPT ![next[e]] = prev[e]]
ShownWithout(e) == DroppedFrom(Shown, loose, e)

LEMMA MoveLeaves ==
    ASSUME RingsInv, NEW e \in Items, e \notin loose
    PROVE  /\ NextWithout(e) \in [Nodes -> Nodes \cup {Null}]
           /\ Undone(NextWithout(e), PrevWithout(e), loose \cup {e})
           /\ ListsAre(NextWithout(e), loose \cup {e}, ShownWithout(e))
           /\ Nowhere(loose \cup {e}, ShownWithout(e), e)
<1>1. /\ Undone(next, prev, loose) /\ ListsAre(next, loose, Shown)
      /\ next \in [Nodes -> Nodes \cup {Null}] /\ prev \in [Nodes -> Nodes \cup {Null}]
  BY InvUndone DEF RingsInv, Inv, TypeInv
<1>2. e \in Nodes \ loose
  BY DEF Nodes
<1>3. /\ next[prev[e]] = e /\ prev[next[e]] = e
      /\ next[e] \in Nodes \ loose /\ prev[e] \in Nodes \ loose
  BY <1>2, InvUndone DEF RingsInv
<1>4. NextWithout(e) \in [Nodes -> Nodes \cup {Null}]
  BY <1>1, <1>3 DEF NextWithout
<1>5. Undone(NextWithout(e), PrevWithout(e), loose \cup {e})
  <2> SUFFICES ASSUME NEW n \in Nodes \ (loose \cup {e})
               PROVE  PrevWithout(e)[NextWithout(e)[n]] = n
    BY DEF Undone
  <2>1. /\ next[n] \in Nodes \ loose /\ prev[next[n]] = n
    BY InvUndone DEF RingsInv
  <2>2. CASE n = prev[e]
    BY <1>1, <1>3, <2>2 DEF NextWithout, PrevWithout
  <2>3. CASE n # prev[e]
    <3>1. NextWithout(e)[n] = next[n]
      BY <1>1, <2>3 DEF NextWithout
    <3>2. next[n] # next[e]
      BY <2>1, <1>3
    <3> QED  BY <1>1, <2>1, <3>1, <3>2 DEF PrevWithout
  <2> QED  BY <2>2, <2>3
<1>6. ListsAre(NextWithout(e), loose \cup {e}, ShownWithout(e))
  <2>1. NextWithout(e)[prev[e]] = next[e] /\ Relinked(next, NextWithout(e), {e, prev[e]})
    BY <1>1, <1>3 DEF NextWithout, Relinked
  <2> QED  BY <1>1, <1>2, <1>3, <2>1, LeftLists DEF ShownWithout
<1>7. Nowhere(loose \cup {e}, ShownWithout(e), e)
  BY <1>6 DEF ListsAre, RingOf, Nowhere
<1> QED  BY <1>4, <1>5, <1>6, <1>7

\* Where at is when e has left.
LEMMA MovePlace ==
    ASSUME RingsInv, NEW e \in Items, e \notin loose,
           NEW at \in Nodes, Listed(at), at # e
    PROVE  \E h \in InUse : \E k \in 1 .. Len(ShownWithout(e)[h]) :
                ShownWithout(e)[h][k] = at /\ Sequence!Holder(at) = h
<1>1. PICK h \in InUse : \E k \in 1 .. Len(Shown[h]) : Shown[h][k] = at
  BY ListedPlace
<1>2. PICK k \in 1 .. Len(Shown[h]) : Shown[h][k] = at
  BY <1>1
<1>3. Sequence!Holder(at) = h
  BY <1>2, HolderIsHead
<1> DEFINE s == Shown[h]
<1>4. /\ s \in Seq(Nodes) /\ k \in 1 .. Len(s) /\ s[k] # e
      /\ \A i, j \in 1 .. Len(s) : s[i] = s[j] => i = j
  BY <1>2, ShownRing, ShownOnce
<1>5. ShownWithout(e)[h] = Sequence!Dropped(s, e)
  BY DEF ShownWithout, DroppedFrom, InUse
<1> HIDE DEF s
<1>6. \E m \in 1 .. Len(Sequence!Dropped(s, e)) : Sequence!Dropped(s, e)[m] = s[k]
  BY <1>4, DroppedKeeps
<1> QED  BY <1>2, <1>3, <1>5, <1>6 DEF s

LEMMA WithoutIsDropped ==
    ASSUME RingsInv, NEW e \in Items
    PROVE  /\ Sequence!Without(e) = ShownWithout(e)
           /\ DOMAIN ShownWithout(e) = InUse
BY DEF Sequence!Without, ShownWithout, DroppedFrom, Shown, InUse

LEMMA MoveLists ==
    ASSUME RingsInv, Inv', NEW e \in Items, NEW at \in Nodes, list_move(e, at)
    PROVE  RingsInv' /\ Sequence!MoveAfter(e, at)
<1>1. e \notin loose /\ Listed(at) /\ at # e /\ loose' = loose
  BY DEF list_move
<1> DEFINE link == NextWithout(e)
           back == PrevWithout(e)
           lo == loose \cup {e}
           L == ShownWithout(e)
           t == <<e>>
<1>2. PICK h \in InUse : \E k \in 1 .. Len(L[h]) : L[h][k] = at /\ Sequence!Holder(at) = h
  BY <1>1, MovePlace
<1>3. PICK k \in 1 .. Len(L[h]) : L[h][k] = at /\ Sequence!Holder(at) = h
  BY <1>2
<1>4. /\ link \in [Nodes -> Nodes \cup {Null}]
      /\ Undone(link, back, lo) /\ ListsAre(link, lo, L) /\ Nowhere(lo, L, e)
  BY <1>1, MoveLeaves
<1>5. e \in Nodes /\ t \in Seq(Nodes)
  BY DEF Nodes
<1>6. h \in Heads \ lo
  BY ListAssumption DEF InUse
<1>7. next' = [link EXCEPT ![e] = link[at], ![at] = e]
  BY DEF list_move, NextWithout
<1>8. lo \ {e} = loose'
  BY <1>1
<1> HIDE DEF link, back, lo, L
<1>9. next'[e] = link[at] /\ next'[at] = e /\ Relinked(link, next', {e, at})
  BY <1>1, <1>4, <1>5, <1>7 DEF Relinked
<1>10. ListsAre(next', lo \ {e}, [L EXCEPT ![h] = Inserted(L[h], k, t)])
  BY <1>3, <1>4, <1>6, <1>9, InsertedLists
<1>11. RingsInv' /\ Shown' = [L EXCEPT ![h] = Inserted(L[h], k, t)]
  <2> DEFINE L2 == [L EXCEPT ![h] = Inserted(L[h], k, t)]
  <2>1. ListsAre(next', loose', L2)
    BY <1>8, <1>10
  <2> HIDE DEF L2
  <2>2. RingsInv' /\ Shown' = L2
    BY <2>1, ShownAfter
  <2> QED  BY <2>2 DEF L2
<1>12. Sequence!After(L[h], at, t) = Inserted(L[h], k, t)
  <2> DEFINE s == L[h]
  <2>1. DOMAIN s = 1 .. Len(s) /\ Len(s) \in Nat
    BY <1>4, <1>6 DEF ListsAre, RingOf
  <2>2. \A i \in 1 .. Len(s) : s[i] = s[k] => i = k
    BY <1>3, <1>4, <1>6, PlaceIsOne
  <2>3. s[k] = at /\ k \in 1 .. Len(s)
    BY <1>3
  <2> HIDE DEF s, t
  <2>4. Sequence!After(s, s[k], t) = Inserted(s, k, t)
    BY <2>1, <2>2, <2>3, AfterIsInserted
  <2> QED  BY <2>3, <2>4 DEF s
<1>13. Sequence!MoveAfter(e, at)
          <=> Shown' = [L EXCEPT ![Sequence!Holder(at)] = Sequence!After(@, at, t)]
  <2>1. Sequence!Without(e) = L
    BY WithoutIsDropped DEF L
  <2> QED  BY <2>1 DEF Sequence!MoveAfter, Shown
<1> HIDE DEF Shown, t
<1> QED  BY <1>3, <1>11, <1>12, <1>13

LEMMA MoveTailLists ==
    ASSUME RingsInv, Inv', NEW e \in Items, NEW at \in Nodes, list_move_tail(e, at)
    PROVE  RingsInv' /\ Sequence!MoveBefore(e, at)
<1>1. e \notin loose /\ Listed(at) /\ at # e /\ loose' = loose
  BY DEF list_move_tail
<1> DEFINE link == NextWithout(e)
           back == PrevWithout(e)
           lo == loose \cup {e}
           L == ShownWithout(e)
           t == <<e>>
<1>2. PICK h \in InUse : \E k \in 1 .. Len(L[h]) : L[h][k] = at /\ Sequence!Holder(at) = h
  BY <1>1, MovePlace
<1>3. PICK k \in 1 .. Len(L[h]) : L[h][k] = at /\ Sequence!Holder(at) = h
  BY <1>2
<1>4. /\ link \in [Nodes -> Nodes \cup {Null}]
      /\ Undone(link, back, lo) /\ ListsAre(link, lo, L) /\ Nowhere(lo, L, e)
  BY <1>1, MoveLeaves
<1>5. e \in Nodes /\ t \in Seq(Nodes)
  BY DEF Nodes
<1>6. h \in Heads \ lo
  BY ListAssumption DEF InUse
<1>7. next' = [link EXCEPT ![e] = at, ![back[at]] = e]
  BY DEF list_move_tail, NextWithout, PrevWithout
<1>8. lo \ {e} = loose'
  BY <1>1
<1> HIDE DEF link, back, lo, L
<1> DEFINE s == L[h]
           j == Before(s, k)
<1>9. /\ RingOf(link, lo, h, s) /\ s \in Seq(Nodes) /\ k \in 1 .. Len(s) /\ s[k] = at
      /\ \A i \in 1 .. Len(s) : s[i] = s[k] => i = k
  <2>1. RingOf(link, lo, h, s)
    BY <1>4, <1>6 DEF ListsAre
  <2>2. \A i \in 1 .. Len(s) : s[i] = s[k] => i = k
    BY <1>3, <1>4, <1>6, PlaceIsOne
  <2>3. s \in Seq(Nodes)
    BY <2>1 DEF RingOf
  <2> QED  BY <1>3, <2>1, <2>2, <2>3
<1>10. j \in 1 .. Len(s) /\ link[s[j]] = at /\ back[at] = s[j]
  <2> HIDE DEF s
  <2> QED  BY <1>4, <1>6, <1>9, BeforePlace
<1>11. s[j] # e /\ s[j] \in Nodes
  BY <1>4, <1>6, <1>9, <1>10 DEF Nowhere
<1> HIDE DEF j
<1>12. next'[e] = link[s[j]] /\ next'[s[j]] = e /\ Relinked(link, next', {e, s[j]})
  BY <1>4, <1>5, <1>7, <1>10, <1>11 DEF Relinked
<1>13. ListsAre(next', lo \ {e}, [L EXCEPT ![h] = Inserted(L[h], j, t)])
  BY <1>4, <1>6, <1>10, <1>12, InsertedLists
<1>14. RingsInv' /\ Shown' = [L EXCEPT ![h] = Inserted(L[h], j, t)]
  <2> DEFINE L2 == [L EXCEPT ![h] = Inserted(L[h], j, t)]
  <2>1. ListsAre(next', loose', L2)
    BY <1>8, <1>13
  <2> HIDE DEF L2
  <2>2. RingsInv' /\ Shown' = L2
    BY <2>1, ShownAfter
  <2> QED  BY <2>2 DEF L2
<1>15. Sequence!Before(L[h], at, t) = Inserted(L[h], j, t)
  <2> HIDE DEF s, t
  <2>1. Sequence!Before(s, s[k], t) = Inserted(s, j, t)
    BY <1>5, <1>9, BeforeIsInserted DEF j
  <2> QED  BY <2>1, <1>9 DEF s
<1>16. Sequence!MoveBefore(e, at)
          <=> Shown' = [L EXCEPT ![Sequence!Holder(at)] = Sequence!Before(@, at, t)]
  <2>1. Sequence!Without(e) = L
    BY WithoutIsDropped DEF L
  <2> QED  BY <2>1 DEF Sequence!MoveBefore, Shown
<1> HIDE DEF Shown, t, s
<1> QED  BY <1>3, <1>14, <1>15, <1>16

\* An element that takes the place of another takes it in the list.
LEMMA ReplaceItemLists ==
    ASSUME RingsInv, Inv', NEW old \in Items, NEW new \in Items, old # new,
           list_replace(old, new) \/ list_replace_init(old, new)
    PROVE  RingsInv' /\ Sequence!ReplaceItem(old, new)
<1>1. /\ Undone(next, prev, loose) /\ ListsAre(next, loose, Shown)
      /\ next \in [Nodes -> Nodes \cup {Null}] /\ prev \in [Nodes -> Nodes \cup {Null}]
  BY InvUndone DEF RingsInv, Inv, TypeInv
<1>2. /\ old \notin loose /\ Detached(new) /\ old \in Nodes /\ new \in Nodes
      /\ loose' = loose \ {new} \/ loose' = (loose \ {new}) \cup {old}
  BY DEF list_replace, list_replace_init, Nodes
<1>3. next[prev[old]] = old /\ prev[old] \in Nodes \ loose /\ next[old] \in Nodes
  BY <1>2, InvUndone DEF RingsInv
<1>4. Nowhere(loose, Shown, new)
  BY <1>2, DetachedNowhere
<1>5. /\ prev[old] # old => next'[prev[old]] = new /\ next'[new] = next[old]
      /\ Relinked(next, next', {old, new, prev[old]})
  <2> DEFINE prev1 == [prev EXCEPT ![next[old]] = new]
  <2>1. /\ prev1[old] = IF next[old] = old THEN new ELSE prev[old]
        /\ prev1[old] \in Nodes
    BY <1>1, <1>2, <1>3
  <2>2. \/ next' = [next EXCEPT ![new] = next[old], ![prev1[old]] = new]
        \/ next' = [next EXCEPT ![new] = next[old], ![prev1[old]] = new, ![old] = old]
    BY DEF list_replace, list_replace_init, Replace
  <2> HIDE DEF prev1
  <2>3. prev[old] # old => prev1[old] = prev[old] /\ prev[old] # new
    <3>1. prev[old] = new => new \notin loose /\ next[new] = old
      BY <1>3
    <3>2. prev[old] # new
      BY <3>1, <1>2 DEF Detached, list_empty
    <3>3. next[old] = old => prev[old] = old
      BY <1>2, InvUndone DEF RingsInv
    <3> QED  BY <2>1, <3>2, <3>3
  <2>4. next[old] = old => prev[old] = old
    BY <1>2, InvUndone DEF RingsInv
  <2> QED  BY <1>1, <1>2, <1>3, <2>1, <2>2, <2>3 DEF Relinked
<1> DEFINE L2 == RenamedIn(Shown, loose, old, new)
<1>6. ListsAre(next', loose', L2)
  <2> DEFINE lo2 == loose'
             link2 == next'
  <2>1. lo2 = loose \ {new} \/ lo2 = (loose \ {new}) \cup {old}
    BY <1>2
  <2>2. /\ prev[old] # old => link2[prev[old]] = new /\ link2[new] = next[old]
        /\ Relinked(next, link2, {old, new, prev[old]})
    BY <1>5
  <2> HIDE DEF lo2, link2
  <2>3. ListsAre(link2, lo2, L2)
    BY <1>1, <1>2, <1>3, <1>4, <2>1, <2>2, RenamedLists
  <2> QED  BY <2>3 DEF lo2, link2
<1> HIDE DEF L2
<1>7. RingsInv' /\ Shown' = L2
  BY <1>6, ShownAfter
<1>8. Sequence!ReplaceItem(old, new)
         <=> Shown' = [h \in DOMAIN Shown |-> Sequence!Renamed(Shown[h], old, new)]
  BY DEF Sequence!ReplaceItem, Shown
<1>9. DOMAIN Shown = Heads \ loose
  BY DEF Shown, InUse
<1> HIDE DEF Shown
<1> QED  BY <1>7, <1>8, <1>9 DEF L2, RenamedIn

\* A head that takes the place of another takes over its elements.
LEMMA ReplaceHeadLists ==
    ASSUME RingsInv, Inv', NEW old \in Heads, NEW new \in Heads, old # new,
           list_replace(old, new) \/ list_replace_init(old, new)
    PROVE  /\ RingsInv'
           /\ list_replace(old, new)
                => Sequence!ReplaceHead(old, new, (InUse \ {old}) \cup {new})
           /\ list_replace_init(old, new)
                => Sequence!ReplaceHead(old, new, InUse \cup {new})
<1>1. /\ Undone(next, prev, loose) /\ ListsAre(next, loose, Shown)
      /\ next \in [Nodes -> Nodes \cup {Null}] /\ prev \in [Nodes -> Nodes \cup {Null}]
  BY InvUndone DEF RingsInv, Inv, TypeInv
<1>2. /\ old \in Heads \ loose /\ old \in Nodes /\ new \in Nodes
      /\ new \in loose \/ next[new] = new
  BY DEF list_replace, list_replace_init, Nodes, Detached, list_empty
<1>3. /\ next[prev[old]] = old /\ prev[next[old]] = old
      /\ prev[old] \in Nodes \ loose /\ next[old] \in Nodes \ loose
  BY <1>2, InvUndone DEF RingsInv
<1> DEFINE prev1 == [prev EXCEPT ![next[old]] = new]
<1>4. /\ prev1[old] = IF next[old] = old THEN new ELSE prev[old]
      /\ prev1[old] \in Nodes
  BY <1>1, <1>2, <1>3
<1>5. prev[old] # new /\ next[old] # new
  <2>1. prev[old] = new => next[new] = old
    BY <1>3
  <2>2. next[old] = new => prev[new] = old /\ new \notin loose
    BY <1>3
  <2>3. next[new] = new /\ new \notin loose => prev[new] = new
    BY <1>2, InvUndone DEF RingsInv
  <2> QED  BY <1>2, <1>3, <2>1, <2>2, <2>3
<1>6. \/ /\ list_replace(old, new)
         /\ next' = [next EXCEPT ![new] = next[old], ![prev1[old]] = new]
         /\ loose' = (loose \ {new}) \cup {old}
      \/ /\ list_replace_init(old, new)
         /\ next' = [next EXCEPT ![new] = next[old], ![prev1[old]] = new, ![old] = old]
         /\ loose' = loose \ {new}
  BY DEF list_replace, list_replace_init, Replace
<1> HIDE DEF prev1
<1>7. /\ next'[new] = IF next[old] = old THEN new ELSE next[old]
      /\ next[old] # old => next'[prev[old]] = new
      /\ Relinked(next, next', {old, new, prev[old]})
  <2>1. next[old] # old => prev[old] # old
    BY <1>3
  <2> QED  BY <1>1, <1>2, <1>3, <1>4, <1>5, <1>6, <2>1 DEF Relinked
<1>8. \/ loose' = (loose \ {new}) \cup {old}
      \/ loose' = loose \ {new} /\ next'[old] = old
  BY <1>1, <1>2, <1>6
<1> DEFINE L2(heads) == HeadReplacedIn(Shown, heads, old, new)
<1>9. ListsAre(next', loose', L2(Heads \ loose'))
  <2> DEFINE lo2 == loose'
             link2 == next'
  <2>1. /\ link2[new] = IF next[old] = old THEN new ELSE next[old]
        /\ next[old] # old => link2[prev[old]] = new
        /\ Relinked(next, link2, {old, new, prev[old]})
        /\ \/ lo2 = (loose \ {new}) \cup {old}
           \/ lo2 = loose \ {new} /\ link2[old] = old
    BY <1>7, <1>8
  <2> HIDE DEF lo2, link2
  <2>2. ListsAre(link2, lo2, L2(Heads \ lo2))
    BY <1>1, <1>2, <1>3, <2>1, HeadReplacedLists
  <2> QED  BY <2>2 DEF lo2, link2
<1>10. RingsInv' /\ Shown' = L2(Heads \ loose')
  <2> DEFINE M == L2(Heads \ loose')
  <2>1. ListsAre(next', loose', M)
    BY <1>9
  <2> HIDE DEF M
  <2>2. RingsInv' /\ Shown' = M
    BY <2>1, ShownAfter
  <2> QED  BY <2>2 DEF M
<1>11. /\ Sequence!ReplaceHead(old, new, (InUse \ {old}) \cup {new})
             <=> Shown' = L2((InUse \ {old}) \cup {new})
       /\ Sequence!ReplaceHead(old, new, InUse \cup {new}) <=> Shown' = L2(InUse \cup {new})
  BY DEF Sequence!ReplaceHead, Shown, HeadReplacedIn
<1>12. /\ loose' = (loose \ {new}) \cup {old} => Heads \ loose' = (InUse \ {old}) \cup {new}
       /\ loose' = loose \ {new} => Heads \ loose' = InUse \cup {new}
  BY DEF InUse
<1>13. list_replace(old, new) => loose' = (loose \ {new}) \cup {old}
  BY DEF list_replace
<1>14. list_replace_init(old, new) => loose' = loose \ {new}
  BY DEF list_replace_init
<1> HIDE DEF L2, Shown
<1>15. RingsInv'
  BY <1>10
<1>16. ASSUME list_replace(old, new)
       PROVE  Sequence!ReplaceHead(old, new, (InUse \ {old}) \cup {new})
  <2>1. Shown' = L2((InUse \ {old}) \cup {new})
    BY <1>10, <1>12, <1>13, <1>16
  <2> QED  BY <2>1, <1>11
<1>17. ASSUME list_replace_init(old, new)
       PROVE  Sequence!ReplaceHead(old, new, InUse \cup {new})
  <2>1. Shown' = L2(InUse \cup {new})
    BY <1>10, <1>12, <1>14, <1>17
  <2> QED  BY <2>1, <1>11
<1> QED  BY <1>15, <1>16, <1>17

\* Initialising a detached node makes an empty list of a head, and leaves the
\* lists alone otherwise.
LEMMA InitLists ==
    ASSUME RingsInv, Inv', NEW n \in Nodes, INIT_LIST_HEAD(n)
    PROVE  RingsInv' /\ (n \in Heads => Sequence!Empty(n))
<1>1. /\ Undone(next, prev, loose) /\ ListsAre(next, loose, Shown)
      /\ next \in [Nodes -> Nodes \cup {Null}]
  BY InvUndone DEF RingsInv
<1>2. n \in loose \/ next[n] = n
  BY DEF INIT_LIST_HEAD, Detached, list_empty
<1>3. next'[n] = n /\ Relinked(next, next', {n}) /\ loose' = loose \ {n}
  BY <1>1 DEF INIT_LIST_HEAD, Relinked
<1>4. n \in Heads \/ Nowhere(loose, Shown, n)
  BY DetachedNowhere DEF Nodes, INIT_LIST_HEAD
<1> DEFINE L2 == [h \in Heads \ (loose \ {n}) |-> IF h = n THEN <<n>> ELSE Shown[h]]
<1>5. ListsAre(next', loose', L2)
  <2> DEFINE link2 == next'
  <2>1. link2[n] = n /\ Relinked(next, link2, {n})
    BY <1>3
  <2> HIDE DEF link2
  <2>2. ListsAre(link2, loose \ {n}, L2)
    BY <1>1, <1>2, <1>4, <2>1, EmptiedLists
  <2> QED  BY <2>2, <1>3 DEF link2
<1> HIDE DEF L2
<1>6. RingsInv' /\ Shown' = L2
  BY <1>5, ShownAfter
<1>7. Sequence!Empty(n)
         <=> Shown' = [g \in DOMAIN Shown \cup {n} |-> IF g = n THEN <<n>> ELSE Shown[g]]
  BY DEF Sequence!Empty, Shown
<1>8. n \in Heads => DOMAIN Shown \cup {n} = Heads \ (loose \ {n})
  BY DEF Shown, InUse
<1> HIDE DEF Shown
<1> QED  BY <1>6, <1>7, <1>8 DEF L2

\* A list cut at its head is left whole, and at an element in two.
LEMMA CutPositionLists ==
    ASSUME RingsInv, Inv', NEW l \in Heads, NEW h \in Heads, NEW e \in Nodes, l # h,
           list_cut_position(l, h, e)
    PROVE  RingsInv' /\ (~ list_empty(h) => Sequence!Cut(l, h, e))
<1>1. h \in InUse /\ h \in Heads \ loose /\ Detached(l) /\ e \in Ring(h) /\ e # l
  BY DEF list_cut_position, InUse
<1> DEFINE s == Shown[h]
<1>2. PICK k \in 1 .. Len(s) : s[k] = e
  BY <1>1, ShownRing
<1>3. /\ RingOf(next, loose, h, s) /\ s \in Seq(Nodes) /\ Len(s) \in Nat \ {0}
      /\ DOMAIN s = 1 .. Len(s) /\ s[1] = h
  BY <1>1, ShownRing
<1>4. \A i, j \in 1 .. Len(s) : s[i] = s[j] => i = j
  BY <1>1, ShownOnce
<1>5. Sequence!Index(s, e) = k
  <2> HIDE DEF s
  <2> QED  BY <1>2, <1>3, <1>4, IndexIsPlace
<1>6. Sequence!Cut(l, h, e) <=> Shown' = CutIn(Shown, DOMAIN Shown \cup {l}, l, h, k)
  <2>1. Sequence!Cut(l, h, e)
          <=> Shown' = [g \in DOMAIN Shown \cup {l} |->
                CASE g = l -> <<l>> \o SubSeq(Shown[h], 2, Sequence!Index(Shown[h], e))
                  [] g = h -> <<h>> \o SubSeq(Shown[h], Sequence!Index(Shown[h], e) + 1, Len(Shown[h]))
                  [] OTHER -> Shown[g]]
    BY DEF Sequence!Cut, Shown
  <2> HIDE DEF Shown
  <2> QED  BY <2>1, <1>5 DEF CutIn
<1>7. DOMAIN Shown \cup {l} = Heads \ (loose \ {l})
  BY DEF Shown, InUse
<1>8. CASE list_empty(h)
  <2>1. UNCHANGED vars
    BY <1>8 DEF list_cut_position
  <2>2. next' = next /\ loose' = loose
    BY <2>1 DEF vars
  <2>3. ListsAre(next', loose', Shown)
    BY <2>2 DEF RingsInv
  <2> HIDE DEF Shown
  <2>4. RingsInv'
    BY <2>3, ShownAfter
  <2> QED  BY <2>4, <1>8
<1>9. CASE ~ list_empty(h) /\ e = h
  <2>1. INIT_LIST_HEAD(l) /\ l \in Nodes
    BY <1>9 DEF list_cut_position, Nodes
  <2>2. RingsInv' /\ Sequence!Empty(l)
    BY <2>1, InitLists
  <2>3. Shown' = [g \in DOMAIN Shown \cup {l} |-> IF g = l THEN <<l>> ELSE Shown[g]]
    BY <2>2 DEF Sequence!Empty, Shown
  <2>4. k = 1
    BY <1>2, <1>3, <1>4, <1>9
  <2>5. <<l>> \o SubSeq(s, 2, k) = <<l>>
    <3>1. SubSeq(s, 2, k) = <<>>
      BY <1>3, <2>4, SubSeqEmpty
    <3>2. <<l>> \in Seq(Nodes)
      BY DEF Nodes
    <3> QED  BY <3>1, <3>2, ConcatEmptySeq
  <2>6. <<h>> \o SubSeq(s, k + 1, Len(s)) = s
    <3> DEFINE u == <<h>> \o SubSeq(s, 2, Len(s))
    <3>1. /\ u \in Seq(Nodes) /\ Len(u) = Len(s) - 2 + 2
          /\ \A i \in 1 .. Len(s) - 2 + 2 : u[i] = IF i = 1 THEN h ELSE s[2 + i - 2]
      <4>1. h \in Nodes /\ 1 <= 2 /\ Len(s) <= Len(s) /\ 2 <= Len(s) + 1 /\ Len(s) \in Nat
        BY <1>3 DEF Nodes
      <4> HIDE DEF s
      <4> QED  BY <4>1, <1>3, HeadedElements
    <3> HIDE DEF s, u
    <3>2. Len(u) = Len(s) /\ \A i \in 1 .. Len(s) : u[i] = s[i]
      BY <3>1, <1>3
    <3>3. u = s
      BY <3>1, <3>2, <1>3
    <3> QED  BY <3>3, <2>4 DEF u
  <2>7. Shown' = CutIn(Shown, DOMAIN Shown \cup {l}, l, h, k)
    <3> HIDE DEF Shown
    <3> QED  BY <2>3, <2>5, <2>6 DEF CutIn
  <2> QED  BY <2>2, <2>7, <1>6
<1>10. CASE ~ list_empty(h) /\ e # h
  <2>1. CutAt(l, h, e)
    BY <1>10 DEF list_cut_position
  <2>2. /\ Undone(next, prev, loose) /\ ListsAre(next, loose, Shown)
        /\ next \in [Nodes -> Nodes \cup {Null}]
    BY InvUndone DEF RingsInv
  <2>3. l \in loose \/ next[l] = l
    BY <1>1 DEF Detached, list_empty
  <2>4. /\ next'[l] = next[h] /\ next'[e] = l /\ next'[h] = next[e]
        /\ Relinked(next, next', {l, h, e}) /\ loose' = loose \ {l}
    BY <1>1, <1>10, <2>1, <2>2 DEF CutAt, Relinked, Nodes
  <2>5. k \in 2 .. Len(s)
    BY <1>2, <1>3, <1>10
  <2>6. ListsAre(next', loose \ {l}, CutIn(Shown, Heads \ (loose \ {l}), l, h, k))
    <3> DEFINE link2 == next'
    <3>1. /\ link2[l] = next[h] /\ link2[s[k]] = l /\ link2[h] = next[s[k]]
          /\ Relinked(next, link2, {l, h, s[k]})
      BY <2>4, <1>2
    <3> HIDE DEF link2, Shown
    <3>2. ListsAre(link2, loose \ {l}, CutIn(Shown, Heads \ (loose \ {l}), l, h, k))
      BY <1>1, <2>2, <2>3, <2>5, <3>1, CutLists
    <3> QED  BY <3>2 DEF link2
  <2> DEFINE M == CutIn(Shown, Heads \ (loose \ {l}), l, h, k)
  <2>7. ListsAre(next', loose', M)
    BY <2>4, <2>6
  <2> HIDE DEF M
  <2>8. RingsInv' /\ Shown' = M
    BY <2>7, ShownAfter
  <2> HIDE DEF Shown
  <2> QED  BY <2>8, <1>6, <1>7 DEF M
<1> QED  BY <1>8, <1>9, <1>10

\* What joining the elements of l behind place k of the list of h makes of the
\* lists, and that it is what Lists says.
LEMMA JoinsAt ==
    ASSUME RingsInv, Inv', NEW l \in InUse, NEW h \in InUse, h # l, ~ list_empty(l),
           NEW k \in 1 .. Len(Shown[h]),
           next'[Shown[h][k]] = next[l], next'[prev[l]] = next[Shown[h][k]],
           Relinked(next, next', {l, Shown[h][k], prev[l]}),
           loose' = loose \cup {l} \/ (loose' = loose /\ next'[l] = l)
    PROVE  RingsInv' /\ Shown' = JoinedIn(Shown, Heads \ loose', l, h, k)
<1>1. Undone(next, prev, loose) /\ ListsAre(next, loose, Shown)
  BY InvUndone DEF RingsInv
<1>2. /\ l \in Heads \ loose /\ h \in Heads \ loose
      /\ next[l] # l /\ next[prev[l]] = l
  BY InvUndone DEF RingsInv, InUse, Nodes, list_empty
<1> DEFINE M == JoinedIn(Shown, Heads \ loose', l, h, k)
<1>3. ListsAre(next', loose', M)
  <2> DEFINE link2 == next'
             lo2 == loose'
  <2>1. /\ link2[Shown[h][k]] = next[l] /\ link2[prev[l]] = next[Shown[h][k]]
        /\ Relinked(next, link2, {l, Shown[h][k], prev[l]})
        /\ lo2 = loose \cup {l} \/ (lo2 = loose /\ link2[l] = l)
    OBVIOUS
  <2>2. k \in 1 .. Len(Shown[h])
    OBVIOUS
  <2> HIDE DEF link2, lo2, Shown
  <2>3. ListsAre(link2, lo2, JoinedIn(Shown, Heads \ lo2, l, h, k))
    BY <1>1, <1>2, <2>1, <2>2, JoinedLists
  <2> QED  BY <2>3 DEF link2, lo2
<1> HIDE DEF M
<1>4. RingsInv' /\ Shown' = M
  BY <1>3, ShownAfter
<1> QED  BY <1>4 DEF M

\* What Lists makes of the lists when the elements of l join another.
JoinedAfter(l, x, heads) ==
    [g \in heads |-> CASE g = l -> <<l>>
                      [] g = Sequence!Holder(x) -> Sequence!After(Shown[g], x, Tail(Shown[l]))
                      [] OTHER -> Shown[g]]
JoinedBefore(l, x, heads) ==
    [g \in heads |-> CASE g = l -> <<l>>
                      [] g = Sequence!Holder(x) -> Sequence!Before(Shown[g], x, Tail(Shown[l]))
                      [] OTHER -> Shown[g]]

\* It joins them behind a place, or behind the place before.
LEMMA ListsJoin ==
    ASSUME RingsInv, NEW l \in InUse, NEW h \in InUse, h # l, NEW k \in 1 .. Len(Shown[h]),
           NEW heads
    PROVE  /\ JoinedAfter(l, Shown[h][k], heads) = JoinedIn(Shown, heads, l, h, k)
           /\ JoinedBefore(l, Shown[h][k], heads)
                 = JoinedIn(Shown, heads, l, h, Before(Shown[h], k))
<1> DEFINE at == Shown[h][k]
           t == Tail(Shown[l])
<1>1. Sequence!Holder(at) = h
  BY HolderIsHead
<1>2. t \in Seq(Nodes)
  <2>1. Shown[l] \in Seq(Nodes) /\ Len(Shown[l]) \in Nat \ {0}
    BY ShownRing
  <2> HIDE DEF Shown
  <2> QED  BY <2>1, HeadTailProperties
<1>3. /\ Sequence!After(Shown[h], at, t) = Inserted(Shown[h], k, t)
      /\ Sequence!Before(Shown[h], at, t) = Inserted(Shown[h], Before(Shown[h], k), t)
  <2> HIDE DEF t
  <2> QED  BY <1>2, ListsInsert
<1> HIDE DEF at, Shown
<1>4. JoinedAfter(l, at, heads) = JoinedIn(Shown, heads, l, h, k)
  BY <1>1, <1>3 DEF JoinedIn, JoinedAfter
<1>5. JoinedBefore(l, at, heads) = JoinedIn(Shown, heads, l, h, Before(Shown[h], k))
  BY <1>1, <1>3 DEF JoinedIn, JoinedBefore
<1> QED  BY <1>4, <1>5 DEF at

\* A list with no elements adds none.
LEMMA JoinsNothing ==
    ASSUME RingsInv, NEW l \in InUse, NEW h \in InUse, h # l, list_empty(l),
           NEW k \in 1 .. Len(Shown[h])
    PROVE  Shown = JoinedIn(Shown, InUse, l, h, k)
<1>1. /\ RingOf(next, loose, l, Shown[l]) /\ Shown[l] \in Seq(Nodes)
      /\ Len(Shown[l]) \in Nat \ {0} /\ Shown[l][1] = l
      /\ Shown[h] \in Seq(Nodes) /\ Len(Shown[h]) \in Nat
  BY ShownRing
<1> DEFINE s == Shown[l]
           n == Len(s)
<1>2. n = 1
  <2>1. 1 \in 1 .. n /\ (n # 1 => 1 < n /\ 2 \in 1 .. n /\ 2 # 1)
    <3>1. n \in Nat \ {0}
      BY <1>1
    <3> HIDE DEF n
    <3> QED  BY <3>1
  <2>2. next[s[1]] = IF 1 < n THEN s[2] ELSE l
    BY <1>1, <2>1 DEF RingOf
  <2>3. n # 1 => s[2] = s[1]
    BY <1>1, <2>1, <2>2 DEF list_empty
  <2> QED  BY <2>1, <2>3, ShownOnce
<1> HIDE DEF s
<1>3. s = <<l>> /\ Tail(s) = <<>>
  <2>1. s \in Seq(Nodes) /\ Len(s) = 1 /\ s[1] = l
    BY <1>1, <1>2 DEF s
  <2>2. s = <<l>>
    BY <2>1
  <2> QED  BY <2>2
<1>4. Inserted(Shown[h], k, <<>>) = Shown[h]
  BY <1>1, InsertedNothing
<1>5. Shown = [g \in InUse |-> Shown[g]]
  BY DEF Shown
<1>6. Shown[l] = <<l>> /\ Tail(Shown[l]) = <<>>
  BY <1>3 DEF s
<1> HIDE DEF Shown
<1>7. [g \in InUse |-> Shown[g]] = JoinedIn(Shown, InUse, l, h, k)
  BY <1>4, <1>6 DEF JoinedIn
<1> QED  BY <1>5, <1>7

\* The list of a node that is apart from those of l.
LEMMA ApartPlace ==
    ASSUME RingsInv, NEW l \in Heads, NEW at \in Nodes, Apart(l, at)
    PROVE  /\ l \in InUse
           /\ \E h \in InUse \ {l} : \E k \in 1 .. Len(Shown[h]) : Shown[h][k] = at
<1>1. l \in InUse /\ Listed(at) /\ at \in Ring(at)
  BY DEF Apart, InUse, Ring
<1>2. PICK h \in InUse : \E k \in 1 .. Len(Shown[h]) : Shown[h][k] = at
  BY <1>1, ListedPlace
<1>3. at \in Ring(h)
  BY <1>2, ShownRing
<1>4. h # l
  BY <1>1, <1>3 DEF Apart
<1> QED  BY <1>1, <1>2, <1>4

\* What a splice between two neighbours does to the lists.
LEMMA SplicedLists ==
    ASSUME RingsInv, Inv', NEW l \in InUse, NEW h \in InUse, h # l, ~ list_empty(l),
           NEW k \in 1 .. Len(Shown[h]),
           \/ Splice(l, Shown[h][k], next[Shown[h][k]])
           \/ SpliceInit(l, Shown[h][k], next[Shown[h][k]])
    PROVE  RingsInv' /\ Shown' = JoinedIn(Shown, Heads \ loose', l, h, k)
<1> DEFINE at == Shown[h][k]
<1>1. at \in Nodes \ loose /\ l \in Nodes \ loose
  BY ShownRing DEF RingOf, InUse, Nodes
<1>2. /\ next \in [Nodes -> Nodes \cup {Null}]
      /\ prev[l] \in Nodes /\ next[prev[l]] = l /\ next[l] # l
  BY <1>1, InvUndone DEF RingsInv, list_empty
<1>3. at # l /\ prev[l] # l
  <2>1. Shown[l][1] = l /\ 1 \in 1 .. Len(Shown[l])
    BY ShownRing
  <2>2. at # l
    BY <2>1, ShownOnce
  <2> QED  BY <2>2, <1>2
<1>4. prev[l] # at
  <2>1. prev[l] = at => next[at] = l
    BY <1>2
  <2>2. next[at] # l
    <3>1. RingOf(next, loose, h, Shown[h]) /\ Len(Shown[h]) \in Nat
      BY ShownRing
    <3>2. next[at] = IF k < Len(Shown[h]) THEN Shown[h][k + 1] ELSE h
      BY <3>1 DEF RingOf
    <3>3. k < Len(Shown[h]) => k + 1 \in 2 .. Len(Shown[h])
      BY <3>1
    <3>4. k < Len(Shown[h]) => Shown[h][k + 1] \in Items
      BY <3>1, <3>3 DEF RingOf
    <3> QED  BY <3>2, <3>4, ListAssumption DEF InUse
  <2> QED  BY <2>1, <2>2
<1>5. \/ Splice(l, at, next[at])
      \/ SpliceInit(l, at, next[at])
  OBVIOUS
<1> HIDE DEF at
<1>6. /\ next'[at] = next[l] /\ next'[prev[l]] = next[at]
      /\ Relinked(next, next', {l, at, prev[l]})
      /\ loose' = loose \cup {l} \/ (loose' = loose /\ next'[l] = l)
  BY <1>1, <1>2, <1>3, <1>4, <1>5 DEF Splice, SpliceInit, Relinked
<1> QED  BY <1>6, JoinsAt DEF at

\* Splicing one list into another, before or behind any place, moves all its
\* elements there, and leaves both alone when it has none.
LEMMA SpliceLists ==
    ASSUME RingsInv, Inv', NEW l \in Heads, NEW at \in Nodes,
           \/ list_splice(l, at) \/ list_splice_init(l, at)
           \/ list_splice_tail(l, at) \/ list_splice_tail_init(l, at)
    PROVE  /\ RingsInv'
           /\ list_splice(l, at) => Sequence!JoinAfter(l, at, Left(l))
           /\ list_splice_tail(l, at) => Sequence!JoinBefore(l, at, Left(l))
           /\ list_splice_init(l, at) => Sequence!JoinAfter(l, at, InUse)
           /\ list_splice_tail_init(l, at) => Sequence!JoinBefore(l, at, InUse)
<1>1. Apart(l, at)
  BY DEF list_splice, list_splice_tail, list_splice_init, list_splice_tail_init
<1>2. l \in InUse
  BY <1>1, ApartPlace
<1>3. PICK h \in InUse \ {l} : \E k \in 1 .. Len(Shown[h]) : Shown[h][k] = at
  BY <1>1, ApartPlace
<1>4. PICK k \in 1 .. Len(Shown[h]) : Shown[h][k] = at
  BY <1>3
<1> DEFINE j == Before(Shown[h], k)
<1>5. j \in 1 .. Len(Shown[h]) /\ next[Shown[h][j]] = at /\ prev[at] = Shown[h][j]
  BY <1>4, InvUndone, ShownRing, BeforePlace DEF RingsInv, InUse
<1> HIDE DEF j
<1>6. \A heads : /\ JoinedAfter(l, at, heads) = JoinedIn(Shown, heads, l, h, k)
                /\ JoinedBefore(l, at, heads) = JoinedIn(Shown, heads, l, h, j)
  <2>1. h \in InUse /\ h # l
    BY <1>3
  <2> HIDE DEF Shown
  <2> QED  BY <1>2, <1>4, <2>1, ListsJoin DEF j
<1>7. /\ Sequence!JoinAfter(l, at, Left(l)) <=> Shown' = JoinedAfter(l, at, Left(l))
      /\ Sequence!JoinBefore(l, at, Left(l)) <=> Shown' = JoinedBefore(l, at, Left(l))
      /\ Sequence!JoinAfter(l, at, InUse) <=> Shown' = JoinedAfter(l, at, InUse)
      /\ Sequence!JoinBefore(l, at, InUse) <=> Shown' = JoinedBefore(l, at, InUse)
  BY DEF Sequence!JoinAfter, Sequence!JoinBefore, JoinedAfter, JoinedBefore, Shown
<1>8. CASE list_empty(l)
  <2>1. next' = next /\ loose' = loose
    BY <1>8 DEF list_splice, list_splice_tail, list_splice_init, list_splice_tail_init, vars
  <2>2. ListsAre(next', loose', Shown)
    BY <2>1 DEF RingsInv
  <2>3. Left(l) = InUse
    BY <1>8 DEF Left
  <2> HIDE DEF Shown
  <2>4. RingsInv' /\ Shown' = Shown
    BY <2>2, ShownAfter
  <2>5. /\ Shown = JoinedIn(Shown, InUse, l, h, k)
        /\ Shown = JoinedIn(Shown, InUse, l, h, j)
    BY <1>2, <1>3, <1>5, <1>8, JoinsNothing
  <2> QED  BY <2>3, <2>4, <2>5, <1>6, <1>7
<1>9. CASE ~ list_empty(l)
  <2>1. Left(l) = InUse \ {l}
    BY <1>9 DEF Left
  <2>2. ASSUME list_splice(l, at) \/ list_splice_init(l, at)
        PROVE  RingsInv' /\ Shown' = JoinedIn(Shown, Heads \ loose', l, h, k)
    <3>1. Splice(l, at, next[at]) \/ SpliceInit(l, at, next[at])
      BY <1>9, <2>2 DEF list_splice, list_splice_init
    <3> HIDE DEF Shown
    <3> QED  BY <1>2, <1>3, <1>4, <1>9, <3>1, SplicedLists
  <2>3. ASSUME list_splice_tail(l, at) \/ list_splice_tail_init(l, at)
        PROVE  RingsInv' /\ Shown' = JoinedIn(Shown, Heads \ loose', l, h, j)
    <3>1. Splice(l, prev[at], at) \/ SpliceInit(l, prev[at], at)
      BY <1>9, <2>3 DEF list_splice_tail, list_splice_tail_init
    <3> HIDE DEF Shown
    <3> QED  BY <1>2, <1>3, <1>5, <1>9, <3>1, SplicedLists
  <2>4. /\ list_splice(l, at) => loose' = loose \cup {l}
        /\ list_splice_tail(l, at) => loose' = loose \cup {l}
        /\ list_splice_init(l, at) => loose' = loose
        /\ list_splice_tail_init(l, at) => loose' = loose
    BY <1>9 DEF list_splice, list_splice_tail, list_splice_init, list_splice_tail_init,
                Splice, SpliceInit
  <2>5. /\ loose' = loose \cup {l} => Heads \ loose' = InUse \ {l}
        /\ loose' = loose => Heads \ loose' = InUse
    BY DEF InUse
  <2> HIDE DEF Shown
  <2>6. RingsInv'
    BY <2>2, <2>3
  <2>7. /\ list_splice(l, at) => Sequence!JoinAfter(l, at, Left(l))
        /\ list_splice_init(l, at) => Sequence!JoinAfter(l, at, InUse)
    BY <1>6, <1>7, <2>1, <2>2, <2>4, <2>5
  <2>8. /\ list_splice_tail(l, at) => Sequence!JoinBefore(l, at, Left(l))
        /\ list_splice_tail_init(l, at) => Sequence!JoinBefore(l, at, InUse)
    BY <1>6, <1>7, <2>1, <2>3, <2>4, <2>5
  <2> QED  BY <2>6, <2>7, <2>8
<1> QED  BY <1>8, <1>9

-----------------------------------------------------------------------------
\* At first every list is empty.
LEMMA RingsInitially == Init => RingsInv
<1> SUFFICES ASSUME Init PROVE RingsInv
  OBVIOUS
<1>1. Inv
  BY DEF Init, Inv, TypeInv, DirectionsAgree, Nodes
<1> DEFINE L == [h \in Heads \ loose |-> <<h>>]
<1>2. ASSUME NEW h \in Heads \ loose
      PROVE  RingOf(next, loose, h, <<h>>)
  <2>1. <<h>> \in Seq(Nodes) /\ Len(<<h>>) = 1 /\ <<h>>[1] = h
    BY DEF Nodes
  <2>2. next[h] = h
    BY DEF Init, Nodes
  <2> QED  BY <2>1, <2>2 DEF RingOf
<1>3. ListsAre(next, loose, L)
  BY <1>2 DEF ListsAre
<1> HIDE DEF L
<1>4. L = Shown
  <2>1. Undone(next, prev, loose) /\ next \in [Nodes -> Nodes \cup {Null}]
    BY <1>1, InvUndone
  <2>2. L = [h \in Heads \ loose |-> <<h>> \o Visited(next, h)]
    BY <1>3, <2>1, ListsShown
  <2> QED  BY <2>2 DEF Shown, InUse
<1> QED  BY <1>1, <1>3, <1>4 DEF RingsInv

LEMMA RingsStep == RingsInv /\ [Next]_vars => RingsInv'
<1> SUFFICES ASSUME RingsInv, [Next]_vars
             PROVE  RingsInv'
  OBVIOUS
<1>1. Inv'
  BY InvStep DEF RingsInv
<1>2. ASSUME NEW e \in Items, OfItem(e)
      PROVE  RingsInv'
  <2> e \in Nodes
    BY DEF Nodes
  <2>1. CASE INIT_LIST_HEAD(e)
    BY <2>1, <1>1, InitLists
  <2>2. CASE list_del(e) \/ list_del_init(e)
    BY <2>2, <1>1, DeleteLists
  <2>3. ASSUME NEW at \in Nodes, list_add(e, at) \/ list_add_tail(e, at)
        PROVE  RingsInv'
    BY <2>3, <1>1, AddLists, AddTailLists
  <2>4. ASSUME NEW at \in Nodes, list_move(e, at) \/ list_move_tail(e, at)
        PROVE  RingsInv'
    BY <2>4, <1>1, MoveLists, MoveTailLists
  <2> QED  BY <1>2, <2>1, <2>2, <2>3, <2>4 DEF OfItem
<1>3. ASSUME NEW h \in Heads, OfHead(h)
      PROVE  RingsInv'
  <2>1. CASE INIT_LIST_HEAD(h)
    BY <2>1, <1>1, InitLists DEF Nodes
  <2>2. ASSUME NEW g \in Heads \ {h}, NEW e \in Nodes, list_cut_position(h, g, e)
        PROVE  RingsInv'
    BY <2>2, <1>1, CutPositionLists
  <2>3. ASSUME NEW at \in Nodes,
               \/ list_splice(h, at) \/ list_splice_tail(h, at)
               \/ list_splice_init(h, at) \/ list_splice_tail_init(h, at)
        PROVE  RingsInv'
    BY <2>3, <1>1, SpliceLists
  <2> QED  BY <1>3, <2>1, <2>2, <2>3 DEF OfHead
<1>4. CASE Replacing
  <2>1. PICK K \in {Heads, Items} : \E old \in K : \E new \in K \ {old} :
            list_replace(old, new) \/ list_replace_init(old, new)
    BY <1>4 DEF Replacing
  <2>2. PICK old \in K, new \in K :
            old # new /\ (list_replace(old, new) \/ list_replace_init(old, new))
    BY <2>1
  <2>3. CASE K = Heads
    BY <2>2, <2>3, <1>1, ReplaceHeadLists
  <2>4. CASE K = Items
    BY <2>2, <2>4, <1>1, ReplaceItemLists
  <2> QED  BY <2>1, <2>3, <2>4
<1>5. CASE UNCHANGED vars
  <2>1. next' = next /\ loose' = loose /\ Inv'
    BY <1>1, <1>5 DEF vars
  <2>2. ListsAre(next', loose', Shown)
    BY <2>1 DEF RingsInv
  <2> HIDE DEF Shown
  <2> QED  BY <2>1, <2>2, ShownAfter
<1> QED  BY <1>2, <1>3, <1>4, <1>5 DEF Next

LEMMA ChangesAsLists == RingsInv /\ Inv' => ChangesSequences
<1> SUFFICES ASSUME RingsInv, Inv'
             PROVE  ChangesSequences
  OBVIOUS
<1>1. ASSUME NEW e \in Items, NEW at \in Nodes
      PROVE  /\ list_add(e, at) => Sequence!InsertAfter(e, at)
             /\ list_add_tail(e, at) => Sequence!InsertBefore(e, at)
             /\ list_move(e, at) => Sequence!MoveAfter(e, at)
             /\ list_move_tail(e, at) => Sequence!MoveBefore(e, at)
  BY AddLists, AddTailLists, MoveLists, MoveTailLists
<1>2. \A e \in Items : list_del(e) \/ list_del_init(e) => Sequence!Delete(e)
  BY DeleteLists
<1>3. \A h \in Heads : INIT_LIST_HEAD(h) => Sequence!Empty(h)
  BY InitLists DEF Nodes
<1>4. \A old, new \in Items :
          old # new /\ (list_replace(old, new) \/ list_replace_init(old, new))
              => Sequence!ReplaceItem(old, new)
  BY ReplaceItemLists
<1>5. ASSUME NEW old \in Heads, NEW new \in Heads, old # new
      PROVE  /\ list_replace(old, new)
                  => Sequence!ReplaceHead(old, new, (InUse \ {old}) \cup {new})
             /\ list_replace_init(old, new)
                  => Sequence!ReplaceHead(old, new, InUse \cup {new})
  BY <1>5, ReplaceHeadLists
<1>6. \A l \in Heads, h \in Heads, e \in Nodes :
          l # h /\ ~list_empty(h) /\ list_cut_position(l, h, e) => Sequence!Cut(l, h, e)
  BY CutPositionLists
<1>7. ASSUME NEW l \in Heads, NEW at \in Nodes
      PROVE  /\ list_splice(l, at) => Sequence!JoinAfter(l, at, Left(l))
             /\ list_splice_tail(l, at) => Sequence!JoinBefore(l, at, Left(l))
             /\ list_splice_init(l, at) => Sequence!JoinAfter(l, at, InUse)
             /\ list_splice_tail_init(l, at) => Sequence!JoinBefore(l, at, InUse)
  BY SpliceLists
<1> QED  BY <1>1, <1>2, <1>3, <1>4, <1>5, <1>6, <1>7 DEF ChangesSequences

\* Every function of list.h that changes a list changes the sequence its
\* traversal meets as Lists says: inserts, deletes, moves, replaces, cuts and
\* joins at the place that was asked for, and nowhere else.
THEOREM ListsAreSequences == Spec => ImplementsSequences
<1>1. RingsInv /\ [Next]_vars => [ChangesSequences]_vars
  BY InvStep, ChangesAsLists DEF RingsInv
<1> QED  BY <1>1, RingsInitially, RingsStep, PTL DEF Spec, ImplementsSequences

\* The places of a list along prev: those along next backwards.
Mirrored(h, s) == [i \in 1 .. Len(s) |-> IF i = 1 THEN h ELSE s[Len(s) + 2 - i]]

LEMMA MirroredRing ==
    ASSUME NEW link, NEW back, NEW lo, Undone(link, back, lo),
           NEW h \in Heads, NEW s, RingOf(link, lo, h, s)
    PROVE  RingOf(back, lo, h, Mirrored(h, s))
<1> DEFINE n == Len(s)
           u == Mirrored(h, s)
<1>1. /\ n \in Nat /\ n >= 1 /\ s[1] = h
      /\ \A i \in 1 .. n : s[i] \in Nodes /\ s[i] \notin lo
      /\ \A i \in 2 .. n : s[i] \in Items
  BY DEF RingOf
<1>2. \A i \in 2 .. n : back[s[i]] = s[i - 1]
  BY RingStep DEF Undone
<1>3. back[h] = s[n]
  <2>1. n \in 1 .. n /\ ~ (n < n)
    <3>1. n \in Nat /\ n >= 1
      BY <1>1
    <3> HIDE DEF n
    <3> QED  BY <3>1
  <2>2. link[s[n]] = h
    BY <2>1 DEF RingOf
  <2> QED  BY <2>1, <2>2, <1>1 DEF Undone
<1>4. /\ DOMAIN u = 1 .. n
      /\ \A i \in 1 .. n : u[i] = IF i = 1 THEN h ELSE s[n + 2 - i]
  BY DEF Mirrored
<1>5. u = [i \in 1 .. n |-> u[i]]
  BY DEF Mirrored
<1> HIDE DEF u, n
<1>6. ASSUME NEW i \in 1 .. n
      PROVE  /\ u[i] \in Nodes /\ u[i] \notin lo
             /\ i >= 2 => u[i] \in Items
             /\ back[u[i]] = IF i < n THEN u[i + 1] ELSE h
  <2>1. CASE i = 1
    <3>1. u[i] = h /\ 1 \in 1 .. n
      BY <2>1, <1>1, <1>4
    <3>2. i < n => u[i + 1] = s[n]
      <4>1. i < n => i + 1 \in 1 .. n /\ i + 1 # 1 /\ n + 2 - (i + 1) = n
        BY <2>1, <1>1
      <4> QED  BY <4>1, <1>4
    <3>3. ~ (i < n) => n = 1
      BY <2>1, <1>1
    <3> QED  BY <2>1, <3>1, <3>2, <3>3, <1>1, <1>3
  <2>2. CASE i # 1
    <3> DEFINE j == n + 2 - i
    <3>1. j \in 2 .. n /\ j \in 1 .. n
      BY <2>2, <1>1
    <3>2. u[i] = s[j]
      BY <2>2, <1>4
    <3>3. i < n => u[i + 1] = s[j - 1]
      <4>1. i < n => i + 1 \in 1 .. n /\ i + 1 # 1 /\ n + 2 - (i + 1) = j - 1
        BY <1>1
      <4> QED  BY <4>1, <1>4
    <3>4. ~ (i < n) => j - 1 = 1
      BY <1>1
    <3> HIDE DEF j
    <3> QED  BY <3>1, <3>2, <3>3, <3>4, <1>1, <1>2
  <2> QED  BY <2>1, <2>2
<1>7. u \in Seq(Nodes) /\ Len(u) = n /\ u[1] = h
  <2>1. \A i \in 1 .. n : u[i] \in Nodes
    BY <1>6
  <2>2. u \in [1 .. n -> Nodes]
    BY <1>5, <2>1
  <2>3. u \in Seq(Nodes) /\ Len(u) = n
    BY <1>1, <2>2
  <2> QED  BY <2>3, <1>1, <1>4
<1>8. RingOf(back, lo, h, u)
  <2>1. \A i \in 2 .. n : i \in 1 .. n /\ i >= 2
    BY <1>1
  <2> QED  BY <1>1, <1>6, <1>7, <2>1 DEF RingOf
<1> QED  BY <1>8 DEF u

\* list_for_each_prev meets the list backwards.
LEMMA VisitedBack ==
    ASSUME RingsInv, NEW h \in InUse
    PROVE  /\ Visited(next, h) = SubSeq(Shown[h], 2, Len(Shown[h]))
           /\ Visited(prev, h) = SubSeq(Mirrored(h, Shown[h]), 2, Len(Shown[h]))
<1> DEFINE s == Shown[h]
<1>1. RingOf(next, loose, h, s) /\ h \in Heads
  BY ShownRing DEF InUse
<1>2. /\ Undone(next, prev, loose) /\ Undone(prev, next, loose)
      /\ next \in [Nodes -> Nodes \cup {Null}] /\ prev \in [Nodes -> Nodes \cup {Null}]
  BY InvUndone DEF RingsInv, Inv, TypeInv, Undone
<1> HIDE DEF s
<1>3. Visited(next, h) = SubSeq(s, 2, Len(s))
  BY <1>1, <1>2, VisitedRing
<1>4. RingOf(prev, loose, h, Mirrored(h, s))
  BY <1>1, <1>2, MirroredRing
<1>5. Visited(prev, h) = SubSeq(Mirrored(h, s), 2, Len(Mirrored(h, s)))
  BY <1>1, <1>2, <1>4, VisitedRing
<1>6. Len(Mirrored(h, s)) = Len(s)
  <2>1. Len(s) \in Nat
    BY <1>1 DEF RingOf
  <2> QED  BY <2>1 DEF Mirrored
<1> QED  BY <1>3, <1>5, <1>6 DEF s

LEMMA RingsAnswer == RingsInv => QueriesAnswer
<1> SUFFICES ASSUME RingsInv, NEW h \in InUse
             PROVE  LET v == Visited(next, h)
                    IN  /\ Visited(prev, h) = [i \in DOMAIN v |-> v[Len(v) + 1 - i]]
                        /\ list_empty(h) <=> v = <<>>
                        /\ list_empty_careful(h) <=> v = <<>>
                        /\ list_is_singular(h) <=> Len(v) = 1
                        /\ \A i \in DOMAIN v : list_is_last(v[i], h) <=> i = Len(v)
  BY DEF QueriesAnswer
<1> DEFINE s == Shown[h]
           n == Len(s)
           v == Visited(next, h)
           w == Visited(prev, h)
           u == Mirrored(h, s)
<1>1. /\ RingOf(next, loose, h, s) /\ s \in Seq(Nodes) /\ n \in Nat \ {0}
      /\ DOMAIN s = 1 .. n /\ s[1] = h
      /\ \A i \in 1 .. n : next[s[i]] = IF i < n THEN s[i + 1] ELSE h
      /\ \A i \in 2 .. n : s[i] \in Items
  BY ShownRing DEF RingOf
<1>2. \A i, j \in 1 .. n : s[i] = s[j] => i = j
  BY ShownOnce
<1>3. v = SubSeq(s, 2, n) /\ w = SubSeq(u, 2, n)
  BY VisitedBack
<1>4. /\ u \in Seq(Nodes) /\ Len(u) = n
      /\ \A i \in 1 .. n : u[i] = IF i = 1 THEN h ELSE s[n + 2 - i]
  <2>1. Undone(next, prev, loose) /\ h \in Heads
    BY InvUndone DEF RingsInv, InUse
  <2> HIDE DEF s
  <2>2. RingOf(prev, loose, h, u)
    BY <1>1, <2>1, MirroredRing
  <2>3. Len(u) = n /\ \A i \in 1 .. n : u[i] = IF i = 1 THEN h ELSE s[n + 2 - i]
    BY <1>1 DEF Mirrored
  <2> QED  BY <2>2, <2>3 DEF RingOf
<1>5. prev[h] = s[n] /\ next[s[n]] = h
  <2>1. n \in 1 .. n /\ ~ (n < n)
    <3>1. n \in Nat \ {0}
      BY <1>1
    <3> HIDE DEF n
    <3> QED  BY <3>1
  <2>2. next[s[n]] = h /\ s[n] \in Nodes \ loose
    BY <1>1, <2>1 DEF RingOf
  <2> QED  BY <2>2, InvUndone DEF RingsInv
<1>6. h \notin Items
  BY ListAssumption DEF InUse
<1> HIDE DEF s, n, v, w, u
<1>7. /\ v \in Seq(Nodes) /\ Len(v) = n - 1 /\ DOMAIN v = 1 .. n - 1
      /\ \A i \in 1 .. n - 1 : v[i] = s[i + 1]
  <2>1. /\ v \in Seq(Nodes) /\ Len(v) = IF 2 <= n THEN n - 2 + 1 ELSE 0
        /\ \A i \in 1 .. n - 2 + 1 : v[i] = s[2 + i - 1]
    BY <1>1, <1>3, SubSeqProperties DEF n
  <2> QED  BY <2>1, <1>1
<1>8. /\ w \in Seq(Nodes) /\ Len(w) = n - 1 /\ DOMAIN w = 1 .. n - 1
      /\ \A i \in 1 .. n - 1 : w[i] = u[i + 1]
  <2>1. /\ w \in Seq(Nodes) /\ Len(w) = IF 2 <= n THEN n - 2 + 1 ELSE 0
        /\ \A i \in 1 .. n - 2 + 1 : w[i] = u[2 + i - 1]
    BY <1>1, <1>3, <1>4, SubSeqProperties
  <2> QED  BY <2>1, <1>1
<1>9. w = [i \in DOMAIN v |-> v[Len(v) + 1 - i]]
  <2>1. ASSUME NEW i \in 1 .. n - 1
        PROVE  w[i] = v[Len(v) + 1 - i]
    <3>1. /\ i + 1 \in 1 .. n /\ i + 1 # 1 /\ n + 2 - (i + 1) = (n - i) + 1
          /\ n - i \in 1 .. n - 1 /\ (n - 1) + 1 - i = n - i
      BY <1>1
    <3> QED  BY <3>1, <1>4, <1>7, <1>8
  <2>2. w = [i \in 1 .. n - 1 |-> w[i]]
    BY <1>8
  <2> QED  BY <2>1, <2>2, <1>7
<1>10. v = <<>> <=> n = 1
  BY <1>1, <1>7
<1>11. next[h] = IF n = 1 THEN h ELSE s[2]
  <2>1. 1 \in 1 .. n /\ (1 < n <=> n # 1)
    BY <1>1
  <2> QED  BY <2>1, <1>1
<1>12. list_empty(h) <=> n = 1
  <2>1. n # 1 => 2 \in 2 .. n
    BY <1>1
  <2> QED  BY <2>1, <1>1, <1>6, <1>11 DEF list_empty
<1>13. list_empty_careful(h) <=> n = 1
  BY <1>1, <1>5, <1>11, <1>12 DEF list_empty, list_empty_careful
<1>14. list_is_singular(h) <=> n = 2
  <2>1. n # 1 => 2 \in 1 .. n /\ n \in 1 .. n
    BY <1>1
  <2> QED  BY <2>1, <1>2, <1>5, <1>11, <1>12 DEF list_is_singular
<1>15. ASSUME NEW i \in 1 .. n - 1
       PROVE  next[v[i]] = h <=> i = n - 1
  <2>1. /\ i + 1 \in 1 .. n /\ (i + 1 < n <=> i # n - 1)
        /\ i # n - 1 => (i + 1) + 1 \in 2 .. n
    BY <1>1
  <2> QED  BY <2>1, <1>1, <1>6, <1>7
<1>16. Len(v) = 1 <=> n = 2
  BY <1>1, <1>7
<1> QED  BY <1>7, <1>9, <1>10, <1>12, <1>13, <1>14, <1>15, <1>16 DEF list_is_last, v, w

\* list_for_each and list_for_each_prev always meet the same elements, in
\* opposite order, and list_empty, list_empty_careful, list_is_singular and
\* list_is_last answer for what they meet.
THEOREM TraversalsMirror == Spec => []QueriesAnswer
BY RingsInitially, RingsStep, RingsAnswer, PTL DEF Spec
=============================================================================
