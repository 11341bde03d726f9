---------------------------- MODULE LibraryProof ----------------------------
(***************************************************************************)
(* Proofs about the two parts that other code is to be built on and that   *)
(* none calls yet: the red-black trees, for any set of nodes and any keys, *)
(* and the spinlock, for as many threads as its byte can count.            *)
(*                                                                         *)
(* TreeInv says that there are sets sub[n], the nodes below each node, and *)
(* black heights bh[n] that fit the pointers and the colours (Shape and    *)
(* Balanced) but for what the call under way has still to set right: one   *)
(* red node below another during an insertion (Grown), one subtree a black *)
(* node short during a removal (Light, Rooted), and data that are wrong    *)
(* only on the way the rb_augment functions have still to go (Wrong is     *)
(* within Due).  With sub in hand no induction over the tree is needed:    *)
(* what fails somewhere fails where sub is smallest or largest.            *)
(*                                                                         *)
(* First what each assignment, rotation and exchange does to the shape;    *)
(* then what the walks of the tree find, which are functions defined by    *)
(* themselves; the colours; the data; and each action by what it calls.    *)
(***************************************************************************)
EXTENDS Rbtree, Spinlock, FiniteSetTheorems, FunctionTheorems, WellFoundedInduction, TLAPS

\* A set of naturals that is not empty has a least element.
LEMMA LeastOfNats ==
    \A S \in SUBSET Nat : S # {} => \E m \in S : \A x \in S : m <= x
<1> SUFFICES ASSUME NEW S \in SUBSET Nat, S # {}
             PROVE  \E m \in S : \A x \in S : m <= x
  OBVIOUS
<1> DEFINE R == OpToRel(<, Nat)
<1>1. IsWellFoundedOn(R, Nat)
  BY NatLessThanWellFounded
<1>2. \A x, y \in Nat : x < y => <<x, y>> \in R
  BY DEF OpToRel
<1> HIDE DEF R
<1>3. PICK m \in S : \A y \in S : ~ (<<y, m>> \in R)
  BY <1>1, WFMin
<1>4. ASSUME NEW y \in S PROVE m <= y
  <2>1. y \in Nat /\ m \in Nat /\ ~ (y < m)
    BY <1>2, <1>3
  <2> QED  BY <2>1
<1> QED  BY <1>3, <1>4

-----------------------------------------------------------------------------
(* The shape of a tree, by the set of nodes below each node.                *)

\* The type of the tree.
TreeType == [child : [Sides -> [TreeNodes -> TreeNodes \cup {Nil}]],
             parent : [TreeNodes -> TreeNodes \cup {Nil}],
             color : [TreeNodes -> {"red", "black"}],
             root : TreeNodes \cup {Nil}]

\* The nodes of the subtree at a child.
Below(sub, c) == IF c = Nil THEN {} ELSE sub[c]

\* One node and its neighbours are as they should be.
Placed(t, M, sub, n) ==
    /\ sub[n] \subseteq M
    /\ n = t.root \/ (t.parent[n] \in M /\ \E s \in Sides : t.child[s][t.parent[n]] = n)
    /\ \A s \in Sides : /\ t.child[s][n] \in M \cup {Nil}
                        /\ t.child[s][n] # Nil => t.parent[t.child[s][n]] = n
    /\ sub[n] = {n} \cup Below(sub, t.child["left"][n]) \cup Below(sub, t.child["right"][n])
    /\ \A m \in Below(sub, t.child["left"][n]) : Key[m] < Key[n]
    /\ \A m \in Below(sub, t.child["right"][n]) : Key[n] < Key[m]

\* t is a search tree of the nodes M, sub[n] of them in the subtree of n.
Shape(t, M, sub) ==
    /\ t \in TreeType /\ M \in SUBSET TreeNodes /\ IsFiniteSet(M)
    /\ sub \in [TreeNodes -> SUBSET TreeNodes]
    /\ t.root \in M \cup {Nil} /\ Below(sub, t.root) = M
    /\ t.root # Nil => t.parent[t.root] = Nil
    /\ \A n \in M : Placed(t, M, sub, n)

\* There are two sides, each the opposite of the other.
LEMMA Opposite ==
    /\ Opp("left") = "right" /\ Opp("right") = "left"
    /\ \A s \in Sides : Opp(s) \in Sides /\ Opp(s) # s /\ Opp(Opp(s)) = s
    /\ \A s \in Sides : Sides = {s, Opp(s)}
BY DEF Opp, Sides

\* What the assumption says, of each node.
LEMMA NodeKeys == \A n \in TreeNodes : Key[n] \in Nat /\ n # Nil
BY TreeAssumption

\* What the type says, of each field.
LEMMA TreeTyped ==
    ASSUME NEW t \in TreeType
    PROVE  /\ \A s \in Sides, n \in TreeNodes : t.child[s][n] \in TreeNodes \cup {Nil}
           /\ \A n \in TreeNodes : t.parent[n] \in TreeNodes \cup {Nil} /\ t.color[n] \in {"red", "black"}
           /\ t.root \in TreeNodes \cup {Nil}
BY DEF TreeType

\* One pointer is assigned.
WithChild(t, s, n, c) == [t EXCEPT !.child[s][n] = c]
WithParent(t, n, p) == [t EXCEPT !.parent[n] = p]

\* One pointer of a child changes, or of a parent, or a colour; at Nil nothing does.
ChildSet(t, s, p, new, t2) ==
    /\ t2 \in TreeType /\ t2.parent = t.parent /\ t2.color = t.color /\ t2.root = t.root
    /\ \A x \in Sides, m \in TreeNodes :
         t2.child[x][m] = IF x = s /\ m = p THEN new ELSE t.child[x][m]
ParentSet(t, n, new, t2) ==
    /\ t2 \in TreeType /\ t2.child = t.child /\ t2.color = t.color /\ t2.root = t.root
    /\ \A m \in TreeNodes : t2.parent[m] = IF m = n THEN new ELSE t.parent[m]
Painted(t, n, c, t2) ==
    /\ t2 \in TreeType /\ t2.child = t.child /\ t2.parent = t.parent /\ t2.root = t.root
    /\ \A m \in TreeNodes : t2.color[m] = IF m = n THEN c ELSE t.color[m]

\* What is assigned can be read back.
LEMMA SetChild ==
    ASSUME NEW t \in TreeType, NEW s \in Sides, NEW p \in TreeNodes \cup {Nil}, NEW new \in TreeNodes \cup {Nil}
    PROVE  ChildSet(t, s, p, new, WithChild(t, s, p, new))
<1> DEFINE c2 == [t.child EXCEPT ![s][p] = new]
           t2 == WithChild(t, s, p, new)
<1>1. t.child \in [Sides -> [TreeNodes -> TreeNodes \cup {Nil}]]
  BY DEF TreeType
<1>2. c2 \in [Sides -> [TreeNodes -> TreeNodes \cup {Nil}]]
  BY <1>1
<1>3. \A x \in Sides, m \in TreeNodes : c2[x][m] = IF x = s /\ m = p THEN new ELSE t.child[x][m]
  BY <1>1
<1>4. t2 = [t EXCEPT !.child = c2]
  BY DEF TreeType, WithChild
<1> HIDE DEF c2, t2
<1>5. t2 \in TreeType /\ t2.parent = t.parent /\ t2.color = t.color /\ t2.root = t.root /\ t2.child = c2
  BY <1>2, <1>4 DEF TreeType
<1>6. ChildSet(t, s, p, new, t2)
  BY <1>3, <1>5 DEF ChildSet
<1> QED  BY <1>6 DEF t2

LEMMA SetParent ==
    ASSUME NEW t \in TreeType, NEW n \in TreeNodes \cup {Nil}, NEW new \in TreeNodes \cup {Nil}
    PROVE  ParentSet(t, n, new, WithParent(t, n, new))
BY DEF TreeType, WithParent, ParentSet

\* And a colour.
LEMMA PaintFacts ==
    ASSUME NEW t \in TreeType, NEW n \in TreeNodes \cup {Nil}, NEW c \in {"red", "black"}
    PROVE  Painted(t, n, c, Paint(t, n, c))
BY DEF TreeType, Paint, Painted

\* A node is not below its children, and nothing is below both.
LEMMA Apart ==
    ASSUME NEW t, NEW M, NEW sub, Shape(t, M, sub), NEW n \in M, NEW s \in Sides
    PROVE  /\ n \in sub[n] /\ n \notin Below(sub, t.child[s][n])
           /\ Below(sub, t.child[s][n]) \subseteq sub[n] \ {n}
           /\ Below(sub, t.child[s][n]) \cap Below(sub, t.child[Opp(s)][n]) = {}
           /\ sub[n] = {n} \cup Below(sub, t.child[s][n]) \cup Below(sub, t.child[Opp(s)][n])
<1>1. Placed(t, M, sub, n) /\ n \in TreeNodes
  BY DEF Shape
<1>2. \A m \in sub[n] : m \in TreeNodes /\ Key[m] \in Nat
  BY <1>1, NodeKeys DEF Shape, Placed
<1>3. s = "left" \/ s = "right"
  BY DEF Sides
<1>4. Key[n] \in Nat
  BY <1>1, NodeKeys
<1>5. /\ sub[n] = {n} \cup Below(sub, t.child["left"][n]) \cup Below(sub, t.child["right"][n])
      /\ \A m \in Below(sub, t.child["left"][n]) : Key[m] < Key[n]
      /\ \A m \in Below(sub, t.child["right"][n]) : Key[n] < Key[m]
  BY <1>1 DEF Placed
<1> HIDE DEF Below
<1>6. CASE s = "left"
  BY <1>6, <1>2, <1>4, <1>5, Opposite
<1>7. CASE s = "right"
  BY <1>7, <1>2, <1>4, <1>5, Opposite
<1> QED  BY <1>3, <1>6, <1>7

\* What holds of a node whenever it holds of its children holds of all.
LEMMA TreeInduction ==
    ASSUME NEW t, NEW M, NEW sub, Shape(t, M, sub), NEW S,
           \A n \in M : (\A s \in Sides : t.child[s][n] \in S \cup {Nil}) => n \in S
    PROVE  M \subseteq S
<1> SUFFICES ASSUME M \ S # {} PROVE FALSE
  OBVIOUS
<1> DEFINE Sizes == {Cardinality(sub[n]) : n \in M \ S}
<1>1. ASSUME NEW n \in M PROVE sub[n] \subseteq M /\ IsFiniteSet(sub[n]) /\ Cardinality(sub[n]) \in Nat
  BY FS_Subset, FS_CardinalityType DEF Shape, Placed
<1>2. PICK k \in Sizes : \A x \in Sizes : k <= x
  <2>1. Sizes \in SUBSET Nat /\ Sizes # {}
    BY <1>1
  <2> HIDE DEF Sizes
  <2> QED  BY <2>1, LeastOfNats
<1>3. PICK n \in M \ S : k = Cardinality(sub[n])
  BY <1>2
<1>4. PICK s \in Sides : t.child[s][n] \notin S \cup {Nil}
  BY <1>3
<1> DEFINE c == t.child[s][n]
<1>5. c \in M \ S /\ c # Nil
  BY <1>3, <1>4 DEF Shape, Placed
<1>6. sub[c] \subseteq sub[n] /\ sub[c] # sub[n]
  BY <1>3, <1>5, Apart DEF Below
<1>7. Cardinality(sub[c]) < Cardinality(sub[n])
  <2>1. /\ Cardinality(sub[c]) <= Cardinality(sub[n])
        /\ Cardinality(sub[n]) = Cardinality(sub[c]) => sub[n] = sub[c]
    BY <1>1, <1>3, <1>6, FS_Subset
  <2> QED  BY <2>1, <1>1, <1>3, <1>5, <1>6
<1>8. Cardinality(sub[n]) <= Cardinality(sub[c])
  BY <1>2, <1>3, <1>5
<1> QED  BY <1>1, <1>3, <1>5, <1>7, <1>8

\* What is below a node has everything below it below that node.
LEMMA BelowBelow ==
    ASSUME NEW t, NEW M, NEW sub, Shape(t, M, sub), NEW n \in M, NEW m \in sub[n]
    PROVE  sub[m] \subseteq sub[n] /\ (n \in sub[m] => m = n)
<1> DEFINE S == {k \in M : \A j \in sub[k] : sub[j] \subseteq sub[k] /\ (k \in sub[j] => j = k)}
<1>1. ASSUME NEW k \in M, \A s \in Sides : t.child[s][k] \in S \cup {Nil} PROVE k \in S
  <2> SUFFICES ASSUME NEW j \in sub[k], j # k PROVE sub[j] \subseteq sub[k] /\ k \notin sub[j]
    OBVIOUS
  <2>1. "left" \in Sides
    BY DEF Sides
  <2>2. PICK s \in Sides : j \in Below(sub, t.child[s][k])
    BY <2>1, Apart, Opposite
  <2>3. t.child[s][k] \in S /\ j \in sub[t.child[s][k]]
    BY <1>1, <2>2 DEF Below
  <2>4. sub[j] \subseteq Below(sub, t.child[s][k])
    BY <2>2, <2>3 DEF Below
  <2> QED  BY <2>4, Apart
<1> HIDE DEF S
<1>2. M \subseteq S
  BY <1>1, TreeInduction
<1> QED  BY <1>2 DEF S

\* What holds of the root, and of the children of a node it holds of, holds of all.
LEMMA DownInduction ==
    ASSUME NEW t, NEW M, NEW sub, Shape(t, M, sub), NEW S, t.root \in S \cup {Nil},
           \A n \in M \cap S : \A s \in Sides : t.child[s][n] \in S \cup {Nil}
    PROVE  M \subseteq S
<1> DEFINE T == {n \in M : n \in S => sub[n] \subseteq S}
<1>1. ASSUME NEW n \in M, \A s \in Sides : t.child[s][n] \in T \cup {Nil} PROVE n \in T
  <2> SUFFICES ASSUME n \in S PROVE sub[n] \subseteq S
    OBVIOUS
  <2>1. "left" \in Sides
    BY DEF Sides
  <2>2. ASSUME NEW s \in Sides PROVE Below(sub, t.child[s][n]) \subseteq S
    BY <1>1 DEF Below
  <2> QED  BY <2>1, <2>2, Apart, Opposite
<1> HIDE DEF T
<1>2. M \subseteq T
  BY <1>1, TreeInduction
<1> USE DEF T
<1>3. t.root \in M => sub[t.root] = M /\ t.root \in S
  BY NodeKeys DEF Shape, Below
<1>4. t.root = Nil => M = {}
  BY DEF Shape, Below
<1> QED  BY <1>2, <1>3, <1>4 DEF Shape

\* A child is the child of one node, on one side, and is not the root.
LEMMA OneParent ==
    ASSUME NEW t, NEW M, NEW sub, Shape(t, M, sub), NEW n \in M, NEW s \in Sides,
           NEW c, c = t.child[s][n], c # Nil
    PROVE  /\ c \in M /\ c \in TreeNodes /\ n \in TreeNodes /\ c # n /\ c # t.root /\ t.parent[c] = n
           /\ \A x \in Sides, m \in M : t.child[x][m] = c => m = n /\ x = s
<1>1. c \in M /\ c \in TreeNodes /\ n \in TreeNodes /\ t.parent[c] = n
  BY DEF Shape, Placed
<1>2. c # n
  BY <1>1, Apart DEF Below
<1>3. c # t.root
  BY <1>1, NodeKeys DEF Shape
<1>4. ASSUME NEW x \in Sides, NEW m \in M, t.child[x][m] = c PROVE m = n /\ x = s
  <2>1. m = n
    BY <1>1, <1>4 DEF Shape, Placed
  <2>2. c \in sub[c]
    BY <1>1, Apart
  <2>3. x # Opp(s)
    BY <2>1, <2>2, <1>1, <1>4, Apart DEF Below
  <2> QED  BY <2>1, <2>3, Opposite
<1> QED  BY <1>1, <1>2, <1>3, <1>4

\* Every node but the root is a child, on the side that SideOf tells.
LEMMA SideTold ==
    ASSUME NEW t, NEW M, NEW sub, Shape(t, M, sub), NEW n \in M
    PROVE  /\ n = t.root <=> t.parent[n] = Nil
           /\ n # t.root => /\ t.parent[n] \in M /\ t.parent[n] \in TreeNodes /\ t.parent[n] # n
                            /\ SideOf(t, n) \in Sides
                            /\ t.child[SideOf(t, n)][t.parent[n]] = n
<1>1. n \in TreeNodes /\ n # Nil /\ M \subseteq TreeNodes
  BY NodeKeys DEF Shape
<1>2. n = t.root => t.parent[n] = Nil
  BY <1>1 DEF Shape
<1>3. CASE n # t.root
  <2>1. t.parent[n] \in M /\ \E s \in Sides : t.child[s][t.parent[n]] = n
    BY <1>3 DEF Shape, Placed
  <2>2. t.child[SideOf(t, n)][t.parent[n]] = n /\ SideOf(t, n) \in Sides
    BY <2>1 DEF SideOf, Sides
  <2>3. t.parent[n] \in TreeNodes /\ t.parent[n] # n
    BY <2>1, <2>2, <1>1, OneParent
  <2> QED  BY <2>1, <2>2, <2>3, <1>3, NodeKeys
<1> QED  BY <1>2, <1>3

\* What Repoint does.
Repointed(t, old, new, M, t2) ==
    /\ t2 \in TreeType /\ t2.parent = t.parent /\ t2.color = t.color
    /\ t2.root = IF t.root = old THEN new ELSE t.root
    /\ \A x \in Sides, m \in TreeNodes :
         t2.child[x][m] = IF m \in M /\ t.child[x][m] = old THEN new ELSE t.child[x][m]

\* It changes the pointer to old, and nothing else.
LEMMA RepointFacts ==
    ASSUME NEW t, NEW M, NEW sub, Shape(t, M, sub), NEW old \in M, NEW new \in TreeNodes \cup {Nil},
           NEW t2, t2 = Repoint(t, old, new)
    PROVE  Repointed(t, old, new, M, t2)
<1>1. t \in TreeType /\ M \subseteq TreeNodes /\ old \in TreeNodes /\ old # Nil
  BY NodeKeys DEF Shape
<1>2. CASE old = t.root
  <2>1. t.parent[old] = Nil
    BY <1>2, SideTold
  <2>2. t2 = [t EXCEPT !.root = new]
    BY <2>1 DEF Repoint
  <2>3. t2 \in TreeType /\ t2.parent = t.parent /\ t2.color = t.color /\ t2.root = new /\ t2.child = t.child
    BY <2>2, <1>1 DEF TreeType
  <2>4. \A x \in Sides, m \in M : t.child[x][m] # old
    BY <1>1, <1>2, OneParent
  <2> QED  BY <2>3, <2>4, <1>2 DEF Repointed
<1>3. CASE old # t.root
  <2> DEFINE s == SideOf(t, old)
             p == t.parent[old]
  <2>1. p \in M /\ p # Nil /\ s \in Sides /\ t.child[s][p] = old
    BY <1>1, <1>3, SideTold, NodeKeys
  <2>2. t2 = WithChild(t, s, p, new)
    BY <2>1 DEF Repoint, WithChild
  <2> HIDE DEF s, p
  <2>3. ChildSet(t, s, p, new, t2)
    BY <2>1, <2>2, <1>1, SetChild
  <2>5. \A x \in Sides, m \in M : t.child[x][m] = old => x = s /\ m = p
    BY <2>1, <1>1, OneParent
  <2> QED
    <3> HIDE <2>2
    <3> QED  BY <2>1, <2>3, <2>5, <1>3 DEF ChildSet, Repointed
<1> QED  BY <1>2, <1>3

\* What a rotation does: up, the child of n on the other side than s, takes the place
\* of n, which becomes its child on side s and takes over the child up had there.
Rotated(t, n, s, up, M, t2) ==
    /\ t2 \in TreeType /\ t2.color = t.color
    /\ t2.root = IF t.root = n THEN up ELSE t.root
    /\ \A x \in Sides, m \in TreeNodes :
         t2.child[x][m] = IF m = n /\ x = Opp(s) THEN t.child[s][up]
                          ELSE IF m = up /\ x = s THEN n
                          ELSE IF m \in M /\ t.child[x][m] = n THEN up
                          ELSE t.child[x][m]
    /\ \A m \in TreeNodes :
         t2.parent[m] = IF m = n THEN up ELSE IF m = up THEN t.parent[n]
                        ELSE IF m = t.child[s][up] THEN n ELSE t.parent[m]

\* A rotation as a sequence of assignments.
Turned(r, t, n, s, up) ==
    [r EXCEPT !.child[Opp(s)][n] = t.child[s][up],
              !.child[s][up] = n,
              !.parent = [@ EXCEPT ![t.child[s][up]] = n, ![up] = t.parent[n], ![n] = up]]

\* Rotate makes these assignments.
LEMMA RotateIsTurned ==
    ASSUME NEW t, NEW n, NEW s
    PROVE  LET up == t.child[Opp(s)][n] IN Rotate(t, n, s) = Turned(Repoint(t, n, up), t, n, s, up)
BY DEF Rotate, Turned

\* Turned, one assignment at a time.
LEMMA TurnedSteps ==
    ASSUME NEW r, NEW t, NEW n, NEW s, NEW up
    PROVE  Turned(r, t, n, s, up) =
             WithParent(WithParent(WithParent(
               WithChild(WithChild(r, Opp(s), n, t.child[s][up]), s, up, n),
               t.child[s][up], n), up, t.parent[n]), n, up)
BY DEF WithChild, WithParent, Turned

\* What they come to.
LEMMA RotateFacts ==
    ASSUME NEW t, NEW M, NEW sub, Shape(t, M, sub), NEW n \in M, NEW s \in Sides,
           NEW up, up = t.child[Opp(s)][n], up # Nil, NEW t2, t2 = Rotate(t, n, s)
    PROVE  Rotated(t, n, s, up, M, t2)
<1>1. /\ t \in TreeType /\ n \in TreeNodes /\ up \in TreeNodes /\ up \in M /\ Opp(s) \in Sides /\ Opp(s) # s
      /\ up # n /\ n # Nil /\ M \subseteq TreeNodes
  BY OneParent, Opposite, NodeKeys DEF Shape
<1>2. PICK b : b = t.child[s][up]
  OBVIOUS
<1>3. /\ b \in TreeNodes \cup {Nil} /\ t.parent[n] \in TreeNodes \cup {Nil}
      /\ b # n /\ b # up
  <2>1. b # Nil => t.parent[b] = up
    BY <1>1, <1>2, OneParent
  <2>2. t.parent[up] = n /\ t.parent[n] # up
    BY <1>1, OneParent, SideTold, BelowBelow, Apart DEF Below
  <2> QED  BY <2>1, <2>2, <1>1, <1>2, TreeTyped
<1>4. PICK t3 : t3 = Repoint(t, n, up)
  OBVIOUS
<1>5. Repointed(t, n, up, M, t3)
  BY <1>1, <1>4, RepointFacts
<1>50. t3 \in TreeType
  BY <1>5 DEF Repointed
<1>6. PICK t4 : t4 = WithChild(t3, Opp(s), n, b)
  OBVIOUS
<1>61. ChildSet(t3, Opp(s), n, b, t4)
  BY <1>1, <1>3, <1>50, <1>6, SetChild
<1>62. t4 \in TreeType
  BY <1>61 DEF ChildSet
<1>7. PICK t5 : t5 = WithChild(t4, s, up, n)
  OBVIOUS
<1>71. ChildSet(t4, s, up, n, t5)
  BY <1>1, <1>3, <1>62, <1>7, SetChild
<1>72. t5 \in TreeType
  BY <1>71 DEF ChildSet
<1>8. PICK t6 : t6 = WithParent(t5, b, n)
  OBVIOUS
<1>81. ParentSet(t5, b, n, t6)
  BY <1>1, <1>3, <1>72, <1>8, SetParent
<1>82. t6 \in TreeType
  BY <1>81 DEF ParentSet
<1>9. PICK t7 : t7 = WithParent(t6, up, t.parent[n])
  OBVIOUS
<1>91. ParentSet(t6, up, t.parent[n], t7)
  BY <1>1, <1>3, <1>82, <1>9, SetParent
<1>92. t7 \in TreeType
  BY <1>91 DEF ParentSet
<1>10. t2 = WithParent(t7, n, up)
  BY <1>2, <1>4, <1>6, <1>7, <1>8, <1>9, RotateIsTurned, TurnedSteps, Zenon
<1>101. ParentSet(t7, n, up, t2)
  BY <1>1, <1>3, <1>92, <1>10, SetParent
<1>11. t2 \in TreeType /\ t2.color = t.color /\ t2.root = IF t.root = n THEN up ELSE t.root
  BY <1>5, <1>61, <1>71, <1>81, <1>91, <1>101 DEF Repointed, ChildSet, ParentSet
<1>12. ASSUME NEW m \in TreeNodes
       PROVE  t2.parent[m] = IF m = n THEN up ELSE IF m = up THEN t.parent[n]
                             ELSE IF m = b THEN n ELSE t.parent[m]
  BY <1>3, <1>5, <1>61, <1>71, <1>81, <1>91, <1>101 DEF Repointed, ChildSet, ParentSet
<1>13. ASSUME NEW x \in Sides, NEW m \in TreeNodes
       PROVE  t2.child[x][m] = IF m = n /\ x = Opp(s) THEN b
                               ELSE IF m = up /\ x = s THEN n
                               ELSE IF m \in M /\ t.child[x][m] = n THEN up
                               ELSE t.child[x][m]
  BY <1>1, <1>5, <1>61, <1>71, <1>81, <1>91, <1>101 DEF Repointed, ChildSet, ParentSet
<1> QED  BY <1>2, <1>11, <1>12, <1>13 DEF Rotated

-----------------------------------------------------------------------------
(* The two sides of a node.                                                 *)

\* m comes before n, on the side s of it.
Before(s, m, n) == IF s = "left" THEN Key[m] < Key[n] ELSE Key[n] < Key[m]

\* It is an order, and the opposite one on the other side.
LEMMA BeforeOrder ==
    \A s \in Sides : \A x, y, z \in TreeNodes :
        /\ Before(s, x, y) /\ Before(s, y, z) => Before(s, x, z)
        /\ Before(s, x, y) <=> Before(Opp(s), y, x)
        /\ ~ Before(s, x, x)
<1> SUFFICES ASSUME NEW s \in Sides, NEW x \in TreeNodes, NEW y \in TreeNodes, NEW z \in TreeNodes
             PROVE  /\ Before(s, x, y) /\ Before(s, y, z) => Before(s, x, z)
                    /\ Before(s, x, y) <=> Before(Opp(s), y, x)
                    /\ ~ Before(s, x, x)
  OBVIOUS
<1>1. Key[x] \in Nat /\ Key[y] \in Nat /\ Key[z] \in Nat
  BY NodeKeys
<1>2. s = "left" \/ s = "right"
  BY DEF Sides
<1>3. CASE s = "left"
  BY <1>1, <1>3, Opposite DEF Before
<1>4. CASE s = "right"
  BY <1>1, <1>4, Opposite DEF Before
<1> QED  BY <1>2, <1>3, <1>4

\* Placed, seen from one side.
PlacedFrom(t, M, sub, n, s) ==
    /\ sub[n] \subseteq M
    /\ n = t.root \/ (t.parent[n] \in M /\ \E x \in Sides : t.child[x][t.parent[n]] = n)
    /\ \A x \in Sides : /\ t.child[x][n] \in M \cup {Nil}
                        /\ t.child[x][n] # Nil => t.parent[t.child[x][n]] = n
    /\ sub[n] = {n} \cup Below(sub, t.child[s][n]) \cup Below(sub, t.child[Opp(s)][n])
    /\ \A m \in Below(sub, t.child[s][n]) : Before(s, m, n)
    /\ \A m \in Below(sub, t.child[Opp(s)][n]) : Before(Opp(s), m, n)

\* Both sides are the same, seen from one or the other.
LEMMA EitherSide ==
    ASSUME NEW t, NEW M, NEW sub, NEW n, NEW s \in Sides
    PROVE  Placed(t, M, sub, n) <=> PlacedFrom(t, M, sub, n, s)
<1>1. s = "left" \/ s = "right"
  BY DEF Sides
<1>2. "left" # "right"
  OBVIOUS
<1>3. CASE s = "left"
  BY <1>2, <1>3, Opposite DEF Placed, PlacedFrom, Before
<1>4. CASE s = "right"
  BY <1>2, <1>4, Opposite DEF Placed, PlacedFrom, Before
<1> QED  BY <1>1, <1>3, <1>4

\* Both halves of what is below a node.
LEMMA Halves ==
    ASSUME NEW t, NEW M, NEW sub, Shape(t, M, sub), NEW n \in M, NEW s \in Sides
    PROVE  /\ sub[n] = {n} \cup Below(sub, t.child[s][n]) \cup Below(sub, t.child[Opp(s)][n])
           /\ \A m \in Below(sub, t.child[s][n]) : Before(s, m, n)
           /\ \A m \in Below(sub, t.child[Opp(s)][n]) : Before(Opp(s), m, n)
<1>1. PlacedFrom(t, M, sub, n, s)
  BY EitherSide DEF Shape
<1> QED  BY <1>1 DEF PlacedFrom

-----------------------------------------------------------------------------
(* A rotation keeps the shape.                                              *)

\* The nodes below the two nodes of a rotation.
Shifted(t, n, s, up, sub, sub2) ==
    /\ sub2 \in [TreeNodes -> SUBSET TreeNodes]
    /\ sub2[up] = sub[n]
    /\ sub2[n] = {n} \cup Below(sub, t.child[s][n]) \cup Below(sub, t.child[s][up])
    /\ \A m \in TreeNodes : m # n /\ m # up => sub2[m] = sub[m]

\* They can be given for any rotation.
LEMMA ShiftedExists ==
    ASSUME NEW t, NEW M, NEW sub, Shape(t, M, sub), NEW n \in M, NEW s \in Sides,
           NEW up, up = t.child[Opp(s)][n], up # Nil
    PROVE  \E sub2 : Shifted(t, n, s, up, sub, sub2)
<1> DEFINE low == {n} \cup Below(sub, t.child[s][n]) \cup Below(sub, t.child[s][up])
           sub2 == [m \in TreeNodes |-> IF m = up THEN sub[n] ELSE IF m = n THEN low ELSE sub[m]]
<1>1. n \in TreeNodes /\ up \in TreeNodes /\ up \in M /\ up # n /\ Opp(s) \in Sides
  BY OneParent, Opposite
<1>2. sub \in [TreeNodes -> SUBSET TreeNodes]
  BY DEF Shape
<1>3. low \subseteq TreeNodes
  BY <1>1, <1>2, Apart, Opposite
<1> HIDE DEF low
<1>4. sub2 \in [TreeNodes -> SUBSET TreeNodes] /\ sub2[up] = sub[n] /\ sub2[n] = low
      /\ \A m \in TreeNodes : m # n /\ m # up => sub2[m] = sub[m]
  BY <1>1, <1>2, <1>3
<1>5. Shifted(t, n, s, up, sub, sub2)
  BY <1>4 DEF Shifted, low
<1> QED  BY <1>5

\* The shape is kept, of the same nodes.
LEMMA RotateShape ==
    ASSUME NEW t, NEW M, NEW sub, Shape(t, M, sub), NEW n \in M, NEW s \in Sides,
           NEW up, up = t.child[Opp(s)][n], up # Nil,
           NEW t2, Rotated(t, n, s, up, M, t2), NEW sub2, Shifted(t, n, s, up, sub, sub2)
    PROVE  Shape(t2, M, sub2)
<1>1. PICK a, b, c, o : /\ a = t.child[s][n] /\ b = t.child[s][up] /\ c = t.child[Opp(s)][up]
                        /\ o = Opp(s)
  OBVIOUS
<1>2. /\ n \in TreeNodes /\ up \in TreeNodes /\ up \in M /\ up # n /\ n # Nil /\ up # t.root
      /\ o \in Sides /\ o # s /\ Opp(o) = s /\ \A x \in Sides : x = s \/ x = o
      /\ M \subseteq TreeNodes /\ t.parent[up] = n
      /\ \A x \in Sides, m \in M : t.child[x][m] = up => m = n /\ x = o
  BY <1>1, OneParent, Opposite, NodeKeys DEF Shape, Sides
<1>3. \A m \in M, x \in Sides : PlacedFrom(t, M, sub, m, x)
  BY EitherSide DEF Shape
<1>4. /\ a \in M \cup {Nil} /\ a # n /\ a # up /\ (a # Nil => t.parent[a] = n)
      /\ b \in M \cup {Nil} /\ b # n /\ b # up /\ (b # Nil => t.parent[b] = up)
      /\ c \in M \cup {Nil} /\ c # n /\ c # up /\ (c # Nil => t.parent[c] = up)
      /\ (b # Nil => b # c)
      /\ t.parent[n] # up
  <2> DEFINE Kid(x, m) == /\ t.child[x][m] \in M \cup {Nil}
                          /\ t.child[x][m] # Nil => t.parent[t.child[x][m]] = m
  <2>0. Kid(s, n) /\ Kid(s, up) /\ Kid(o, up)
    BY <1>2, <1>3 DEF PlacedFrom
  <2>1. a \in M \cup {Nil} /\ b \in M \cup {Nil} /\ c \in M \cup {Nil}
    BY <2>0, <1>1
  <2>2. /\ (a # Nil => t.parent[a] = n) /\ (b # Nil => t.parent[b] = up)
        /\ (c # Nil => t.parent[c] = up)
    BY <2>0, <1>1
  <2>3. t.parent[n] # up
    <3>1. n \notin sub[up]
      BY <1>1, <1>2, Apart DEF Below
    <3>2. n # t.root => t.parent[n] \in M /\ n \in sub[t.parent[n]]
      BY <1>2, SideTold, Apart DEF Below
    <3>3. n = t.root => t.parent[n] = Nil
      BY SideTold
    <3> QED  BY <3>1, <3>2, <3>3, <1>2
  <2>4. a # up
    BY <1>1, <1>2
  <2>5. a # n
    BY <1>1, <1>2, OneParent
  <2>6. b # up /\ c # up
    BY <1>1, <1>2, OneParent
  <2>7. b # Nil => b # c
    BY <1>1, <1>2, OneParent
  <2>8. b # n /\ c # n
    BY <1>1, <1>2, <2>2, <2>3
  <2> QED  BY <2>1, <2>2, <2>3, <2>4, <2>5, <2>6, <2>7, <2>8
<1>5. /\ sub[n] = {n} \cup Below(sub, a) \cup sub[up]
      /\ sub[up] = {up} \cup Below(sub, b) \cup Below(sub, c)
      /\ sub[n] \subseteq M
  BY <1>1, <1>2, <1>3 DEF PlacedFrom, Below
<1>6. /\ sub2 \in [TreeNodes -> SUBSET TreeNodes] /\ sub2[up] = sub[n]
      /\ sub2[n] = {n} \cup Below(sub, a) \cup Below(sub, b)
      /\ \A m \in TreeNodes : m # n /\ m # up => sub2[m] = sub[m]
  BY <1>1 DEF Shifted
<1>7. \A m \in M \cup {Nil} : m # n /\ m # up => Below(sub2, m) = Below(sub, m)
  BY <1>2, <1>6 DEF Below
<1>8. /\ t2 \in TreeType /\ t2.root = IF t.root = n THEN up ELSE t.root
      /\ t2.child[s][n] = a /\ t2.child[o][n] = b
      /\ t2.child[s][up] = n /\ t2.child[o][up] = c
      /\ \A x \in Sides, m \in M : m # n /\ m # up =>
            t2.child[x][m] = IF t.child[x][m] = n THEN up ELSE t.child[x][m]
      /\ t2.parent[n] = up /\ t2.parent[up] = t.parent[n] /\ (b # Nil => t2.parent[b] = n)
      /\ \A m \in M : m # n /\ m # up /\ m # b => t2.parent[m] = t.parent[m]
  BY <1>1, <1>2, <1>4 DEF Rotated
<1>9. Placed(t2, M, sub2, n)
  <2>1. Below(sub2, a) = Below(sub, a) /\ Below(sub2, b) = Below(sub, b)
    BY <1>4, <1>7
  <2>2. \A m \in Below(sub2, a) : Before(s, m, n)
    BY <2>1, <1>1, <1>3 DEF PlacedFrom
  <2>3. \A m \in Below(sub2, b) : Before(o, m, n)
    <3>1. \A m \in sub[up] : Before(o, m, n)
      BY <1>1, <1>2, <1>3 DEF PlacedFrom, Below
    <3> QED  BY <3>1, <2>1, <1>5
  <2>4. sub2[n] \subseteq M
    BY <1>5, <1>6
  <2>5. \A x \in Sides : /\ t2.child[x][n] \in M \cup {Nil}
                         /\ t2.child[x][n] # Nil => t2.parent[t2.child[x][n]] = n
    <3>1. a # Nil => a # b /\ t2.parent[a] = n
      BY <1>2, <1>4, <1>8
    <3>2. /\ t2.child[s][n] \in M \cup {Nil}
          /\ t2.child[s][n] # Nil => t2.parent[t2.child[s][n]] = n
      BY <3>1, <1>4, <1>8
    <3>3. /\ t2.child[o][n] \in M \cup {Nil}
          /\ t2.child[o][n] # Nil => t2.parent[t2.child[o][n]] = n
      BY <1>4, <1>8
    <3> QED  BY <3>2, <3>3, <1>2
  <2>6. t2.parent[n] \in M /\ t2.child[s][t2.parent[n]] = n
    BY <1>2, <1>8
  <2>7. PlacedFrom(t2, M, sub2, n, s)
    BY <2>1, <2>2, <2>3, <2>4, <2>5, <2>6, <1>1, <1>6, <1>8, Zenon DEF PlacedFrom
  <2> QED  BY <2>7, EitherSide
<1>10. Placed(t2, M, sub2, up)
  <2>1. Below(sub2, n) = sub2[n] /\ Below(sub2, c) = Below(sub, c)
    BY <1>2, <1>4, <1>7 DEF Below
  <2>2. \A m \in Below(sub2, c) : Before(o, m, up)
    BY <2>1, <1>1, <1>2, <1>3 DEF PlacedFrom
  <2>3. \A m \in Below(sub2, n) : Before(s, m, up)
    <3>1. Before(s, n, up)
      <4>1. Before(o, up, n)
        BY <1>1, <1>2, <1>3, <1>5 DEF PlacedFrom, Below
      <4> QED  BY <4>1, <1>2, BeforeOrder
    <3>2. \A m \in Below(sub, a) : Before(s, m, n)
      BY <1>1, <1>3 DEF PlacedFrom
    <3>3. \A m \in Below(sub, a) : Before(s, m, up)
      BY <3>1, <3>2, <1>2, <1>5, BeforeOrder
    <3>4. \A m \in Below(sub, b) : Before(s, m, up)
      BY <1>1, <1>2, <1>3 DEF PlacedFrom
    <3> QED  BY <3>1, <3>3, <3>4, <2>1, <1>6
  <2>4. sub2[up] = {up} \cup Below(sub2, n) \cup Below(sub2, c)
    BY <2>1, <1>5, <1>6
  <2>5. \A x \in Sides : /\ t2.child[x][up] \in M \cup {Nil}
                         /\ t2.child[x][up] # Nil => t2.parent[t2.child[x][up]] = up
    <3>1. c # Nil => t2.parent[c] = up
      BY <1>4, <1>8
    <3>2. /\ t2.child[s][up] \in M \cup {Nil}
          /\ t2.child[s][up] # Nil => t2.parent[t2.child[s][up]] = up
      BY <1>8
    <3>3. /\ t2.child[o][up] \in M \cup {Nil}
          /\ t2.child[o][up] # Nil => t2.parent[t2.child[o][up]] = up
      BY <3>1, <1>4, <1>8
    <3> QED  BY <3>2, <3>3, <1>2
  <2>6. up = t2.root \/ (t2.parent[up] \in M /\ \E x \in Sides : t2.child[x][t2.parent[up]] = up)
    <3>1. CASE n = t.root
      BY <3>1, <1>8, Zenon
    <3>2. CASE n # t.root
      <4>1. PICK x \in Sides : t.parent[n] \in M /\ t.child[x][t.parent[n]] = n /\ t.parent[n] # n
        BY <3>2, SideTold
      <4> QED  BY <4>1, <1>4, <1>8
    <3> QED  BY <3>1, <3>2
  <2>7. PlacedFrom(t2, M, sub2, up, s)
    BY <2>2, <2>3, <2>4, <2>5, <2>6, <1>1, <1>5, <1>6, <1>8, Zenon DEF PlacedFrom
  <2> QED  BY <2>7, EitherSide
<1>11. ASSUME NEW m \in M, m # n, m # up PROVE Placed(t2, M, sub2, m)
  <2>1. PlacedFrom(t, M, sub, m, s)
    BY <1>3
  <2>2. \A x \in Sides : /\ Below(sub2, t2.child[x][m]) = Below(sub, t.child[x][m])
                         /\ t2.child[x][m] \in M \cup {Nil}
                         /\ t2.child[x][m] # Nil => t2.parent[t2.child[x][m]] = m
    <3> SUFFICES ASSUME NEW x \in Sides
                 PROVE  /\ Below(sub2, t2.child[x][m]) = Below(sub, t.child[x][m])
                        /\ t2.child[x][m] \in M \cup {Nil}
                        /\ t2.child[x][m] # Nil => t2.parent[t2.child[x][m]] = m
      OBVIOUS
    <3>1. t.child[x][m] \in M \cup {Nil} /\ (t.child[x][m] # Nil => t.parent[t.child[x][m]] = m)
      BY <2>1 DEF PlacedFrom
    <3>2. CASE t.child[x][m] = n
      BY <3>1, <3>2, <1>2, <1>6, <1>8, <1>11 DEF Below
    <3>3. CASE t.child[x][m] # n
      <4>1. t.child[x][m] # up /\ (t.child[x][m] # Nil => t.child[x][m] # b)
        BY <3>1, <1>2, <1>4, <1>11
      <4> QED  BY <4>1, <3>1, <3>3, <1>7, <1>8, <1>11
    <3> QED  BY <3>2, <3>3
  <2>3. m = t2.root \/ (t2.parent[m] \in M /\ \E x \in Sides : t2.child[x][t2.parent[m]] = m)
    <3>1. CASE m = b
      BY <3>1, <1>2, <1>4, <1>8, NodeKeys
    <3>2. CASE m = t.root
      BY <3>2, <1>8, <1>11
    <3>3. CASE m # b /\ m # t.root
      <4>1. PICK x \in Sides, p \in M : p = t.parent[m] /\ t.child[x][p] = m
        BY <3>3, SideTold
      <4>2. t2.parent[m] = p
        BY <4>1, <3>3, <1>8, <1>11
      <4>3. CASE p = n
        BY <4>1, <4>2, <4>3, <1>1, <1>2, <1>8, <1>11
      <4>4. CASE p = up
        BY <4>1, <4>2, <4>4, <3>3, <1>1, <1>2, <1>8, <1>11
      <4>5. CASE p # n /\ p # up
        BY <4>1, <4>2, <4>5, <1>8, <1>11
      <4> QED  BY <4>3, <4>4, <4>5
    <3> QED  BY <3>1, <3>2, <3>3
  <2>4. sub2[m] = sub[m]
    BY <1>2, <1>6, <1>11
  <2>5. PlacedFrom(t2, M, sub2, m, s)
    BY <2>1, <2>2, <2>3, <2>4, <1>1, <1>2 DEF PlacedFrom
  <2> QED  BY <2>5, EitherSide
<1>12. t2.root \in M \cup {Nil} /\ Below(sub2, t2.root) = M /\ (t2.root # Nil => t2.parent[t2.root] = Nil)
  <2>1. /\ t.root \in M \cup {Nil} /\ Below(sub, t.root) = M
        /\ t.root # Nil => t.parent[t.root] = Nil
    BY DEF Shape
  <2>2. t.root # b \/ t.root = Nil
    BY <1>2, <1>4, <2>1
  <2>3. CASE t.root = n
    BY <2>1, <2>3, <1>2, <1>6, <1>8 DEF Below
  <2>4. CASE t.root # n
    BY <2>1, <2>2, <2>4, <1>2, <1>7, <1>8
  <2> QED  BY <2>3, <2>4
<1> QED  BY <1>6, <1>8, <1>9, <1>10, <1>11, <1>12 DEF Shape

-----------------------------------------------------------------------------
(* So do the other changes.                                                 *)

\* The links alone make the shape.
LEMMA LinksShape ==
    ASSUME NEW t, NEW M, NEW sub, Shape(t, M, sub), NEW t2 \in TreeType,
           t2.child = t.child, t2.parent = t.parent, t2.root = t.root
    PROVE  Shape(t2, M, sub)
BY DEF Shape, Placed

\* A node with a child missing goes, and the other child, if any, moves up.
Removed(t, n, c, M, t2) ==
    /\ t2 \in TreeType /\ t2.color = t.color
    /\ t2.root = IF t.root = n THEN c ELSE t.root
    /\ \A x \in Sides, m \in TreeNodes :
         t2.child[x][m] = IF m \in M /\ t.child[x][m] = n THEN c ELSE t.child[x][m]
    /\ \A m \in TreeNodes : t2.parent[m] = IF m = c THEN t.parent[n] ELSE t.parent[m]

\* What is left below each node.
Without(sub, n) == [m \in TreeNodes |-> sub[m] \ {n}]

\* The shape is kept, of the other nodes.
LEMMA RemoveShape ==
    ASSUME NEW t, NEW M, NEW sub, Shape(t, M, sub), NEW n \in M, NEW s \in Sides,
           NEW c, c = t.child[s][n], t.child[Opp(s)][n] = Nil, NEW t2, Removed(t, n, c, M, t2)
    PROVE  Shape(t2, M \ {n}, Without(sub, n))
<1>1. PICK sub2 : sub2 = Without(sub, n)
  OBVIOUS
<1>2. /\ sub2 \in [TreeNodes -> SUBSET TreeNodes] /\ \A m \in TreeNodes : sub2[m] = sub[m] \ {n}
      /\ \A m \in TreeNodes \cup {Nil} : Below(sub2, m) = Below(sub, m) \ {n}
  BY <1>1, NodeKeys DEF Shape, Without, Below
<1>3. /\ n \in TreeNodes /\ n # Nil /\ M \subseteq TreeNodes /\ c # n
      /\ c \in M \cup {Nil} /\ (c # Nil => t.parent[c] = n /\ c # t.root)
      /\ \A x \in Sides, m \in M : t.child[x][m] = c /\ c # Nil => m = n
  <2>1. c \in M \cup {Nil}
    BY DEF Shape, Placed
  <2> QED  BY <2>1, OneParent, NodeKeys DEF Shape
<1>4. \A m \in M, x \in Sides : PlacedFrom(t, M, sub, m, x)
  BY EitherSide DEF Shape
<1>5. sub[n] = {n} \cup Below(sub, c) /\ n \notin Below(sub, c)
  BY Apart DEF Below
<1>6. /\ t2 \in TreeType /\ t2.root = IF t.root = n THEN c ELSE t.root
      /\ \A x \in Sides, m \in M :
           t2.child[x][m] = IF t.child[x][m] = n THEN c ELSE t.child[x][m]
      /\ \A m \in M : t2.parent[m] = IF m = c THEN t.parent[n] ELSE t.parent[m]
  BY <1>3 DEF Removed
<1>7. ASSUME NEW m \in M, m # n PROVE Placed(t2, M \ {n}, sub2, m)
  <2>1. PlacedFrom(t, M, sub, m, s)
    BY <1>4
  <2>2. \A x \in Sides : /\ Below(sub2, t2.child[x][m]) = Below(sub, t.child[x][m]) \ {n}
                         /\ t2.child[x][m] \in (M \ {n}) \cup {Nil}
                         /\ t2.child[x][m] # Nil => t2.parent[t2.child[x][m]] = m
    <3> SUFFICES ASSUME NEW x \in Sides
                 PROVE  /\ Below(sub2, t2.child[x][m]) = Below(sub, t.child[x][m]) \ {n}
                        /\ t2.child[x][m] \in (M \ {n}) \cup {Nil}
                        /\ t2.child[x][m] # Nil => t2.parent[t2.child[x][m]] = m
      OBVIOUS
    <3>1. t.child[x][m] \in M \cup {Nil} /\ (t.child[x][m] # Nil => t.parent[t.child[x][m]] = m)
      BY <2>1 DEF PlacedFrom
    <3>2. CASE t.child[x][m] = n
      <4>1. t2.child[x][m] = c
        BY <3>2, <1>6
      <4>2. Below(sub2, c) = Below(sub, n) \ {n}
        BY <1>2, <1>3, <1>5 DEF Below
      <4>3. c # Nil => t2.parent[c] = m
        BY <3>1, <3>2, <1>3, <1>6
      <4> QED  BY <4>1, <4>2, <4>3, <3>2, <1>3
    <3>3. CASE t.child[x][m] # n
      <4>1. t.child[x][m] # c \/ c = Nil
        BY <1>3, <1>7
      <4> QED  BY <4>1, <3>1, <3>3, <1>2, <1>3, <1>6, <1>7
    <3> QED  BY <3>2, <3>3
  <2>3. \/ m = t2.root
        \/ t2.parent[m] \in M \ {n} /\ \E x \in Sides : t2.child[x][t2.parent[m]] = m
    <3>1. CASE m = t.root
      BY <3>1, <1>6, <1>7
    <3>2. CASE m = c /\ n = t.root
      BY <3>2, <1>6
    <3>3. CASE m = c /\ n # t.root
      <4>1. PICK x \in Sides : t.parent[n] \in M /\ t.parent[n] # n /\ t.child[x][t.parent[n]] = n
        BY <3>3, SideTold
      <4> QED  BY <4>1, <3>3, <1>6
    <3>4. CASE m # t.root /\ m # c
      <4>1. PICK x \in Sides, p \in M : p = t.parent[m] /\ t.child[x][p] = m
        BY <3>4, SideTold
      <4>2. p # n
        BY <4>1, <3>4, <1>7, Opposite, NodeKeys DEF Shape
      <4> QED  BY <4>1, <4>2, <3>4, <1>6, <1>7
    <3> QED  BY <3>1, <3>2, <3>3, <3>4
  <2>4. sub2[m] = sub[m] \ {n}
    BY <1>2, <1>3
  <2>5. PlacedFrom(t2, M \ {n}, sub2, m, s)
    BY <2>1, <2>2, <2>3, <2>4, <1>7, Opposite DEF PlacedFrom
  <2> QED  BY <2>5, EitherSide
<1>8. /\ t2.root \in (M \ {n}) \cup {Nil} /\ Below(sub2, t2.root) = M \ {n}
      /\ t2.root # Nil => t2.parent[t2.root] = Nil
  <2>1. /\ t.root \in M \cup {Nil} /\ Below(sub, t.root) = M
        /\ t.root # Nil => t.parent[t.root] = Nil
    BY DEF Shape
  <2>2. CASE t.root = n
    <3>1. Below(sub2, c) = M \ {n}
      BY <2>1, <2>2, <1>2, <1>3, <1>5 DEF Below
    <3> QED  BY <3>1, <2>1, <2>2, <1>3, <1>6
  <2>3. CASE t.root # n
    BY <2>1, <2>3, <1>2, <1>3, <1>6
  <2> QED  BY <2>2, <2>3
<1>9. IsFiniteSet(M \ {n})
  BY FS_RemoveElement DEF Shape
<1>10. Shape(t2, M \ {n}, sub2)
  BY <1>2, <1>3, <1>6, <1>7, <1>8, <1>9 DEF Shape
<1> QED  BY <1>1, <1>10

\* A node takes the place of another.
Replaced(t, old, new, M, t2) ==
    /\ t2 \in TreeType
    /\ t2.root = IF t.root = old THEN new ELSE t.root
    /\ \A x \in Sides : /\ t2.child[x][new] = t.child[x][old]
                        /\ \A m \in M \ {old} :
                             t2.child[x][m] = IF t.child[x][m] = old THEN new ELSE t.child[x][m]
    /\ t2.parent[new] = t.parent[old]
    /\ \A m \in M \ {old} : t2.parent[m] = IF t.parent[m] = old THEN new ELSE t.parent[m]

\* The nodes below, with one exchanged.
Swapped(S, old, new) == IF old \in S THEN (S \ {old}) \cup {new} ELSE S
WithSwapped(sub, old, new) ==
    [m \in TreeNodes |-> IF m = new THEN Swapped(sub[old], old, new) ELSE Swapped(sub[m], old, new)]

\* Its key is where that of the other was.
SameRank(M, old, new) ==
    \A m \in M \ {old} : \A s \in Sides : Before(s, m, old) => Before(s, m, new)

\* The shape is kept, of the nodes with the one exchanged.
LEMMA ReplaceShape ==
    ASSUME NEW t, NEW M, NEW sub, Shape(t, M, sub), NEW old \in M, NEW new \in TreeNodes \ M,
           SameRank(M, old, new), NEW t2, Replaced(t, old, new, M, t2)
    PROVE  Shape(t2, (M \ {old}) \cup {new}, WithSwapped(sub, old, new))
<1>1. PICK sub2, M2 : sub2 = WithSwapped(sub, old, new) /\ M2 = (M \ {old}) \cup {new}
  OBVIOUS
<1>2. old \in TreeNodes /\ old # Nil /\ new # Nil /\ M \subseteq TreeNodes /\ old # new /\ M2 \subseteq TreeNodes
  BY <1>1, NodeKeys DEF Shape
<1>3. /\ sub2 \in [TreeNodes -> SUBSET TreeNodes]
      /\ sub2[new] = Swapped(sub[old], old, new)
      /\ \A m \in M \ {old} : sub2[m] = Swapped(sub[m], old, new)
  BY <1>1, <1>2 DEF Shape, WithSwapped, Swapped
<1>4. \A m \in M, x \in Sides : PlacedFrom(t, M, sub, m, x)
  BY EitherSide DEF Shape
<1>5. /\ t2 \in TreeType /\ t2.root = IF t.root = old THEN new ELSE t.root
      /\ \A x \in Sides : t2.child[x][new] = t.child[x][old]
      /\ \A x \in Sides, m \in M \ {old} :
           t2.child[x][m] = IF t.child[x][m] = old THEN new ELSE t.child[x][m]
      /\ t2.parent[new] = t.parent[old]
      /\ \A m \in M \ {old} : t2.parent[m] = IF t.parent[m] = old THEN new ELSE t.parent[m]
  BY DEF Replaced
<1>6. \A m \in M : sub[m] \subseteq M /\ Swapped(sub[m], old, new) \subseteq M2
  BY <1>1, <1>4, Opposite DEF PlacedFrom, Swapped, Sides
<1>7. \A m \in (M \ {old}) \cup {Nil} : Below(sub2, m) = Swapped(Below(sub, m), old, new)
  BY <1>2, <1>3 DEF Below, Swapped
<1>8. Below(sub2, new) = Swapped(Below(sub, old), old, new)
  BY <1>2, <1>3 DEF Below
<1>9. Placed(t2, M2, sub2, new)
  <2>1. \A x \in Sides : /\ t2.child[x][new] \in (M \ {old}) \cup {Nil}
                         /\ t2.child[x][new] # Nil => t2.parent[t2.child[x][new]] = new
                         /\ Below(sub2, t2.child[x][new]) = Below(sub, t.child[x][old])
                         /\ old \notin Below(sub, t.child[x][old])
                         /\ Below(sub, t.child[x][old]) \subseteq M
    <3> SUFFICES ASSUME NEW x \in Sides
                 PROVE  /\ t2.child[x][new] \in (M \ {old}) \cup {Nil}
                        /\ t2.child[x][new] # Nil => t2.parent[t2.child[x][new]] = new
                        /\ Below(sub2, t2.child[x][new]) = Below(sub, t.child[x][old])
                        /\ old \notin Below(sub, t.child[x][old])
                        /\ Below(sub, t.child[x][old]) \subseteq M
      OBVIOUS
    <3>1. /\ t.child[x][old] \in (M \ {old}) \cup {Nil}
          /\ t.child[x][old] # Nil => t.parent[t.child[x][old]] = old
      BY <1>4, OneParent DEF PlacedFrom
    <3>2. old \notin Below(sub, t.child[x][old]) /\ Below(sub, t.child[x][old]) \subseteq M
      BY <1>6, Apart
    <3>3. Below(sub2, t.child[x][old]) = Below(sub, t.child[x][old])
      BY <3>1, <3>2, <1>7 DEF Swapped
    <3> QED  BY <3>1, <3>2, <3>3, <1>5
  <2>2. \A x \in Sides : \A m \in Below(sub2, t2.child[x][new]) : Before(x, m, new)
    BY <2>1, <1>4 DEF PlacedFrom, SameRank
  <2>3. new = t2.root \/ (t2.parent[new] \in M2 /\ \E x \in Sides : t2.child[x][t2.parent[new]] = new)
    <3>1. CASE old = t.root
      BY <3>1, <1>5
    <3>2. CASE old # t.root
      <4>1. PICK x \in Sides : t.parent[old] \in M \ {old} /\ t.child[x][t.parent[old]] = old
        BY <3>2, SideTold
      <4> QED  BY <4>1, <1>1, <1>5
    <3> QED  BY <3>1, <3>2
  <2>4. sub2[new] = {new} \cup Below(sub2, t2.child["left"][new]) \cup Below(sub2, t2.child[Opp("left")][new])
    <3>1. "left" \in Sides /\ Opp("left") \in Sides
      BY Opposite DEF Sides
    <3>2. sub[old] = {old} \cup Below(sub, t.child["left"][old]) \cup Below(sub, t.child[Opp("left")][old])
      BY <3>1, <1>4 DEF PlacedFrom
    <3> QED  BY <3>1, <3>2, <2>1, <1>3 DEF Swapped
  <2>5. "left" \in Sides /\ Opp("left") \in Sides
    BY Opposite DEF Sides
  <2>6. PlacedFrom(t2, M2, sub2, new, "left")
    BY <2>1, <2>2, <2>3, <2>4, <2>5, <1>1, <1>3, <1>6 DEF PlacedFrom
  <2> QED  BY <2>5, <2>6, EitherSide
<1>10. ASSUME NEW m \in M, m # old PROVE Placed(t2, M2, sub2, m)
  <2>1. \A x \in Sides : /\ t2.child[x][m] \in M2 \cup {Nil}
                         /\ t2.child[x][m] # Nil => t2.parent[t2.child[x][m]] = m
                         /\ Below(sub2, t2.child[x][m]) = Swapped(Below(sub, t.child[x][m]), old, new)
    <3> SUFFICES ASSUME NEW x \in Sides
                 PROVE  /\ t2.child[x][m] \in M2 \cup {Nil}
                        /\ t2.child[x][m] # Nil => t2.parent[t2.child[x][m]] = m
                        /\ Below(sub2, t2.child[x][m]) = Swapped(Below(sub, t.child[x][m]), old, new)
      OBVIOUS
    <3>1. t.child[x][m] \in M \cup {Nil} /\ (t.child[x][m] # Nil => t.parent[t.child[x][m]] = m)
      BY <1>4 DEF PlacedFrom
    <3>2. CASE t.child[x][m] = old
      BY <3>1, <3>2, <1>1, <1>2, <1>5, <1>8, <1>10
    <3>3. CASE t.child[x][m] # old
      BY <3>1, <3>3, <1>1, <1>2, <1>5, <1>7, <1>10
    <3> QED  BY <3>2, <3>3
  <2>2. ASSUME NEW x \in Sides, NEW k \in Below(sub2, t2.child[x][m]) PROVE Before(x, k, m)
    <3>1. \A j \in Below(sub, t.child[x][m]) : Before(x, j, m)
      BY <1>4 DEF PlacedFrom
    <3>2. CASE k = new /\ old \in Below(sub, t.child[x][m])
      <4>1. Before(Opp(x), m, old)
        BY <3>1, <3>2, <1>2, BeforeOrder
      <4>2. Before(Opp(x), m, new)
        BY <4>1, <1>10, Opposite DEF SameRank
      <4> QED  BY <4>2, <3>2, <1>2, BeforeOrder
    <3>3. CASE k \in Below(sub, t.child[x][m])
      BY <3>1, <3>3
    <3> QED  BY <3>2, <3>3, <2>1, <2>2 DEF Swapped
  <2>3. m = t2.root \/ (t2.parent[m] \in M2 /\ \E x \in Sides : t2.child[x][t2.parent[m]] = m)
    <3>1. CASE m = t.root
      BY <3>1, <1>5, <1>10
    <3>2. CASE m # t.root
      <4>1. PICK x \in Sides, p \in M : p = t.parent[m] /\ t.child[x][p] = m
        BY <3>2, SideTold
      <4>2. CASE p = old
        <5>1. t2.parent[m] = new /\ t2.child[x][new] = m /\ new \in M2
          BY <4>1, <4>2, <1>1, <1>5, <1>10
        <5> QED  BY <5>1
      <4>3. CASE p # old
        BY <4>1, <4>3, <1>1, <1>5, <1>10
      <4> QED  BY <4>2, <4>3
    <3> QED  BY <3>1, <3>2
  <2>4. "left" \in Sides /\ Opp("left") \in Sides
    BY Opposite DEF Sides
  <2>5. sub2[m] = {m} \cup Below(sub2, t2.child["left"][m]) \cup Below(sub2, t2.child[Opp("left")][m])
    <3>1. sub[m] = {m} \cup Below(sub, t.child["left"][m]) \cup Below(sub, t.child[Opp("left")][m])
      BY <2>4, <1>4 DEF PlacedFrom
    <3>2. Below(sub, t.child["left"][m]) \cap Below(sub, t.child[Opp("left")][m]) = {}
      BY <2>4, Apart
    <3> QED  BY <3>1, <3>2, <2>1, <2>4, <1>3, <1>10 DEF Swapped
  <2>6. PlacedFrom(t2, M2, sub2, m, "left")
    BY <2>1, <2>2, <2>3, <2>4, <2>5, <1>3, <1>6, <1>10 DEF PlacedFrom
  <2> QED  BY <2>4, <2>6, EitherSide
<1>11. /\ t2.root \in M2 \cup {Nil} /\ Below(sub2, t2.root) = M2
       /\ t2.root # Nil => t2.parent[t2.root] = Nil
  <2>1. /\ t.root \in M \cup {Nil} /\ Below(sub, t.root) = M
        /\ t.root # Nil => t.parent[t.root] = Nil
    BY DEF Shape
  <2>2. CASE t.root = old
    <3>1. t2.root = new /\ new \in M2 /\ t2.parent[new] = Nil
      BY <2>1, <2>2, <1>1, <1>2, <1>5
    <3>2. Below(sub2, new) = M2
      BY <2>1, <2>2, <1>1, <1>8 DEF Swapped
    <3> QED  BY <3>1, <3>2
  <2>3. CASE t.root # old
    BY <2>1, <2>3, <1>1, <1>2, <1>5, <1>7 DEF Swapped
  <2> QED  BY <2>2, <2>3
<1>12. IsFiniteSet(M2)
  <2>1. IsFiniteSet(M \ {old})
    BY FS_RemoveElement DEF Shape
  <2> QED  BY <2>1, <1>1, FS_AddElement
<1>13. Shape(t2, M2, sub2)
  BY <1>1, <1>2, <1>3, <1>5, <1>9, <1>10, <1>11, <1>12 DEF Shape
<1> QED  BY <1>1, <1>13

-----------------------------------------------------------------------------
(* The loops that walk the tree.                                            *)

\* Each goes from a node to the next, until one where it stops: if each step lowers
\* a bounded rank, there is a function that is what the loop computes.
IsLoop(f, S, Stop, base, nxt) == f = [m \in S |-> IF m \in Stop THEN base[m] ELSE f[nxt[m]]]

\* The function exists by the ranks alone.
LEMMA LoopDefined ==
    ASSUME NEW S, NEW Stop, NEW base, NEW nxt, NEW rank \in [S -> Nat], NEW N \in Nat,
           \A m \in S : rank[m] <= N,
           \A m \in S \ Stop : nxt[m] \in S /\ rank[nxt[m]] < rank[m]
    PROVE  \E f : IsLoop(f, S, Stop, base, nxt)
<1> DEFINE Turn(f, m) == IF m \in Stop THEN base[m] ELSE f[nxt[m]]
           Good(k) == \E f : /\ f = [m \in S |-> f[m]]
                             /\ \A m \in S : rank[m] < k => f[m] = Turn(f, m)
           Bad == {k \in Nat : ~ Good(k)}
<1>1. Good(0)
  <2> DEFINE f == [m \in S |-> m]
  <2>1. f = [m \in S |-> f[m]]
    OBVIOUS
  <2>2. \A m \in S : ~ (rank[m] < 0)
    OBVIOUS
  <2> HIDE DEF f
  <2> QED  BY <2>1, <2>2
<1>2. ASSUME NEW k \in Nat, Good(k) PROVE Good(k + 1)
  <2>1. PICK f : f = [m \in S |-> f[m]] /\ \A m \in S : rank[m] < k => f[m] = Turn(f, m)
    BY <1>2
  <2> DEFINE g == [m \in S |-> Turn(f, m)]
  <2>2. ASSUME NEW m \in S, rank[m] < k + 1 PROVE g[m] = Turn(g, m)
    <3>1. CASE m \in Stop
      BY <3>1
    <3>2. CASE m \notin Stop
      <4>1. nxt[m] \in S /\ rank[nxt[m]] < k
        BY <3>2, <2>2
      <4>2. f[nxt[m]] = g[nxt[m]]
        BY <4>1, <2>1
      <4> QED  BY <4>1, <4>2, <3>2
    <3> QED  BY <3>1, <3>2
  <2>3. g = [m \in S |-> g[m]]
    OBVIOUS
  <2> HIDE DEF g
  <2> QED  BY <2>2, <2>3
<1> HIDE DEF Good
<1>3. Bad = {}
  <2> SUFFICES ASSUME Bad # {} PROVE FALSE
    OBVIOUS
  <2>1. PICK k \in Bad : \A x \in Bad : k <= x
    <3>1. Bad \in SUBSET Nat
      OBVIOUS
    <3> HIDE DEF Bad
    <3> QED  BY <3>1, LeastOfNats
  <2>2. k # 0 /\ k \in Nat /\ ~ Good(k)
    BY <2>1, <1>1
  <2>3. k - 1 \in Nat /\ ~ (k <= k - 1)
    BY <2>2
  <2>4. Good(k - 1)
    BY <2>1, <2>3
  <2>5. Good((k - 1) + 1)
    BY <2>3, <2>4, <1>2
  <2> QED  BY <2>2, <2>5
<1>4. Good(N + 1)
  BY <1>3
<1>5. PICK f : f = [m \in S |-> f[m]] /\ \A m \in S : rank[m] < N + 1 => f[m] = Turn(f, m)
  BY <1>4 DEF Good
<1>6. \A m \in S : f[m] = Turn(f, m)
  BY <1>5
<1>7. f = [m \in S |-> Turn(f, m)]
  BY <1>5, <1>6
<1> QED  BY <1>7 DEF IsLoop

\* Nodes in no tree.
Loose(t, M) == \A n \in TreeNodes \ M : t.parent[n] = n /\ \A s \in Sides : t.child[s][n] = Nil

\* The way down, and the way up, are bounded.
LEMMA Ranks ==
    ASSUME NEW t, NEW M, NEW sub, Shape(t, M, sub)
    PROVE  \E down, up \in [TreeNodes -> Nat], N \in Nat :
              /\ \A n \in TreeNodes : down[n] <= N /\ up[n] <= N
              /\ \A n \in M, s \in Sides : t.child[s][n] # Nil =>
                   /\ down[t.child[s][n]] < down[n]
                   /\ up[n] < up[t.child[s][n]]
<1> DEFINE N == Cardinality(M)
           down == [n \in TreeNodes |-> IF n \in M THEN Cardinality(sub[n]) ELSE 0]
           up == [n \in TreeNodes |-> IF n \in M THEN N - Cardinality(sub[n]) ELSE 0]
<1>1. N \in Nat
  BY FS_CardinalityType DEF Shape
<1>2. ASSUME NEW n \in M
      PROVE  /\ IsFiniteSet(sub[n]) /\ Cardinality(sub[n]) \in Nat
             /\ Cardinality(sub[n]) <= N
  BY FS_Subset, FS_CardinalityType DEF Shape, Placed
<1>3. ASSUME NEW n \in M, NEW s \in Sides, t.child[s][n] # Nil
      PROVE  /\ t.child[s][n] \in M
             /\ Cardinality(sub[t.child[s][n]]) < Cardinality(sub[n])
  <2>1. PICK c : c = t.child[s][n]
    OBVIOUS
  <2>2. c \in M
    BY <2>1, <1>3, OneParent
  <2>3. sub[c] \subseteq sub[n] /\ sub[c] # sub[n]
    BY <2>1, <1>3, Apart DEF Below
  <2>4. /\ Cardinality(sub[c]) <= Cardinality(sub[n])
        /\ Cardinality(sub[n]) = Cardinality(sub[c]) => sub[n] = sub[c]
    BY <2>3, <1>2, FS_Subset
  <2>5. Cardinality(sub[c]) < Cardinality(sub[n])
    BY <2>2, <2>3, <2>4, <1>2
  <2> QED  BY <2>1, <2>2, <2>5
<1>4. M \subseteq TreeNodes
  BY DEF Shape
<1> HIDE DEF N
<1>5. down \in [TreeNodes -> Nat] /\ up \in [TreeNodes -> Nat]
  BY <1>1, <1>2
<1>6. \A n \in TreeNodes : down[n] <= N /\ up[n] <= N
  BY <1>1, <1>2
<1>7. ASSUME NEW n \in M, NEW s \in Sides, t.child[s][n] # Nil
      PROVE  down[t.child[s][n]] < down[n] /\ up[n] < up[t.child[s][n]]
  <2>1. /\ t.child[s][n] \in M /\ t.child[s][n] \in TreeNodes /\ n \in TreeNodes
        /\ Cardinality(sub[t.child[s][n]]) < Cardinality(sub[n])
    BY <1>3, <1>4, <1>7
  <2> QED  BY <2>1, <1>1, <1>2
<1> HIDE DEF down, up
<1> QED  BY <1>1, <1>5, <1>6, <1>7

-----------------------------------------------------------------------------
(* What the walks find.                                                     *)

\* n is the first of S from side s.
First(S, n, s) == n \in S /\ \A m \in S \ {n} : Before(s, n, m)

\* Outermost finds the first node below a node.
LEMMA OutermostFirst ==
    ASSUME NEW t, NEW M, NEW sub, Shape(t, M, sub), Loose(t, M), NEW s \in Sides
    PROVE  \A n \in M : First(sub[n], Outermost(t, n, s), s) /\ t.child[s][Outermost(t, n, s)] = Nil
<1> DEFINE Down == CHOOSE f : f = [m \in TreeNodes |-> IF t.child[s][m] = Nil THEN m ELSE f[t.child[s][m]]]
<1>1. \A n : Outermost(t, n, s) = Down[n]
  BY DEF Outermost
<1>2. \A m \in TreeNodes : Down[m] = IF t.child[s][m] = Nil THEN m ELSE Down[t.child[s][m]]
  <2>1. PICK down \in [TreeNodes -> Nat], N \in Nat :
          /\ \A n \in TreeNodes : down[n] <= N
          /\ \A n \in M : t.child[s][n] # Nil => down[t.child[s][n]] < down[n]
    BY Ranks
  <2> DEFINE Stop == {m \in TreeNodes : t.child[s][m] = Nil}
             base == [m \in TreeNodes |-> m]
             nxt == [m \in TreeNodes |-> t.child[s][m]]
  <2>20. \A m \in TreeNodes : down[m] <= N
    BY <2>1
  <2>2. \A m \in TreeNodes \ Stop : nxt[m] \in TreeNodes /\ down[nxt[m]] < down[m]
    BY <2>1, TreeTyped DEF Shape, Loose
  <2> HIDE DEF Stop, base, nxt
  <2>3. PICK f : IsLoop(f, TreeNodes, Stop, base, nxt)
    BY <2>20, <2>2, LoopDefined
  <2>4. f = [m \in TreeNodes |-> IF t.child[s][m] = Nil THEN m ELSE f[t.child[s][m]]]
    BY <2>3 DEF IsLoop, Stop, base, nxt
  <2>5. Down = [m \in TreeNodes |-> IF t.child[s][m] = Nil THEN m ELSE Down[t.child[s][m]]]
    BY <2>4
  <2> HIDE DEF Down
  <2> QED  BY <2>5
<1> HIDE DEF Down
<1> DEFINE S == {n \in M : First(sub[n], Down[n], s) /\ t.child[s][Down[n]] = Nil}
<1>3. ASSUME NEW n \in M, \A x \in Sides : t.child[x][n] \in S \cup {Nil} PROVE n \in S
  <2>1. n \in TreeNodes /\ \A m \in sub[n] : m \in TreeNodes
    BY DEF Shape, Placed
  <2>2. /\ sub[n] = {n} \cup Below(sub, t.child[s][n]) \cup Below(sub, t.child[Opp(s)][n])
        /\ \A m \in Below(sub, t.child[s][n]) : Before(s, m, n)
        /\ \A m \in Below(sub, t.child[Opp(s)][n]) : Before(Opp(s), m, n)
    BY Halves
  <2>3. \A m \in Below(sub, t.child[Opp(s)][n]) : Before(s, n, m)
    BY <2>1, <2>2, Opposite, BeforeOrder
  <2>4. CASE t.child[s][n] = Nil
    <3>1. Down[n] = n
      BY <2>1, <2>4, <1>2
    <3>2. First(sub[n], n, s)
      BY <2>2, <2>3, <2>4 DEF First, Below
    <3> QED  BY <3>1, <3>2, <2>4
  <2>5. CASE t.child[s][n] # Nil
    <3>1. PICK c : c = t.child[s][n]
      OBVIOUS
    <3>2. c \in S /\ Below(sub, c) = sub[c] /\ Down[n] = Down[c]
      BY <3>1, <2>1, <2>5, <1>2, <1>3 DEF Below
    <3>3. Down[c] \in sub[c] /\ \A m \in sub[c] \ {Down[c]} : Before(s, Down[c], m)
      BY <3>2 DEF First
    <3>4. Down[c] \in TreeNodes /\ Before(s, Down[c], n)
      BY <3>1, <3>2, <3>3, <2>1, <2>2
    <3>5. \A m \in Below(sub, t.child[Opp(s)][n]) : Before(s, Down[c], m)
      BY <3>4, <2>1, <2>2, <2>3, BeforeOrder
    <3>6. First(sub[n], Down[c], s)
      BY <3>1, <3>2, <3>3, <3>4, <3>5, <2>2 DEF First
    <3> QED  BY <3>2, <3>6
  <2> QED  BY <2>4, <2>5
<1> HIDE DEF S
<1>4. M \subseteq S
  BY <1>3, TreeInduction
<1> QED  BY <1>1, <1>4 DEF S

\* Seen from a node that is not below n, those below n are all on one side.
LEMMA OneSide ==
    ASSUME NEW t, NEW M, NEW sub, Shape(t, M, sub), NEW s \in Sides
    PROVE  \A n \in M : \A k \in M \ sub[n] : \A j \in sub[n] : Before(s, k, n) <=> Before(s, k, j)
<1> DEFINE S == {n \in M : \A k \in M \ sub[n] : \A j \in sub[n] : Before(s, k, n) <=> Before(s, k, j)}
<1>1. t.root \in S \cup {Nil}
  BY DEF Shape, Below
<1>2. ASSUME NEW n \in M, n \in S, NEW x \in Sides PROVE t.child[x][n] \in S \cup {Nil}
  <2> SUFFICES ASSUME t.child[x][n] # Nil PROVE t.child[x][n] \in S
    OBVIOUS
  <2>1. PICK c : c = t.child[x][n]
    OBVIOUS
  <2>2. c \in M /\ c # Nil /\ Below(sub, c) = sub[c] /\ c \in sub[c]
    BY <2>1, OneParent, Apart DEF Below
  <2>3. /\ sub[n] = {n} \cup sub[c] \cup Below(sub, t.child[Opp(x)][n])
        /\ \A m \in sub[c] : Before(x, m, n)
        /\ \A m \in Below(sub, t.child[Opp(x)][n]) : Before(Opp(x), m, n)
    BY <2>1, <2>2, Halves
  <2>4. M \subseteq TreeNodes /\ sub[n] \subseteq M /\ n \in TreeNodes /\ Opp(x) \in Sides /\ (s = x \/ s = Opp(x))
    BY Opposite DEF Shape, Placed
  <2>5. ASSUME NEW k \in M \ sub[c], NEW j \in sub[c] PROVE Before(s, k, c) <=> Before(s, k, j)
    <3>0. k \in TreeNodes /\ j \in TreeNodes /\ c \in TreeNodes /\ j \in sub[n] /\ c \in sub[n]
      BY <2>2, <2>3, <2>4
    <3>1. CASE k \notin sub[n]
      BY <3>0, <3>1, <1>2
    <3>2. ASSUME k = n \/ k \in Below(sub, t.child[Opp(x)][n])
          PROVE  \A m \in sub[c] : Before(Opp(x), k, m) /\ ~ Before(x, k, m)
      <4> SUFFICES ASSUME NEW m \in sub[c] PROVE Before(Opp(x), k, m) /\ ~ Before(x, k, m)
        OBVIOUS
      <4>1. m \in TreeNodes /\ Before(Opp(x), n, m)
        BY <2>3, <2>4, BeforeOrder
      <4>2. Before(Opp(x), k, m)
        BY <4>1, <3>0, <3>2, <2>3, <2>4, BeforeOrder
      <4> QED  BY <4>1, <4>2, <3>0, <2>4, BeforeOrder
    <3>3. CASE k = n \/ k \in Below(sub, t.child[Opp(x)][n])
      BY <3>2, <3>3, <2>2, <2>4
    <3> QED  BY <3>1, <3>3, <2>3
  <2> QED  BY <2>1, <2>2, <2>5
<1> HIDE DEF S
<1>3. M \subseteq S
  BY <1>1, <1>2, DownInduction
<1> QED  BY <1>3 DEF S

\* What lies beyond n on side s.
BeyondNode(M, n, s) == {m \in M : Before(s, m, n)}

\* n is the one of S that comes last from side s, or Nil if there is none.
Nearest(S, n, s) == IF S = {} THEN n = Nil ELSE First(S, n, Opp(s))

\* rb_next and rb_prev find the nearest node on their side.
LEMMA NeighbourNearest ==
    ASSUME NEW t, NEW M, NEW sub, Shape(t, M, sub), Loose(t, M), NEW s \in Sides
    PROVE  \A n \in M : Nearest(BeyondNode(M, n, s), Neighbour(t, n, s), s)
<1> DEFINE Up == CHOOSE f : f = [m \in TreeNodes |->
                    IF t.parent[m] # Nil /\ t.child[s][t.parent[m]] = m
                    THEN f[t.parent[m]] ELSE t.parent[m]]
<1>1. \A n \in M : Neighbour(t, n, s) = IF t.child[s][n] # Nil
                                       THEN Outermost(t, t.child[s][n], Opp(s)) ELSE Up[n]
  <2>1. \A n \in M : t.parent[n] # n
    BY SideTold, NodeKeys DEF Shape
  <2> QED  BY <2>1 DEF Neighbour
<1>2. \A m \in TreeNodes : Up[m] = IF t.parent[m] # Nil /\ t.child[s][t.parent[m]] = m
                               THEN Up[t.parent[m]] ELSE t.parent[m]
  <2>1. PICK up \in [TreeNodes -> Nat], N \in Nat :
          /\ \A n \in TreeNodes : up[n] <= N
          /\ \A n \in M : t.child[s][n] # Nil => up[n] < up[t.child[s][n]]
    BY Ranks
  <2> DEFINE Stop == {m \in TreeNodes : ~ (t.parent[m] # Nil /\ t.child[s][t.parent[m]] = m)}
             base == [m \in TreeNodes |-> t.parent[m]]
             nxt == [m \in TreeNodes |-> t.parent[m]]
  <2>20. \A m \in TreeNodes : up[m] <= N
    BY <2>1
  <2>2. ASSUME NEW m \in TreeNodes \ Stop PROVE nxt[m] \in TreeNodes /\ up[nxt[m]] < up[m]
    <3>1. PICK p : p = t.parent[m]
      OBVIOUS
    <3>2. p \in TreeNodes /\ t.child[s][p] = m /\ m # Nil
      BY <3>1, TreeTyped, NodeKeys DEF Shape
    <3>3. p \in M
      BY <3>2 DEF Loose
    <3> QED  BY <3>1, <3>2, <3>3, <2>1
  <2> HIDE DEF Stop, base, nxt
  <2>3. PICK f : IsLoop(f, TreeNodes, Stop, base, nxt)
    BY <2>20, <2>2, LoopDefined
  <2>4. f = [m \in TreeNodes |-> IF t.parent[m] # Nil /\ t.child[s][t.parent[m]] = m
                             THEN f[t.parent[m]] ELSE t.parent[m]]
    BY <2>3 DEF IsLoop, Stop, base, nxt
  <2>5. Up = [m \in TreeNodes |-> IF t.parent[m] # Nil /\ t.child[s][t.parent[m]] = m
                              THEN Up[t.parent[m]] ELSE t.parent[m]]
    BY <2>4
  <2> HIDE DEF Up
  <2> QED  BY <2>5
<1> HIDE DEF Up
\* Going up finds the nearest of the nodes that are not below.
<1> DEFINE Outer(n) == {k \in M \ sub[n] : Before(s, k, n)}
           S == {n \in M : Nearest(Outer(n), Up[n], s)}
<1>3. t.root \in S \cup {Nil}
  <2> SUFFICES ASSUME t.root # Nil PROVE t.root \in S
    OBVIOUS
  <2>1. t.root \in M /\ t.root \in TreeNodes /\ sub[t.root] = M /\ t.parent[t.root] = Nil
    BY DEF Shape, Below
  <2>2. Up[t.root] = Nil /\ Outer(t.root) = {}
    BY <2>1, <1>2
  <2> QED  BY <2>1, <2>2 DEF Nearest
<1>4. ASSUME NEW n \in M, n \in S, NEW x \in Sides PROVE t.child[x][n] \in S \cup {Nil}
  <2> SUFFICES ASSUME t.child[x][n] # Nil PROVE t.child[x][n] \in S
    OBVIOUS
  <2>1. PICK c : c = t.child[x][n]
    OBVIOUS
  <2>2. /\ c \in M /\ c \in TreeNodes /\ c # Nil /\ Below(sub, c) = sub[c] /\ c \in sub[c]
        /\ t.parent[c] = n /\ n \in TreeNodes /\ n # Nil /\ n \notin sub[c] /\ sub[c] \subseteq sub[n]
        /\ \A y \in Sides : t.child[y][n] = c => y = x
    BY <2>1, OneParent, Apart, NodeKeys DEF Below
  <2>3. /\ sub[n] = {n} \cup sub[c] \cup Below(sub, t.child[Opp(x)][n])
        /\ \A m \in sub[c] : Before(x, m, n)
        /\ \A m \in Below(sub, t.child[Opp(x)][n]) : Before(Opp(x), m, n)
    BY <2>1, <2>2, Halves
  <2>4. M \subseteq TreeNodes /\ sub[n] \subseteq M /\ Opp(x) \in Sides /\ (s = x \/ s = Opp(x))
    BY Opposite DEF Shape, Placed
  <2>5. \A k \in M \ sub[n] : Before(s, k, n) <=> Before(s, k, c)
    BY <2>2, OneSide
  <2>6. CASE s = x
    <3>1. Up[c] = Up[n]
      BY <2>1, <2>2, <2>6, <1>2
    <3>2. ASSUME NEW k \in sub[n] \ sub[c] PROVE ~ Before(s, k, c)
      <4>1. k = n \/ Before(Opp(s), k, n)
        BY <2>3, <2>6, <3>2
      <4>2. Before(s, c, n) /\ Before(Opp(s), n, c)
        BY <2>2, <2>3, <2>6, BeforeOrder
      <4>3. Before(Opp(s), k, c)
        BY <4>1, <4>2, <2>2, <2>4, <2>6, BeforeOrder
      <4> QED  BY <4>3, <2>2, <2>4, BeforeOrder
    <3>3. Outer(c) = Outer(n)
      BY <3>2, <2>2, <2>4, <2>5
    <3> HIDE DEF Outer
    <3> QED  BY <3>1, <3>3, <2>1, <2>2, <1>4
  <2>7. CASE s = Opp(x)
    <3>1. Up[c] = n
      BY <2>2, <2>7, <1>2, Opposite
    <3>2. Before(s, n, c)
      BY <2>2, <2>3, <2>7, BeforeOrder
    <3>3. n \in Outer(c)
      BY <3>2, <2>2
    <3>4. ASSUME NEW k \in Outer(c), k # n PROVE Before(Opp(s), n, k)
      <4>1. k \in TreeNodes /\ Before(s, k, n)
        BY <3>4, <2>3, <2>4, <2>5, <2>7
      <4> QED  BY <4>1, <2>2, BeforeOrder
    <3>5. First(Outer(c), n, Opp(s))
      <4> HIDE DEF Outer
      <4> QED  BY <3>3, <3>4 DEF First
    <3>6. Nearest(Outer(c), n, s)
      <4> HIDE DEF Outer
      <4> QED  BY <3>3, <3>5 DEF Nearest
    <3> QED  BY <3>1, <3>6, <2>1, <2>2
  <2> QED  BY <2>4, <2>6, <2>7
<1> HIDE DEF S
<1>5. M \subseteq S
  BY <1>3, <1>4, DownInduction
<1> USE DEF S
<1>6. ASSUME NEW n \in M PROVE Nearest(BeyondNode(M, n, s), Neighbour(t, n, s), s)
  <2>1. /\ n \in sub[n] /\ sub[n] \subseteq M /\ M \subseteq TreeNodes /\ Opp(s) \in Sides /\ n \in TreeNodes
        /\ sub[n] = {n} \cup Below(sub, t.child[s][n]) \cup Below(sub, t.child[Opp(s)][n])
        /\ \A m \in Below(sub, t.child[s][n]) : Before(s, m, n)
        /\ \A m \in Below(sub, t.child[Opp(s)][n]) : Before(Opp(s), m, n)
    BY Apart, Halves, Opposite DEF Shape, Placed
  <2>2. \A m \in sub[n] : Before(s, m, n) <=> m \in Below(sub, t.child[s][n])
    BY <2>1, BeforeOrder
  <2>3. CASE t.child[s][n] = Nil
    <3>1. BeyondNode(M, n, s) = Outer(n)
      BY <2>2, <2>3 DEF BeyondNode, Below
    <3> HIDE DEF Outer
    <3> QED  BY <3>1, <2>3, <1>1, <1>5
  <2>4. CASE t.child[s][n] # Nil
    <3>1. PICK c, f : c = t.child[s][n] /\ f = Outermost(t, c, Opp(s))
      OBVIOUS
    <3>2. c \in M /\ Below(sub, c) = sub[c]
      BY <3>1, <2>4, OneParent DEF Below
    <3>3. First(sub[c], f, Opp(s))
      BY <3>1, <3>2, <2>1, OutermostFirst
    <3>4. f \in sub[c] /\ f \in TreeNodes /\ f \in sub[n] /\ \A m \in sub[c] \ {f} : Before(Opp(s), f, m)
      BY <3>1, <3>2, <3>3, <2>1 DEF First
    <3>5. f \in BeyondNode(M, n, s)
      BY <3>1, <3>2, <3>4, <2>1 DEF BeyondNode
    <3>6. ASSUME NEW k \in BeyondNode(M, n, s) \ {f} PROVE Before(Opp(s), f, k)
      <4>1. k \in TreeNodes /\ k \in M /\ Before(s, k, n)
        BY <2>1 DEF BeyondNode
      <4>2. CASE k \in sub[n]
        BY <4>1, <4>2, <3>1, <3>2, <3>4, <2>2
      <4>3. CASE k \notin sub[n]
        <5>1. Before(s, k, f)
          BY <4>1, <4>3, <3>4, OneSide
        <5> QED  BY <5>1, <4>1, <3>4, BeforeOrder
      <4> QED  BY <4>2, <4>3
    <3>7. Neighbour(t, n, s) = f
      BY <3>1, <2>4, <1>1
    <3> QED  BY <3>5, <3>6, <3>7 DEF Nearest, First
  <2> QED  BY <2>3, <2>4
<1> QED  BY <1>6

-----------------------------------------------------------------------------
(* Insertion at a leaf.                                                     *)

\* The side of m on which n belongs.
Branch(n, m) == IF Key[n] < Key[m] THEN "left" ELSE "right"

\* The place for n: below p on side x, or the root of an empty tree.
Vacant(t, M, sub, n, p) ==
    IF t.root = Nil THEN p = Nil
    ELSE /\ p \in M /\ t.child[Branch(n, p)][p] = Nil
         /\ \A m \in M, y \in Sides : p \in Below(sub, t.child[y][m]) => Before(y, n, m)

\* A key belongs on one side of any other.
LEMMA Branches ==
    ASSUME NEW n \in TreeNodes, NEW m \in TreeNodes, Key[n] # Key[m]
    PROVE  Branch(n, m) \in Sides /\ Before(Branch(n, m), n, m)
<1>1. Key[n] \in Nat /\ Key[m] \in Nat
  BY NodeKeys
<1> QED  BY <1>1 DEF Branch, Before, Sides

\* The descent of the caller finds the place for a new key.
LEMMA LeafVacant ==
    ASSUME NEW t, NEW M, NEW sub, Shape(t, M, sub), Loose(t, M), NEW n \in TreeNodes,
           \A m \in M : Key[m] # Key[n]
    PROVE  Vacant(t, M, sub, n, Leaf(t, Key[n]))
<1> DEFINE Down == CHOOSE f : f = [m \in TreeNodes |->
                     LET c == t.child[IF Key[n] < Key[m] THEN "left" ELSE "right"][m]
                     IN  IF c = Nil THEN m ELSE f[c]]
           kid == [m \in TreeNodes |-> t.child[Branch(n, m)][m]]
<1>1. Leaf(t, Key[n]) = IF t.root = Nil THEN Nil ELSE Down[t.root]
  BY DEF Leaf
<1>2. M \subseteq TreeNodes /\ \A m \in M : Branch(n, m) \in Sides /\ Before(Branch(n, m), n, m)
  BY Branches DEF Shape
<1>20. \A m \in TreeNodes : Branch(n, m) \in Sides
  BY DEF Branch, Sides
<1>3. \A m \in TreeNodes : Down[m] = IF kid[m] = Nil THEN m ELSE Down[kid[m]]
  <2>1. PICK down \in [TreeNodes -> Nat], N \in Nat :
          /\ \A m \in TreeNodes : down[m] <= N
          /\ \A m \in M, s \in Sides : t.child[s][m] # Nil => down[t.child[s][m]] < down[m]
    BY Ranks
  <2> DEFINE Stop == {m \in TreeNodes : kid[m] = Nil}
             base == [m \in TreeNodes |-> m]
  <2>2. \A m \in TreeNodes : down[m] <= N
    BY <2>1
  <2>3. \A m \in TreeNodes \ Stop : kid[m] \in TreeNodes /\ down[kid[m]] < down[m]
    BY <2>1, <1>20, TreeTyped DEF Shape, Loose
  <2> HIDE DEF Stop, base, kid
  <2>4. PICK f : IsLoop(f, TreeNodes, Stop, base, kid)
    BY <2>2, <2>3, LoopDefined
  <2>5. f = [m \in TreeNodes |-> LET c == t.child[IF Key[n] < Key[m] THEN "left" ELSE "right"][m]
                             IN  IF c = Nil THEN m ELSE f[c]]
    BY <2>4, Zenon DEF IsLoop, Stop, base, kid, Branch
  <2>6. Down = [m \in TreeNodes |-> LET c == t.child[IF Key[n] < Key[m] THEN "left" ELSE "right"][m]
                                IN  IF c = Nil THEN m ELSE Down[c]]
    BY <2>5, Zenon
  <2> HIDE DEF Down
  <2> QED  BY <2>6, Zenon DEF kid, Branch
<1> HIDE DEF Down
<1> DEFINE Found(m, p) ==
             /\ p \in sub[m] /\ t.child[Branch(n, p)][p] = Nil
             /\ \A j \in sub[m], y \in Sides : p \in Below(sub, t.child[y][j]) => Before(y, n, j)
           S == {m \in M : Found(m, Down[m])}
<1>4. ASSUME NEW m \in M, \A x \in Sides : t.child[x][m] \in S \cup {Nil} PROVE m \in S
  <2>1. PICK x, c : x = Branch(n, m) /\ c = t.child[x][m] /\ c = kid[m]
    BY <1>2
  <2>2. /\ x \in Sides /\ Opp(x) \in Sides /\ Before(x, n, m) /\ m \in TreeNodes
        /\ m \in sub[m] /\ sub[m] \subseteq M
        /\ sub[m] = {m} \cup Below(sub, c) \cup Below(sub, t.child[Opp(x)][m])
        /\ Below(sub, c) \cap Below(sub, t.child[Opp(x)][m]) = {}
        /\ \A y \in Sides : y = x \/ y = Opp(x)
    <3>1. x \in Sides /\ Before(x, n, m) /\ m \in TreeNodes
      BY <2>1, <1>2
    <3>2. Opp(x) \in Sides /\ \A y \in Sides : y = x \/ y = Opp(x)
      BY <3>1, Opposite
    <3>3. sub[m] \subseteq M
      BY DEF Shape, Placed
    <3> QED  BY <3>1, <3>2, <3>3, <2>1, Apart
  <2>3. CASE c = Nil
    <3>1. Down[m] = m
      BY <2>1, <2>2, <2>3, <1>3
    <3>2. ASSUME NEW j \in sub[m], NEW y \in Sides, m \in Below(sub, t.child[y][j]) PROVE Before(y, n, j)
      <4>1. j \in M /\ (j \in sub[m]) /\ m \in sub[j] /\ m # j
        BY <2>2, <3>2, Apart
      <4> QED  BY <4>1, BelowBelow
    <3> QED  BY <3>1, <3>2, <2>1, <2>2, <2>3
  <2>4. CASE c # Nil
    <3>1. PICK p : p = Down[c]
      OBVIOUS
    <3>2. c \in M /\ Below(sub, c) = sub[c] /\ Found(c, p) /\ Down[m] = p
      BY <3>1, <2>1, <2>2, <2>4, <1>3, <1>4 DEF Below
    <3>3. ASSUME NEW j \in sub[m], NEW y \in Sides, p \in Below(sub, t.child[y][j]) PROVE Before(y, n, j)
      <4>1. CASE j = m
        BY <4>1, <3>2, <3>3, <2>1, <2>2
      <4>2. CASE j \in sub[c]
        BY <4>2, <3>2, <3>3
      <4>3. CASE j \in Below(sub, t.child[Opp(x)][m])
        <5>1. PICK d : d = t.child[Opp(x)][m]
          OBVIOUS
        <5>2. d \in M /\ j \in sub[d] /\ Below(sub, d) = sub[d]
          BY <5>1, <4>3, <2>2, OneParent DEF Below
        <5>3. sub[j] \subseteq sub[d] /\ j \in M
          BY <5>2, <2>2, BelowBelow
        <5>4. p \in sub[j]
          BY <5>3, <3>3, Apart
        <5>5. p \in sub[d] /\ p \in sub[c]
          BY <5>3, <5>4, <3>2
        <5> QED  BY <5>1, <5>2, <5>5, <3>2, <2>2
      <4> QED  BY <4>1, <4>2, <4>3, <3>2, <2>2
    <3>4. p \in sub[m]
      BY <3>2, <2>2
    <3> QED  BY <3>2, <3>3, <3>4
  <2> QED  BY <2>3, <2>4
<1> HIDE DEF S
<1>5. M \subseteq S
  BY <1>4, TreeInduction
<1>6. CASE t.root # Nil
  <2>1. t.root \in M /\ sub[t.root] = M
    BY <1>6 DEF Shape, Below
  <2>2. Found(t.root, Down[t.root])
    BY <2>1, <1>5 DEF S
  <2> QED  BY <2>1, <2>2, <1>1, <1>6 DEF Vacant
<1> QED  BY <1>1, <1>6 DEF Vacant

\* A new leaf n below p on side x.
Added(t, n, p, x, t2) ==
    /\ t2 \in TreeType
    /\ t2.root = IF p = Nil THEN n ELSE t.root
    /\ \A y \in Sides, m \in TreeNodes :
         t2.child[y][m] = IF m = n THEN Nil ELSE IF m = p /\ y = x THEN n ELSE t.child[y][m]
    /\ \A m \in TreeNodes : t2.parent[m] = IF m = n THEN p ELSE t.parent[m]
    /\ \A m \in TreeNodes : t2.color[m] = IF m = n THEN "red" ELSE t.color[m]

\* The nodes below, with the new one.
WithLeaf(sub, n, p) ==
    [m \in TreeNodes |-> IF m = n THEN {n} ELSE IF p # Nil /\ p \in sub[m] THEN sub[m] \cup {n} ELSE sub[m]]

\* The shape is kept, with one node more.
LEMMA AddShape ==
    ASSUME NEW t, NEW M, NEW sub, Shape(t, M, sub), NEW n \in TreeNodes \ M, NEW p,
           Vacant(t, M, sub, n, p), \A m \in M : Key[m] # Key[n],
           NEW t2, Added(t, n, p, Branch(n, p), t2)
    PROVE  Shape(t2, M \cup {n}, WithLeaf(sub, n, p))
<1>1. PICK sub2, M2, x : sub2 = WithLeaf(sub, n, p) /\ M2 = M \cup {n} /\ x = Branch(n, p)
  OBVIOUS
<1>2. M \subseteq TreeNodes /\ n # Nil /\ M2 \subseteq TreeNodes /\ n \notin M /\ n \in M2 /\ n \in TreeNodes
  BY <1>1, NodeKeys DEF Shape
<1>3. /\ sub2 \in [TreeNodes -> SUBSET TreeNodes] /\ sub2[n] = {n}
      /\ \A m \in M : sub2[m] = IF p # Nil /\ p \in sub[m] THEN sub[m] \cup {n} ELSE sub[m]
  BY <1>1, <1>2 DEF Shape, WithLeaf
<1>4. IsFiniteSet(M2)
  BY <1>1, FS_AddElement DEF Shape
<1>5. /\ t2 \in TreeType /\ t2.root = IF p = Nil THEN n ELSE t.root
      /\ \A y \in Sides, m \in TreeNodes :
           t2.child[y][m] = IF m = n THEN Nil ELSE IF m = p /\ y = x THEN n ELSE t.child[y][m]
      /\ \A m \in TreeNodes : t2.parent[m] = IF m = n THEN p ELSE t.parent[m]
  BY <1>1 DEF Added
<1>6. CASE t.root = Nil
  <2>1. p = Nil /\ M = {}
    BY <1>6 DEF Vacant, Shape, Below
  <2>2. Placed(t2, M2, sub2, n)
    BY <2>1, <1>1, <1>2, <1>3, <1>5 DEF Placed, Below, Sides
  <2> QED  BY <2>1, <2>2, <1>1, <1>2, <1>3, <1>4, <1>5 DEF Shape, Below
<1>7. CASE t.root # Nil
  <2>1. /\ p \in M /\ p # n /\ p # Nil /\ x \in Sides /\ Opp(x) \in Sides /\ Opp(x) # x
        /\ t.child[x][p] = Nil /\ Before(x, n, p)
        /\ \A m \in M, y \in Sides : p \in Below(sub, t.child[y][m]) => Before(y, n, m)
    BY <1>1, <1>2, <1>7, Branches, Opposite, NodeKeys DEF Vacant
  <2>2. Placed(t2, M2, sub2, n)
    BY <2>1, <1>1, <1>2, <1>3, <1>5 DEF Placed, Below, Sides
  <2>3. ASSUME NEW m \in M PROVE Placed(t2, M2, sub2, m)
    <3>1. PlacedFrom(t, M, sub, m, x) /\ p \in sub[p] /\ n \notin sub[m]
      BY <1>2, <2>1, EitherSide, Apart DEF Shape, Placed
    <3>2. ASSUME NEW y \in Sides, ~ (m = p /\ y = x)
          PROVE  /\ t2.child[y][m] = t.child[y][m]
                 /\ t2.child[y][m] \in M2 \cup {Nil}
                 /\ t2.child[y][m] # Nil => t2.parent[t2.child[y][m]] = m
                 /\ Below(sub2, t2.child[y][m]) =
                      IF p \in Below(sub, t.child[y][m]) THEN Below(sub, t.child[y][m]) \cup {n}
                      ELSE Below(sub, t.child[y][m])
                 /\ \A k \in Below(sub2, t2.child[y][m]) : Before(y, k, m)
      <4>1. /\ t.child[y][m] \in M \cup {Nil}
            /\ t.child[y][m] # Nil => t.parent[t.child[y][m]] = m
        BY <3>1 DEF PlacedFrom
      <4>2. /\ t2.child[y][m] = t.child[y][m] /\ t2.child[y][m] \in M2 \cup {Nil}
            /\ t2.child[y][m] # Nil => t2.parent[t2.child[y][m]] = m
        BY <4>1, <3>2, <1>1, <1>2, <1>5
      <4>3. Below(sub2, t2.child[y][m]) =
                      IF p \in Below(sub, t.child[y][m]) THEN Below(sub, t.child[y][m]) \cup {n}
                      ELSE Below(sub, t.child[y][m])
        BY <4>1, <4>2, <2>1, <1>3 DEF Below
      <4>4. \A k \in Below(sub, t.child[y][m]) : Before(y, k, m)
        BY Halves
      <4> QED  BY <4>2, <4>3, <4>4, <2>1
    <3>3. m = t2.root \/ (t2.parent[m] \in M2 /\ \E y \in Sides : t2.child[y][t2.parent[m]] = m)
      <4>1. CASE m = t.root
        BY <4>1, <2>1, <1>5
      <4>2. CASE m # t.root
        <5>1. PICK y \in Sides, q \in M : q = t.parent[m] /\ t.child[y][q] = m
          BY <4>2, SideTold
        <5> QED  BY <5>1, <2>1, <1>1, <1>2, <1>5, NodeKeys
      <4> QED  BY <4>1, <4>2
    <3>4. sub[m] = {m} \cup Below(sub, t.child[x][m]) \cup Below(sub, t.child[Opp(x)][m])
      BY <2>1, Halves
    <3>5. CASE m = p
      <4>1. t2.child[x][m] = n /\ Below(sub2, n) = {n} /\ t2.parent[n] = m
        BY <3>5, <2>1, <1>2, <1>3, <1>5 DEF Below
      <4>2. p \notin Below(sub, t.child[Opp(x)][m])
        BY <3>5, <2>1, Apart
      <4>3. sub2[m] = sub[m] \cup {n}
        BY <3>1, <3>5, <2>1, <1>3
      <4>4. sub2[m] = {m} \cup Below(sub2, t2.child[x][m]) \cup Below(sub2, t2.child[Opp(x)][m])
        <5>1. Below(sub, t.child[x][m]) = {}
          BY <3>5, <2>1 DEF Below
        <5>2. Below(sub2, t2.child[Opp(x)][m]) = Below(sub, t.child[Opp(x)][m])
          BY <4>2, <3>2, <3>5, <2>1
        <5> QED  BY <5>1, <5>2, <4>1, <4>3, <3>4
      <4>5. sub2[m] \subseteq M2
        BY <4>3, <3>1, <1>1 DEF PlacedFrom
      <4>6. \A y \in Sides : y = x \/ y = Opp(x)
        BY <2>1, Opposite
      <4>7. PlacedFrom(t2, M2, sub2, m, x)
        BY <4>1, <4>4, <4>5, <4>6, <3>2, <3>3, <3>5, <2>1, <1>2 DEF PlacedFrom
      <4> QED  BY <4>7, <2>1, EitherSide
    <3>6. CASE m # p
      <4>1. p \in sub[m] <=> p \in Below(sub, t.child[x][m]) \/ p \in Below(sub, t.child[Opp(x)][m])
        BY <3>4, <3>6
      <4>2. sub2[m] = {m} \cup Below(sub2, t2.child[x][m]) \cup Below(sub2, t2.child[Opp(x)][m])
        <5>1. Below(sub2, t2.child[x][m]) =
                IF p \in Below(sub, t.child[x][m]) THEN Below(sub, t.child[x][m]) \cup {n}
                ELSE Below(sub, t.child[x][m])
          BY <3>2, <3>6, <2>1
        <5>2. Below(sub2, t2.child[Opp(x)][m]) =
                IF p \in Below(sub, t.child[Opp(x)][m]) THEN Below(sub, t.child[Opp(x)][m]) \cup {n}
                ELSE Below(sub, t.child[Opp(x)][m])
          BY <3>2, <3>6, <2>1
        <5> QED  BY <5>1, <5>2, <4>1, <3>4, <2>1, <1>3
      <4>3. sub2[m] \subseteq M2
        <5>1. sub2[m] = sub[m] \/ sub2[m] = sub[m] \cup {n}
          BY <1>3
        <5>2. sub[m] \subseteq M
          BY <3>1 DEF PlacedFrom
        <5> QED  BY <5>1, <5>2, <1>1
      <4>4. PlacedFrom(t2, M2, sub2, m, x)
        BY <4>2, <4>3, <3>2, <3>3, <3>6, <2>1 DEF PlacedFrom
      <4> QED  BY <4>4, <2>1, EitherSide
    <3> QED  BY <3>5, <3>6
  <2>4. t2.root \in M2 \cup {Nil} /\ Below(sub2, t2.root) = M2 /\ (t2.root # Nil => t2.parent[t2.root] = Nil)
    <3>1. t.root \in M /\ sub[t.root] = M /\ t.parent[t.root] = Nil
      BY <1>7 DEF Shape, Below
    <3>2. t2.root = t.root /\ t2.parent[t.root] = Nil
      BY <3>1, <2>1, <1>2, <1>5
    <3>3. sub2[t.root] = M2
      BY <3>1, <2>1, <1>1, <1>3
    <3> QED  BY <3>1, <3>2, <3>3, <1>1, <1>7 DEF Below
  <2>5. Shape(t2, M2, sub2)
    BY <2>2, <2>3, <2>4, <1>1, <1>2, <1>3, <1>4, <1>5 DEF Shape
  <2> QED  BY <2>5, <1>1
<1> QED  BY <1>6, <1>7

-----------------------------------------------------------------------------
(* The other assignments of the calls.                                      *)

\* A node is cleared.
Cleared(t, n, t2) ==
    /\ t2 \in TreeType /\ t2.root = t.root
    /\ \A x \in Sides, m \in TreeNodes : t2.child[x][m] = IF m = n THEN Nil ELSE t.child[x][m]
    /\ \A m \in TreeNodes : t2.parent[m] = IF m = n THEN n ELSE t.parent[m]
    /\ \A m \in TreeNodes : t2.color[m] = IF m = n THEN "red" ELSE t.color[m]

\* Clear, field by field.
LEMMA ClearFacts ==
    ASSUME NEW t \in TreeType, NEW n \in TreeNodes
    PROVE  Cleared(t, n, Clear(t, n))
<1> DEFINE c2 == [s \in Sides |-> [t.child[s] EXCEPT ![n] = Nil]]
           p2 == [t.parent EXCEPT ![n] = n]
           o2 == [t.color EXCEPT ![n] = "red"]
           t2 == Clear(t, n)
<1>1. /\ t.child \in [Sides -> [TreeNodes -> TreeNodes \cup {Nil}]] /\ t.parent \in [TreeNodes -> TreeNodes \cup {Nil}]
      /\ t.color \in [TreeNodes -> {"red", "black"}] /\ t.root \in TreeNodes \cup {Nil}
  BY DEF TreeType
<1>2. c2 \in [Sides -> [TreeNodes -> TreeNodes \cup {Nil}]]
  BY <1>1
<1>3. p2 \in [TreeNodes -> TreeNodes \cup {Nil}] /\ o2 \in [TreeNodes -> {"red", "black"}]
  BY <1>1
<1>4. \A x \in Sides, m \in TreeNodes : c2[x][m] = IF m = n THEN Nil ELSE t.child[x][m]
  BY <1>1
<1>5. \A m \in TreeNodes : p2[m] = IF m = n THEN n ELSE t.parent[m]
  BY <1>1
<1>6. \A m \in TreeNodes : o2[m] = IF m = n THEN "red" ELSE t.color[m]
  BY <1>1
<1>7. t2 = [t EXCEPT !.child = c2, !.parent = p2, !.color = o2]
  BY DEF Clear
<1> HIDE DEF c2, p2, o2, t2
<1>8. t2 \in TreeType /\ t2.root = t.root /\ t2.child = c2 /\ t2.parent = p2 /\ t2.color = o2
  BY <1>1, <1>2, <1>3, <1>7 DEF TreeType
<1>9. Cleared(t, n, t2)
  BY <1>4, <1>5, <1>6, <1>8 DEF Cleared
<1> QED  BY <1>9 DEF t2

\* Linking a new node.
Branched(t, n, p, x) ==
    IF p = Nil THEN [WithParent(Clear(t, n), n, p) EXCEPT !.root = n]
    ELSE WithChild(WithParent(Clear(t, n), n, p), x, p, n)

\* It makes the node a leaf.
LEMMA LinkFacts ==
    ASSUME NEW t \in TreeType, NEW n \in TreeNodes, NEW p \in TreeNodes \cup {Nil}, p # n, NEW x \in Sides
    PROVE  Added(t, n, p, x, Branched(t, n, p, x))
<1>1. PICK t0, t1, t2 : t0 = Clear(t, n) /\ t1 = WithParent(t0, n, p) /\ t2 = Branched(t, n, p, x)
  OBVIOUS
<1>2. Cleared(t, n, t0) /\ t0 \in TreeType
  <2>1. t0 = Clear(t, n) /\ t \in TreeType /\ n \in TreeNodes
    BY ONLY <1>1, t \in TreeType, n \in TreeNodes
  <2>2. Cleared(t, n, t0)
    BY ONLY <2>1, ClearFacts
  <2> QED  BY ONLY <2>2 DEF Cleared
<1>3. t1 = WithParent(t0, n, p) /\ t1 = WithParent(Clear(t, n), n, p)
  BY ONLY <1>1
<1>4. ParentSet(t0, n, p, t1) /\ t1 \in TreeType
  <2>1. ParentSet(t0, n, p, WithParent(t0, n, p))
    BY <1>2, SetParent
  <2>2. ParentSet(t0, n, p, t1)
    BY <2>1, <1>3, Zenon
  <2> QED  BY <2>2 DEF ParentSet
<1>5. p = Nil => Added(t, n, p, x, t2)
  <2> HAVE p = Nil
  <2>1. t2 = [t1 EXCEPT !.root = n]
    BY ONLY <1>1, <1>3, p = Nil DEF Branched
  <2>2. /\ t2 \in TreeType /\ t2.parent = t1.parent /\ t2.color = t1.color /\ t2.root = n
        /\ t2.child = t1.child
    BY <2>1, <1>4 DEF TreeType
  <2>3. \A m \in TreeNodes : m # p
    BY p = Nil, NodeKeys
  <2>4. n \in TreeNodes /\ x \in Sides
    OBVIOUS
  <2>5. /\ \A y \in Sides, m \in TreeNodes : t2.child[y][m] = IF m = n THEN Nil ELSE t.child[y][m]
        /\ \A m \in TreeNodes : t2.parent[m] = IF m = n THEN p ELSE t.parent[m]
        /\ \A m \in TreeNodes : t2.color[m] = IF m = n THEN "red" ELSE t.color[m]
    BY ONLY <2>2, <1>2, <1>4 DEF Cleared, ParentSet
  <2> QED  BY ONLY <2>2, <2>3, <2>5, p = Nil DEF Added
<1>6. p # Nil => Added(t, n, p, x, t2)
  <2> HAVE p # Nil
  <2>1. t2 = WithChild(t1, x, p, n)
    BY ONLY <1>1, <1>3, p # Nil DEF Branched
  <2>2. ChildSet(t1, x, p, n, t2)
    BY <2>1, <1>4, SetChild
  <2>3. n \in TreeNodes /\ x \in Sides /\ p # n
    OBVIOUS
  <2>4. /\ t2 \in TreeType /\ t2.root = t.root
        /\ \A y \in Sides, m \in TreeNodes : t1.child[y][m] = IF m = n THEN Nil ELSE t.child[y][m]
        /\ \A m \in TreeNodes : t2.parent[m] = IF m = n THEN p ELSE t.parent[m]
        /\ \A m \in TreeNodes : t2.color[m] = IF m = n THEN "red" ELSE t.color[m]
    BY ONLY <2>2, <1>2, <1>4 DEF Cleared, ParentSet, ChildSet
  <2> QED  BY ONLY <2>2, <2>3, <2>4, p # Nil DEF Added, ChildSet
<1>7. Added(t, n, p, x, t2)
  BY ONLY <1>5, <1>6
<1> QED  BY ONLY <1>1, <1>7

\* Unlinking a node with a child missing.
LEMMA UnlinkFacts ==
    ASSUME NEW t, NEW M, NEW sub, Shape(t, M, sub), NEW n \in M, NEW s \in Sides,
           NEW c, c = t.child[s][n], t.child[Opp(s)][n] = Nil
    PROVE  Removed(t, n, c, M, WithParent(Repoint(t, n, c), c, t.parent[n]))
<1>1. t \in TreeType /\ n \in TreeNodes /\ c \in TreeNodes \cup {Nil} /\ t.parent[n] \in TreeNodes \cup {Nil}
  BY TreeTyped DEF Shape
<1>2. PICK t1, t2 : t1 = Repoint(t, n, c) /\ t2 = WithParent(t1, c, t.parent[n])
  OBVIOUS
<1>3. Repointed(t, n, c, M, t1)
  BY <1>1, <1>2, RepointFacts
<1>4. ParentSet(t1, c, t.parent[n], t2)
  BY <1>1, <1>2, <1>3, SetParent DEF Repointed
<1>5. Removed(t, n, c, M, t2)
  BY <1>3, <1>4 DEF Repointed, ParentSet, Removed
<1> QED  BY <1>2, <1>5

\* Unlink, as these assignments.
LEMMA UnlinkIs ==
    ASSUME NEW t, NEW n, NEW s \in Sides, t.child[Opp(s)][n] = Nil
    PROVE  LET u == Unlink(t, n)
               c == t.child[s][n]
           IN  /\ u.tree = WithParent(Repoint(t, n, c), c, t.parent[n])
               /\ u.node = c /\ u.parent = t.parent[n] /\ u.color = t.color[n]
<1>1. (IF t.child["left"][n] = Nil THEN t.child["right"][n] ELSE t.child["left"][n]) = t.child[s][n]
  BY Opposite DEF Sides
<1> QED  BY <1>1 DEF Unlink, WithParent

\* The two groups of assignments by which a successor takes a place.
Moved(r, y, c, q, w) ==
    [r EXCEPT !.parent[c] = q, !.child["left"][q] = c, !.child["right"][y] = w, !.parent[w] = y]
Seated(r, y, p, color, l) ==
    [r EXCEPT !.parent[y] = p, !.color[y] = color, !.child["left"][y] = l, !.parent[l] = y]

\* Moved, one assignment at a time.
LEMMA MovedSteps ==
    ASSUME NEW r, NEW y, NEW c, NEW q, NEW w
    PROVE  Moved(r, y, c, q, w) =
             WithParent(WithChild(WithChild(WithParent(r, c, q), "left", q, c), "right", y, w), w, y)
BY DEF Moved, WithParent, WithChild

\* And Seated.
LEMMA SeatedSteps ==
    ASSUME NEW r, NEW y, NEW p, NEW color, NEW l
    PROVE  Seated(r, y, p, color, l) =
             WithParent(WithChild(Paint(WithParent(r, y, p), y, color), "left", y, l), l, y)
BY DEF Seated, WithParent, WithChild, Paint

\* UnlinkInner, made of them.
LEMMA UnlinkInnerSteps ==
    ASSUME NEW t, NEW old
    PROVE  LET y == Outermost(t, t.child["right"][old], "left")
               c == t.child["right"][y]
               q == t.parent[y]
               t1 == Repoint(t, old, y)
               t2 == IF q = old THEN t1 ELSE Moved(t1, y, c, q, t.child["right"][old])
               u == UnlinkInner(t, old)
           IN  /\ u.tree = Seated(t2, y, t.parent[old], t.color[old], t.child["left"][old])
               /\ u.node = c /\ u.parent = (IF q = old THEN y ELSE q) /\ u.color = t.color[y]
BY Zenon DEF UnlinkInner, Moved, Seated

\* The same, of given nodes.
LEMMA UnlinkInnerIs ==
    ASSUME NEW t, NEW old, NEW y, y = Outermost(t, t.child["right"][old], "left"),
           NEW c, c = t.child["right"][y], NEW q, q = t.parent[y],
           NEW t1, t1 = Repoint(t, old, y),
           NEW t2, t2 = (IF q = old THEN t1 ELSE Moved(t1, y, c, q, t.child["right"][old])),
           NEW u, u = UnlinkInner(t, old)
    PROVE  /\ u.tree = Seated(t2, y, t.parent[old], t.color[old], t.child["left"][old])
           /\ u.node = c /\ u.parent = (IF q = old THEN y ELSE q) /\ u.color = t.color[y]
BY UnlinkInnerSteps

\* What has a node below it, other than itself, has its parent.
LEMMA ParentBelow ==
    ASSUME NEW t, NEW M, NEW sub, Shape(t, M, sub), NEW y \in M
    PROVE  \A m \in M : y \in sub[m] /\ m # y => t.parent[y] \in sub[m]
<1> DEFINE S == {m \in M : y \in sub[m] /\ m # y => t.parent[y] \in sub[m]}
<1>1. ASSUME NEW m \in M, \A s \in Sides : t.child[s][m] \in S \cup {Nil} PROVE m \in S
  <2> SUFFICES ASSUME y \in sub[m], m # y PROVE t.parent[y] \in sub[m]
    OBVIOUS
  <2>1. "left" \in Sides /\ "right" \in Sides /\ Opp("left") = "right"
    BY Opposite DEF Sides
  <2>2. PICK s \in Sides : y \in Below(sub, t.child[s][m])
    BY <2>1, Apart
  <2>3. PICK c : c = t.child[s][m]
    OBVIOUS
  <2>4. c \in M /\ y \in sub[c] /\ sub[c] \subseteq sub[m] /\ t.parent[c] = m /\ m \in sub[m]
    BY <2>2, <2>3, OneParent, Apart DEF Below
  <2>5. CASE c = y
    BY <2>4, <2>5
  <2>6. CASE c # y
    BY <2>2, <2>3, <2>4, <2>6, <1>1 DEF Below
  <2> QED  BY <2>5, <2>6
<1> HIDE DEF S
<1>2. M \subseteq S
  BY <1>1, TreeInduction
<1> QED  BY <1>2 DEF S

\* y is the successor of old: the first below the right child, with no left child.
Follows(t, M, sub, old, y) ==
    /\ y \in M /\ y # old /\ y \in sub[t.child["right"][old]] /\ t.child["left"][y] = Nil
    /\ y # t.root /\ y = Neighbour(t, old, "right")
    /\ t.parent[y] # old =>
         (t.parent[y] \in sub[t.child["right"][old]] /\ t.child["left"][t.parent[y]] = y)
    /\ t.parent[y] = old => t.child["right"][old] = y
    /\ SameRank(M \ {y}, old, y)

\* Outermost finds it.
LEMMA Successor ==
    ASSUME NEW t, NEW M, NEW sub, Shape(t, M, sub), Loose(t, M), NEW old \in M,
           \A s \in Sides : t.child[s][old] # Nil,
           NEW y, y = Outermost(t, t.child["right"][old], "left")
    PROVE  Follows(t, M, sub, old, y)
<1>1. PICK r : r = t.child["right"][old]
  OBVIOUS
<1>2. "left" \in Sides /\ "right" \in Sides /\ Opp("right") = "left" /\ Opp("left") = "right"
  BY Opposite DEF Sides
<1>3. r \in M /\ r # Nil /\ Below(sub, r) = sub[r] /\ old \notin sub[r] /\ sub[r] \subseteq sub[old]
      /\ r # t.root /\ t.parent[r] = old
  BY <1>1, <1>2, OneParent, Apart DEF Below
<1>4. First(sub[r], y, "left") /\ t.child["left"][y] = Nil
  BY <1>1, <1>2, <1>3, OutermostFirst
<1>5. /\ y \in sub[r] /\ y # old /\ \A m \in sub[r] \ {y} : Before("left", y, m)
      /\ sub[old] \subseteq M /\ y \in M /\ M \subseteq TreeNodes /\ old \in TreeNodes
  BY <1>3, <1>4 DEF First, Shape, Placed
<1>6. t.parent[old] # old
  BY SideTold, NodeKeys DEF Shape
<1>7. y = Neighbour(t, old, "right")
  BY <1>1, <1>2, <1>3, <1>6 DEF Neighbour
<1>8. y # t.root
  <2>1. y # r => y \notin {t.root}
    <3> SUFFICES ASSUME y # r, y = t.root PROVE FALSE
      OBVIOUS
    <3>1. r \in sub[y]
      BY <1>3 DEF Shape, Below
    <3> QED  BY <3>1, <1>3, <1>5, BelowBelow
  <2> QED  BY <2>1, <1>3
<1>9. PICK q, x : q = t.parent[y] /\ x = SideOf(t, y)
  OBVIOUS
<1>10. q \in M /\ x \in Sides /\ t.child[x][q] = y /\ q \in TreeNodes /\ q # y
  BY <1>5, <1>8, <1>9, SideTold
<1>11. q = old => r = y
  <2> SUFFICES ASSUME q = old PROVE r = y
    OBVIOUS
  <2>1. x = "right"
    <3> SUFFICES ASSUME x = "left" PROVE FALSE
      BY <1>10 DEF Sides
    <3>1. y \in Below(sub, t.child["left"][old])
      BY <1>5, <1>10, Apart, NodeKeys DEF Below
    <3> QED  BY <3>1, <1>1, <1>2, <1>3, <1>5, Apart
  <2> QED  BY <2>1, <1>1, <1>10
<1>12. ASSUME q # old PROVE q \in sub[r] /\ t.child["left"][q] = y
  <2>1. q \in sub[r]
    <3>1. y # r
      BY <1>3, <1>9, <1>12
    <3> QED  BY <3>1, <1>3, <1>5, <1>9, ParentBelow
  <2>2. x = "left"
    <3> SUFFICES ASSUME x = "right" PROVE FALSE
      BY <1>10 DEF Sides
    <3>1. y \in sub[y] /\ Below(sub, t.child["right"][q]) = sub[y]
      BY <1>5, <1>10, Apart, NodeKeys DEF Below
    <3>2. Before("right", y, q)
      BY <3>1, <1>2, <1>10, Halves
    <3>3. Before("left", y, q)
      BY <2>1, <1>5, <1>10
    <3>4. Before("right", q, y)
      BY <3>3, <1>2, <1>5, <1>10, BeforeOrder
    <3>5. Before("right", q, q)
      BY <3>2, <3>4, <1>2, <1>5, <1>10, BeforeOrder
    <3> QED  BY <3>5, <1>2, <1>10, BeforeOrder
  <2> QED  BY <2>1, <2>2, <1>10
<1>13. SameRank(M \ {y}, old, y)
  <2>1. r \in sub[r] /\ \A m \in sub[r] : Before("right", m, old)
    BY <1>1, <1>2, <1>3, Halves, Apart
  <2>2. Nearest(BeyondNode(M, old, "right"), y, "right")
    BY <1>2, <1>7, NeighbourNearest
  <2>3. y \in BeyondNode(M, old, "right")
    BY <2>1, <1>5 DEF BeyondNode
  <2>4. \A m \in M : Before("right", m, old) /\ m # y => Before("left", y, m)
    BY <2>2, <2>3, <1>2 DEF Nearest, First, BeyondNode
  <2>5. ASSUME NEW m \in (M \ {y}) \ {old}, NEW s \in Sides, Before(s, m, old) PROVE Before(s, m, y)
    <3>1. CASE s = "left"
      <4>1. Before("right", y, old) /\ Before("left", old, y)
        BY <2>1, <1>2, <1>5, BeforeOrder
      <4> QED  BY <4>1, <3>1, <2>5, <1>5, BeforeOrder
    <3>2. CASE s = "right"
      BY <3>2, <2>4, <2>5, <1>2, <1>5, BeforeOrder
    <3> QED  BY <3>1, <3>2 DEF Sides
  <2> QED  BY <2>5 DEF SameRank
<1> QED  BY <1>1, <1>4, <1>5, <1>7, <1>8, <1>9, <1>11, <1>12, <1>13 DEF Follows

\* What unlinking a node with two children does: its successor y goes, leaving t1,
\* and then takes the place of the node.
Seats(t, M, old, y, c, t1, u) ==
    /\ Replaced(t1, old, y, M \ {y}, u.tree)
    /\ \A m \in TreeNodes : u.tree.color[m] = IF m = y THEN t.color[old] ELSE t.color[m]
    /\ Loose(u.tree, M)
    /\ u.node = c /\ u.parent = (IF t.parent[y] = old THEN y ELSE t.parent[y])
    /\ u.color = t.color[y]

\* UnlinkInner does so.
LEMMA UnlinkInnerFacts ==
    ASSUME NEW t, NEW M, NEW sub, Shape(t, M, sub), Loose(t, M), NEW old \in M,
           \A s \in Sides : t.child[s][old] # Nil,
           NEW y, y = Outermost(t, t.child["right"][old], "left"),
           NEW c, c = t.child["right"][y],
           NEW t1, Removed(t, y, c, M, t1)
    PROVE  Seats(t, M, old, y, c, t1, UnlinkInner(t, old))
<1>1. PICK l, r, q, p : /\ l = t.child["left"][old] /\ r = t.child["right"][old]
                       /\ q = t.parent[y] /\ p = t.parent[old]
  OBVIOUS
<1>101. PICK t2, t3, u : /\ t2 = Repoint(t, old, y)
                         /\ t3 = (IF q = old THEN t2 ELSE Moved(t2, y, c, q, r))
                         /\ u = UnlinkInner(t, old)
  OBVIOUS
<1>2. /\ u.tree = Seated(t3, y, p, t.color[old], l)
      /\ u.node = c /\ u.parent = (IF q = old THEN y ELSE q) /\ u.color = t.color[y]
  BY <1>1, <1>101, UnlinkInnerIs
<1>3. /\ "left" \in Sides /\ "right" \in Sides /\ "left" # "right"
      /\ \A x \in Sides : x = "left" \/ x = "right"
  BY DEF Sides
<1>4. /\ y \in M /\ y # old /\ y \in sub[r] /\ t.child["left"][y] = Nil /\ y # t.root
      /\ q # old => q \in sub[r] /\ t.child["left"][q] = y
      /\ q = old => r = y
  <2>1. Follows(t, M, sub, old, y)
    BY Successor
  <2> QED  BY <2>1, <1>1 DEF Follows
<1>5. /\ l \in M /\ r \in M /\ l # Nil /\ r # Nil /\ t.parent[l] = old /\ t.parent[r] = old
      /\ l # r /\ l # old /\ r # old
      /\ \A m \in M : t.parent[m] = old /\ m # t.root => m = l \/ m = r
  <2>1. /\ l # Nil /\ r # Nil
        /\ l \in M /\ t.parent[l] = old /\ l # old
        /\ r \in M /\ t.parent[r] = old /\ r # old
    BY <1>1, <1>3, OneParent
  <2>2. l # r
    BY <1>1, <1>3, <2>1, OneParent
  <2>3. ASSUME NEW m \in M, t.parent[m] = old, m # t.root PROVE m = l \/ m = r
    BY <2>3, <1>1, <1>3, SideTold
  <2> QED  BY <2>1, <2>2, <2>3
<1>6. /\ q \in M /\ q # y /\ t.parent[y] = q /\ y # l /\ q # Nil /\ M \subseteq TreeNodes
      /\ old \in TreeNodes /\ y \in TreeNodes /\ y # Nil /\ q \in TreeNodes
      /\ \A x \in Sides, m \in M : t.child[x][m] = y => m = q
  <2>1. q \in M /\ q # y
    BY <1>1, <1>4, SideTold
  <2>2. y # l
    <3>1. y \in sub[y] /\ sub[l] \cap sub[r] = {}
      BY <1>1, <1>3, <1>4, <1>5, Apart, Opposite DEF Below
    <3> QED  BY <3>1, <1>4
  <2>3. M \subseteq TreeNodes /\ old \in TreeNodes /\ y \in TreeNodes /\ y # Nil /\ q \in TreeNodes /\ q # Nil
    BY <2>1, <1>4, NodeKeys DEF Shape
  <2>4. \A x \in Sides, m \in M : t.child[x][m] = y => m = q
    BY <1>1, <2>3, OneParent
  <2> QED  BY <1>1, <2>1, <2>2, <2>3, <2>4
<1>7. /\ c \in M \cup {Nil} /\ (c # Nil => t.parent[c] = y) /\ c # y /\ c # old /\ c # l /\ c # r /\ c # q
      /\ c # t.root \/ c = Nil
  <2>1. c \in M \cup {Nil} /\ (c # Nil => t.parent[c] = y) /\ c # y /\ (c # Nil => c # t.root)
    <3>1. c = Nil \/ c # Nil
      OBVIOUS
    <3> QED  BY <3>1, <1>3, <1>4, <1>6, OneParent
  <2>2. c # l /\ c # r
    BY <2>1, <1>4, <1>5
  <2>3. c # old
    <3>1. old \notin sub[r] /\ sub[y] \subseteq sub[r]
      <4>1. old \notin sub[r]
        BY <1>1, <1>3, <1>5, Apart DEF Below
      <4>2. sub[y] \subseteq sub[r]
        BY <1>4, <1>5, BelowBelow
      <4> QED  BY <4>1, <4>2
    <3>2. c # Nil => c \in sub[y]
      BY <2>1, <1>3, <1>4, Apart DEF Below
    <3> QED  BY <3>1, <3>2, <1>6, NodeKeys
  <2>4. c # q
    <3>1. c # Nil => y \notin sub[c]
      BY <1>3, <1>4, Apart DEF Below
    <3>2. y \in sub[q]
      <4>1. SideOf(t, y) \in Sides /\ t.child[SideOf(t, y)][q] = y
        BY <1>1, <1>4, SideTold
      <4>2. Below(sub, y) \subseteq sub[q] /\ y \in sub[y]
        BY <4>1, <1>3, <1>4, <1>6, Apart
      <4> QED  BY <4>2, <1>6 DEF Below
    <3> QED  BY <3>1, <3>2, <1>6
  <2> QED  BY <2>1, <2>2, <2>3, <2>4
<1>8. /\ t \in TreeType /\ p \in TreeNodes \cup {Nil} /\ l \in TreeNodes /\ r \in TreeNodes /\ c \in TreeNodes \cup {Nil}
      /\ t.color[old] \in {"red", "black"}
  BY <1>1, <1>5, <1>6, <1>7, TreeTyped DEF Shape
<1>9. Repointed(t, old, y, M, t2)
  BY <1>101, <1>8, <1>6, RepointFacts
\* The links after the first group.
<1>10. /\ t3 \in TreeType /\ t3.root = t2.root /\ t3.color = t2.color
       /\ \A x \in Sides, m \in TreeNodes :
            t3.child[x][m] = IF q = old THEN t2.child[x][m]
                             ELSE IF m = y /\ x = "right" THEN r
                             ELSE IF m = q /\ x = "left" THEN c ELSE t2.child[x][m]
       /\ \A m \in TreeNodes :
            t3.parent[m] = IF q = old THEN t2.parent[m]
                           ELSE IF m = r THEN y ELSE IF m = c THEN q ELSE t2.parent[m]
  <2>1. CASE q = old
    BY <2>1, <1>101, <1>9 DEF Repointed
  <2>2. CASE q # old
    <3>0. t2 \in TreeType
      BY <1>9 DEF Repointed
    <3>1. PICK a : a = WithParent(t2, c, q)
      OBVIOUS
    <3>2. ParentSet(t2, c, q, a)
      BY <3>0, <3>1, <1>6, <1>8, SetParent
    <3>3. PICK b : b = WithChild(a, "left", q, c)
      OBVIOUS
    <3>40. a \in TreeType
      BY <3>2 DEF ParentSet
    <3>4. ChildSet(a, "left", q, c, b)
      BY <3>40, <3>3, <1>3, <1>6, <1>8, SetChild
    <3>5. PICK d : d = WithChild(b, "right", y, r)
      OBVIOUS
    <3>60. b \in TreeType
      BY <3>4 DEF ChildSet
    <3>6. ChildSet(b, "right", y, r, d)
      BY <3>60, <3>5, <1>3, <1>6, <1>8, SetChild
    <3>7. t3 = WithParent(d, r, y)
      BY <2>2, <3>1, <3>3, <3>5, <1>101, MovedSteps, Zenon
    <3>80. d \in TreeType
      BY <3>6 DEF ChildSet
    <3>8. ParentSet(d, r, y, t3)
      BY <3>80, <3>7, <1>6, <1>8, SetParent
    <3> QED
      <4> HIDE <3>7
      <4>1. t3 \in TreeType /\ t3.root = t2.root /\ t3.color = t2.color
        BY <3>2, <3>4, <3>6, <3>8 DEF ParentSet, ChildSet
      <4>2. \A x \in Sides, m \in TreeNodes :
               t3.child[x][m] = IF m = y /\ x = "right" THEN r
                                ELSE IF m = q /\ x = "left" THEN c ELSE t2.child[x][m]
        BY <3>2, <3>4, <3>6, <3>8 DEF ParentSet, ChildSet
      <4>3. \A m \in TreeNodes : t3.parent[m] = IF m = r THEN y ELSE IF m = c THEN q ELSE t2.parent[m]
        BY <3>2, <3>4, <3>6, <3>8 DEF ParentSet, ChildSet
      <4> QED  BY <4>1, <4>2, <4>3, <2>2
  <2> QED  BY <2>1, <2>2
<1>11. PICK v : v = u.tree
  OBVIOUS
\* And after the second.
<1>12. /\ v \in TreeType /\ v.root = t3.root
       /\ \A m \in TreeNodes : v.color[m] = IF m = y THEN t.color[old] ELSE t3.color[m]
       /\ \A x \in Sides, m \in TreeNodes :
            v.child[x][m] = IF m = y /\ x = "left" THEN l ELSE t3.child[x][m]
       /\ \A m \in TreeNodes :
            v.parent[m] = IF m = l THEN y ELSE IF m = y THEN p ELSE t3.parent[m]
  <2>0. t3 \in TreeType
    BY <1>10
  <2>1. PICK a : a = WithParent(t3, y, p)
    OBVIOUS
  <2>2. ParentSet(t3, y, p, a)
    BY <2>0, <2>1, <1>6, <1>8, SetParent
  <2>30. a \in TreeType
    BY <2>2 DEF ParentSet
  <2>3. PICK b : b = Paint(a, y, t.color[old])
    OBVIOUS
  <2>4. Painted(a, y, t.color[old], b)
    BY <2>30, <2>3, <1>6, <1>8, PaintFacts
  <2>50. b \in TreeType
    BY <2>4 DEF Painted
  <2>5. PICK d : d = WithChild(b, "left", y, l)
    OBVIOUS
  <2>6. ChildSet(b, "left", y, l, d)
    BY <2>50, <2>5, <1>3, <1>6, <1>8, SetChild
  <2>70. d \in TreeType
    BY <2>6 DEF ChildSet
  <2>7. v = WithParent(d, l, y)
    BY <2>1, <2>3, <2>5, <1>2, <1>11, SeatedSteps, Zenon
  <2>8. ParentSet(d, l, y, v)
    BY <2>70, <2>7, <1>6, <1>8, SetParent
  <2> QED
    <3> HIDE <2>7
    <3> QED  BY <2>2, <2>4, <2>6, <2>8 DEF ParentSet, ChildSet, Painted
<1>13. \A m \in TreeNodes : v.color[m] = IF m = y THEN t.color[old] ELSE t.color[m]
  BY <1>9, <1>10, <1>12 DEF Repointed
<1>14. Loose(v, M)
  <2>1. ASSUME NEW m \in TreeNodes \ M PROVE v.parent[m] = m /\ \A x \in Sides : v.child[x][m] = Nil
    <3>1. m # l /\ m # r /\ m # y /\ m # q /\ m # c
      BY <1>4, <1>5, <1>6, <1>7, NodeKeys
    <3>2. v.parent[m] = t.parent[m] /\ \A x \in Sides : v.child[x][m] = t.child[x][m]
      BY <3>1, <1>9, <1>10, <1>12 DEF Repointed
    <3> QED  BY <3>2 DEF Loose
  <2> QED  BY <2>1 DEF Loose
<1>150. /\ t1.root = (IF t.root = y THEN c ELSE t.root)
        /\ \A x \in Sides, m \in M : t1.child[x][m] = IF t.child[x][m] = y THEN c ELSE t.child[x][m]
        /\ \A m \in M : t1.parent[m] = IF m = c THEN q ELSE t.parent[m]
  BY <1>1, <1>6 DEF Removed
<1>15. Replaced(t1, old, y, M \ {y}, v)
  <2>1. v.root = IF t1.root = old THEN y ELSE t1.root
    BY <1>4, <1>9, <1>10, <1>12, <1>150 DEF Repointed
  <2>2. \A x \in Sides : v.child[x][y] = t1.child[x][old]
    <3>1. v.child["left"][y] = t1.child["left"][old]
      BY <1>1, <1>3, <1>6, <1>12, <1>150
    <3>2. v.child["right"][y] = t1.child["right"][old]
      <4>1. t2.child["right"][y] = c
        BY <1>3, <1>6, <1>7, <1>9 DEF Repointed
      <4>2. q # old => r # y
        BY <1>1, <1>3, <1>6
      <4>3. t1.child["right"][old] = IF q = old THEN c ELSE r
        BY <4>2, <1>1, <1>3, <1>4, <1>6, <1>150
      <4>4. t3.child["right"][y] = IF q = old THEN c ELSE r
        BY <4>1, <1>3, <1>6, <1>10
      <4>5. v.child["right"][y] = t3.child["right"][y]
        BY <1>3, <1>6, <1>12
      <4> QED  BY <4>3, <4>4, <4>5
    <3> QED  BY <3>1, <3>2, <1>3
  <2>3. ASSUME NEW x \in Sides, NEW m \in (M \ {y}) \ {old}
        PROVE  v.child[x][m] = IF t1.child[x][m] = old THEN y ELSE t1.child[x][m]
    <3>1. v.child[x][m] = IF m = q /\ x = "left" /\ q # old THEN c
                          ELSE IF t.child[x][m] = old THEN y ELSE t.child[x][m]
      BY <2>3, <1>6, <1>9, <1>10, <1>12 DEF Repointed
    <3>2. t1.child[x][m] = IF t.child[x][m] = y THEN c ELSE t.child[x][m]
      BY <2>3, <1>6 DEF Removed
    <3>3. t.child[x][m] = y => m = q /\ x = "left" /\ q # old
      <4> SUFFICES ASSUME t.child[x][m] = y PROVE m = q /\ x = "left"
        BY <2>3
      <4>1. m = q
        BY <1>6
      <4> QED  BY <4>1, <2>3, <1>3, <1>4, <1>6, OneParent
    <3>4. m = q /\ x = "left" /\ q # old => t.child[x][m] = y
      BY <1>4
    <3> QED  BY <3>1, <3>2, <3>3, <3>4, <1>4, <1>7
  <2>4. v.parent[y] = t1.parent[old]
    <3>1. old # c /\ y # l
      BY <1>6, <1>7
    <3>2. t1.parent[old] = p
      BY <3>1, <1>1, <1>150
    <3> QED  BY <3>1, <3>2, <1>6, <1>12
  <2>5. ASSUME NEW m \in (M \ {y}) \ {old}
        PROVE  v.parent[m] = IF t1.parent[m] = old THEN y ELSE t1.parent[m]
    <3>1. t1.parent[m] = IF m = c THEN q ELSE t.parent[m]
      BY <2>5, <1>1, <1>6 DEF Removed
    <3>2. v.parent[m] = IF m = l THEN y ELSE IF q # old /\ m = r THEN y
                        ELSE IF q # old /\ m = c THEN q ELSE t.parent[m]
      BY <2>5, <1>6, <1>9, <1>10, <1>12 DEF Repointed
    <3>3. t.parent[m] = old => m = l \/ m = r
      <4>1. m = t.root => t.parent[m] = Nil
        BY <2>5, SideTold
      <4> QED  BY <4>1, <2>5, <1>5, <1>6, NodeKeys
    <3>4. m = c => t.parent[m] = y
      BY <1>6, <1>7, <2>5, NodeKeys
    <3> QED  BY <3>1, <3>2, <3>3, <3>4, <2>5, <1>4, <1>5, <1>6, <1>7
  <2> QED  BY <2>1, <2>2, <2>3, <2>4, <2>5, <1>12 DEF Replaced
<1>16. u.parent = (IF t.parent[y] = old THEN y ELSE t.parent[y])
  BY ONLY <1>1, <1>2
<1>17. Seats(t, M, old, y, c, t1, u)
  BY ONLY <1>2, <1>16, <1>11, <1>13, <1>14, <1>15, <1>1 DEF Seats
<1> QED  BY ONLY <1>101, <1>17

\* Replacing a node: new takes over the links of old.
Supplant(t1, old, new) ==
    [t1 EXCEPT !.parent = [m \in TreeNodes |->
                    IF m = new THEN t1.parent[old]
                    ELSE IF m \in {t1.child[s][old] : s \in Sides} THEN new
                    ELSE @[m]],
               !.child = [s \in Sides |-> [@[s] EXCEPT ![new] = t1.child[s][old]]],
               !.color[new] = t1.color[old]]

Supplanted(t1, old, new, t2) ==
    /\ t2 \in TreeType /\ t2.root = t1.root
    /\ \A m \in TreeNodes : t2.parent[m] = IF m = new THEN t1.parent[old]
                                       ELSE IF \E s \in Sides : m = t1.child[s][old] THEN new
                                       ELSE t1.parent[m]
    /\ \A x \in Sides, m \in TreeNodes : t2.child[x][m] = IF m = new THEN t1.child[x][old] ELSE t1.child[x][m]
    /\ \A m \in TreeNodes : t2.color[m] = IF m = new THEN t1.color[old] ELSE t1.color[m]

\* Supplant, field by field.
LEMMA SupplantFacts ==
    ASSUME NEW t1 \in TreeType, NEW old \in TreeNodes, NEW new \in TreeNodes
    PROVE  Supplanted(t1, old, new, Supplant(t1, old, new))
<1> DEFINE p2 == [m \in TreeNodes |-> IF m = new THEN t1.parent[old]
                                 ELSE IF m \in {t1.child[s][old] : s \in Sides} THEN new
                                 ELSE t1.parent[m]]
           c2 == [s \in Sides |-> [t1.child[s] EXCEPT ![new] = t1.child[s][old]]]
           o2 == [t1.color EXCEPT ![new] = t1.color[old]]
           t2 == Supplant(t1, old, new)
<1>5. t2 = [t1 EXCEPT !.parent = p2, !.child = c2, !.color = o2]
  BY DEF Supplant
<1>6. /\ t1.child \in [Sides -> [TreeNodes -> TreeNodes \cup {Nil}]] /\ t1.parent \in [TreeNodes -> TreeNodes \cup {Nil}]
      /\ t1.color \in [TreeNodes -> {"red", "black"}]
  BY DEF TreeType
<1>7. /\ p2 \in [TreeNodes -> TreeNodes \cup {Nil}] /\ c2 \in [Sides -> [TreeNodes -> TreeNodes \cup {Nil}]]
      /\ o2 \in [TreeNodes -> {"red", "black"}]
  BY <1>6
<1>8. \A m \in TreeNodes : p2[m] = IF m = new THEN t1.parent[old]
                               ELSE IF \E s \in Sides : m = t1.child[s][old] THEN new
                               ELSE t1.parent[m]
  OBVIOUS
<1>9. \A x \in Sides, m \in TreeNodes : c2[x][m] = IF m = new THEN t1.child[x][old] ELSE t1.child[x][m]
  BY <1>6
<1>10. \A m \in TreeNodes : o2[m] = IF m = new THEN t1.color[old] ELSE t1.color[m]
  BY <1>6
<1> HIDE DEF p2, c2, o2, t2
<1>11. /\ t2 \in TreeType /\ t2.root = t1.root /\ t2.parent = p2 /\ t2.child = c2 /\ t2.color = o2
  BY <1>5, <1>7 DEF TreeType
<1>12. Supplanted(t1, old, new, t2)
  BY <1>8, <1>9, <1>10, <1>11 DEF Supplanted
<1> QED  BY <1>12 DEF t2

\* The outcome, once the old node is cleared too.
TakenOver(t, old, new, M, t3) ==
    /\ Replaced(t, old, new, M, t3)
    /\ Loose(t3, (M \ {old}) \cup {new})
    /\ \A m \in TreeNodes \ {old} : t3.color[m] = IF m = new THEN t.color[old] ELSE t.color[m]

\* The assignments of rb_replace_node come to that.
LEMMA ReplaceFacts ==
    ASSUME NEW t, NEW M, NEW sub, Shape(t, M, sub), Loose(t, M), NEW old \in M, NEW new \in TreeNodes \ M,
           NEW t1, Repointed(t, old, new, M, t1),
           NEW t2, Supplanted(t1, old, new, t2),
           NEW t3, Cleared(t2, old, t3)
    PROVE  TakenOver(t, old, new, M, t3)
<1> SUFFICES /\ Replaced(t, old, new, M, t3)
             /\ Loose(t3, (M \ {old}) \cup {new})
             /\ \A m \in TreeNodes \ {old} : t3.color[m] = IF m = new THEN t.color[old] ELSE t.color[m]
  BY DEF TakenOver
<1>1. old \in TreeNodes /\ old # Nil /\ M \subseteq TreeNodes /\ t \in TreeType /\ new # old /\ new \in TreeNodes
      /\ new # Nil
  BY NodeKeys DEF Shape
<1>3. /\ t1.parent = t.parent /\ t1.color = t.color
      /\ t1.root = (IF t.root = old THEN new ELSE t.root)
      /\ \A x \in Sides, m \in TreeNodes :
           t1.child[x][m] = IF m \in M /\ t.child[x][m] = old THEN new ELSE t.child[x][m]
  BY DEF Repointed
<1>4. \A x \in Sides : t1.child[x][old] = t.child[x][old]
  BY <1>1, <1>3, OneParent
<1>13. /\ t3 \in TreeType /\ t3.root = (IF t.root = old THEN new ELSE t.root)
       /\ \A m \in TreeNodes : t3.parent[m] = IF m = old THEN old
                                         ELSE IF m = new THEN t.parent[old]
                                         ELSE IF \E s \in Sides : m = t.child[s][old] THEN new
                                         ELSE t.parent[m]
       /\ \A x \in Sides, m \in TreeNodes : t3.child[x][m] = IF m = old THEN Nil
                                         ELSE IF m = new THEN t.child[x][old] ELSE t1.child[x][m]
       /\ \A m \in TreeNodes \ {old} : t3.color[m] = IF m = new THEN t.color[old] ELSE t.color[m]
  BY <1>1, <1>3, <1>4 DEF Supplanted, Cleared
<1>14. \A m \in M \ {old} : t.parent[m] = old <=> \E s \in Sides : m = t.child[s][old]
  <2> SUFFICES ASSUME NEW m \in M \ {old}
               PROVE  t.parent[m] = old <=> \E s \in Sides : m = t.child[s][old]
    OBVIOUS
  <2>1. ASSUME t.parent[m] = old PROVE \E s \in Sides : m = t.child[s][old]
    <3>1. m # t.root
      BY <2>1, <1>1, SideTold
    <3> QED  BY <3>1, <2>1, SideTold
  <2>2. ASSUME NEW s \in Sides, m = t.child[s][old] PROVE t.parent[m] = old
    BY <2>2, <1>1, OneParent, NodeKeys
  <2> QED  BY <2>1, <2>2
<1>15. Replaced(t, old, new, M, t3)
  <2>1. \A x \in Sides : t3.child[x][new] = t.child[x][old]
    BY <1>1, <1>13
  <2>2. ASSUME NEW x \in Sides, NEW m \in M \ {old}
        PROVE  t3.child[x][m] = IF t.child[x][m] = old THEN new ELSE t.child[x][m]
    <3>1. m \in TreeNodes /\ m # new /\ m # old
      BY <1>1
    <3> QED  BY <3>1, <1>3, <1>13
  <2>3. t3.parent[new] = t.parent[old]
    BY <1>1, <1>13
  <2>4. ASSUME NEW m \in M \ {old}
        PROVE  t3.parent[m] = IF t.parent[m] = old THEN new ELSE t.parent[m]
    <3>1. m \in TreeNodes /\ m # new /\ m # old
      BY <1>1
    <3> QED  BY <3>1, <1>13, <1>14
  <2> QED  BY <2>1, <2>2, <2>3, <2>4, <1>13 DEF Replaced
<1>16. ASSUME NEW m \in TreeNodes, m \notin (M \ {old}) \cup {new}
       PROVE  t3.parent[m] = m /\ \A x \in Sides : t3.child[x][m] = Nil
  <2>1. CASE m = old
    BY <2>1, <1>13
  <2>2. CASE m # old
    <3>1. m \notin M /\ m # new
      BY <2>2, <1>16
    <3>2. t.parent[m] = m /\ \A x \in Sides : t.child[x][m] = Nil
      BY <3>1 DEF Loose
    <3>3. \A s \in Sides : m # t.child[s][old]
      BY <3>1, <1>1, OneParent, NodeKeys
    <3>4. \A x \in Sides : t1.child[x][m] = Nil
      BY <3>1, <3>2, <1>3
    <3> QED  BY <3>1, <3>2, <3>3, <3>4, <2>2, <1>13
  <2> QED  BY <2>1, <2>2
<1> QED  BY <1>13, <1>15, <1>16 DEF Loose

\* Painting keeps the shape.
LEMMA PaintShape ==
    ASSUME NEW t, NEW M, NEW sub, Shape(t, M, sub), NEW n, NEW c, NEW t2, Painted(t, n, c, t2)
    PROVE  Shape(t2, M, sub)
BY LinksShape DEF Painted

\* c is the child of n on side s, and of no other.
Only(t, M, n, s, c) ==
    /\ c \in M /\ c \in TreeNodes /\ n \in TreeNodes /\ c # n /\ c # t.root /\ t.parent[c] = n /\ c # Nil /\ n # Nil
    /\ \A x \in Sides, m \in M : t.child[x][m] = c => m = n /\ x = s

\* So it is for every child.
LEMMA ChildOnly ==
    ASSUME NEW t, NEW M, NEW sub, Shape(t, M, sub), NEW n \in M, NEW s \in Sides, t.child[s][n] # Nil
    PROVE  Only(t, M, n, s, t.child[s][n])
BY OneParent, NodeKeys DEF Only

\* The nodes about a rotation, before and after.
Around(t, n, s, up, M, t2) ==
    /\ up \in M /\ up # n /\ n \in TreeNodes /\ up \in TreeNodes /\ n # Nil /\ up # Nil /\ up # t.root
    /\ \A c \in {t.child[s][n], t.child[s][up], t.child[Opp(s)][up]} : c \in M \cup {Nil} /\ c # n /\ c # up
    /\ t2.child[s][n] = t.child[s][n] /\ t2.child[Opp(s)][n] = t.child[s][up]
    /\ t2.child[s][up] = n /\ t2.child[Opp(s)][up] = t.child[Opp(s)][up]
    /\ \A x \in Sides, m \in M \ {n, up} :
         /\ t2.child[x][m] = IF t.child[x][m] = n THEN up ELSE t.child[x][m]
         /\ t.child[x][m] # up
    /\ t2.parent[n] = up /\ t2.parent[up] = t.parent[n] /\ t.parent[up] = n
    /\ \A m \in M \ {n, up} : t2.parent[m] = IF m = t.child[s][up] THEN n ELSE t.parent[m]
    /\ t2.root = IF t.root = n THEN up ELSE t.root
    /\ t2.color = t.color

\* A rotation has them so.
LEMMA RotateAround ==
    ASSUME NEW t, NEW M, NEW sub, Shape(t, M, sub), NEW n \in M, NEW s \in Sides,
           NEW up, up = t.child[Opp(s)][n], up # Nil,
           NEW t2, Rotated(t, n, s, up, M, t2)
    PROVE  Around(t, n, s, up, M, t2)
<1>1. PICK a, b, c, o : /\ a = t.child[s][n] /\ b = t.child[s][up] /\ c = t.child[Opp(s)][up]
                        /\ o = Opp(s)
  OBVIOUS
<1>2. /\ n \in TreeNodes /\ up \in TreeNodes /\ up \in M /\ up # n /\ n # Nil /\ up # t.root
      /\ o \in Sides /\ o # s /\ Opp(o) = s /\ \A x \in Sides : x = s \/ x = o
      /\ M \subseteq TreeNodes /\ t.parent[up] = n
      /\ \A x \in Sides, m \in M : t.child[x][m] = up => m = n /\ x = o
  BY <1>1, OneParent, Opposite, NodeKeys DEF Shape, Sides
<1>3. n \notin sub[up]
  BY <1>1, <1>2, Apart DEF Below
<1>4. a \in M \cup {Nil} /\ b \in M \cup {Nil} /\ c \in M \cup {Nil}
  BY <1>1, <1>2 DEF Shape, Placed
<1>5. a # n /\ a # up
  BY <1>1, <1>2, OneParent
<1>6. b # up /\ c # up
  BY <1>1, <1>2, OneParent
<1>7. b # n /\ c # n
  <2>1. b # Nil => b \in sub[up]
    BY <1>1, <1>2, <1>4, Apart DEF Below
  <2>2. c # Nil => c \in sub[up]
    BY <1>1, <1>2, <1>4, Apart DEF Below
  <2> QED  BY <2>1, <2>2, <1>2, <1>3
<1>8. /\ t2.root = (IF t.root = n THEN up ELSE t.root) /\ t2.color = t.color
      /\ t2.child[s][n] = a /\ t2.child[o][n] = b
      /\ t2.child[s][up] = n /\ t2.child[o][up] = c
      /\ \A x \in Sides, m \in M : m # n /\ m # up =>
            t2.child[x][m] = IF t.child[x][m] = n THEN up ELSE t.child[x][m]
      /\ t2.parent[n] = up /\ t2.parent[up] = t.parent[n]
      /\ \A m \in M : m # n /\ m # up => t2.parent[m] = IF m = b THEN n ELSE t.parent[m]
  BY <1>1, <1>2, <1>5, <1>6, <1>7 DEF Rotated
<1>9. \A d \in {a, b, c} : d \in M \cup {Nil} /\ d # n /\ d # up
  BY <1>4, <1>5, <1>6, <1>7
<1>10. \A x \in Sides, m \in M \ {n, up} : t.child[x][m] # up
  BY <1>2
<1>11. \A x \in Sides, m \in M \ {n, up} :
            t2.child[x][m] = IF t.child[x][m] = n THEN up ELSE t.child[x][m]
  BY <1>8
<1>12. \A m \in M \ {n, up} : t2.parent[m] = IF m = b THEN n ELSE t.parent[m]
  BY <1>8
<1>13. \A d \in {t.child[s][n], t.child[s][up], t.child[Opp(s)][up]} : d \in M \cup {Nil} /\ d # n /\ d # up
  BY <1>1, <1>9
<1>14. /\ t2.child[s][n] = t.child[s][n] /\ t2.child[Opp(s)][n] = t.child[s][up]
       /\ t2.child[s][up] = n /\ t2.child[Opp(s)][up] = t.child[Opp(s)][up]
  BY <1>1, <1>8
<1>15. /\ up \in M /\ up # n /\ n \in TreeNodes /\ up \in TreeNodes /\ n # Nil /\ up # Nil /\ up # t.root
       /\ t.parent[up] = n
  BY <1>2
<1>16. /\ t2.parent[n] = up /\ t2.parent[up] = t.parent[n]
       /\ t2.root = (IF t.root = n THEN up ELSE t.root) /\ t2.color = t.color
  BY <1>8
<1>17. \A m \in M \ {n, up} : t2.parent[m] = IF m = t.child[s][up] THEN n ELSE t.parent[m]
  BY <1>1, <1>12
<1>18. \A x \in Sides, m \in M \ {n, up} :
            /\ t2.child[x][m] = IF t.child[x][m] = n THEN up ELSE t.child[x][m]
            /\ t.child[x][m] # up
  BY <1>10, <1>11
<1> QED  BY <1>13, <1>14, <1>15, <1>16, <1>17, <1>18, Zenon DEF Around

\* Two nodes have different keys.
LEMMA Distinct ==
    ASSUME NEW t, NEW M, NEW sub, Shape(t, M, sub)
    PROVE  \A n, m \in M : Key[n] = Key[m] => n = m
<1> DEFINE S == {n \in M : \A i, j \in sub[n] : Key[i] = Key[j] => i = j}
<1>1. ASSUME NEW n \in M, \A s \in Sides : t.child[s][n] \in S \cup {Nil} PROVE n \in S
  <2>1. /\ "left" \in Sides /\ "right" \in Sides
        /\ Placed(t, M, sub, n) /\ M \subseteq TreeNodes
    BY DEF Sides, Shape
  <2>2. PICK l, r : l = Below(sub, t.child["left"][n]) /\ r = Below(sub, t.child["right"][n])
    OBVIOUS
  <2>3. /\ sub[n] = {n} \cup l \cup r /\ \A i \in sub[n] : Key[i] \in Nat
        /\ \A i \in l : Key[i] < Key[n]
        /\ \A i \in r : Key[n] < Key[i]
    BY <2>1, <2>2, NodeKeys DEF Placed
  <2>4. /\ \A i, j \in l : Key[i] = Key[j] => i = j
        /\ \A i, j \in r : Key[i] = Key[j] => i = j
    BY <2>1, <2>2, <1>1 DEF Below
  <2>5. ASSUME NEW i \in sub[n], NEW j \in sub[n], Key[i] = Key[j] PROVE i = j
    BY <2>3, <2>4, <2>5
  <2> QED  BY <2>5
<1> HIDE DEF S
<1>2. M \subseteq S
  BY <1>1, TreeInduction
<1>3. t.root = Nil => M = {}
  BY DEF Shape, Below
<1>4. t.root # Nil => t.root \in S /\ sub[t.root] = M
  BY <1>2 DEF Shape, Below
<1> QED  BY <1>3, <1>4 DEF S

-----------------------------------------------------------------------------
(* Colours and black heights.                                               *)

\* The black height of a subtree, and what its top adds to it.
Height(bh, c) == IF c = Nil THEN 0 ELSE bh[c]
Weight(t, n) == IF t.color[n] = "black" THEN 1 ELSE 0

\* Both subtrees of n have the same black height, and bh[n] is that of n.
Even(t, bh, n) ==
    /\ Height(bh, t.child["left"][n]) = Height(bh, t.child["right"][n])
    /\ bh[n] = Height(bh, t.child["left"][n]) + Weight(t, n)

\* b is the red child of a red node.
RedPair(t, M, a, b) == a \in M /\ b \in M /\ IsRed(t, a) /\ IsRed(t, b) /\ t.parent[b] = a

\* All is well between calls.
Balanced(t, M, bh) ==
    /\ bh \in [TreeNodes -> Nat] /\ \A n \in M : Even(t, bh, n)
    /\ \A a, b \in M : ~ RedPair(t, M, a, b)
    /\ ~ IsRed(t, t.root)

\* During an insertion only node may be wrong, red below a red node or at the root.
Grown(t, M, bh, node) ==
    /\ node \in M /\ IsRed(t, node)
    /\ bh \in [TreeNodes -> Nat] /\ \A n \in M : Even(t, bh, n)
    /\ \A a, b \in M : RedPair(t, M, a, b) => b = node
    /\ IsRed(t, t.root) => t.root = node

\* Even, seen from one side.
EvenSeen(t, bh, n, s) ==
    /\ Height(bh, t.child[s][n]) = Height(bh, t.child[Opp(s)][n])
    /\ bh[n] = Height(bh, t.child[s][n]) + Weight(t, n)

\* bh2 differs from bh at n alone.
SetAt(bh, n, a, bh2) == bh2 \in [TreeNodes -> Nat] /\ bh2[n] = a /\ \A m \in TreeNodes : m # n => bh2[m] = bh[m]

\* It has the given value there.
LEMMA Updated ==
    ASSUME NEW bh \in [TreeNodes -> Nat], NEW n \in TreeNodes, NEW a \in Nat
    PROVE  \E bh2 : SetAt(bh, n, a, bh2)
<1> DEFINE bh2 == [bh EXCEPT ![n] = a]
<1>1. bh2 \in [TreeNodes -> Nat] /\ bh2[n] = a /\ \A m \in TreeNodes : m # n => bh2[m] = bh[m]
  OBVIOUS
<1> QED  BY <1>1 DEF SetAt

\* Or is one more, at two nodes.
LEMMA Raised ==
    ASSUME NEW bh \in [TreeNodes -> Nat], NEW p \in TreeNodes, NEW u \in TreeNodes
    PROVE  \E bh2 \in [TreeNodes -> Nat] :
             \A m \in TreeNodes : bh2[m] = IF m \in {p, u} THEN bh[m] + 1 ELSE bh[m]
<1> DEFINE bh2 == [m \in TreeNodes |-> IF m \in {p, u} THEN bh[m] + 1 ELSE bh[m]]
<1>1. bh2 \in [TreeNodes -> Nat] /\ \A m \in TreeNodes : bh2[m] = IF m \in {p, u} THEN bh[m] + 1 ELSE bh[m]
  OBVIOUS
<1> QED  BY <1>1

\* Even depends on the children and their heights alone.
LEMMA EvenFrom ==
    ASSUME NEW t, NEW bh, NEW n, NEW s \in Sides
    PROVE  Even(t, bh, n) <=> EvenSeen(t, bh, n, s)
<1>1. CASE s = "left"
  BY <1>1, Opposite DEF Even, EvenSeen
<1>2. CASE s = "right"
  BY <1>2, Opposite DEF Even, EvenSeen
<1> QED  BY <1>1, <1>2 DEF Sides

\* What a rotation does to the heights of nodes, seen before and after.
Evened(t, n, s, up, M, t2, bh, bh2) ==
    /\ Even(t2, bh2, n) <=> /\ Height(bh, t.child[s][n]) = Height(bh, t.child[s][up])
                            /\ bh2[n] = Height(bh, t.child[s][up]) + Weight(t, n)
    /\ Even(t2, bh2, up) <=> /\ bh2[n] = Height(bh, t.child[Opp(s)][up])
                             /\ bh2[up] = bh2[n] + Weight(t, up)
    /\ \A m \in M : m # n /\ m # up => (Even(t2, bh2, m) <=> Even(t, bh, m))
    /\ \A m \in M, x \in Sides : m # n /\ m # up =>
         Height(bh2, t2.child[x][m]) = Height(bh, t.child[x][m])
    /\ \A c \in M \cup {Nil} : c # n /\ c # up => Height(bh2, c) = Height(bh, c)

\* A rotation changes the heights of the two nodes at most.
LEMMA RotateEven ==
    ASSUME NEW t, NEW M, NEW sub, Shape(t, M, sub), NEW n \in M, NEW s \in Sides,
           NEW up, NEW t2, Around(t, n, s, up, M, t2),
           NEW bh \in [TreeNodes -> Nat], NEW bh2 \in [TreeNodes -> Nat],
           bh2[up] = bh[n], \A m \in TreeNodes : m # n /\ m # up => bh2[m] = bh[m]
    PROVE  Evened(t, n, s, up, M, t2, bh, bh2)
<1>1. M \subseteq TreeNodes /\ t \in TreeType
  BY DEF Shape
<1>2. \A c \in M \cup {Nil} : c # n /\ c # up => Height(bh2, c) = Height(bh, c)
  BY <1>1 DEF Height
<1>3. n # Nil /\ up # Nil /\ n # up /\ n \in TreeNodes /\ up \in TreeNodes /\ t2.color = t.color
  BY DEF Around
<1>4. /\ Height(bh2, n) = bh2[n] /\ Height(bh2, up) = bh2[up] /\ Height(bh, n) = bh[n]
      /\ \A m : Weight(t2, m) = Weight(t, m)
  BY <1>3 DEF Height, Weight
<1>5. ASSUME NEW m \in M, NEW x \in Sides, m # n, m # up
      PROVE  Height(bh2, t2.child[x][m]) = Height(bh, t.child[x][m])
  <2>1. /\ t2.child[x][m] = (IF t.child[x][m] = n THEN up ELSE t.child[x][m])
        /\ t.child[x][m] # up
    BY <1>5 DEF Around
  <2>2. t.child[x][m] \in M \cup {Nil}
    BY DEF Shape, Placed
  <2> QED  BY <2>1, <2>2, <1>2, <1>4
<1>6. /\ t2.child[s][n] = t.child[s][n] /\ t2.child[Opp(s)][n] = t.child[s][up]
      /\ t2.child[s][up] = n /\ t2.child[Opp(s)][up] = t.child[Opp(s)][up]
  BY DEF Around
<1>7. /\ Height(bh2, t.child[s][n]) = Height(bh, t.child[s][n])
      /\ Height(bh2, t.child[s][up]) = Height(bh, t.child[s][up])
      /\ Height(bh2, t.child[Opp(s)][up]) = Height(bh, t.child[Opp(s)][up])
  BY <1>2 DEF Around
<1>8. Even(t2, bh2, n) <=> /\ Height(bh, t.child[s][n]) = Height(bh, t.child[s][up])
                           /\ bh2[n] = Height(bh, t.child[s][up]) + Weight(t, n)
  <2>1. Even(t2, bh2, n) <=> EvenSeen(t2, bh2, n, s)
    BY EvenFrom
  <2> QED  BY <2>1, <1>4, <1>6, <1>7 DEF EvenSeen
<1>9. Even(t2, bh2, up) <=> /\ bh2[n] = Height(bh, t.child[Opp(s)][up])
                            /\ bh2[up] = bh2[n] + Weight(t, up)
  <2>1. Even(t2, bh2, up) <=> EvenSeen(t2, bh2, up, s)
    BY EvenFrom
  <2> QED  BY <2>1, <1>4, <1>6, <1>7 DEF EvenSeen
<1>10. ASSUME NEW m \in M, m # n, m # up PROVE Even(t2, bh2, m) <=> Even(t, bh, m)
  <2>1. bh2[m] = bh[m]
    BY <1>1, <1>10
  <2>2. "left" \in Sides /\ "right" \in Sides
    BY DEF Sides
  <2>3. /\ Height(bh2, t2.child["left"][m]) = Height(bh, t.child["left"][m])
        /\ Height(bh2, t2.child["right"][m]) = Height(bh, t.child["right"][m])
    BY <2>2, <1>5, <1>10
  <2> QED  BY <2>1, <2>3, <1>4 DEF Even
<1> QED  BY <1>2, <1>5, <1>8, <1>9, <1>10 DEF Evened

\* node and its parent p are red: g is the parent of p.
RedParent(t, M, node, p, g) ==
    /\ p \in M /\ g \in M /\ node # t.root /\ p # t.root /\ p # node /\ g # p /\ g # node
    /\ ~ IsRed(t, g) /\ t.color[g] = "black" /\ t.color[p] = "red" /\ t.color[node] = "red"
    /\ SideOf(t, p) \in Sides /\ t.child[SideOf(t, p)][g] = p
    /\ ~ IsRed(t, t.root)
    /\ \A c \in M : t.parent[c] \in {p, node} /\ c # node => ~ IsRed(t, c)

\* Then p is not the root, and g is black.
LEMMA GrownFacts ==
    ASSUME NEW t, NEW M, NEW sub, Shape(t, M, sub), NEW bh, NEW node, Grown(t, M, bh, node),
           NEW p, p = t.parent[node], IsRed(t, p), NEW g, g = t.parent[p]
    PROVE  RedParent(t, M, node, p, g)
<1>1. node \in M /\ IsRed(t, node) /\ p # Nil
  BY DEF Grown, IsRed
<1>2. node # t.root /\ p \in M /\ p # node
  BY <1>1, SideTold
<1>3. ~ IsRed(t, t.root)
  BY <1>2 DEF Grown
<1>4. p # t.root
  BY <1>3
<1>5. g \in M /\ g # p /\ SideOf(t, p) \in Sides /\ t.child[SideOf(t, p)][g] = p
  BY <1>2, <1>4, SideTold
<1>6. ~ IsRed(t, g)
  BY <1>2, <1>5 DEF Grown, RedPair
<1>7. t.color[g] \in {"red", "black"} /\ g # Nil /\ g \in TreeNodes
  BY <1>5, TreeTyped, NodeKeys DEF Shape
<1>8. \A c \in M : t.parent[c] \in {p, node} /\ c # node => ~ IsRed(t, c)
  BY <1>1, <1>2 DEF Grown, RedPair
<1>9. g # node
  BY <1>1, <1>6
<1> QED  BY <1>1, <1>2, <1>3, <1>4, <1>5, <1>6, <1>7, <1>8, <1>9 DEF IsRed, RedParent

\* p and u turn black, g red.
Recolored(t, M, g, p, u, t2) ==
    /\ t2.child = t.child /\ t2.parent = t.parent /\ t2.root = t.root
    /\ \A m \in M : t2.color[m] = IF m = g THEN "red" ELSE IF m \in {p, u} THEN "black" ELSE t.color[m]

\* Then the grandparent is the one node that may be wrong.
LEMMA GrownRecolor ==
    ASSUME NEW t, NEW M, NEW sub, Shape(t, M, sub), NEW bh, NEW node, Grown(t, M, bh, node),
           NEW p, p = t.parent[node], IsRed(t, p), NEW g, g = t.parent[p],
           NEW s \in Sides, t.child[s][g] = p, NEW u, u = t.child[Opp(s)][g], IsRed(t, u),
           NEW t2, Recolored(t, M, g, p, u, t2)
    PROVE  \E bh2 : Grown(t2, M, bh2, g)
<1>1. /\ p \in M /\ g \in M /\ node # t.root /\ p # t.root /\ p # node /\ g # p /\ g # node
      /\ ~ IsRed(t, g) /\ t.color[g] = "black" /\ t.color[p] = "red"
      /\ ~ IsRed(t, t.root)
  BY ONLY Shape(t, M, sub), Grown(t, M, bh, node), p = t.parent[node], IsRed(t, p), g = t.parent[p],
          GrownFacts DEF RedParent
<1>2. /\ u \in M /\ u # g /\ u # p /\ u # Nil /\ t.color[u] = "red" /\ t.parent[u] = g /\ p # Nil /\ g # Nil
      /\ Opp(s) \in Sides
      /\ \A x \in Sides, m \in M : t.child[x][m] = u => m = g
      /\ \A x \in Sides, m \in M : t.child[x][m] = p => m = g
  <2>1. Opp(s) \in Sides /\ Opp(s) # s /\ u # Nil /\ t.color[u] = "red" /\ p # Nil
    BY ONLY s \in Sides, u = t.child[Opp(s)][g], IsRed(t, u), IsRed(t, p), Opposite DEF IsRed
  <2>2. Only(t, M, g, Opp(s), u)
    BY ONLY <2>1, <1>1, Shape(t, M, sub), u = t.child[Opp(s)][g], ChildOnly
  <2>3. Only(t, M, g, s, p)
    BY ONLY <2>1, <1>1, Shape(t, M, sub), s \in Sides, t.child[s][g] = p, ChildOnly
  <2>4. u # p
    <3>1. \A m \in M : t.child[s][m] # u
      BY ONLY s \in Sides, <2>1, <2>2 DEF Only
    <3> QED  BY ONLY t.child[s][g] = p, <3>1, <1>1
  <2> QED  BY ONLY s \in Sides, <2>1, <2>2, <2>3, <2>4 DEF Only
<1>3. M \subseteq TreeNodes /\ bh \in [TreeNodes -> Nat] /\ \A n \in M : Even(t, bh, n)
  BY ONLY Shape(t, M, sub), Grown(t, M, bh, node) DEF Shape, Grown
<1>30. /\ t2.child = t.child /\ t2.parent = t.parent /\ t2.root = t.root
       /\ \A m \in M : t2.color[m] = IF m = g THEN "red" ELSE IF m \in {p, u} THEN "black" ELSE t.color[m]
  BY ONLY Recolored(t, M, g, p, u, t2) DEF Recolored
<1>31. p \in TreeNodes /\ u \in TreeNodes
  BY ONLY <1>1, <1>2, <1>3
<1>32. PICK bh2 \in [TreeNodes -> Nat] :
         \A m \in TreeNodes : bh2[m] = IF m \in {p, u} THEN bh[m] + 1 ELSE bh[m]
  BY ONLY <1>3, <1>31, Raised
<1>4. bh2 \in [TreeNodes -> Nat]
  BY ONLY <1>32, bh2 \in [TreeNodes -> Nat]
<1>5. \A m \in M : bh2[m] = IF m \in {p, u} THEN bh[m] + 1 ELSE bh[m]
  BY ONLY <1>3, <1>32
<1>6. \A c \in M \cup {Nil} : c # p /\ c # u => Height(bh2, c) = Height(bh, c)
  BY ONLY <1>5 DEF Height
<1>7. ASSUME NEW m \in M PROVE Even(t2, bh2, m)
  <2>1. /\ t.child[s][m] \in M \cup {Nil} /\ t.child[Opp(s)][m] \in M \cup {Nil}
    BY ONLY Shape(t, M, sub), s \in Sides, m \in M, <1>2 DEF Shape, Placed
  <2>2. /\ Height(bh, t.child[s][m]) = Height(bh, t.child[Opp(s)][m])
        /\ bh[m] = Height(bh, t.child[s][m]) + Weight(t, m)
    <3>1. EvenSeen(t, bh, m, s)
      BY ONLY s \in Sides, m \in M, <1>3, EvenFrom
    <3> QED  BY ONLY <3>1 DEF EvenSeen
  <2>3. CASE m = g
    <3>1. Height(bh2, p) = Height(bh, p) + 1 /\ Height(bh2, u) = Height(bh, u) + 1
      BY ONLY <1>1, <1>2, <1>5 DEF Height
    <3>2. Weight(t, g) = 1 /\ Weight(t2, g) = 0 /\ bh2[g] = bh[g]
      BY ONLY <1>1, <1>2, <1>5, <1>30 DEF Weight
    <3>3. Height(bh, p) \in Nat
      BY ONLY <1>1, <1>2, <1>3 DEF Height
    <3>5. t.child[s][m] = p /\ t.child[Opp(s)][m] = u
      BY ONLY <2>3, t.child[s][g] = p, u = t.child[Opp(s)][g]
    <3>6. Height(bh, p) = Height(bh, u) /\ bh[g] = Height(bh, p) + 1
      BY ONLY <3>2, <3>5, <2>2, <2>3
    <3>7. Height(bh2, p) = Height(bh2, u) /\ bh2[g] = Height(bh2, p) + 0
      <4>1. PICK h \in Nat : h = Height(bh, p)
        BY ONLY <3>3
      <4>2. Height(bh2, p) = h + 1 /\ Height(bh2, u) = h + 1 /\ bh2[g] = h + 1
        BY ONLY <4>1, <3>1, <3>2, <3>6
      <4>3. h + 1 = (h + 1) + 0
        OBVIOUS
      <4> QED  BY ONLY <4>2, <4>3
    <3>4. EvenSeen(t2, bh2, m, s)
      BY ONLY <3>2, <3>5, <3>7, <2>3, <1>30 DEF EvenSeen
    <3> QED  BY ONLY s \in Sides, <3>4, EvenFrom
  <2>4. CASE m # g
    <3>1. /\ t.child[s][m] # p /\ t.child[s][m] # u /\ t.child[Opp(s)][m] # p /\ t.child[Opp(s)][m] # u
      BY ONLY s \in Sides, m \in M, <2>4, <1>2
    <3>2. /\ Height(bh2, t.child[s][m]) = Height(bh, t.child[s][m])
          /\ Height(bh2, t.child[Opp(s)][m]) = Height(bh, t.child[Opp(s)][m])
      BY ONLY <3>1, <2>1, <1>6
    <3>3. bh2[m] - Weight(t2, m) = bh[m] - Weight(t, m) /\ bh[m] \in Nat /\ bh2[m] \in Nat
      <4>1. bh[m] \in Nat /\ bh2[m] \in Nat
        BY ONLY m \in M, <1>3, <1>4
      <4>2. CASE m \in {p, u}
        <5>1. Weight(t, m) = 0 /\ Weight(t2, m) = 1 /\ bh2[m] = bh[m] + 1
          BY ONLY m \in M, <4>2, <2>4, <1>1, <1>2, <1>5, <1>30 DEF Weight
        <5> QED  BY ONLY <4>1, <5>1
      <4>3. CASE m \notin {p, u}
        <5>1. Weight(t, m) = Weight(t2, m) /\ bh2[m] = bh[m] /\ Weight(t, m) \in Nat
          BY ONLY m \in M, <4>3, <2>4, <1>5, <1>30 DEF Weight
        <5> QED  BY ONLY <4>1, <5>1
      <4> QED  BY ONLY <4>2, <4>3
    <3>4. bh2[m] = Height(bh, t.child[s][m]) + Weight(t2, m)
      <4>1. Height(bh, t.child[s][m]) \in Nat /\ Weight(t, m) \in Nat /\ Weight(t2, m) \in Nat
        BY ONLY m \in M, <2>1, <1>3 DEF Height, Weight
      <4> QED  BY ONLY <4>1, <3>3, <2>2
    <3>5. EvenSeen(t2, bh2, m, s)
      BY ONLY <3>2, <3>4, <2>2, <1>30 DEF EvenSeen
    <3> QED  BY ONLY s \in Sides, <3>5, EvenFrom
  <2> QED  BY ONLY <2>3, <2>4
<1>8. ASSUME NEW a \in M, NEW b \in M, RedPair(t2, M, a, b) PROVE b = g
  <2> SUFFICES ASSUME b # g PROVE FALSE
    OBVIOUS
  <2>1. t.parent[b] = a /\ t2.color[b] = "red" /\ t2.color[a] = "red" /\ a # Nil /\ b # Nil
    BY ONLY a \in M, b \in M, <1>8, <1>30 DEF RedPair, IsRed
  <2>2. b # p /\ b # u /\ t.color[b] = "red" /\ a # p /\ a # u
    BY ONLY a \in M, b \in M, b # g, <2>1, <1>1, <1>2, <1>30
  <2>3. a # g
    <3>1. b = t.root \/ \E x \in Sides : t.child[x][t.parent[b]] = b
      BY ONLY Shape(t, M, sub), b \in M DEF Shape, Placed
    <3>2. b # t.root
      BY <2>1, SideTold
    <3>3. \A x \in Sides : x = s \/ x = Opp(s)
      BY ONLY s \in Sides, Opposite
    <3> QED  BY ONLY <3>1, <3>2, <3>3, <2>1, <2>2, t.child[s][g] = p, u = t.child[Opp(s)][g]
  <2>4. RedPair(t, M, a, b)
    BY ONLY a \in M, b \in M, <2>1, <2>2, <2>3, <1>30 DEF RedPair, IsRed
  <2>5. b = node
    BY ONLY a \in M, b \in M, <2>4, Grown(t, M, bh, node) DEF Grown
  <2> QED  BY ONLY a \in M, b \in M, <2>1, <2>3, <1>1, <1>2, <2>2, <2>5, p = t.parent[node]
<1>9. IsRed(t2, t2.root) => t2.root = g
  BY ONLY <1>1, <1>30, Shape(t, M, sub) DEF IsRed, Shape
<1>10. IsRed(t2, g)
  BY ONLY <1>1, <1>2, <1>30 DEF IsRed
<1> QED  BY ONLY <1>1, <1>4, <1>7, <1>8, <1>9, <1>10 DEF Grown

\* Heights are naturals.
LEMMA HeightNat ==
    ASSUME NEW t, NEW M, NEW sub, Shape(t, M, sub), NEW bh \in [TreeNodes -> Nat]
    PROVE  /\ \A c \in M \cup {Nil} : Height(bh, c) \in Nat
           /\ \A m \in M, x \in Sides : t.child[x][m] \in M \cup {Nil} /\ Height(bh, t.child[x][m]) \in Nat
<1>1. M \subseteq TreeNodes
  BY DEF Shape
<1>2. \A c \in M \cup {Nil} : Height(bh, c) \in Nat
  BY <1>1 DEF Height
<1>3. \A m \in M, x \in Sides : t.child[x][m] \in M \cup {Nil}
  BY DEF Shape, Placed
<1> QED  BY <1>2, <1>3

\* Only a black node adds to the height.
LEMMA WeightIs ==
    \A t, n : /\ t.color[n] = "black" => Weight(t, n) = 1
              /\ t.color[n] = "red" => Weight(t, n) = 0
              /\ Weight(t, n) \in {0, 1}
BY DEF Weight

\* What is below a node when one of its children is red or black.
LEMMA EvenBoth ==
    ASSUME NEW t, NEW bh, NEW n, NEW s \in Sides, Even(t, bh, n)
    PROVE  EvenSeen(t, bh, n, s) /\ EvenSeen(t, bh, n, Opp(s))
<1>1. Opp(s) \in Sides
  BY Opposite
<1> QED  BY <1>1, EvenFrom

\* The first rotation of an insertion turns the inner red child out.
LEMMA GrownTurn ==
    ASSUME NEW t, NEW M, NEW sub, Shape(t, M, sub), NEW bh, NEW node, Grown(t, M, bh, node),
           NEW p, p = t.parent[node], IsRed(t, p), NEW g, g = t.parent[p],
           NEW s \in Sides, t.child[s][g] = p, t.child[Opp(s)][p] = node,
           NEW t2, Around(t, p, s, node, M, t2)
    PROVE  /\ Grown(t2, M, bh, p) /\ t2.parent[p] = node /\ IsRed(t2, node) /\ t2.parent[node] = g
           /\ t2.child[s][g] = node /\ t2.child[s][node] = p
           /\ t2.child[Opp(s)][g] = t.child[Opp(s)][g] /\ t2.color = t.color
<1>1. RedParent(t, M, node, p, g)
  BY GrownFacts
<1>2. /\ p \in M /\ g \in M /\ node # t.root /\ p # t.root /\ p # node /\ g # p /\ g # node
      /\ ~ IsRed(t, g) /\ t.color[p] = "red" /\ t.color[node] = "red"
      /\ ~ IsRed(t, t.root)
      /\ \A c \in M : t.parent[c] \in {p, node} /\ c # node => ~ IsRed(t, c)
  BY ONLY <1>1 DEF RedParent
<1>3. /\ node \in M /\ bh \in [TreeNodes -> Nat] /\ (\A n \in M : Even(t, bh, n))
      /\ IsRed(t, node)
  BY DEF Grown
<1>4. Opp(s) \in Sides /\ M \subseteq TreeNodes
  BY Opposite DEF Shape
<1>5. EvenSeen(t, bh, p, s) /\ EvenSeen(t, bh, p, Opp(s)) /\ EvenSeen(t, bh, node, s) /\ EvenSeen(t, bh, node, Opp(s))
  BY <1>2, <1>3, EvenBoth
<1>6. PICK h \in Nat : /\ h = Height(bh, t.child[s][p]) /\ h = bh[node] /\ h = bh[p]
                       /\ h = Height(bh, t.child[s][node]) /\ h = Height(bh, t.child[Opp(s)][node])
  <2>1. Weight(t, p) = 0 /\ Weight(t, node) = 0
    BY ONLY <1>2, WeightIs
  <2>2. Height(bh, t.child[Opp(s)][p]) = bh[node]
    BY <1>3, NodeKeys, <1>4 DEF Height
  <2>3. /\ Height(bh, t.child[s][p]) \in Nat /\ Height(bh, t.child[s][node]) \in Nat
        /\ Height(bh, t.child[Opp(s)][node]) \in Nat
    BY <1>2, <1>3, <1>4, HeightNat
  <2>4. Opp(Opp(s)) = s
    BY Opposite
  <2>5. /\ Height(bh, t.child[s][p]) = bh[node] /\ bh[p] = Height(bh, t.child[s][p]) + 0
        /\ Height(bh, t.child[s][node]) = Height(bh, t.child[Opp(s)][node])
        /\ bh[node] = Height(bh, t.child[s][node]) + 0
    BY ONLY <1>5, <2>1, <2>2, <2>4 DEF EvenSeen
  <2> QED  BY ONLY <2>3, <2>5
<1>7. /\ Even(t2, bh, p) <=> /\ Height(bh, t.child[s][p]) = Height(bh, t.child[s][node])
                             /\ bh[p] = Height(bh, t.child[s][node]) + Weight(t, p)
      /\ Even(t2, bh, node) <=> /\ bh[p] = Height(bh, t.child[Opp(s)][node])
                                /\ bh[node] = bh[p] + Weight(t, node)
      /\ \A m \in M : m # p /\ m # node => (Even(t2, bh, m) <=> Even(t, bh, m))
  <2>1. bh[node] = bh[p]
    BY ONLY <1>6
  <2>2. Evened(t, p, s, node, M, t2, bh, bh)
    BY <2>1, <1>2, <1>3, RotateEven
  <2>3. t.child[Opp(s)][node] = t.child[Opp(s)][node]
    OBVIOUS
  <2> QED  BY ONLY <2>2 DEF Evened
<1>8. Weight(t, p) = 0 /\ Weight(t, node) = 0
  BY ONLY <1>2, WeightIs
<1>9. Even(t2, bh, p) /\ Even(t2, bh, node)
  BY ONLY <1>6, <1>7, <1>8
<1>10. \A m \in M : Even(t2, bh, m)
  BY ONLY <1>3, <1>7, <1>9
<1>11. /\ node \in M /\ p # Nil /\ node # Nil
       /\ t2.parent[p] = node /\ t2.parent[node] = t.parent[p] /\ t.parent[node] = p
       /\ \A m \in M \ {p, node} : t2.parent[m] = IF m = t.child[s][node] THEN p ELSE t.parent[m]
       /\ t2.root = (IF t.root = p THEN node ELSE t.root)
       /\ t2.color = t.color /\ t2.child[s][node] = p
       /\ \A x \in Sides, m \in M \ {p, node} :
            t2.child[x][m] = IF t.child[x][m] = p THEN node ELSE t.child[x][m]
  BY DEF Around
<1>12. /\ t2.child[s][g] = node /\ t2.child[Opp(s)][g] = t.child[Opp(s)][g]
  <2>1. t.child[Opp(s)][g] # p
    <3>1. t.child[s][g] # Nil
      BY <1>11
    <3>2. Only(t, M, g, s, p)
      BY <3>1, <1>2, ChildOnly
    <3> QED  BY <3>2, <1>2, <1>4, Opposite DEF Only
  <2> QED  BY <2>1, <1>2, <1>4, <1>11
<1>13. ASSUME NEW a \in M, NEW b \in M, RedPair(t2, M, a, b) PROVE b = p
  <2> SUFFICES ASSUME b # p PROVE FALSE
    OBVIOUS
  <2>1. t2.parent[b] = a /\ IsRed(t, a) /\ IsRed(t, b)
    BY <1>11, <1>13 DEF RedPair, IsRed
  <2>2. CASE b = node
    BY <2>1, <2>2, <1>2, <1>11
  <2>3. CASE b # node /\ b = t.child[s][node]
    <3>1. Only(t, M, node, s, b)
      BY <2>3, <1>3, <1>4, NodeKeys, ChildOnly
    <3>2. t.parent[b] = node
      BY ONLY <3>1 DEF Only
    <3> QED  BY <3>2, <2>1, <2>3, <1>2
  <2>4. CASE b # node /\ b # t.child[s][node]
    <3>1. t.parent[b] = a
      BY <2>1, <2>4, <1>11
    <3>2. RedPair(t, M, a, b)
      BY <3>1, <2>1 DEF RedPair
    <3> QED  BY <3>2, <2>4 DEF Grown
  <2> QED  BY <2>2, <2>3, <2>4
<1>14. IsRed(t2, p) /\ IsRed(t2, node) /\ ~ IsRed(t2, t2.root)
  BY <1>2, <1>11 DEF IsRed
<1>15. Grown(t2, M, bh, p)
  BY <1>2, <1>3, <1>10, <1>13, <1>14 DEF Grown
<1> QED  BY <1>11, <1>12, <1>14, <1>15

\* The parent turns black, the grandparent red.
GrownPainted(t, M, p, g, t1) ==
    /\ t1.child = t.child /\ t1.parent = t.parent /\ t1.root = t.root
    /\ \A m \in M : t1.color[m] = IF m = g THEN "red" ELSE IF m = p THEN "black" ELSE t.color[m]

\* The second rotation sets it right.
LEMMA GrownRotate ==
    ASSUME NEW t, NEW M, NEW sub, Shape(t, M, sub), NEW bh, NEW node, Grown(t, M, bh, node),
           NEW p, p = t.parent[node], IsRed(t, p), NEW g, g = t.parent[p],
           NEW s \in Sides, t.child[s][g] = p, t.child[s][p] = node,
           ~ IsRed(t, t.child[Opp(s)][g]),
           NEW t1, GrownPainted(t, M, p, g, t1), Shape(t1, M, sub),
           NEW t2, Around(t1, g, Opp(s), p, M, t2)
    PROVE  \E bh2 : /\ Grown(t2, M, bh2, node) /\ t2.parent[node] = p /\ ~ IsRed(t2, p)
                    /\ t2.parent[g] = p
<1>1. RedParent(t, M, node, p, g)
  BY GrownFacts
<1>2. /\ p \in M /\ g \in M /\ node # t.root /\ p # t.root /\ p # node /\ g # p /\ g # node
      /\ t.color[g] = "black" /\ t.color[p] = "red" /\ t.color[node] = "red"
      /\ ~ IsRed(t, t.root)
      /\ \A c \in M : t.parent[c] \in {p, node} /\ c # node => ~ IsRed(t, c)
  BY ONLY <1>1 DEF RedParent
<1>3. /\ node \in M /\ bh \in [TreeNodes -> Nat] /\ (\A n \in M : Even(t, bh, n))
      /\ IsRed(t, node)
  BY DEF Grown
<1>4. Opp(s) \in Sides /\ M \subseteq TreeNodes /\ Opp(Opp(s)) = s /\ Opp(s) # s /\ \A x \in Sides : x = s \/ x = Opp(s)
  BY Opposite DEF Shape
<1>5. PICK u, b, o : u = t.child[Opp(s)][g] /\ b = t.child[Opp(s)][p] /\ o = Opp(s)
  OBVIOUS
<1>6. /\ t1.child = t.child /\ t1.parent = t.parent /\ t1.root = t.root
      /\ \A m \in M : t1.color[m] = IF m = g THEN "red" ELSE IF m = p THEN "black" ELSE t.color[m]
  BY ONLY GrownPainted(t, M, p, g, t1) DEF GrownPainted
<1>7. p \in TreeNodes /\ g \in TreeNodes /\ node \in TreeNodes /\ p # Nil /\ g # Nil /\ node # Nil
  BY <1>2, <1>3, <1>4, NodeKeys
<1>8. PICK h \in Nat : /\ h = bh[node] /\ h = bh[p] /\ h = Height(bh, b) /\ h = Height(bh, u) /\ bh[g] = h + 1
  <2>1. Weight(t, p) = 0 /\ Weight(t, g) = 1
    BY ONLY <1>2, WeightIs
  <2>2. EvenSeen(t, bh, p, s) /\ EvenSeen(t, bh, g, s)
    BY <1>2, <1>3, EvenBoth
  <2>3. Height(bh, t.child[s][p]) = bh[node] /\ Height(bh, t.child[s][g]) = bh[p]
    BY <1>7 DEF Height
  <2>4. bh[node] = Height(bh, b) /\ bh[p] = bh[node] + 0 /\ bh[p] = Height(bh, u) /\ bh[g] = bh[p] + 1
    BY ONLY <2>1, <2>2, <2>3, <1>5 DEF EvenSeen
  <2>5. bh[node] \in Nat
    BY ONLY <1>3, <1>7
  <2> QED  BY ONLY <2>4, <2>5
<1>9. PICK bh1 : SetAt(bh, p, h + 1, bh1)
  <2>1. PICK k \in Nat : k = h + 1
    OBVIOUS
  <2>2. \E f : SetAt(bh, p, k, f)
    BY ONLY k \in Nat, <1>3, <1>7, Updated
  <2> QED  BY ONLY <2>1, <2>2
<1>91. bh1 \in [TreeNodes -> Nat]
  BY ONLY <1>9 DEF SetAt
<1>10. PICK bh2 : SetAt(bh1, g, h, bh2)
  BY ONLY <1>91, h \in Nat, <1>7, Updated
<1>101. bh2 \in [TreeNodes -> Nat]
  BY ONLY <1>10 DEF SetAt
<1>11. bh2[p] = bh[g] /\ bh2[p] = h + 1 /\ bh2[g] = h /\ \A m \in TreeNodes : m # g /\ m # p => bh2[m] = bh[m]
  BY ONLY <1>2, <1>7, <1>8, <1>9, <1>10 DEF SetAt
<1>12. /\ Even(t2, bh2, g) <=> /\ Height(bh, t1.child[o][g]) = Height(bh, t1.child[o][p])
                               /\ bh2[g] = Height(bh, t1.child[o][p]) + Weight(t1, g)
       /\ Even(t2, bh2, p) <=> /\ bh2[g] = Height(bh, t1.child[Opp(o)][p])
                               /\ bh2[p] = bh2[g] + Weight(t1, p)
       /\ \A m \in M : m # g /\ m # p => (Even(t2, bh2, m) <=> Even(t1, bh, m))
  <2>1. Around(t1, g, o, p, M, t2)
    BY <1>5
  <2>2. o \in Sides
    BY <1>4, <1>5
  <2>3. Evened(t1, g, o, p, M, t2, bh, bh2)
    BY ONLY <2>1, <2>2, Shape(t1, M, sub), <1>101, <1>2, <1>3, <1>11, RotateEven
  <2> QED  BY ONLY <2>3 DEF Evened
<1>13. /\ t1.child[o][g] = u /\ t1.child[o][p] = b /\ t1.child[Opp(o)][p] = node
       /\ Weight(t1, g) = 0 /\ Weight(t1, p) = 1 /\ Height(bh, node) = h
  <2>1. t1.color[g] = "red" /\ t1.color[p] = "black"
    BY ONLY <1>2, <1>6
  <2>2. Weight(t1, g) = 0 /\ Weight(t1, p) = 1
    BY ONLY <2>1, WeightIs
  <2>3. Height(bh, node) = h
    BY ONLY <1>7, <1>8 DEF Height
  <2> QED  BY <2>2, <2>3, <1>4, <1>5, <1>6
<1>14. Even(t2, bh2, g) /\ Even(t2, bh2, p)
  <2>1. /\ Height(bh, u) = h /\ Height(bh, b) = h /\ bh2[g] = h /\ bh2[p] = h + 1
        /\ h = h + 0
    BY ONLY h \in Nat, <1>8, <1>11
  <2>2. Even(t2, bh2, g)
    BY ONLY <2>1, <1>12, <1>13
  <2>3. Even(t2, bh2, p)
    BY ONLY <2>1, <1>12, <1>13
  <2> QED  BY ONLY <2>2, <2>3
<1>15. ASSUME NEW m \in M PROVE Even(t2, bh2, m)
  <2>1. CASE m = g \/ m = p
    BY <2>1, <1>14
  <2>2. CASE m # g /\ m # p
    <3>1. Weight(t1, m) = Weight(t, m)
      BY ONLY <2>2, <1>6, m \in M DEF Weight
    <3>2. Even(t, bh, m)
      BY <1>3
    <3>3. Even(t1, bh, m)
      BY ONLY <3>1, <3>2, <1>6 DEF Even
    <3> QED  BY <3>3, <2>2, <1>12
  <2> QED  BY <2>1, <2>2
<1>16. /\ t2.parent[g] = p /\ t2.parent[p] = t.parent[g]
       /\ \A m \in M \ {g, p} : t2.parent[m] = IF m = b THEN g ELSE t.parent[m]
       /\ t2.root = (IF t.root = g THEN p ELSE t.root)
       /\ t2.color = t1.color
  <2>1. Around(t1, g, o, p, M, t2)
    BY <1>5
  <2> QED  BY ONLY <2>1, <1>5, <1>6 DEF Around
<1>17. /\ \A m \in M : IsRed(t2, m) <=> m = g \/ (m # p /\ IsRed(t, m))
  BY ONLY <1>2, <1>6, <1>7, <1>16 DEF IsRed
<1>18. b # node /\ b # p /\ b # g /\ (b \in M => t.parent[b] = p)
  <2>1. t.child[s][p] # Nil
    BY <1>7
  <2>2. Only(t, M, p, s, node)
    BY <2>1, <1>2, ChildOnly
  <2>3. b # node
    BY <2>2, <1>2, <1>4, <1>5 DEF Only
  <2>4. b # Nil => Only(t, M, p, o, b)
    BY <1>2, <1>4, <1>5, ChildOnly
  <2>5. \A c \in M : c # Nil
    BY <1>4, NodeKeys
  <2>6. t.parent[g] # p
    <3>1. g = t.root \/ t.parent[g] # p
      <4>1. g \notin Below(sub, t.child[s][g]) /\ Below(sub, t.child[s][g]) = sub[p]
        <5>1. t.child[s][g] = p
          OBVIOUS
        <5> QED  BY ONLY <5>1, Shape(t, M, sub), s \in Sides, <1>2, <1>7, Apart DEF Below
      <4>2. ASSUME g # t.root PROVE g \in sub[t.parent[g]]
        <5>1. /\ t.parent[g] \in M /\ SideOf(t, g) \in Sides
              /\ t.child[SideOf(t, g)][t.parent[g]] = g
          BY ONLY Shape(t, M, sub), <4>2, <1>2, SideTold
        <5>2. g \in sub[g] /\ Below(sub, g) \subseteq sub[t.parent[g]]
          BY ONLY Shape(t, M, sub), <5>1, <1>2, Apart
        <5> QED  BY ONLY <5>2, <1>7 DEF Below
      <4>3. g = t.root \/ t.parent[g] # p
        BY ONLY <4>1, <4>2
      <4> QED  BY <4>3
    <3> QED  BY <3>1, <1>2, <1>7, SideTold
  <2> QED  BY <2>3, <2>4, <2>5, <2>6, <1>7 DEF Only
<1>19. ASSUME NEW a \in M, NEW c \in M, RedPair(t2, M, a, c) PROVE FALSE
  <2>1. t2.parent[c] = a /\ (a = g \/ (a # p /\ IsRed(t, a))) /\ (c = g \/ (c # p /\ IsRed(t, c)))
    BY <1>17, <1>19 DEF RedPair
  <2>2. c # g /\ c # p /\ IsRed(t, c)
    BY <2>1, <1>2, <1>16
  <2>3. c # b
    BY <2>2, <1>2, <1>18
  <2>4. t.parent[c] = a
    BY <2>1, <2>2, <2>3, <1>16
  <2>5. a # g
    <3> SUFFICES ASSUME a = g PROVE FALSE
      OBVIOUS
    <3>1. c # t.root /\ t.parent[c] = g
      BY <2>4, <1>7, SideTold
    <3>2. c = p \/ c = u
      BY <3>1, <1>4, <1>5, SideTold
    <3> QED  BY <3>2, <2>2, <1>5
  <2>6. RedPair(t, M, a, c)
    BY <2>1, <2>2, <2>4, <2>5 DEF RedPair
  <2>7. c = node /\ a = p
    BY <2>4, <2>6 DEF Grown
  <2> QED  BY <2>1, <2>7, <1>2
<1>20. ~ IsRed(t2, t2.root)
  <2>1. t.root = g => ~ IsRed(t2, t2.root)
    BY <1>2, <1>16, <1>17
  <2>2. t.root # g => ~ IsRed(t2, t2.root)
    <3>1. t.root \in M \cup {Nil}
      BY DEF Shape
    <3>2. ~ IsRed(t2, Nil)
      BY DEF IsRed
    <3> QED  BY <3>1, <3>2, <1>2, <1>16, <1>17
  <2> QED  BY <2>1, <2>2
<1>21. IsRed(t2, node) /\ t2.parent[node] = p /\ ~ IsRed(t2, p)
  <2>1. t2.parent[node] = p
    BY <1>2, <1>3, <1>16, <1>18
  <2> QED  BY <2>1, <1>2, <1>3, <1>17
<1>22. Grown(t2, M, bh2, node)
  BY <1>3, <1>101, <1>15, <1>19, <1>20, <1>21 DEF Grown
<1> QED  BY <1>16, <1>21, <1>22

-----------------------------------------------------------------------------
(* A removal.                                                               *)

\* The subtree node, on side s of p, is one black node short.
Short(t, bh, node, p, s) ==
    /\ t.child[s][p] = node
    /\ Height(bh, t.child[Opp(s)][p]) = Height(bh, node) + 1
    /\ bh[p] = Height(bh, t.child[Opp(s)][p]) + Weight(t, p)

\* During a removal the rest is well, but for red nodes at node.
Light(t, M, bh, node, p) ==
    /\ p \in M /\ bh \in [TreeNodes -> Nat]
    /\ \E s \in Sides : Short(t, bh, node, p, s)
    /\ \A n \in M \ {p} : Even(t, bh, n)
    /\ \A a, b \in M : RedPair(t, M, a, b) => node \in {a, b}
    /\ ~ IsRed(t, t.root)

\* Or the whole tree is one black node short.
Rooted(t, M, bh) ==
    /\ bh \in [TreeNodes -> Nat] /\ \A n \in M : Even(t, bh, n)
    /\ \A a, b \in M : RedPair(t, M, a, b) => a = t.root

\* w is the sibling of node, which is not red.
Beside(t, M, bh, node, p, s, w) ==
    /\ s \in Sides /\ Opp(s) \in Sides /\ Opp(s) # s /\ Opp(Opp(s)) = s
    /\ \A x \in Sides : x = s \/ x = Opp(s)
    /\ bh \in [TreeNodes -> Nat]
    /\ p \in M /\ M \subseteq TreeNodes /\ p # Nil /\ p \in TreeNodes
    /\ t.child[s][p] = node /\ t.child[Opp(s)][p] = w
    /\ w \in M /\ w # Nil /\ w \in TreeNodes /\ w # p /\ w # node /\ w # t.root /\ t.parent[w] = p
    /\ node # p /\ node \in M \cup {Nil} /\ (node # Nil => t.parent[node] = p)
    /\ ~ IsRed(t, node)
    /\ \A c \in M : t.parent[c] = p => c = node \/ c = w
    /\ \A a, b \in M : ~ RedPair(t, M, a, b)
    /\ ~ IsRed(t, t.root)
    /\ \A n \in M \ {p} : Even(t, bh, n)
    /\ \A c \in M \cup {Nil} : Height(bh, c) \in Nat

\* There is a sibling, for the other subtree is one higher.
LEMMA LightBeside ==
    ASSUME NEW t, NEW M, NEW sub, Shape(t, M, sub), NEW bh, NEW node, NEW p, Light(t, M, bh, node, p),
           ~ IsRed(t, node)
    PROVE  LET s == IF t.child["left"][p] = node THEN "left" ELSE "right"
           IN  Short(t, bh, node, p, s) /\ Beside(t, M, bh, node, p, s, t.child[Opp(s)][p])
<1>1. PICK s \in Sides : Short(t, bh, node, p, s)
  BY DEF Light
<1>2. PICK w : w = t.child[Opp(s)][p]
  OBVIOUS
<1>3. p \in M /\ bh \in [TreeNodes -> Nat] /\ M \subseteq TreeNodes
  BY DEF Light, Shape
<1>4. /\ Opp(s) \in Sides /\ Opp(s) # s /\ Opp(Opp(s)) = s /\ \A x \in Sides : x = s \/ x = Opp(s)
      /\ p \in TreeNodes /\ p # Nil
  BY <1>3, Opposite, NodeKeys
<1>5. /\ t.child[s][p] = node /\ Height(bh, w) = Height(bh, node) + 1
      /\ bh[p] = Height(bh, w) + Weight(t, p)
  BY ONLY <1>1, <1>2 DEF Short
<1>6. \A c \in M \cup {Nil} : Height(bh, c) \in Nat
  BY <1>3, HeightNat
<1>7. node \in M \cup {Nil} /\ w \in M \cup {Nil}
  BY <1>2, <1>3, <1>4, <1>5 DEF Shape, Placed
<1>8. w # Nil /\ w # node
  <2>1. PICK h \in Nat : h = Height(bh, node)
    BY <1>6, <1>7
  <2>2. Height(bh, w) = h + 1
    BY ONLY <2>1, <1>5
  <2>3. h + 1 # h /\ h + 1 # 0
    OBVIOUS
  <2> QED  BY ONLY <2>1, <2>2, <2>3 DEF Height
<1>9. Only(t, M, p, Opp(s), w)
  BY <1>2, <1>3, <1>4, <1>8, ChildOnly
<1>10. node # Nil => Only(t, M, p, s, node)
  BY <1>3, <1>4, <1>5, ChildOnly
<1>11. (IF t.child["left"][p] = node THEN "left" ELSE "right") = s
  BY ONLY s \in Sides, <1>2, <1>5, <1>8, Opposite DEF Sides
<1>12. ASSUME NEW c \in M, t.parent[c] = p PROVE c = node \/ c = w
  <2>1. c # t.root
    BY <1>4, <1>12, SideTold
  <2> QED  BY <2>1, <1>2, <1>4, <1>5, <1>12, SideTold
<1>13. \A a, b \in M : ~ RedPair(t, M, a, b)
  BY DEF Light, RedPair
<1>14. Beside(t, M, bh, node, p, s, w)
  <2>1. w \in M /\ w # p /\ w # t.root /\ t.parent[w] = p /\ w \in TreeNodes
    BY ONLY <1>9 DEF Only
  <2>2. node # p /\ (node # Nil => t.parent[node] = p)
    BY ONLY <1>4, <1>10 DEF Only
  <2>3. ~ IsRed(t, t.root) /\ \A n \in M \ {p} : Even(t, bh, n)
    BY DEF Light
  <2> QED  BY <2>1, <2>2, <2>3, <1>2, <1>3, <1>4, <1>5, <1>6, <1>7, <1>8, <1>12, <1>13 DEF Beside
<1> QED  BY ONLY <1>1, <1>2, <1>11, <1>14

\* Only the colours differ.
SamePlaces(t, t2) == t2.child = t.child /\ t2.parent = t.parent /\ t2.root = t.root

\* Then a node of the same colour is even in both.
LEMMA SameEven ==
    ASSUME NEW t, NEW t2, SamePlaces(t, t2), NEW bh, NEW n, t2.color[n] = t.color[n]
    PROVE  Even(t2, bh, n) <=> Even(t, bh, n)
BY DEF SamePlaces, Even, Weight

\* A red sibling turns black and p red, and p is rotated: the sibling is black then.
LEMMA LightFix ==
    ASSUME NEW t, NEW M, NEW sub, Shape(t, M, sub), NEW bh, NEW node, NEW p, NEW s, NEW w,
           Short(t, bh, node, p, s), Beside(t, M, bh, node, p, s, w), IsRed(t, w),
           NEW t1, SamePlaces(t, t1), Shape(t1, M, sub),
           \A m \in M : t1.color[m] = IF m = p THEN "red" ELSE IF m = w THEN "black" ELSE t.color[m],
           NEW t2, Around(t1, p, s, w, M, t2)
    PROVE  /\ \E bh2 : Light(t2, M, bh2, node, p)
           /\ t2.child[s][p] = node /\ t2.parent[p] = w
           /\ t2.child[Opp(s)][p] = t.child[s][w] /\ ~ IsRed(t2, t.child[s][w])
           /\ ~ IsRed(t2, node) /\ IsRed(t2, p)
<1>1. PICK a, b, o : a = t.child[s][w] /\ b = t.child[Opp(s)][w] /\ o = Opp(s)
  OBVIOUS
<1>2. /\ s \in Sides /\ o \in Sides /\ o # s /\ Opp(o) = s /\ \A x \in Sides : x = s \/ x = o
      /\ bh \in [TreeNodes -> Nat]
      /\ p \in M /\ M \subseteq TreeNodes /\ p # Nil /\ p \in TreeNodes
      /\ t.child[s][p] = node /\ t.child[o][p] = w
      /\ w \in M /\ w # Nil /\ w \in TreeNodes /\ w # p /\ w # node /\ w # t.root /\ t.parent[w] = p
      /\ node # p /\ node \in M \cup {Nil}
      /\ ~ IsRed(t, node) /\ ~ IsRed(t, t.root)
      /\ \A c \in M : t.parent[c] = p => c = node \/ c = w
      /\ \A c, d \in M : ~ RedPair(t, M, c, d)
      /\ \A n \in M \ {p} : Even(t, bh, n)
      /\ \A c \in M \cup {Nil} : Height(bh, c) \in Nat
  BY ONLY Beside(t, M, bh, node, p, s, w), <1>1 DEF Beside
<1>3. /\ t1.child = t.child /\ t1.parent = t.parent /\ t1.root = t.root
      /\ \A m \in M : t1.color[m] = IF m = p THEN "red" ELSE IF m = w THEN "black" ELSE t.color[m]
  BY DEF SamePlaces
<1>4. t.color[w] = "red" /\ t.color[p] = "black"
  <2>1. t.color[w] = "red"
    BY DEF IsRed
  <2>2. ~ IsRed(t, p)
    BY <1>2 DEF RedPair
  <2>3. t.color[p] \in {"red", "black"}
    BY <1>2, TreeTyped DEF Shape
  <2> QED  BY <2>1, <2>2, <2>3, <1>2 DEF IsRed
<1>5. a \in M \cup {Nil} /\ b \in M \cup {Nil}
  BY <1>1, <1>2, HeightNat
<1>6. PICK h \in Nat : /\ Height(bh, node) = h /\ Height(bh, a) = h + 1 /\ Height(bh, b) = h + 1
                       /\ bh[w] = h + 1 /\ bh[p] = h + 2
  <2>1. Weight(t, w) = 0 /\ Weight(t, p) = 1
    BY ONLY <1>4, WeightIs
  <2>2. EvenSeen(t, bh, w, s)
    BY <1>2, EvenBoth
  <2>3. /\ Height(bh, w) = Height(bh, node) + 1 /\ bh[p] = Height(bh, w) + 1
    BY ONLY Short(t, bh, node, p, s), <1>1, <1>2, <2>1 DEF Short
  <2>4. Height(bh, a) = Height(bh, b) /\ bh[w] = Height(bh, a) + 0
    BY ONLY <2>1, <2>2, <1>1 DEF EvenSeen
  <2>5. Height(bh, w) = bh[w]
    BY ONLY <1>2 DEF Height
  <2>6. PICK h, k \in Nat : h = Height(bh, node) /\ k = Height(bh, a)
    BY ONLY <1>2, <1>5
  <2>7. k = h + 1 /\ bh[p] = h + 2 /\ bh[w] = h + 1
    <3>1. bh[w] = k
      BY ONLY <2>4, <2>6, k \in Nat
    <3>2. k = h + 1
      BY ONLY <3>1, <2>3, <2>5, <2>6
    <3> QED  BY ONLY <3>1, <3>2, <2>3, <2>5, h \in Nat
  <2> QED  BY ONLY <2>4, <2>6, <2>7, h \in Nat
<1>7. PICK bh1 : SetAt(bh, p, h + 1, bh1)
  <2>1. PICK k \in Nat : k = h + 1
    OBVIOUS
  <2>2. \E f : SetAt(bh, p, k, f)
    BY ONLY k \in Nat, <1>2, Updated
  <2> QED  BY ONLY <2>1, <2>2
<1>8. bh1 \in [TreeNodes -> Nat]
  BY ONLY <1>7 DEF SetAt
<1>9. PICK bh2 : SetAt(bh1, w, h + 2, bh2)
  <2>1. PICK k \in Nat : k = h + 2
    OBVIOUS
  <2>2. \E f : SetAt(bh1, w, k, f)
    BY ONLY k \in Nat, <1>2, <1>8, Updated
  <2> QED  BY ONLY <2>1, <2>2
<1>10. /\ bh2 \in [TreeNodes -> Nat] /\ bh2[p] = h + 1 /\ bh2[w] = h + 2 /\ bh2[w] = bh[p]
       /\ \A m \in TreeNodes : m # p /\ m # w => bh2[m] = bh[m]
  BY ONLY <1>2, <1>6, <1>7, <1>9 DEF SetAt
<1>11. Evened(t1, p, s, w, M, t2, bh, bh2)
  BY ONLY Shape(t1, M, sub), Around(t1, p, s, w, M, t2), <1>2, <1>10, RotateEven
<1>12. /\ t2.child[s][p] = node /\ t2.child[o][p] = a
       /\ t2.parent[p] = w /\ t2.parent[w] = t.parent[p]
       /\ \A m \in M \ {p, w} : t2.parent[m] = IF m = a THEN p ELSE t.parent[m]
       /\ t2.root = (IF t.root = p THEN w ELSE t.root)
       /\ t2.color = t1.color
       /\ a # p /\ a # w /\ b # p /\ b # w
  BY ONLY Around(t1, p, s, w, M, t2), <1>1, <1>2, <1>3 DEF Around
<1>13. /\ Weight(t2, p) = 0 /\ Weight(t1, w) = 1
       /\ \A m \in M : IsRed(t2, m) <=> m = p \/ (m # w /\ IsRed(t, m))
  <2>1. t2.color[p] = "red" /\ t1.color[w] = "black"
    BY ONLY <1>2, <1>3, <1>12
  <2>2. \A m \in M : IsRed(t2, m) <=> m = p \/ (m # w /\ IsRed(t, m))
    BY ONLY <1>2, <1>3, <1>12 DEF IsRed
  <2> QED  BY ONLY <2>1, <2>2, WeightIs
<1>14. Short(t2, bh2, node, p, s)
  <2>1. Height(bh2, node) = h /\ Height(bh2, a) = h + 1
    BY ONLY <1>2, <1>5, <1>6, <1>11, <1>12 DEF Evened
  <2>2. h + 1 = (h + 1) + 0
    BY ONLY h \in Nat
  <2> QED  BY ONLY <2>1, <2>2, <1>1, <1>10, <1>12, <1>13 DEF Short
<1>15. Even(t2, bh2, w)
  <2>1. t1.child[Opp(s)][w] = b
    BY ONLY <1>1, <1>3
  <2>2. bh2[p] = Height(bh, b) /\ bh2[w] = bh2[p] + 1
    BY ONLY <1>6, <1>10, h \in Nat
  <2> QED  BY ONLY <2>1, <2>2, <1>11, <1>13 DEF Evened
<1>16. ASSUME NEW m \in M, m # p PROVE Even(t2, bh2, m)
  <2>1. CASE m = w
    BY ONLY <2>1, <1>15
  <2>2. CASE m # w
    <3>1. t1.color[m] = t.color[m]
      BY ONLY <2>2, <1>16, <1>3, m \in M
    <3>2. Even(t, bh, m)
      BY ONLY <1>2, <1>16, m \in M
    <3>3. Even(t1, bh, m)
      BY ONLY <3>1, <3>2, SamePlaces(t, t1), SameEven
    <3> QED  BY ONLY <3>3, <2>2, <1>16, <1>11, m \in M DEF Evened
  <2> QED  BY <2>1, <2>2
<1>17. ~ IsRed(t2, node)
  <2>1. ~ IsRed(t2, Nil)
    BY DEF IsRed
  <2> QED  BY ONLY <2>1, <1>2, <1>13
<1>18. ~ IsRed(t2, a)
  <2>1. ~ IsRed(t2, Nil)
    BY DEF IsRed
  <2>2. a # Nil => Only(t, M, w, s, a)
    BY ONLY Shape(t, M, sub), <1>1, <1>2, ChildOnly
  <2>3. a # Nil => ~ IsRed(t, a)
    BY ONLY <2>2, <1>2, IsRed(t, w) DEF RedPair, Only
  <2> QED  BY ONLY <2>1, <2>3, <1>5, <1>12, <1>13
<1>19. ASSUME NEW c \in M, NEW d \in M, RedPair(t2, M, c, d) PROVE FALSE
  <2>1. /\ t2.parent[d] = c /\ (c = p \/ (c # w /\ IsRed(t, c))) /\ (d = p \/ (d # w /\ IsRed(t, d)))
        /\ IsRed(t2, d)
    BY ONLY <1>13, <1>19, c \in M, d \in M DEF RedPair
  <2>2. d # p /\ d # w /\ d # a /\ d # node /\ IsRed(t, d) /\ c # w
    BY ONLY <2>1, <1>2, <1>12, <1>17, <1>18
  <2>3. t.parent[d] = c
    BY ONLY <2>1, <2>2, <1>12, d \in M
  <2>4. c # p
    BY ONLY <2>2, <2>3, <1>2, d \in M
  <2>5. RedPair(t, M, c, d)
    BY ONLY <2>1, <2>2, <2>3, <2>4, c \in M, d \in M DEF RedPair
  <2> QED  BY <2>5, <1>2
<1>20. ~ IsRed(t2, t2.root)
  <2>1. t.root \in M \cup {Nil}
    BY DEF Shape
  <2>2. ~ IsRed(t2, Nil)
    BY DEF IsRed
  <2> QED  BY ONLY <2>1, <2>2, <1>2, <1>12, <1>13
<1>21. Light(t2, M, bh2, node, p)
  BY ONLY <1>2, <1>10, <1>14, <1>16, <1>19, <1>20 DEF Light
<1>22. IsRed(t2, p)
  BY ONLY <1>2, <1>13
<1> QED  BY ONLY <1>1, <1>12, <1>17, <1>18, <1>21, <1>22

\* A child that is not red is neither p nor below it red: the heights about a sibling.
LEMMA BesideChild ==
    ASSUME NEW t, NEW M, NEW sub, Shape(t, M, sub), NEW bh, NEW node, NEW p, NEW s, NEW w,
           Beside(t, M, bh, node, p, s, w), NEW x \in Sides
    PROVE  /\ t.child[x][w] \in M \cup {Nil} /\ t.child[x][w] # p /\ t.child[x][w] # w
           /\ t.child[x][w] # node \/ node = Nil
           /\ Height(bh, t.child[x][w]) \in Nat
<1>1. PICK c : c = t.child[x][w]
  OBVIOUS
<1>2. /\ w \in M /\ w # Nil /\ p \in M /\ p # Nil /\ w # p /\ t.parent[w] = p /\ (node # Nil => t.parent[node] = p)
      /\ \A d \in M \cup {Nil} : Height(bh, d) \in Nat
  BY ONLY Beside(t, M, bh, node, p, s, w) DEF Beside
<1>3. c \in M \cup {Nil}
  BY <1>1, <1>2 DEF Shape, Placed
<1>4. c # Nil => Only(t, M, w, x, c)
  BY ONLY Shape(t, M, sub), <1>1, <1>2, x \in Sides, ChildOnly
<1>5. c # Nil => c # w /\ t.parent[c] = w
  BY ONLY <1>4 DEF Only
<1>6. c # p
  <2> SUFFICES ASSUME c = p PROVE FALSE
    OBVIOUS
  <2>1. p \in Below(sub, t.child[x][w])
    <3>1. p \in sub[p]
      BY ONLY Shape(t, M, sub), <1>2, Opposite, x \in Sides, Apart
    <3> QED  BY ONLY <3>1, <1>1, <1>2, c = p DEF Below
  <2>2. p \in sub[w]
    <3>1. Below(sub, t.child[x][w]) \subseteq sub[w] \ {w}
      BY ONLY Shape(t, M, sub), <1>2, x \in Sides, Apart
    <3> QED  BY ONLY <3>1, <2>1
  <2>3. w \in sub[p]
    <3>1. w # t.root
      BY ONLY Beside(t, M, bh, node, p, s, w) DEF Beside
    <3>2. PICK y \in Sides : t.child[y][p] = w
      BY <3>1, <1>2, SideTold
    <3>3. w \in sub[w] /\ Below(sub, t.child[y][p]) \subseteq sub[p] \ {p}
      BY ONLY Shape(t, M, sub), <1>2, y \in Sides, Apart
    <3> QED  BY ONLY <3>2, <3>3, <1>2 DEF Below
  <2>4. w = p
    BY ONLY Shape(t, M, sub), <2>2, <2>3, <1>2, BelowBelow
  <2> QED  BY <2>4, <1>2
<1> QED  BY ONLY <1>1, <1>2, <1>3, <1>5, <1>6

\* A black sibling with black children turns red: one black node short further up.
LEMMA LightUp ==
    ASSUME NEW t, NEW M, NEW sub, Shape(t, M, sub), NEW bh, NEW node, NEW p, NEW s, NEW w,
           Short(t, bh, node, p, s), Beside(t, M, bh, node, p, s, w), ~ IsRed(t, w),
           \A x \in Sides : ~ IsRed(t, t.child[x][w]),
           NEW t2, SamePlaces(t, t2), t2.color[w] = "red", \A m \in M : m # w => t2.color[m] = t.color[m]
    PROVE  IF p = t.root THEN \E bh2 : Rooted(t2, M, bh2) ELSE \E bh2 : Light(t2, M, bh2, p, t.parent[p])
<1>1. PICK a, b, o, q : a = t.child[s][w] /\ b = t.child[Opp(s)][w] /\ o = Opp(s) /\ q = t.parent[p]
  OBVIOUS
<1>2. /\ s \in Sides /\ o \in Sides /\ o # s /\ Opp(o) = s /\ \A x \in Sides : x = s \/ x = o
      /\ bh \in [TreeNodes -> Nat]
      /\ p \in M /\ M \subseteq TreeNodes /\ p # Nil /\ p \in TreeNodes
      /\ t.child[s][p] = node /\ t.child[o][p] = w
      /\ w \in M /\ w # Nil /\ w \in TreeNodes /\ w # p /\ w # node /\ w # t.root /\ t.parent[w] = p
      /\ node # p /\ node \in M \cup {Nil}
      /\ ~ IsRed(t, node) /\ ~ IsRed(t, t.root)
      /\ \A c \in M : t.parent[c] = p => c = node \/ c = w
      /\ \A c, d \in M : ~ RedPair(t, M, c, d)
      /\ \A n \in M \ {p} : Even(t, bh, n)
      /\ \A c \in M \cup {Nil} : Height(bh, c) \in Nat
  BY ONLY Beside(t, M, bh, node, p, s, w), <1>1 DEF Beside
<1>3. t2.child = t.child /\ t2.parent = t.parent /\ t2.root = t.root
  BY ONLY SamePlaces(t, t2) DEF SamePlaces
<1>4. t.color[w] = "black" /\ Weight(t, w) = 1 /\ Weight(t2, w) = 0
  <2>1. t.color[w] \in {"red", "black"}
    BY <1>2, TreeTyped DEF Shape
  <2>2. t.color[w] = "black"
    BY ONLY <2>1, <1>2, ~ IsRed(t, w) DEF IsRed
  <2> QED  BY ONLY <2>2, WeightIs, t2.color[w] = "red"
<1>5. /\ a \in M \cup {Nil} /\ a # p /\ a # w /\ b \in M \cup {Nil} /\ b # p /\ b # w
  BY ONLY Shape(t, M, sub), Beside(t, M, bh, node, p, s, w), <1>1, <1>2, BesideChild
<1>51. PICK e : e = Weight(t, p)
  OBVIOUS
<1>52. e \in Nat /\ Weight(t2, p) = e
  <2>1. Weight(t2, p) = Weight(t, p)
    BY ONLY <1>2, \A m \in M : m # w => t2.color[m] = t.color[m] DEF Weight
  <2> QED  BY ONLY <2>1, <1>51, WeightIs
<1>6. PICK h \in Nat : /\ Height(bh, node) = h /\ Height(bh, a) = h /\ Height(bh, b) = h
                       /\ bh[w] = h + 1 /\ bh[p] = h + 1 + e
  <2>2. EvenSeen(t, bh, w, s)
    BY <1>2, EvenBoth
  <2>3. /\ Height(bh, w) = Height(bh, node) + 1 /\ bh[p] = Height(bh, w) + e
    BY ONLY Short(t, bh, node, p, s), <1>1, <1>2, <1>51 DEF Short
  <2>4. Height(bh, a) = Height(bh, b) /\ bh[w] = Height(bh, a) + 1
    BY ONLY <1>4, <2>2, <1>1 DEF EvenSeen
  <2>5. Height(bh, w) = bh[w]
    BY ONLY <1>2 DEF Height
  <2>6. PICK h, k \in Nat : h = Height(bh, node) /\ k = Height(bh, a)
    BY ONLY <1>2, <1>5
  <2>7. k + 1 = h + 1
    BY ONLY <2>3, <2>4, <2>5, <2>6
  <2>8. k = h
    BY ONLY <2>7, h \in Nat, k \in Nat
  <2> QED  BY ONLY <2>3, <2>4, <2>5, <2>6, <2>8, h \in Nat
<1>7. PICK bh1 : SetAt(bh, p, h + e, bh1)
  <2>1. PICK k \in Nat : k = h + e
    BY ONLY h \in Nat, <1>52
  <2>2. \E f : SetAt(bh, p, k, f)
    BY ONLY k \in Nat, <1>2, Updated
  <2> QED  BY ONLY <2>1, <2>2
<1>8. bh1 \in [TreeNodes -> Nat]
  BY ONLY <1>7 DEF SetAt
<1>9. PICK bh2 : SetAt(bh1, w, h, bh2)
  BY ONLY h \in Nat, <1>2, <1>8, Updated
<1>10. /\ bh2 \in [TreeNodes -> Nat] /\ bh2[p] = h + e /\ bh2[w] = h
       /\ \A m \in TreeNodes : m # p /\ m # w => bh2[m] = bh[m]
  BY ONLY <1>2, <1>6, <1>7, <1>9 DEF SetAt
<1>11. \A c \in M \cup {Nil} : c # p /\ c # w => Height(bh2, c) = Height(bh, c)
  BY ONLY <1>2, <1>10 DEF Height
<1>12. Even(t2, bh2, w)
  <2>1. Height(bh2, a) = h /\ Height(bh2, b) = h /\ h = h + 0
    BY ONLY <1>5, <1>6, <1>11, h \in Nat
  <2>2. EvenSeen(t2, bh2, w, s)
    BY ONLY <2>1, <1>1, <1>3, <1>4, <1>10 DEF EvenSeen
  <2> QED  BY ONLY <2>2, <1>2, EvenFrom
<1>13. Even(t2, bh2, p)
  <2>1. Height(bh2, node) = h /\ Height(bh2, w) = h
    BY ONLY <1>2, <1>6, <1>10, <1>11 DEF Height
  <2>2. EvenSeen(t2, bh2, p, s)
    BY ONLY <2>1, <1>1, <1>2, <1>3, <1>10, <1>52 DEF EvenSeen
  <2> QED  BY ONLY <2>2, <1>2, EvenFrom
<1>14. ASSUME NEW m \in M, NEW x \in Sides, m # p
       PROVE  /\ t.child[x][m] # p => Height(bh2, t.child[x][m]) = Height(bh, t.child[x][m])
              /\ Height(bh, t.child[x][m]) \in Nat
  <2>1. t.child[x][m] \in M \cup {Nil}
    BY DEF Shape, Placed
  <2>2. t.child[x][m] # w
    <3>1. t.child[x][m] # Nil => Only(t, M, m, x, t.child[x][m])
      BY ONLY Shape(t, M, sub), m \in M, x \in Sides, ChildOnly
    <3> QED  BY ONLY <3>1, <1>2, <1>14 DEF Only
  <2> QED  BY ONLY <2>1, <2>2, <1>2, <1>11
<1>15. ASSUME NEW m \in M, m # p, m # w, \A x \in Sides : t.child[x][m] # p PROVE Even(t2, bh2, m)
  <2>1. Even(t, bh, m)
    BY <1>2, <1>15
  <2>2. /\ Height(bh2, t.child["left"][m]) = Height(bh, t.child["left"][m])
        /\ Height(bh2, t.child["right"][m]) = Height(bh, t.child["right"][m])
    BY ONLY <1>14, <1>15, m \in M DEF Sides
  <2>3. bh2[m] = bh[m] /\ Weight(t2, m) = Weight(t, m)
    BY ONLY <1>2, <1>10, <1>15, m \in M, \A n \in M : n # w => t2.color[n] = t.color[n] DEF Weight
  <2> QED  BY ONLY <2>1, <2>2, <2>3, <1>3 DEF Even
<1>16. /\ \A m \in M : IsRed(t2, m) <=> m = w \/ IsRed(t, m)
       /\ ~ IsRed(t2, Nil)
  BY ONLY <1>2, t2.color[w] = "red", \A m \in M : m # w => t2.color[m] = t.color[m] DEF IsRed
<1>17. ASSUME NEW c \in M, NEW d \in M, RedPair(t2, M, c, d) PROVE c = p
  <2>1. /\ t.parent[d] = c /\ (c = w \/ IsRed(t, c)) /\ (d = w \/ IsRed(t, d)) 
    BY ONLY <1>3, <1>16, <1>17, c \in M, d \in M DEF RedPair
  <2>2. CASE d = w
    BY ONLY <2>1, <2>2, <1>2
  <2>3. CASE d # w /\ c = w
    <3>1. d # t.root
      BY ONLY Shape(t, M, sub), d \in M, <1>2, <2>1, <2>3, SideTold
    <3>2. d = a \/ d = b
      <4>1. SideOf(t, d) \in Sides /\ t.child[SideOf(t, d)][w] = d
        BY ONLY Shape(t, M, sub), d \in M, <3>1, <2>1, <2>3, SideTold
      <4> QED  BY ONLY <4>1, <1>1, <1>2
    <3>3. ~ IsRed(t, d)
      BY ONLY <3>2, <1>1, <1>2, \A x \in Sides : ~ IsRed(t, t.child[x][w])
    <3> QED  BY <3>3, <2>1, <2>3
  <2>4. CASE d # w /\ c # w
    <3>1. RedPair(t, M, c, d)
      BY ONLY <2>1, <2>4, c \in M, d \in M DEF RedPair
    <3> QED  BY <3>1, <1>2
  <2> QED  BY <2>2, <2>3, <2>4
<1>18. ~ IsRed(t2, t2.root)
  <2>1. t.root \in M \cup {Nil}
    BY DEF Shape
  <2> QED  BY ONLY <2>1, <1>2, <1>3, <1>16
<1>19. CASE p = t.root
  <2>1. ASSUME NEW m \in M PROVE Even(t2, bh2, m)
    <3>1. \A x \in Sides : t.child[x][m] # p
      <4> SUFFICES ASSUME NEW x \in Sides, t.child[x][m] = p PROVE FALSE
        OBVIOUS
      <4>1. Only(t, M, m, x, p)
        BY ONLY Shape(t, M, sub), m \in M, x \in Sides, t.child[x][m] = p, <1>2, ChildOnly
      <4> QED  BY ONLY <4>1, <1>19 DEF Only
    <3> QED  BY ONLY <3>1, <1>12, <1>13, <1>15, m \in M
  <2>2. Rooted(t2, M, bh2)
    BY ONLY <2>1, <1>3, <1>10, <1>17, <1>19 DEF Rooted, RedPair
  <2> QED  BY ONLY <2>2, <1>19
<1>20. CASE p # t.root
  <2>1. q \in M /\ q # p /\ q \in TreeNodes
    BY <1>1, <1>2, <1>20, SideTold
  <2>2. PICK x \in Sides : t.child[x][q] = p
    BY <1>1, <1>2, <1>20, SideTold
  <2>3. Only(t, M, q, x, p)
    BY ONLY Shape(t, M, sub), <2>1, <2>2, <1>2, x \in Sides, ChildOnly
  <2>4. Opp(x) \in Sides /\ Opp(x) # x
    BY Opposite
  <2>5. t.child[Opp(x)][q] # p /\ \A m \in M, y \in Sides : t.child[y][m] = p => m = q
    BY ONLY <2>1, <2>3, <2>4 DEF Only
  <2>6. EvenSeen(t, bh, q, x)
    BY ONLY <2>1, <1>2, EvenBoth, x \in Sides
  <2>7. PICK d : d = t.child[Opp(x)][q]
    OBVIOUS
  <2>8. Height(bh2, d) = Height(bh, d)
    BY ONLY <2>1, <2>4, <2>5, <2>7, <1>14
  <2>9. Height(bh, p) = Height(bh, d) /\ bh[q] = Height(bh, p) + Weight(t, q) /\ Height(bh, p) = h + 1 + e
        /\ Height(bh2, p) = h + e
    BY ONLY <2>2, <2>6, <2>7, <1>2, <1>6, <1>10 DEF EvenSeen, Height
  <2>10. q # w
    <3>1. \A y \in Sides : t.child[y][w] # p
      BY ONLY <1>1, <1>2, <1>5
    <3> QED  BY ONLY <3>1, <2>2
  <2>11. bh2[q] = bh[q] /\ Weight(t2, q) = Weight(t, q)
    BY ONLY <1>10, <2>1, <2>10, \A n \in M : n # w => t2.color[n] = t.color[n] DEF Weight
  <2>12. h + 1 + e = (h + e) + 1
    BY ONLY h \in Nat, <1>52
  <2>13. Short(t2, bh2, p, q, x)
    BY ONLY <2>2, <2>7, <2>8, <2>9, <2>11, <2>12, <1>3 DEF Short
  <2>14. \A m \in M \ {q} : Even(t2, bh2, m)
    <3> SUFFICES ASSUME NEW m \in M \ {q} PROVE Even(t2, bh2, m)
      OBVIOUS
    <3>1. \A y \in Sides : t.child[y][m] # p
      BY ONLY <2>5, m \in M \ {q}
    <3> QED  BY ONLY <3>1, <1>12, <1>13, <1>15, m \in M \ {q}
  <2>15. Light(t2, M, bh2, p, q)
    BY ONLY <2>1, <2>13, <2>14, <1>10, <1>17, <1>18, x \in Sides DEF Light, RedPair
  <2> QED  BY ONLY <2>15, <1>1, <1>20
<1> QED  BY ONLY <1>19, <1>20

\* The red nephew on the near side is turned into the place of the sibling.
LEMMA LightTurn ==
    ASSUME NEW t, NEW M, NEW sub, Shape(t, M, sub), NEW bh, NEW node, NEW p, NEW s, NEW w,
           Short(t, bh, node, p, s), Beside(t, M, bh, node, p, s, w), ~ IsRed(t, w),
           NEW v, v = t.child[s][w], IsRed(t, v), ~ IsRed(t, t.child[Opp(s)][w]),
           NEW t1, SamePlaces(t, t1), Shape(t1, M, sub),
           \A m \in M : t1.color[m] = IF m = w THEN "red" ELSE IF m = v THEN "black" ELSE t.color[m],
           NEW t2, Around(t1, w, Opp(s), v, M, t2)
    PROVE  /\ \E bh2 : Light(t2, M, bh2, node, p)
           /\ t2.child[s][p] = node /\ t2.child[Opp(s)][p] = v /\ ~ IsRed(t2, v) /\ ~ IsRed(t2, node)
           /\ t2.child[Opp(s)][v] = w /\ IsRed(t2, w) /\ t2.parent[w] = v
<1>1. PICK a, b, o, c : a = t.child[s][v] /\ b = t.child[Opp(s)][w] /\ o = Opp(s) /\ c = t.child[Opp(s)][v]
  OBVIOUS
<1>2. /\ s \in Sides /\ o \in Sides /\ o # s /\ Opp(o) = s /\ \A x \in Sides : x = s \/ x = o
      /\ bh \in [TreeNodes -> Nat]
      /\ p \in M /\ M \subseteq TreeNodes /\ p # Nil /\ p \in TreeNodes
      /\ t.child[s][p] = node /\ t.child[o][p] = w
      /\ w \in M /\ w # Nil /\ w \in TreeNodes /\ w # p /\ w # node /\ w # t.root /\ t.parent[w] = p
      /\ node # p /\ node \in M \cup {Nil} /\ (node # Nil => t.parent[node] = p)
      /\ ~ IsRed(t, node) /\ ~ IsRed(t, t.root)
      /\ \A e \in M : t.parent[e] = p => e = node \/ e = w
      /\ \A e, d \in M : ~ RedPair(t, M, e, d)
      /\ \A n \in M \ {p} : Even(t, bh, n)
      /\ \A e \in M \cup {Nil} : Height(bh, e) \in Nat
  BY ONLY Beside(t, M, bh, node, p, s, w), <1>1 DEF Beside
<1>3. /\ t1.child = t.child /\ t1.parent = t.parent /\ t1.root = t.root
      /\ \A m \in M : t1.color[m] = IF m = w THEN "red" ELSE IF m = v THEN "black" ELSE t.color[m]
  BY DEF SamePlaces
<1>4. v # Nil /\ t.color[v] = "red"
  BY DEF IsRed
<1>5. /\ b \in M \cup {Nil} /\ b # p /\ b # w /\ v # p /\ v # w /\ v \in M
      /\ v # node
  BY ONLY Shape(t, M, sub), Beside(t, M, bh, node, p, s, w), <1>1, <1>2, <1>4, v = t.child[s][w], BesideChild
<1>6. Only(t, M, w, s, v)
  BY ONLY Shape(t, M, sub), <1>2, <1>4, v = t.child[s][w], ChildOnly
<1>7. /\ v \in TreeNodes /\ v # t.root /\ t.parent[v] = w
      /\ \A x \in Sides, m \in M : t.child[x][m] = v => m = w /\ x = s
  BY ONLY <1>6 DEF Only
<1>8. a \in M \cup {Nil} /\ c \in M \cup {Nil}
  BY ONLY Shape(t, M, sub), <1>1, <1>2, <1>5, HeightNat
<1>9. PICK h \in Nat : /\ Height(bh, node) = h /\ Height(bh, v) = h /\ Height(bh, b) = h
                       /\ Height(bh, a) = h /\ Height(bh, c) = h
                       /\ bh[v] = h /\ bh[w] = h + 1 /\ bh[p] = h + 1 + Weight(t, p)
  <2>1. t.color[w] = "black"
    <3>1. t.color[w] \in {"red", "black"}
      BY <1>2, TreeTyped DEF Shape
    <3> QED  BY ONLY <3>1, <1>2, ~ IsRed(t, w) DEF IsRed
  <2>2. Weight(t, w) = 1 /\ Weight(t, v) = 0
    BY ONLY <1>4, <2>1, WeightIs
  <2>3. EvenSeen(t, bh, w, s) /\ EvenSeen(t, bh, v, s)
    BY ONLY <1>2, <1>5, EvenBoth
  <2>4. /\ Height(bh, v) = Height(bh, b) /\ bh[w] = Height(bh, v) + 1
        /\ Height(bh, a) = Height(bh, c) /\ bh[v] = Height(bh, a) + 0
    BY ONLY <2>2, <2>3, <1>1, v = t.child[s][w] DEF EvenSeen
  <2>5. Height(bh, v) = bh[v] /\ Height(bh, w) = bh[w]
    BY ONLY <1>2, <1>4 DEF Height
  <2>6. /\ Height(bh, w) = Height(bh, node) + 1 /\ bh[p] = Height(bh, w) + Weight(t, p)
    BY ONLY Short(t, bh, node, p, s), <1>1, <1>2 DEF Short
  <2>7. PICK h, k \in Nat : h = Height(bh, node) /\ k = Height(bh, a)
    BY ONLY <1>2, <1>8
  <2>8. Height(bh, v) = k
    BY ONLY <2>4, <2>5, <2>7, k \in Nat
  <2>9. k + 1 = h + 1
    BY ONLY <2>8, <2>4, <2>5, <2>6, <2>7
  <2>10. k = h
    BY ONLY <2>9, h \in Nat, k \in Nat
  <2> QED  BY ONLY <2>4, <2>5, <2>6, <2>7, <2>8, <2>10, h \in Nat
<1>10. PICK bh1 : SetAt(bh, w, h, bh1)
  BY ONLY h \in Nat, <1>2, Updated
<1>11. bh1 \in [TreeNodes -> Nat]
  BY ONLY <1>10 DEF SetAt
<1>12. PICK bh2 : SetAt(bh1, v, h + 1, bh2)
  <2>1. PICK k \in Nat : k = h + 1
    OBVIOUS
  <2>2. \E f : SetAt(bh1, v, k, f)
    BY ONLY k \in Nat, <1>7, <1>11, Updated
  <2> QED  BY ONLY <2>1, <2>2
<1>13. /\ bh2 \in [TreeNodes -> Nat] /\ bh2[w] = h /\ bh2[v] = h + 1 /\ bh2[v] = bh[w]
       /\ \A m \in TreeNodes : m # w /\ m # v => bh2[m] = bh[m]
  BY ONLY <1>2, <1>5, <1>9, <1>10, <1>12 DEF SetAt
<1>14. Evened(t1, w, o, v, M, t2, bh, bh2)
  BY ONLY Shape(t1, M, sub), Around(t1, w, Opp(s), v, M, t2), <1>1, <1>2, <1>13, RotateEven
<1>15. /\ t2.child[o][w] = b /\ t2.child[s][w] = c
       /\ t2.child[o][v] = w /\ t2.child[s][v] = a
       /\ \A x \in Sides, m \in M \ {w, v} : t2.child[x][m] = IF t.child[x][m] = w THEN v ELSE t.child[x][m]
       /\ t2.parent[w] = v /\ t2.parent[v] = p
       /\ \A m \in M \ {w, v} : t2.parent[m] = IF m = c THEN w ELSE t.parent[m]
       /\ t2.root = t.root
       /\ t2.color = t1.color
       /\ a # w /\ a # v /\ b # v /\ c # w /\ c # v
  BY ONLY Around(t1, w, Opp(s), v, M, t2), <1>1, <1>2, <1>3 DEF Around
<1>16. /\ Weight(t1, w) = 0 /\ Weight(t1, v) = 1
       /\ \A m \in M : IsRed(t2, m) <=> m = w \/ (m # v /\ IsRed(t, m))
       /\ ~ IsRed(t2, Nil)
  <2>1. t1.color[w] = "red" /\ t1.color[v] = "black"
    BY ONLY <1>2, <1>3, <1>5
  <2>2. \A m \in M : IsRed(t2, m) <=> m = w \/ (m # v /\ IsRed(t, m))
    BY ONLY <1>2, <1>3, <1>15 DEF IsRed
  <2>3. ~ IsRed(t2, Nil)
    BY DEF IsRed
  <2> QED  BY ONLY <2>1, <2>2, <2>3, WeightIs
<1>17. Even(t2, bh2, w) /\ Even(t2, bh2, v)
  <2>1. t1.child[o][w] = b /\ t1.child[o][v] = c /\ t1.child[Opp(o)][v] = a
    BY ONLY <1>1, <1>2, <1>3
  <2>2. h = h + 0
    BY ONLY h \in Nat
  <2>3. Even(t2, bh2, w)
    BY ONLY <2>1, <2>2, <1>9, <1>13, <1>14, <1>16 DEF Evened
  <2>4. Even(t2, bh2, v)
    BY ONLY <2>1, <1>9, <1>13, <1>14, <1>16 DEF Evened
  <2> QED  BY ONLY <2>3, <2>4
<1>18. ASSUME NEW m \in M, m # p PROVE Even(t2, bh2, m)
  <2>1. CASE m = w \/ m = v
    BY ONLY <2>1, <1>17
  <2>2. CASE m # w /\ m # v
    <3>1. t1.color[m] = t.color[m]
      BY ONLY <2>2, <1>3, m \in M
    <3>2. Even(t, bh, m)
      BY ONLY <1>2, <1>18, m \in M
    <3>3. Even(t1, bh, m)
      BY ONLY <3>1, <3>2, SamePlaces(t, t1), SameEven
    <3> QED  BY ONLY <3>3, <2>2, <1>14, m \in M DEF Evened
  <2> QED  BY <2>1, <2>2
<1>19. t2.child[s][p] = node /\ t2.child[o][p] = v
  BY ONLY <1>2, <1>5, <1>15
<1>20. Short(t2, bh2, node, p, s)
  <2>1. Height(bh2, node) = h
    BY ONLY <1>2, <1>5, <1>9, <1>14 DEF Evened
  <2>2. Height(bh2, v) = h + 1 /\ bh2[p] = h + 1 + Weight(t, p)
    BY ONLY <1>2, <1>4, <1>5, <1>9, <1>13 DEF Height
  <2>3. Weight(t2, p) = Weight(t, p)
    BY ONLY <1>2, <1>3, <1>5, <1>15 DEF Weight
  <2> QED  BY ONLY <2>1, <2>2, <2>3, <1>1, <1>19 DEF Short
<1>21. ~ IsRed(t2, node) /\ ~ IsRed(t2, v) /\ IsRed(t2, w)
  BY ONLY <1>2, <1>5, <1>16
<1>22. ~ IsRed(t2, c) /\ ~ IsRed(t2, b)
  <2>1. c # Nil => ~ IsRed(t, c)
    <3>1. c # Nil => Only(t, M, v, o, c)
      BY ONLY Shape(t, M, sub), <1>1, <1>2, <1>5, ChildOnly
    <3> QED  BY ONLY <3>1, <1>2, <1>5, IsRed(t, v) DEF RedPair, Only
  <2>2. ~ IsRed(t, b)
    BY ONLY <1>1, ~ IsRed(t, t.child[Opp(s)][w])
  <2> QED  BY ONLY <2>1, <2>2, <1>5, <1>8, <1>15, <1>16
<1>23. ASSUME NEW d \in M, NEW e \in M, RedPair(t2, M, d, e) PROVE FALSE
  <2>1. /\ t2.parent[e] = d /\ IsRed(t2, d) /\ IsRed(t2, e)
    BY ONLY <1>23 DEF RedPair
  <2>2. e # w /\ e # v /\ e # c /\ e # b /\ d # v
    BY ONLY <2>1, <1>15, <1>21, <1>22
  <2>3. t.parent[e] = d /\ IsRed(t, e)
    BY ONLY <2>1, <2>2, <1>15, <1>16, e \in M
  <2>4. d # w
    <3> SUFFICES ASSUME d = w PROVE FALSE
      OBVIOUS
    <3>1. e # t.root
      BY ONLY Shape(t, M, sub), e \in M, <1>2, <2>3, d = w, SideTold
    <3>2. SideOf(t, e) \in Sides /\ t.child[SideOf(t, e)][w] = e
      BY ONLY Shape(t, M, sub), e \in M, <3>1, <2>3, d = w, SideTold
    <3> QED  BY ONLY <3>2, <2>2, <1>1, <1>2, v = t.child[s][w]
  <2>5. RedPair(t, M, d, e)
    BY ONLY <2>1, <2>2, <2>3, <2>4, <1>16, d \in M, e \in M DEF RedPair
  <2> QED  BY ONLY <2>5, <1>2, d \in M, e \in M
<1>24. ~ IsRed(t2, t2.root)
  <2>1. t.root \in M \cup {Nil}
    BY DEF Shape
  <2> QED  BY ONLY <2>1, <1>2, <1>15, <1>16
<1>25. Light(t2, M, bh2, node, p)
  BY ONLY <1>2, <1>13, <1>18, <1>20, <1>23, <1>24 DEF Light
<1> QED  BY ONLY <1>1, <1>15, <1>19, <1>21, <1>25

\* The far nephew is red: the last rotation sets all right.
LEMMA LightRotate ==
    ASSUME NEW t, NEW M, NEW sub, Shape(t, M, sub), NEW bh, NEW node, NEW p, NEW s, NEW w,
           Short(t, bh, node, p, s), Beside(t, M, bh, node, p, s, w), ~ IsRed(t, w),
           NEW f, f = t.child[Opp(s)][w], IsRed(t, f),
           NEW t1, SamePlaces(t, t1), Shape(t1, M, sub),
           \A m \in M : t1.color[m] = IF m \in {p, f} THEN "black" ELSE IF m = w THEN t.color[p] ELSE t.color[m],
           NEW t2, Around(t1, p, s, w, M, t2)
    PROVE  /\ \E bh2 : Balanced(t2, M, bh2)
           /\ t2.parent[p] = w /\ t2.parent[f] = w
<1>1. PICK a, o : a = t.child[s][w] /\ o = Opp(s)
  OBVIOUS
<1>2. /\ s \in Sides /\ o \in Sides /\ o # s /\ Opp(o) = s /\ \A x \in Sides : x = s \/ x = o
      /\ bh \in [TreeNodes -> Nat]
      /\ p \in M /\ M \subseteq TreeNodes /\ p # Nil /\ p \in TreeNodes
      /\ t.child[s][p] = node /\ t.child[o][p] = w
      /\ w \in M /\ w # Nil /\ w \in TreeNodes /\ w # p /\ w # node /\ w # t.root /\ t.parent[w] = p
      /\ node # p /\ node \in M \cup {Nil} /\ (node # Nil => t.parent[node] = p)
      /\ ~ IsRed(t, node) /\ ~ IsRed(t, t.root)
      /\ \A e \in M : t.parent[e] = p => e = node \/ e = w
      /\ \A e, d \in M : ~ RedPair(t, M, e, d)
      /\ \A n \in M \ {p} : Even(t, bh, n)
      /\ \A e \in M \cup {Nil} : Height(bh, e) \in Nat
  BY ONLY Beside(t, M, bh, node, p, s, w), <1>1 DEF Beside
<1>3. /\ t1.child = t.child /\ t1.parent = t.parent /\ t1.root = t.root
      /\ \A m \in M : t1.color[m] = IF m \in {p, f} THEN "black" ELSE IF m = w THEN t.color[p] ELSE t.color[m]
  BY DEF SamePlaces
<1>4. f # Nil /\ t.color[f] = "red"
  BY DEF IsRed
<1>5. /\ a \in M \cup {Nil} /\ a # p /\ a # w /\ f # p /\ f # w /\ f \in M /\ f # node
  BY ONLY Shape(t, M, sub), Beside(t, M, bh, node, p, s, w), <1>1, <1>2, <1>4, f = t.child[Opp(s)][w], BesideChild
<1>6. Only(t, M, w, o, f)
  BY ONLY Shape(t, M, sub), <1>1, <1>2, <1>4, f = t.child[Opp(s)][w], ChildOnly
<1>7. /\ f \in TreeNodes /\ f # t.root /\ t.parent[f] = w
      /\ \A x \in Sides, m \in M : t.child[x][m] = f => m = w /\ x = o
  BY ONLY <1>6 DEF Only
<1>8. PICK g, k : g = t.child[s][f] /\ k = t.child[o][f]
  OBVIOUS
<1>9. g \in M \cup {Nil} /\ k \in M \cup {Nil}
  BY ONLY Shape(t, M, sub), <1>2, <1>5, <1>8, HeightNat
<1>10. PICK e : e = Weight(t, p)
  OBVIOUS
<1>11. e \in Nat
  BY ONLY <1>10, WeightIs
<1>12. PICK h \in Nat : /\ Height(bh, node) = h /\ Height(bh, f) = h /\ Height(bh, a) = h
                        /\ Height(bh, g) = h /\ Height(bh, k) = h
                        /\ bh[f] = h /\ bh[w] = h + 1 /\ bh[p] = h + 1 + e
  <2>1. t.color[w] = "black"
    <3>1. t.color[w] \in {"red", "black"}
      BY <1>2, TreeTyped DEF Shape
    <3> QED  BY ONLY <3>1, <1>2, ~ IsRed(t, w) DEF IsRed
  <2>2. Weight(t, w) = 1 /\ Weight(t, f) = 0
    BY ONLY <1>4, <2>1, WeightIs
  <2>3. EvenSeen(t, bh, w, s) /\ EvenSeen(t, bh, f, s)
    BY ONLY <1>2, <1>5, EvenBoth
  <2>4. /\ Height(bh, a) = Height(bh, f) /\ bh[w] = Height(bh, a) + 1
        /\ Height(bh, g) = Height(bh, k) /\ bh[f] = Height(bh, g) + 0
    BY ONLY <2>2, <2>3, <1>1, <1>8, f = t.child[Opp(s)][w] DEF EvenSeen
  <2>5. Height(bh, f) = bh[f] /\ Height(bh, w) = bh[w]
    BY ONLY <1>2, <1>4 DEF Height
  <2>6. /\ Height(bh, w) = Height(bh, node) + 1 /\ bh[p] = Height(bh, w) + e
    BY ONLY Short(t, bh, node, p, s), <1>1, <1>2, <1>10 DEF Short
  <2>7. PICK h, j \in Nat : h = Height(bh, node) /\ j = Height(bh, g)
    BY ONLY <1>2, <1>9
  <2>8. Height(bh, f) = j
    BY ONLY <2>4, <2>5, <2>7, j \in Nat
  <2>9. j + 1 = h + 1
    BY ONLY <2>8, <2>4, <2>5, <2>6, <2>7
  <2>10. j = h
    BY ONLY <2>9, h \in Nat, j \in Nat
  <2> QED  BY ONLY <2>4, <2>5, <2>6, <2>7, <2>8, <2>10, h \in Nat
<1>13. PICK bh0 : SetAt(bh, f, h + 1, bh0)
  <2>1. PICK j \in Nat : j = h + 1
    OBVIOUS
  <2>2. \E x : SetAt(bh, f, j, x)
    BY ONLY j \in Nat, <1>2, <1>7, Updated
  <2> QED  BY ONLY <2>1, <2>2
<1>14. /\ bh0 \in [TreeNodes -> Nat] /\ bh0[f] = h + 1
       /\ \A m \in TreeNodes : m # f => bh0[m] = bh[m]
  BY ONLY <1>13 DEF SetAt
\* The far nephew turns black first: it is a black node higher, and its parent uneven.
<1>15. PICK bh1 : SetAt(bh0, p, h + 1, bh1)
  <2>1. PICK j \in Nat : j = h + 1
    OBVIOUS
  <2>2. \E x : SetAt(bh0, p, j, x)
    BY ONLY j \in Nat, <1>2, <1>14, Updated
  <2> QED  BY ONLY <2>1, <2>2
<1>16. bh1 \in [TreeNodes -> Nat]
  BY ONLY <1>15 DEF SetAt
<1>17. PICK bh2 : SetAt(bh1, w, h + 1 + e, bh2)
  <2>1. PICK j \in Nat : j = h + 1 + e
    BY ONLY h \in Nat, <1>11
  <2>2. \E x : SetAt(bh1, w, j, x)
    BY ONLY j \in Nat, <1>2, <1>16, Updated
  <2> QED  BY ONLY <2>1, <2>2
<1>18. /\ bh2 \in [TreeNodes -> Nat] /\ bh2[p] = h + 1 /\ bh2[w] = h + 1 + e /\ bh2[f] = h + 1
       /\ \A m \in TreeNodes : m # p /\ m # w => bh2[m] = bh0[m]
       /\ bh2[w] = bh0[p]
  BY ONLY <1>2, <1>5, <1>7, <1>12, <1>14, <1>15, <1>17 DEF SetAt
<1>19. Evened(t1, p, s, w, M, t2, bh0, bh2)
  BY ONLY Shape(t1, M, sub), Around(t1, p, s, w, M, t2), <1>2, <1>14, <1>18, RotateEven
<1>20. /\ t2.child[s][p] = node /\ t2.child[o][p] = a
       /\ t2.child[s][w] = p /\ t2.child[o][w] = f
       /\ \A x \in Sides, m \in M \ {p, w} : t2.child[x][m] = IF t.child[x][m] = p THEN w ELSE t.child[x][m]
       /\ t2.parent[p] = w /\ t2.parent[w] = t.parent[p]
       /\ \A m \in M \ {p, w} : t2.parent[m] = IF m = a THEN p ELSE t.parent[m]
       /\ t2.root = (IF t.root = p THEN w ELSE t.root)
       /\ t2.color = t1.color
       /\ a # w /\ a # p
  BY ONLY Around(t1, p, s, w, M, t2), <1>1, <1>2, <1>3, f = t.child[Opp(s)][w] DEF Around
<1>21. /\ Weight(t1, p) = 1 /\ Weight(t1, w) = e /\ Weight(t1, f) = 1
       /\ \A m \in M : IsRed(t2, m) => m # p /\ m # f /\ (m = w => IsRed(t, p)) /\ (m # w => IsRed(t, m))
       /\ ~ IsRed(t2, Nil)
  <2>1. t1.color[p] = "black" /\ t1.color[f] = "black" /\ t1.color[w] = t.color[p]
    BY ONLY <1>2, <1>3, <1>5
  <2>2. Weight(t1, w) = e
    BY ONLY <2>1, <1>10 DEF Weight
  <2>3. ASSUME NEW m \in M, IsRed(t2, m) PROVE m # p /\ m # f /\ (m = w => IsRed(t, p)) /\ (m # w => IsRed(t, m))
    <3>1. t1.color[m] = "red"
      BY ONLY <2>3, <1>20 DEF IsRed
    <3>2. m # p /\ m # f
      BY ONLY <3>1, <2>1
    <3> QED  BY ONLY <3>1, <3>2, <1>2, <1>3, <2>3, m \in M DEF IsRed
  <2>4. ~ IsRed(t2, Nil)
    BY DEF IsRed
  <2> QED  BY ONLY <2>1, <2>2, <2>3, <2>4, WeightIs
<1>22. a # f
  <2> SUFFICES ASSUME a = f PROVE FALSE
    OBVIOUS
  <2> QED  BY ONLY a = f, <1>1, <1>2, <1>7
<1>23. /\ Height(bh0, node) = h /\ Height(bh0, a) = h /\ Height(bh0, f) = h + 1
  BY ONLY <1>2, <1>4, <1>5, <1>12, <1>14, <1>22 DEF Height
<1>24. Even(t2, bh2, p)
  <2>1. t1.child[s][p] = node /\ t1.child[s][w] = a
    BY ONLY <1>1, <1>2, <1>3
  <2> QED  BY ONLY <2>1, <1>18, <1>19, <1>21, <1>23 DEF Evened
<1>25. Even(t2, bh2, w)
  <2>1. t1.child[Opp(s)][w] = f
    BY ONLY <1>3, f = t.child[Opp(s)][w]
  <2> QED  BY ONLY <2>1, <1>18, <1>19, <1>21, <1>23 DEF Evened
<1>26. Even(t2, bh2, f)
  <2>1. /\ g # f /\ g # w /\ g # p /\ k # f /\ k # w /\ k # p
    <3>1. g # Nil => Only(t, M, f, s, g)
      BY ONLY Shape(t, M, sub), <1>2, <1>5, <1>8, ChildOnly
    <3>2. k # Nil => Only(t, M, f, o, k)
      BY ONLY Shape(t, M, sub), <1>2, <1>5, <1>8, ChildOnly
    <3>3. t.parent[p] # f
      <4>1. p = t.root => t.parent[p] = Nil
        BY ONLY Shape(t, M, sub), <1>2, SideTold
      <4>2. ASSUME t.parent[p] = f PROVE FALSE
        <5>1. p # t.root
          BY ONLY <4>1, <4>2, <1>4
        <5>2. PICK y \in Sides : t.child[y][f] = p
          BY ONLY Shape(t, M, sub), <1>2, <4>2, <5>1, SideTold
        <5>3. p \in sub[p] /\ Below(sub, t.child[y][f]) \subseteq sub[f]
          BY ONLY Shape(t, M, sub), <1>2, <1>5, y \in Sides, Apart
        <5>4. p \in sub[f]
          BY ONLY <5>2, <5>3, <1>2 DEF Below
        <5>5. f \in sub[f] /\ Below(sub, t.child[o][w]) \subseteq sub[w]
          BY ONLY Shape(t, M, sub), <1>2, <1>5, Apart
        <5>6. f \in sub[w]
          BY ONLY <5>5, <1>1, <1>4, f = t.child[Opp(s)][w] DEF Below
        <5>7. p \in sub[w]
          BY ONLY Shape(t, M, sub), <5>4, <5>6, <1>2, BelowBelow
        <5>8. w \in sub[w] /\ Below(sub, t.child[o][p]) \subseteq sub[p]
          BY ONLY Shape(t, M, sub), <1>2, Apart
        <5>9. w \in sub[p]
          BY ONLY <5>8, <1>2 DEF Below
        <5>10. p = w
          BY ONLY Shape(t, M, sub), <1>2, <5>7, <5>9, BelowBelow
        <5> QED  BY ONLY <5>10, <1>2
      <4> QED  BY ONLY <4>2
    <3> QED  BY ONLY <3>1, <3>2, <3>3, <1>2, <1>4, <1>5, <1>9 DEF Only
  <2>2. t2.child[s][f] = g /\ t2.child[o][f] = k
    BY ONLY <2>1, <1>2, <1>5, <1>8, <1>20
  <2>3. Height(bh2, g) = h /\ Height(bh2, k) = h
    BY ONLY <2>1, <1>2, <1>9, <1>12, <1>14, <1>18 DEF Height
  <2>4. Weight(t2, f) = 1
    BY ONLY <1>20, <1>21 DEF Weight
  <2>5. EvenSeen(t2, bh2, f, s)
    BY ONLY <2>2, <2>3, <2>4, <1>1, <1>18 DEF EvenSeen
  <2> QED  BY ONLY <2>5, <1>2, EvenFrom
<1>27. ASSUME NEW m \in M, m # p, m # w, m # f PROVE Even(t2, bh2, m)
  <2>1. Even(t, bh, m)
    BY ONLY <1>2, <1>27, m \in M
  <2>2. \A x \in Sides : t.child[x][m] # f /\ t.child[x][m] \in M \cup {Nil}
    BY ONLY Shape(t, M, sub), <1>2, <1>7, <1>27, m \in M, HeightNat
  <2>3. \A x \in Sides : Height(bh0, t.child[x][m]) = Height(bh, t.child[x][m])
    BY ONLY <2>2, <1>2, <1>14 DEF Height
  <2>4. bh0[m] = bh[m] /\ Weight(t1, m) = Weight(t, m)
    BY ONLY <1>2, <1>3, <1>14, <1>27, m \in M DEF Weight
  <2>5. Even(t1, bh0, m)
    BY ONLY <2>1, <2>3, <2>4, <1>3 DEF Even, Sides
  <2> QED  BY ONLY <2>5, <1>27, <1>19, m \in M DEF Evened
<1>28. \A m \in M : Even(t2, bh2, m)
  BY ONLY <1>24, <1>25, <1>26, <1>27
<1>29. ASSUME NEW c \in M, NEW d \in M, RedPair(t2, M, c, d) PROVE FALSE
  <2>1. t2.parent[d] = c /\ IsRed(t2, c) /\ IsRed(t2, d)
    BY ONLY <1>29 DEF RedPair
  <2>2. c # p /\ c # f /\ d # p /\ d # f
    BY ONLY <2>1, <1>21, c \in M, d \in M
  <2>3. CASE d = w
    <3>1. t.parent[p] = c /\ IsRed(t, p)
      BY ONLY <2>1, <2>3, <1>20, <1>21, <1>2
    <3>2. c # w
      <4>1. t.parent[p] # w
        <5> SUFFICES ASSUME t.parent[p] = w PROVE FALSE
          OBVIOUS
        <5>1. p # t.root
          BY ONLY Shape(t, M, sub), <1>2, t.parent[p] = w, SideTold
        <5>2. PICK y \in Sides : t.child[y][w] = p
          BY ONLY Shape(t, M, sub), <1>2, t.parent[p] = w, <5>1, SideTold
        <5> QED  BY ONLY Shape(t, M, sub), Beside(t, M, bh, node, p, s, w), <5>2, BesideChild
      <4> QED  BY ONLY <4>1, <3>1
    <3>3. IsRed(t, c)
      BY ONLY <2>1, <3>2, <1>21, c \in M
    <3>4. RedPair(t, M, c, p)
      BY ONLY <3>1, <3>3, <1>2, c \in M DEF RedPair
    <3> QED  BY ONLY <3>4, <1>2, c \in M
  <2>4. CASE d # w
    <3>1. IsRed(t, d)
      BY ONLY <2>1, <2>4, <1>21, d \in M
    <3>2. t.parent[d] = c
      BY ONLY <2>1, <2>2, <2>4, <1>20, d \in M
    <3>3. c # w
      <4> SUFFICES ASSUME c = w PROVE FALSE
        OBVIOUS
      <4>1. d # t.root
        BY ONLY Shape(t, M, sub), d \in M, <1>2, <3>2, c = w, SideTold
      <4>2. SideOf(t, d) \in Sides /\ t.child[SideOf(t, d)][w] = d
        BY ONLY Shape(t, M, sub), d \in M, <4>1, <3>2, c = w, SideTold
      <4>3. d = a \/ d = f
        BY ONLY <4>2, <1>1, <1>2, f = t.child[Opp(s)][w]
      <4>4. d = a
        BY ONLY <4>3, <2>2
      <4>5. t2.parent[d] = p
        BY ONLY <4>4, <1>20, <2>2, <2>4, d \in M
      <4> QED  BY ONLY <4>5, <2>1, <2>2
    <3>4. IsRed(t, c)
      BY ONLY <2>1, <3>3, <1>21, c \in M
    <3>5. RedPair(t, M, c, d)
      BY ONLY <3>1, <3>2, <3>4, c \in M, d \in M DEF RedPair
    <3> QED  BY ONLY <3>5, <1>2, c \in M, d \in M
  <2> QED  BY ONLY <2>3, <2>4
<1>30. ~ IsRed(t2, t2.root)
  <2>1. t.root \in M \cup {Nil}
    BY DEF Shape
  <2>2. CASE t.root = p
    BY ONLY <2>2, <1>2, <1>20, <1>21
  <2>3. CASE t.root # p
    BY ONLY <2>1, <2>3, <1>2, <1>20, <1>21
  <2> QED  BY ONLY <2>2, <2>3
<1>31. Balanced(t2, M, bh2)
  BY ONLY <1>18, <1>28, <1>29, <1>30 DEF Balanced
<1>32. t2.parent[f] = w
  BY ONLY <1>2, <1>5, <1>7, <1>20, <1>22
<1> QED  BY ONLY <1>20, <1>31, <1>32

-----------------------------------------------------------------------------
(* Where the colours start from, and where they end.                        *)

\* Nil is not red.
LEMMA NilBlack == \A t : ~ IsRed(t, Nil)
BY DEF IsRed

\* A new leaf is red, at height 0.
LEMMA AddGrown ==
    ASSUME NEW t, NEW M, NEW sub, Shape(t, M, sub), NEW bh, Balanced(t, M, bh),
           NEW n \in TreeNodes \ M, NEW p, Vacant(t, M, sub, n, p),
           NEW t2, Added(t, n, p, Branch(n, p), t2)
    PROVE  \E bh2 : Grown(t2, M \cup {n}, bh2, n)
<1>1. /\ bh \in [TreeNodes -> Nat] /\ \A m \in M : Even(t, bh, m)
      /\ \A a, b \in M : ~ RedPair(t, M, a, b)
      /\ ~ IsRed(t, t.root)
  BY DEF Balanced
<1>2. PICK x : x = Branch(n, p)
  OBVIOUS
<1>3. /\ t2.root = IF p = Nil THEN n ELSE t.root
      /\ \A y \in Sides, m \in TreeNodes :
           t2.child[y][m] = IF m = n THEN Nil ELSE IF m = p /\ y = x THEN n ELSE t.child[y][m]
      /\ \A m \in TreeNodes : t2.parent[m] = IF m = n THEN p ELSE t.parent[m]
      /\ \A m \in TreeNodes : t2.color[m] = IF m = n THEN "red" ELSE t.color[m]
  BY ONLY Added(t, n, p, Branch(n, p), t2), <1>2 DEF Added
<1>4. n \in TreeNodes /\ n \notin M /\ n # Nil /\ M \subseteq TreeNodes /\ t.root \in M \cup {Nil} /\ Nil \notin M
  BY NodeKeys DEF Shape
<1>5. p = Nil \/ (p \in M /\ t.child[x][p] = Nil)
  BY ONLY Vacant(t, M, sub, n, p), <1>2 DEF Vacant
<1>6. PICK bh2 : SetAt(bh, n, 0, bh2)
  <2>1. 0 \in Nat
    OBVIOUS
  <2> QED  BY ONLY <2>1, <1>1, <1>4, Updated
<1>7. bh2 \in [TreeNodes -> Nat] /\ bh2[n] = 0 /\ \A m \in TreeNodes : m # n => bh2[m] = bh[m]
  BY ONLY <1>6 DEF SetAt
<1>8. Even(t2, bh2, n)
  <2>1. t2.child["left"][n] = Nil /\ t2.child["right"][n] = Nil
    BY ONLY <1>3, <1>4 DEF Sides
  <2>2. Weight(t2, n) = 0
    BY ONLY <1>3, <1>4, WeightIs
  <2>3. 0 = 0 + 0
    OBVIOUS
  <2> QED  BY ONLY <2>1, <2>2, <2>3, <1>7 DEF Even, Height
<1>9. ASSUME NEW m \in M PROVE Even(t2, bh2, m)
  <2>1. ASSUME NEW y \in Sides PROVE Height(bh2, t2.child[y][m]) = Height(bh, t.child[y][m])
    <3>1. t.child[y][m] \in M \cup {Nil}
      BY DEF Shape, Placed
    <3>2. t2.child[y][m] = IF m = p /\ y = x THEN n ELSE t.child[y][m]
      BY ONLY <1>3, <1>4, m \in M, y \in Sides
    <3>3. CASE m = p /\ y = x
      <4>1. t2.child[y][m] = n /\ t.child[y][m] = Nil
        BY ONLY <3>2, <3>3, <1>4, <1>5, m \in M
      <4> QED  BY ONLY <4>1, <1>4, <1>7 DEF Height
    <3>4. CASE ~ (m = p /\ y = x)
      BY ONLY <3>1, <3>2, <3>4, <1>4, <1>7 DEF Height
    <3> QED  BY ONLY <3>3, <3>4
  <2>2. bh2[m] = bh[m] /\ Weight(t2, m) = Weight(t, m)
    BY ONLY <1>3, <1>4, <1>7, m \in M DEF Weight
  <2>3. Even(t, bh, m)
    BY ONLY <1>1, m \in M
  <2> QED  BY ONLY <2>1, <2>2, <2>3 DEF Even, Sides
<1>10. ASSUME NEW a \in M \cup {n}, NEW b \in M \cup {n}, RedPair(t2, M \cup {n}, a, b) PROVE b = n
  <2> SUFFICES ASSUME b # n PROVE FALSE
    OBVIOUS
  <2>1. t2.parent[b] = a /\ IsRed(t2, a) /\ IsRed(t2, b)
    BY ONLY <1>10 DEF RedPair
  <2>2. b \in M /\ t.parent[b] = a /\ IsRed(t, b)
    BY ONLY <2>1, b # n, <1>3, <1>4, b \in M \cup {n} DEF IsRed
  <2>3. t.parent[b] \in M \cup {Nil}
    BY ONLY Shape(t, M, sub), <2>2, SideTold
  <2>4. a \in M
    BY ONLY <2>2, <2>3, <2>1, NilBlack
  <2>5. IsRed(t, a)
    BY ONLY <2>1, <2>4, <1>3, <1>4 DEF IsRed
  <2>6. RedPair(t, M, a, b)
    BY ONLY <2>2, <2>4, <2>5 DEF RedPair
  <2> QED  BY ONLY <2>2, <2>4, <2>6, <1>1
<1>11. IsRed(t2, t2.root) => t2.root = n
  <2>1. t.root = n => t.root = n
    OBVIOUS
  <2>2. t.root \in M => ~ IsRed(t2, t.root)
    BY ONLY <1>1, <1>3, <1>4 DEF IsRed
  <2> QED  BY ONLY <2>2, <1>3, <1>4, NilBlack
<1>12. IsRed(t2, n)
  BY ONLY <1>3, <1>4 DEF IsRed
<1>13. Grown(t2, M \cup {n}, bh2, n)
  BY ONLY <1>7, <1>8, <1>9, <1>10, <1>11, <1>12 DEF Grown
<1> QED  BY ONLY <1>13

\* What is left wrong at the root is set right when it turns black.
LEMMA RootedPaint ==
    ASSUME NEW t, NEW M, NEW sub, Shape(t, M, sub), NEW bh, Rooted(t, M, bh),
           NEW t2, Painted(t, t.root, "black", t2)
    PROVE  \E bh2 : Balanced(t2, M, bh2)
<1>1. /\ bh \in [TreeNodes -> Nat] /\ \A n \in M : Even(t, bh, n)
      /\ \A a, b \in M : RedPair(t, M, a, b) => a = t.root
  BY ONLY Rooted(t, M, bh) DEF Rooted
<1>2. /\ t2.child = t.child /\ t2.parent = t.parent /\ t2.root = t.root
      /\ \A m \in TreeNodes : t2.color[m] = IF m = t.root THEN "black" ELSE t.color[m]
  BY ONLY Painted(t, t.root, "black", t2) DEF Painted
<1>3. PICK r : r = t.root
  OBVIOUS
<1>4. r \in M \cup {Nil} /\ M \subseteq TreeNodes /\ Nil \notin M
  BY <1>3, NodeKeys DEF Shape
<1>5. ASSUME NEW a \in M, NEW b \in M, RedPair(t2, M, a, b) PROVE FALSE
  <2>1. RedPair(t, M, a, b) /\ a # r
    BY ONLY <1>2, <1>3, <1>4, <1>5, a \in M, b \in M DEF RedPair, IsRed
  <2> QED  BY ONLY <2>1, <1>1, <1>3, a \in M, b \in M
<1>6. ~ IsRed(t2, t2.root)
  BY ONLY <1>2, <1>3, <1>4 DEF IsRed
<1>7. CASE r = Nil
  <2>1. \A n \in M : Even(t2, bh, n)
    <3> SUFFICES ASSUME NEW n \in M PROVE Even(t2, bh, n)
      OBVIOUS
    <3>1. t2.color[n] = t.color[n]
      BY ONLY <1>2, <1>3, <1>4, <1>7, n \in M
    <3> QED  BY ONLY <3>1, <1>1, <1>2, n \in M, SameEven DEF SamePlaces
  <2>2. Balanced(t2, M, bh)
    BY ONLY <2>1, <1>1, <1>5, <1>6 DEF Balanced
  <2> QED  BY ONLY <2>2
<1>8. CASE r # Nil
  <2>1. r \in M /\ r \in TreeNodes
    BY ONLY <1>4, <1>8
  <2>2. PICK h \in Nat : h = Height(bh, t.child["left"][r])
    <3>1. "left" \in Sides
      BY DEF Sides
    <3> QED  BY ONLY <3>1, Shape(t, M, sub), <2>1, <1>1, HeightNat
  <2>3. PICK bh2 : SetAt(bh, r, h + 1, bh2)
    <3>1. PICK k \in Nat : k = h + 1
      OBVIOUS
    <3>2. \E f : SetAt(bh, r, k, f)
      BY ONLY k \in Nat, <1>1, <2>1, Updated
    <3> QED  BY ONLY <3>1, <3>2
  <2>4. bh2 \in [TreeNodes -> Nat] /\ bh2[r] = h + 1 /\ \A m \in TreeNodes : m # r => bh2[m] = bh[m]
    BY ONLY <2>3 DEF SetAt
  <2>5. \A n \in M, x \in Sides : Height(bh2, t2.child[x][n]) = Height(bh, t.child[x][n])
    <3> SUFFICES ASSUME NEW n \in M, NEW x \in Sides
                 PROVE  Height(bh2, t2.child[x][n]) = Height(bh, t.child[x][n])
      OBVIOUS
    <3>1. t.child[x][n] \in M \cup {Nil}
      BY ONLY Shape(t, M, sub), <1>1, n \in M, x \in Sides, HeightNat
    <3>2. t.child[x][n] # r
      <4>1. t.child[x][n] # Nil => Only(t, M, n, x, t.child[x][n])
        BY ONLY Shape(t, M, sub), n \in M, x \in Sides, ChildOnly
      <4> QED  BY ONLY <4>1, <1>3, <1>8 DEF Only
    <3> QED  BY ONLY <3>1, <3>2, <1>2, <1>4, <2>4 DEF Height
  <2>6. ASSUME NEW n \in M PROVE Even(t2, bh2, n)
    <3>1. Even(t, bh, n)
      BY ONLY <1>1, n \in M
    <3>2. CASE n = r
      <4>1. Weight(t2, r) = 1
        BY ONLY <1>2, <1>3, <2>1, WeightIs
      <4> QED  BY ONLY <4>1, <3>1, <3>2, <2>1, <2>2, <2>4, <2>5 DEF Even, Sides
    <3>3. CASE n # r
      <4>1. Weight(t2, n) = Weight(t, n) /\ bh2[n] = bh[n]
        BY ONLY <3>3, <1>2, <1>3, <1>4, <2>4, n \in M DEF Weight
      <4> QED  BY ONLY <4>1, <3>1, <2>5, n \in M DEF Even, Sides
    <3> QED  BY ONLY <3>2, <3>3
  <2>7. Balanced(t2, M, bh2)
    BY ONLY <2>4, <2>6, <1>5, <1>6 DEF Balanced
  <2> QED  BY ONLY <2>7
<1> QED  BY ONLY <1>7, <1>8

\* So it is when an insertion ends.
LEMMA GrownDone ==
    ASSUME NEW t, NEW M, NEW sub, Shape(t, M, sub), NEW bh, NEW node, Grown(t, M, bh, node),
           ~ IsRed(t, t.parent[node]), NEW t2, Painted(t, t.root, "black", t2)
    PROVE  \E bh2 : Balanced(t2, M, bh2)
<1>1. Rooted(t, M, bh)
  BY DEF Rooted, Grown, RedPair
<1> QED  BY ONLY Shape(t, M, sub), <1>1, Painted(t, t.root, "black", t2), RootedPaint

\* A removal ends at a red node.
LEMMA LightPaint ==
    ASSUME NEW t, NEW M, NEW sub, Shape(t, M, sub), NEW bh, NEW node, NEW p, Light(t, M, bh, node, p),
           IsRed(t, node), NEW t2, Painted(t, node, "black", t2)
    PROVE  \E bh2 : Balanced(t2, M, bh2)
<1>1. /\ p \in M /\ bh \in [TreeNodes -> Nat]
      /\ \A n \in M \ {p} : Even(t, bh, n)
      /\ \A a, b \in M : RedPair(t, M, a, b) => node \in {a, b}
      /\ ~ IsRed(t, t.root)
  BY ONLY Light(t, M, bh, node, p) DEF Light
<1>2. PICK s \in Sides : Short(t, bh, node, p, s)
  BY ONLY Light(t, M, bh, node, p) DEF Light
<1>3. PICK o, w : o = Opp(s) /\ w = t.child[Opp(s)][p]
  OBVIOUS
<1>4. /\ t.child[s][p] = node /\ Height(bh, w) = Height(bh, node) + 1
      /\ bh[p] = Height(bh, w) + Weight(t, p)
  BY ONLY <1>2, <1>3 DEF Short
<1>5. node # Nil /\ t.color[node] = "red" /\ M \subseteq TreeNodes /\ o \in Sides /\ o # s
  BY <1>3, Opposite DEF IsRed, Shape
<1>6. Only(t, M, p, s, node)
  BY ONLY Shape(t, M, sub), <1>1, <1>4, <1>5, s \in Sides, ChildOnly
<1>7. /\ node \in M /\ node # p /\ node \in TreeNodes /\ t.parent[node] = p
      /\ \A x \in Sides, m \in M : t.child[x][m] = node => m = p /\ x = s
  BY ONLY <1>6 DEF Only
<1>8. /\ t2.child = t.child /\ t2.parent = t.parent /\ t2.root = t.root
      /\ \A m \in TreeNodes : t2.color[m] = IF m = node THEN "black" ELSE t.color[m]
  BY ONLY Painted(t, node, "black", t2) DEF Painted
<1>9. PICK h \in Nat : h = bh[node]
  BY ONLY <1>1, <1>7
<1>10. PICK bh2 : SetAt(bh, node, h + 1, bh2)
  <2>1. PICK k \in Nat : k = h + 1
    OBVIOUS
  <2>2. \E f : SetAt(bh, node, k, f)
    BY ONLY k \in Nat, <1>1, <1>7, Updated
  <2> QED  BY ONLY <2>1, <2>2
<1>11. bh2 \in [TreeNodes -> Nat] /\ bh2[node] = h + 1 /\ \A m \in TreeNodes : m # node => bh2[m] = bh[m]
  BY ONLY <1>10 DEF SetAt
<1>12. \A n \in M, x \in Sides : n # p \/ x # s => Height(bh2, t.child[x][n]) = Height(bh, t.child[x][n])
  <2> SUFFICES ASSUME NEW n \in M, NEW x \in Sides, n # p \/ x # s
               PROVE  Height(bh2, t.child[x][n]) = Height(bh, t.child[x][n])
    OBVIOUS
  <2>1. t.child[x][n] \in M \cup {Nil}
    BY ONLY Shape(t, M, sub), <1>1, n \in M, x \in Sides, HeightNat
  <2>2. t.child[x][n] # node
    BY ONLY <1>7, n \in M, x \in Sides, n # p \/ x # s
  <2> QED  BY ONLY <2>1, <2>2, <1>5, <1>11 DEF Height
<1>13. Even(t2, bh2, p)
  <2>1. Height(bh, node) = h /\ Height(bh2, node) = h + 1
    BY ONLY <1>5, <1>9, <1>11 DEF Height
  <2>2. Height(bh2, w) = Height(bh, w)
    BY ONLY <1>1, <1>3, <1>5, <1>12
  <2>3. bh2[p] = bh[p] /\ Weight(t2, p) = Weight(t, p)
    BY ONLY <1>1, <1>5, <1>7, <1>8, <1>11 DEF Weight
  <2>4. EvenSeen(t2, bh2, p, s)
    BY ONLY <2>1, <2>2, <2>3, <1>3, <1>4, <1>8 DEF EvenSeen
  <2> QED  BY ONLY <2>4, s \in Sides, EvenFrom
<1>14. ASSUME NEW n \in M, n # p PROVE Even(t2, bh2, n)
  <2>1. EvenSeen(t, bh, n, s)
    BY ONLY <1>1, <1>14, n \in M, s \in Sides, EvenFrom
  <2>2. /\ Height(bh2, t.child[s][n]) = Height(bh, t.child[s][n])
        /\ Height(bh2, t.child[o][n]) = Height(bh, t.child[o][n])
    BY ONLY <1>5, <1>12, <1>14, n \in M, s \in Sides
  <2>3. PICK k \in Nat : k = Height(bh, t.child[s][n])
    BY ONLY Shape(t, M, sub), <1>1, n \in M, s \in Sides, HeightNat
  <2>4. bh2[n] = k + Weight(t2, n)
    <3>1. CASE n = node
      <4>1. Weight(t, n) = 0 /\ Weight(t2, n) = 1
        BY ONLY <3>1, <1>5, <1>7, <1>8, WeightIs
      <4>2. bh[n] = k + 0
        BY ONLY <2>1, <2>3, <4>1 DEF EvenSeen
      <4>3. h = k
        BY ONLY <4>2, <3>1, <1>9, k \in Nat
      <4> QED  BY ONLY <4>1, <4>3, <3>1, <1>11
    <3>2. CASE n # node
      <4>1. Weight(t2, n) = Weight(t, n) /\ bh2[n] = bh[n]
        BY ONLY <3>2, <1>5, <1>8, <1>11, n \in M DEF Weight
      <4> QED  BY ONLY <4>1, <2>1, <2>3 DEF EvenSeen
    <3> QED  BY ONLY <3>1, <3>2
  <2>5. EvenSeen(t2, bh2, n, s)
    BY ONLY <2>1, <2>2, <2>3, <2>4, <1>3, <1>8 DEF EvenSeen
  <2> QED  BY ONLY <2>5, s \in Sides, EvenFrom
<1>15. ASSUME NEW a \in M, NEW b \in M, RedPair(t2, M, a, b) PROVE FALSE
  <2>1. RedPair(t, M, a, b) /\ a # node /\ b # node
    BY ONLY <1>5, <1>8, <1>15, a \in M, b \in M DEF RedPair, IsRed
  <2> QED  BY ONLY <2>1, <1>1, a \in M, b \in M
<1>16. ~ IsRed(t2, t2.root)
  <2>1. t.root \in M \cup {Nil}
    BY DEF Shape
  <2> QED  BY ONLY <2>1, <1>1, <1>5, <1>8 DEF IsRed
<1>17. Balanced(t2, M, bh2)
  BY ONLY <1>11, <1>13, <1>14, <1>15, <1>16 DEF Balanced
<1> QED  BY ONLY <1>17

\* When a node has gone: nothing is wrong if it was red, otherwise its place is short.
RemovedAs(t, M, bh, y, c, p, t1) ==
    /\ IsRed(t, y) => Balanced(t1, M, bh)
    /\ ~ IsRed(t, y) /\ y = t.root => Rooted(t1, M, bh) /\ t1.root = c
    /\ ~ IsRed(t, y) /\ y # t.root => Light(t1, M, bh, c, p) /\ t1.root # c

\* Unlinking a node does that.
LEMMA RemovedColors ==
    ASSUME NEW t, NEW M, NEW sub, Shape(t, M, sub), NEW bh, Balanced(t, M, bh),
           NEW y \in M, NEW s \in Sides, NEW c, c = t.child[s][y], t.child[Opp(s)][y] = Nil,
           NEW t1, Removed(t, y, c, M, t1)
    PROVE  RemovedAs(t, M \ {y}, bh, y, c, t.parent[y], t1)
<1> SUFFICES /\ IsRed(t, y) => Balanced(t1, M \ {y}, bh)
             /\ ~ IsRed(t, y) /\ y = t.root => Rooted(t1, M \ {y}, bh) /\ t1.root = c
             /\ ~ IsRed(t, y) /\ y # t.root => Light(t1, M \ {y}, bh, c, t.parent[y]) /\ t1.root # c
  BY DEF RemovedAs
<1>1. /\ bh \in [TreeNodes -> Nat] /\ \A m \in M : Even(t, bh, m)
      /\ \A a, b \in M : ~ RedPair(t, M, a, b)
      /\ ~ IsRed(t, t.root)
  BY DEF Balanced
<1>2. /\ t1.color = t.color
      /\ t1.root = IF t.root = y THEN c ELSE t.root
      /\ \A x \in Sides, m \in TreeNodes :
           t1.child[x][m] = IF m \in M /\ t.child[x][m] = y THEN c ELSE t.child[x][m]
      /\ \A m \in TreeNodes : t1.parent[m] = IF m = c THEN t.parent[y] ELSE t.parent[m]
  BY ONLY Removed(t, y, c, M, t1) DEF Removed
<1>3. M \subseteq TreeNodes /\ Nil \notin M /\ t.root \in M \cup {Nil} /\ y # Nil /\ y \in TreeNodes
  BY NodeKeys DEF Shape
<1>4. c \in M \cup {Nil}
  BY ONLY Shape(t, M, sub), <1>1, y \in M, s \in Sides, c = t.child[s][y], HeightNat
<1>5. c # Nil => Only(t, M, y, s, c)
  BY ONLY Shape(t, M, sub), y \in M, s \in Sides, c = t.child[s][y], ChildOnly
<1>6. c # Nil => c # y /\ c # t.root /\ t.parent[c] = y
  BY ONLY <1>5 DEF Only
<1>7. PICK M1 : M1 = M \ {y}
  OBVIOUS
<1>8. PICK e : e = Weight(t, y)
  OBVIOUS
<1>9. Height(bh, c) = 0 /\ bh[y] = e /\ e \in Nat
  <2>1. EvenSeen(t, bh, y, s)
    BY ONLY <1>1, y \in M, s \in Sides, EvenFrom
  <2>2. Height(bh, c) = 0
    BY ONLY <2>1, c = t.child[s][y], t.child[Opp(s)][y] = Nil DEF EvenSeen, Height
  <2>3. bh[y] = 0 + e /\ e \in Nat
    BY ONLY <2>1, <2>2, <1>8, c = t.child[s][y], WeightIs DEF EvenSeen
  <2> QED  BY ONLY <2>2, <2>3
\* Only the parent of y sees a difference.
<1>10. ASSUME NEW m \in M1, NEW x \in Sides
       PROVE  /\ t1.child[x][m] = IF t.child[x][m] = y THEN c ELSE t.child[x][m]
              /\ t.child[x][m] \in M \cup {Nil}
              /\ t.child[x][m] = y => y # t.root /\ m = t.parent[y]
  <2>1. m \in M /\ m \in TreeNodes
    BY ONLY <1>3, <1>7, m \in M1
  <2>2. t.child[x][m] \in M \cup {Nil}
    BY ONLY Shape(t, M, sub), <1>1, <2>1, x \in Sides, HeightNat
  <2>3. t.child[x][m] # Nil => Only(t, M, m, x, t.child[x][m])
    BY ONLY Shape(t, M, sub), <2>1, x \in Sides, ChildOnly
  <2> QED  BY ONLY <2>1, <2>2, <2>3, <1>2, <1>3, x \in Sides DEF Only
<1>11. ASSUME NEW m \in M1, \A x \in Sides : t.child[x][m] # y PROVE Even(t1, bh, m)
  <2>1. Even(t, bh, m)
    BY ONLY <1>1, <1>7, m \in M1
  <2>2. \A x \in Sides : t1.child[x][m] = t.child[x][m]
    BY ONLY <1>10, <1>11, m \in M1
  <2> QED  BY ONLY <2>1, <2>2, <1>2 DEF Even, Sides, Weight
<1>12. ASSUME NEW a \in M1, NEW b \in M1, RedPair(t1, M1, a, b)
       PROVE  b = c /\ c # Nil /\ IsRed(t, c) /\ IsRed(t, t.parent[y]) /\ t.parent[y] # Nil
  <2>1. t1.parent[b] = a /\ IsRed(t, a) /\ IsRed(t, b) /\ a \in M /\ b \in M /\ b \in TreeNodes /\ a # Nil
    BY ONLY <1>2, <1>3, <1>7, <1>12, a \in M1, b \in M1 DEF RedPair, IsRed
  <2>2. b = c
    <3> SUFFICES ASSUME b # c PROVE FALSE
      OBVIOUS
    <3>1. RedPair(t, M, a, b)
      BY ONLY <2>1, b # c, <1>2 DEF RedPair
    <3> QED  BY ONLY <3>1, <1>1, <2>1
  <2> QED  BY ONLY <2>1, <2>2, <1>2, <1>3
<1>13. ~ IsRed(t1, t1.root) \/ (y = t.root /\ t1.root = c)
  BY ONLY <1>1, <1>2 DEF IsRed
<1>14. CASE y = t.root
  <2>1. t.parent[y] = Nil
    BY ONLY Shape(t, M, sub), y \in M, <1>14, SideTold
  <2>2. \A m \in M1 : Even(t1, bh, m)
    BY ONLY <1>10, <1>11, <1>14
  <2>3. Rooted(t1, M1, bh)
    BY ONLY <2>1, <2>2, <1>1, <1>12 DEF Rooted, RedPair
  <2>4. ~ IsRed(t, y)
    BY ONLY <1>1, <1>14
  <2> QED  BY ONLY <2>3, <2>4, <1>2, <1>7, <1>14
<1>15. CASE y # t.root
  <2>1. PICK q : q = t.parent[y]
    OBVIOUS
  <2>2. q \in M /\ q # y /\ \E x \in Sides : t.child[x][q] = y
    BY ONLY Shape(t, M, sub), y \in M, <1>15, <2>1, SideTold
  <2>3. PICK x \in Sides : t.child[x][q] = y
    BY ONLY <2>2
  <2>4. Only(t, M, q, x, y)
    BY ONLY Shape(t, M, sub), <2>2, <2>3, <1>3, x \in Sides, ChildOnly
  <2>5. Opp(x) \in Sides /\ Opp(x) # x
    BY ONLY x \in Sides, Opposite
  <2>6. t.child[Opp(x)][q] # y /\ q \in M1
    BY ONLY <2>2, <2>4, <2>5, <1>7 DEF Only
  <2>7. PICK d : d = t.child[Opp(x)][q]
    OBVIOUS
  <2>8. t1.child[x][q] = c /\ t1.child[Opp(x)][q] = d
    BY ONLY <2>3, <2>5, <2>6, <2>7, <1>10, x \in Sides
  <2>9. EvenSeen(t, bh, q, x)
    BY ONLY <2>2, <1>1, x \in Sides, EvenFrom
  <2>10. Height(bh, d) = e /\ bh[q] = e + Weight(t, q) /\ Weight(t1, q) = Weight(t, q)
    BY ONLY <2>3, <2>7, <2>9, <1>2, <1>3, <1>9 DEF EvenSeen, Height, Weight
  <2>11. \A m \in M1 \ {q} : Even(t1, bh, m)
    BY ONLY <2>1, <1>10, <1>11
  <2>12. t.root # Nil
    <3>1. t.root = Nil => M = {}
      BY DEF Shape, Below
    <3> QED  BY ONLY <3>1, y \in M
  <2>13. t1.root = t.root /\ t1.root # c /\ ~ IsRed(t1, t1.root)
    BY ONLY <2>12, <1>2, <1>6, <1>13, <1>15
  <2>14. CASE IsRed(t, y)
    <3>1. e = 0
      BY ONLY <2>14, <1>8, WeightIs DEF IsRed
    <3>2. EvenSeen(t1, bh, q, x)
      BY ONLY <3>1, <2>7, <2>8, <2>10, <1>9 DEF EvenSeen
    <3>3. Even(t1, bh, q)
      BY ONLY <3>2, x \in Sides, EvenFrom
    <3>4. ~ IsRed(t, q)
      BY ONLY <2>1, <2>2, <2>14, <1>1, y \in M DEF RedPair
    <3>5. Balanced(t1, M1, bh)
      BY ONLY <3>3, <3>4, <2>1, <2>11, <2>13, <1>1, <1>12 DEF Balanced
    <3> QED  BY ONLY <3>5, <2>14, <1>7
  <2>15. CASE ~ IsRed(t, y)
    <3>1. e = 1
      <4>1. t.color[y] \in {"red", "black"}
        BY <1>3, TreeTyped DEF Shape
      <4> QED  BY ONLY <4>1, <2>15, <1>3, <1>8, WeightIs DEF IsRed
    <3>2. 1 = 0 + 1
      OBVIOUS
    <3>3. Short(t1, bh, c, q, x)
      BY ONLY <3>1, <3>2, <2>8, <2>10, <1>9 DEF Short
    <3>4. Light(t1, M1, bh, c, q)
      BY ONLY <3>3, <2>6, <2>11, <2>13, <1>1, <1>12, x \in Sides DEF Light
    <3> QED  BY ONLY <3>4, <2>1, <2>13, <2>15, <1>7, <1>15
  <2> QED  BY ONLY <2>14, <2>15
<1> QED  BY ONLY <1>14, <1>15

\* The pointers of the other nodes are untouched.
LEMMA RemovedLoose ==
    ASSUME NEW t, NEW M, NEW sub, Shape(t, M, sub), Loose(t, M),
           NEW y \in M, NEW s \in Sides, NEW c, c = t.child[s][y],
           NEW t1, Removed(t, y, c, M, t1)
    PROVE  Loose(t1, M)
<1>1. c \in M \cup {Nil} /\ M \subseteq TreeNodes
  BY DEF Shape, Placed
<1>2. Nil \notin TreeNodes
  BY NodeKeys
<1>3. /\ \A x \in Sides, m \in TreeNodes :
           t1.child[x][m] = IF m \in M /\ t.child[x][m] = y THEN c ELSE t.child[x][m]
      /\ \A m \in TreeNodes : t1.parent[m] = IF m = c THEN t.parent[y] ELSE t.parent[m]
  BY ONLY Removed(t, y, c, M, t1) DEF Removed
<1> QED  BY ONLY <1>1, <1>2, <1>3, Loose(t, M) DEF Loose

-----------------------------------------------------------------------------
(* A node that takes the place of another, with its colour.                 *)

\* The name after the exchange.
Ren(old, new, m) == IF m = old THEN new ELSE m

\* bh2 is bh after the exchange, and the colours have gone along.
Echo(t, M, bh, old, new, t2, bh2) ==
    /\ t2.root = Ren(old, new, t.root)
    /\ bh2 \in [TreeNodes -> Nat]
    /\ \A m \in M : /\ Even(t, bh, m) => Even(t2, bh2, Ren(old, new, m))
                    /\ IsRed(t2, Ren(old, new, m)) <=> IsRed(t, m)
                    /\ t2.parent[Ren(old, new, m)] = Ren(old, new, t.parent[m])
                    /\ \A s \in Sides : Short(t, bh, t.child[s][m], m, s) =>
                         Short(t2, bh2, Ren(old, new, t.child[s][m]), Ren(old, new, m), s)

\* There is such a function.
LEMMA Echoed ==
    ASSUME NEW t, NEW M, NEW sub, Shape(t, M, sub), NEW old \in M, NEW new \in TreeNodes \ M,
           NEW t2, Replaced(t, old, new, M, t2),
           \A m \in (M \ {old}) \cup {new} : t2.color[m] = IF m = new THEN t.color[old] ELSE t.color[m],
           NEW bh \in [TreeNodes -> Nat]
    PROVE  \E bh2 : Echo(t, M, bh, old, new, t2, bh2)
<1>1. /\ t2.root = IF t.root = old THEN new ELSE t.root
      /\ \A x \in Sides : /\ t2.child[x][new] = t.child[x][old]
                          /\ \A m \in M \ {old} :
                               t2.child[x][m] = IF t.child[x][m] = old THEN new ELSE t.child[x][m]
      /\ t2.parent[new] = t.parent[old]
      /\ \A m \in M \ {old} : t2.parent[m] = IF t.parent[m] = old THEN new ELSE t.parent[m]
  BY ONLY Replaced(t, old, new, M, t2) DEF Replaced
<1>2. M \subseteq TreeNodes /\ old \in TreeNodes /\ old # Nil /\ new # Nil /\ new \notin M /\ new \in TreeNodes /\ Nil \notin M
  BY NodeKeys DEF Shape
<1>3. \A x \in Sides : t.child[x][old] # old
  <2> SUFFICES ASSUME NEW x \in Sides, t.child[x][old] = old PROVE FALSE
    OBVIOUS
  <2>1. Only(t, M, old, x, old)
    BY ONLY Shape(t, M, sub), old \in M, x \in Sides, t.child[x][old] = old, <1>2, ChildOnly
  <2> QED  BY ONLY <2>1 DEF Only
<1>4. t.parent[old] # old
  BY ONLY Shape(t, M, sub), old \in M, <1>2, SideTold
<1>5. PICK k \in Nat : k = bh[old]
  BY <1>2
<1>6. PICK bh2 : SetAt(bh, new, k, bh2)
  BY ONLY bh \in [TreeNodes -> Nat], <1>2, k \in Nat, Updated
<1>7. bh2 \in [TreeNodes -> Nat] /\ bh2[new] = bh[old] /\ \A m \in TreeNodes : m # new => bh2[m] = bh[m]
  BY ONLY <1>5, <1>6 DEF SetAt
<1>8. \A c \in M \cup {Nil} : Height(bh2, Ren(old, new, c)) = Height(bh, c)
  BY ONLY <1>2, <1>7 DEF Height, Ren
<1>9. \A m \in M, x \in Sides : /\ t2.child[x][Ren(old, new, m)] = Ren(old, new, t.child[x][m])
                                /\ t.child[x][m] \in M \cup {Nil}
  <2>1. \A m \in M, x \in Sides : t.child[x][m] \in M \cup {Nil}
    BY ONLY Shape(t, M, sub), bh \in [TreeNodes -> Nat], HeightNat
  <2> QED  BY ONLY <2>1, <1>1, <1>2, <1>3 DEF Ren
<1>10. \A m \in M : t2.parent[Ren(old, new, m)] = Ren(old, new, t.parent[m])
  BY ONLY <1>1, <1>2, <1>4 DEF Ren
<1>11. \A m \in M : t2.color[Ren(old, new, m)] = t.color[m]
  BY ONLY <1>2, \A m \in (M \ {old}) \cup {new} : t2.color[m] = IF m = new THEN t.color[old] ELSE t.color[m]
     DEF Ren
<1>12. \A m \in M : Ren(old, new, m) # Nil /\ m # Nil /\ bh2[Ren(old, new, m)] = bh[m]
  BY ONLY <1>2, <1>7 DEF Ren
<1>13. \A m \in M : /\ IsRed(t2, Ren(old, new, m)) <=> IsRed(t, m)
                    /\ Weight(t2, Ren(old, new, m)) = Weight(t, m)
  BY ONLY <1>11, <1>12 DEF IsRed, Weight
<1>14. \A m \in M, x \in Sides : Height(bh2, t2.child[x][Ren(old, new, m)]) = Height(bh, t.child[x][m])
  BY ONLY <1>8, <1>9
<1>15. ASSUME NEW m \in M PROVE Even(t, bh, m) => Even(t2, bh2, Ren(old, new, m))
  BY ONLY <1>12, <1>13, <1>14, m \in M DEF Even, Sides
<1>16. ASSUME NEW m \in M, NEW s \in Sides
       PROVE  Short(t, bh, t.child[s][m], m, s) => Short(t2, bh2, Ren(old, new, t.child[s][m]), Ren(old, new, m), s)
  <2>1. Opp(s) \in Sides
    BY ONLY s \in Sides, Opposite
  <2>2. /\ Height(bh2, t2.child[Opp(s)][Ren(old, new, m)]) = Height(bh, t.child[Opp(s)][m])
        /\ t2.child[s][Ren(old, new, m)] = Ren(old, new, t.child[s][m])
        /\ Height(bh2, Ren(old, new, t.child[s][m])) = Height(bh, t.child[s][m])
    BY ONLY <2>1, <1>8, <1>9, <1>14, m \in M, s \in Sides
  <2> QED  BY ONLY <2>2, <1>12, <1>13, m \in M DEF Short
<1>17. t2.root = Ren(old, new, t.root)
  BY ONLY <1>1 DEF Ren
<1>18. Echo(t, M, bh, old, new, t2, bh2)
  BY ONLY <1>7, <1>10, <1>13, <1>15, <1>16, <1>17 DEF Echo
<1> QED  BY ONLY <1>18

\* Balance does not tell the two nodes apart.
LEMMA EchoKeeps ==
    ASSUME NEW t, NEW M, NEW sub, Shape(t, M, sub), NEW old \in M, NEW new \in TreeNodes \ M,
           NEW t2, NEW bh, NEW bh2, Echo(t, M, bh, old, new, t2, bh2),
           NEW M2, M2 = (M \ {old}) \cup {new}
    PROVE  /\ Balanced(t, M, bh) => Balanced(t2, M2, bh2)
           /\ Rooted(t, M, bh) => Rooted(t2, M2, bh2)
           /\ \A node, p : Light(t, M, bh, node, p) => Light(t2, M2, bh2, Ren(old, new, node), Ren(old, new, p))
<1>1. /\ t2.root = Ren(old, new, t.root)
      /\ bh2 \in [TreeNodes -> Nat]
      /\ \A m \in M : /\ Even(t, bh, m) => Even(t2, bh2, Ren(old, new, m))
                      /\ IsRed(t2, Ren(old, new, m)) <=> IsRed(t, m)
                      /\ t2.parent[Ren(old, new, m)] = Ren(old, new, t.parent[m])
                      /\ \A s \in Sides : Short(t, bh, t.child[s][m], m, s) =>
                           Short(t2, bh2, Ren(old, new, t.child[s][m]), Ren(old, new, m), s)
  BY ONLY Echo(t, M, bh, old, new, t2, bh2) DEF Echo
<1>2. M \subseteq TreeNodes /\ old # Nil /\ new # Nil /\ new \notin M /\ Nil \notin M /\ t.root \in M \cup {Nil}
  BY NodeKeys DEF Shape
<1>3. \A m \in M2 : \E k \in M : m = Ren(old, new, k)
  <2> SUFFICES ASSUME NEW m \in M2 PROVE \E k \in M : m = Ren(old, new, k)
    OBVIOUS
  <2>1. CASE m = new
    BY <2>1 DEF Ren
  <2>2. CASE m # new
    BY <2>2, <1>2 DEF Ren
  <2> QED  BY <2>1, <2>2
<1>4. \A m \in M : Ren(old, new, m) \in M2
  BY DEF Ren
<1>5. \A k, m \in M \cup {Nil} : Ren(old, new, k) = Ren(old, new, m) => k = m
  BY <1>2 DEF Ren
<1>6. ~ IsRed(t, t.root) => ~ IsRed(t2, t2.root)
  <2>1. t.root = Nil => t2.root = Nil
    BY ONLY <1>1, <1>2 DEF Ren
  <2> QED  BY ONLY <2>1, <1>1, <1>2, NilBlack
\* Two red nodes come from two red nodes.
<1>7. ASSUME NEW a \in M2, NEW b \in M2, RedPair(t2, M2, a, b)
      PROVE  \E a0, b0 \in M : RedPair(t, M, a0, b0) /\ a = Ren(old, new, a0) /\ b = Ren(old, new, b0)
  <2>1. PICK a0 \in M : a = Ren(old, new, a0)
    BY ONLY <1>3, a \in M2
  <2>2. PICK b0 \in M : b = Ren(old, new, b0)
    BY ONLY <1>3, b \in M2
  <2>3. IsRed(t, a0) /\ IsRed(t, b0)
    BY ONLY <2>1, <2>2, <1>1, <1>7 DEF RedPair
  <2>4. t.parent[b0] \in M \cup {Nil}
    BY ONLY Shape(t, M, sub), b0 \in M, SideTold
  <2>5. Ren(old, new, t.parent[b0]) = Ren(old, new, a0)
    BY ONLY <2>1, <2>2, <1>1, <1>7, b0 \in M DEF RedPair
  <2>6. t.parent[b0] = a0
    BY ONLY <2>4, <2>5, <1>5, a0 \in M
  <2> QED  BY ONLY <2>1, <2>2, <2>3, <2>6, a0 \in M, b0 \in M DEF RedPair
<1>8. ASSUME Balanced(t, M, bh) PROVE Balanced(t2, M2, bh2)
  <2>1. (\A m \in M : Even(t, bh, m)) /\ (\A a, b \in M : ~ RedPair(t, M, a, b)) /\ ~ IsRed(t, t.root)
    BY ONLY <1>8 DEF Balanced
  <2>2. \A m \in M2 : Even(t2, bh2, m)
    BY ONLY <2>1, <1>1, <1>3
  <2> QED  BY ONLY <2>1, <2>2, <1>1, <1>6, <1>7 DEF Balanced
<1>9. ASSUME Rooted(t, M, bh) PROVE Rooted(t2, M2, bh2)
  <2>1. (\A m \in M : Even(t, bh, m)) /\ (\A a, b \in M : RedPair(t, M, a, b) => a = t.root)
    BY ONLY <1>9 DEF Rooted
  <2>2. \A m \in M2 : Even(t2, bh2, m)
    BY ONLY <2>1, <1>1, <1>3
  <2>3. \A a, b \in M2 : RedPair(t2, M2, a, b) => a = t2.root
    BY ONLY <2>1, <1>1, <1>7
  <2> QED  BY ONLY <2>2, <2>3, <1>1 DEF Rooted
<1>10. ASSUME NEW node, NEW p, Light(t, M, bh, node, p)
       PROVE  Light(t2, M2, bh2, Ren(old, new, node), Ren(old, new, p))
  <2>1. /\ p \in M /\ (\A n \in M \ {p} : Even(t, bh, n))
        /\ (\A a, b \in M : RedPair(t, M, a, b) => node \in {a, b}) /\ ~ IsRed(t, t.root)
    BY ONLY <1>10 DEF Light
  <2>2. PICK s \in Sides : Short(t, bh, node, p, s)
    BY ONLY <1>10 DEF Light
  <2>3. t.child[s][p] = node
    BY ONLY <2>2 DEF Short
  <2>4. Short(t2, bh2, Ren(old, new, node), Ren(old, new, p), s)
    BY ONLY <2>1, <2>2, <2>3, <1>1, s \in Sides
  <2>5. \A m \in M2 \ {Ren(old, new, p)} : Even(t2, bh2, m)
    BY ONLY <2>1, <1>1, <1>3
  <2>6. \A a, b \in M2 : RedPair(t2, M2, a, b) => Ren(old, new, node) \in {a, b}
    <3> SUFFICES ASSUME NEW a \in M2, NEW b \in M2, RedPair(t2, M2, a, b)
                 PROVE  Ren(old, new, node) \in {a, b}
      OBVIOUS
    <3>1. PICK a0, b0 \in M : RedPair(t, M, a0, b0) /\ a = Ren(old, new, a0) /\ b = Ren(old, new, b0)
      BY ONLY <1>7, a \in M2, b \in M2, RedPair(t2, M2, a, b)
    <3>2. node = a0 \/ node = b0
      BY ONLY <3>1, <2>1
    <3> QED  BY ONLY <3>1, <3>2
  <2> QED  BY ONLY <2>1, <2>4, <2>5, <2>6, <1>1, <1>4, <1>6, s \in Sides DEF Light
<1> QED  BY ONLY <1>8, <1>9, <1>10

-----------------------------------------------------------------------------
(* The data of the callback.                                                *)

\* The nodes whose data are wrong.
Wrong(M, sz, sub) == {m \in M : sz[m] # Cardinality(sub[m])}

\* The nodes that have d below them, and those that rb_augment_path meets from d on.
Above(M, sub, d) == {m \in M : d \in sub[m]}
Due(t, M, sub, d) ==
    {m \in M : d \in sub[m] \/ (t.parent[m] \in M /\ t.parent[m] # d /\ d \in sub[t.parent[m]])}

\* How many nodes there are below a node.
LEMMA SubSize ==
    ASSUME NEW t, NEW M, NEW sub, Shape(t, M, sub), NEW n \in M
    PROVE  /\ IsFiniteSet(sub[n]) /\ Cardinality(sub[n]) \in Nat
           /\ Cardinality(sub[n]) = 1 + Cardinality(Below(sub, t.child["left"][n]))
                                      + Cardinality(Below(sub, t.child["right"][n]))
<1>1. IsFiniteSet(M) /\ sub[n] \subseteq M
  BY DEF Shape, Placed
<1>2. PICK l, r : l = Below(sub, t.child["left"][n]) /\ r = Below(sub, t.child["right"][n])
  OBVIOUS
<1>3. "left" \in Sides /\ Opp("left") = "right"
  BY Opposite DEF Sides
<1>4. sub[n] = {n} \cup l \cup r /\ n \notin l /\ n \notin r /\ l \cap r = {}
  <2>1. /\ n \in sub[n] /\ n \notin l
        /\ l \cap r = {} /\ sub[n] = {n} \cup l \cup r
    BY ONLY Shape(t, M, sub), n \in M, <1>2, <1>3, Apart
  <2>2. n \notin r
    <3>1. "right" \in Sides
      BY DEF Sides
    <3> QED  BY ONLY Shape(t, M, sub), n \in M, <1>2, <3>1, Apart
  <2> QED  BY ONLY <2>1, <2>2
<1>5. IsFiniteSet(sub[n])
  BY ONLY <1>1, FS_Subset
<1>6. l \in SUBSET sub[n] /\ r \in SUBSET sub[n]
  BY ONLY <1>4
<1>7. IsFiniteSet(l) /\ IsFiniteSet(r)
  BY ONLY <1>5, <1>6, FS_Subset
<1>8. PICK i, j : i = Cardinality(l) /\ j = Cardinality(r)
  OBVIOUS
<1>9. i \in Nat /\ j \in Nat
  BY ONLY <1>7, <1>8, FS_CardinalityType
<1>10. IsFiniteSet(l \cup r) /\ Cardinality(l \cup r) = i + j
  <2>1. Cardinality(l \cap r) = 0
    BY ONLY <1>4, FS_EmptySet
  <2>2. IsFiniteSet(l \cup r) /\ Cardinality(l \cup r) = Cardinality(l) + Cardinality(r) - Cardinality(l \cap r)
    BY ONLY <1>7, FS_Union
  <2> QED  BY ONLY <2>1, <2>2, <1>8, <1>9
<1>11. Cardinality((l \cup r) \cup {n}) = Cardinality(l \cup r) + 1
  <2>1. n \notin l \cup r
    BY ONLY <1>4
  <2> QED  BY ONLY <1>10, <2>1, FS_AddElement
<1>12. sub[n] = (l \cup r) \cup {n}
  BY ONLY <1>4
<1>13. Cardinality(sub[n]) = 1 + i + j
  BY ONLY <1>9, <1>10, <1>11, <1>12
<1>14. 1 + i + j \in Nat
  BY ONLY <1>9
<1> QED  BY ONLY <1>2, <1>5, <1>8, <1>13, <1>14

\* The exchange keeps the numbers.
LEMMA SwappedSize ==
    ASSUME NEW S, IsFiniteSet(S), NEW old, NEW new, new \notin S
    PROVE  Cardinality(Swapped(S, old, new)) = Cardinality(S)
<1>1. CASE old \notin S
  BY <1>1 DEF Swapped
<1>2. CASE old \in S
  <2>1. IsFiniteSet(S \ {old}) /\ Cardinality(S \ {old}) = Cardinality(S) - 1
    BY ONLY <1>2, IsFiniteSet(S), FS_RemoveElement
  <2>2. new \notin S \ {old}
    BY ONLY new \notin S
  <2>3. Cardinality((S \ {old}) \cup {new}) = Cardinality(S \ {old}) + 1
    BY ONLY <2>1, <2>2, FS_AddElement
  <2>4. Cardinality(S) \in Nat
    BY ONLY IsFiniteSet(S), FS_CardinalityType
  <2>5. Cardinality((S \ {old}) \cup {new}) = Cardinality(S)
    BY ONLY <2>1, <2>3, <2>4
  <2> QED  BY ONLY <2>5, <1>2 DEF Swapped
<1> QED  BY <1>1, <1>2

\* The callback makes the data of n right once those of its children are.
Right(sz, sub, n) == sz[n] = Cardinality(sub[n])
\* What the callback does to the data, for one node.
Refreshed(t, sz, n, sz2) ==
    /\ sz2 \in [TreeNodes -> Nat] /\ sz2[n] = 1 + Sum(sz, t.child["left"][n]) + Sum(sz, t.child["right"][n])
    /\ \A m \in TreeNodes : m # n => sz2[m] = sz[m]

\* What it adds is a natural.
LEMMA SumNat ==
    ASSUME NEW sz \in [TreeNodes -> Nat], NEW c \in TreeNodes \cup {Nil}
    PROVE  Sum(sz, c) \in Nat
BY NodeKeys DEF Sum

\* The callback does that.
LEMMA UpdateFacts ==
    ASSUME NEW sz \in [TreeNodes -> Nat], tree \in TreeType, NEW n \in TreeNodes
    PROVE  Refreshed(tree, sz, n, Update(sz, n))
<1>1. tree.child["left"][n] \in TreeNodes \cup {Nil} /\ tree.child["right"][n] \in TreeNodes \cup {Nil}
  BY TreeTyped DEF Sides
<1>2. PICK k : k = 1 + Sum(sz, tree.child["left"][n]) + Sum(sz, tree.child["right"][n])
  OBVIOUS
<1>3. k \in Nat
  BY ONLY <1>1, <1>2, sz \in [TreeNodes -> Nat], SumNat
<1>4. Update(sz, n) = [sz EXCEPT ![n] = k]
  BY ONLY <1>2 DEF Update
<1>5. /\ [sz EXCEPT ![n] = k] \in [TreeNodes -> Nat] /\ [sz EXCEPT ![n] = k][n] = k
      /\ \A m \in TreeNodes : m # n => [sz EXCEPT ![n] = k][m] = sz[m]
  BY ONLY <1>3, sz \in [TreeNodes -> Nat], n \in TreeNodes
<1> QED  BY ONLY <1>2, <1>4, <1>5 DEF Refreshed

\* A node is right afterwards if its children were.
LEMMA RefreshedRight ==
    ASSUME NEW t, NEW M, NEW sub, Shape(t, M, sub), NEW n \in M, NEW sz, NEW sz2, Refreshed(t, sz, n, sz2),
           \A s \in Sides : t.child[s][n] # Nil => Right(sz, sub, t.child[s][n])
    PROVE  Right(sz2, sub, n)
<1>1. \A s \in Sides : Sum(sz, t.child[s][n]) = Cardinality(Below(sub, t.child[s][n]))
  <2>1. Cardinality({}) = 0
    BY FS_EmptySet
  <2> QED  BY ONLY <2>1, \A s \in Sides : t.child[s][n] # Nil => Right(sz, sub, t.child[s][n])
           DEF Sum, Below, Right
<1>2. /\ Sum(sz, t.child["left"][n]) = Cardinality(Below(sub, t.child["left"][n]))
      /\ Sum(sz, t.child["right"][n]) = Cardinality(Below(sub, t.child["right"][n]))
  BY ONLY <1>1 DEF Sides
<1>3. sz2[n] = 1 + Sum(sz, t.child["left"][n]) + Sum(sz, t.child["right"][n])
  BY ONLY Refreshed(t, sz, n, sz2) DEF Refreshed
<1>4. Cardinality(sub[n]) = 1 + Cardinality(Below(sub, t.child["left"][n]))
                              + Cardinality(Below(sub, t.child["right"][n]))
  BY ONLY Shape(t, M, sub), n \in M, SubSize
<1> QED  BY ONLY <1>2, <1>3, <1>4 DEF Right

\* One turn of rb_augment_path.
Turn(t, sz, n, p, sz2) ==
    /\ sz2 \in [TreeNodes -> Nat]
    /\ \A m \in TreeNodes : sz2[m] # sz[m] => m = n \/ (p # Nil /\ \E s \in Sides : t.child[s][p] = m)
    /\ sz2[n] = 1 + Sum(sz, t.child["left"][n]) + Sum(sz, t.child["right"][n])
    /\ p # Nil => \A s \in Sides : LET w == t.child[s][p] IN
         w # Nil /\ w # n => sz2[w] = 1 + Sum(sz, t.child["left"][w]) + Sum(sz, t.child["right"][w])

\* One turn leaves less wrong: what is above the parent, or nothing at the root.
LEMMA AugmentWrong ==
    ASSUME NEW t, NEW M, NEW sub, Shape(t, M, sub), NEW n \in M, NEW p, p = t.parent[n],
           NEW sz, NEW sz2, Turn(t, sz, n, p, sz2), Wrong(M, sz, sub) \subseteq Due(t, M, sub, n)
    PROVE  IF p = Nil THEN Wrong(M, sz2, sub) = {}
           ELSE p \in M /\ Wrong(M, sz2, sub) \subseteq Due(t, M, sub, p)
<1>1. M \subseteq TreeNodes /\ Nil \notin M
  BY NodeKeys DEF Shape
<1>2. /\ sz2 \in [TreeNodes -> Nat]
      /\ \A m \in TreeNodes : sz2[m] # sz[m] => m = n \/ (p # Nil /\ \E s \in Sides : t.child[s][p] = m)
      /\ sz2[n] = 1 + Sum(sz, t.child["left"][n]) + Sum(sz, t.child["right"][n])
      /\ p # Nil => \A s \in Sides : LET w == t.child[s][p] IN
           w # Nil /\ w # n => sz2[w] = 1 + Sum(sz, t.child["left"][w]) + Sum(sz, t.child["right"][w])
  BY ONLY Turn(t, sz, n, p, sz2) DEF Turn
<1>3. \A m \in M : m \notin Due(t, M, sub, n) => Right(sz, sub, m)
  BY ONLY Wrong(M, sz, sub) \subseteq Due(t, M, sub, n) DEF Wrong, Right
\* What has n neither below it nor below its parent.
<1>4. ASSUME NEW m \in M, n \notin sub[m], t.parent[m] = n \/ n \notin sub[t.parent[m]] PROVE Right(sz, sub, m)
  BY ONLY <1>3, <1>4, m \in M DEF Due
<1>5. ASSUME NEW w \in M, w = n \/ n \notin sub[w], NEW z,
             z[w] = 1 + Sum(sz, t.child["left"][w]) + Sum(sz, t.child["right"][w])
      PROVE  Right(z, sub, w)
  <2>1. ASSUME NEW s \in Sides, t.child[s][w] # Nil PROVE Right(sz, sub, t.child[s][w])
    <3>1. PICK c : c = t.child[s][w]
      OBVIOUS
    <3>2. Only(t, M, w, s, c)
      BY ONLY Shape(t, M, sub), w \in M, s \in Sides, <2>1, <3>1, ChildOnly
    <3>3. c \in M /\ t.parent[c] = w /\ c # Nil
      BY ONLY <3>2 DEF Only
    <3>4. w \notin Below(sub, t.child[s][w]) /\ Below(sub, t.child[s][w]) \subseteq sub[w] \ {w}
      BY ONLY Shape(t, M, sub), w \in M, s \in Sides, Apart
    <3>5. n \notin sub[c]
      BY ONLY <3>1, <3>3, <3>4, <1>5 DEF Below
    <3>6. Right(sz, sub, c)
      BY ONLY <3>3, <3>5, <1>4, <1>5
    <3> QED  BY ONLY <3>1, <3>6
  <2>2. PICK z2 : z2 = [sz EXCEPT ![w] = z[w]]
    OBVIOUS
  <2>3. \A s \in Sides : Sum(sz, t.child[s][w]) = Cardinality(Below(sub, t.child[s][w]))
    <3>1. Cardinality({}) = 0
      BY FS_EmptySet
    <3> QED  BY ONLY <3>1, <2>1 DEF Sum, Below, Right
  <2>4. /\ Sum(sz, t.child["left"][w]) = Cardinality(Below(sub, t.child["left"][w]))
        /\ Sum(sz, t.child["right"][w]) = Cardinality(Below(sub, t.child["right"][w]))
    BY ONLY <2>3 DEF Sides
  <2>5. Cardinality(sub[w]) = 1 + Cardinality(Below(sub, t.child["left"][w]))
                                + Cardinality(Below(sub, t.child["right"][w]))
    BY ONLY Shape(t, M, sub), w \in M, SubSize
  <2> QED  BY ONLY <2>4, <2>5, <1>5 DEF Right
<1>6. Right(sz2, sub, n)
  <2>1. n = n \/ n \notin sub[n]
    OBVIOUS
  <2> QED  BY ONLY <2>1, <1>2, <1>5, n \in M
<1>7. CASE p = Nil
  <2>0. t.parent[n] = Nil
    BY ONLY p = t.parent[n], <1>7
  <2>1. n = t.root
    BY ONLY Shape(t, M, sub), n \in M, <2>0, SideTold
  <2>2. ASSUME NEW m \in M PROVE Right(sz2, sub, m)
    <3>1. CASE m = n
      BY ONLY <3>1, <1>6
    <3>2. CASE m # n
      <4>1. sz2[m] = sz[m]
        BY ONLY <3>2, <1>1, <1>2, <1>7, m \in M
      <4>2. n \notin sub[m]
        <5>1. sub[n] = M
          BY ONLY Shape(t, M, sub), n \in M, <2>1, <1>1 DEF Shape, Below
        <5> QED  BY ONLY <5>1, Shape(t, M, sub), n \in M, m \in M, <3>2, BelowBelow
      <4>3. t.parent[m] = n \/ n \notin sub[t.parent[m]]
        <5> SUFFICES ASSUME t.parent[m] # n PROVE n \notin sub[t.parent[m]]
          OBVIOUS
        <5>1. t.parent[m] \in M
          BY ONLY Shape(t, M, sub), m \in M, <3>2, <2>1, SideTold
        <5>2. sub[n] = M
          BY ONLY Shape(t, M, sub), n \in M, <2>1, <1>1 DEF Shape, Below
        <5> QED  BY ONLY <5>1, <5>2, Shape(t, M, sub), n \in M, t.parent[m] # n, BelowBelow
      <4> QED  BY ONLY <4>1, <4>2, <4>3, <1>4, m \in M DEF Right
    <3> QED  BY ONLY <3>1, <3>2
  <2> QED  BY ONLY <2>2, <1>7 DEF Wrong, Right
<1>8. CASE p # Nil
  <2>1. n # t.root
    BY ONLY Shape(t, M, sub), n \in M, p = t.parent[n], <1>8, SideTold
  <2>2. p \in M /\ p # n
    BY ONLY Shape(t, M, sub), n \in M, p = t.parent[n], <2>1, SideTold
  <2>3. PICK s \in Sides : t.child[s][p] = n
    BY ONLY Shape(t, M, sub), n \in M, p = t.parent[n], <2>1, SideTold
  <2>4. PICK w : w = t.child[Opp(s)][p]
    OBVIOUS
  <2>5. Opp(s) \in Sides /\ Opp(s) # s /\ \A x \in Sides : x = s \/ x = Opp(s)
    BY ONLY s \in Sides, Opposite
  <2>6. w # Nil => w \in M /\ w # n /\ n \notin sub[w]
    <3> SUFFICES ASSUME w # Nil PROVE w \in M /\ w # n /\ n \notin sub[w]
      OBVIOUS
    <3>1. Only(t, M, p, Opp(s), w)
      BY ONLY Shape(t, M, sub), <2>2, <2>4, <2>5, w # Nil, ChildOnly
    <3>2. w \in M /\ w # n
      BY ONLY <3>1, <2>2, <2>3, <2>5, s \in Sides DEF Only
    <3>3. n \in sub[n]
      BY ONLY Shape(t, M, sub), n \in M, s \in Sides, Apart
    <3>4. Below(sub, t.child[s][p]) \cap Below(sub, t.child[Opp(s)][p]) = {}
      BY ONLY Shape(t, M, sub), <2>2, s \in Sides, Apart
    <3> QED  BY ONLY <3>2, <3>3, <3>4, <2>3, <2>4, w # Nil, n \in M, <1>1 DEF Below
  <2>7. w # Nil => Right(sz2, sub, w)
    BY ONLY <2>4, <2>5, <2>6, <1>2, <1>5, <1>8
  <2>8. ASSUME NEW m \in M, ~ Right(sz2, sub, m) PROVE m \in Due(t, M, sub, p)
    <3>1. m # n /\ (w # Nil => m # w)
      BY ONLY <2>7, <2>8, <1>6
    <3>2. m # w /\ m # n
      BY ONLY <3>1, <1>1, m \in M
    <3>3. sz2[m] = sz[m]
      BY ONLY <3>2, <2>3, <2>4, <2>5, <1>1, <1>2, m \in M
    <3>4. n \in sub[m] \/ (t.parent[m] # n /\ n \in sub[t.parent[m]] /\ t.parent[m] \in M)
      <4>1. m \in Due(t, M, sub, n)
        BY ONLY <3>3, <2>8, <1>3, m \in M DEF Right
      <4> QED  BY ONLY <4>1 DEF Due
    <3>5. \A k \in M : n \in sub[k] /\ k # n => p \in sub[k]
      BY ONLY Shape(t, M, sub), n \in M, p = t.parent[n], ParentBelow
    <3>6. CASE n \in sub[m]
      <4>1. p \in sub[m]
        BY ONLY <3>2, <3>5, <3>6, m \in M
      <4> QED  BY ONLY <4>1, m \in M DEF Due
    <3>7. CASE t.parent[m] # n /\ n \in sub[t.parent[m]] /\ t.parent[m] \in M
      <4>1. p \in sub[t.parent[m]]
        BY ONLY <3>5, <3>7
      <4>2. t.parent[m] # p
        <5> SUFFICES ASSUME t.parent[m] = p PROVE FALSE
          OBVIOUS
        <5>1. m # t.root
          BY ONLY Shape(t, M, sub), m \in M, t.parent[m] = p, <1>8, SideTold
        <5>2. SideOf(t, m) \in Sides /\ t.child[SideOf(t, m)][p] = m
          BY ONLY Shape(t, M, sub), m \in M, t.parent[m] = p, <5>1, SideTold
        <5> QED  BY ONLY <5>2, <3>2, <2>3, <2>4, <2>5
      <4> QED  BY ONLY <4>1, <4>2, <3>7, m \in M DEF Due
    <3> QED  BY ONLY <3>4, <3>6, <3>7
  <2>9. Wrong(M, sz2, sub) \subseteq Due(t, M, sub, p)
    BY ONLY <2>8 DEF Wrong, Right
  <2> QED  BY ONLY <2>2, <2>9, <1>8
<1> QED  BY ONLY <1>7, <1>8

\* What the calls have made wrong is on the way of rb_augment_path.
LEMMA AboveDue ==
    ASSUME NEW t, NEW M, NEW sub, NEW d
    PROVE  Above(M, sub, d) \subseteq Due(t, M, sub, d)
BY DEF Above, Due

\* What is above d is met from d on.
LEMMA DueFrom ==
    ASSUME NEW t, NEW M, NEW sub, Shape(t, M, sub), NEW of \in M, NEW top \in M, of \in sub[top]
    PROVE  /\ AugmentFrom(t, of) \in M
           /\ Above(M, sub, of) \cup {e \in M : t.parent[e] = top} \subseteq Due(t, M, sub, AugmentFrom(t, of))
<1>1. PICK d : d = AugmentFrom(t, of)
  OBVIOUS
<1>2. d = of \/ \E s \in Sides : d = t.child[s][of] /\ d # Nil
  BY ONLY <1>1 DEF AugmentFrom, Sides
<1>3. of \in sub[of]
  BY ONLY Shape(t, M, sub), of \in M, Apart DEF Sides
<1>4. d \in M /\ d \in sub[of]
  <2>1. CASE d = of
    BY ONLY <2>1, <1>3, of \in M
  <2>2. CASE d # of
    <3>1. PICK s \in Sides : d = t.child[s][of] /\ d # Nil
      BY ONLY <1>2, <2>2
    <3>2. Only(t, M, of, s, d)
      BY ONLY Shape(t, M, sub), of \in M, s \in Sides, <3>1, ChildOnly
    <3>3. d \in M
      BY ONLY <3>2 DEF Only
    <3>4. d \in sub[d]
      BY ONLY Shape(t, M, sub), <3>3, s \in Sides, Apart
    <3>5. Below(sub, t.child[s][of]) \subseteq sub[of]
      BY ONLY Shape(t, M, sub), of \in M, s \in Sides, Apart
    <3> QED  BY ONLY <3>1, <3>3, <3>4, <3>5 DEF Below
  <2> QED  BY ONLY <2>1, <2>2
<1>5. ASSUME NEW m \in M, of \in sub[m] PROVE d \in sub[m]
  <2>1. sub[of] \subseteq sub[m]
    BY ONLY Shape(t, M, sub), m \in M, <1>5, BelowBelow
  <2> QED  BY ONLY <2>1, <1>4
<1>6. ASSUME NEW e \in M, t.parent[e] = top PROVE e \in Due(t, M, sub, d)
  <2>1. d \in sub[top]
    BY ONLY <1>5, top \in M, of \in sub[top]
  <2>2. CASE top # d
    BY ONLY <2>1, <2>2, <1>6, top \in M, e \in M DEF Due
  <2>3. CASE top = d
    <3>1. top = of
      BY ONLY Shape(t, M, sub), of \in M, top \in M, of \in sub[top], <2>3, <1>4, BelowBelow
    <3>2. t.child["left"][of] = Nil /\ t.child["right"][of] = Nil
      <4>1. \A s \in Sides : t.child[s][of] # Nil => t.child[s][of] # of
        <5> SUFFICES ASSUME NEW s \in Sides, t.child[s][of] # Nil PROVE t.child[s][of] # of
          OBVIOUS
        <5>1. Only(t, M, of, s, t.child[s][of])
          BY ONLY Shape(t, M, sub), of \in M, s \in Sides, t.child[s][of] # Nil, ChildOnly
        <5> QED  BY ONLY <5>1 DEF Only
      <4> QED  BY ONLY <4>1, <3>1, <2>3, <1>1 DEF AugmentFrom, Sides
    <3>3. e # t.root
      <4>1. top # Nil
        BY top \in M, NodeKeys DEF Shape
      <4> QED  BY ONLY Shape(t, M, sub), e \in M, <1>6, <4>1, SideTold
    <3>4. SideOf(t, e) \in Sides /\ t.child[SideOf(t, e)][top] = e
      BY ONLY Shape(t, M, sub), e \in M, <1>6, <3>3, SideTold
    <3>5. e # Nil
      BY e \in M, NodeKeys DEF Shape
    <3> QED  BY ONLY <3>1, <3>2, <3>4, <3>5 DEF Sides
  <2> QED  BY ONLY <2>2, <2>3
<1>7. Above(M, sub, of) \cup {e \in M : t.parent[e] = top} \subseteq Due(t, M, sub, d)
  <2>1. Above(M, sub, of) \subseteq Due(t, M, sub, d)
    BY ONLY <1>5 DEF Above, Due
  <2> QED  BY ONLY <2>1, <1>6
<1> QED  BY ONLY <1>1, <1>4, <1>7

-----------------------------------------------------------------------------
(* What each change makes wrong.                                            *)

\* A new leaf makes wrong what is above it.
LEMMA AddWrong ==
    ASSUME NEW t, NEW M, NEW sub, Shape(t, M, sub), NEW n \in TreeNodes \ M, NEW p, NEW sz,
           Wrong(M, sz, sub) = {}
    PROVE  LET sub2 == WithLeaf(sub, n, p)
           IN  n \in sub2[n] /\ Wrong(M \cup {n}, sz, sub2) \subseteq Above(M \cup {n}, sub2, n)
<1>1. M \subseteq TreeNodes
  BY DEF Shape
<1>2. PICK sub2 : sub2 = WithLeaf(sub, n, p)
  OBVIOUS
<1>3. /\ sub2[n] = {n}
      /\ \A m \in M : sub2[m] = IF p # Nil /\ p \in sub[m] THEN sub[m] \cup {n} ELSE sub[m]
  BY ONLY <1>1, <1>2, n \in TreeNodes \ M DEF WithLeaf
<1>4. ASSUME NEW m \in M, n \notin sub2[m] PROVE sz[m] = Cardinality(sub2[m])
  <2>1. sub2[m] = sub[m]
    BY ONLY <1>3, <1>4, m \in M
  <2> QED  BY ONLY <2>1, m \in M, Wrong(M, sz, sub) = {} DEF Wrong
<1> QED  BY ONLY <1>2, <1>3, <1>4 DEF Wrong, Above

\* A rotation makes wrong, besides what is above d, only the node that goes down.
LEMMA RotateWrong ==
    ASSUME NEW t, NEW M, NEW sub, Shape(t, M, sub), NEW n \in M, NEW s, NEW up \in M, NEW sub2,
           Shifted(t, n, s, up, sub, sub2), NEW sz, NEW d, d \in sub[n], NEW E,
           Wrong(M, sz, sub) \subseteq Above(M, sub, d) \cup E
    PROVE  d \in sub2[up] /\ Wrong(M, sz, sub2) \subseteq Above(M, sub2, d) \cup E \cup {n}
<1>1. M \subseteq TreeNodes
  BY DEF Shape
<1>2. sub2[up] = sub[n] /\ \A m \in TreeNodes : m # n /\ m # up => sub2[m] = sub[m]
  BY ONLY Shifted(t, n, s, up, sub, sub2) DEF Shifted
<1>3. ASSUME NEW m \in M, m # n, m # up PROVE sub2[m] = sub[m]
  BY ONLY <1>1, <1>2, <1>3, m \in M
<1> QED  BY ONLY <1>2, <1>3, n \in M, up \in M, d \in sub[n],
            Wrong(M, sz, sub) \subseteq Above(M, sub, d) \cup E DEF Wrong, Above

\* Where rb_augment_erase_end starts.
From(c, p) == IF c # Nil THEN c ELSE p

\* A removal makes wrong what is above the place that closes up.
LEMMA UnlinkWrong ==
    ASSUME NEW t, NEW M, NEW sub, Shape(t, M, sub), NEW y \in M, NEW s \in Sides,
           NEW c, c = t.child[s][y], NEW sz, Wrong(M, sz, sub) = {}
    PROVE  Wrong(M \ {y}, sz, Without(sub, y)) \subseteq Above(M \ {y}, Without(sub, y), From(c, t.parent[y]))
<1>1. M \subseteq TreeNodes /\ y # Nil
  BY NodeKeys DEF Shape
<1>2. PICK sub2 : sub2 = Without(sub, y)
  OBVIOUS
<1>3. \A m \in M : sub2[m] = sub[m] \ {y}
  BY ONLY <1>1, <1>2 DEF Without
<1>4. c # Nil => c \in sub[y] /\ c # y
  <2> SUFFICES ASSUME c # Nil PROVE c \in sub[y] /\ c # y
    OBVIOUS
  <2>1. Only(t, M, y, s, c)
    BY ONLY Shape(t, M, sub), y \in M, s \in Sides, c = t.child[s][y], c # Nil, ChildOnly
  <2>2. c \in M /\ c # y
    BY ONLY <2>1 DEF Only
  <2>3. c \in sub[c] /\ Below(sub, t.child[s][y]) \subseteq sub[y] \ {y}
    BY ONLY Shape(t, M, sub), y \in M, <2>2, s \in Sides, Apart
  <2> QED  BY ONLY <2>2, <2>3, c # Nil, c = t.child[s][y] DEF Below
<1>5. ASSUME NEW m \in M \ {y}, sz[m] # Cardinality(sub2[m]) PROVE From(c, t.parent[y]) \in sub2[m]
  <2>1. y \in sub[m]
    <3> SUFFICES ASSUME y \notin sub[m] PROVE FALSE
      OBVIOUS
    <3>1. sub2[m] = sub[m]
      BY ONLY y \notin sub[m], <1>3, m \in M \ {y}
    <3> QED  BY ONLY <3>1, <1>5, Wrong(M, sz, sub) = {}, m \in M \ {y} DEF Wrong
  <2>2. t.parent[y] \in sub[m]
    BY ONLY Shape(t, M, sub), y \in M, m \in M \ {y}, <2>1, ParentBelow
  <2>3. sub[y] \subseteq sub[m]
    BY ONLY Shape(t, M, sub), m \in M \ {y}, <2>1, BelowBelow
  <2>4. t.parent[y] # y
    <3>1. y = t.root => t.parent[y] = Nil
      BY ONLY Shape(t, M, sub), y \in M, SideTold
    <3>2. y # t.root => t.parent[y] # y
      BY ONLY Shape(t, M, sub), y \in M, SideTold
    <3> QED  BY ONLY <3>1, <3>2, <1>1
  <2> QED  BY ONLY <2>2, <2>3, <2>4, <1>3, <1>4, m \in M \ {y} DEF From
<1> QED  BY ONLY <1>2, <1>5 DEF Wrong, Above

\* With two children, what is above the place its successor leaves.
LEMMA UnlinkInnerWrong ==
    ASSUME NEW t, NEW M, NEW sub, Shape(t, M, sub), NEW old \in M, NEW y, Follows(t, M, sub, old, y),
           t.child["right"][old] # Nil,
           NEW c, c = t.child["right"][y], NEW sz, Wrong(M, sz, sub) = {},
           NEW sub2, sub2 = WithSwapped(Without(sub, y), old, y)
    PROVE  Wrong(M \ {old}, sz, sub2)
             \subseteq Above(M \ {old}, sub2, From(c, IF t.parent[y] = old THEN y ELSE t.parent[y]))
<1>1. M \subseteq TreeNodes /\ old # Nil /\ "right" \in Sides
  BY NodeKeys DEF Shape, Sides
<1>2. PICK r, q : r = t.child["right"][old] /\ q = t.parent[y]
  OBVIOUS
<1>3. y \in M /\ y # old /\ y \in sub[r] /\ y # t.root
  BY ONLY Follows(t, M, sub, old, y), <1>2 DEF Follows
<1>4. y \in sub[old]
  <2>1. Below(sub, t.child["right"][old]) \subseteq sub[old] \ {old}
    BY ONLY Shape(t, M, sub), old \in M, <1>1, Apart
  <2> QED  BY ONLY <2>1, <1>2, <1>3, t.child["right"][old] # Nil DEF Below
<1>5. old \in sub[old] /\ y \in sub[y] /\ old \notin sub[y]
  <2>1. old \in sub[old] /\ y \in sub[y]
    BY ONLY Shape(t, M, sub), old \in M, <1>1, <1>3, Apart
  <2>2. old \notin sub[y]
    BY ONLY Shape(t, M, sub), old \in M, <1>3, <1>4, BelowBelow
  <2> QED  BY ONLY <2>1, <2>2
<1>6. c # Nil => c \in sub[y] /\ c # y /\ c # old
  <2> SUFFICES ASSUME c # Nil PROVE c \in sub[y] /\ c # y /\ c # old
    OBVIOUS
  <2>1. Only(t, M, y, "right", c)
    BY ONLY Shape(t, M, sub), <1>1, <1>3, c = t.child["right"][y], c # Nil, ChildOnly
  <2>2. c \in M /\ c # y
    BY ONLY <2>1 DEF Only
  <2>3. c \in sub[c] /\ Below(sub, t.child["right"][y]) \subseteq sub[y] \ {y}
    BY ONLY Shape(t, M, sub), <1>1, <1>3, <2>2, Apart
  <2>4. c \in sub[y]
    BY ONLY <2>3, c # Nil, c = t.child["right"][y] DEF Below
  <2> QED  BY ONLY <2>2, <2>4, <1>5
<1>7. q # y
  BY ONLY Shape(t, M, sub), <1>2, <1>3, SideTold
<1>8. /\ sub2[y] = Swapped(sub[old] \ {y}, old, y)
      /\ \A m \in M \ {old, y} : sub2[m] = Swapped(sub[m] \ {y}, old, y)
  <2>1. \A m \in M : Without(sub, y)[m] = sub[m] \ {y}
    BY ONLY <1>1 DEF Without
  <2>2. /\ sub2[y] = Swapped(Without(sub, y)[old], old, y)
        /\ \A m \in M \ {old, y} : sub2[m] = Swapped(Without(sub, y)[m], old, y)
    BY ONLY <1>1, <1>3, sub2 = WithSwapped(Without(sub, y), old, y) DEF WithSwapped
  <2> QED  BY ONLY <2>1, <2>2, old \in M
<1>9. PICK d : d = From(c, IF q = old THEN y ELSE q)
  OBVIOUS
\* Whatever has y below it has d below it in the end.
<1>10. ASSUME NEW S, y \in S, q \in S, sub[y] \subseteq S PROVE d \in Swapped(S \ {y}, old, y)
  <2>1. CASE c # Nil
    BY ONLY <2>1, <1>6, <1>9, <1>10 DEF From, Swapped
  <2>2. CASE c = Nil /\ q = old
    <3>1. old \in S \ {y}
      BY ONLY <2>2, <1>3, <1>10
    <3> QED  BY ONLY <3>1, <2>2, <1>9 DEF From, Swapped
  <2>3. CASE c = Nil /\ q # old
    BY ONLY <2>3, <1>7, <1>9, <1>10 DEF From, Swapped
  <2> QED  BY ONLY <2>1, <2>2, <2>3
<1>11. ASSUME NEW m \in M, y \in sub[m], m # y PROVE d \in Swapped(sub[m] \ {y}, old, y)
  <2>1. q \in sub[m]
    BY ONLY Shape(t, M, sub), <1>2, <1>3, <1>11, m \in M, ParentBelow
  <2>2. sub[y] \subseteq sub[m]
    BY ONLY Shape(t, M, sub), m \in M, <1>11, BelowBelow
  <2> QED  BY ONLY <2>1, <2>2, <1>10, <1>11
<1>12. ASSUME NEW m \in M \ {old}, sz[m] # Cardinality(sub2[m]) PROVE d \in sub2[m]
  <2>1. CASE m = y
    <3>1. d \in Swapped(sub[old] \ {y}, old, y)
      BY ONLY <1>3, <1>4, <1>11, old \in M
    <3> QED  BY ONLY <3>1, <2>1, <1>8
  <2>2. CASE m # y
    <3>1. y \in sub[m]
      <4> SUFFICES ASSUME y \notin sub[m] PROVE FALSE
        OBVIOUS
      <4>1. sub2[m] = Swapped(sub[m], old, y)
        <5>1. sub[m] \ {y} = sub[m]
          BY ONLY y \notin sub[m]
        <5> QED  BY ONLY <5>1, <2>2, <1>8, m \in M \ {old}
      <4>2. IsFiniteSet(sub[m])
        BY ONLY Shape(t, M, sub), m \in M \ {old}, SubSize
      <4>3. Cardinality(Swapped(sub[m], old, y)) = Cardinality(sub[m])
        BY ONLY <4>2, y \notin sub[m], SwappedSize
      <4> QED  BY ONLY <4>1, <4>3, <1>12, Wrong(M, sz, sub) = {}, m \in M \ {old} DEF Wrong
    <3>2. d \in Swapped(sub[m] \ {y}, old, y)
      BY ONLY <3>1, <2>2, <1>11, m \in M \ {old}
    <3> QED  BY ONLY <3>2, <2>2, <1>8, m \in M \ {old}
  <2> QED  BY ONLY <2>1, <2>2
<1> QED  BY ONLY <1>2, <1>9, <1>12 DEF Wrong, Above

\* A replacement makes nothing wrong.
LEMMA ReplaceWrong ==
    ASSUME NEW t, NEW M, NEW sub, Shape(t, M, sub), NEW old \in M, NEW new \in TreeNodes \ M,
           NEW sz, Wrong(M, sz, sub) = {}, NEW sz2, sz2[new] = sz[old],
           \A m \in M \ {old} : sz2[m] = sz[m]
    PROVE  Wrong((M \ {old}) \cup {new}, sz2, WithSwapped(sub, old, new)) = {}
<1>1. M \subseteq TreeNodes
  BY DEF Shape
<1>2. PICK sub2 : sub2 = WithSwapped(sub, old, new)
  OBVIOUS
<1>3. sub2[new] = Swapped(sub[old], old, new) /\ \A m \in M \ {old} : sub2[m] = Swapped(sub[m], old, new)
  BY ONLY <1>1, <1>2, new \in TreeNodes \ M DEF WithSwapped
<1>4. ASSUME NEW m \in M PROVE Cardinality(Swapped(sub[m], old, new)) = Cardinality(sub[m])
  <2>1. IsFiniteSet(sub[m])
    BY ONLY Shape(t, M, sub), m \in M, SubSize
  <2>2. sub[m] \subseteq M
    BY m \in M DEF Shape, Placed
  <2>3. new \notin sub[m]
    BY ONLY <2>2, new \in TreeNodes \ M
  <2> QED  BY ONLY <2>1, <2>3, SwappedSize
<1>5. \A m \in M : sz[m] = Cardinality(sub[m])
  BY ONLY Wrong(M, sz, sub) = {} DEF Wrong
<1>6. ASSUME NEW m \in (M \ {old}) \cup {new} PROVE sz2[m] = Cardinality(sub2[m])
  <2>1. CASE m = new
    BY ONLY <2>1, <1>3, <1>4, <1>5, old \in M, sz2[new] = sz[old]
  <2>2. CASE m # new
    BY ONLY <2>2, <1>3, <1>4, <1>5, m \in (M \ {old}) \cup {new}, \A k \in M \ {old} : sz2[k] = sz[k]
  <2> QED  BY ONLY <2>1, <2>2
<1> QED  BY ONLY <1>2, <1>6 DEF Wrong

\* What rb_augment_erase_begin returns: the node that moves up, or else its new parent.
LEMMA DeepestFrom ==
    ASSUME NEW t, NEW n
    PROVE  /\ \A s \in Sides : t.child[Opp(s)][n] = Nil =>
                 Deepest(t, n) = From(t.child[s][n], t.parent[n])
           /\ (\A s \in Sides : t.child[s][n] # Nil) =>
                \A y : y = Neighbour(t, n, "right") =>
                  Deepest(t, n) = From(t.child["right"][y], IF t.parent[y] = n THEN y ELSE t.parent[y])
<1>1. /\ "left" \in Sides /\ "right" \in Sides /\ Opp("left") = "right" /\ Opp("right") = "left"
      /\ \A s \in Sides : s = "left" \/ s = "right"
  BY Opposite DEF Sides
<1>2. ASSUME NEW s \in Sides, t.child[Opp(s)][n] = Nil
      PROVE  Deepest(t, n) = From(t.child[s][n], t.parent[n])
  <2>1. CASE s = "left"
    BY ONLY <2>1, <1>1, <1>2 DEF Deepest, From
  <2>2. CASE s = "right"
    BY ONLY <2>2, <1>1, <1>2 DEF Deepest, From
  <2> QED  BY ONLY <2>1, <2>2, <1>1, s \in Sides
<1>3. ASSUME \A s \in Sides : t.child[s][n] # Nil, NEW y, y = Neighbour(t, n, "right")
      PROVE  Deepest(t, n) = From(t.child["right"][y], IF t.parent[y] = n THEN y ELSE t.parent[y])
  BY ONLY <1>1, <1>3 DEF Deepest, From
<1> QED  BY ONLY <1>2, <1>3

-----------------------------------------------------------------------------
(* What the properties say, of a tree that is well.                         *)

\* Path finds the nodes that have n below them.
LEMMA PathIs ==
    ASSUME NEW sub, Shape(tree, members, sub), Loose(tree, members)
    PROVE  \A n \in members : Path(n) = {a \in members : n \in sub[a]}
<1>1. members \subseteq TreeNodes /\ Nil \notin TreeNodes
  BY NodeKeys DEF Shape
<1>2. \A m \in TreeNodes \ members : tree.parent[m] = m
  BY DEF Loose
<1>3. ASSUME NEW n \in members, tree.parent[n] = Nil PROVE {a \in members : n \in sub[a]} = {n}
  <2>1. n = tree.root
    BY ONLY Shape(tree, members, sub), n \in members, <1>3, SideTold
  <2>2. sub[n] = members
    BY ONLY Shape(tree, members, sub), <2>1, n \in members, <1>1 DEF Shape, Below
  <2>3. \A a \in members : n \in sub[a] => a = n
    <3> SUFFICES ASSUME NEW a \in members, n \in sub[a] PROVE a = n
      OBVIOUS
    <3>1. a \in sub[n]
      BY ONLY <2>2, a \in members
    <3> QED  BY ONLY Shape(tree, members, sub), n \in members, a \in members, n \in sub[a], <3>1, BelowBelow
  <2> QED  BY ONLY <2>2, <2>3, n \in members
<1>4. ASSUME NEW n \in members, tree.parent[n] # Nil
      PROVE  /\ tree.parent[n] \in members
             /\ {a \in members : n \in sub[a]} = {n} \cup {a \in members : tree.parent[n] \in sub[a]}
  <2>1. PICK p : p = tree.parent[n]
    OBVIOUS
  <2>2. n # tree.root
    BY ONLY Shape(tree, members, sub), n \in members, <1>4, SideTold
  <2>3. p \in members /\ \E s \in Sides : tree.child[s][p] = n
    BY ONLY Shape(tree, members, sub), n \in members, <2>1, <2>2, SideTold
  <2>4. PICK s \in Sides : tree.child[s][p] = n
    BY ONLY <2>3
  <2>5. n \in sub[n] /\ Below(sub, tree.child[s][p]) \subseteq sub[p]
    BY ONLY Shape(tree, members, sub), n \in members, <2>3, s \in Sides, Apart
  <2>6. n \in sub[p]
    BY ONLY <2>4, <2>5, <1>1, n \in members DEF Below
  <2>7. ASSUME NEW a \in members, p \in sub[a] PROVE n \in sub[a]
    BY ONLY Shape(tree, members, sub), a \in members, <2>6, <2>7, BelowBelow
  <2>8. ASSUME NEW a \in members, n \in sub[a], a # n PROVE p \in sub[a]
    BY ONLY Shape(tree, members, sub), n \in members, a \in members, <2>1, <2>8, ParentBelow
  <2>9. {a \in members : n \in sub[a]} = {n} \cup {a \in members : p \in sub[a]}
    BY ONLY <2>5, <2>7, <2>8, n \in members
  <2> QED  BY ONLY <2>1, <2>3, <2>9
<1> DEFINE Step(f) == [m \in TreeNodes |-> {m} \cup (IF tree.parent[m] = Nil THEN {} ELSE f[tree.parent[m]])]
           way == [m \in TreeNodes |-> IF m \in members THEN {a \in members : m \in sub[a]} ELSE {m}]
           Up == CHOOSE f : f = Step(f)
<1>5. way = Step(way)
  <2>1. ASSUME NEW m \in TreeNodes
        PROVE  way[m] = {m} \cup (IF tree.parent[m] = Nil THEN {} ELSE way[tree.parent[m]])
    <3>1. CASE m \notin members
      <4>1. tree.parent[m] = m /\ m # Nil
        BY ONLY <3>1, <1>1, <1>2, m \in TreeNodes
      <4>2. way[m] = {m}
        BY ONLY <3>1, m \in TreeNodes
      <4> QED  BY ONLY <4>1, <4>2
    <3>2. CASE m \in members /\ tree.parent[m] = Nil
      <4>1. way[m] = {a \in members : m \in sub[a]}
        BY ONLY <3>2, m \in TreeNodes
      <4> QED  BY ONLY <4>1, <3>2, <1>3
    <3>3. CASE m \in members /\ tree.parent[m] # Nil
      <4>1. way[m] = {a \in members : m \in sub[a]}
        BY ONLY <3>3, m \in TreeNodes
      <4>2. tree.parent[m] \in members /\ tree.parent[m] \in TreeNodes
        BY ONLY <3>3, <1>1, <1>4
      <4>3. way[tree.parent[m]] = {a \in members : tree.parent[m] \in sub[a]}
        BY ONLY <4>2
      <4> QED  BY ONLY <4>1, <4>3, <3>3, <1>4
    <3> QED  BY ONLY <3>1, <3>2, <3>3
  <2>2. way = [m \in TreeNodes |-> way[m]]
    OBVIOUS
  <2> HIDE DEF way
  <2> QED  BY ONLY <2>1, <2>2
<1>6. Up = Step(Up)
  <2> HIDE DEF way
  <2>1. \E f : f = Step(f)
    BY ONLY <1>5
  <2> QED  BY ONLY <2>1
<1>7. \A n : Path(n) = Up[n]
  BY DEF Path
<1> HIDE DEF Up, way
<1>8. \A m \in TreeNodes : Up[m] = {m} \cup (IF tree.parent[m] = Nil THEN {} ELSE Up[tree.parent[m]])
  BY ONLY <1>6
<1> DEFINE S == {m \in members : Up[m] = {a \in members : m \in sub[a]}}
<1>9. tree.root \in S \cup {Nil}
  <2> SUFFICES ASSUME tree.root # Nil PROVE tree.root \in S
    OBVIOUS
  <2>1. tree.root \in members /\ tree.root \in TreeNodes /\ tree.parent[tree.root] = Nil
    BY tree.root # Nil, <1>1 DEF Shape
  <2> QED  BY ONLY <2>1, <1>3, <1>8
<1>10. \A n \in members \cap S : \A s \in Sides : tree.child[s][n] \in S \cup {Nil}
  <2> SUFFICES ASSUME NEW n \in members, n \in S, NEW s \in Sides, tree.child[s][n] # Nil
               PROVE  tree.child[s][n] \in S
    OBVIOUS
  <2>1. PICK c : c = tree.child[s][n]
    OBVIOUS
  <2>2. Only(tree, members, n, s, c)
    BY ONLY Shape(tree, members, sub), n \in members, s \in Sides, tree.child[s][n] # Nil, <2>1, ChildOnly
  <2>3. c \in members /\ c \in TreeNodes /\ tree.parent[c] = n /\ n # Nil
    BY ONLY <2>2 DEF Only
  <2>4. Up[c] = {c} \cup Up[n]
    BY ONLY <2>3, <1>8
  <2>5. {a \in members : c \in sub[a]} = {c} \cup {a \in members : n \in sub[a]}
    BY ONLY <2>3, <1>4
  <2> QED  BY ONLY <2>1, <2>3, <2>4, <2>5, n \in S
<1> HIDE DEF S
<1>11. members \subseteq S
  BY ONLY Shape(tree, members, sub), <1>9, <1>10, DownInduction
<1> QED  BY ONLY <1>7, <1>11 DEF S

\* The black nodes above a node and those below it make the height of the tree.
LEMMA BlackDepthIs ==
    ASSUME NEW sub, Shape(tree, members, sub), Loose(tree, members),
           NEW bh \in [TreeNodes -> Nat], \A n \in members : Even(tree, bh, n)
    PROVE  \A n \in members, s \in Sides :
             BlackDepth(n) \in Nat /\ BlackDepth(n) + Height(bh, tree.child[s][n]) = bh[tree.root]
<1>1. members \subseteq TreeNodes /\ Nil \notin TreeNodes /\ IsFiniteSet(members)
  BY NodeKeys DEF Shape
<1> DEFINE Blacks(n) == {m \in {a \in members : n \in sub[a]} : tree.color[m] = "black"}
           S == {n \in members : \A s \in Sides : Cardinality(Blacks(n)) \in Nat /\
                    Cardinality(Blacks(n)) + Height(bh, tree.child[s][n]) = bh[tree.root]}
<1>2. \A n \in members : BlackDepth(n) = Cardinality(Blacks(n))
  <2>1. \A n \in members : Path(n) = {a \in members : n \in sub[a]}
    BY PathIs
  <2> QED  BY ONLY <2>1 DEF BlackDepth
<1>3. \A n : IsFiniteSet(Blacks(n)) /\ Cardinality(Blacks(n)) \in Nat
  <2>1. \A n : Blacks(n) \in SUBSET members
    OBVIOUS
  <2>2. \A n : IsFiniteSet(Blacks(n))
    BY ONLY <2>1, <1>1, FS_Subset
  <2> QED  BY ONLY <2>2, FS_CardinalityType
<1>4. \A n \in members, s \in Sides : /\ bh[n] = Height(bh, tree.child[s][n]) + Weight(tree, n)
                                      /\ Height(bh, tree.child[s][n]) \in Nat
  <2> SUFFICES ASSUME NEW n \in members, NEW s \in Sides
               PROVE  /\ bh[n] = Height(bh, tree.child[s][n]) + Weight(tree, n)
                      /\ Height(bh, tree.child[s][n]) \in Nat
    OBVIOUS
  <2>1. EvenSeen(tree, bh, n, s)
    BY ONLY n \in members, s \in Sides, \A m \in members : Even(tree, bh, m), EvenFrom
  <2>2. Height(bh, tree.child[s][n]) \in Nat
    BY ONLY Shape(tree, members, sub), n \in members, s \in Sides, bh \in [TreeNodes -> Nat], HeightNat
  <2> QED  BY ONLY <2>1, <2>2 DEF EvenSeen
\* A node more on the way.
<1>5. ASSUME NEW B, IsFiniteSet(B), NEW n \in members, n \notin B, NEW B2,
             B2 = IF tree.color[n] = "black" THEN B \cup {n} ELSE B
      PROVE  Cardinality(B2) = Cardinality(B) + Weight(tree, n) /\ Cardinality(B) \in Nat
  <2>1. Cardinality(B) \in Nat
    BY ONLY <1>5, FS_CardinalityType
  <2>2. CASE tree.color[n] = "black"
    <3>1. Cardinality(B \cup {n}) = Cardinality(B) + 1
      BY ONLY <1>5, FS_AddElement
    <3> QED  BY ONLY <3>1, <2>1, <2>2, <1>5 DEF Weight
  <2>3. CASE tree.color[n] # "black"
    BY ONLY <2>1, <2>3, <1>5 DEF Weight
  <2> QED  BY ONLY <2>2, <2>3
<1>6. tree.root \in S \cup {Nil}
  <2> SUFFICES ASSUME tree.root # Nil PROVE tree.root \in S
    OBVIOUS
  <2>1. PICK r : r = tree.root
    OBVIOUS
  <2>2. r \in members /\ sub[r] = members
    BY ONLY <2>1, tree.root # Nil, Shape(tree, members, sub) DEF Shape, Below
  <2>3. \A a \in members : r \in sub[a] => a = r
    <3> SUFFICES ASSUME NEW a \in members, r \in sub[a] PROVE a = r
      OBVIOUS
    <3> QED  BY ONLY Shape(tree, members, sub), <2>2, a \in members, r \in sub[a], BelowBelow
  <2>4. Blacks(r) = IF tree.color[r] = "black" THEN {} \cup {r} ELSE {}
    BY ONLY <2>2, <2>3
  <2>5. IsFiniteSet({}) /\ r \notin {} /\ Cardinality({}) = 0
    BY FS_EmptySet
  <2>6. Cardinality(Blacks(r)) = Cardinality({}) + Weight(tree, r) /\ Cardinality({}) \in Nat
    BY ONLY <2>2, <2>4, <2>5, <1>5
  <2>7. Cardinality(Blacks(r)) = Weight(tree, r) /\ Weight(tree, r) \in Nat
    <3>1. Weight(tree, r) \in Nat
      BY ONLY WeightIs
    <3> QED  BY ONLY <2>5, <2>6, <3>1
  <2>8. ASSUME NEW s \in Sides PROVE Cardinality(Blacks(r)) + Height(bh, tree.child[s][r]) = bh[r]
    <3>1. bh[r] = Height(bh, tree.child[s][r]) + Weight(tree, r) /\ Height(bh, tree.child[s][r]) \in Nat
      BY ONLY <1>4, <2>2, s \in Sides
    <3> QED  BY ONLY <3>1, <2>7
  <2> HIDE DEF Blacks
  <2> QED  BY ONLY <2>1, <2>2, <2>8, <1>3
<1>7. \A n \in members \cap S : \A s \in Sides : tree.child[s][n] \in S \cup {Nil}
  <2> SUFFICES ASSUME NEW n \in members, n \in S, NEW s \in Sides, tree.child[s][n] # Nil
               PROVE  tree.child[s][n] \in S
    OBVIOUS
  <2>1. PICK c : c = tree.child[s][n]
    OBVIOUS
  <2>2. Only(tree, members, n, s, c)
    BY ONLY Shape(tree, members, sub), n \in members, s \in Sides, tree.child[s][n] # Nil, <2>1, ChildOnly
  <2>3. c \in members /\ c \in TreeNodes /\ tree.parent[c] = n /\ n # Nil /\ c # Nil
    BY ONLY <2>2 DEF Only
  <2>4. \A a \in members : c \in sub[a] <=> a = c \/ n \in sub[a]
    <3>1. ASSUME NEW a \in members, c \in sub[a], a # c PROVE n \in sub[a]
      BY ONLY Shape(tree, members, sub), a \in members, <2>3, <3>1, ParentBelow
    <3>2. c \in sub[c] /\ Below(sub, tree.child[s][n]) \subseteq sub[n]
      BY ONLY Shape(tree, members, sub), n \in members, <2>3, s \in Sides, Apart
    <3>3. c \in sub[n]
      BY ONLY <3>2, <2>1, <2>3 DEF Below
    <3>4. ASSUME NEW a \in members, n \in sub[a] PROVE c \in sub[a]
      BY ONLY Shape(tree, members, sub), a \in members, <3>3, <3>4, BelowBelow
    <3> QED  BY ONLY <3>1, <3>2, <3>4
  <2>5. c \notin Blacks(n)
    <3>1. n \notin sub[c]
      <4>1. n \in sub[n] /\ n \notin Below(sub, tree.child[s][n])
        BY ONLY Shape(tree, members, sub), n \in members, s \in Sides, Apart
      <4> QED  BY ONLY <4>1, <2>1, <2>3 DEF Below
    <3> QED  BY ONLY <3>1
  <2>6. Blacks(c) = IF tree.color[c] = "black" THEN Blacks(n) \cup {c} ELSE Blacks(n)
    BY ONLY <2>3, <2>4
  <2> HIDE DEF Blacks
  <2>7. Cardinality(Blacks(c)) = Cardinality(Blacks(n)) + Weight(tree, c)
    BY ONLY <2>3, <2>5, <2>6, <1>3, <1>5
  <2>8. Height(bh, c) = bh[c]
    BY ONLY <2>3 DEF Height
  <2>9. PICK i, w : i = Cardinality(Blacks(n)) /\ w = Weight(tree, c)
    OBVIOUS
  <2>10. i \in Nat /\ w \in Nat
    BY ONLY <2>9, <1>3, WeightIs
  <2>11. i + bh[c] = bh[tree.root]
    BY ONLY <2>1, <2>8, <2>9, n \in S, s \in Sides
  <2>12. ASSUME NEW x \in Sides PROVE Cardinality(Blacks(c)) + Height(bh, tree.child[x][c]) = bh[tree.root]
    <3>1. PICK h \in Nat : h = Height(bh, tree.child[x][c]) /\ bh[c] = h + w
      BY ONLY <1>4, <2>3, <2>9, x \in Sides
    <3>2. (i + w) + h = i + (h + w)
      BY ONLY <2>10, h \in Nat
    <3> QED  BY ONLY <3>1, <3>2, <2>7, <2>9, <2>11
  <2> QED  BY ONLY <2>1, <2>3, <2>12, <1>3
<1> HIDE DEF S
<1>8. members \subseteq S
  BY ONLY Shape(tree, members, sub), <1>6, <1>7, DownInduction
<1> HIDE DEF Blacks
<1> QED  BY ONLY <1>2, <1>3, <1>8 DEF S

\* A tree that is well has what TreeBalanced asks for.
LEMMA BalancedTold ==
    ASSUME NEW sub, Shape(tree, members, sub), Loose(tree, members), NEW bh, Balanced(tree, members, bh)
    PROVE  TreeBalanced
<1>1. members \subseteq TreeNodes /\ Nil \notin TreeNodes /\ Nil \notin members
  BY NodeKeys DEF Shape
<1>2. /\ bh \in [TreeNodes -> Nat] /\ (\A n \in members : Even(tree, bh, n))
      /\ (\A a, b \in members : ~ RedPair(tree, members, a, b)) /\ ~ IsRed(tree, tree.root)
  BY ONLY Balanced(tree, members, bh) DEF Balanced
<1>3. tree.root = Nil <=> members = {}
  <2>1. tree.root = Nil => members = {}
    BY DEF Shape, Below
  <2>2. tree.root # Nil => tree.root \in members
    BY DEF Shape
  <2> QED  BY ONLY <2>1, <2>2
<1>4. ASSUME NEW n \in members PROVE tree.root \in Path(n)
  <2>1. Path(n) = {a \in members : n \in sub[a]}
    BY ONLY Shape(tree, members, sub), Loose(tree, members), n \in members, PathIs
  <2>2. tree.root \in members /\ sub[tree.root] = members
    BY ONLY Shape(tree, members, sub), n \in members, <1>3 DEF Shape, Below
  <2> QED  BY ONLY <2>1, <2>2, n \in members
<1>5. ASSUME NEW n \in members, NEW s \in Sides, tree.child[s][n] # Nil
      PROVE  /\ tree.child[s][n] \in members /\ tree.parent[tree.child[s][n]] = n
             /\ IsRed(tree, n) => ~ IsRed(tree, tree.child[s][n])
  <2>1. Only(tree, members, n, s, tree.child[s][n])
    BY ONLY Shape(tree, members, sub), n \in members, s \in Sides, <1>5, ChildOnly
  <2>2. tree.child[s][n] \in members /\ tree.parent[tree.child[s][n]] = n
    BY ONLY <2>1 DEF Only
  <2> QED  BY ONLY <2>2, <1>2, n \in members DEF RedPair
<1>6. ASSUME NEW n \in members, \E s \in Sides : tree.child[s][n] = Nil
      PROVE  BlackDepth(n) = bh[tree.root]
  <2>1. PICK s \in Sides : tree.child[s][n] = Nil
    BY ONLY <1>6
  <2>2. BlackDepth(n) \in Nat /\ BlackDepth(n) + Height(bh, tree.child[s][n]) = bh[tree.root]
    BY ONLY Shape(tree, members, sub), Loose(tree, members), <1>2, n \in members, s \in Sides, BlackDepthIs
  <2>3. Height(bh, tree.child[s][n]) = 0
    BY ONLY <2>1 DEF Height
  <2> QED  BY ONLY <2>2, <2>3
<1>7. \A n \in members :
        /\ tree.root \in Path(n)
        /\ \A s \in Sides : LET c == tree.child[s][n] IN c # Nil => c \in members /\ tree.parent[c] = n
        /\ IsRed(tree, n) => \A s \in Sides : ~ IsRed(tree, tree.child[s][n])
  BY ONLY <1>4, <1>5, NilBlack
<1>8. \A n, m \in members :
        (\A k \in {n, m} : \E s \in Sides : tree.child[s][k] = Nil) => BlackDepth(n) = BlackDepth(m)
  <2> SUFFICES ASSUME NEW n \in members, NEW m \in members,
                      \A k \in {n, m} : \E s \in Sides : tree.child[s][k] = Nil
               PROVE  BlackDepth(n) = BlackDepth(m)
    OBVIOUS
  <2>1. (\E s \in Sides : tree.child[s][n] = Nil) /\ (\E s \in Sides : tree.child[s][m] = Nil)
    OBVIOUS
  <2> QED  BY ONLY <2>1, <1>6, n \in members, m \in members
<1>9. (tree.root = Nil) = (members = {})
  BY ONLY <1>3
<1> QED  BY ONLY <1>2, <1>7, <1>8, <1>9 DEF TreeBalanced

\* The order of the keys, as InOrder states it.
Closest(S, s) ==
    IF S = {} THEN Nil
    ELSE CHOOSE m \in S : \A k \in S : IF s = "right" THEN Key[m] <= Key[k] ELSE Key[m] >= Key[k]

LEMMA ClosestIs ==
    ASSUME NEW t, NEW M, NEW sub, Shape(t, M, sub), NEW S \in SUBSET M, NEW s \in Sides,
           NEW n, Nearest(S, n, s)
    PROVE  n = Closest(S, s)
<1>1. CASE S = {}
  BY ONLY Nearest(S, n, s), <1>1 DEF Nearest, Closest
<1>2. CASE S # {}
  <2>1. n \in S /\ \A m \in S \ {n} : Before(Opp(s), n, m)
    BY ONLY Nearest(S, n, s), <1>2 DEF Nearest, First
  <2>2. \A m \in M : Key[m] \in Nat
    BY NodeKeys DEF Shape
  <2>3. \A x, y \in M : Key[x] = Key[y] => x = y
    BY ONLY Shape(t, M, sub), Distinct
  <2> DEFINE Good(m) == \A k \in S : IF s = "right" THEN Key[m] <= Key[k] ELSE Key[m] >= Key[k]
  <2>4. Good(n)
    <3>1. CASE s = "right"
      <4>1. \A m \in S \ {n} : Key[n] < Key[m]
        BY ONLY <2>1, <3>1, Opposite DEF Before
      <4> QED  BY ONLY <4>1, <2>1, <2>2, <3>1, S \in SUBSET M
    <3>2. CASE s = "left"
      <4>1. \A m \in S \ {n} : Key[m] < Key[n]
        BY ONLY <2>1, <3>2, Opposite DEF Before
      <4> QED  BY ONLY <4>1, <2>1, <2>2, <3>2, S \in SUBSET M
    <3> QED  BY ONLY <3>1, <3>2, s \in Sides DEF Sides
  <2>5. ASSUME NEW m \in S, Good(m) PROVE m = n
    <3>1. Key[m] = Key[n]
      <4>1. IF s = "right" THEN Key[m] <= Key[n] ELSE Key[m] >= Key[n]
        BY ONLY <2>1, <2>5
      <4>2. IF s = "right" THEN Key[n] <= Key[m] ELSE Key[n] >= Key[m]
        BY ONLY <2>4, m \in S
      <4> QED  BY ONLY <4>1, <4>2, <2>1, <2>2, m \in S, S \in SUBSET M
    <3> QED  BY ONLY <3>1, <2>1, <2>3, m \in S, S \in SUBSET M
  <2>6. Closest(S, s) = CHOOSE m \in S : Good(m)
    BY ONLY <1>2 DEF Closest
  <2> HIDE DEF Good
  <2>7. (CHOOSE m \in S : Good(m)) \in S /\ Good(CHOOSE m \in S : Good(m))
    BY ONLY <2>1, <2>4
  <2> QED  BY ONLY <2>5, <2>6, <2>7
<1> QED  BY ONLY <1>1, <1>2

\* And what InOrder asks for.
LEMMA OrderTold ==
    ASSUME NEW sub, Shape(tree, members, sub), Loose(tree, members)
    PROVE  InOrder
<1>1. members \subseteq TreeNodes /\ Nil \notin TreeNodes
  BY NodeKeys DEF Shape
<1>2. ASSUME NEW s \in Sides PROVE End(tree, Opp(s)) = Closest(members, s)
  <2>1. Opp(s) \in Sides
    BY ONLY s \in Sides, Opposite
  <2>2. Nearest(members, End(tree, Opp(s)), s)
    <3>1. CASE tree.root = Nil
      <4>1. members = {}
        BY ONLY Shape(tree, members, sub), <3>1 DEF Shape, Below
      <4> QED  BY ONLY <4>1, <3>1 DEF Nearest, End
    <3>2. CASE tree.root # Nil
      <4>1. tree.root \in members /\ sub[tree.root] = members
        BY ONLY Shape(tree, members, sub), <3>2 DEF Shape, Below
      <4>2. First(sub[tree.root], Outermost(tree, tree.root, Opp(s)), Opp(s))
        BY ONLY Shape(tree, members, sub), Loose(tree, members), <2>1, <4>1, OutermostFirst
      <4> QED  BY ONLY <4>1, <4>2, <3>2 DEF Nearest, End
    <3> QED  BY ONLY <3>1, <3>2
  <2>3. members \in SUBSET members
    OBVIOUS
  <2> QED  BY ONLY Shape(tree, members, sub), <2>2, <2>3, s \in Sides, ClosestIs
<1>3. ASSUME NEW s \in Sides, NEW n \in members
      PROVE  Neighbour(tree, n, s) = Closest(BeyondNode(members, n, s), s)
  <2>1. Nearest(BeyondNode(members, n, s), Neighbour(tree, n, s), s)
    BY ONLY Shape(tree, members, sub), Loose(tree, members), s \in Sides, n \in members, NeighbourNearest
  <2>2. BeyondNode(members, n, s) \in SUBSET members
    BY DEF BeyondNode
  <2> QED  BY ONLY Shape(tree, members, sub), <2>1, <2>2, s \in Sides, ClosestIs
<1>4. ASSUME NEW s \in Sides, NEW n \in members
      PROVE  BeyondNode(members, n, s) =
               {m \in members : IF s = "right" THEN Key[m] > Key[n] ELSE Key[m] < Key[n]}
  <2>1. \A m \in members : Key[m] \in Nat
    BY <1>1, NodeKeys
  <2>2. CASE s = "right"
    <3>1. \A m \in members : Before(s, m, n) <=> Key[m] > Key[n]
      BY ONLY <2>1, <2>2, n \in members DEF Before
    <3> QED  BY ONLY <3>1, <2>2 DEF BeyondNode
  <2>3. CASE s = "left"
    <3>1. \A m \in members : Before(s, m, n) <=> Key[m] < Key[n]
      BY ONLY <2>3 DEF Before
    <3> QED  BY ONLY <3>1, <2>3 DEF BeyondNode
  <2> QED  BY ONLY <2>2, <2>3, s \in Sides DEF Sides
<1>5. ASSUME NEW s \in Sides, NEW n \in TreeNodes \ members PROVE Neighbour(tree, n, s) = Nil
  BY ONLY Loose(tree, members), n \in TreeNodes \ members DEF Loose, Neighbour
<1>6. ASSUME NEW s \in Sides
      PROVE  LET Beyond(n) == {m \in members : IF s = "right" THEN Key[m] > Key[n] ELSE Key[m] < Key[n]}
                 Nearby(S) == IF S = {} THEN Nil
                               ELSE CHOOSE m \in S : \A k \in S :
                                     IF s = "right" THEN Key[m] <= Key[k] ELSE Key[m] >= Key[k]
             IN  /\ End(tree, Opp(s)) = Nearby(members)
                 /\ \A n \in members : Neighbour(tree, n, s) = Nearby(Beyond(n))
                 /\ \A n \in TreeNodes \ members : Neighbour(tree, n, s) = Nil
  <2>1. End(tree, Opp(s)) = Closest(members, s)
    BY ONLY <1>2, s \in Sides
  <2>2. ASSUME NEW n \in members
        PROVE  Neighbour(tree, n, s) =
                 Closest({m \in members : IF s = "right" THEN Key[m] > Key[n] ELSE Key[m] < Key[n]}, s)
    BY ONLY <1>3, <1>4, s \in Sides, n \in members
  <2> QED  BY ONLY <2>1, <2>2, <1>5, s \in Sides DEF Closest
<1> QED  BY ONLY <1>6 DEF InOrder

\* And what AugmentExact asks for.
LEMMA ExactTold ==
    ASSUME NEW sub, Shape(tree, members, sub), Loose(tree, members), Wrong(members, size, sub) = {}
    PROVE  AugmentExact
<1>1. ASSUME NEW n \in members PROVE size[n] = Cardinality({m \in members : n \in Path(m)})
  <2>1. \A m \in members : Path(m) = {a \in members : m \in sub[a]}
    BY PathIs
  <2>2. sub[n] \subseteq members
    BY n \in members DEF Shape, Placed
  <2>3. {m \in members : n \in Path(m)} = sub[n]
    BY ONLY <2>1, <2>2, n \in members
  <2>4. size[n] = Cardinality(sub[n])
    BY ONLY Wrong(members, size, sub) = {}, n \in members DEF Wrong
  <2> QED  BY ONLY <2>3, <2>4
<1> QED  BY ONLY <1>1 DEF AugmentExact

-----------------------------------------------------------------------------
(* The invariant.                                                           *)

\* The locals of a call.
CallType == [op : {"none", "insert", "augment", "erase", "erased"}, node : TreeNodes \cup {Nil},
             parent : TreeNodes \cup {Nil}, of : TreeNodes \cup {Nil}, deepest : TreeNodes \cup {Nil}]

\* During an insertion.
InsertWell(t, M, sz, c, sub, bh) ==
    /\ c.of \in M /\ Grown(t, M, bh, c.node)
    /\ AugmentFrom(t, c.of) \in M /\ Wrong(M, sz, sub) \subseteq Due(t, M, sub, AugmentFrom(t, c.of))
    /\ IsRed(t, t.parent[c.node]) => c.of \in sub[c.node] /\ Wrong(M, sz, sub) \subseteq Above(M, sub, c.of)

\* While the loop of a removal goes on.
EraseWell(t, M, sz, c, sub, bh) ==
    IF c.node = t.root THEN Rooted(t, M, bh)
    ELSE /\ Light(t, M, bh, c.node, c.parent)
         /\ ~ IsRed(t, c.node) => /\ c.deepest = c.parent \/ c.deepest \in Below(sub, c.node)
                                  /\ Wrong(M, sz, sub) \subseteq Above(M, sub, c.deepest)

\* During a removal.
Gone(t, M, sz, c, sub) ==
    /\ c.of \in TreeNodes \ M
    /\ IF M = {} THEN c.deepest = Nil ELSE c.deepest \in M
    /\ Wrong(M, sz, sub) \subseteq Due(t, M, sub, c.deepest)

\* The nodes that need not be loose.
Held(M, c) == IF c.op \in {"erase", "erased"} THEN M \cup {c.of} ELSE M

\* What holds at each stage of a call, of the tree, its colours and its data.
Well(t, M, sz, c, sub, bh) ==
    /\ Shape(t, M, sub) /\ Loose(t, Held(M, c))
    /\ sz \in [TreeNodes -> Nat] /\ c \in CallType
    /\ c.op = "none" => c = Idle /\ Balanced(t, M, bh) /\ Wrong(M, sz, sub) = {}
    /\ c.op = "augment" => /\ Balanced(t, M, bh) /\ c.node \in M
                           /\ Wrong(M, sz, sub) \subseteq Due(t, M, sub, c.node)
    /\ c.op = "insert" => InsertWell(t, M, sz, c, sub, bh)
    /\ c.op = "erased" => Balanced(t, M, bh) /\ Gone(t, M, sz, c, sub)
    /\ c.op = "erase" => EraseWell(t, M, sz, c, sub, bh) /\ Gone(t, M, sz, c, sub)

\* It does so for some sets of nodes below and some black heights.
IsWell(t, M, sz, c) == \E sub, bh : Well(t, M, sz, c, sub, bh)

\* The inductive invariant.
TreeInv == IsWell(tree, members, size, call)

\* The parent has what its child has below it.
LEMMA UpBelow ==
    ASSUME NEW t, NEW M, NEW sub, Shape(t, M, sub), NEW n \in M, NEW p, p = t.parent[n], p # Nil
    PROVE  p \in M /\ n \in sub[n] /\ sub[n] \subseteq sub[p]
<1>1. n # t.root
  BY ONLY Shape(t, M, sub), n \in M, p = t.parent[n], p # Nil, SideTold
<1>2. p \in M /\ \E s \in Sides : t.child[s][p] = n
  BY ONLY Shape(t, M, sub), n \in M, p = t.parent[n], <1>1, SideTold
<1>3. PICK s \in Sides : t.child[s][p] = n
  BY ONLY <1>2
<1>4. Below(sub, t.child[s][p]) \subseteq sub[p] /\ n \in sub[n]
  BY ONLY Shape(t, M, sub), n \in M, <1>2, s \in Sides, Apart
<1>5. n # Nil
  BY n \in M, NodeKeys DEF Shape
<1> QED  BY ONLY <1>2, <1>3, <1>4, <1>5 DEF Below

\* Rotations leave the loose nodes alone.
LEMMA RotateLoose ==
    ASSUME NEW t, NEW M, NEW sub, Shape(t, M, sub), NEW L, M \subseteq L, Loose(t, L),
           NEW n \in M, NEW s \in Sides, NEW up \in M, NEW t2, Rotated(t, n, s, up, M, t2)
    PROVE  Loose(t2, L)
<1>1. /\ \A x \in Sides, m \in TreeNodes :
           t2.child[x][m] = IF m = n /\ x = Opp(s) THEN t.child[s][up]
                            ELSE IF m = up /\ x = s THEN n
                            ELSE IF m \in M /\ t.child[x][m] = n THEN up
                            ELSE t.child[x][m]
      /\ \A m \in TreeNodes :
           t2.parent[m] = IF m = n THEN up ELSE IF m = up THEN t.parent[n]
                          ELSE IF m = t.child[s][up] THEN n ELSE t.parent[m]
  BY ONLY Rotated(t, n, s, up, M, t2) DEF Rotated
<1>2. t.child[s][up] \in M \cup {Nil} /\ Nil \notin TreeNodes
  BY NodeKeys DEF Shape, Placed
<1> QED  BY ONLY <1>1, <1>2, M \subseteq L, Loose(t, L), n \in M, up \in M DEF Loose

\* So does painting.
LEMMA PaintLoose ==
    ASSUME NEW t, NEW n, NEW c, NEW t2, Painted(t, n, c, t2), NEW L, Loose(t, L)
    PROVE  Loose(t2, L)
BY DEF Painted, Loose

\* What rotating p does, after painting.
LEMMA TurnFacts ==
    ASSUME NEW t, NEW M, NEW sub, Shape(t, M, sub), NEW L, M \subseteq L, Loose(t, L),
           NEW n \in M, NEW s \in Sides, NEW up, up = t.child[Opp(s)][n], up # Nil,
           NEW t2, t2 = Rotate(t, n, s)
    PROVE  /\ Around(t, n, s, up, M, t2) /\ Loose(t2, L) /\ up \in M
           /\ \E sub2 : Shifted(t, n, s, up, sub, sub2) /\ Shape(t2, M, sub2)
<1>1. Rotated(t, n, s, up, M, t2)
  BY ONLY Shape(t, M, sub), n \in M, s \in Sides, up = t.child[Opp(s)][n], up # Nil, t2 = Rotate(t, n, s),
          RotateFacts
<1>2. Around(t, n, s, up, M, t2)
  BY ONLY Shape(t, M, sub), n \in M, s \in Sides, up = t.child[Opp(s)][n], up # Nil, <1>1, RotateAround
<1>3. up \in M
  BY ONLY <1>2 DEF Around
<1>4. PICK sub2 : Shifted(t, n, s, up, sub, sub2)
  BY ONLY Shape(t, M, sub), n \in M, s \in Sides, up = t.child[Opp(s)][n], up # Nil, ShiftedExists
<1>5. Shape(t2, M, sub2)
  BY ONLY Shape(t, M, sub), n \in M, s \in Sides, up = t.child[Opp(s)][n], up # Nil, <1>1, <1>4, RotateShape
<1>6. Loose(t2, L)
  BY ONLY Shape(t, M, sub), M \subseteq L, Loose(t, L), n \in M, s \in Sides, <1>1, <1>3, RotateLoose
<1> QED  BY ONLY <1>2, <1>3, <1>4, <1>5, <1>6

-----------------------------------------------------------------------------
(* Insertion keeps it.                                                      *)

\* Between calls nothing is wrong.
LEMMA IdleIs ==
    ASSUME NEW t, NEW M, NEW sz, NEW c, NEW sub, NEW bh, Well(t, M, sz, c, sub, bh), c = Idle
    PROVE  /\ Shape(t, M, sub) /\ Loose(t, M) /\ sz \in [TreeNodes -> Nat]
           /\ Balanced(t, M, bh) /\ Wrong(M, sz, sub) = {}
<1>1. c.op = "none"
  BY DEF Idle
<1> QED  BY <1>1 DEF Well, Held

\* A call has the type.
LEMMA CallTyped ==
    \A n, d \in TreeNodes \cup {Nil} :
      /\ Idle \in CallType
      /\ [Idle EXCEPT !.op = "insert", !.node = n, !.of = d] \in CallType
      /\ [Idle EXCEPT !.op = "augment", !.node = n] \in CallType
BY DEF Idle, CallType

\* The caller links a new node: it is red, and all that may be wrong.
LEMMA InsertKeeps ==
    ASSUME NEW sub, NEW bh, Well(tree, members, size, call, sub, bh), NEW n \in TreeNodes, Insert(n)
    PROVE  IsWell(tree', members', size', call')
<1>1. call = Idle
  BY DEF Insert
<1>2. /\ Shape(tree, members, sub) /\ Loose(tree, members) /\ size \in [TreeNodes -> Nat]
      /\ Balanced(tree, members, bh) /\ Wrong(members, size, sub) = {}
  BY ONLY Well(tree, members, size, call, sub, bh), <1>1, IdleIs
<1>3. \A m \in members : Key[m] # Key[n]
  BY DEF Insert
<1>4. PICK p : p = Leaf(tree, Key[n])
  OBVIOUS
<1>5. Vacant(tree, members, sub, n, p)
  BY ONLY <1>2, <1>3, <1>4, n \in TreeNodes, LeafVacant
<1>6. n \in TreeNodes \ members /\ tree \in TreeType /\ members \subseteq TreeNodes /\ n # Nil
  BY <1>2, <1>3, NodeKeys DEF Shape
<1>7. p \in TreeNodes \cup {Nil} /\ p # n /\ p \in members \cup {Nil}
  BY ONLY <1>5, <1>6 DEF Vacant
<1>8. Branch(n, p) \in Sides
  BY DEF Branch, Sides
<1>9. PICK t2 : t2 = tree'
  OBVIOUS
<1>10. Added(tree, n, p, Branch(n, p), t2)
  <2>1. t2 = Branched(tree, n, p, Branch(n, p))
    BY ONLY Insert(n), <1>4, <1>9 DEF Insert, Branch, Branched, WithParent, WithChild
  <2> QED  BY ONLY <2>1, <1>6, <1>7, <1>8, LinkFacts
<1>11. PICK M2 : M2 = members \cup {n}
  OBVIOUS
<1>12. PICK sub2 : sub2 = WithLeaf(sub, n, p)
  OBVIOUS
<1>13. Shape(t2, M2, sub2)
  BY ONLY <1>2, <1>3, <1>5, <1>6, <1>10, <1>11, <1>12, AddShape
<1>14. PICK bh2 : Grown(t2, M2, bh2, n)
  BY ONLY <1>2, <1>5, <1>6, <1>10, <1>11, AddGrown
<1>15. n \in sub2[n] /\ Wrong(M2, size, sub2) \subseteq Above(M2, sub2, n)
  BY ONLY <1>2, <1>6, <1>11, <1>12, AddWrong
<1>16. AugmentFrom(t2, n) \in M2 /\ Wrong(M2, size, sub2) \subseteq Due(t2, M2, sub2, AugmentFrom(t2, n))
  <2>1. n \in M2
    BY ONLY <1>11
  <2>2. /\ AugmentFrom(t2, n) \in M2
        /\ Above(M2, sub2, n) \cup {e \in M2 : t2.parent[e] = n} \subseteq Due(t2, M2, sub2, AugmentFrom(t2, n))
    BY ONLY <2>1, <1>13, <1>15, DueFrom
  <2> QED  BY ONLY <2>2, <1>15
<1>17. Loose(t2, M2)
  <2>1. /\ \A y \in Sides, m \in TreeNodes :
             t2.child[y][m] = IF m = n THEN Nil ELSE IF m = p /\ y = Branch(n, p) THEN n ELSE tree.child[y][m]
        /\ \A m \in TreeNodes : t2.parent[m] = IF m = n THEN p ELSE tree.parent[m]
    BY ONLY <1>10 DEF Added
  <2>2. Nil \notin TreeNodes
    BY NodeKeys
  <2> QED  BY ONLY <2>1, <2>2, <1>2, <1>7, <1>11 DEF Loose
<1>18. PICK c : c = call'
  OBVIOUS
<1>19. c \in CallType /\ c.op = "insert" /\ c.node = n /\ c.of = n
  <2>1. c = [Idle EXCEPT !.op = "insert", !.node = n, !.of = n]
    BY ONLY Insert(n), <1>18 DEF Insert
  <2> QED  BY ONLY <2>1, <1>6, CallTyped DEF Idle
<1>20. InsertWell(t2, M2, size, c, sub2, bh2)
  BY ONLY <1>11, <1>14, <1>15, <1>16, <1>19 DEF InsertWell
<1>21. Well(t2, M2, size, c, sub2, bh2)
  BY ONLY <1>2, <1>13, <1>17, <1>19, <1>20 DEF Well, Held
<1>22. members' = M2 /\ size' = size
  BY ONLY Insert(n), <1>11 DEF Insert
<1> QED  BY ONLY <1>9, <1>18, <1>21, <1>22 DEF IsWell

\* What the loop of an insertion knows.
LEMMA InsertIs ==
    ASSUME NEW sub, NEW bh, Well(tree, members, size, call, sub, bh), call.op = "insert"
    PROVE  /\ Shape(tree, members, sub) /\ Loose(tree, members) /\ size \in [TreeNodes -> Nat]
           /\ call \in CallType /\ InsertWell(tree, members, size, call, sub, bh)
           /\ tree \in TreeType /\ members \subseteq TreeNodes /\ Nil \notin TreeNodes
<1>1. Held(members, call) = members
  BY DEF Held
<1> QED  BY <1>1, NodeKeys DEF Well, Shape

\* The uncle is red: the wrong node moves up two levels.
LEMMA RecolorKeeps ==
    ASSUME NEW sub, NEW bh, Well(tree, members, size, call, sub, bh), InsertRecolor
    PROVE  IsWell(tree', members', size', call')
<1>1. /\ call.op = "insert" /\ IsRed(tree, InsertParent) /\ IsRed(tree, InsertUncle)
      /\ size' = size /\ members' = members
  BY DEF InsertRecolor, Inserting
<1>2. /\ Shape(tree, members, sub) /\ Loose(tree, members) /\ size \in [TreeNodes -> Nat]
      /\ call \in CallType /\ InsertWell(tree, members, size, call, sub, bh)
      /\ tree \in TreeType /\ members \subseteq TreeNodes /\ Nil \notin TreeNodes
  BY ONLY Well(tree, members, size, call, sub, bh), <1>1, InsertIs
<1>3. PICK node, of, p, g, s, u : /\ node = call.node /\ of = call.of /\ p = tree.parent[node] /\ g = tree.parent[p]
                                  /\ s = SideOf(tree, p) /\ u = tree.child[Opp(s)][g]
  OBVIOUS
<1>4. InsertParent = p /\ InsertSide = s /\ InsertUncle = u
  BY ONLY <1>3 DEF InsertParent, InsertSide, InsertUncle
<1>5. /\ of \in members /\ Grown(tree, members, bh, node)
      /\ AugmentFrom(tree, of) \in members
      /\ Wrong(members, size, sub) \subseteq Due(tree, members, sub, AugmentFrom(tree, of))
      /\ of \in sub[node] /\ Wrong(members, size, sub) \subseteq Above(members, sub, of)
  BY ONLY <1>1, <1>2, <1>3, <1>4, Zenon DEF InsertWell
<1>6. RedParent(tree, members, node, p, g)
  BY ONLY <1>1, <1>2, <1>3, <1>4, <1>5, GrownFacts, Zenon
<1>7. p \in members /\ g \in members /\ s \in Sides /\ tree.child[s][g] = p /\ node \in members
  BY ONLY <1>3, <1>5, <1>6 DEF RedParent, Grown
<1>8. u # Nil /\ u \in TreeNodes
  <2>1. u # Nil
    BY ONLY <1>1, <1>4 DEF IsRed
  <2>2. Opp(s) \in Sides
    BY ONLY <1>7, Opposite
  <2>3. tree.child[Opp(s)][g] \in TreeNodes \cup {Nil}
    BY ONLY <1>2, <1>7, <2>2, TreeTyped
  <2> QED  BY ONLY <2>1, <2>3, <1>3
<1>9. PICK t2 : t2 = tree'
  OBVIOUS
<1>10. PICK ta : ta = Paint(tree, u, "black")
  OBVIOUS
<1>11. PICK tb : tb = Paint(ta, p, "black")
  OBVIOUS
<1>12. t2 = Paint(tb, g, "red")
  BY ONLY InsertRecolor, <1>3, <1>4, <1>9, <1>10, <1>11, Zenon DEF InsertRecolor
<1>13. Painted(tree, u, "black", ta)
  BY ONLY <1>2, <1>8, <1>10, PaintFacts
<1>14. ta \in TreeType
  BY ONLY <1>13 DEF Painted
<1>15. Painted(ta, p, "black", tb)
  BY ONLY <1>2, <1>7, <1>11, <1>14, PaintFacts
<1>16. tb \in TreeType
  BY ONLY <1>15 DEF Painted
<1>17. Painted(tb, g, "red", t2)
  BY ONLY <1>2, <1>7, <1>12, <1>16, PaintFacts
<1>18. /\ t2 \in TreeType /\ t2.child = tree.child /\ t2.parent = tree.parent /\ t2.root = tree.root
       /\ Recolored(tree, members, g, p, u, t2)
  BY ONLY <1>2, <1>13, <1>15, <1>17 DEF Painted, Recolored
<1>19. Shape(t2, members, sub)
  BY ONLY <1>2, <1>18, LinksShape
<1>20. PICK bh2 : Grown(t2, members, bh2, g)
  BY ONLY <1>1, <1>2, <1>3, <1>4, <1>5, <1>7, <1>18, GrownRecolor, Zenon
<1>21. Loose(t2, members)
  BY ONLY <1>2, <1>18 DEF Loose
<1>22. of \in sub[g]
  <2>1. p # Nil /\ g # Nil
    BY ONLY <1>2, <1>7
  <2>2. sub[node] \subseteq sub[p] /\ sub[p] \subseteq sub[g]
    BY ONLY <1>2, <1>3, <1>7, <2>1, UpBelow
  <2> QED  BY ONLY <2>2, <1>5
<1>23. /\ AugmentFrom(t2, of) = AugmentFrom(tree, of)
       /\ Due(t2, members, sub, AugmentFrom(tree, of)) = Due(tree, members, sub, AugmentFrom(tree, of))
  BY ONLY <1>18 DEF AugmentFrom, Due
<1>24. PICK c : c = call'
  OBVIOUS
<1>25. c = [call EXCEPT !.node = g]
  BY ONLY InsertRecolor, <1>3, <1>4, <1>24, Zenon DEF InsertRecolor
<1>26. c \in CallType /\ c.op = "insert" /\ c.node = g /\ c.of = of
  BY ONLY <1>1, <1>2, <1>3, <1>7, <1>25 DEF CallType
<1>27. InsertWell(t2, members, size, c, sub, bh2)
  BY ONLY <1>5, <1>20, <1>22, <1>23, <1>26 DEF InsertWell
<1>28. Well(t2, members, size, c, sub, bh2)
  BY ONLY <1>2, <1>19, <1>21, <1>26, <1>27 DEF Well, Held
<1> QED  BY ONLY <1>1, <1>9, <1>24, <1>28 DEF IsWell

\* The loop has ended: the root turns black.
LEMMA InsertDoneKeeps ==
    ASSUME NEW sub, NEW bh, Well(tree, members, size, call, sub, bh), InsertDone
    PROVE  IsWell(tree', members', size', call')
<1>1. /\ call.op = "insert" /\ ~ IsRed(tree, InsertParent)
      /\ size' = size /\ members' = members
  BY DEF InsertDone, Inserting
<1>2. /\ Shape(tree, members, sub) /\ Loose(tree, members) /\ size \in [TreeNodes -> Nat]
      /\ call \in CallType /\ InsertWell(tree, members, size, call, sub, bh)
      /\ tree \in TreeType /\ members \subseteq TreeNodes /\ Nil \notin TreeNodes
  BY ONLY Well(tree, members, size, call, sub, bh), <1>1, InsertIs
<1>3. PICK t2, c, d : t2 = tree' /\ c = call' /\ d = AugmentFrom(tree, call.of)
  OBVIOUS
<1>4. t2 = Paint(tree, tree.root, "black") /\ c = [Idle EXCEPT !.op = "augment", !.node = AugmentFrom(t2, call.of)]
  BY ONLY InsertDone, <1>3 DEF InsertDone
<1>5. Painted(tree, tree.root, "black", t2)
  <2>1. tree.root \in TreeNodes \cup {Nil}
    BY ONLY <1>2, TreeTyped
  <2> QED  BY ONLY <2>1, <1>2, <1>4, PaintFacts
<1>6. Shape(t2, members, sub) /\ Loose(t2, members)
  BY ONLY <1>2, <1>5, PaintShape, PaintLoose
<1>7. /\ Grown(tree, members, bh, call.node) /\ d \in members
      /\ Wrong(members, size, sub) \subseteq Due(tree, members, sub, d)
  BY ONLY <1>2, <1>3 DEF InsertWell
<1>8. PICK bh2 : Balanced(t2, members, bh2)
  <2>1. ~ IsRed(tree, tree.parent[call.node])
    BY ONLY <1>1 DEF InsertParent
  <2> QED  BY ONLY <2>1, <1>2, <1>5, <1>7, GrownDone
<1>9. AugmentFrom(t2, call.of) = d /\ Due(t2, members, sub, d) = Due(tree, members, sub, d)
  BY ONLY <1>3, <1>5 DEF Painted, AugmentFrom, Due
<1>10. c \in CallType /\ c.op = "augment" /\ c.node = d
  <2>1. c = [Idle EXCEPT !.op = "augment", !.node = d] /\ d \in TreeNodes \cup {Nil}
    BY ONLY <1>2, <1>4, <1>7, <1>9
  <2> QED  BY ONLY <2>1, CallTyped DEF Idle
<1>11. Well(t2, members, size, c, sub, bh2)
  BY ONLY <1>2, <1>6, <1>7, <1>8, <1>9, <1>10 DEF Well, Held
<1> QED  BY ONLY <1>1, <1>3, <1>11 DEF IsWell

\* The rotation that ends the loop of an insertion.
InsertEnds(t2, M, sz, node, of, sub2, bh2) ==
    /\ Shape(t2, M, sub2) /\ Loose(t2, M) /\ Grown(t2, M, bh2, node) /\ ~ IsRed(t2, t2.parent[node])
    /\ AugmentFrom(t2, of) \in M /\ Wrong(M, sz, sub2) \subseteq Due(t2, M, sub2, AugmentFrom(t2, of))

\* It does so.
LEMMA InsertLast ==
    ASSUME NEW t, NEW M, NEW sub, Shape(t, M, sub), Loose(t, M), NEW bh, NEW node, Grown(t, M, bh, node),
           NEW p, p = t.parent[node], IsRed(t, p), NEW g, g = t.parent[p],
           NEW s \in Sides, t.child[s][g] = p, t.child[s][p] = node, ~ IsRed(t, t.child[Opp(s)][g]),
           NEW of \in M, of \in sub[g], NEW sz, Wrong(M, sz, sub) \subseteq Above(M, sub, of) \cup {node},
           NEW t2, t2 = Rotate(Paint(Paint(t, p, "black"), g, "red"), g, Opp(s))
    PROVE  \E sub2, bh2 : InsertEnds(t2, M, sz, node, of, sub2, bh2)
<1>1. p \in M /\ g \in M /\ p # Nil /\ node \in M /\ t \in TreeType /\ M \subseteq TreeNodes /\ g # p
  <2>1. RedParent(t, M, node, p, g)
    BY ONLY Shape(t, M, sub), Grown(t, M, bh, node), p = t.parent[node], IsRed(t, p), g = t.parent[p], GrownFacts
  <2>2. t \in TreeType /\ M \subseteq TreeNodes
    BY ONLY Shape(t, M, sub) DEF Shape
  <2> QED  BY ONLY <2>1, <2>2, Grown(t, M, bh, node), IsRed(t, p) DEF RedParent, Grown, IsRed
<1>2. PICK ta : ta = Paint(t, p, "black")
  OBVIOUS
<1>3. PICK tb : tb = Paint(ta, g, "red")
  OBVIOUS
<1>4. t2 = Rotate(tb, g, Opp(s))
  BY ONLY <1>2, <1>3, t2 = Rotate(Paint(Paint(t, p, "black"), g, "red"), g, Opp(s))
<1>5. Painted(t, p, "black", ta)
  BY ONLY <1>1, <1>2, PaintFacts
<1>6. Painted(ta, g, "red", tb)
  <2>1. ta \in TreeType
    BY ONLY <1>5 DEF Painted
  <2> QED  BY ONLY <2>1, <1>1, <1>3, PaintFacts
<1>7. Shape(tb, M, sub) /\ Loose(tb, M)
  <2>1. Shape(ta, M, sub) /\ Loose(ta, M)
    BY ONLY <1>5, Shape(t, M, sub), Loose(t, M), PaintShape, PaintLoose
  <2> QED  BY ONLY <2>1, <1>6, PaintShape, PaintLoose
<1>8. GrownPainted(t, M, p, g, tb)
  BY ONLY <1>1, <1>5, <1>6 DEF Painted, GrownPainted
<1>9. PICK o \in Sides : o = Opp(s) /\ s = Opp(o)
  BY ONLY s \in Sides, Opposite
<1>10. p = tb.child[Opp(o)][g]
  BY ONLY <1>8, <1>9, t.child[s][g] = p DEF GrownPainted
<1>11. t2 = Rotate(tb, g, o)
  BY ONLY <1>4, <1>9
<1>12. /\ Around(tb, g, o, p, M, t2) /\ Loose(t2, M)
       /\ \E sub2 : Shifted(tb, g, o, p, sub, sub2) /\ Shape(t2, M, sub2)
  <2>1. M \subseteq M
    OBVIOUS
  <2> QED  BY ONLY <2>1, <1>1, <1>7, <1>10, <1>11, o \in Sides, TurnFacts
<1>13. PICK sub2 : Shifted(tb, g, o, p, sub, sub2) /\ Shape(t2, M, sub2)
  BY ONLY <1>12
<1>14. Around(tb, g, Opp(s), p, M, t2)
  BY ONLY <1>9, <1>12
<1>15. PICK bh2 : /\ Grown(t2, M, bh2, node) /\ t2.parent[node] = p /\ ~ IsRed(t2, p) /\ t2.parent[g] = p
  BY ONLY Shape(t, M, sub), Grown(t, M, bh, node), p = t.parent[node], IsRed(t, p), g = t.parent[p],
          s \in Sides, t.child[s][g] = p, t.child[s][p] = node, ~ IsRed(t, t.child[Opp(s)][g]),
          <1>7, <1>8, <1>14, GrownRotate
<1>16. of \in sub2[p] /\ Wrong(M, sz, sub2) \subseteq Above(M, sub2, of) \cup {node} \cup {g}
  <2>1. PICK E : E = {node}
    OBVIOUS
  <2>2. Wrong(M, sz, sub) \subseteq Above(M, sub, of) \cup E
    BY ONLY <2>1, Wrong(M, sz, sub) \subseteq Above(M, sub, of) \cup {node}
  <2>3. of \in sub2[p] /\ Wrong(M, sz, sub2) \subseteq Above(M, sub2, of) \cup E \cup {g}
    <3>1. Shape(tb, M, sub) /\ g \in M /\ p \in M /\ Shifted(tb, g, o, p, sub, sub2)
      BY ONLY <1>1, <1>7, <1>13
    <3>2. M \subseteq TreeNodes /\ sub2[p] = sub[g] /\ \A m \in TreeNodes : m # g /\ m # p => sub2[m] = sub[m]
      BY ONLY <3>1 DEF Shape, Shifted
    <3>3. \A m \in M : m # g /\ m # p => sub2[m] = sub[m]
      BY ONLY <3>2
    <3> QED  BY ONLY <3>1, <3>2, <3>3, of \in sub[g], <2>2 DEF Wrong, Above
  <2> QED  BY ONLY <2>1, <2>3
<1>17. /\ AugmentFrom(t2, of) \in M
       /\ Above(M, sub2, of) \cup {e \in M : t2.parent[e] = p} \subseteq Due(t2, M, sub2, AugmentFrom(t2, of))
  BY ONLY <1>1, <1>13, <1>16, of \in M, DueFrom
<1>18. Wrong(M, sz, sub2) \subseteq Due(t2, M, sub2, AugmentFrom(t2, of))
  BY ONLY <1>1, <1>15, <1>16, <1>17
<1>19. InsertEnds(t2, M, sz, node, of, sub2, bh2)
  BY ONLY <1>12, <1>13, <1>15, <1>17, <1>18 DEF InsertEnds
<1> QED  BY ONLY <1>19

\* The rotation before it, if node is on the inner side.
LEMMA InsertFirst ==
    ASSUME NEW t, NEW M, NEW sub, Shape(t, M, sub), Loose(t, M), NEW bh, NEW node, Grown(t, M, bh, node),
           NEW p, p = t.parent[node], IsRed(t, p), NEW g, g = t.parent[p],
           NEW s \in Sides, t.child[s][g] = p, t.child[Opp(s)][p] = node, ~ IsRed(t, t.child[Opp(s)][g]),
           NEW of \in M, of \in sub[node], NEW sz, Wrong(M, sz, sub) \subseteq Above(M, sub, of),
           NEW t1, t1 = Rotate(t, p, s),
           NEW t2, t2 = Rotate(Paint(Paint(t1, node, "black"), g, "red"), g, Opp(s))
    PROVE  \E sub2, bh2 : InsertEnds(t2, M, sz, p, of, sub2, bh2)
<1>1. p \in M /\ g \in M /\ p # Nil /\ node \in M /\ g # p /\ node # Nil
  <2>1. RedParent(t, M, node, p, g)
    BY ONLY Shape(t, M, sub), Grown(t, M, bh, node), p = t.parent[node], IsRed(t, p), g = t.parent[p], GrownFacts
  <2> QED  BY ONLY <2>1, Grown(t, M, bh, node), IsRed(t, p) DEF RedParent, Grown, IsRed
<1>2. /\ Around(t, p, s, node, M, t1) /\ Loose(t1, M)
      /\ \E sub1 : Shifted(t, p, s, node, sub, sub1) /\ Shape(t1, M, sub1)
  <2>1. M \subseteq M /\ node = t.child[Opp(s)][p]
    BY ONLY t.child[Opp(s)][p] = node
  <2> QED  BY ONLY <2>1, <1>1, Shape(t, M, sub), Loose(t, M), s \in Sides, t1 = Rotate(t, p, s), TurnFacts
<1>3. PICK sub1 : Shifted(t, p, s, node, sub, sub1) /\ Shape(t1, M, sub1)
  BY ONLY <1>2
<1>4. /\ Grown(t1, M, bh, p) /\ t1.parent[p] = node /\ IsRed(t1, node) /\ t1.parent[node] = g
      /\ t1.child[s][g] = node /\ t1.child[s][node] = p
      /\ t1.child[Opp(s)][g] = t.child[Opp(s)][g] /\ t1.color = t.color
  BY ONLY Shape(t, M, sub), Grown(t, M, bh, node), p = t.parent[node], IsRed(t, p), g = t.parent[p],
          s \in Sides, t.child[s][g] = p, t.child[Opp(s)][p] = node, <1>2, GrownTurn
<1>5. of \in sub[p]
  <2>1. sub[node] \subseteq sub[p]
    BY ONLY <1>1, Shape(t, M, sub), p = t.parent[node], UpBelow
  <2> QED  BY ONLY <2>1, of \in sub[node]
<1>6. of \in sub1[node] /\ Wrong(M, sz, sub1) \subseteq Above(M, sub1, of) \cup {} \cup {p}
  <2>1. Wrong(M, sz, sub) \subseteq Above(M, sub, of) \cup {}
    BY ONLY Wrong(M, sz, sub) \subseteq Above(M, sub, of)
  <2> QED  BY ONLY <2>1, <1>1, <1>3, <1>5, Shape(t, M, sub), RotateWrong
<1>7. of \in sub1[g]
  <2>1. g # Nil
    BY <1>1, Shape(t, M, sub), NodeKeys DEF Shape
  <2>2. node \in M /\ g = t1.parent[node]
    BY ONLY <1>1, <1>4
  <2>3. sub1[node] \subseteq sub1[g]
    BY ONLY <2>1, <2>2, <1>3, UpBelow
  <2> QED  BY ONLY <2>3, <1>6
<1>8. ~ IsRed(t1, t1.child[Opp(s)][g])
  BY ONLY <1>4, ~ IsRed(t, t.child[Opp(s)][g]) DEF IsRed
<1>9. Wrong(M, sz, sub1) \subseteq Above(M, sub1, of) \cup {p}
  BY ONLY <1>6
<1>10. node = t1.parent[p] /\ g = t1.parent[node]
  BY ONLY <1>4
<1> QED  BY ONLY <1>2, <1>3, <1>4, <1>7, <1>8, <1>9, <1>10, s \in Sides, of \in M,
                 t2 = Rotate(Paint(Paint(t1, node, "black"), g, "red"), g, Opp(s)), InsertLast

\* The uncle is black: one rotation or two end the loop.
LEMMA InsertRotateKeeps ==
    ASSUME NEW sub, NEW bh, Well(tree, members, size, call, sub, bh), InsertRotate
    PROVE  IsWell(tree', members', size', call')
<1>1. /\ call.op = "insert" /\ IsRed(tree, InsertParent) /\ ~ IsRed(tree, InsertUncle)
      /\ size' = size /\ members' = members
  BY DEF InsertRotate, Inserting
<1>2. /\ Shape(tree, members, sub) /\ Loose(tree, members) /\ size \in [TreeNodes -> Nat]
      /\ call \in CallType /\ InsertWell(tree, members, size, call, sub, bh)
      /\ tree \in TreeType /\ members \subseteq TreeNodes /\ Nil \notin TreeNodes
  BY ONLY Well(tree, members, size, call, sub, bh), <1>1, InsertIs
<1>3. PICK node, of, p, g, s, u : /\ node = call.node /\ of = call.of /\ p = tree.parent[node] /\ g = tree.parent[p]
                                  /\ s = SideOf(tree, p) /\ u = tree.child[Opp(s)][g]
  OBVIOUS
<1>4. InsertParent = p /\ InsertSide = s /\ InsertUncle = u
  BY ONLY <1>3 DEF InsertParent, InsertSide, InsertUncle
<1>5. /\ of \in members /\ Grown(tree, members, bh, node)
      /\ of \in sub[node] /\ Wrong(members, size, sub) \subseteq Above(members, sub, of)
  BY ONLY <1>1, <1>2, <1>3, <1>4 DEF InsertWell
<1>6. RedParent(tree, members, node, p, g)
  BY ONLY <1>1, <1>2, <1>3, <1>4, <1>5, GrownFacts
<1>7. p \in members /\ g \in members /\ s \in Sides /\ tree.child[s][g] = p /\ node \in members /\ node # tree.root
  BY ONLY <1>3, <1>5, <1>6 DEF RedParent, Grown
<1>8. IsRed(tree, p) /\ ~ IsRed(tree, tree.child[Opp(s)][g])
  BY ONLY <1>1, <1>3, <1>4
<1>9. PICK t2, c, t1 : t2 = tree' /\ c = call' /\ t1 = Rotate(tree, p, s)
  OBVIOUS
<1>10. tree.child[Opp(s)][p] = node =>
         /\ t2 = Rotate(Paint(Paint(t1, node, "black"), g, "red"), g, Opp(s))
         /\ c = [call EXCEPT !.node = p]
  BY ONLY InsertRotate, <1>3, <1>4, <1>9, Zenon DEF InsertRotate
<1>11. tree.child[Opp(s)][p] # node =>
         /\ t2 = Rotate(Paint(Paint(tree, p, "black"), g, "red"), g, Opp(s))
         /\ c = [call EXCEPT !.node = node]
  BY ONLY InsertRotate, <1>3, <1>4, <1>9, Zenon DEF InsertRotate
<1>12. \E low, sub2, bh2 : /\ low \in {node, p} /\ c = [call EXCEPT !.node = low]
                           /\ InsertEnds(t2, members, size, low, of, sub2, bh2)
  <2>1. CASE tree.child[Opp(s)][p] = node
    <3>1. t2 = Rotate(Paint(Paint(t1, node, "black"), g, "red"), g, Opp(s))
      BY ONLY <1>10, <2>1
    <3>2. t1 = Rotate(tree, p, s)
      BY ONLY <1>9
    <3>3. p = tree.parent[node] /\ g = tree.parent[p]
      BY ONLY <1>3
    <3>4. \E sub2, bh2 : InsertEnds(t2, members, size, p, of, sub2, bh2)
      BY ONLY <1>2, <1>5, <1>7, <1>8, <2>1, <3>1, <3>2, <3>3, InsertFirst
    <3> QED  BY ONLY <3>4, <2>1, <1>10
  <2>2. CASE tree.child[Opp(s)][p] # node
    <3>1. tree.child[s][p] = node
      <4>1. SideOf(tree, node) \in Sides /\ tree.child[SideOf(tree, node)][p] = node
        BY ONLY <1>2, <1>3, <1>7, SideTold
      <4>2. SideOf(tree, node) \in {s, Opp(s)}
        BY ONLY <4>1, <1>7, Opposite
      <4> QED  BY ONLY <4>1, <4>2, <2>2
    <3>2. of \in sub[g]
      <4>1. p # Nil /\ g # Nil
        BY ONLY <1>2, <1>7
      <4>2. sub[node] \subseteq sub[p] /\ sub[p] \subseteq sub[g]
        BY ONLY <1>2, <1>3, <1>7, <4>1, UpBelow
      <4> QED  BY ONLY <4>2, <1>5
    <3>3. Wrong(members, size, sub) \subseteq Above(members, sub, of) \cup {node}
      BY ONLY <1>5
    <3>4. t2 = Rotate(Paint(Paint(tree, p, "black"), g, "red"), g, Opp(s))
      BY ONLY <1>11, <2>2
    <3>5. p = tree.parent[node] /\ g = tree.parent[p]
      BY ONLY <1>3
    <3>6. \E sub2, bh2 : InsertEnds(t2, members, size, node, of, sub2, bh2)
      BY ONLY <1>2, <1>5, <1>7, <1>8, <3>1, <3>2, <3>3, <3>4, <3>5, InsertLast
    <3> QED  BY ONLY <3>6, <2>2, <1>11
  <2> QED  BY ONLY <2>1, <2>2
<1>13. PICK low, sub2, bh2 : /\ low \in {node, p} /\ c = [call EXCEPT !.node = low]
                             /\ InsertEnds(t2, members, size, low, of, sub2, bh2)
  BY ONLY <1>12
<1>14. c \in CallType /\ c.op = "insert" /\ c.node = low /\ c.of = of
  BY ONLY <1>1, <1>2, <1>3, <1>7, <1>13 DEF CallType
<1>15. InsertWell(t2, members, size, c, sub2, bh2)
  BY ONLY <1>5, <1>13, <1>14 DEF InsertWell, InsertEnds
<1>16. Well(t2, members, size, c, sub2, bh2)
  BY ONLY <1>2, <1>13, <1>14, <1>15 DEF Well, Held, InsertEnds
<1> QED  BY ONLY <1>1, <1>9, <1>16 DEF IsWell

-----------------------------------------------------------------------------
(* Removal keeps it.                                                        *)

\* A call with these locals.
CallIs(c, op, node, parent, of, deepest) ==
    /\ c \in CallType /\ c.op = op /\ c.node = node /\ c.parent = parent /\ c.of = of /\ c.deepest = deepest

\* The record of such a call.
LEMMA CallMade ==
    ASSUME NEW op \in {"none", "insert", "augment", "erase", "erased"}, NEW node \in TreeNodes \cup {Nil},
           NEW parent \in TreeNodes \cup {Nil}, NEW of \in TreeNodes \cup {Nil}, NEW deepest \in TreeNodes \cup {Nil},
           NEW c, c = [op |-> op, node |-> node, parent |-> parent, of |-> of, deepest |-> deepest]
    PROVE  CallIs(c, op, node, parent, of, deepest)
BY DEF CallIs, CallType

\* The node has left its place.
LEMMA EraseStarts ==
    ASSUME NEW t, NEW M, NEW sub, Shape(t, M, sub), NEW n \in TreeNodes \ M, Loose(t, M \cup {n}),
           NEW bh, NEW node, NEW p, NEW col,
           IF col # "black" THEN Balanced(t, M, bh)
           ELSE IF node = t.root THEN Rooted(t, M, bh) ELSE Light(t, M, bh, node, p),
           NEW sz \in [TreeNodes -> Nat], node \in M \cup {Nil}, NEW d, d = From(node, p),
           IF M = {} THEN d = Nil ELSE d \in M, Wrong(M, sz, sub) \subseteq Above(M, sub, d),
           NEW c, CallIs(c, IF col = "black" THEN "erase" ELSE "erased", node, p, n, d)
    PROVE  Well(t, M, sz, c, sub, bh)
<1>1. c \in CallType /\ c.op = (IF col = "black" THEN "erase" ELSE "erased")
      /\ c.node = node /\ c.parent = p /\ c.of = n /\ c.deepest = d
  BY ONLY CallIs(c, IF col = "black" THEN "erase" ELSE "erased", node, p, n, d) DEF CallIs
<1>2. Gone(t, M, sz, c, sub)
  <2>1. Above(M, sub, d) \subseteq Due(t, M, sub, d)
    BY ONLY AboveDue
  <2> QED  BY ONLY <2>1, <1>1, n \in TreeNodes \ M, IF M = {} THEN d = Nil ELSE d \in M,
                   Wrong(M, sz, sub) \subseteq Above(M, sub, d) DEF Gone
<1>3. c.op \in {"erase", "erased"}
  BY ONLY <1>1
<1>4. Held(M, c) = M \cup {n}
  BY ONLY <1>1, <1>3 DEF Held
<1>5. CASE col # "black"
  <2>1. c.op = "erased" /\ Balanced(t, M, bh)
    BY ONLY <1>1, <1>5, IF col # "black" THEN Balanced(t, M, bh)
                        ELSE IF node = t.root THEN Rooted(t, M, bh) ELSE Light(t, M, bh, node, p)
  <2> QED  BY ONLY <2>1, <1>1, <1>2, <1>4, Shape(t, M, sub), Loose(t, M \cup {n}), sz \in [TreeNodes -> Nat] DEF Well
<1>6. CASE col = "black"
  <2>1. c.op = "erase"
    BY ONLY <1>1, <1>6
  <2>2. d = p \/ d \in Below(sub, node)
    <3> SUFFICES ASSUME d # p PROVE d \in Below(sub, node)
      OBVIOUS
    <3>1. node # Nil /\ d = node
      BY ONLY d # p, d = From(node, p) DEF From
    <3>2. node \in M /\ "left" \in Sides
      BY ONLY <3>1, node \in M \cup {Nil} DEF Sides
    <3>3. node \in sub[node]
      BY ONLY Shape(t, M, sub), <3>2, Apart
    <3> QED  BY ONLY <3>1, <3>3 DEF Below
  <2>3. EraseWell(t, M, sz, c, sub, bh)
    BY ONLY <1>1, <1>6, <2>2, Wrong(M, sz, sub) \subseteq Above(M, sub, d),
            IF col # "black" THEN Balanced(t, M, bh)
            ELSE IF node = t.root THEN Rooted(t, M, bh) ELSE Light(t, M, bh, node, p) DEF EraseWell
  <2> QED  BY ONLY <2>1, <2>3, <1>1, <1>2, <1>4, Shape(t, M, sub), Loose(t, M \cup {n}), sz \in [TreeNodes -> Nat]
           DEF Well
<1> QED  BY ONLY <1>5, <1>6

\* A node with a child missing goes.
LEMMA EraseOuter ==
    ASSUME NEW t, NEW M, NEW sub, Shape(t, M, sub), Loose(t, M), NEW bh, Balanced(t, M, bh),
           NEW sz \in [TreeNodes -> Nat], Wrong(M, sz, sub) = {},
           NEW n \in M, NEW s \in Sides, t.child[Opp(s)][n] = Nil,
           NEW u, u = Unlink(t, n), NEW t1, t1 = u.tree,
           NEW c, c = [op |-> IF u.color = "black" THEN "erase" ELSE "erased", node |-> u.node,
                       parent |-> u.parent, of |-> n, deepest |-> Deepest(t, n)]
    PROVE  IsWell(t1, M \ {n}, sz, c)
<1>1. PICK k, p, col, d : k = t.child[s][n] /\ p = t.parent[n] /\ col = t.color[n] /\ d = Deepest(t, n)
  OBVIOUS
<1>2. t1 = WithParent(Repoint(t, n, k), k, p) /\ u.node = k /\ u.parent = p /\ u.color = col
  BY ONLY s \in Sides, t.child[Opp(s)][n] = Nil, u = Unlink(t, n), t1 = u.tree, <1>1, UnlinkIs
<1>3. Removed(t, n, k, M, t1)
  <2>1. t1 = WithParent(Repoint(t, n, k), k, t.parent[n]) /\ k = t.child[s][n]
    BY ONLY <1>1, <1>2
  <2>2. Removed(t, n, k, M, WithParent(Repoint(t, n, k), k, t.parent[n]))
    BY ONLY Shape(t, M, sub), n \in M, s \in Sides, t.child[Opp(s)][n] = Nil, <2>1, UnlinkFacts
  <2> QED  BY ONLY <2>1, <2>2
<1>4. PICK M2, sub2 : M2 = M \ {n} /\ sub2 = Without(sub, n)
  OBVIOUS
<1>5. Shape(t1, M2, sub2)
  BY ONLY Shape(t, M, sub), n \in M, s \in Sides, t.child[Opp(s)][n] = Nil, <1>1, <1>3, <1>4, RemoveShape
<1>6. Loose(t1, M)
  BY ONLY Shape(t, M, sub), Loose(t, M), n \in M, s \in Sides, <1>1, <1>3, RemovedLoose
<1>7. d = From(k, p)
  BY ONLY s \in Sides, t.child[Opp(s)][n] = Nil, <1>1, DeepestFrom
<1>8. Wrong(M2, sz, sub2) \subseteq Above(M2, sub2, d)
  <2>1. Wrong(M \ {n}, sz, Without(sub, n)) \subseteq Above(M \ {n}, Without(sub, n), From(k, t.parent[n]))
    BY ONLY Shape(t, M, sub), n \in M, s \in Sides, <1>1, Wrong(M, sz, sub) = {}, UnlinkWrong
  <2> QED  BY ONLY <2>1, <1>1, <1>4, <1>7
<1>9. n # Nil /\ M \subseteq TreeNodes /\ n \in TreeNodes \ M2 /\ M2 \cup {n} = M /\ Nil \notin M
  BY <1>4, NodeKeys, Shape(t, M, sub) DEF Shape
<1>10. col \in {"red", "black"} /\ p \in TreeNodes \cup {Nil}
  <2>1. t \in TreeType
    BY ONLY Shape(t, M, sub) DEF Shape
  <2> QED  BY ONLY <2>1, <1>1, <1>9, n \in M, TreeTyped
<1>11. k \in M2 \cup {Nil}
  <2>1. M2 = M \ {n}
    BY ONLY <1>4
  <2>2. ASSUME k # Nil PROVE k \in M /\ k # n
    BY ONLY Shape(t, M, sub), n \in M, s \in Sides, <1>1, <2>2, ChildOnly DEF Only
  <2> QED  BY ONLY <2>1, <2>2
<1>12. IF M2 = {} THEN d = Nil ELSE d \in M2
  <2>1. CASE k # Nil
    BY ONLY <2>1, <1>7, <1>11 DEF From
  <2>2. CASE k = Nil /\ n = t.root
    <3>1. sub[n] = M
      BY ONLY <2>2, <1>9, Shape(t, M, sub) DEF Shape, Below
    <3>2. sub[n] = {n} \cup Below(sub, t.child[s][n]) \cup Below(sub, t.child[Opp(s)][n])
      BY ONLY Shape(t, M, sub), n \in M, s \in Sides, Apart
    <3>3. M2 = {}
      BY ONLY <3>1, <3>2, <2>2, <1>1, <1>4, t.child[Opp(s)][n] = Nil DEF Below
    <3>4. p = Nil
      BY ONLY Shape(t, M, sub), n \in M, <2>2, <1>1, SideTold
    <3> QED  BY ONLY <3>3, <3>4, <2>2, <1>7 DEF From
  <2>3. CASE k = Nil /\ n # t.root
    <3>1. p \in M /\ p # n
      BY ONLY Shape(t, M, sub), n \in M, <2>3, <1>1, SideTold
    <3> QED  BY ONLY <3>1, <2>3, <1>4, <1>7 DEF From
  <2> QED  BY ONLY <2>1, <2>2, <2>3
<1>13. RemovedAs(t, M2, bh, n, k, p, t1)
  <2>1. k = t.child[s][n]
    BY ONLY <1>1
  <2>2. RemovedAs(t, M \ {n}, bh, n, k, t.parent[n], t1)
    BY ONLY Shape(t, M, sub), Balanced(t, M, bh), n \in M, s \in Sides, t.child[Opp(s)][n] = Nil,
            <2>1, <1>3, RemovedColors
  <2> QED  BY ONLY <2>2, <1>1, <1>4
<1>14. IF col # "black" THEN Balanced(t1, M2, bh)
       ELSE IF k = t1.root THEN Rooted(t1, M2, bh) ELSE Light(t1, M2, bh, k, p)
  <2>1. IsRed(t, n) <=> col # "black"
    BY ONLY <1>1, <1>9, <1>10 DEF IsRed
  <2> QED  BY ONLY <2>1, <1>13 DEF RemovedAs
<1>15. d \in TreeNodes \cup {Nil} /\ k \in TreeNodes \cup {Nil} /\ n \in TreeNodes \cup {Nil}
  BY ONLY <1>4, <1>9, <1>11, <1>12
<1>16. PICK op : op = (IF col = "black" THEN "erase" ELSE "erased")
  OBVIOUS
<1>17. CallIs(c, op, k, p, n, d)
  <2>1. op \in {"none", "insert", "augment", "erase", "erased"}
    BY ONLY <1>16
  <2>2. c = [op |-> op, node |-> k, parent |-> p, of |-> n, deepest |-> d]
    BY ONLY <1>1, <1>2, <1>16, c = [op |-> IF u.color = "black" THEN "erase" ELSE "erased", node |-> u.node,
                       parent |-> u.parent, of |-> n, deepest |-> Deepest(t, n)]
  <2> QED  BY ONLY <2>1, <2>2, <1>10, <1>15, CallMade
<1>18. CallIs(c, IF col = "black" THEN "erase" ELSE "erased", k, p, n, d)
  BY ONLY <1>16, <1>17
<1>19. Loose(t1, M2 \cup {n})
  BY ONLY <1>6, <1>9
<1>20. Well(t1, M2, sz, c, sub2, bh)
  BY ONLY <1>5, <1>7, <1>8, <1>9, <1>11, <1>12, <1>14, <1>18, <1>19, sz \in [TreeNodes -> Nat], EraseStarts
<1> QED  BY ONLY <1>4, <1>20 DEF IsWell

\* The successor of a node with two children leaves its place for that of the node.
LEMMA EraseInner ==
    ASSUME NEW t, NEW M, NEW sub, Shape(t, M, sub), Loose(t, M), NEW bh, Balanced(t, M, bh),
           NEW sz \in [TreeNodes -> Nat], Wrong(M, sz, sub) = {},
           NEW n \in M, \A s \in Sides : t.child[s][n] # Nil,
           NEW u, u = UnlinkInner(t, n), NEW t2, t2 = u.tree,
           NEW c, c = [op |-> IF u.color = "black" THEN "erase" ELSE "erased", node |-> u.node,
                       parent |-> u.parent, of |-> n, deepest |-> Deepest(t, n)]
    PROVE  IsWell(t2, M \ {n}, sz, c)
<1>1. PICK y : y = Outermost(t, t.child["right"][n], "left")
  OBVIOUS
<1>2. Follows(t, M, sub, n, y)
  BY ONLY Shape(t, M, sub), Loose(t, M), n \in M, \A s \in Sides : t.child[s][n] # Nil, <1>1, Successor
<1>3. PICK k, q, p, col : /\ k = t.child["right"][y] /\ q = t.parent[y] /\ col = t.color[y]
                          /\ p = (IF q = n THEN y ELSE q)
  OBVIOUS
<1>4. "left" \in Sides /\ "right" \in Sides /\ Opp("right") = "left"
  BY Opposite DEF Sides
<1>5. /\ y \in M /\ y # n /\ y \in sub[t.child["right"][n]] /\ t.child["left"][y] = Nil
      /\ y # t.root /\ y = Neighbour(t, n, "right") /\ SameRank(M \ {y}, n, y)
  BY ONLY <1>2 DEF Follows
<1>6. t.child[Opp("right")][y] = Nil
  BY ONLY <1>4, <1>5
<1>7. PICK t1 : t1 = WithParent(Repoint(t, y, k), k, t.parent[y])
  OBVIOUS
<1>8. Removed(t, y, k, M, t1)
  <2>1. k = t.child["right"][y]
    BY ONLY <1>3
  <2>2. Removed(t, y, k, M, WithParent(Repoint(t, y, k), k, t.parent[y]))
    BY ONLY Shape(t, M, sub), <1>4, <1>5, <1>6, <2>1, UnlinkFacts
  <2> QED  BY ONLY <2>2, <1>7
<1>9. PICK M1, sub1 : M1 = M \ {y} /\ sub1 = Without(sub, y)
  OBVIOUS
<1>10. PICK M2, sub2 : M2 = M \ {n} /\ sub2 = WithSwapped(sub1, n, y)
  OBVIOUS
<1>11. M \subseteq TreeNodes /\ Nil \notin M /\ t \in TreeType /\ IsFiniteSet(M)
  BY NodeKeys, Shape(t, M, sub) DEF Shape
<1>12. n \in M1 /\ y \in TreeNodes \ M1 /\ M2 = (M1 \ {n}) \cup {y} /\ n \in TreeNodes \ M2 /\ M2 \cup {n} = M /\ y \in M2
  <2>1. M1 = M \ {y} /\ M2 = M \ {n}
    BY ONLY <1>9, <1>10
  <2> QED  BY ONLY <2>1, <1>5, <1>11, n \in M
<1>13. Shape(t1, M1, sub1)
  <2>1. k = t.child["right"][y]
    BY ONLY <1>3
  <2> QED  BY ONLY Shape(t, M, sub), <1>4, <1>5, <1>6, <1>8, <1>9, <2>1, RemoveShape
<1>14. /\ Replaced(t1, n, y, M1, t2)
       /\ \A m \in TreeNodes : t2.color[m] = IF m = y THEN t.color[n] ELSE t.color[m]
       /\ Loose(t2, M)
       /\ u.node = k /\ u.parent = p /\ u.color = col
  <2>1. k = t.child["right"][y]
    BY ONLY <1>3
  <2>2. Seats(t, M, n, y, k, t1, UnlinkInner(t, n))
    BY ONLY Shape(t, M, sub), Loose(t, M), n \in M, \A s \in Sides : t.child[s][n] # Nil,
            <1>1, <1>8, <2>1, UnlinkInnerFacts
  <2>3. Seats(t, M, n, y, k, t1, u)
    BY ONLY <2>2, u = UnlinkInner(t, n)
  <2>4. M1 = M \ {y} /\ t.parent[y] = q /\ t.color[y] = col /\ p = IF q = n THEN y ELSE q
    BY ONLY <1>3, <1>9
  <2> QED  BY ONLY <2>3, <2>4, t2 = u.tree DEF Seats
<1>15. Shape(t2, M2, sub2)
  <2>1. SameRank(M1, n, y)
    BY ONLY <1>5, <1>9
  <2>2. Shape(t2, (M1 \ {n}) \cup {y}, WithSwapped(sub1, n, y))
    BY ONLY <1>12, <1>13, <1>14, <2>1, ReplaceShape
  <2>3. sub2 = WithSwapped(sub1, n, y)
    BY ONLY <1>10
  <2> QED  BY ONLY <2>2, <2>3, <1>12
<1>16. RemovedAs(t, M1, bh, y, k, q, t1)
  <2>1. k = t.child["right"][y]
    BY ONLY <1>3
  <2>2. RemovedAs(t, M \ {y}, bh, y, k, t.parent[y], t1)
    BY ONLY Shape(t, M, sub), Balanced(t, M, bh), <1>4, <1>5, <1>6, <2>1, <1>8, RemovedColors
  <2> QED  BY ONLY <2>2, <1>3, <1>9
<1>17. PICK bh2 : Echo(t1, M1, bh, n, y, t2, bh2)
  <2>1. bh \in [TreeNodes -> Nat]
    BY ONLY Balanced(t, M, bh) DEF Balanced
  <2>2. \A m \in (M1 \ {n}) \cup {y} : t2.color[m] = IF m = y THEN t1.color[n] ELSE t1.color[m]
    <3>1. t1.color = t.color
      BY ONLY <1>8 DEF Removed
    <3> QED  BY ONLY <3>1, <1>11, <1>12, <1>14
  <2> QED  BY ONLY <1>12, <1>13, <1>14, <2>1, <2>2, Echoed
<1>18. /\ Balanced(t1, M1, bh) => Balanced(t2, M2, bh2)
       /\ Light(t1, M1, bh, k, q) => Light(t2, M2, bh2, Ren(n, y, k), Ren(n, y, q))
  BY ONLY <1>12, <1>13, <1>17, EchoKeeps
<1>19. k \in M2 \cup {Nil} /\ k # n /\ k # y
  <2>0. M2 = M \ {n}
    BY ONLY <1>10
  <2>1. ASSUME k # Nil PROVE k \in M /\ k # y /\ k # n
    <3>1. t.child["right"][y] # Nil
      BY ONLY <2>1, <1>3
    <3>2. Only(t, M, y, "right", t.child["right"][y])
      BY ONLY Shape(t, M, sub), <1>4, <1>5, <3>1, ChildOnly
    <3>3. k \in M /\ k # y
      BY ONLY <3>2, <1>3 DEF Only
    <3>4. k \in sub[y]
      <4>1. Below(sub, t.child["right"][y]) \subseteq sub[y]
        BY ONLY Shape(t, M, sub), <1>4, <1>5, Apart
      <4>2. k \in sub[k]
        BY ONLY Shape(t, M, sub), <3>3, <1>4, Apart
      <4> QED  BY ONLY <4>1, <4>2, <2>1, <1>3 DEF Below
    <3>5. y \in sub[n]
      <4>1. Below(sub, t.child["right"][n]) \subseteq sub[n] /\ t.child["right"][n] # Nil
        BY ONLY Shape(t, M, sub), n \in M, <1>4, Apart, \A s \in Sides : t.child[s][n] # Nil
      <4> QED  BY ONLY <4>1, <1>5 DEF Below
    <3>6. n \notin sub[y]
      BY ONLY Shape(t, M, sub), n \in M, <1>5, <3>5, BelowBelow
    <3> QED  BY ONLY <3>3, <3>4, <3>6
  <2>2. n # Nil /\ y # Nil
    BY ONLY <1>5, <1>11, n \in M
  <2> QED  BY ONLY <2>0, <2>1, <2>2
<1>20. q \in M /\ p \in M2
  <2>1. q \in M
    BY ONLY Shape(t, M, sub), <1>3, <1>5, SideTold
  <2>2. M2 = M \ {n}
    BY ONLY <1>10
  <2> QED  BY ONLY <2>1, <2>2, <1>3, <1>5
<1>21. PICK d : d = Deepest(t, n)
  OBVIOUS
<1>22. d = From(k, p)
  <2>1. Deepest(t, n) = From(t.child["right"][y], IF t.parent[y] = n THEN y ELSE t.parent[y])
    BY ONLY <1>5, \A s \in Sides : t.child[s][n] # Nil, DeepestFrom
  <2> QED  BY ONLY <2>1, <1>3, <1>21
<1>23. Wrong(M2, sz, sub2) \subseteq Above(M2, sub2, d)
  <2>1. t.child["right"][n] # Nil /\ k = t.child["right"][y] /\ sub2 = WithSwapped(Without(sub, y), n, y)
    BY ONLY <1>3, <1>4, <1>9, <1>10, \A s \in Sides : t.child[s][n] # Nil
  <2>2. Wrong(M \ {n}, sz, sub2) \subseteq Above(M \ {n}, sub2, From(k, IF t.parent[y] = n THEN y ELSE t.parent[y]))
    BY ONLY Shape(t, M, sub), n \in M, <1>2, <2>1, Wrong(M, sz, sub) = {}, UnlinkInnerWrong
  <2>3. p = (IF t.parent[y] = n THEN y ELSE t.parent[y])
    BY ONLY <1>3
  <2> QED  BY ONLY <2>2, <2>3, <1>10, <1>22
<1>24. IF M2 = {} THEN d = Nil ELSE d \in M2
  BY ONLY <1>12, <1>19, <1>20, <1>22 DEF From
<1>25. IF col # "black" THEN Balanced(t2, M2, bh2)
       ELSE IF k = t2.root THEN Rooted(t2, M2, bh2) ELSE Light(t2, M2, bh2, k, p)
  <2>1. IsRed(t, y) <=> col # "black"
    <3>1. col \in {"red", "black"} /\ y # Nil
      BY ONLY <1>3, <1>5, <1>11, TreeTyped
    <3> QED  BY ONLY <3>1, <1>3 DEF IsRed
  <2>2. Ren(n, y, k) = k /\ Ren(n, y, q) = p
    BY ONLY <1>3, <1>19 DEF Ren
  <2>3. t2.root = Ren(n, y, t1.root)
    BY ONLY <1>17 DEF Echo
  <2>4. t1.root # k => t2.root # k
    BY ONLY <2>3, <1>19 DEF Ren
  <2> QED  BY ONLY <2>1, <2>2, <2>4, <1>5, <1>16, <1>18 DEF RemovedAs
<1>26. d \in TreeNodes \cup {Nil} /\ k \in TreeNodes \cup {Nil} /\ n \in TreeNodes \cup {Nil} /\ p \in TreeNodes \cup {Nil}
  <2>1. M2 \subseteq TreeNodes
    BY ONLY <1>10, <1>11
  <2> QED  BY ONLY <2>1, <1>11, <1>12, <1>19, <1>20, <1>24, n \in M
<1>27. PICK op : op = (IF col = "black" THEN "erase" ELSE "erased")
  OBVIOUS
<1>28. CallIs(c, op, k, p, n, d)
  <2>1. op \in {"none", "insert", "augment", "erase", "erased"}
    BY ONLY <1>27
  <2>2. u.node = k /\ u.parent = p /\ u.color = col
    BY ONLY <1>14
  <2>3. c = [op |-> op, node |-> k, parent |-> p, of |-> n, deepest |-> d]
    BY ONLY <1>21, <1>27, <2>2, c = [op |-> IF u.color = "black" THEN "erase" ELSE "erased", node |-> u.node,
                       parent |-> u.parent, of |-> n, deepest |-> Deepest(t, n)]
  <2> QED  BY ONLY <2>1, <2>3, <1>26, CallMade
<1>29. CallIs(c, IF col = "black" THEN "erase" ELSE "erased", k, p, n, d)
  BY ONLY <1>27, <1>28
<1>30. Loose(t2, M2 \cup {n})
  BY ONLY <1>12, <1>14
<1>31. Well(t2, M2, sz, c, sub2, bh2)
  BY ONLY <1>12, <1>15, <1>19, <1>22, <1>23, <1>24, <1>25, <1>29, <1>30, sz \in [TreeNodes -> Nat], EraseStarts
<1> QED  BY ONLY <1>10, <1>31 DEF IsWell

\* rb_erase up to its loop: a subtree is one black node short if a black one left.
LEMMA EraseKeeps ==
    ASSUME NEW sub, NEW bh, Well(tree, members, size, call, sub, bh), NEW n \in TreeNodes, Erase(n)
    PROVE  IsWell(tree', members', size', call')
<1>1. call = Idle /\ n \in members /\ members' = members \ {n} /\ size' = size
  BY DEF Erase
<1>2. /\ Shape(tree, members, sub) /\ Loose(tree, members) /\ size \in [TreeNodes -> Nat]
      /\ Balanced(tree, members, bh) /\ Wrong(members, size, sub) = {}
  BY ONLY Well(tree, members, size, call, sub, bh), <1>1, IdleIs
<1>3. PICK u : u = IF Nil \in {tree.child[s][n] : s \in Sides} THEN Unlink(tree, n) ELSE UnlinkInner(tree, n)
  OBVIOUS
<1>4. PICK t2, c : t2 = tree' /\ c = call'
  OBVIOUS
<1>5. t2 = u.tree
  BY ONLY Erase(n), <1>3, <1>4 DEF Erase
<1>6. c = [op |-> IF u.color = "black" THEN "erase" ELSE "erased", node |-> u.node,
           parent |-> u.parent, of |-> n, deepest |-> Deepest(tree, n)]
  BY ONLY Erase(n), <1>3, <1>4 DEF Erase
<1>7. IsWell(t2, members \ {n}, size, c)
  <2>1. CASE Nil \in {tree.child[s][n] : s \in Sides}
    <3>1. u = Unlink(tree, n)
      BY ONLY <2>1, <1>3
    <3>2. PICK s \in Sides : tree.child[Opp(s)][n] = Nil
      BY ONLY <2>1, Opposite
    <3> QED  BY ONLY <1>1, <1>2, <1>5, <1>6, <3>1, <3>2, s \in Sides, EraseOuter
  <2>2. CASE Nil \notin {tree.child[s][n] : s \in Sides}
    <3>1. u = UnlinkInner(tree, n)
      BY ONLY <2>2, <1>3
    <3>2. \A s \in Sides : tree.child[s][n] # Nil
      BY ONLY <2>2
    <3> QED  BY ONLY <1>1, <1>2, <1>5, <1>6, <3>1, <3>2, EraseInner
  <2> QED  BY ONLY <2>1, <2>2
<1> QED  BY ONLY <1>1, <1>4, <1>7

\* The same, from the side that node is on.
LEMMA LightOn ==
    ASSUME NEW t, NEW M, NEW sub, Shape(t, M, sub), NEW bh, NEW node, NEW p, Light(t, M, bh, node, p),
           ~ IsRed(t, node), NEW s \in Sides, t.child[s][p] = node
    PROVE  Short(t, bh, node, p, s) /\ Beside(t, M, bh, node, p, s, t.child[Opp(s)][p])
<1>1. PICK x : x = IF t.child["left"][p] = node THEN "left" ELSE "right"
  OBVIOUS
<1>2. Short(t, bh, node, p, x) /\ Beside(t, M, bh, node, p, x, t.child[Opp(x)][p])
  BY ONLY Shape(t, M, sub), Light(t, M, bh, node, p), ~ IsRed(t, node), <1>1, LightBeside
<1>3. t.child[Opp(x)][p] # node /\ x \in Sides
  BY ONLY <1>2 DEF Beside
<1>4. x = s \/ s = Opp(x)
  BY ONLY <1>3, s \in Sides, Opposite
<1> QED  BY ONLY <1>2, <1>3, <1>4, t.child[s][p] = node

\* The loop of a removal, its sibling being black: node is short, and what is wrong is above d.
Loop(t, M, L, sz, node, p, d, s, sub, bh) ==
    /\ Shape(t, M, sub) /\ Loose(t, L)
    /\ Short(t, bh, node, p, s) /\ Beside(t, M, bh, node, p, s, t.child[Opp(s)][p])
    /\ ~ IsRed(t, t.child[Opp(s)][p])
    /\ d = p \/ d \in Below(sub, node)
    /\ Wrong(M, sz, sub) \subseteq Above(M, sub, d)

LEMMA DeepBelow ==
    ASSUME NEW t, NEW M, NEW sub, Shape(t, M, sub), NEW p \in M, NEW s \in Sides, NEW node,
           t.child[s][p] = node, NEW d, d = p \/ d \in Below(sub, node)
    PROVE  d \in sub[p]
<1>1. p \in sub[p] /\ Below(sub, t.child[s][p]) \subseteq sub[p]
  BY ONLY Shape(t, M, sub), p \in M, s \in Sides, Apart
<1> QED  BY ONLY <1>1, t.child[s][p] = node, d = p \/ d \in Below(sub, node)

\* A red sibling is rotated away.
LEMMA FixLoop ==
    ASSUME NEW t, NEW M, NEW sub, Shape(t, M, sub), NEW L, M \subseteq L, Loose(t, L), NEW bh, NEW node, NEW p,
           NEW s, NEW w, Short(t, bh, node, p, s), Beside(t, M, bh, node, p, s, w), IsRed(t, w),
           NEW d, d = p \/ d \in Below(sub, node), NEW sz, Wrong(M, sz, sub) \subseteq Above(M, sub, d),
           NEW t2, t2 = Rotate(Paint(Paint(t, w, "black"), p, "red"), p, s)
    PROVE  \E sub2, bh2 : Loop(t2, M, L, sz, node, p, d, s, sub2, bh2)
<1>1. /\ s \in Sides /\ p \in M /\ w \in M /\ w # Nil /\ w # p /\ w # node /\ node # p /\ node \in M \cup {Nil}
      /\ t.child[s][p] = node /\ t.child[Opp(s)][p] = w /\ p \in TreeNodes /\ w \in TreeNodes
  BY ONLY Beside(t, M, bh, node, p, s, w) DEF Beside
<1>2. t \in TreeType /\ M \subseteq TreeNodes
  BY ONLY Shape(t, M, sub) DEF Shape
<1>3. PICK ta : ta = Paint(t, w, "black")
  OBVIOUS
<1>4. PICK tb : tb = Paint(ta, p, "red")
  OBVIOUS
<1>5. t2 = Rotate(tb, p, s)
  BY ONLY <1>3, <1>4, t2 = Rotate(Paint(Paint(t, w, "black"), p, "red"), p, s)
<1>6. Painted(t, w, "black", ta)
  BY ONLY <1>1, <1>2, <1>3, PaintFacts
<1>7. Painted(ta, p, "red", tb)
  <2>1. ta \in TreeType
    BY ONLY <1>6 DEF Painted
  <2> QED  BY ONLY <2>1, <1>1, <1>4, PaintFacts
<1>8. Shape(tb, M, sub) /\ Loose(tb, L)
  <2>1. Shape(ta, M, sub) /\ Loose(ta, L)
    BY ONLY <1>6, Shape(t, M, sub), Loose(t, L), PaintShape, PaintLoose
  <2> QED  BY ONLY <2>1, <1>7, PaintShape, PaintLoose
<1>9. /\ SamePlaces(t, tb)
      /\ \A m \in M : tb.color[m] = IF m = p THEN "red" ELSE IF m = w THEN "black" ELSE t.color[m]
  BY ONLY <1>2, <1>6, <1>7 DEF Painted, SamePlaces
<1>10. w = tb.child[Opp(s)][p]
  BY ONLY <1>1, <1>9 DEF SamePlaces
<1>11. /\ Around(tb, p, s, w, M, t2) /\ Loose(t2, L)
       /\ \E sub2 : Shifted(tb, p, s, w, sub, sub2) /\ Shape(t2, M, sub2)
  BY ONLY <1>1, <1>5, <1>8, <1>10, M \subseteq L, TurnFacts
<1>12. PICK sub2 : Shifted(tb, p, s, w, sub, sub2) /\ Shape(t2, M, sub2)
  BY ONLY <1>11
<1>13. /\ \E bh2 : Light(t2, M, bh2, node, p)
       /\ t2.child[s][p] = node /\ t2.parent[p] = w
       /\ t2.child[Opp(s)][p] = t.child[s][w] /\ ~ IsRed(t2, t.child[s][w])
       /\ ~ IsRed(t2, node) /\ IsRed(t2, p)
  BY ONLY Shape(t, M, sub), Short(t, bh, node, p, s), Beside(t, M, bh, node, p, s, w), IsRed(t, w),
          <1>8, <1>9, <1>11, LightFix
<1>14. PICK bh2 : Light(t2, M, bh2, node, p)
  BY ONLY <1>13
<1>15. Short(t2, bh2, node, p, s) /\ Beside(t2, M, bh2, node, p, s, t2.child[Opp(s)][p])
  BY ONLY <1>1, <1>12, <1>13, <1>14, LightOn
<1>16. \A m \in TreeNodes : m # p /\ m # w => sub2[m] = sub[m]
  BY ONLY <1>12 DEF Shifted
<1>17. d = p \/ d \in Below(sub2, node)
  BY ONLY <1>1, <1>2, <1>16, d = p \/ d \in Below(sub, node) DEF Below
<1>18. d \in sub2[p]
  BY ONLY <1>1, <1>12, <1>13, <1>17, DeepBelow
<1>19. d \in sub2[w]
  <2>1. w = t2.parent[p]
    BY ONLY <1>13
  <2>2. sub2[p] \subseteq sub2[w]
    BY ONLY <1>1, <1>12, <2>1, UpBelow
  <2> QED  BY ONLY <2>2, <1>18
<1>20. Wrong(M, sz, sub2) \subseteq Above(M, sub2, d)
  <2> SUFFICES ASSUME NEW m \in M, m # p, m # w, sz[m] # Cardinality(sub2[m]) PROVE d \in sub2[m]
    BY <1>18, <1>19 DEF Wrong, Above
  <2>1. sub2[m] = sub[m]
    BY ONLY <1>2, <1>16, m \in M, m # p, m # w
  <2> QED  BY ONLY <2>1, m \in M, sz[m] # Cardinality(sub2[m]), Wrong(M, sz, sub) \subseteq Above(M, sub, d)
           DEF Wrong, Above
<1>21. Loop(t2, M, L, sz, node, p, d, s, sub2, bh2)
  BY ONLY <1>11, <1>12, <1>13, <1>15, <1>17, <1>20 DEF Loop
<1> QED  BY ONLY <1>21

\* The rotation that ends the loop: the sibling and its far child may be wrong.
EraseEnds(t2, M, L, sz, d, sub2, bh2) ==
    /\ Shape(t2, M, sub2) /\ Loose(t2, L) /\ Balanced(t2, M, bh2)
    /\ Wrong(M, sz, sub2) \subseteq Due(t2, M, sub2, d)

\* It does so.
LEMMA EraseLast ==
    ASSUME NEW t, NEW M, NEW sub, Shape(t, M, sub), NEW L, M \subseteq L, Loose(t, L), NEW bh, NEW node, NEW p,
           NEW s, NEW w, Short(t, bh, node, p, s), Beside(t, M, bh, node, p, s, w), ~ IsRed(t, w),
           NEW f, f = t.child[Opp(s)][w], IsRed(t, f),
           NEW d, d = p \/ d \in Below(sub, node),
           NEW sz, Wrong(M, sz, sub) \subseteq Above(M, sub, d) \cup {w, f},
           NEW t2, t2 = Rotate(Paint(Paint(Paint(t, w, t.color[p]), p, "black"), f, "black"), p, s)
    PROVE  \E sub2, bh2 : EraseEnds(t2, M, L, sz, d, sub2, bh2)
<1>1. /\ s \in Sides /\ Opp(s) \in Sides /\ p \in M /\ w \in M /\ w # Nil /\ w # p /\ w # node
      /\ node # p /\ node \in M \cup {Nil}
      /\ t.child[s][p] = node /\ t.child[Opp(s)][p] = w /\ p \in TreeNodes /\ w \in TreeNodes
  BY ONLY Beside(t, M, bh, node, p, s, w) DEF Beside
<1>2. t \in TreeType /\ M \subseteq TreeNodes
  BY ONLY Shape(t, M, sub) DEF Shape
<1>3. f \in M /\ f # p /\ f # w /\ f \in TreeNodes
  <2>1. t.child[Opp(s)][w] \in M \cup {Nil} /\ t.child[Opp(s)][w] # p /\ t.child[Opp(s)][w] # w
    BY ONLY <1>1, Shape(t, M, sub), Beside(t, M, bh, node, p, s, w), BesideChild
  <2> QED  BY ONLY <2>1, <1>2, f = t.child[Opp(s)][w], IsRed(t, f) DEF IsRed
<1>4. PICK ta : ta = Paint(t, w, t.color[p])
  OBVIOUS
<1>5. PICK tb : tb = Paint(ta, p, "black")
  OBVIOUS
<1>6. PICK tc : tc = Paint(tb, f, "black")
  OBVIOUS
<1>7. t2 = Rotate(tc, p, s)
  BY ONLY <1>4, <1>5, <1>6, t2 = Rotate(Paint(Paint(Paint(t, w, t.color[p]), p, "black"), f, "black"), p, s)
<1>8. Painted(t, w, t.color[p], ta)
  <2>1. t.color[p] \in {"red", "black"}
    BY ONLY <1>1, <1>2, TreeTyped
  <2> QED  BY ONLY <2>1, <1>1, <1>2, <1>4, PaintFacts
<1>9. Painted(ta, p, "black", tb)
  <2>1. ta \in TreeType
    BY ONLY <1>8 DEF Painted
  <2> QED  BY ONLY <2>1, <1>1, <1>5, PaintFacts
<1>10. Painted(tb, f, "black", tc)
  <2>1. tb \in TreeType
    BY ONLY <1>9 DEF Painted
  <2> QED  BY ONLY <2>1, <1>3, <1>6, PaintFacts
<1>11. Shape(tc, M, sub) /\ Loose(tc, L)
  <2>1. Shape(ta, M, sub) /\ Loose(ta, L)
    BY ONLY <1>8, Shape(t, M, sub), Loose(t, L), PaintShape, PaintLoose
  <2>2. Shape(tb, M, sub) /\ Loose(tb, L)
    BY ONLY <2>1, <1>9, PaintShape, PaintLoose
  <2> QED  BY ONLY <2>2, <1>10, PaintShape, PaintLoose
<1>12. SamePlaces(t, tc)
  BY ONLY <1>8, <1>9, <1>10 DEF Painted, SamePlaces
<1>13. \A m \in M : tc.color[m] = IF m \in {p, f} THEN "black" ELSE IF m = w THEN t.color[p] ELSE t.color[m]
  BY ONLY <1>1, <1>2, <1>3, <1>8, <1>9, <1>10 DEF Painted
<1>14. w = tc.child[Opp(s)][p]
  BY ONLY <1>1, <1>12 DEF SamePlaces
<1>15. /\ Around(tc, p, s, w, M, t2) /\ Loose(t2, L)
       /\ \E sub2 : Shifted(tc, p, s, w, sub, sub2) /\ Shape(t2, M, sub2)
  BY ONLY <1>1, <1>7, <1>11, <1>14, M \subseteq L, TurnFacts
<1>16. PICK sub2 : Shifted(tc, p, s, w, sub, sub2) /\ Shape(t2, M, sub2)
  BY ONLY <1>15
<1>17. /\ \E bh2 : Balanced(t2, M, bh2)
       /\ t2.parent[p] = w /\ t2.parent[f] = w
  BY ONLY Shape(t, M, sub), Short(t, bh, node, p, s), Beside(t, M, bh, node, p, s, w), ~ IsRed(t, w),
          f = t.child[Opp(s)][w], IsRed(t, f), <1>11, <1>12, <1>13, <1>15, LightRotate
<1>18. PICK bh2 : Balanced(t2, M, bh2)
  BY ONLY <1>17
<1>19. /\ sub2[w] = sub[p] /\ \A m \in TreeNodes : m # p /\ m # w => sub2[m] = sub[m]
  BY ONLY <1>16 DEF Shifted
<1>20. d \in sub2[w]
  <2>1. d \in sub[p]
    BY ONLY <1>1, Shape(t, M, sub), d = p \/ d \in Below(sub, node), DeepBelow
  <2> QED  BY ONLY <2>1, <1>19
<1>21. w # d
  <2>1. w \in sub[w]
    BY ONLY Shape(t, M, sub), <1>1, Apart
  <2>2. Below(sub, t.child[s][p]) \cap Below(sub, t.child[Opp(s)][p]) = {}
    BY ONLY Shape(t, M, sub), <1>1, Apart
  <2> QED  BY ONLY <2>1, <2>2, <1>1, d = p \/ d \in Below(sub, node) DEF Below
<1>22. Wrong(M, sz, sub2) \subseteq Due(t2, M, sub2, d)
  <2> SUFFICES ASSUME NEW m \in M, sz[m] # Cardinality(sub2[m]) PROVE m \in Due(t2, M, sub2, d)
    BY DEF Wrong
  <2>1. CASE m = w
    BY ONLY <2>1, <1>20, m \in M DEF Due
  <2>2. CASE m = p \/ m = f
    BY ONLY <2>2, <1>1, <1>17, <1>20, <1>21, m \in M DEF Due
  <2>3. CASE m # w /\ m # p /\ m # f
    <3>1. sub2[m] = sub[m]
      BY ONLY <2>3, <1>2, <1>19, m \in M
    <3>2. d \in sub2[m]
      BY ONLY <2>3, <3>1, m \in M, sz[m] # Cardinality(sub2[m]),
              Wrong(M, sz, sub) \subseteq Above(M, sub, d) \cup {w, f} DEF Wrong, Above
    <3> QED  BY ONLY <3>2, m \in M DEF Due
  <2> QED  BY ONLY <2>1, <2>2, <2>3
<1>23. EraseEnds(t2, M, L, sz, d, sub2, bh2)
  BY ONLY <1>15, <1>16, <1>18, <1>22 DEF EraseEnds
<1> QED  BY ONLY <1>23

\* The rotation before it, if the near child of the sibling is the red one.
Ready(t, M, L, sz, node, p, d, s, v, w, sub, bh) ==
    /\ Shape(t, M, sub) /\ Loose(t, L)
    /\ Short(t, bh, node, p, s) /\ Beside(t, M, bh, node, p, s, v) /\ ~ IsRed(t, v)
    /\ t.child[Opp(s)][p] = v /\ t.child[Opp(s)][v] = w /\ IsRed(t, w)
    /\ d = p \/ d \in Below(sub, node)
    /\ Wrong(M, sz, sub) \subseteq Above(M, sub, d) \cup {v, w}

\* It makes the far child red.
LEMMA EraseFirst ==
    ASSUME NEW t, NEW M, NEW L, M \subseteq L, NEW sz, NEW node, NEW p, NEW d, NEW s, NEW sub, NEW bh,
           Loop(t, M, L, sz, node, p, d, s, sub, bh), ~ IsRed(t, node),
           NEW w, w = t.child[Opp(s)][p], NEW v, v = t.child[s][w], IsRed(t, v), ~ IsRed(t, t.child[Opp(s)][w]),
           NEW t1, t1 = Rotate(Paint(Paint(t, v, "black"), w, "red"), w, Opp(s))
    PROVE  \E sub1, bh1 : Ready(t1, M, L, sz, node, p, d, s, v, w, sub1, bh1)
<1>1. /\ Shape(t, M, sub) /\ Loose(t, L) /\ Short(t, bh, node, p, s) /\ Beside(t, M, bh, node, p, s, w)
      /\ ~ IsRed(t, w) /\ (d = p \/ d \in Below(sub, node)) /\ Wrong(M, sz, sub) \subseteq Above(M, sub, d)
  BY ONLY Loop(t, M, L, sz, node, p, d, s, sub, bh), w = t.child[Opp(s)][p] DEF Loop
<1>2. /\ s \in Sides /\ Opp(s) \in Sides /\ Opp(Opp(s)) = s /\ p \in M /\ w \in M /\ w # Nil /\ w # p /\ w # node
      /\ node # p /\ node \in M \cup {Nil}
      /\ t.child[s][p] = node /\ p \in TreeNodes /\ w \in TreeNodes
  BY ONLY <1>1 DEF Beside
<1>3. t \in TreeType /\ M \subseteq TreeNodes /\ Nil \notin M
  BY <1>1, NodeKeys DEF Shape
<1>4. v \in M /\ v # p /\ v # w /\ v \in TreeNodes /\ v # Nil /\ v # node
  <2>1. /\ t.child[s][w] \in M \cup {Nil} /\ t.child[s][w] # p /\ t.child[s][w] # w
        /\ t.child[s][w] # node \/ node = Nil
    BY ONLY <1>1, <1>2, BesideChild
  <2> QED  BY ONLY <2>1, <1>3, v = t.child[s][w], IsRed(t, v) DEF IsRed
<1>5. PICK ta : ta = Paint(t, v, "black")
  OBVIOUS
<1>6. PICK tb : tb = Paint(ta, w, "red")
  OBVIOUS
<1>7. t1 = Rotate(tb, w, Opp(s))
  BY ONLY <1>5, <1>6, t1 = Rotate(Paint(Paint(t, v, "black"), w, "red"), w, Opp(s))
<1>8. Painted(t, v, "black", ta)
  BY ONLY <1>3, <1>4, <1>5, PaintFacts
<1>9. Painted(ta, w, "red", tb)
  <2>1. ta \in TreeType
    BY ONLY <1>8 DEF Painted
  <2> QED  BY ONLY <2>1, <1>2, <1>6, PaintFacts
<1>10. Shape(tb, M, sub) /\ Loose(tb, L)
  <2>1. Shape(ta, M, sub) /\ Loose(ta, L)
    BY ONLY <1>1, <1>8, PaintShape, PaintLoose
  <2> QED  BY ONLY <2>1, <1>9, PaintShape, PaintLoose
<1>11. /\ SamePlaces(t, tb)
       /\ \A m \in M : tb.color[m] = IF m = w THEN "red" ELSE IF m = v THEN "black" ELSE t.color[m]
  BY ONLY <1>3, <1>8, <1>9 DEF Painted, SamePlaces
<1>12. v = tb.child[Opp(Opp(s))][w]
  BY ONLY <1>2, <1>11, v = t.child[s][w] DEF SamePlaces
<1>13. /\ Around(tb, w, Opp(s), v, M, t1) /\ Loose(t1, L)
       /\ \E sub1 : Shifted(tb, w, Opp(s), v, sub, sub1) /\ Shape(t1, M, sub1)
  BY ONLY <1>2, <1>4, <1>7, <1>10, <1>12, M \subseteq L, TurnFacts
<1>14. PICK sub1 : Shifted(tb, w, Opp(s), v, sub, sub1) /\ Shape(t1, M, sub1)
  BY ONLY <1>13
<1>15. /\ \E bh2 : Light(t1, M, bh2, node, p)
       /\ t1.child[s][p] = node /\ t1.child[Opp(s)][p] = v /\ ~ IsRed(t1, v) /\ ~ IsRed(t1, node)
       /\ t1.child[Opp(s)][v] = w /\ IsRed(t1, w) /\ t1.parent[w] = v
  BY ONLY <1>1, v = t.child[s][w], IsRed(t, v), ~ IsRed(t, t.child[Opp(s)][w]),
          <1>10, <1>11, <1>13, LightTurn
<1>16. PICK bh1 : Light(t1, M, bh1, node, p)
  BY ONLY <1>15
<1>17. Short(t1, bh1, node, p, s) /\ Beside(t1, M, bh1, node, p, s, v)
  <2>1. Short(t1, bh1, node, p, s) /\ Beside(t1, M, bh1, node, p, s, t1.child[Opp(s)][p])
    BY ONLY <1>2, <1>14, <1>15, <1>16, LightOn
  <2> QED  BY ONLY <2>1, <1>15
<1>18. \A m \in TreeNodes : m # w /\ m # v => sub1[m] = sub[m]
  BY ONLY <1>14 DEF Shifted
<1>19. d = p \/ d \in Below(sub1, node)
  BY ONLY <1>1, <1>2, <1>3, <1>4, <1>18 DEF Below
<1>20. Wrong(M, sz, sub1) \subseteq Above(M, sub1, d) \cup {v, w}
  <2> SUFFICES ASSUME NEW m \in M, m # v, m # w, sz[m] # Cardinality(sub1[m]) PROVE d \in sub1[m]
    BY DEF Wrong, Above
  <2>1. sub1[m] = sub[m]
    BY ONLY <1>3, <1>18, m \in M, m # v, m # w
  <2> QED  BY ONLY <2>1, m \in M, sz[m] # Cardinality(sub1[m]), <1>1 DEF Wrong, Above
<1>21. Ready(t1, M, L, sz, node, p, d, s, v, w, sub1, bh1)
  BY ONLY <1>13, <1>14, <1>15, <1>17, <1>19, <1>20 DEF Ready
<1> QED  BY ONLY <1>21

\* What the loop of a removal knows.
LEMMA EraseIs ==
    ASSUME NEW sub, NEW bh, Well(tree, members, size, call, sub, bh), call.op \in {"erase", "erased"}
    PROVE  /\ Shape(tree, members, sub) /\ Loose(tree, members \cup {call.of}) /\ size \in [TreeNodes -> Nat]
           /\ call \in CallType /\ Gone(tree, members, size, call, sub)
           /\ call.op = "erase" => EraseWell(tree, members, size, call, sub, bh)
           /\ call.op = "erased" => Balanced(tree, members, bh)
           /\ tree \in TreeType /\ members \subseteq TreeNodes /\ Nil \notin TreeNodes
<1>1. Held(members, call) = members \cup {call.of}
  BY DEF Held
<1> QED  BY <1>1, NodeKeys DEF Well, Shape

\* Then the sibling is black, whether or not there was a rotation.
LEMMA FixedLoop ==
    ASSUME NEW sub, NEW bh, Well(tree, members, size, call, sub, bh), Erasing
    PROVE  \E sub1, bh1 : Loop(Fixed, members, members \cup {call.of}, size, call.node, call.parent,
                               call.deepest, EraseSide, sub1, bh1)
<1>1. call.op = "erase" /\ ~ IsRed(tree, call.node) /\ call.node # tree.root
  BY DEF Erasing
<1>2. /\ Shape(tree, members, sub) /\ Loose(tree, members \cup {call.of})
      /\ EraseWell(tree, members, size, call, sub, bh)
  BY ONLY <1>1, Well(tree, members, size, call, sub, bh), EraseIs
<1>3. PICK L, node, p, d, s, w : /\ L = members \cup {call.of} /\ node = call.node /\ p = call.parent
                                 /\ d = call.deepest /\ s = EraseSide /\ w = tree.child[Opp(s)][p]
  OBVIOUS
<1>4. /\ Light(tree, members, bh, node, p) /\ (d = p \/ d \in Below(sub, node))
      /\ Wrong(members, size, sub) \subseteq Above(members, sub, d)
  BY ONLY <1>1, <1>2, <1>3 DEF EraseWell
<1>5. s = IF tree.child["left"][p] = node THEN "left" ELSE "right"
  BY ONLY <1>3 DEF EraseSide
<1>6. Short(tree, bh, node, p, s) /\ Beside(tree, members, bh, node, p, s, w)
  <2>1. ~ IsRed(tree, node)
    BY ONLY <1>1, <1>3
  <2>2. Short(tree, bh, node, p, s) /\ Beside(tree, members, bh, node, p, s, tree.child[Opp(s)][p])
    BY ONLY <2>1, <1>2, <1>4, <1>5, LightBeside
  <2> QED  BY ONLY <2>2, <1>3
<1>7. PICK f : f = Fixed
  OBVIOUS
<1>8. f = IF IsRed(tree, w) THEN Rotate(Paint(Paint(tree, w, "black"), p, "red"), p, s) ELSE tree
  BY ONLY <1>3, <1>7 DEF Fixed, RedSibling
<1>9. \E sub1, bh1 : Loop(f, members, L, size, node, p, d, s, sub1, bh1)
  <2>0. members \subseteq L /\ Loose(tree, L)
    BY ONLY <1>2, <1>3
  <2>1. CASE IsRed(tree, w)
    <3>1. f = Rotate(Paint(Paint(tree, w, "black"), p, "red"), p, s)
      BY ONLY <2>1, <1>8
    <3> QED  BY ONLY <2>0, <2>1, <3>1, <1>2, <1>4, <1>6, FixLoop
  <2>2. CASE ~ IsRed(tree, w)
    <3>1. f = tree
      BY ONLY <2>2, <1>8
    <3>2. w = tree.child[Opp(s)][p]
      BY ONLY <1>3
    <3>3. Loop(tree, members, L, size, node, p, d, s, sub, bh)
      BY ONLY <2>0, <2>2, <3>2, <1>2, <1>4, <1>6 DEF Loop
    <3> QED  BY ONLY <3>1, <3>3
  <2> QED  BY ONLY <2>1, <2>2
<1> QED  BY ONLY <1>3, <1>7, <1>9

\* The nephews are black: the shortage moves up one level.
LEMMA EraseUpKeeps ==
    ASSUME NEW sub, NEW bh, Well(tree, members, size, call, sub, bh), EraseUp
    PROVE  IsWell(tree', members', size', call')
<1>1. Erasing /\ BlackNephews /\ members' = members /\ size' = size
  BY DEF EraseUp
<1>2. call.op = "erase"
  BY ONLY <1>1 DEF Erasing
<1>3. /\ size \in [TreeNodes -> Nat] /\ call \in CallType /\ Gone(tree, members, size, call, sub)
      /\ members \subseteq TreeNodes
  BY ONLY <1>2, Well(tree, members, size, call, sub, bh), EraseIs
<1>4. PICK f, L, node, p, d, s, w : /\ L = members \cup {call.of} /\ node = call.node /\ p = call.parent
                                    /\ d = call.deepest /\ s = EraseSide /\ f = Fixed /\ w = Sibling
  OBVIOUS
<1>5. w = f.child[Opp(s)][p]
  BY ONLY <1>4 DEF Sibling
<1>6. PICK sub1, bh1 : Loop(f, members, L, size, node, p, d, s, sub1, bh1)
  <2>1. \E sub1, bh1 : Loop(Fixed, members, members \cup {call.of}, size, call.node, call.parent,
                            call.deepest, EraseSide, sub1, bh1)
    BY ONLY <1>1, Well(tree, members, size, call, sub, bh), FixedLoop
  <2> QED  BY ONLY <2>1, <1>4
<1>7. /\ Shape(f, members, sub1) /\ Loose(f, L)
      /\ Short(f, bh1, node, p, s) /\ Beside(f, members, bh1, node, p, s, w) /\ ~ IsRed(f, w)
      /\ (d = p \/ d \in Below(sub1, node)) /\ Wrong(members, size, sub1) \subseteq Above(members, sub1, d)
  BY ONLY <1>5, <1>6 DEF Loop
<1>8. /\ s \in Sides /\ p \in members /\ w \in members /\ f.child[s][p] = node /\ w \in TreeNodes /\ p # Nil /\ p \in TreeNodes
  BY ONLY <1>7 DEF Beside
<1>9. \A x \in Sides : ~ IsRed(f, f.child[x][w])
  BY ONLY <1>1, <1>4 DEF BlackNephews
<1>10. PICK t2, c, q : t2 = tree' /\ c = call' /\ q = f.parent[p]
  OBVIOUS
<1>11. t2 = Paint(f, w, "red") /\ c = [call EXCEPT !.node = p, !.parent = q]
  BY ONLY EraseUp, <1>4, <1>10 DEF EraseUp
<1>12. f \in TreeType
  BY ONLY <1>7 DEF Shape
<1>13. Painted(f, w, "red", t2)
  BY ONLY <1>8, <1>11, <1>12, PaintFacts
<1>14. Shape(t2, members, sub1) /\ Loose(t2, L)
  BY ONLY <1>7, <1>13, PaintShape, PaintLoose
<1>15. SamePlaces(f, t2) /\ t2.color[w] = "red" /\ \A m \in members : m # w => t2.color[m] = f.color[m]
  BY ONLY <1>3, <1>8, <1>13 DEF Painted, SamePlaces
<1>16. IF p = f.root THEN \E bh2 : Rooted(t2, members, bh2)
       ELSE \E bh2 : Light(t2, members, bh2, p, f.parent[p])
  BY ONLY <1>7, <1>9, <1>15, LightUp
<1>17. PICK bh2 : IF p = t2.root THEN Rooted(t2, members, bh2) ELSE Light(t2, members, bh2, p, q)
  <2>1. t2.root = f.root
    BY ONLY <1>15 DEF SamePlaces
  <2> QED  BY ONLY <2>1, <1>10, <1>16
<1>18. q \in TreeNodes \cup {Nil}
  BY ONLY <1>8, <1>10, <1>12, TreeTyped
<1>19. /\ c \in CallType /\ c.op = "erase" /\ c.node = p /\ c.parent = q /\ c.of = call.of /\ c.deepest = d
  BY ONLY <1>2, <1>3, <1>4, <1>8, <1>11, <1>18 DEF CallType
<1>20. d \in sub1[p]
  BY ONLY <1>7, <1>8, DeepBelow
<1>21. d \in Below(sub1, p)
  BY ONLY <1>8, <1>20 DEF Below
<1>22. EraseWell(t2, members, size, c, sub1, bh2)
  BY ONLY <1>7, <1>17, <1>19, <1>21 DEF EraseWell
<1>23. Gone(t2, members, size, c, sub1)
  <2>1. call.of \in TreeNodes \ members /\ IF members = {} THEN d = Nil ELSE d \in members
    BY ONLY <1>3, <1>4 DEF Gone
  <2>2. Above(members, sub1, d) \subseteq Due(t2, members, sub1, d)
    BY ONLY AboveDue
  <2> QED  BY ONLY <2>1, <2>2, <1>7, <1>19 DEF Gone
<1>24. Well(t2, members, size, c, sub1, bh2)
  <2>1. Held(members, c) = L
    BY ONLY <1>4, <1>19 DEF Held
  <2> QED  BY ONLY <2>1, <1>3, <1>14, <1>19, <1>22, <1>23 DEF Well
<1> QED  BY ONLY <1>1, <1>10, <1>24 DEF IsWell

\* A nephew is red: one rotation or two end the loop.
LEMMA EraseRotateKeeps ==
    ASSUME NEW sub, NEW bh, Well(tree, members, size, call, sub, bh), EraseRotate
    PROVE  IsWell(tree', members', size', call')
<1>1. Erasing /\ ~ BlackNephews /\ members' = members /\ size' = size
  BY Zenon DEF EraseRotate
<1>2. call.op = "erase"
  BY ONLY <1>1 DEF Erasing
<1>3. /\ size \in [TreeNodes -> Nat] /\ call \in CallType /\ Gone(tree, members, size, call, sub)
      /\ members \subseteq TreeNodes
  BY ONLY <1>2, Well(tree, members, size, call, sub, bh), EraseIs
<1>4. PICK f, L, node, p, d, s, w : /\ L = members \cup {call.of} /\ node = call.node /\ p = call.parent
                                    /\ d = call.deepest /\ s = EraseSide /\ f = Fixed /\ w = Sibling
  OBVIOUS
<1>5. w = f.child[Opp(s)][p]
  BY ONLY <1>4 DEF Sibling
<1>6. PICK sub1, bh1 : Loop(f, members, L, size, node, p, d, s, sub1, bh1)
  <2>1. \E sub1, bh1 : Loop(Fixed, members, members \cup {call.of}, size, call.node, call.parent,
                            call.deepest, EraseSide, sub1, bh1)
    BY ONLY <1>1, Well(tree, members, size, call, sub, bh), FixedLoop
  <2> QED  BY ONLY <2>1, <1>4
<1>7. /\ Shape(f, members, sub1) /\ Loose(f, L)
      /\ Short(f, bh1, node, p, s) /\ Beside(f, members, bh1, node, p, s, w) /\ ~ IsRed(f, w)
      /\ (d = p \/ d \in Below(sub1, node)) /\ Wrong(members, size, sub1) \subseteq Above(members, sub1, d)
  BY ONLY <1>5, <1>6 DEF Loop
<1>8. s \in Sides /\ ~ IsRed(f, node)
  BY ONLY <1>7 DEF Beside
<1>9. \E x \in Sides : IsRed(f, f.child[x][w])
  BY ONLY <1>1, <1>4 DEF BlackNephews
<1>10. PICK t2, c, t1 : t2 = tree' /\ c = call' /\
         t1 = IF ~ IsRed(f, f.child[Opp(s)][w])
              THEN Rotate(Paint(Paint(f, f.child[s][w], "black"), w, "red"), w, Opp(s)) ELSE f
  OBVIOUS
<1>11. PICK other : other = t1.child[Opp(s)][p]
  OBVIOUS
<1>12. t2 = Rotate(Paint(Paint(Paint(t1, other, t1.color[p]), p, "black"), t1.child[Opp(s)][other], "black"), p, s)
  BY ONLY EraseRotate, <1>4, <1>10, <1>11, Zenon DEF EraseRotate
<1>13. c = [call EXCEPT !.node = t2.root]
  BY ONLY EraseRotate, <1>10, Zenon DEF EraseRotate
<1>14. members \subseteq L
  BY ONLY <1>4
<1>15. \E sub2, bh2 : EraseEnds(t2, members, L, size, d, sub2, bh2)
  <2>1. CASE IsRed(f, f.child[Opp(s)][w])
    <3>1. t1 = f
      BY ONLY <2>1, <1>10
    <3>2. other = w
      BY ONLY <3>1, <1>5, <1>11
    <3>3. PICK e : e = f.child[Opp(s)][w]
      OBVIOUS
    <3>4. t2 = Rotate(Paint(Paint(Paint(f, w, f.color[p]), p, "black"), e, "black"), p, s)
      BY ONLY <3>1, <3>2, <3>3, <1>12
    <3>5. IsRed(f, e)
      BY ONLY <2>1, <3>3
    <3>6. Wrong(members, size, sub1) \subseteq Above(members, sub1, d) \cup {w, e}
      BY ONLY <1>7
    <3> QED  BY ONLY <3>3, <3>4, <3>5, <3>6, <1>7, <1>14, EraseLast
  <2>2. CASE ~ IsRed(f, f.child[Opp(s)][w])
    <3>1. PICK v : v = f.child[s][w]
      OBVIOUS
    <3>2. t1 = Rotate(Paint(Paint(f, v, "black"), w, "red"), w, Opp(s))
      BY ONLY <2>2, <3>1, <1>10
    <3>3. IsRed(f, v)
      BY ONLY <2>2, <3>1, <1>8, <1>9, Opposite
    <3>4. PICK sub3, bh3 : Ready(t1, members, L, size, node, p, d, s, v, w, sub3, bh3)
      BY ONLY <2>2, <3>1, <3>2, <3>3, <1>5, <1>6, <1>8, <1>14, EraseFirst
    <3>5. /\ Shape(t1, members, sub3) /\ Loose(t1, L)
          /\ Short(t1, bh3, node, p, s) /\ Beside(t1, members, bh3, node, p, s, v) /\ ~ IsRed(t1, v)
          /\ IsRed(t1, w) /\ (d = p \/ d \in Below(sub3, node))
          /\ Wrong(members, size, sub3) \subseteq Above(members, sub3, d) \cup {v, w}
      BY ONLY <3>4 DEF Ready
    <3>6. other = v /\ w = t1.child[Opp(s)][v]
      BY ONLY <3>4, <1>11 DEF Ready
    <3>7. t2 = Rotate(Paint(Paint(Paint(t1, v, t1.color[p]), p, "black"), w, "black"), p, s)
      BY ONLY <3>6, <1>12
    <3>8. w = t1.child[Opp(s)][v]
      BY ONLY <3>6
    <3> QED  BY ONLY <3>5, <3>7, <3>8, <1>14, EraseLast
  <2> QED  BY ONLY <2>1, <2>2
<1>16. PICK sub2, bh2 : EraseEnds(t2, members, L, size, d, sub2, bh2)
  BY ONLY <1>15
<1>17. /\ Shape(t2, members, sub2) /\ Loose(t2, L) /\ Balanced(t2, members, bh2)
       /\ Wrong(members, size, sub2) \subseteq Due(t2, members, sub2, d)
  BY ONLY <1>16 DEF EraseEnds
<1>18. t2.root \in TreeNodes \cup {Nil}
  BY ONLY <1>17 DEF Shape, TreeType
<1>19. /\ c \in CallType /\ c.op = "erase" /\ c.node = t2.root /\ c.of = call.of /\ c.deepest = d
  BY ONLY <1>2, <1>3, <1>4, <1>13, <1>18 DEF CallType
<1>20. Rooted(t2, members, bh2)
  BY ONLY <1>17 DEF Rooted, Balanced
<1>21. EraseWell(t2, members, size, c, sub2, bh2)
  BY ONLY <1>19, <1>20 DEF EraseWell
<1>22. Gone(t2, members, size, c, sub2)
  <2>1. call.of \in TreeNodes \ members /\ IF members = {} THEN d = Nil ELSE d \in members
    BY ONLY <1>3, <1>4 DEF Gone
  <2> QED  BY ONLY <2>1, <1>17, <1>19 DEF Gone
<1>23. Well(t2, members, size, c, sub2, bh2)
  <2>1. Held(members, c) = L
    BY ONLY <1>4, <1>19 DEF Held
  <2> QED  BY ONLY <2>1, <1>3, <1>17, <1>19, <1>21, <1>22 DEF Well
<1> QED  BY ONLY <1>1, <1>10, <1>23 DEF IsWell

\* A node that is not in the tree is cleared.
LEMMA ClearedKeeps ==
    ASSUME NEW t, NEW M, NEW sub, Shape(t, M, sub), NEW n \in TreeNodes \ M, Loose(t, M \cup {n}),
           NEW t2, Cleared(t, n, t2)
    PROVE  /\ Shape(t2, M, sub) /\ Loose(t2, M)
           /\ \A bh : Balanced(t, M, bh) => Balanced(t2, M, bh)
           /\ \A d : Due(t2, M, sub, d) = Due(t, M, sub, d)
<1>1. M \subseteq TreeNodes /\ Nil \notin M /\ n \notin M /\ n \in TreeNodes /\ Nil \notin TreeNodes
  BY NodeKeys DEF Shape
<1>2. /\ t2 \in TreeType /\ t2.root = t.root
      /\ \A x \in Sides, m \in M : t2.child[x][m] = t.child[x][m]
      /\ \A m \in M : t2.parent[m] = t.parent[m] /\ t2.color[m] = t.color[m]
  BY ONLY <1>1, Cleared(t, n, t2) DEF Cleared
<1>3. "left" \in Sides /\ "right" \in Sides
  BY DEF Sides
<1>4. t.root \in M \cup {Nil} /\ \A m \in M, x \in Sides : t.child[x][m] \in M \cup {Nil}
  BY ONLY Shape(t, M, sub) DEF Shape, Placed
<1>5. ASSUME NEW m \in M PROVE Placed(t2, M, sub, m)
  <2>1. /\ t2.child["left"][m] = t.child["left"][m] /\ t2.child["right"][m] = t.child["right"][m]
        /\ t2.parent[m] = t.parent[m]
    BY ONLY <1>2, <1>3, m \in M
  <2>2. /\ sub[m] \subseteq M
        /\ m = t.root \/ (t.parent[m] \in M /\ \E x \in Sides : t.child[x][t.parent[m]] = m)
        /\ \A x \in Sides : /\ t.child[x][m] \in M \cup {Nil}
                            /\ t.child[x][m] # Nil => t.parent[t.child[x][m]] = m
        /\ sub[m] = {m} \cup Below(sub, t.child["left"][m]) \cup Below(sub, t.child["right"][m])
        /\ \A k \in Below(sub, t.child["left"][m]) : Key[k] < Key[m]
        /\ \A k \in Below(sub, t.child["right"][m]) : Key[m] < Key[k]
    BY ONLY Shape(t, M, sub), m \in M DEF Shape, Placed
  <2>3. m = t2.root \/ (t2.parent[m] \in M /\ \E x \in Sides : t2.child[x][t2.parent[m]] = m)
    BY ONLY <1>2, <2>1, <2>2
  <2>4. \A x \in Sides : /\ t2.child[x][m] \in M \cup {Nil}
                         /\ t2.child[x][m] # Nil => t2.parent[t2.child[x][m]] = m
    BY ONLY <1>2, <2>2, m \in M
  <2> QED  BY ONLY <2>1, <2>2, <2>3, <2>4 DEF Placed
<1>6. Shape(t2, M, sub)
  <2>1. t2.root # Nil => t2.parent[t2.root] = Nil
    BY ONLY <1>2, <1>4, Shape(t, M, sub) DEF Shape
  <2> QED  BY ONLY <1>2, <1>5, <2>1, Shape(t, M, sub) DEF Shape
<1>7. Loose(t2, M)
  BY ONLY <1>1, Loose(t, M \cup {n}), Cleared(t, n, t2) DEF Loose, Cleared
<1>8. ASSUME NEW bh, Balanced(t, M, bh) PROVE Balanced(t2, M, bh)
  <2>1. \A m \in M : Even(t2, bh, m)
    <3> SUFFICES ASSUME NEW m \in M PROVE Even(t2, bh, m)
      OBVIOUS
    <3>1. Even(t, bh, m)
      BY ONLY <1>8, m \in M DEF Balanced
    <3> QED  BY ONLY <1>2, <1>3, <3>1, m \in M DEF Even, Weight
  <2>2. \A m \in M : IsRed(t2, m) <=> IsRed(t, m)
    BY ONLY <1>2 DEF IsRed
  <2>3. \A a, b \in M : ~ RedPair(t2, M, a, b)
    BY ONLY <1>2, <1>8, <2>2 DEF Balanced, RedPair
  <2>4. ~ IsRed(t2, t2.root)
    <3>1. ~ IsRed(t, t.root)
      BY ONLY <1>8 DEF Balanced
    <3> QED  BY ONLY <3>1, <1>2, <1>4, <2>2, NilBlack
  <2> QED  BY ONLY <1>8, <2>1, <2>3, <2>4 DEF Balanced
<1>9. \A d : Due(t2, M, sub, d) = Due(t, M, sub, d)
  BY ONLY <1>2 DEF Due
<1> QED  BY ONLY <1>6, <1>7, <1>8, <1>9

\* The loop has ended: a red node turns black, and the node that left is cleared.
LEMMA EraseDoneKeeps ==
    ASSUME NEW sub, NEW bh, Well(tree, members, size, call, sub, bh), EraseDone
    PROVE  IsWell(tree', members', size', call')
<1>1. /\ call.op \in {"erase", "erased"} /\ members' = members
      /\ call.op = "erase" => IsRed(tree, call.node) \/ call.node = tree.root
  BY DEF EraseDone, Erasing
<1>2. /\ Shape(tree, members, sub) /\ Loose(tree, members \cup {call.of}) /\ size \in [TreeNodes -> Nat]
      /\ call \in CallType /\ Gone(tree, members, size, call, sub)
      /\ call.op = "erase" => EraseWell(tree, members, size, call, sub, bh)
      /\ call.op = "erased" => Balanced(tree, members, bh)
      /\ tree \in TreeType /\ members \subseteq TreeNodes /\ Nil \notin TreeNodes
  BY ONLY <1>1, Well(tree, members, size, call, sub, bh), EraseIs
<1>3. PICK of, d, node : of = call.of /\ d = call.deepest /\ node = call.node
  OBVIOUS
<1>4. PICK t2, sz, c, t1 : /\ t2 = tree' /\ sz = size' /\ c = call'
                           /\ t1 = IF call.op = "erase" THEN Paint(tree, node, "black") ELSE tree
  OBVIOUS
<1>5. t2 = Clear(t1, of)
  BY ONLY EraseDone, <1>3, <1>4 DEF EraseDone
<1>6. /\ of \in TreeNodes \ members /\ IF members = {} THEN d = Nil ELSE d \in members
      /\ Wrong(members, size, sub) \subseteq Due(tree, members, sub, d)
  BY ONLY <1>2, <1>3 DEF Gone
<1>7. /\ Shape(t1, members, sub) /\ Loose(t1, members \cup {of}) /\ (\E bh1 : Balanced(t1, members, bh1))
      /\ Due(t1, members, sub, d) = Due(tree, members, sub, d)
  <2>1. CASE call.op = "erased"
    <3>1. t1 = tree
      BY ONLY <2>1, <1>4
    <3> QED  BY ONLY <2>1, <3>1, <1>2, <1>3
  <2>2. CASE call.op = "erase"
    <3>1. t1 = Paint(tree, node, "black")
      BY ONLY <2>2, <1>4
    <3>2. node \in TreeNodes \cup {Nil}
      BY ONLY <1>2, <1>3 DEF CallType
    <3>3. Painted(tree, node, "black", t1)
      BY ONLY <3>1, <3>2, <1>2, PaintFacts
    <3>4. Shape(t1, members, sub) /\ Loose(t1, members \cup {of})
      BY ONLY <3>3, <1>2, <1>3, PaintShape, PaintLoose
    <3>5. Due(t1, members, sub, d) = Due(tree, members, sub, d)
      BY ONLY <3>3 DEF Painted, Due
    <3>6. \E bh1 : Balanced(t1, members, bh1)
      <4>1. CASE node = tree.root
        <5>1. Rooted(tree, members, bh)
          BY ONLY <4>1, <2>2, <1>2, <1>3 DEF EraseWell
        <5>2. Painted(tree, tree.root, "black", t1)
          BY ONLY <4>1, <3>3
        <5> QED  BY ONLY <5>1, <5>2, <1>2, RootedPaint
      <4>2. CASE node # tree.root
        <5>1. IsRed(tree, node) /\ Light(tree, members, bh, node, call.parent)
          BY ONLY <4>2, <2>2, <1>1, <1>2, <1>3 DEF EraseWell
        <5> QED  BY ONLY <5>1, <3>3, <1>2, LightPaint
      <4> QED  BY ONLY <4>1, <4>2
    <3> QED  BY ONLY <3>4, <3>5, <3>6
  <2> QED  BY ONLY <2>1, <2>2, <1>1
<1>8. PICK bh1 : Balanced(t1, members, bh1)
  BY ONLY <1>7
<1>9. Cleared(t1, of, t2)
  <2>1. t1 \in TreeType /\ of \in TreeNodes
    BY ONLY <1>6, <1>7 DEF Shape
  <2> QED  BY ONLY <2>1, <1>5, ClearFacts
<1>10. /\ Shape(t2, members, sub) /\ Loose(t2, members)
       /\ \A b : Balanced(t1, members, b) => Balanced(t2, members, b)
       /\ \A e : Due(t2, members, sub, e) = Due(t1, members, sub, e)
  BY ONLY <1>6, <1>7, <1>9, ClearedKeeps
<1>11. sz \in [TreeNodes -> Nat] /\ \A m \in members : sz[m] = size[m]
  <2>1. sz = [size EXCEPT ![of] = 0]
    BY ONLY EraseDone, <1>3, <1>4 DEF EraseDone
  <2> QED  BY ONLY <2>1, <1>2, <1>6
<1>12. Wrong(members, sz, sub) \subseteq Due(t2, members, sub, d)
  <2>1. Wrong(members, sz, sub) = Wrong(members, size, sub)
    BY ONLY <1>11 DEF Wrong
  <2> QED  BY ONLY <2>1, <1>6, <1>7, <1>10
<1>13. c = IF d = Nil THEN Idle ELSE [Idle EXCEPT !.op = "augment", !.node = d]
  BY ONLY EraseDone, <1>3, <1>4 DEF EraseDone
<1>14. Well(t2, members, sz, c, sub, bh1)
  <2>1. CASE d = Nil
    <3>1. c = Idle /\ members = {}
      BY ONLY <2>1, <1>2, <1>6, <1>13
    <3>2. c \in CallType /\ c.op = "none"
      BY ONLY <3>1, <1>2, CallTyped DEF Idle
    <3>3. Wrong(members, sz, sub) = {}
      BY ONLY <3>1 DEF Wrong
    <3> QED  BY ONLY <3>1, <3>2, <3>3, <1>8, <1>10, <1>11 DEF Well, Held
  <2>2. CASE d # Nil
    <3>1. d \in members
      BY ONLY <2>2, <1>6
    <3>2. c = [Idle EXCEPT !.op = "augment", !.node = d] /\ d \in TreeNodes \cup {Nil}
      BY ONLY <2>2, <3>1, <1>2, <1>13
    <3>3. c \in CallType /\ c.op = "augment" /\ c.node = d
      BY ONLY <3>2, CallTyped DEF Idle
    <3> QED  BY ONLY <3>1, <3>3, <1>8, <1>10, <1>11, <1>12 DEF Well, Held
  <2> QED  BY ONLY <2>1, <2>2
<1> QED  BY ONLY <1>1, <1>4, <1>14 DEF IsWell

-----------------------------------------------------------------------------
(* Augmentation and replacement keep it.                                    *)

\* One call of the callback, or two.
LEMMA TurnOnce ==
    ASSUME NEW t, NEW sz, NEW n \in TreeNodes, NEW p, NEW a, Refreshed(t, sz, n, a),
           p # Nil => \A s \in Sides : t.child[s][p] \in {n, Nil}
    PROVE  Turn(t, sz, n, p, a)
<1>1. /\ a \in [TreeNodes -> Nat] /\ a[n] = 1 + Sum(sz, t.child["left"][n]) + Sum(sz, t.child["right"][n])
      /\ \A m \in TreeNodes : m # n => a[m] = sz[m]
  BY ONLY Refreshed(t, sz, n, a) DEF Refreshed
<1>2. \A m \in TreeNodes : a[m] # sz[m] => m = n \/ (p # Nil /\ \E s \in Sides : t.child[s][p] = m)
  BY ONLY <1>1
<1>3. p # Nil => \A s \in Sides : ~ (t.child[s][p] # Nil /\ t.child[s][p] # n)
  BY ONLY p # Nil => \A s \in Sides : t.child[s][p] \in {n, Nil}
<1> QED  BY ONLY <1>1, <1>2, <1>3 DEF Turn

\* Or two, the second for a sibling.
LEMMA TurnTwice ==
    ASSUME NEW t, NEW M, NEW sub, Shape(t, M, sub), NEW sz, NEW n \in M, NEW p \in M, NEW s \in Sides,
           t.child[s][p] = n, NEW w, w \in {n, t.child[Opp(s)][p]}, w # Nil, w = n => t.child[Opp(s)][p] = Nil,
           NEW a, Refreshed(t, sz, n, a), NEW b, Refreshed(t, a, w, b)
    PROVE  Turn(t, sz, n, p, b)
<1>1. M \subseteq TreeNodes /\ n # Nil /\ p # Nil /\ Nil \notin M /\ n \in TreeNodes
  BY NodeKeys DEF Shape
<1>2. /\ a \in [TreeNodes -> Nat] /\ a[n] = 1 + Sum(sz, t.child["left"][n]) + Sum(sz, t.child["right"][n])
      /\ \A m \in TreeNodes : m # n => a[m] = sz[m]
  BY ONLY Refreshed(t, sz, n, a) DEF Refreshed
<1>3. /\ b \in [TreeNodes -> Nat] /\ b[w] = 1 + Sum(a, t.child["left"][w]) + Sum(a, t.child["right"][w])
      /\ \A m \in TreeNodes : m # w => b[m] = a[m]
  BY ONLY Refreshed(t, a, w, b) DEF Refreshed
<1>4. Opp(s) \in Sides /\ Opp(s) # s /\ \A x \in Sides : x = s \/ x = Opp(s)
  BY ONLY s \in Sides, Opposite
<1>5. Only(t, M, p, s, n)
  BY ONLY Shape(t, M, sub), <1>1, s \in Sides, t.child[s][p] = n, p \in M, ChildOnly
<1>6. w \in M /\ w # p
  <2>1. CASE w = n
    BY ONLY <2>1, <1>5 DEF Only
  <2>2. CASE w # n
    <3>1. w = t.child[Opp(s)][p]
      BY ONLY <2>2, w \in {n, t.child[Opp(s)][p]}
    <3>2. Only(t, M, p, Opp(s), w)
      BY ONLY Shape(t, M, sub), <3>1, <1>4, p \in M, w # Nil, ChildOnly
    <3> QED  BY ONLY <3>2 DEF Only
  <2> QED  BY ONLY <2>1, <2>2
\* n is not a child of w.
<1>7. \A x \in Sides : t.child[x][w] # n /\ t.child[x][w] \in M \cup {Nil}
  <2> SUFFICES ASSUME NEW x \in Sides PROVE t.child[x][w] # n /\ t.child[x][w] \in M \cup {Nil}
    OBVIOUS
  <2>1. t.child[x][w] # n
    BY ONLY <1>5, <1>6, x \in Sides DEF Only
  <2>2. t.child[x][w] \in M \cup {Nil}
    BY ONLY Shape(t, M, sub), <1>6, x \in Sides DEF Shape, Placed
  <2> QED  BY ONLY <2>1, <2>2
<1>8. \A x \in Sides : Sum(a, t.child[x][w]) = Sum(sz, t.child[x][w])
  BY ONLY <1>1, <1>2, <1>7 DEF Sum
<1>9. b[w] = 1 + Sum(sz, t.child["left"][w]) + Sum(sz, t.child["right"][w])
  <2>1. "left" \in Sides /\ "right" \in Sides
    BY DEF Sides
  <2>2. /\ Sum(a, t.child["left"][w]) = Sum(sz, t.child["left"][w])
        /\ Sum(a, t.child["right"][w]) = Sum(sz, t.child["right"][w])
    BY ONLY <1>8, <2>1
  <2> QED  BY ONLY <2>2, <1>3
<1>10. b[n] = 1 + Sum(sz, t.child["left"][n]) + Sum(sz, t.child["right"][n])
  <2>1. CASE w = n
    BY ONLY <2>1, <1>9
  <2>2. CASE w # n
    <3>1. b[n] = a[n]
      BY ONLY <2>2, <1>1, <1>3
    <3> QED  BY ONLY <3>1, <1>2
  <2> QED  BY ONLY <2>1, <2>2
<1>11. \A m \in TreeNodes : b[m] # sz[m] => m = n \/ (p # Nil /\ \E x \in Sides : t.child[x][p] = m)
  <2> SUFFICES ASSUME NEW m \in TreeNodes, b[m] # sz[m], m # n PROVE \E x \in Sides : t.child[x][p] = m
    BY <1>1
  <2>1. m = w
    BY ONLY <1>2, <1>3, m \in TreeNodes, b[m] # sz[m], m # n
  <2> QED  BY ONLY <2>1, m # n, w \in {n, t.child[Opp(s)][p]}, <1>4
<1>12. \A x \in Sides : t.child[x][p] # Nil /\ t.child[x][p] # n => t.child[x][p] = w
  BY ONLY <1>4, t.child[s][p] = n, w \in {n, t.child[Opp(s)][p]}, w = n => t.child[Opp(s)][p] = Nil
<1> QED
  <2>1. ASSUME NEW x \in Sides, NEW k, k = t.child[x][p], k # Nil, k # n
        PROVE  b[k] = 1 + Sum(sz, t.child["left"][k]) + Sum(sz, t.child["right"][k])
    <3>1. k = w
      BY ONLY <2>1, <1>12
    <3> QED  BY ONLY <3>1, <1>9
  <2> QED  BY ONLY <2>1, <1>3, <1>10, <1>11 DEF Turn

\* A turn of rb_augment_path.
LEMMA AugmentKeeps ==
    ASSUME NEW sub, NEW bh, Well(tree, members, size, call, sub, bh), Augment
    PROVE  IsWell(tree', members', size', call')
<1>1. call.op = "augment" /\ tree' = tree /\ members' = members
  BY DEF Augment
<1>2. Held(members, call) = members
  BY ONLY <1>1 DEF Held
<1>3. PICK n, p, l, r : /\ n = call.node /\ p = tree.parent[n]
                        /\ l = tree.child["left"][p] /\ r = tree.child["right"][p]
  OBVIOUS
<1>4. /\ Shape(tree, members, sub) /\ Loose(tree, members) /\ size \in [TreeNodes -> Nat] /\ call \in CallType
      /\ Balanced(tree, members, bh) /\ n \in members
      /\ Wrong(members, size, sub) \subseteq Due(tree, members, sub, n)
  BY ONLY Well(tree, members, size, call, sub, bh), <1>1, <1>2, <1>3 DEF Well
<1>5. tree \in TreeType /\ members \subseteq TreeNodes /\ Nil \notin TreeNodes /\ n \in TreeNodes
  BY <1>4, NodeKeys DEF Shape
<1>6. PICK sz, c : sz = size' /\ c = call'
  OBVIOUS
<1>7. sz = IF p = Nil THEN Update(size, n)
           ELSE IF n = l /\ r # Nil THEN Update(Update(size, n), r)
           ELSE IF l # Nil THEN Update(Update(size, n), l)
           ELSE Update(size, n)
  BY ONLY Augment, <1>3, <1>6 DEF Augment
<1>8. c = IF p = Nil THEN Idle ELSE [call EXCEPT !.node = p]
  BY ONLY Augment, <1>3, <1>6 DEF Augment
<1>9. PICK a : a = Update(size, n)
  OBVIOUS
<1>10. Refreshed(tree, size, n, a)
  BY ONLY <1>4, <1>5, <1>9, UpdateFacts
<1>11. a \in [TreeNodes -> Nat]
  BY ONLY <1>10 DEF Refreshed
<1>12. Turn(tree, size, n, p, sz)
  <2>1. CASE p = Nil
    <3>1. sz = a
      BY ONLY <2>1, <1>7, <1>9
    <3> QED  BY ONLY <2>1, <3>1, <1>5, <1>10, TurnOnce
  <2>2. CASE p # Nil
    <3>1. n # tree.root
      BY ONLY <2>2, <1>3, <1>4, SideTold
    <3>2. p \in members /\ \E s \in Sides : tree.child[s][p] = n
      BY ONLY <3>1, <1>3, <1>4, SideTold
    <3>3. PICK s \in Sides : tree.child[s][p] = n
      BY ONLY <3>2
    <3>4. PICK o : o = tree.child[Opp(s)][p]
      OBVIOUS
    <3>5. n # Nil
      BY ONLY <1>5
    <3>6. Only(tree, members, p, s, n)
      BY ONLY <3>2, <3>3, <3>5, <1>4, s \in Sides, ChildOnly
    <3>7. o # n /\ \A x \in Sides : x = s \/ x = Opp(s)
      <4>1. Opp(s) \in Sides /\ Opp(s) # s /\ \A x \in Sides : x = s \/ x = Opp(s)
        BY ONLY s \in Sides, Opposite
      <4> QED  BY ONLY <4>1, <3>2, <3>4, <3>6 DEF Only
    <3>8. \/ s = "left" /\ l = n /\ r = o
          \/ s = "right" /\ l = o /\ r = n
      BY ONLY <3>3, <3>4, <1>3, s \in Sides, Opposite DEF Sides
    <3>9. \/ sz = a /\ o = Nil
          \/ \E w \in {n, o} : w # Nil /\ (w = n => o = Nil) /\ sz = Update(a, w)
      <4>1. CASE o # Nil
        <5>1. sz = Update(a, o)
          BY ONLY <4>1, <2>2, <3>5, <3>7, <3>8, <1>7, <1>9
        <5> QED  BY ONLY <5>1, <4>1, <3>7
      <4>2. CASE o = Nil /\ s = "left"
        <5>1. sz = Update(a, n)
          BY ONLY <4>2, <2>2, <3>5, <3>7, <3>8, <1>7, <1>9
        <5> QED  BY ONLY <5>1, <4>2, <3>5
      <4>3. CASE o = Nil /\ s # "left"
        <5>1. l = Nil /\ n # l
          BY ONLY <4>3, <3>5, <3>8
        <5>2. sz = a
          BY ONLY <5>1, <2>2, <1>7, <1>9
        <5> QED  BY ONLY <5>2, <4>3
      <4> QED  BY ONLY <4>1, <4>2, <4>3
    <3>10. CASE sz = a /\ o = Nil
      <4>1. \A x \in Sides : tree.child[x][p] \in {n, Nil}
        BY ONLY <3>3, <3>4, <3>7, <3>10
      <4> QED  BY ONLY <4>1, <3>10, <1>5, <1>10, TurnOnce
    <3>11. CASE \E w \in {n, o} : w # Nil /\ (w = n => o = Nil) /\ sz = Update(a, w)
      <4>1. PICK w \in {n, o} : w # Nil /\ (w = n => o = Nil) /\ sz = Update(a, w)
        BY ONLY <3>11
      <4>2. w \in TreeNodes
        <5>1. tree.child[Opp(s)][p] \in TreeNodes \cup {Nil}
          <6>1. Opp(s) \in Sides /\ p \in TreeNodes
            BY ONLY s \in Sides, Opposite, <3>2, <1>5
          <6> QED  BY ONLY <6>1, <1>5, TreeTyped
        <5> QED  BY ONLY <5>1, <4>1, w \in {n, o}, <3>4, <1>5
      <4>3. Refreshed(tree, a, w, sz)
        BY ONLY <4>1, <4>2, <1>5, <1>11, UpdateFacts
      <4>4. w \in {n, tree.child[Opp(s)][p]} /\ w # Nil /\ (w = n => tree.child[Opp(s)][p] = Nil)
        BY ONLY <4>1, w \in {n, o}, <3>4
      <4> QED  BY ONLY <4>3, <4>4, <3>2, <3>3, s \in Sides, <1>4, <1>10, TurnTwice
    <3> QED  BY ONLY <3>9, <3>10, <3>11
  <2> QED  BY ONLY <2>1, <2>2
<1>13. IF p = Nil THEN Wrong(members, sz, sub) = {}
       ELSE p \in members /\ Wrong(members, sz, sub) \subseteq Due(tree, members, sub, p)
  BY ONLY <1>3, <1>4, <1>12, AugmentWrong
<1>14. sz \in [TreeNodes -> Nat]
  BY ONLY <1>12 DEF Turn
<1>15. Well(tree, members, sz, c, sub, bh)
  <2>1. CASE p = Nil
    <3>1. c = Idle
      BY ONLY <2>1, <1>8
    <3>2. c \in CallType /\ c.op = "none"
      BY ONLY <3>1, CallTyped, <1>5 DEF Idle
    <3>3. Wrong(members, sz, sub) = {}
      BY ONLY <2>1, <1>13
    <3> QED  BY ONLY <3>1, <3>2, <3>3, <1>4, <1>14 DEF Well, Held
  <2>2. CASE p # Nil
    <3>1. p \in members /\ Wrong(members, sz, sub) \subseteq Due(tree, members, sub, p)
      BY ONLY <2>2, <1>13
    <3>2. c = [call EXCEPT !.node = p] /\ p \in TreeNodes
      BY ONLY <2>2, <3>1, <1>5, <1>8
    <3>3. c \in CallType /\ c.op = "augment" /\ c.node = p
      BY ONLY <3>2, <1>1, <1>4 DEF CallType
    <3> QED  BY ONLY <3>1, <3>3, <1>4, <1>14 DEF Well, Held
  <2> QED  BY ONLY <2>1, <2>2
<1> QED  BY ONLY <1>1, <1>6, <1>15 DEF IsWell

\* rb_replace_node between calls.
LEMMA ReplaceKeeps ==
    ASSUME NEW sub, NEW bh, Well(tree, members, size, call, sub, bh), NEW old \in TreeNodes, NEW new \in TreeNodes,
           ReplaceNode(old, new)
    PROVE  IsWell(tree', members', size', call')
<1>1. /\ call = Idle /\ old \in members /\ new \notin members /\ Key[old] = Key[new] /\ call' = call
      /\ members' = (members \ {old}) \cup {new}
  BY DEF ReplaceNode
<1>2. /\ Shape(tree, members, sub) /\ Loose(tree, members) /\ size \in [TreeNodes -> Nat]
      /\ Balanced(tree, members, bh) /\ Wrong(members, size, sub) = {}
  BY ONLY Well(tree, members, size, call, sub, bh), <1>1, IdleIs
<1>3. tree \in TreeType /\ members \subseteq TreeNodes /\ Nil \notin TreeNodes /\ new \in TreeNodes \ members
  BY <1>1, <1>2, NodeKeys DEF Shape
<1>4. PICK t1 : t1 = Repoint(tree, old, new)
  OBVIOUS
<1>5. PICK t2, t3, sz : t2 = Supplant(t1, old, new) /\ t3 = tree' /\ sz = size'
  OBVIOUS
<1>6. t3 = Clear(t2, old)
  BY ONLY ReplaceNode(old, new), <1>4, <1>5 DEF ReplaceNode, Supplant
<1>7. Repointed(tree, old, new, members, t1)
  <2>1. new \in TreeNodes \cup {Nil}
    BY ONLY <1>3
  <2> QED  BY ONLY <2>1, <1>1, <1>2, <1>4, RepointFacts
<1>8. Supplanted(t1, old, new, t2)
  <2>1. t1 \in TreeType
    BY ONLY <1>7 DEF Repointed
  <2> QED  BY ONLY <2>1, <1>5, old \in TreeNodes, new \in TreeNodes, SupplantFacts
<1>9. Cleared(t2, old, t3)
  <2>1. t2 \in TreeType
    BY ONLY <1>8 DEF Supplanted
  <2> QED  BY ONLY <2>1, <1>6, old \in TreeNodes, ClearFacts
<1>10. PICK M2, sub2 : M2 = (members \ {old}) \cup {new} /\ sub2 = WithSwapped(sub, old, new)
  OBVIOUS
<1>11. /\ Replaced(tree, old, new, members, t3)
       /\ Loose(t3, (members \ {old}) \cup {new})
       /\ \A m \in TreeNodes \ {old} : t3.color[m] = IF m = new THEN tree.color[old] ELSE tree.color[m]
  <2>1. TakenOver(tree, old, new, members, t3)
    BY ONLY <1>1, <1>2, <1>3, <1>7, <1>8, <1>9, ReplaceFacts
  <2> QED  BY ONLY <2>1 DEF TakenOver
<1>12. SameRank(members, old, new)
  BY ONLY <1>1 DEF SameRank, Before
<1>13. Shape(t3, M2, sub2)
  <2>1. Shape(t3, (members \ {old}) \cup {new}, WithSwapped(sub, old, new))
    BY ONLY <1>1, <1>2, <1>3, <1>11, <1>12, ReplaceShape
  <2> QED  BY ONLY <2>1, <1>10
<1>14. PICK bh2 : Echo(tree, members, bh, old, new, t3, bh2)
  <2>1. bh \in [TreeNodes -> Nat]
    BY ONLY <1>2 DEF Balanced
  <2>2. \A m \in (members \ {old}) \cup {new} : t3.color[m] = IF m = new THEN tree.color[old] ELSE tree.color[m]
    BY ONLY <1>1, <1>3, <1>11
  <2> QED  BY ONLY <2>1, <2>2, <1>1, <1>2, <1>3, <1>11, Echoed
<1>15. Balanced(t3, M2, bh2)
  <2>1. M2 = (members \ {old}) \cup {new}
    BY ONLY <1>10
  <2>2. Balanced(tree, members, bh) => Balanced(t3, M2, bh2)
    BY ONLY <2>1, <1>1, <1>2, <1>3, <1>14, EchoKeeps
  <2> QED  BY ONLY <2>2, <1>2
<1>16. sz \in [TreeNodes -> Nat] /\ sz[new] = size[old] /\ \A m \in members \ {old} : sz[m] = size[m]
  <2>1. sz = [size EXCEPT ![new] = size[old], ![old] = 0]
    BY ONLY ReplaceNode(old, new), <1>5 DEF ReplaceNode
  <2> QED  BY ONLY <2>1, <1>1, <1>2, <1>3
<1>17. Wrong(M2, sz, sub2) = {}
  <2>1. Wrong((members \ {old}) \cup {new}, sz, WithSwapped(sub, old, new)) = {}
    BY ONLY <1>1, <1>2, <1>3, <1>16, ReplaceWrong
  <2> QED  BY ONLY <2>1, <1>10
<1>18. Well(t3, M2, sz, call, sub2, bh2)
  <2>1. call \in CallType /\ call.op = "none"
    BY ONLY <1>1, <1>3, CallTyped DEF Idle
  <2>2. Loose(t3, M2)
    BY ONLY <1>10, <1>11
  <2> QED  BY ONLY <2>1, <2>2, <1>1, <1>13, <1>15, <1>16, <1>17 DEF Well, Held
<1> QED  BY ONLY <1>1, <1>5, <1>10, <1>18 DEF IsWell

-----------------------------------------------------------------------------
\* The empty tree is well.
LEMMA WellInit == TreeInit => TreeInv
<1> SUFFICES ASSUME TreeInit PROVE TreeInv
  OBVIOUS
<1>1. PICK sub, bh : sub = [n \in TreeNodes |-> {}] /\ bh = [n \in TreeNodes |-> 0]
  OBVIOUS
<1>2. /\ tree \in TreeType /\ tree.root = Nil
      /\ \A n \in TreeNodes : tree.parent[n] = n /\ \A s \in Sides : tree.child[s][n] = Nil
  BY DEF TreeInit, TreeType
<1>3. members = {} /\ size \in [TreeNodes -> Nat] /\ call = Idle
  BY DEF TreeInit
<1>4. sub \in [TreeNodes -> SUBSET TreeNodes] /\ bh \in [TreeNodes -> Nat]
  BY ONLY <1>1
<1>5. Shape(tree, members, sub)
  <2>1. IsFiniteSet({})
    BY FS_EmptySet
  <2> QED  BY ONLY <2>1, <1>2, <1>3, <1>4 DEF Shape, Below
<1>6. Loose(tree, members)
  BY ONLY <1>2, <1>3 DEF Loose
<1>7. Balanced(tree, members, bh)
  BY ONLY <1>2, <1>3, <1>4 DEF Balanced, IsRed
<1>8. Wrong(members, size, sub) = {}
  BY ONLY <1>3 DEF Wrong
<1>9. call \in CallType /\ call.op = "none"
  <2>1. Nil \in TreeNodes \cup {Nil}
    OBVIOUS
  <2> QED  BY ONLY <2>1, <1>3, CallTyped DEF Idle
<1>10. Well(tree, members, size, call, sub, bh)
  BY ONLY <1>3, <1>5, <1>6, <1>7, <1>8, <1>9 DEF Well, Held
<1> QED  BY ONLY <1>10 DEF TreeInv, IsWell

\* Every step keeps it: the three facts of the inductive invariant.
LEMMA WellNext == TreeInv /\ [TreeNext]_treeVars => TreeInv'
<1> SUFFICES ASSUME TreeInv, [TreeNext]_treeVars PROVE IsWell(tree', members', size', call')
  BY DEF TreeInv
<1>1. PICK sub, bh : Well(tree, members, size, call, sub, bh)
  BY ONLY TreeInv DEF TreeInv, IsWell
<1>2. CASE UNCHANGED treeVars
  <2>1. tree' = tree /\ members' = members /\ size' = size /\ call' = call
    BY ONLY <1>2 DEF treeVars
  <2> QED  BY ONLY <2>1, <1>1 DEF IsWell
<1>3. ASSUME NEW n \in TreeNodes, Insert(n) PROVE IsWell(tree', members', size', call')
  BY ONLY <1>1, <1>3, InsertKeeps
<1>4. ASSUME NEW n \in TreeNodes, Erase(n) PROVE IsWell(tree', members', size', call')
  BY ONLY <1>1, <1>4, EraseKeeps
<1>5. CASE InsertRecolor
  BY ONLY <1>1, <1>5, RecolorKeeps
<1>6. CASE InsertRotate
  BY ONLY <1>1, <1>6, InsertRotateKeeps
<1>7. CASE InsertDone
  BY ONLY <1>1, <1>7, InsertDoneKeeps
<1>8. CASE EraseUp
  BY ONLY <1>1, <1>8, EraseUpKeeps
<1>9. CASE EraseRotate
  BY ONLY <1>1, <1>9, EraseRotateKeeps
<1>10. CASE EraseDone
  BY ONLY <1>1, <1>10, EraseDoneKeeps
<1>11. CASE Augment
  BY ONLY <1>1, <1>11, AugmentKeeps
<1>12. ASSUME NEW old \in TreeNodes, NEW new \in TreeNodes, ReplaceNode(old, new)
       PROVE  IsWell(tree', members', size', call')
  BY ONLY <1>1, <1>12, ReplaceKeeps
<1> QED  BY ONLY [TreeNext]_treeVars, <1>2, <1>3, <1>4, <1>5, <1>6, <1>7, <1>8, <1>9, <1>10, <1>11, <1>12 DEF TreeNext

\* It implies what the runs check.
LEMMA WellTells == TreeInv => TreeBalanced /\ InOrder /\ AugmentExact
<1>1. CASE call = Idle
  <2> SUFFICES ASSUME TreeInv PROVE TreeBalanced /\ InOrder /\ AugmentExact
    OBVIOUS
  <2>1. PICK sub, bh : Well(tree, members, size, call, sub, bh)
    BY ONLY TreeInv DEF TreeInv, IsWell
  <2>2. /\ Shape(tree, members, sub) /\ Loose(tree, members)
        /\ Balanced(tree, members, bh) /\ Wrong(members, size, sub) = {}
    BY ONLY <1>1, <2>1, IdleIs
  <2>3. TreeBalanced
    BY ONLY <2>2, BalancedTold
  <2>4. InOrder
    BY ONLY <2>2, OrderTold
  <2>5. AugmentExact
    BY ONLY <2>2, ExactTold
  <2> QED  BY ONLY <2>3, <2>4, <2>5
<1>2. CASE call # Idle
  BY ONLY <1>2 DEF TreeBalanced, InOrder, AugmentExact
<1> QED  BY ONLY <1>1, <1>2

\* Whatever the sequence of insertions, removals and replacements, with all their
\* rotations, paintings and updates, TreeInv holds after each step of each of them.
THEOREM TreeInvariant == TreeSpec => []TreeInv
<1> QED  BY WellInit, WellNext, PTL DEF TreeSpec

\* After any sequence of rb_insert_color, rb_erase and rb_replace_node, of any number
\* of nodes, the tree holds the members, linked both ways, and obeys the colour rules
\* that bound its depth.
THEOREM TreesStayBalanced == TreeSpec => []TreeBalanced
<1>1. TreeInv => TreeBalanced
  BY WellTells
<1> QED  BY <1>1, TreeInvariant, PTL

\* rb_first, rb_last, rb_next and rb_prev meet exactly the members, by their keys,
\* after any sequence of calls.
THEOREM TreesStayInOrder == TreeSpec => []InOrder
<1>1. TreeInv => InOrder
  BY WellTells
<1> QED  BY <1>1, TreeInvariant, PTL

\* The rb_augment functions call back for enough nodes, in the right order: the data of
\* every node are right after any sequence of calls.
THEOREM AugmentStaysExact == TreeSpec => []AugmentExact
<1>1. TreeInv => AugmentExact
  BY WellTells
<1> QED  BY <1>1, TreeInvariant, PTL

(***************************************************************************)
(* The spinlock is a mutex for every set of threads its byte can count:    *)
(* at most 129 of them for the 8-bit lock of the code.                     *)
(***************************************************************************)
\* The byte, from 1 down to -SignBit, counts every thread decrementing once.
FewThreads == Cardinality(Threads) <= SignBit + 1

\* Who has decremented since the last unlock polls or holds the lock, and once
\* anyone has, someone holds it.
TriedInv ==
    /\ \A t \in tried : pc[t] \in {"poll", "locked"}
    /\ \A t \in Threads : pc[t] = "locked" => t \in tried
    /\ tried # {} => \E t \in Threads : pc[t] = "locked"

IInv == TypeInv /\ LockCounts /\ MutualExclusion /\ TriedInv

LEMMA InitIInv == Init => IInv
<1> SUFFICES ASSUME Init PROVE IInv
  OBVIOUS
<1>1. Cardinality({}) = 0
  BY FS_EmptySet
<1>2. TypeInv
  <2>1. 1 \in Bytes
    BY SpinlockAssumption DEF Bytes
  <2> QED BY <2>1 DEF Init, TypeInv
<1> QED
  BY <1>1, <1>2 DEF Init, IInv, LockCounts, MutualExclusion, TriedInv

\* tried is finite, and has room for a thread outside it.
LEMMA TriedSize ==
    ASSUME IInv
    PROVE  /\ Cardinality(tried) \in Nat
           /\ tried = {} <=> Cardinality(tried) = 0
           /\ \A t \in Threads \ tried :
                 /\ Cardinality(tried \cup {t}) = Cardinality(tried) + 1
                 /\ Cardinality(tried) + 1 <= Cardinality(Threads)
           /\ Cardinality(Threads) \in Nat
<1>1. IsFiniteSet(tried) /\ Cardinality(tried) \in Nat /\ Cardinality(Threads) \in Nat
  BY SpinlockAssumption, FS_Subset, FS_CardinalityType DEF IInv, TypeInv
<1>2. tried = {} <=> Cardinality(tried) = 0
  BY <1>1, FS_EmptySet
<1>3. ASSUME NEW t \in Threads \ tried
      PROVE  /\ Cardinality(tried \cup {t}) = Cardinality(tried) + 1
             /\ Cardinality(tried) + 1 <= Cardinality(Threads)
  <2>1. Cardinality(tried \cup {t}) = Cardinality(tried) + 1
    BY <1>1, FS_AddElement
  <2>2. tried \cup {t} \subseteq Threads
    BY DEF IInv, TypeInv
  <2>3. Cardinality(tried \cup {t}) <= Cardinality(Threads)
    BY <2>2, SpinlockAssumption, FS_Subset
  <2> QED BY <2>1, <2>3
<1> QED
  BY <1>1, <1>2, <1>3

\* With few enough threads a decrement never wraps, and lets its thread in
\* exactly when it is the first since the last unlock.
LEMMA DecrementOutcome ==
    ASSUME FewThreads, IInv, NEW t \in Threads \ tried
    PROVE  /\ Decb(lock) = lock - 1
           /\ Decb(lock) \in Bytes
           /\ Decb(lock) < 0 <=> tried # {}
<1>1. lock = 1 - Cardinality(tried)
  BY DEF IInv, LockCounts
<1>2. Cardinality(tried) \in Nat /\ Cardinality(tried) + 1 <= SignBit + 1 /\ SignBit \in Nat
  <2>1. Cardinality(tried) + 1 <= Cardinality(Threads)
    BY TriedSize
  <2>2. Cardinality(tried) \in Nat /\ Cardinality(Threads) \in Nat
    BY TriedSize
  <2>3. SignBit \in Nat
    BY SpinlockAssumption
  <2> QED BY <2>1, <2>2, <2>3 DEF FewThreads
<1>3. lock >= 1 - SignBit
  BY <1>1, <1>2
<1> QED
  BY <1>1, <1>2, <1>3, TriedSize, SpinlockAssumption DEF Decb, Bytes

LEMMA NextIInv ==
    ASSUME FewThreads, IInv, [Next]_vars
    PROVE  IInv'
<1> USE DEF IInv
<1>1. CASE UNCHANGED vars
  BY <1>1 DEF vars, TypeInv, LockCounts, MutualExclusion, TriedInv
<1>2. ASSUME NEW t \in Threads, Enter(t) PROVE IInv'
  BY <1>2 DEF Enter, TypeInv, LockCounts, MutualExclusion, TriedInv
<1>3. ASSUME NEW t \in Threads, Decrement(t) PROVE IInv'
  <2>1. t \notin tried
    BY <1>3 DEF Decrement, TriedInv
  <2>2. lock' = lock - 1 /\ lock' \in Bytes /\ tried' = tried \cup {t}
    BY <1>3, <2>1, DecrementOutcome DEF Decrement
  <2>3. pc' = [pc EXCEPT ![t] = IF tried # {} THEN "poll" ELSE "locked"]
    BY <1>3, <2>1, DecrementOutcome DEF Decrement
  <2>4. TypeInv'
    BY <2>2, <2>3 DEF TypeInv
  <2>5. LockCounts'
    BY <2>1, <2>2, TriedSize DEF LockCounts
  <2>6. MutualExclusion' /\ TriedInv'
    BY <2>1, <2>2, <2>3 DEF MutualExclusion, TriedInv, TypeInv
  <2> QED BY <2>4, <2>5, <2>6
<1>4. ASSUME NEW t \in Threads, Poll(t) PROVE IInv'
  \* The byte is positive: nobody has decremented since the last unlock.
  <2>1. tried = {}
    BY <1>4, TriedSize DEF Poll, LockCounts
  <2> QED
    BY <1>4, <2>1 DEF Poll, TypeInv, LockCounts, MutualExclusion, TriedInv
<1>5. ASSUME NEW t \in Threads, Unlock(t) PROVE IInv'
  <2>1. lock' = 1 - Cardinality(tried') /\ lock' \in Bytes
    BY <1>5, FS_EmptySet, SpinlockAssumption DEF Unlock, Bytes
  <2> QED
    BY <1>5, <2>1 DEF Unlock, TypeInv, LockCounts, MutualExclusion, TriedInv
<1> QED
  BY <1>1, <1>2, <1>3, <1>4, <1>5 DEF Next

\* At most one thread holds the lock, as long as no more than SignBit + 1
\* threads use it.
THEOREM SpinlockExcludes ==
    ASSUME FewThreads
    PROVE  Spec => []MutualExclusion
<1>1. IInv => MutualExclusion
  BY DEF IInv
<1> QED
  BY <1>1, FewThreads, InitIInv, NextIInv, PTL DEF Spec

\* Under the same bound the byte always counts the threads that decremented it.
THEOREM SpinlockCounts ==
    ASSUME FewThreads
    PROVE  Spec => []LockCounts
<1>1. IInv => LockCounts
  BY DEF IInv
<1> QED
  BY <1>1, FewThreads, InitIInv, NextIInv, PTL DEF Spec

\* Under the same bound every behaviour of the spinlock is one of a mutex: a
\* decrement that lets a thread in acquires, an unlock releases, every other
\* instruction changes nothing the mutex can see.
THEOREM SpinlockRefinesMutex ==
    ASSUME FewThreads
    PROVE  Spec => ImplementsMutex
<1>1. Init => Lock!Init
  BY DEF Init, Lock!Init, Owner
<1>2. ASSUME IInv, IInv', [Next]_vars PROVE [Lock!Next]_Owner
  <2> USE DEF IInv
  <2>0. /\ \A t \in Threads : pc[t] = "locked" => Owner = t
        /\ (\A t \in Threads : pc[t] # "locked") => Owner = NoThread
    BY <1>2 DEF Owner, MutualExclusion
  <2>1. /\ \A t \in Threads : pc'[t] = "locked" => Owner' = t
        /\ (\A t \in Threads : pc'[t] # "locked") => Owner' = NoThread
    BY <1>2 DEF Owner, MutualExclusion
  <2>2. CASE UNCHANGED vars
    BY <2>2 DEF vars, Owner
  <2>3. ASSUME NEW t \in Threads, Enter(t) \/ Poll(t) PROVE Owner' = Owner
    <3>1. \A u \in Threads : pc'[u] = "locked" <=> pc[u] = "locked"
      BY <1>2, <2>3 DEF Enter, Poll, TypeInv
    <3> QED
      BY <2>0, <2>1, <3>1
  <2>4. ASSUME NEW t \in Threads, Decrement(t) PROVE [Lock!Next]_Owner
    <3>1. t \notin tried
      BY <1>2, <2>4 DEF Decrement, TriedInv
    <3>2. pc' = [pc EXCEPT ![t] = IF tried # {} THEN "poll" ELSE "locked"]
      BY <1>2, <2>4, <3>1, DecrementOutcome DEF Decrement
    <3>3. CASE tried = {}
      <4>1. Owner = NoThread
        BY <1>2, <2>0, <3>3 DEF TriedInv
      <4>2. Owner' = t
        BY <1>2, <2>1, <3>2, <3>3 DEF TypeInv
      <4> QED
        BY <4>1, <4>2 DEF Lock!Next, Lock!Acquire
    <3>4. CASE tried # {}
      <4>1. \A u \in Threads : pc'[u] = "locked" <=> pc[u] = "locked"
        BY <1>2, <2>4, <3>2, <3>4 DEF Decrement, TypeInv
      <4> QED
        BY <2>0, <2>1, <4>1
    <3> QED BY <3>3, <3>4
  <2>5. ASSUME NEW t \in Threads, Unlock(t) PROVE [Lock!Next]_Owner
    <3>1. Owner = t
      BY <2>0, <2>5 DEF Unlock
    <3>2. Owner' = NoThread
      BY <1>2, <2>1, <2>5 DEF Unlock, TypeInv, MutualExclusion
    <3> QED
      BY <3>1, <3>2 DEF Lock!Next, Lock!Release
  <2> QED
    BY <1>2, <2>2, <2>3, <2>4, <2>5 DEF Next
<1> QED
  BY <1>1, <1>2, FewThreads, InitIInv, NextIInv, PTL DEF Spec, ImplementsMutex, Lock!Spec
=============================================================================
