------------------------------- MODULE Rbtree -------------------------------
(***************************************************************************)
(* The red-black trees of lib/rbtree.c and include/lib/rbtree.h, used the  *)
(* way the example in the header uses them: the caller descends to a leaf  *)
(* and calls rb_link_node and rb_insert_color, or rb_erase, and around     *)
(* both the rb_augment functions, here with a callback that keeps the size *)
(* of each subtree.  One action per turn of a loop, and one per call for   *)
(* what has no loop.  The two mirrored halves of the code are one, with    *)
(* the side as a parameter.                                                *)
(*                                                                         *)
(* An EXCEPT at Nil assigns nothing.  A definition marked FAULT is a       *)
(* plausible slip in the one after it, kept to show that a property would  *)
(* notice it.                                                              *)
(***************************************************************************)
EXTENDS Naturals, FiniteSets, Sequences

CONSTANTS
    TreeNodes,   \* the rb_nodes
    Key,         \* the key of the element each is embedded in: TreeNodes -> Nat
    Nil          \* NULL

\* An element has a key, and no node is at address NULL.
ASSUME TreeAssumption == Key \in [TreeNodes -> Nat] /\ Nil \notin TreeNodes

VARIABLES
    tree,     \* child[side], parent and color of each node, and the root
    size,     \* the data kept by the callback in each element
    members,  \* what the caller has in the tree
    call      \* the call under way: op, its locals node and parent, the
              \* caller's node and the node rb_augment_erase_begin returned

treeVars == <<tree, size, members, call>>

Sides == {"left", "right"}
Opp(s) == CHOOSE o \in Sides : o # s

Idle == [op |-> "none", node |-> Nil, parent |-> Nil, of |-> Nil, deepest |-> Nil]

TreeInit ==
    /\ tree = [child |-> [s \in Sides |-> [n \in TreeNodes |-> Nil]],
               parent |-> [n \in TreeNodes |-> n],
               color |-> [n \in TreeNodes |-> "red"],
               root |-> Nil]
    /\ size = [n \in TreeNodes |-> 0]
    /\ members = {}
    /\ call = Idle

(***************************************************************************)
(* Reading the tree.                                                       *)
(***************************************************************************)
IsRed(t, n) == n # Nil /\ t.color[n] = "red"
SideOf(t, n) == IF t.child["left"][t.parent[n]] = n THEN "left" ELSE "right"

\* The last node on side s of the subtree of n.
Outermost(t, n, s) ==
    LET Down[m \in TreeNodes] == IF t.child[s][m] = Nil THEN m ELSE Down[t.child[s][m]]
    IN  Down[n]

\* rb_first ("left") and rb_last ("right")
End(t, s) == IF t.root = Nil THEN Nil ELSE Outermost(t, t.root, s)

\* FAULT: the way up stops at the parent.
NeighbourNear(t, n, s) ==
    IF t.parent[n] = n THEN Nil
    ELSE IF t.child[s][n] # Nil THEN Outermost(t, t.child[s][n], Opp(s))
    ELSE t.parent[n]

\* rb_next ("right") and rb_prev ("left"); a node in no tree has none.
Neighbour(t, n, s) ==
    LET Up[m \in TreeNodes] ==
            IF t.parent[m] # Nil /\ t.child[s][t.parent[m]] = m
            THEN Up[t.parent[m]] ELSE t.parent[m]
    IN  IF t.parent[n] = n THEN Nil
        ELSE IF t.child[s][n] # Nil THEN Outermost(t, t.child[s][n], Opp(s))
        ELSE Up[n]

(***************************************************************************)
(* Changing it.                                                            *)
(***************************************************************************)
\* What pointed at old, in its parent or in the root, points at new.
Repoint(t, old, new) ==
    IF t.parent[old] = Nil
    THEN [t EXCEPT !.root = new]
    ELSE [t EXCEPT !.child[SideOf(t, old)][t.parent[old]] = new]

\* FAULT: the subtree that changes sides keeps its parent.
RotateOrphan(t, n, s) ==
    LET up == t.child[Opp(s)][n]
    IN  [Repoint(t, n, up) EXCEPT
            !.child[Opp(s)][n] = t.child[s][up],
            !.child[s][up] = n,
            !.parent = [@ EXCEPT ![up] = t.parent[n], ![n] = up]]

\* __rb_rotate_left ("left") and __rb_rotate_right
Rotate(t, n, s) ==
    LET up == t.child[Opp(s)][n]
    IN  [Repoint(t, n, up) EXCEPT
            !.child[Opp(s)][n] = t.child[s][up],
            !.child[s][up] = n,
            !.parent = [@ EXCEPT ![t.child[s][up]] = n, ![up] = t.parent[n], ![n] = up]]

Paint(t, n, c) == [t EXCEPT !.color[n] = c]

\* rb_init_node
Clear(t, n) ==
    [t EXCEPT !.child = [s \in Sides |-> [@[s] EXCEPT ![n] = Nil]],
              !.parent[n] = n, !.color[n] = "red"]

(***************************************************************************)
(* Insertion.                                                              *)
(***************************************************************************)
\* The leaf a new key goes under.
Leaf(t, k) ==
    LET Down[m \in TreeNodes] ==
            LET c == t.child[IF k < Key[m] THEN "left" ELSE "right"][m]
            IN  IF c = Nil THEN m ELSE Down[c]
    IN  IF t.root = Nil THEN Nil ELSE Down[t.root]

\* The caller descends and calls rb_link_node.
Insert(n) ==
    LET p == Leaf(tree, Key[n])
        t == [Clear(tree, n) EXCEPT !.parent[n] = p]
    IN  /\ call = Idle
        /\ \A m \in members : Key[m] # Key[n]
        /\ tree' = IF p = Nil THEN [t EXCEPT !.root = n]
                   ELSE [t EXCEPT !.child[IF Key[n] < Key[p] THEN "left" ELSE "right"][p] = n]
        /\ members' = members \cup {n}
        /\ call' = [Idle EXCEPT !.op = "insert", !.node = n, !.of = n]
        /\ UNCHANGED size

\* rb_insert_color: the loop goes on while the parent is red.
InsertParent == tree.parent[call.node]
InsertSide == SideOf(tree, InsertParent)
InsertUncle == tree.child[Opp(InsertSide)][tree.parent[InsertParent]]
Inserting == call.op = "insert" /\ IsRed(tree, InsertParent)

InsertRecolor ==
    LET gparent == tree.parent[InsertParent]
    IN  /\ Inserting /\ IsRed(tree, InsertUncle)
        /\ tree' = Paint(Paint(Paint(tree, InsertUncle, "black"), InsertParent, "black"),
                         gparent, "red")
        /\ call' = [call EXCEPT !.node = gparent]
        /\ UNCHANGED <<size, members>>

InsertRotate ==
    LET s == InsertSide
        gparent == tree.parent[InsertParent]
        inner == tree.child[Opp(s)][InsertParent] = call.node
        t == IF inner THEN Rotate(tree, InsertParent, s) ELSE tree
        node == IF inner THEN InsertParent ELSE call.node
        parent == IF inner THEN call.node ELSE InsertParent
    IN  /\ Inserting /\ ~IsRed(tree, InsertUncle)
        /\ tree' = Rotate(Paint(Paint(t, parent, "black"), gparent, "red"), gparent, Opp(s))
        /\ call' = [call EXCEPT !.node = node]
        /\ UNCHANGED <<size, members>>

\* FAULT: the children the rotations gave the new node are overlooked.
AugmentFromNode(t, n) == n

\* rb_augment_insert starts below the new node if it has risen.
AugmentFrom(t, n) ==
    IF t.child["left"][n] # Nil THEN t.child["left"][n]
    ELSE IF t.child["right"][n] # Nil THEN t.child["right"][n]
    ELSE n

InsertDone ==
    /\ call.op = "insert" /\ ~Inserting
    /\ tree' = Paint(tree, tree.root, "black")
    /\ call' = [Idle EXCEPT !.op = "augment", !.node = AugmentFrom(tree', call.of)]
    /\ UNCHANGED <<size, members>>

(***************************************************************************)
(* Removal.                                                                *)
(***************************************************************************)
\* rb_augment_erase_begin
Deepest(t, n) ==
    LET l == t.child["left"][n]
        r == t.child["right"][n]
        after == Neighbour(t, n, "right")
    IN  IF l = Nil /\ r = Nil THEN t.parent[n]
        ELSE IF r = Nil THEN l
        ELSE IF l = Nil THEN r
        ELSE IF t.child["right"][after] # Nil THEN t.child["right"][after]
        ELSE IF t.parent[after] # n THEN t.parent[after]
        ELSE after

\* rb_erase of a node with a child missing: the other child, if any, moves up.
Unlink(t, n) ==
    LET child == IF t.child["left"][n] = Nil THEN t.child["right"][n] ELSE t.child["left"][n]
    IN  [tree |-> [Repoint(t, n, child) EXCEPT !.parent[child] = t.parent[n]],
         node |-> child, parent |-> t.parent[n], color |-> t.color[n]]

\* rb_erase of a node with two children: its successor, which has no left
\* child, leaves its place and takes over that of the node.
UnlinkInner(t, old) ==
    LET n == Outermost(t, t.child["right"][old], "left")
        child == t.child["right"][n]
        t1 == Repoint(t, old, n)
        t2 == IF t.parent[n] = old THEN t1
              ELSE [t1 EXCEPT !.parent[child] = t.parent[n],
                              !.child["left"][t.parent[n]] = child,
                              !.child["right"][n] = t.child["right"][old],
                              !.parent[t.child["right"][old]] = n]
    IN  [tree |-> [t2 EXCEPT !.parent[n] = t.parent[old], !.color[n] = t.color[old],
                             !.child["left"][n] = t.child["left"][old],
                             !.parent[t.child["left"][old]] = n],
         node |-> child, parent |-> IF t.parent[n] = old THEN n ELSE t.parent[n],
         color |-> t.color[n]]

Erase(n) ==
    LET u == IF Nil \in {tree.child[s][n] : s \in Sides}
             THEN Unlink(tree, n) ELSE UnlinkInner(tree, n)
    IN  /\ call = Idle
        /\ n \in members
        /\ tree' = u.tree
        /\ members' = members \ {n}
        /\ call' = [op |-> IF u.color = "black" THEN "erase" ELSE "erased",
                    node |-> u.node, parent |-> u.parent, of |-> n,
                    deepest |-> Deepest(tree, n)]
        /\ UNCHANGED size

\* __rb_erase_color, called when a black node has left its place: the loop goes
\* on while node is black and not the root.
Erasing == call.op = "erase" /\ ~IsRed(tree, call.node) /\ call.node # tree.root

\* A red sibling is rotated away first.
EraseSide == IF tree.child["left"][call.parent] = call.node THEN "left" ELSE "right"
RedSibling == IsRed(tree, tree.child[Opp(EraseSide)][call.parent])
Fixed ==
    IF RedSibling
    THEN Rotate(Paint(Paint(tree, tree.child[Opp(EraseSide)][call.parent], "black"),
                      call.parent, "red"), call.parent, EraseSide)
    ELSE tree
Sibling == Fixed.child[Opp(EraseSide)][call.parent]
BlackNephews == \A s \in Sides : ~IsRed(Fixed, Fixed.child[s][Sibling])

EraseUp ==
    /\ Erasing /\ BlackNephews
    /\ tree' = Paint(Fixed, Sibling, "red")
    /\ call' = [call EXCEPT !.node = call.parent, !.parent = Fixed.parent[call.parent]]
    /\ UNCHANGED <<size, members>>

EraseRotate ==
    LET s == EraseSide
        p == call.parent
        turn == ~IsRed(Fixed, Fixed.child[Opp(s)][Sibling])
        t == IF turn
             THEN Rotate(Paint(Paint(Fixed, Fixed.child[s][Sibling], "black"), Sibling, "red"),
                         Sibling, Opp(s))
             ELSE Fixed
        other == t.child[Opp(s)][p]
        painted == Paint(Paint(Paint(t, other, t.color[p]), p, "black"),
                         t.child[Opp(s)][other], "black")
    IN  /\ Erasing /\ ~BlackNephews
        /\ tree' = Rotate(painted, p, s)
        /\ call' = [call EXCEPT !.node = tree'.root]
        /\ UNCHANGED <<size, members>>

\* The loop is over, or was not needed; the caller clears the node it took out
\* and calls rb_augment_erase_end.
EraseDone ==
    /\ call.op = "erased" \/ (call.op = "erase" /\ ~Erasing)
    /\ tree' = Clear(IF call.op = "erase" THEN Paint(tree, call.node, "black") ELSE tree, call.of)
    /\ size' = [size EXCEPT ![call.of] = 0]
    /\ call' = IF call.deepest = Nil THEN Idle
               ELSE [Idle EXCEPT !.op = "augment", !.node = call.deepest]
    /\ UNCHANGED members

(***************************************************************************)
(* Augmentation and replacement.                                           *)
(***************************************************************************)
\* The callback.
Sum(sz, n) == IF n = Nil THEN 0 ELSE sz[n]
Update(sz, n) == [sz EXCEPT ![n] = 1 + Sum(sz, tree.child["left"][n]) + Sum(sz, tree.child["right"][n])]

\* rb_augment_path: the node, its sibling, and up.
Augment ==
    LET n == call.node
        p == tree.parent[n]
        l == tree.child["left"][p]
        r == tree.child["right"][p]
    IN  /\ call.op = "augment"
        /\ size' = IF p = Nil THEN Update(size, n)
                   ELSE IF n = l /\ r # Nil THEN Update(Update(size, n), r)
                   ELSE IF l # Nil THEN Update(Update(size, n), l)
                   ELSE Update(size, n)
        /\ call' = IF p = Nil THEN Idle ELSE [call EXCEPT !.node = p]
        /\ UNCHANGED <<tree, members>>

\* rb_replace_node; the caller copies the callback's data and clears the node.
ReplaceNode(victim, new) ==
    LET t == Repoint(tree, victim, new)
    IN  /\ call = Idle
        /\ victim \in members /\ new \notin members /\ Key[victim] = Key[new]
        /\ tree' = Clear([t EXCEPT
                            !.parent = [m \in TreeNodes |->
                                IF m = new THEN t.parent[victim]
                                ELSE IF m \in {t.child[s][victim] : s \in Sides} THEN new
                                ELSE @[m]],
                            !.child = [s \in Sides |-> [@[s] EXCEPT ![new] = t.child[s][victim]]],
                            !.color[new] = t.color[victim]], victim)
        /\ size' = [size EXCEPT ![new] = size[victim], ![victim] = 0]
        /\ members' = (members \ {victim}) \cup {new}
        /\ UNCHANGED call

TreeNext ==
    \/ \E n \in TreeNodes : Insert(n) \/ Erase(n)
    \/ InsertRecolor \/ InsertRotate \/ InsertDone
    \/ EraseUp \/ EraseRotate \/ EraseDone
    \/ Augment
    \/ \E victim, new \in TreeNodes : ReplaceNode(victim, new)

TreeSpec == TreeInit /\ [][TreeNext]_treeVars

-----------------------------------------------------------------------------
\* The black nodes on the way from n to the root, and all the nodes on it.
Path(n) == LET Up[m \in TreeNodes] == {m} \cup (IF tree.parent[m] = Nil THEN {} ELSE Up[tree.parent[m]])
           IN  Up[n]
BlackDepth(n) == Cardinality({m \in Path(n) : tree.color[m] = "black"})

\* Between calls the tree holds exactly the members, linked both ways; its root
\* is black, a red node has no red child, and every way down meets the same
\* number of black nodes: what bounds the depth, after any sequence of calls.
TreeBalanced ==
    call = Idle =>
        /\ (tree.root = Nil) = (members = {})
        /\ ~IsRed(tree, tree.root)
        /\ \A n \in members :
            /\ tree.root \in Path(n)
            /\ \A s \in Sides : LET c == tree.child[s][n] IN
                 c # Nil => c \in members /\ tree.parent[c] = n
            /\ IsRed(tree, n) => \A s \in Sides : ~IsRed(tree, tree.child[s][n])
        /\ \A n, m \in members :
            (\A k \in {n, m} : \E s \in Sides : tree.child[s][k] = Nil)
                => BlackDepth(n) = BlackDepth(m)

\* Between calls rb_first and rb_next, and rb_last and rb_prev, meet the members
\* in the order of their keys and then end; a node in no tree has no neighbours.
InOrder ==
    call = Idle =>
        \A s \in Sides :
            LET Beyond(n) == {m \in members : IF s = "right" THEN Key[m] > Key[n] ELSE Key[m] < Key[n]}
                Closest(S) == IF S = {} THEN Nil
                              ELSE CHOOSE m \in S : \A k \in S :
                                    IF s = "right" THEN Key[m] <= Key[k] ELSE Key[m] >= Key[k]
            IN  /\ End(tree, Opp(s)) = Closest(members)
                /\ \A n \in members : Neighbour(tree, n, s) = Closest(Beyond(n))
                /\ \A n \in TreeNodes \ members : Neighbour(tree, n, s) = Nil

\* Between calls the callback's data is right in every node, although it is
\* called only for the nodes on one path and their siblings.
AugmentExact ==
    call = Idle => \A n \in members : size[n] = Cardinality({m \in members : n \in Path(m)})
=============================================================================
