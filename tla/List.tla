-------------------------------- MODULE List --------------------------------
(***************************************************************************)
(* The doubly linked lists of include/lib/list.h: rings of next and prev   *)
(* pointers through a head and its elements.  One action per function,     *)
(* which callers use one at a time.  The assignments to one of the two     *)
(* fields are made in the order of the code, which matters when two of the *)
(* nodes involved are the same node.                                       *)
(*                                                                         *)
(* A definition marked FAULT is a plausible slip in the one after it, kept *)
(* to show that a property would notice it.                                *)
(***************************************************************************)
EXTENDS Naturals, FiniteSets, Sequences

CONSTANTS
    Heads,   \* the list heads
    Items,   \* the nodes embedded in elements
    Null     \* what the pointers of a node nobody has initialised hold

\* A node is the head of a list or embedded in an element; there are as many as
\* fit in memory, and none at address Null.
ASSUME ListAssumption ==
    /\ Heads \cap Items = {}
    /\ IsFiniteSet(Heads \cup Items)
    /\ Null \notin Heads \cup Items

VARIABLES
    next, prev,  \* list_head.next and list_head.prev
    loose        \* the nodes whose pointers are not part of a ring: never
                 \* initialised, deleted, or a head whose elements were taken

vars == <<next, prev, loose>>

Nodes == Heads \cup Items

Init ==
    /\ next = [n \in Nodes |-> IF n \in Heads THEN n ELSE Null]
    /\ prev = next
    /\ loose = Items

(***************************************************************************)
(* The traversals and the questions.                                       *)
(***************************************************************************)
\* list_for_each and, along prev, list_for_each_prev: the nodes met before head.
Visited(link, head) ==
    LET Walk[s \in Seq(Nodes)] ==
            LET pos == IF s = <<>> THEN link[head] ELSE link[s[Len(s)]]
            IN  IF pos = head \/ pos = Null \/ Len(s) > Cardinality(Nodes)
                THEN s ELSE Walk[Append(s, pos)]
    IN  Walk[<<>>]

list_is_last(n, head) == next[n] = head
list_empty(head) == next[head] = head
list_empty_careful(head) == next[head] = head /\ next[head] = prev[head]
list_is_singular(head) == ~list_empty(head) /\ next[head] = prev[head]

(***************************************************************************)
(* What a caller has to know before a call.                                *)
(***************************************************************************)
\* The nodes that are reached from n, the first of them by name.
Ring(n) == {n, next[n]} \cup {Visited(next, n)[i] : i \in DOMAIN Visited(next, n)}

Listed(n) == n \notin loose /\ \E h \in Heads \ loose : n \in Ring(h)

\* n is in no list: loose, or a ring of its own.
Detached(n) == n \in loose \/ list_empty(n)

(***************************************************************************)
(* The operations.                                                         *)
(***************************************************************************)
INIT_LIST_HEAD(n) ==
    /\ Detached(n)
    /\ next' = [next EXCEPT ![n] = n]
    /\ prev' = [prev EXCEPT ![n] = n]
    /\ loose' = loose \ {n}

\* __list_add
AddBetween(new, before, after) ==
    /\ prev' = [prev EXCEPT ![after] = new, ![new] = before]
    /\ next' = [next EXCEPT ![new] = after, ![before] = new]
    /\ loose' = loose \ {new}

\* FAULT: the node is put on the wrong side of at.
list_add_behind(new, at) ==
    /\ Detached(new) /\ Listed(at)
    /\ AddBetween(new, prev[at], at)

\* at is the head, or an element to insert after.
list_add(new, at) ==
    /\ Detached(new) /\ Listed(at)
    /\ AddBetween(new, at, next[at])

\* list_add_tail and list_add_before, which are the same.
list_add_tail(new, at) ==
    /\ Detached(new) /\ Listed(at)
    /\ AddBetween(new, prev[at], at)

\* list_del: the neighbours close up, the entry keeps its pointers.
list_del(entry) ==
    /\ entry \notin loose
    /\ prev' = [prev EXCEPT ![next[entry]] = prev[entry]]
    /\ next' = [next EXCEPT ![prev[entry]] = next[entry]]
    /\ loose' = loose \cup {entry}

\* FAULT: only one of the two neighbours is told.
list_del_init_half(entry) ==
    /\ entry \notin loose
    /\ prev' = [prev EXCEPT ![entry] = entry]
    /\ next' = [next EXCEPT ![prev[entry]] = next[entry], ![entry] = entry]
    /\ UNCHANGED loose

list_del_init(entry) ==
    /\ entry \notin loose
    /\ prev' = [prev EXCEPT ![next[entry]] = prev[entry], ![entry] = entry]
    /\ next' = [next EXCEPT ![prev[entry]] = next[entry], ![entry] = entry]
    /\ UNCHANGED loose

\* new takes the place of old; new->next and new->prev are read after they are
\* assigned, which is what makes it right for an empty head.
Replace(old, new) ==
    LET prev1 == [prev EXCEPT ![next[old]] = new]
    IN  /\ prev' = [prev1 EXCEPT ![new] = prev1[old]]
        /\ next' = [next EXCEPT ![new] = next[old], ![prev1[old]] = new]

list_replace(old, new) ==
    /\ old \notin loose /\ Detached(new)
    /\ Replace(old, new)
    /\ loose' = (loose \ {new}) \cup {old}

list_replace_init(old, new) ==
    LET prev1 == [prev EXCEPT ![next[old]] = new]
    IN  /\ old \notin loose /\ Detached(new)
        /\ prev' = [prev1 EXCEPT ![new] = prev1[old], ![old] = old]
        /\ next' = [next EXCEPT ![new] = next[old], ![prev1[old]] = new, ![old] = old]
        /\ loose' = loose \ {new}

\* The entry leaves its list and joins one after (list_move) or before
\* (list_move_tail) at, whose neighbour is read once the entry has left.
list_move(entry, at) ==
    LET next1 == [next EXCEPT ![prev[entry]] = next[entry]]
    IN  /\ entry \notin loose /\ Listed(at) /\ entry # at
        /\ prev' = [prev EXCEPT ![next[entry]] = prev[entry],
                                ![next1[at]] = entry, ![entry] = at]
        /\ next' = [next1 EXCEPT ![entry] = next1[at], ![at] = entry]
        /\ UNCHANGED loose

list_move_tail(entry, at) ==
    LET prev1 == [prev EXCEPT ![next[entry]] = prev[entry]]
    IN  /\ entry \notin loose /\ Listed(at) /\ entry # at
        /\ prev' = [prev1 EXCEPT ![at] = entry, ![entry] = prev1[at]]
        /\ next' = [next EXCEPT ![prev[entry]] = next[entry],
                                ![entry] = at, ![prev1[at]] = entry]
        /\ UNCHANGED loose

\* __list_cut_position
CutAt(list, head, entry) ==
    /\ prev' = [prev EXCEPT ![next[head]] = list, ![list] = entry, ![next[entry]] = head]
    /\ next' = [next EXCEPT ![list] = next[head], ![entry] = list, ![head] = next[entry]]
    /\ loose' = loose \ {list}

\* The entries of head up to and including entry go to list.  When head is
\* empty the code returns first and list is left as it was.
list_cut_position(list, head, entry) ==
    /\ head \notin loose /\ Detached(list) /\ entry \in Ring(head) \ (loose \cup {list})
    /\ \/ /\ list_empty(head)
          /\ UNCHANGED vars
       \/ /\ ~list_empty(head)
          /\ entry = head
          /\ INIT_LIST_HEAD(list)
       \/ /\ ~list_empty(head)
          /\ entry # head
          /\ CutAt(list, head, entry)

\* __list_splice: the entries of list between two neighbours.  The head of the
\* list keeps pointing at them, or is initialised again.
Splice(list, before, after) ==
    /\ prev' = [prev EXCEPT ![next[list]] = before, ![after] = prev[list]]
    /\ next' = [next EXCEPT ![before] = next[list], ![prev[list]] = after]
    /\ loose' = loose \cup {list}

SpliceInit(list, before, after) ==
    /\ prev' = [prev EXCEPT ![next[list]] = before, ![after] = prev[list], ![list] = list]
    /\ next' = [next EXCEPT ![before] = next[list], ![prev[list]] = after, ![list] = list]
    /\ UNCHANGED loose

\* The elements of list are to join another list.
Apart(list, at) == list \notin loose /\ Listed(at) /\ Ring(list) \cap Ring(at) = {}

list_splice(list, at) ==
    /\ Apart(list, at)
    /\ IF list_empty(list) THEN UNCHANGED vars ELSE Splice(list, at, next[at])

list_splice_tail(list, at) ==
    /\ Apart(list, at)
    /\ IF list_empty(list) THEN UNCHANGED vars ELSE Splice(list, prev[at], at)

list_splice_init(list, at) ==
    /\ Apart(list, at)
    /\ IF list_empty(list) THEN UNCHANGED vars ELSE SpliceInit(list, at, next[at])

\* FAULT: the list that was spliced is not tested for being empty.
list_splice_tail_init_untested(list, at) ==
    /\ Apart(list, at)
    /\ SpliceInit(list, prev[at], at)

list_splice_tail_init(list, at) ==
    /\ Apart(list, at)
    /\ IF list_empty(list) THEN UNCHANGED vars ELSE SpliceInit(list, prev[at], at)

OfItem(e) ==
    \/ INIT_LIST_HEAD(e)
    \/ list_del(e)
    \/ list_del_init(e)
    \/ \E at \in Nodes : \/ list_add(e, at)
                         \/ list_add_tail(e, at)
                         \/ list_move(e, at)
                         \/ list_move_tail(e, at)

OfHead(h) ==
    \/ INIT_LIST_HEAD(h)
    \/ \E g \in Heads \ {h}, e \in Nodes : list_cut_position(h, g, e)
    \/ \E at \in Nodes : \/ list_splice(h, at)
                         \/ list_splice_tail(h, at)
                         \/ list_splice_init(h, at)
                         \/ list_splice_tail_init(h, at)

Replacing ==
    \E K \in {Heads, Items} : \E old \in K : \E new \in K \ {old} :
        list_replace(old, new) \/ list_replace_init(old, new)

Next == (\E e \in Items : OfItem(e)) \/ (\E h \in Heads : OfHead(h)) \/ Replacing

Spec == Init /\ [][Next]_vars

-----------------------------------------------------------------------------
TypeInv ==
    /\ next \in [Nodes -> Nodes \cup {Null}]
    /\ prev \in [Nodes -> Nodes \cup {Null}]
    /\ loose \subseteq Nodes

\* Outside the loose nodes the two directions are each other's inverse, and no
\* node points at a loose one: what every function of list.h relies on when it
\* finds the neighbours of an entry in its two pointers.
DirectionsAgree ==
    \A n \in Nodes \ loose :
        /\ next[n] \in Nodes \ loose /\ prev[next[n]] = n
        /\ prev[n] \in Nodes \ loose /\ next[prev[n]] = n

\* The heads in use, and those left when l has given its elements away.
InUse == Heads \ loose
Left(l) == IF list_empty(l) THEN InUse ELSE InUse \ {l}

Sequence == INSTANCE Lists
    WITH lists <- [h \in InUse |-> <<h>> \o Visited(next, h)]

\* list_for_each and list_for_each_prev meet the same elements in opposite
\* order, and the four tests answer what that sequence says.
QueriesAnswer ==
    \A h \in InUse :
        LET s == Visited(next, h)
        IN  /\ Visited(prev, h) = [i \in DOMAIN s |-> s[Len(s) + 1 - i]]
            /\ list_empty(h) <=> s = <<>>
            /\ list_empty_careful(h) <=> s = <<>>
            /\ list_is_singular(h) <=> Len(s) = 1
            /\ \A i \in DOMAIN s : list_is_last(s[i], h) <=> i = Len(s)

\* Every function changes the sequences as its name says, for every place in a
\* list and with empty and one-element lists: list.h's pointers implement Lists.
ChangesSequences ==
    /\ \A e \in Items, at \in Nodes :
        /\ list_add(e, at) => Sequence!InsertAfter(e, at)
        /\ list_add_tail(e, at) => Sequence!InsertBefore(e, at)
        /\ list_move(e, at) => Sequence!MoveAfter(e, at)
        /\ list_move_tail(e, at) => Sequence!MoveBefore(e, at)
    /\ \A e \in Items : list_del(e) \/ list_del_init(e) => Sequence!Delete(e)
    /\ \A h \in Heads : INIT_LIST_HEAD(h) => Sequence!Empty(h)
    /\ \A old, new \in Items :
        old # new /\ (list_replace(old, new) \/ list_replace_init(old, new))
            => Sequence!ReplaceItem(old, new)
    /\ \A old, new \in Heads :
        old # new => /\ list_replace(old, new)
                        => Sequence!ReplaceHead(old, new, (InUse \ {old}) \cup {new})
                     /\ list_replace_init(old, new)
                        => Sequence!ReplaceHead(old, new, InUse \cup {new})
    /\ \A l \in Heads, h \in Heads, e \in Nodes :
        l # h /\ ~list_empty(h) /\ list_cut_position(l, h, e) => Sequence!Cut(l, h, e)
    /\ \A l \in Heads, at \in Nodes :
        /\ list_splice(l, at) => Sequence!JoinAfter(l, at, Left(l))
        /\ list_splice_tail(l, at) => Sequence!JoinBefore(l, at, Left(l))
        /\ list_splice_init(l, at) => Sequence!JoinAfter(l, at, InUse)
        /\ list_splice_tail_init(l, at) => Sequence!JoinBefore(l, at, InUse)

ImplementsSequences == [][ChangesSequences]_vars
=============================================================================
