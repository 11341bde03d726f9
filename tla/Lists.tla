------------------------------- MODULE Lists -------------------------------
(***************************************************************************)
(* What include/lib/list.h promises: lists are sequences, each of them     *)
(* starting with its head, that elements are inserted in, removed from and *)
(* cut and joined at.                                                      *)
(***************************************************************************)
EXTENDS Naturals, Sequences, SequencesExt

VARIABLE lists   \* the list of each head that is in use: the head, then its elements

Holder(x) == CHOOSE h \in DOMAIN lists : x \in ToSet(lists[h])

Index(s, x) == CHOOSE i \in DOMAIN s : s[i] = x

\* The sequence s with t inserted after, or (round the end) before, x.
After(s, x, t) == SubSeq(s, 1, Index(s, x)) \o t \o SubSeq(s, Index(s, x) + 1, Len(s))
Before(s, x, t) == IF Index(s, x) = 1
                   THEN s \o t
                   ELSE SubSeq(s, 1, Index(s, x) - 1) \o t \o SubSeq(s, Index(s, x), Len(s))

InsertAfter(e, x) == lists' = [lists EXCEPT ![Holder(x)] = After(@, x, <<e>>)]
InsertBefore(e, x) == lists' = [lists EXCEPT ![Holder(x)] = Before(@, x, <<e>>)]

Dropped(s, e) == IF e \in ToSet(s) THEN RemoveAt(s, Index(s, e)) ELSE s
Without(e) == [h \in DOMAIN lists |-> Dropped(lists[h], e)]
Delete(e) == lists' = Without(e)

MoveAfter(e, x) == lists' = [Without(e) EXCEPT ![Holder(x)] = After(@, x, <<e>>)]
MoveBefore(e, x) == lists' = [Without(e) EXCEPT ![Holder(x)] = Before(@, x, <<e>>)]

\* An element takes the place of another; a head those of another, when the
\* heads in use become the given ones.
Renamed(s, old, new) == [i \in DOMAIN s |-> IF s[i] = old THEN new ELSE s[i]]
ReplaceItem(old, new) == lists' = [h \in DOMAIN lists |-> Renamed(lists[h], old, new)]
ReplaceHead(old, new, heads) ==
    lists' = [h \in heads |-> CASE h = new -> <<new>> \o Tail(lists[old])
                                [] h = old -> <<old>>
                                [] OTHER -> lists[h]]

\* A head in use, or one that was not, becomes an empty list.
Empty(h) == lists' = [g \in DOMAIN lists \cup {h} |-> IF g = h THEN <<h>> ELSE lists[g]]

\* The elements of h up to x move to the list of new.
Cut(new, h, x) ==
    lists' = [g \in DOMAIN lists \cup {new} |->
                CASE g = new -> <<new>> \o SubSeq(lists[h], 2, Index(lists[h], x))
                  [] g = h -> <<h>> \o SubSeq(lists[h], Index(lists[h], x) + 1, Len(lists[h]))
                  [] OTHER -> lists[g]]

\* The elements of l join another list after, or before, x; l is empty, or no
\* longer among the heads in use.
JoinAfter(l, x, heads) ==
    lists' = [h \in heads |-> CASE h = l -> <<l>>
                               [] h = Holder(x) -> After(lists[h], x, Tail(lists[l]))
                               [] OTHER -> lists[h]]
JoinBefore(l, x, heads) ==
    lists' = [h \in heads |-> CASE h = l -> <<l>>
                               [] h = Holder(x) -> Before(lists[h], x, Tail(lists[l]))
                               [] OTHER -> lists[h]]
=============================================================================
