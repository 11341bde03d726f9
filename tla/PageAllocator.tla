---------------------------- MODULE PageAllocator ----------------------------
(***************************************************************************)
(* What a physical memory manager promises alloc_pages and free_pages      *)
(* (pmm.h): a request is granted pages that are free, a page is free or    *)
(* belongs to one caller, and a single page is refused only when none is   *)
(* free.  A manager that keeps its blocks whole also refuses more pages    *)
(* only when there is no naturally aligned block of free pages, a power of *)
(* two of them, that would hold them.                                      *)
(***************************************************************************)
EXTENDS Integers

CONSTANTS
    NPages,     \* number of managed pages; they are 0 .. NPages - 1
    NoPage,     \* the answer to a request that is refused
    Requests    \* the request sizes callers make

VARIABLES
    free,       \* the free pages
    owned,      \* the blocks <<first page, number of pages>> callers hold
    ret,        \* what the last request was answered with
    whole       \* the manager keeps its blocks whole; never changes

vars == <<free, owned, ret, whole>>

Run(b, n) == b .. b + n - 1

Init ==
    /\ free = 0 .. NPages - 1
    /\ owned = {}
    /\ ret = NoPage
    /\ whole \in BOOLEAN

Grant(n) ==
    \E b \in free :
        /\ n > 0
        /\ Run(b, n) \subseteq free
        /\ free' = free \ Run(b, n)
        /\ owned' = owned \cup {<<b, n>>}
        /\ ret' = b
        /\ UNCHANGED whole

\* An aligned block of free pages that holds n.
Available(n) ==
    \E size \in {2 ^ k : k \in 0 .. NPages} \cap n .. NPages, b \in free :
        b % size = 0 /\ Run(b, size) \subseteq free

Refuse(n) ==
    /\ n = 0 \/ (n > 1 /\ ~ whole) \/ ~ Available(n)
    /\ ret' = NoPage
    /\ UNCHANGED <<free, owned, whole>>

Free(b, n) ==
    /\ <<b, n>> \in owned
    /\ free' = free \cup Run(b, n)
    /\ owned' = owned \ {<<b, n>>}
    /\ UNCHANGED <<ret, whole>>

Next ==
    \/ \E n \in Requests : Grant(n) \/ Refuse(n)
    \/ \E block \in owned : Free(block[1], block[2])

Spec == Init /\ [][Next]_vars
=============================================================================
