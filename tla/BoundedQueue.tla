---------------------------- MODULE BoundedQueue ----------------------------
(* A queue that holds at most Capacity items and loses none it accepted.     *)
EXTENDS Naturals, Sequences

CONSTANTS Items, Capacity

VARIABLE queue

Init == queue = <<>>

Enqueue(c) == Len(queue) < Capacity /\ queue' = Append(queue, c)

Dequeue == queue # <<>> /\ queue' = Tail(queue)

Next == Dequeue \/ \E c \in Items : Enqueue(c)

Spec == Init /\ [][Next]_queue
=============================================================================
