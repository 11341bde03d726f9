------------------------------ MODULE Spinlock ------------------------------
(***************************************************************************)
(* The spinlock of arch/i386/include/spinlock.h: a signed byte, 1 when     *)
(* free, that a locker decrements atomically and, when the result is       *)
(* negative, polls until it is positive to try again.  One action per      *)
(* instruction that touches the byte.                                      *)
(*                                                                         *)
(* A definition marked FAULT is a plausible slip in the one after it, kept *)
(* to show that a property would notice it.                                *)
(***************************************************************************)
EXTENDS Integers, FiniteSets

CONSTANTS
    Threads,    \* the threads that use the lock
    NoThread,   \* no thread
    SignBit     \* weight of the byte's sign bit: 128 in the code

ASSUME SpinlockAssumption ==
    /\ IsFiniteSet(Threads)
    /\ NoThread \notin Threads
    /\ SignBit \in Nat
    /\ SignBit >= 2

VARIABLES
    lock,   \* the low byte of spinlock_t.lock
    pc,     \* where each thread is
    tried   \* history: the threads that decremented since the last unlock

vars == <<lock, pc, tried>>

Bytes == -SignBit .. SignBit - 1

\* decb wraps around at the most negative value.
Decb(v) == IF v = -SignBit THEN SignBit - 1 ELSE v - 1

Init ==
    /\ lock = 1
    /\ pc = [t \in Threads |-> "out"]
    /\ tried = {}

\* spinlock_lock is called.
Enter(t) ==
    /\ pc[t] = "out"
    /\ pc' = [pc EXCEPT ![t] = "decrement"]
    /\ UNCHANGED <<lock, tried>>

\* FAULT: the test is made on the value before the decrement.
DecrementTestsOld(t) ==
    /\ pc[t] = "decrement"
    /\ lock' = Decb(lock)
    /\ pc' = [pc EXCEPT ![t] = IF lock < 0 THEN "poll" ELSE "locked"]
    /\ tried' = tried \cup {t}

\* lock; decb and js: a result that is not negative takes the lock.
Decrement(t) ==
    /\ pc[t] = "decrement"
    /\ lock' = Decb(lock)
    /\ pc' = [pc EXCEPT ![t] = IF Decb(lock) < 0 THEN "poll" ELSE "locked"]
    /\ tried' = tried \cup {t}

\* cmpb and jle: back to the decrement once the byte is positive.
Poll(t) ==
    /\ pc[t] = "poll"
    /\ lock > 0
    /\ pc' = [pc EXCEPT ![t] = "decrement"]
    /\ UNCHANGED <<lock, tried>>

\* FAULT: unlock adds 1 to the byte.
UnlockAddsOne(t) ==
    /\ pc[t] = "locked"
    /\ lock' = lock + 1
    /\ pc' = [pc EXCEPT ![t] = "out"]
    /\ tried' = {}

\* spinlock_unlock: movb 1.
Unlock(t) ==
    /\ pc[t] = "locked"
    /\ lock' = 1
    /\ pc' = [pc EXCEPT ![t] = "out"]
    /\ tried' = {}

Next == \E t \in Threads : Enter(t) \/ Decrement(t) \/ Poll(t) \/ Unlock(t)

Spec == Init /\ [][Next]_vars

----------------------------------------------------------------------------
\* Type correctness.
TypeInv ==
    /\ lock \in Bytes
    /\ pc \in [Threads -> {"out", "decrement", "poll", "locked"}]
    /\ tried \subseteq Threads

\* The lock excludes, however many threads decrement, poll and retry in any
\* order, as long as the byte does not wrap around.
MutualExclusion ==
    \A t, u \in Threads : pc[t] = "locked" /\ pc[u] = "locked" => t = u

\* The byte counts: it is 1 minus the threads that decremented it since the
\* last unlock, so an unlock, which writes 1 whatever the byte was, loses no
\* waiting thread.
LockCounts == lock = 1 - Cardinality(tried)

\* No lost wakeup: while threads want the lock, someone gets it.
Progress ==
    (\E t \in Threads : pc[t] \in {"decrement", "poll"})
        ~> (\E t \in Threads : pc[t] = "locked")

\* The lock implements a mutex owned by the thread that holds it.
Owner == IF \E t \in Threads : pc[t] = "locked"
         THEN CHOOSE t \in Threads : pc[t] = "locked"
         ELSE NoThread

Lock == INSTANCE Mutex WITH owner <- Owner

ImplementsMutex == Lock!Spec
=============================================================================
