------------------------------ MODULE Sharing ------------------------------
(***************************************************************************)
(* The two pieces of memory that are shared with interrupts on and outside *)
(* any critical section, side by side: the byte of a spinlock, and the     *)
(* ring between the keyboard's handler and its reader.  A behaviour uses   *)
(* one of them, chosen at the start, so that their states add up and do    *)
(* not multiply.                                                           *)
(***************************************************************************)
EXTENDS Keyboard, Spinlock

VARIABLE used   \* what this behaviour uses

sharingVars == <<used, vars, keyboardVars>>

SharingInit == used \in {"spinlock", "keyboard"} /\ Init /\ KeyboardInit

SharingNext ==
    \/ used = "spinlock" /\ Next /\ UNCHANGED <<used, keyboardVars>>
    \/ used = "keyboard" /\ KeyboardNext /\ UNCHANGED <<used, vars>>

(***************************************************************************)
(* Every thread keeps executing instructions, and gives the lock up again: *)
(* the clock pre-empts a thread that polls.  The reader of the keyboard    *)
(* runs whenever it is not halted, and the clock never stops.  Nobody need *)
(* ever want the lock or press a key.                                      *)
(***************************************************************************)
LockGoesOn(t) ==
    /\ used = "spinlock"
    /\ Decrement(t) \/ Poll(t) \/ Unlock(t)
    /\ UNCHANGED <<used, keyboardVars>>

ReaderGoesOn == used = "keyboard" /\ Reader /\ UNCHANGED <<used, vars>>

ClockGoesOn == used = "keyboard" /\ ClockTick /\ UNCHANGED <<used, vars>>

SharingSpec ==
    /\ SharingInit /\ [][SharingNext]_sharingVars
    /\ \A t \in Threads : WF_sharingVars(LockGoesOn(t))
    /\ WF_sharingVars(ReaderGoesOn) /\ WF_sharingVars(ClockGoesOn)

============================================================================
