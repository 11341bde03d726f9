------------------------------ MODULE Keyboard ------------------------------
(***************************************************************************)
(* The keyboard driver (driver/kboard.c) with its reader: keyboard_handler *)
(* runs at each IRQ1 with interrupts off and puts characters in a ring;    *)
(* the boot thread takes them out in getchar (kernel/kio.c) with           *)
(* interrupts on, so a handler may run between any two of its steps, the   *)
(* one that finds the ring empty and the hlt included.                     *)
(*                                                                         *)
(* A character is the table it was looked up in and its key, or the 0 that *)
(* the tables hold for a key without a character.                          *)
(* A definition marked FAULT is a plausible slip in the one after it, kept *)
(* to show that a property would notice it.                                *)
(***************************************************************************)
EXTENDS Integers, Sequences

CONSTANTS
    KBUFFER_LEN,    \* slots of the ring
    ControlKeys,    \* the keys of control_map that are used
    CharKeys,       \* keys the tables have a character for
    BlankKeys       \* other keys: the tables hold 0

ASSUME KeyboardAssumption ==
    /\ KBUFFER_LEN \in Nat /\ KBUFFER_LEN >= 2
    /\ ControlKeys \subseteq {"ctrl", "alt", "altgr", "lshift", "rshift", "caps",
                              "scroll", "num"}
    /\ CharKeys \cap BlankKeys = {}
    /\ (CharKeys \cup BlankKeys) \cap ControlKeys = {}

\* The control keys that release lets go of: the first five of control_map.
Momentary == ControlKeys \cap {"ctrl", "alt", "altgr", "lshift", "rshift"}

Slots == 0 .. KBUFFER_LEN - 1

VARIABLES
    kbuffer, kfront, krear, \* the ring
    controls,               \* layout->controls: the flags that are set
    down,                   \* the momentary keys that are held down
    reader,                 \* where the boot thread is in getchar
    ch                      \* the character kb_getchar has read

keyboardVars == <<kbuffer, kfront, krear, controls, down, reader, ch>>

Tables == {"plain", "shift", "caps"}

\* The character 0, and every character.
NoChar == <<"none", "none">>

Chars == (Tables \X CharKeys) \cup {NoChar}

\* The index after i.
NextSlot(i) == (i + 1) % KBUFFER_LEN

KeyboardInit ==
    /\ kbuffer = [i \in Slots |-> NoChar]
    /\ kfront = 0 /\ krear = 0
    /\ controls = {}
    /\ down = {}
    /\ reader = "test"
    /\ ch = NoChar

----------------------------------------------------------------------------
(* keyboard_handler.                                                        *)

\* Any interrupt wakes the CPU from hlt, and the loop of getchar goes round.
Wake == reader' = IF reader = "halted" THEN "test" ELSE reader

\* The table the handler looks the key up in: caps lock overrides shift.
Table == IF "ctrl" \in controls THEN "plain"
         ELSE IF "caps" \in controls THEN "caps"
         ELSE IF controls \cap {"lshift", "rshift"} # {} THEN "shift"
         ELSE "plain"

CharOf(k) == IF k \in CharKeys THEN <<Table, k>> ELSE NoChar

\* A control key goes down, or repeats while it is held: its flag is toggled.
PressControl(k) ==
    /\ controls' = IF k \in controls THEN controls \ {k} ELSE controls \cup {k}
    /\ down' = down \cup ({k} \cap Momentary)
    /\ Wake
    /\ UNCHANGED <<kbuffer, kfront, krear, ch>>

\* FAULT: the ring is never taken for full.
PressKeyUnchecked(k) ==
    /\ kbuffer' = [kbuffer EXCEPT ![krear] = CharOf(k)]
    /\ krear' = NextSlot(krear)
    /\ Wake
    /\ UNCHANGED <<kfront, controls, down, ch>>

\* Any other key: its character is queued, or dropped when the ring is full.
PressKey(k) ==
    /\ IF kfront # NextSlot(krear)
       THEN /\ kbuffer' = [kbuffer EXCEPT ![krear] = CharOf(k)]
            /\ krear' = NextSlot(krear)
       ELSE UNCHANGED <<kbuffer, krear>>
    /\ Wake
    /\ UNCHANGED <<kfront, controls, down, ch>>

\* FAULT: release toggles the flag, like press.
ReleaseToggles(k) ==
    /\ k \in down
    /\ controls' = IF k \in controls THEN controls \ {k} ELSE controls \cup {k}
    /\ down' = down \ {k}
    /\ Wake
    /\ UNCHANGED <<kbuffer, kfront, krear, ch>>

\* A momentary key that is held goes up.
Release(k) ==
    /\ k \in down
    /\ controls' = controls \ {k}
    /\ down' = down \ {k}
    /\ Wake
    /\ UNCHANGED <<kbuffer, kfront, krear, ch>>

\* The clock interrupt, with no other thread to run.
ClockTick ==
    /\ reader = "halted"
    /\ Wake
    /\ UNCHANGED <<kbuffer, kfront, krear, controls, down, ch>>

----------------------------------------------------------------------------
(* getchar: kb_read of one character, and hlt while it reads none.          *)

\* kb_getchar finds the ring empty or not.
Test ==
    /\ reader = "test"
    /\ reader' = IF kfront # krear THEN "fetch" ELSE "halt"
    /\ UNCHANGED <<kbuffer, kfront, krear, controls, down, ch>>

Fetch ==
    /\ reader = "fetch"
    /\ ch' = kbuffer[kfront]
    /\ reader' = "advance"
    /\ UNCHANGED <<kbuffer, kfront, krear, controls, down>>

\* FAULT: the character 0 stays in the ring.
AdvanceUnlessZero ==
    /\ reader = "advance"
    /\ kfront' = IF ch = NoChar THEN kfront ELSE NextSlot(kfront)
    /\ reader' = IF ch = NoChar THEN "halt" ELSE "test"
    /\ UNCHANGED <<kbuffer, krear, controls, down, ch>>

\* The slot is given back.  kb_read stops at the character 0, though more may
\* be queued behind it; any other character is returned, and kern_init calls
\* getchar again.
Advance ==
    /\ reader = "advance"
    /\ kfront' = NextSlot(kfront)
    /\ reader' = IF ch = NoChar THEN "halt" ELSE "test"
    /\ UNCHANGED <<kbuffer, krear, controls, down, ch>>

Hlt ==
    /\ reader = "halt"
    /\ reader' = "halted"
    /\ UNCHANGED <<kbuffer, kfront, krear, controls, down, ch>>

Handler ==
    \/ \E k \in ControlKeys : PressControl(k)
    \/ \E k \in CharKeys \cup BlankKeys : PressKey(k)
    \/ \E k \in Momentary : Release(k)

Reader == Test \/ Fetch \/ Advance \/ Hlt

KeyboardNext == Handler \/ ClockTick \/ Reader

KeyboardSpec == KeyboardInit /\ [][KeyboardNext]_keyboardVars

----------------------------------------------------------------------------
\* The characters in the ring, oldest first.
Length == (krear - kfront + KBUFFER_LEN) % KBUFFER_LEN
Queue == [i \in 1 .. Length |-> kbuffer[(kfront + i - 1) % KBUFFER_LEN]]

BQ == INSTANCE BoundedQueue
        WITH queue <- Queue, Items <- Chars, Capacity <- KBUFFER_LEN - 1

\* The ring is a queue of KBUFFER_LEN - 1 characters, though the handler may
\* write krear between any two steps of the reader: no queued character is
\* lost, repeated or overtaken.
ImplementsQueue == BQ!Spec

\* Ctrl, Alt and the shifts keep no state after release (kboard.c:304): whatever
\* was pressed and repeated, the flag of a key that is up is clear.
ReleasedIsClear == controls \cap Momentary \subseteq down

\* No character stays in the ring for ever, although an interrupt that queues
\* one can come between the test that finds the ring empty and the hlt, and
\* although kb_read stops at a key without a character.
FrontConsumed ==
    \A i \in Slots : (kfront = i /\ krear # i) ~> (kfront # i)

=============================================================================
