---------------------------- MODULE KeyboardProof ----------------------------
(***************************************************************************)
(* Proofs about Keyboard, for every length of the ring and every layout:   *)
(* the ring is a queue, whatever interrupts the reader.                    *)
(*                                                                         *)
(* What makes the refinement work is that the reader alone moves kfront,   *)
(* and that between its test and its last step the handler, which never    *)
(* lets krear catch up with kfront, cannot make the ring look empty, nor   *)
(* overwrite the slot being read (ReaderInv).                              *)
(***************************************************************************)
EXTENDS Keyboard, SequenceTheorems, TLAPS

TypeInv ==
    /\ kbuffer \in [Slots -> Chars] /\ kfront \in Slots /\ krear \in Slots
    /\ controls \in SUBSET ControlKeys /\ down \in SUBSET Momentary
    /\ reader \in {"test", "fetch", "advance", "halt", "halted"} /\ ch \in Chars

ReaderInv ==
    /\ reader \in {"fetch", "advance"} => kfront # krear
    /\ reader = "advance" => ch = kbuffer[kfront]

Inv == TypeInv /\ ReaderInv /\ ReleasedIsClear

-----------------------------------------------------------------------------
(* The ring.                                                                *)

\* The index i slots after f, and the number of slots from f to r.
After(f, i) == IF f + i < KBUFFER_LEN THEN f + i ELSE f + i - KBUFFER_LEN
Between(f, r) == IF f <= r THEN r - f ELSE r - f + KBUFFER_LEN

LEMMA Modulo ==
    /\ \A i \in Slots : i % KBUFFER_LEN = i /\ (i + KBUFFER_LEN) % KBUFFER_LEN = i
    /\ \A i \in Slots : NextSlot(i) = After(i, 1) /\ NextSlot(i) \in Slots
<1> USE KeyboardAssumption DEF Slots
<1>1. ASSUME NEW i \in Slots PROVE i % KBUFFER_LEN = i
  OBVIOUS
<1>2. ASSUME NEW i \in Slots PROVE (i + KBUFFER_LEN) % KBUFFER_LEN = i
  OBVIOUS
<1>3. ASSUME NEW i \in Slots PROVE NextSlot(i) = After(i, 1) /\ NextSlot(i) \in Slots
  <2>1. CASE i + 1 < KBUFFER_LEN
    BY <1>1, <2>1 DEF NextSlot, After
  <2>2. CASE i + 1 = KBUFFER_LEN
    <3>1. (0 + KBUFFER_LEN) % KBUFFER_LEN = 0
      BY <1>2
    <3> QED BY <2>2, <3>1 DEF NextSlot, After
  <2> QED BY <2>1, <2>2
<1> QED
  BY <1>1, <1>2, <1>3

\* What Queue is, for any ring.
LEMMA RingQueue ==
    ASSUME NEW buf \in [Slots -> Chars], NEW f \in Slots, NEW r \in Slots,
           NEW len, len = (r - f + KBUFFER_LEN) % KBUFFER_LEN,
           NEW q, q = [i \in 1 .. len |-> buf[(f + i - 1) % KBUFFER_LEN]]
    PROVE  /\ len = Between(f, r) /\ len \in 0 .. KBUFFER_LEN - 1
           /\ q \in Seq(Chars) /\ Len(q) = len
           /\ \A i \in 1 .. len : After(f, i - 1) \in Slots /\ q[i] = buf[After(f, i - 1)]
<1> USE KeyboardAssumption
<1>1. len = Between(f, r) /\ len \in 0 .. KBUFFER_LEN - 1
  <2>1. CASE f <= r
    <3>1. r - f \in Slots
      BY <2>1 DEF Slots
    <3> QED BY <2>1, <3>1, Modulo DEF Between, Slots
  <2>2. CASE ~ (f <= r)
    <3>1. r - f + KBUFFER_LEN \in Slots
      BY <2>2 DEF Slots
    <3> QED BY <2>2, <3>1, Modulo DEF Between, Slots
  <2> QED BY <2>1, <2>2
<1>2. ASSUME NEW i \in 1 .. len
      PROVE  After(f, i - 1) \in Slots /\ (f + i - 1) % KBUFFER_LEN = After(f, i - 1)
  <2>1. CASE f + i - 1 < KBUFFER_LEN
    <3>1. f + i - 1 \in Slots
      BY <1>1, <2>1 DEF Slots
    <3> QED BY <2>1, <3>1, Modulo DEF After, Slots
  <2>2. CASE f + i - 1 >= KBUFFER_LEN
    <3>1. f + i - 1 - KBUFFER_LEN \in Slots
      BY <1>1, <2>2 DEF Slots
    <3>2. f + i - 1 = (f + i - 1 - KBUFFER_LEN) + KBUFFER_LEN
      BY DEF Slots
    <3>3. (f + i - 1) % KBUFFER_LEN = f + i - 1 - KBUFFER_LEN
      BY <3>1, <3>2, Modulo
    <3> QED BY <2>2, <3>1, <3>3 DEF After, Slots
  <2> QED BY <1>1, <2>1, <2>2 DEF Slots
<1>3. \A i \in 1 .. len : buf[(f + i - 1) % KBUFFER_LEN] \in Chars
  BY <1>2
<1>4. q \in Seq(Chars) /\ Len(q) = len
  BY <1>1, <1>3
<1> QED
  BY <1>1, <1>2, <1>4

\* The slots after a written one keep their order: the queue grows at its end.
LEMMA RingEnqueue ==
    ASSUME NEW buf \in [Slots -> Chars], NEW f \in Slots, NEW r \in Slots, NEW c \in Chars,
           f # NextSlot(r)
    PROVE  /\ Between(f, NextSlot(r)) = Between(f, r) + 1
           /\ Between(f, r) < KBUFFER_LEN - 1
           /\ After(f, Between(f, r)) = r
           /\ \A i \in 1 .. Between(f, r) : After(f, i - 1) # r
<1> USE KeyboardAssumption, Modulo DEF Slots, After, Between
<1>1. Between(f, NextSlot(r)) = Between(f, r) + 1 /\ Between(f, r) < KBUFFER_LEN - 1
  <2>1. NextSlot(r) = IF r + 1 < KBUFFER_LEN THEN r + 1 ELSE 0
    BY DEF After
  <2>2. CASE r + 1 < KBUFFER_LEN
    BY <2>1, <2>2
  <2>3. CASE r + 1 = KBUFFER_LEN
    BY <2>1, <2>3
  <2> QED BY <2>2, <2>3
<1>2. After(f, Between(f, r)) = r
  OBVIOUS
<1>3. \A i \in 1 .. Between(f, r) : After(f, i - 1) # r
  OBVIOUS
<1> QED
  BY <1>1, <1>2, <1>3

LEMMA RingDequeue ==
    ASSUME NEW f \in Slots, NEW r \in Slots, f # r
    PROVE  /\ Between(NextSlot(f), r) = Between(f, r) - 1 /\ Between(f, r) > 0
           /\ \A i \in 1 .. Between(f, r) - 1 : After(NextSlot(f), i - 1) = After(f, i)
<1> USE KeyboardAssumption, Modulo DEF Slots, After, Between
<1>1. Between(NextSlot(f), r) = Between(f, r) - 1 /\ Between(f, r) > 0
  OBVIOUS
<1>2. \A i \in 1 .. Between(f, r) - 1 : After(NextSlot(f), i - 1) = After(f, i)
  OBVIOUS
<1> QED
  BY <1>1, <1>2

-----------------------------------------------------------------------------
(* The steps.                                                               *)

LEMMA InitInv == KeyboardInit => Inv /\ Queue = <<>>
<1> SUFFICES ASSUME KeyboardInit PROVE Inv /\ Queue = <<>>
  OBVIOUS
<1>1. NoChar \in Chars /\ 0 \in Slots
  BY KeyboardAssumption DEF Chars, Slots
<1>2. TypeInv
  BY <1>1 DEF KeyboardInit, TypeInv
<1>3. Len(Queue) = 0 /\ Queue \in Seq(Chars)
  <2>1. Between(kfront, krear) = 0
    BY DEF KeyboardInit, Between
  <2>2. Len(Queue) = Between(kfront, krear) /\ Queue \in Seq(Chars)
    BY <1>2, RingQueue DEF TypeInv, Queue, Length
  <2> QED BY <2>1, <2>2
<1>4. Queue = <<>>
  BY <1>3, EmptySeq
<1> QED
  BY <1>2, <1>4 DEF Inv, KeyboardInit, ReaderInv, ReleasedIsClear

\* What the handler does with a key that is not a control key.
LEMMA PressKeyInv ==
    ASSUME Inv, NEW k \in CharKeys \cup BlankKeys, PressKey(k)
    PROVE  Inv' /\ [BQ!Next]_Queue
<1>1. /\ TypeInv /\ CharOf(k) \in Chars
      /\ UNCHANGED <<kfront, controls, down, ch>>
      /\ reader' = IF reader = "halted" THEN "test" ELSE reader
  BY DEF Inv, PressKey, Wake, CharOf, Table, Chars, Tables
<1>2. CASE kfront = NextSlot(krear)
  <2>1. UNCHANGED <<kbuffer, krear>>
    BY <1>2 DEF PressKey
  <2>2. Inv'
    BY <1>1, <2>1 DEF Inv, TypeInv, ReaderInv, ReleasedIsClear
  <2>3. Queue' = Queue
    BY <1>1, <2>1 DEF Queue, Length
  <2> QED BY <2>2, <2>3
<1>3. CASE kfront # NextSlot(krear)
  <2> DEFINE n == Between(kfront, krear)
  <2>1. /\ kbuffer' = [kbuffer EXCEPT ![krear] = CharOf(k)]
        /\ krear' = NextSlot(krear)
    BY <1>3 DEF PressKey
  <2>2. TypeInv'
    BY <1>1, <2>1, Modulo DEF TypeInv
  <2>3. ReaderInv'
    BY <1>1, <1>3, <2>1 DEF Inv, TypeInv, ReaderInv
  <2>4. Inv'
    BY <1>1, <2>2, <2>3 DEF Inv, ReleasedIsClear
  <2>5. /\ n \in 0 .. KBUFFER_LEN - 2 /\ Between(kfront, krear') = n + 1
        /\ After(kfront, n) = krear
        /\ \A i \in 1 .. n : After(kfront, i - 1) # krear
    BY <1>1, <1>3, <2>1, KeyboardAssumption, RingEnqueue DEF TypeInv, Between, Slots
  <2>6. /\ Queue \in Seq(Chars) /\ Len(Queue) = n
        /\ \A i \in 1 .. n : After(kfront, i - 1) \in Slots /\ Queue[i] = kbuffer[After(kfront, i - 1)]
    BY <1>1, RingQueue DEF TypeInv, Queue, Length
  <2>7. /\ Queue' \in Seq(Chars) /\ Len(Queue') = n + 1
        /\ \A i \in 1 .. n + 1 : Queue'[i] = kbuffer'[After(kfront, i - 1)]
    <3>1. /\ Queue' \in Seq(Chars) /\ Len(Queue') = Between(kfront', krear')
          /\ \A i \in 1 .. Between(kfront', krear') : Queue'[i] = kbuffer'[After(kfront', i - 1)]
      BY <2>2, RingQueue DEF TypeInv, Queue, Length
    <3> QED BY <1>1, <2>5, <3>1
  <2>8. \A i \in 1 .. n + 1 : Queue'[i] = IF i = n + 1 THEN CharOf(k) ELSE Queue[i]
    BY <1>1, <2>1, <2>5, <2>6, <2>7 DEF TypeInv
  <2> HIDE DEF n
  <2>9. Queue' = Append(Queue, CharOf(k))
    <3>1. /\ Append(Queue, CharOf(k)) \in Seq(Chars) /\ Len(Append(Queue, CharOf(k))) = n + 1
          /\ \A i \in 1 .. n + 1 :
                Append(Queue, CharOf(k))[i] = IF i = n + 1 THEN CharOf(k) ELSE Queue[i]
      BY <1>1, <2>5, <2>6, AppendProperties
    <3> QED BY <2>7, <2>8, <3>1, SeqEqual
  <2>10. Len(Queue) < KBUFFER_LEN - 1
    BY <2>5, <2>6, KeyboardAssumption
  <2> QED
    BY <1>1, <2>4, <2>9, <2>10 DEF BQ!Next, BQ!Enqueue
<1> QED
  BY <1>2, <1>3

\* What the reader does when it gives a slot back.
LEMMA AdvanceInv ==
    ASSUME Inv, Advance
    PROVE  Inv' /\ [BQ!Next]_Queue
<1> DEFINE n == Between(kfront, krear)
<1>1. /\ TypeInv /\ kfront # krear /\ kfront' = NextSlot(kfront)
      /\ reader' \in {"halt", "test"}
      /\ UNCHANGED <<kbuffer, krear, controls, down, ch>>
  BY DEF Inv, ReaderInv, Advance
<1>2. TypeInv'
  BY <1>1, Modulo DEF TypeInv
<1>3. Inv'
  BY <1>1, <1>2 DEF Inv, ReaderInv, ReleasedIsClear
<1>4. /\ n > 0 /\ Between(kfront', krear) = n - 1
      /\ \A i \in 1 .. n - 1 : After(kfront', i - 1) = After(kfront, i)
  BY <1>1, RingDequeue DEF TypeInv
<1>5. /\ Queue \in Seq(Chars) /\ Len(Queue) = n /\ n \in Nat
      /\ \A i \in 1 .. n : Queue[i] = kbuffer[After(kfront, i - 1)]
  BY <1>1, KeyboardAssumption, RingQueue DEF TypeInv, Queue, Length
<1>6. /\ Queue' \in Seq(Chars) /\ Len(Queue') = n - 1
      /\ \A i \in 1 .. n - 1 : Queue'[i] = kbuffer[After(kfront', i - 1)]
  BY <1>1, <1>2, <1>4, RingQueue DEF TypeInv, Queue, Length
<1>7. \A i \in 1 .. n - 1 : Queue'[i] = Queue[i + 1]
  <2>1. ASSUME NEW i \in 1 .. n - 1 PROVE Queue'[i] = Queue[i + 1]
    <3>1. i + 1 \in 1 .. n /\ (i + 1) - 1 = i
      BY <1>5
    <3> QED BY <1>4, <1>5, <1>6, <3>1
  <2> QED BY <2>1
<1> HIDE DEF n
<1>8. Queue # <<>>
  BY <1>4, <1>5, EmptySeq
<1>9. Queue' = Tail(Queue)
  <2>1. /\ Tail(Queue) \in Seq(Chars) /\ Len(Tail(Queue)) = n - 1
        /\ \A i \in 1 .. n - 1 : Tail(Queue)[i] = Queue[i + 1]
    BY <1>5, <1>8, HeadTailProperties
  <2> QED BY <1>6, <1>7, <2>1, SeqEqual
<1> QED
  BY <1>3, <1>8, <1>9 DEF BQ!Next, BQ!Dequeue

\* Every other step leaves the queue alone.
LEMMA OtherInv ==
    ASSUME Inv,
           \/ \E k \in ControlKeys : PressControl(k)
           \/ \E k \in Momentary : Release(k)
           \/ ClockTick \/ Test \/ Fetch \/ Hlt \/ UNCHANGED keyboardVars
    PROVE  Inv' /\ Queue' = Queue
<1>1. UNCHANGED <<kbuffer, kfront, krear>>
  BY DEF PressControl, Release, ClockTick, Test, Fetch, Hlt, keyboardVars
<1>2. Queue' = Queue
  BY <1>1 DEF Queue, Length
<1>3. ASSUME NEW k \in ControlKeys, PressControl(k) PROVE Inv'
  BY <1>1, <1>3 DEF Inv, TypeInv, ReaderInv, ReleasedIsClear, PressControl, Wake
<1>4. ASSUME NEW k \in Momentary, Release(k) PROVE Inv'
  BY <1>1, <1>4 DEF Inv, TypeInv, ReaderInv, ReleasedIsClear, Release, Wake
<1>5. ASSUME ClockTick \/ Test \/ Fetch \/ Hlt \/ UNCHANGED keyboardVars PROVE Inv'
  <2>1. UNCHANGED <<controls, down>>
    BY <1>5 DEF ClockTick, Test, Fetch, Hlt, keyboardVars
  <2>2. ReleasedIsClear'
    BY <2>1 DEF Inv, ReleasedIsClear
  <2>3. TypeInv'
    BY <1>1, <1>5, <2>1 DEF Inv, TypeInv, ClockTick, Test, Fetch, Hlt, Wake, keyboardVars
  <2>4. ReaderInv'
    BY <1>1, <1>5 DEF Inv, TypeInv, ReaderInv, ClockTick, Test, Fetch, Hlt, Wake, keyboardVars
  <2> QED BY <2>2, <2>3, <2>4 DEF Inv
<1> QED
  BY <1>2, <1>3, <1>4, <1>5

LEMMA NextInv == Inv /\ [KeyboardNext]_keyboardVars => Inv' /\ [BQ!Next]_Queue
<1> SUFFICES ASSUME Inv, [KeyboardNext]_keyboardVars PROVE Inv' /\ [BQ!Next]_Queue
  OBVIOUS
<1>1. CASE \E k \in CharKeys \cup BlankKeys : PressKey(k)
  BY <1>1, PressKeyInv
<1>2. CASE Advance
  BY <1>2, AdvanceInv
<1>3. CASE \/ \E k \in ControlKeys : PressControl(k)
           \/ \E k \in Momentary : Release(k)
           \/ ClockTick \/ Test \/ Fetch \/ Hlt \/ UNCHANGED keyboardVars
  BY <1>3, OtherInv
<1> QED
  BY <1>1, <1>2, <1>3 DEF KeyboardNext, Handler, Reader

-----------------------------------------------------------------------------
(* The theorems.                                                            *)

\* The variables keep their types: the two indices never leave the ring.
THEOREM TypeCorrect == KeyboardSpec => []TypeInv
<1>1. Inv => TypeInv
  BY DEF Inv
<1> QED
  BY <1>1, InitInv, NextInv, PTL DEF KeyboardSpec

\* The flags of ctrl, alt and the shifts are clear while those keys are up
\* (kboard.c:304), however often a held key is repeated.
THEOREM ReleasedAlwaysClear == KeyboardSpec => []ReleasedIsClear
<1>1. Inv => ReleasedIsClear
  BY DEF Inv
<1> QED
  BY <1>1, InitInv, NextInv, PTL DEF KeyboardSpec

\* The character kb_getchar returns is the oldest in the ring, still there when it
\* gives the slot back, however many keys were pressed since it was read.
THEOREM ReaderGetsFront == KeyboardSpec => [](reader = "advance" => kfront # krear /\ ch = kbuffer[kfront])
<1>1. Inv => (reader = "advance" => kfront # krear /\ ch = kbuffer[kfront])
  BY DEF Inv, ReaderInv
<1> QED
  BY <1>1, InitInv, NextInv, PTL DEF KeyboardSpec

\* The ring the handler fills and getchar empties is a queue of KBUFFER_LEN - 1
\* characters under every interleaving.
THEOREM RingIsQueue == KeyboardSpec => ImplementsQueue
<1>1. KeyboardInit => BQ!Init
  BY InitInv DEF BQ!Init
<1> QED
  BY <1>1, InitInv, NextInv, PTL DEF KeyboardSpec, ImplementsQueue, BQ!Spec
=============================================================================
