---------------------------- MODULE ContextProof ----------------------------
(***************************************************************************)
(* Proofs about Context, for any threads, lines and system calls and any   *)
(* depth of nested critical sections.                                      *)
(*                                                                         *)
(* The inductive invariant says what a kernel stack looks like: each frame *)
(* leads back to the registers and the flag of the one below (Chained), a  *)
(* thread that does not run waits to be resumed outside critical sections  *)
(* (Waiting), and those of the one that runs are on top of its stack, with *)
(* interrupts disabled (Sections, InCritical).                             *)
(***************************************************************************)
EXTENDS Context, SequenceTheorems, TLAPS

Values ==
    {Zero, Scratch} \cup {Number(n) : n \in SysNos} \cup Threads \X (Regs \cup {"frame"})
RegFiles == [Regs -> Values]
Places == {"body", "critical", "syscall", "irq", "return", "switched"}
Frames == [at : Places, regs : RegFiles, intr : BOOLEAN, int : Int, live : RegFiles]

TypeInv ==
    /\ current \in Threads /\ regs \in RegFiles /\ intr \in BOOLEAN
    /\ stack \in [Threads -> Seq(Frames)]
    /\ context \in [Threads -> RegFiles]
    /\ gone \in SUBSET Threads
    /\ pending \in SUBSET Lines /\ inService \in SUBSET (0 .. 15)
    /\ halted \in BOOLEAN

\* What frame f must hold for the thread to go on as it was in the frame below.
Leads(below, f) ==
    /\ below.at = "body" => f.intr
    /\ below.at \in {"body", "critical", "syscall"} /\ f.at \in {"irq", "return", "switched"}
            => f.regs = below.live
    /\ f.at = "syscall" => [f.regs EXCEPT !["eax"] = Result(f.regs["eax"][2], f.regs)] = below.live
    /\ f.at = "critical" => f.live = below.live

Chained(s) == \A i \in 2 .. Len(s) : Leads(s[i - 1], s[i])
Grounded(s) == s # <<>> => s[1].at = "body"
NoCritical(s) == \A i \in 1 .. Len(s) : s[i].at # "critical"
Waiting(s) == NoCritical(s) /\ (s # <<>> => s[Len(s)].at \in {"switched", "return"})
Sections(s) ==
    \A i, j \in 1 .. Len(s) : i < j /\ s[i].at = "critical" => s[j].at = "critical" /\ ~ s[j].intr

StackInv ==
    /\ current \notin gone /\ stack[current] # <<>>
    /\ \A t \in Threads : Chained(stack[t])
    /\ \A t \in Threads \ gone : Grounded(stack[t])
    /\ \A t \in Threads \ {current} : Waiting(stack[t])

InCritical == \E i \in DOMAIN stack[current] : stack[current][i].at = "critical"
SectionInv == Sections(stack[current]) /\ (InCritical => ~ intr)

Inv == TypeInv /\ StackInv /\ SectionInv /\ ResumesIntact

-----------------------------------------------------------------------------
(* Registers and frames.                                                    *)

\* Registers are values, whatever the kernel's code and a system call do to them.
LEMMA KernelRegs ==
    ASSUME NEW t \in Threads, NEW r \in RegFiles
    PROVE  /\ InKernel(t, r) \in RegFiles
           /\ \A v \in Values, q \in Regs : [r EXCEPT ![q] = v] \in RegFiles
           /\ NoRegs \in RegFiles /\ ThreadRegs(t) \in RegFiles
<1>1. /\ Zero \in Values /\ Scratch \in Values
      /\ \A q \in Regs \cup {"frame"} : <<t, q>> \in Values
  BY DEF Values
<1>2. "ebp" \in Regs
  BY DEF Regs
<1>3. \A q \in Regs : r[q] \in Values
  BY DEF RegFiles
<1>4. InKernel(t, r) \in RegFiles
  BY <1>1, <1>3 DEF InKernel, RegFiles
<1>5. NoRegs \in RegFiles /\ ThreadRegs(t) \in RegFiles
  BY <1>1 DEF NoRegs, ThreadRegs, RegFiles
<1>6. \A v \in Values, q \in Regs : [r EXCEPT ![q] = v] \in RegFiles
  BY DEF RegFiles
<1> QED
  BY <1>4, <1>5, <1>6

\* A system call answers a value.
LEMMA ResultIsValue ==
    ASSUME NEW n, NEW r \in RegFiles
    PROVE  Result(n, r) \in Values
<1>1. {"eax", "ebx", "ecx", "edx"} \subseteq Regs
  BY DEF Regs
<1>2. r.eax \in Values /\ r.ebx \in Values /\ Zero \in Values
  BY <1>1 DEF RegFiles, Values
<1>3. ASSUME n \in {"open", "close", "read", "write"} PROVE VfsResult(n, r) \in Values
  BY <1>2, <1>3 DEF VfsResult
<1> QED
  BY <1>2, <1>3 DEF Result

LEMMA FrameType ==
    ASSUME NEW at \in Places, NEW r \in RegFiles, NEW flag \in BOOLEAN, NEW int \in Int,
           NEW live \in RegFiles
    PROVE  /\ Frame(at, r, flag, int, live) \in Frames
           /\ Frame(at, r, flag, int, live).at = at
           /\ Frame(at, r, flag, int, live).regs = r
           /\ Frame(at, r, flag, int, live).intr = flag
           /\ Frame(at, r, flag, int, live).int = int
           /\ Frame(at, r, flag, int, live).live = live
  BY DEF Frame, Frames

-----------------------------------------------------------------------------
(* Stacks.                                                                  *)

\* A frame that leads back to the top keeps a stack in order.
LEMMA PushFrame ==
    ASSUME NEW s \in Seq(Frames), NEW f \in Frames, NEW r, s # <<>>, r = Append(s, f)
    PROVE  /\ r \in Seq(Frames) /\ r # <<>>
           /\ Len(r) = Len(s) + 1 /\ Len(s) \in Nat \ {0}
           /\ r[Len(r)] = f
           /\ \A i \in 1 .. Len(s) : r[i] = s[i]
           /\ Chained(s) /\ Leads(s[Len(s)], f) => Chained(r)
           /\ Grounded(s) => Grounded(r)
           /\ NoCritical(s) /\ f.at # "critical" => NoCritical(r)
<1>1. /\ r \in Seq(Frames) /\ Len(r) = Len(s) + 1 /\ Len(s) \in Nat
      /\ r[Len(r)] = f
      /\ \A i \in 1 .. Len(s) : r[i] = s[i]
  BY AppendProperties, LenProperties
<1>2. r # <<>> /\ Len(s) # 0
  BY <1>1, EmptySeq
<1>3. ASSUME Chained(s), Leads(s[Len(s)], f), NEW i \in 2 .. Len(r) PROVE Leads(r[i - 1], r[i])
  <2>1. CASE i = Len(r)
    BY <2>1, <1>1, <1>2, <1>3
  <2>2. CASE i # Len(r)
    BY <2>2, <1>1, <1>3 DEF Chained
  <2> QED BY <2>1, <2>2
<1>4. Grounded(s) => Grounded(r)
  BY <1>1, <1>2 DEF Grounded
<1>5. NoCritical(s) /\ f.at # "critical" => NoCritical(r)
  BY <1>1 DEF NoCritical
<1> QED
  BY <1>1, <1>2, <1>3, <1>4, <1>5 DEF Chained

\* Under a frame that is not the body lies one it leads back to.
LEMMA PopFrame ==
    ASSUME NEW s \in Seq(Frames), s # <<>>, Grounded(s), Chained(s), s[Len(s)].at # "body",
           NEW r, r = Front(s)
    PROVE  /\ r \in Seq(Frames) /\ r # <<>>
           /\ Len(r) = Len(s) - 1 /\ Len(r) \in Nat \ {0}
           /\ \A i \in 1 .. Len(r) : r[i] = s[i]
           /\ Chained(r) /\ Grounded(r)
           /\ Leads(r[Len(r)], s[Len(s)])
           /\ NoCritical(s) => NoCritical(r)
<1>1. Len(s) \in Nat /\ Len(s) # 0
  BY LenProperties, EmptySeq
<1>2. Len(s) > 1
  BY <1>1 DEF Grounded
<1>3. /\ r \in Seq(Frames) /\ Len(r) = Len(s) - 1
      /\ \A i \in 1 .. Len(r) : r[i] = s[i]
  BY <1>1, <1>2, SubSeqProperties DEF Front
<1>4. r # <<>>
  BY <1>1, <1>2, <1>3, EmptySeq
<1>5. Chained(r) /\ Grounded(r) /\ Leads(r[Len(r)], s[Len(s)])
  BY <1>1, <1>2, <1>3 DEF Chained, Grounded
<1>6. NoCritical(s) => NoCritical(r)
  BY <1>1, <1>3 DEF NoCritical
<1> QED
  BY <1>1, <1>2, <1>3, <1>4, <1>5, <1>6

\* The sections of a thread whose top frame is none of them have ended.
LEMMA SectionsOnTop ==
    ASSUME NEW s \in Seq(Frames), s # <<>>, Sections(s), s[Len(s)].at # "critical"
    PROVE  NoCritical(s)
<1>1. Len(s) \in Nat /\ Len(s) # 0
  BY LenProperties, EmptySeq
<1> QED
  BY <1>1 DEF Sections, NoCritical

\* The stack of the thread that runs.
LEMMA CurrentStack ==
    ASSUME Inv
    PROVE  /\ current \in Threads \ gone
           /\ stack[current] \in Seq(Frames) /\ stack[current] # <<>>
           /\ Chained(stack[current]) /\ Grounded(stack[current]) /\ Sections(stack[current])
           /\ Top = stack[current][Len(stack[current])] /\ Top \in Frames
           /\ Below = Front(stack[current])
           /\ Top.at # "critical" => NoCritical(stack[current])
           /\ ~ InCritical <=> NoCritical(stack[current])
<1> DEFINE s == stack[current]
<1>1. /\ current \in Threads \ gone
      /\ s \in Seq(Frames) /\ s # <<>> /\ Chained(s) /\ Grounded(s) /\ Sections(s)
  BY DEF Inv, TypeInv, StackInv, SectionInv
<1>2. Len(s) \in Nat /\ Len(s) # 0 /\ DOMAIN s = 1 .. Len(s)
  BY <1>1, LenProperties, EmptySeq
<1>3. Top = s[Len(s)] /\ Top \in Frames
  BY <1>1, <1>2, ElementOfSeq DEF Top, Last
<1>4. Top.at # "critical" => NoCritical(s)
  BY <1>1, <1>3, SectionsOnTop
<1>5. ~ InCritical <=> NoCritical(s)
  BY <1>2 DEF InCritical, NoCritical
<1> QED
  BY <1>1, <1>3, <1>4, <1>5 DEF Below

\* What is left to show of a step that gives the running thread the stack r.
LEMMA OwnStack ==
    ASSUME Inv, NEW r \in Seq(Frames), r # <<>>, Chained(r), Grounded(r),
           stack' = [stack EXCEPT ![current] = r]
    PROVE  /\ stack' \in [Threads -> Seq(Frames)]
           /\ stack'[current] = r
           /\ \A t \in Threads \ {current} : stack'[t] = stack[t]
           /\ \A t \in Threads : Chained(stack'[t])
           /\ \A t \in Threads \ gone : Grounded(stack'[t])
<1>1. stack \in [Threads -> Seq(Frames)] /\ current \in Threads
  BY DEF Inv, TypeInv
<1>2. /\ stack' \in [Threads -> Seq(Frames)]
      /\ stack'[current] = r
      /\ \A t \in Threads \ {current} : stack'[t] = stack[t]
  BY <1>1
<1> QED
  BY <1>2 DEF Inv, StackInv

\* A step after which the same thread runs, on the stack r.
LEMMA GoesOn ==
    ASSUME Inv, NEW r \in Seq(Frames), r # <<>>, Chained(r), Grounded(r),
           stack' = [stack EXCEPT ![current] = r], current' = current, gone' = gone
    PROVE  /\ stack' \in [Threads -> Seq(Frames)] /\ StackInv'
           /\ stack'[current'] = r /\ Top' = r[Len(r)]
           /\ Sections(r) /\ (NoCritical(r) \/ ~ intr') => SectionInv'
           /\ NoCritical(r) => Sections(r)
           /\ r[Len(r)].at \notin {"body", "critical", "syscall"} => ResumesIntact'
<1>1. /\ stack' \in [Threads -> Seq(Frames)]
      /\ stack'[current] = r
      /\ \A t \in Threads \ {current} : stack'[t] = stack[t]
      /\ \A t \in Threads : Chained(stack'[t])
      /\ \A t \in Threads \ gone : Grounded(stack'[t])
  BY OwnStack
<1>2. StackInv'
  BY <1>1 DEF Inv, StackInv
<1>3. Top' = r[Len(r)]
  BY <1>1 DEF Top, Last
<1>4. DOMAIN r = 1 .. Len(r)
  BY LenProperties
<1>5. Sections(r) /\ (NoCritical(r) \/ ~ intr') => SectionInv'
  BY <1>1, <1>4 DEF SectionInv, InCritical, NoCritical
<1>6. NoCritical(r) => Sections(r)
  BY DEF NoCritical, Sections
<1>7. r[Len(r)].at \notin {"body", "critical", "syscall"} => ResumesIntact'
  BY <1>3 DEF ResumesIntact
<1> QED
  BY <1>1, <1>2, <1>3, <1>5, <1>6, <1>7

\* A switch away from a thread that waits from then on.
LEMMA SwitchedAway ==
    ASSUME Inv, NEW r \in Seq(Frames), r # <<>>, Chained(r), Waiting(r),
           stack' = [stack EXCEPT ![current] = r],
           (gone' = gone /\ Grounded(r)) \/ gone' = gone \cup {current},
           NEW next \in Runnable \ {current}, SwitchTo(next)
    PROVE  /\ stack' \in [Threads -> Seq(Frames)] /\ context' \in [Threads -> RegFiles]
           /\ current' \in Threads /\ regs' \in RegFiles
           /\ StackInv' /\ SectionInv' /\ ResumesIntact'
<1>1. /\ stack \in [Threads -> Seq(Frames)] /\ current \in Threads
      /\ next \in Threads \ gone /\ stack[next] # <<>> /\ Waiting(stack[next])
      /\ context \in [Threads -> RegFiles] /\ regs \in RegFiles
  BY DEF Inv, TypeInv, StackInv, Runnable
<1>2. /\ stack' \in [Threads -> Seq(Frames)]
      /\ stack'[current] = r
      /\ \A t \in Threads \ {current} : stack'[t] = stack[t]
  BY <1>1
<1>3. {"eax", "ebx", "ebp"} \subseteq Regs /\ Scratch \in Values
  BY DEF Regs, Values
<1>4. /\ current' = next
      /\ context' \in [Threads -> RegFiles] /\ regs' \in RegFiles
  <2>1. regs["ebp"] \in Values
    BY <1>1, <1>3 DEF RegFiles
  <2>2. [regs EXCEPT !["ebx"] = regs["ebp"]] \in RegFiles
    BY <1>1, <1>3, <2>1, KernelRegs
  <2>3. [context[next] EXCEPT !["eax"] = Scratch] \in RegFiles
    BY <1>1, <1>3, KernelRegs
  <2> QED BY <1>1, <2>2, <2>3 DEF SwitchTo
<1>5. StackInv'
  BY <1>1, <1>2, <1>4 DEF Inv, StackInv
<1>6. DOMAIN stack[next] = 1 .. Len(stack[next])
  BY <1>1, LenProperties
<1>7. SectionInv'
  BY <1>1, <1>2, <1>4, <1>6 DEF SectionInv, InCritical, Sections, Waiting, NoCritical
<1>8. Top' = stack[next][Len(stack[next])]
  BY <1>1, <1>2, <1>4 DEF Top, Last
<1>9. ResumesIntact'
  BY <1>1, <1>8 DEF ResumesIntact, Waiting
<1> QED
  BY <1>1, <1>2, <1>4, <1>5, <1>7, <1>9

-----------------------------------------------------------------------------
(* The steps.                                                               *)

LEMMA InitInv == Init => Inv
<1> SUFFICES ASSUME Init PROVE Inv
  OBVIOUS
<1> USE DEF Init
<1> DEFINE f == Body(BootRegs)
<1>1. Boot \in Threads
  BY ContextAssumption
<1>2. BootRegs \in RegFiles /\ NoRegs \in RegFiles
  BY <1>1, KernelRegs DEF BootRegs, RegFiles, Values
<1>3. f \in Frames /\ f.at = "body" /\ f.live = BootRegs
  BY <1>2 DEF Body, Frame, Frames, Places, NoInt
<1>4. <<f>> \in Seq(Frames) /\ <<>> \in Seq(Frames) /\ Len(<<f>>) = 1 /\ <<f>>[1] = f
  BY <1>3
<1>5. stack[Boot] = <<f>> /\ \A t \in Threads : stack[t] \in {<<>>, <<f>>}
  BY <1>1
<1>6. TypeInv
  BY <1>1, <1>2, <1>4 DEF TypeInv
<1>7. StackInv
  BY <1>1, <1>3, <1>4, <1>5 DEF StackInv, Chained, Grounded, Waiting, NoCritical
<1>8. SectionInv
  BY <1>3, <1>4, <1>5 DEF SectionInv, Sections, InCritical
<1>9. ResumesIntact
  BY <1>3, <1>4, <1>5 DEF ResumesIntact, Top, Last
<1> QED
  BY <1>6, <1>7, <1>8, <1>9 DEF Inv

LEMMA CreateInv == Inv /\ Create => Inv'
<1> SUFFICES ASSUME Inv, Create PROVE Inv'
  OBVIOUS
<1>1. PICK t \in Threads : /\ stack[t] = <<>>
                           /\ stack' = [stack EXCEPT ![t] = <<Body(ThreadRegs(t)), NewFrame(t)>>]
  BY DEF Create
<1> DEFINE b == Body(ThreadRegs(t))
           f == NewFrame(t)
           r == <<b, f>>
<1>2. /\ UNCHANGED <<current, regs, intr, context, gone, pending, inService, halted>>
      /\ TypeInv /\ t # current
  BY <1>1 DEF Create, cpu, chips, Inv, StackInv
<1>3. ThreadRegs(t) \in RegFiles /\ NoRegs \in RegFiles
      /\ [ThreadRegs(t) EXCEPT !.eax = Zero] = ThreadRegs(t)
  BY <1>2, KernelRegs DEF ThreadRegs, Regs, TypeInv
<1>4. b \in Frames /\ b.at = "body" /\ b.live = ThreadRegs(t)
  BY <1>3 DEF Body, Frame, Frames, Places, NoInt
<1>5. f \in Frames /\ f.at = "return" /\ f.regs = ThreadRegs(t) /\ f.intr
  <2>1. [ThreadRegs(t) EXCEPT !["eax"] = Zero] \in RegFiles
    BY <1>3
  <2> QED BY <1>3, <2>1 DEF NewFrame, Frame, Frames, Places, NoInt
<1>6. r \in Seq(Frames) /\ Len(r) = 2 /\ r[1] = b /\ r[2] = f /\ r # <<>>
  BY <1>4, <1>5
<1>7. Leads(b, f)
  BY <1>4, <1>5 DEF Leads
<1>8. Chained(r) /\ Grounded(r) /\ Waiting(r)
  BY <1>4, <1>5, <1>6, <1>7 DEF Chained, Grounded, Waiting, NoCritical
<1>9. /\ stack' \in [Threads -> Seq(Frames)] /\ stack'[t] = r
      /\ \A u \in Threads \ {t} : stack'[u] = stack[u]
  BY <1>1, <1>2, <1>6 DEF TypeInv
<1>10. TypeInv'
  BY <1>2, <1>9 DEF TypeInv
<1>11. StackInv'
  <2>1. current' \notin gone' /\ stack'[current'] # <<>>
    BY <1>2, <1>9 DEF Inv, StackInv, TypeInv
  <2>2. \A u \in Threads : Chained(stack'[u])
    BY <1>8, <1>9 DEF Inv, StackInv
  <2>3. \A u \in Threads \ gone' : Grounded(stack'[u])
    BY <1>2, <1>8, <1>9 DEF Inv, StackInv
  <2>4. \A u \in Threads \ {current'} : Waiting(stack'[u])
    BY <1>2, <1>8, <1>9 DEF Inv, StackInv
  <2> QED BY <2>1, <2>2, <2>3, <2>4 DEF StackInv
<1>12. stack'[current] = stack[current]
  BY <1>2, <1>9 DEF TypeInv
<1>13. SectionInv' /\ ResumesIntact'
  BY <1>2, <1>12 DEF Inv, SectionInv, InCritical, ResumesIntact, Top
<1> QED
  BY <1>10, <1>11, <1>13 DEF Inv

LEMMA IntrStoreInv == Inv /\ IntrStore => Inv'
<1> SUFFICES ASSUME Inv, IntrStore PROVE Inv'
  OBVIOUS
<1> DEFINE s == stack[current]
           f == Frame("critical", NoRegs, intr, NoInt, regs)
           r == Append(s, f)
<1>1. /\ TypeInv /\ Top.at \in {"body", "critical"} /\ ~ halted /\ stack' = [stack EXCEPT ![current] = r]
      /\ intr' = FALSE
      /\ UNCHANGED <<current, regs, context, gone, pending, inService, halted>>
  BY DEF Inv, IntrStore, At, Push, chips
<1>2. f \in Frames /\ f.at = "critical" /\ f.intr = intr /\ f.live = regs
  <2>1. regs \in RegFiles /\ NoRegs \in RegFiles /\ intr \in BOOLEAN
    BY <1>1, KernelRegs DEF TypeInv
  <2> QED BY <2>1 DEF Frame, Frames, Places, NoInt
<1>3. Leads(Top, f)
  BY <1>1, <1>2 DEF Leads, Inv, ResumesIntact
<1>4. s \in Seq(Frames) /\ s # <<>> /\ Top = s[Len(s)]
  BY CurrentStack
<1>5. /\ r \in Seq(Frames) /\ r # <<>>
      /\ Len(r) = Len(s) + 1 /\ Len(s) \in Nat \ {0}
      /\ r[Len(r)] = f
      /\ \A i \in 1 .. Len(s) : r[i] = s[i]
      /\ Chained(r) /\ Grounded(r)
  <2>1. Chained(s) /\ Grounded(s) /\ Leads(s[Len(s)], f)
    BY <1>3, <1>4, CurrentStack
  <2> HIDE DEF f
  <2>2. r \in Seq(Frames) /\ r # <<>> /\ Len(r) = Len(s) + 1 /\ Len(s) \in Nat \ {0}
    BY <1>2, <1>4, PushFrame
  <2>3. r[Len(r)] = f /\ \A i \in 1 .. Len(s) : r[i] = s[i]
    BY <1>2, <1>4, PushFrame
  <2>4. Chained(r) /\ Grounded(r)
    BY <1>2, <1>4, <2>1, PushFrame
  <2> QED BY <2>2, <2>3, <2>4
<1>6. stack' \in [Threads -> Seq(Frames)] /\ StackInv' /\ Top' = f
      /\ (Sections(r) => SectionInv')
  BY <1>1, <1>5, GoesOn
<1>7. TypeInv'
  BY <1>1, <1>6 DEF TypeInv
<1>8. ASSUME NEW i \in 1 .. Len(r), NEW j \in 1 .. Len(r), i < j, r[i].at = "critical"
      PROVE  r[j].at = "critical" /\ ~ r[j].intr
  <2>1. i \in 1 .. Len(s) /\ s[i].at = "critical"
    BY <1>5, <1>8
  <2>2. CASE j = Len(r)
    <3>1. ~ intr
      BY <2>1, CurrentStack DEF NoCritical, Inv, SectionInv
    <3> QED BY <2>2, <3>1, <1>2, <1>5
  <2>3. CASE j # Len(r)
    BY <2>1, <2>3, <1>5, <1>8 DEF Inv, SectionInv, Sections
  <2> QED BY <2>2, <2>3
<1>9. SectionInv'
  BY <1>6, <1>8 DEF Sections
<1>10. ResumesIntact'
  BY <1>1, <1>2, <1>6 DEF ResumesIntact
<1> QED
  BY <1>6, <1>7, <1>9, <1>10 DEF Inv

LEMMA IntrRestoreInv == Inv /\ IntrRestore => Inv'
<1> SUFFICES ASSUME Inv, IntrRestore PROVE Inv'
  OBVIOUS
<1> DEFINE s == stack[current]
           r == Front(s)
<1>1. /\ TypeInv /\ Top.at = "critical" /\ ~ halted /\ stack' = [stack EXCEPT ![current] = r]
      /\ intr' = (Top.intr \/ intr)
      /\ UNCHANGED <<current, regs, context, gone, pending, inService, halted>>
  BY DEF Inv, IntrRestore, At, Pop, Restored, chips
<1>2. /\ s \in Seq(Frames) /\ s # <<>> /\ Top = s[Len(s)] /\ Top \in Frames
      /\ Chained(s) /\ Grounded(s) /\ Sections(s)
  BY CurrentStack
<1>3. /\ r \in Seq(Frames) /\ r # <<>>
      /\ Len(r) = Len(s) - 1 /\ Len(r) \in Nat \ {0}
      /\ \A i \in 1 .. Len(r) : r[i] = s[i]
      /\ Chained(r) /\ Grounded(r)
      /\ Leads(r[Len(r)], Top)
  BY <1>1, <1>2, PopFrame
<1>4. stack' \in [Threads -> Seq(Frames)] /\ StackInv' /\ Top' = r[Len(r)]
      /\ (Sections(r) /\ (NoCritical(r) \/ ~ intr') => SectionInv')
  BY <1>1, <1>3, GoesOn
<1>5. ~ intr
  BY <1>1, <1>2, <1>3, CurrentStack DEF NoCritical, Inv, SectionInv
<1>6. TypeInv'
  BY <1>1, <1>2, <1>4 DEF TypeInv, Frames
<1>7. Sections(r)
  <2>1. ASSUME NEW i \in 1 .. Len(r), NEW j \in 1 .. Len(r), i < j, r[i].at = "critical"
        PROVE  r[j].at = "critical" /\ ~ r[j].intr
    <3>1. i \in 1 .. Len(s) /\ j \in 1 .. Len(s) /\ s[i] = r[i] /\ s[j] = r[j]
      BY <1>3
    <3> QED BY <1>2, <2>1, <3>1 DEF Sections
  <2> QED BY <2>1 DEF Sections
<1>8. NoCritical(r) \/ ~ intr'
  <2>1. ASSUME NEW i \in 1 .. Len(r), r[i].at = "critical" PROVE ~ Top.intr
    BY <1>2, <1>3, <2>1 DEF Sections
  <2> QED BY <1>1, <1>5, <2>1 DEF NoCritical
<1>9. ResumesIntact'
  BY <1>1, <1>3, <1>4 DEF ResumesIntact, Leads, Inv
<1> QED
  BY <1>4, <1>6, <1>7, <1>8, <1>9 DEF Inv

LEMMA SyscallInv == Inv /\ Syscall => Inv'
<1> SUFFICES ASSUME Inv, Syscall PROVE Inv'
  OBVIOUS
<1>1. PICK n \in SysNos :
        LET called == [regs EXCEPT !.eax = Number(n)]
        IN  /\ At("body")
            /\ stack' = [stack EXCEPT ![current] =
                            <<Body([called EXCEPT !.eax = Result(n, called)]),
                              Frame("syscall", called, intr, 128, InKernel(current, called))>>]
            /\ regs' = InKernel(current, called)
            /\ intr' = Gate(128)
            /\ UNCHANGED <<current, context, gone, chips, halted>>
  BY DEF Syscall
<1> DEFINE called == [regs EXCEPT !["eax"] = Number(n)]
           b == Body([called EXCEPT !["eax"] = Result(n, called)])
           f == Frame("syscall", called, intr, 128, InKernel(current, called))
           r == <<b, f>>
<1>2. /\ TypeInv /\ Top.at = "body" /\ ~ halted
      /\ stack' = [stack EXCEPT ![current] = r]
      /\ regs' = InKernel(current, called)
      /\ intr' = intr
      /\ UNCHANGED <<current, context, gone, pending, inService, halted>>
  <2>1. intr \in BOOLEAN
    BY DEF Inv, TypeInv
  <2>2. intr' = intr
    BY <1>1, <2>1 DEF Gate
  <2> QED BY <1>1, <2>2 DEF Inv, At, chips
<1>3. "eax" \in Regs /\ regs \in RegFiles /\ current \in Threads /\ intr \in BOOLEAN
  BY <1>2 DEF Regs, TypeInv
<1>4. called \in RegFiles /\ called["eax"] = Number(n)
  <2>1. Number(n) \in Values
    BY DEF Values
  <2> QED BY <1>3, <2>1, KernelRegs DEF RegFiles
<1> HIDE DEF called
<1>5. /\ [called EXCEPT !["eax"] = Result(n, called)] \in RegFiles
      /\ InKernel(current, called) \in RegFiles /\ NoRegs \in RegFiles
  BY <1>3, <1>4, ResultIsValue, KernelRegs
<1>6. b \in Frames /\ b.at = "body" /\ b.live = [called EXCEPT !["eax"] = Result(n, called)]
  BY <1>5 DEF Body, Frame, Frames, Places, NoInt
<1>7. /\ f \in Frames /\ f.at = "syscall" /\ f.regs = called /\ f.intr = intr
      /\ f.live = InKernel(current, called)
  BY <1>3, <1>4, <1>5 DEF Frame, Frames, Places
<1>8. intr
  BY <1>2 DEF Inv, ResumesIntact
<1>9. Leads(b, f)
  <2>1. f.regs["eax"][2] = n
    BY <1>4, <1>7 DEF Number
  <2> QED BY <1>6, <1>7, <1>8, <2>1, ZenonT(30) DEF Leads
<1> HIDE DEF b, f
<1>10. r \in Seq(Frames) /\ Len(r) = 2 /\ r[1] = b /\ r[2] = f /\ r # <<>>
  BY <1>6, <1>7
<1>11. Chained(r) /\ Grounded(r) /\ NoCritical(r)
  BY <1>6, <1>7, <1>9, <1>10 DEF Chained, Grounded, NoCritical
<1>12. /\ stack' \in [Threads -> Seq(Frames)] /\ StackInv' /\ Top' = f /\ SectionInv'
  BY <1>2, <1>10, <1>11, GoesOn
<1>13. TypeInv'
  BY <1>2, <1>5, <1>12 DEF TypeInv
<1>14. ResumesIntact'
  BY <1>2, <1>7, <1>12 DEF ResumesIntact
<1> QED
  BY <1>12, <1>13, <1>14 DEF Inv

\* A frame may take the top one's place when it leads back to all that one does.
LEMMA ReplaceTop ==
    ASSUME Inv, Top.at \notin {"body", "critical"}, NEW f \in Frames, f.at # "critical",
           \A b \in Frames : Leads(b, Top) => Leads(b, f),
           NEW r, r = Append(Below, f)
    PROVE  /\ r \in Seq(Frames) /\ r # <<>> /\ r[Len(r)] = f
           /\ Chained(r) /\ Grounded(r) /\ NoCritical(r)
<1> DEFINE s == stack[current]
           u == Front(s)
<1>1. /\ s \in Seq(Frames) /\ s # <<>> /\ Top = s[Len(s)] /\ Below = u
      /\ Chained(s) /\ Grounded(s) /\ NoCritical(s)
  BY CurrentStack
<1>2. /\ u \in Seq(Frames) /\ u # <<>> /\ Len(u) \in Nat \ {0}
      /\ Chained(u) /\ Grounded(u) /\ Leads(u[Len(u)], Top) /\ NoCritical(u)
  BY <1>1, PopFrame
<1>3. u[Len(u)] \in Frames
  BY <1>2, ElementOfSeq
<1>4. Leads(u[Len(u)], f)
  BY <1>2, <1>3
<1>5. r = Append(u, f)
  BY <1>1
<1> HIDE DEF u
<1>6. r \in Seq(Frames) /\ r # <<>> /\ r[Len(r)] = f
  BY <1>2, <1>5, PushFrame
<1>7. Chained(r) /\ Grounded(r) /\ NoCritical(r)
  BY <1>2, <1>4, <1>5, PushFrame
<1> QED
  BY <1>6, <1>7

LEMMA SyscallHandlerInv == Inv /\ SyscallHandler => Inv'
<1> SUFFICES ASSUME Inv, SyscallHandler PROVE Inv'
  OBVIOUS
<1> DEFINE f == [Top EXCEPT !.at = "return", !.regs["eax"] = Result(Top.regs["eax"][2], Top.regs)]
           r == Append(Below, f)
<1>1. /\ TypeInv /\ Top.at = "syscall" /\ Top \in Frames
      /\ stack' = [stack EXCEPT ![current] = r]
      /\ UNCHANGED <<current, regs, intr, context, gone, pending, inService, halted>>
  BY CurrentStack DEF Inv, SyscallHandler, At, cpu, chips
<1>2. /\ f \in Frames /\ f.at = "return" /\ f.intr = Top.intr
      /\ f.regs = [Top.regs EXCEPT !["eax"] = Result(Top.regs["eax"][2], Top.regs)]
  <2>1. Top.regs \in RegFiles /\ "eax" \in Regs /\ current \in Threads
    BY <1>1 DEF Frames, Regs, TypeInv
  <2>2. Result(Top.regs["eax"][2], Top.regs) \in Values
    BY <2>1, ResultIsValue
  <2>3. [Top.regs EXCEPT !["eax"] = Result(Top.regs["eax"][2], Top.regs)] \in RegFiles
    BY <2>1, <2>2, KernelRegs
  <2> QED BY <1>1, <2>3 DEF Frames, Places
<1>3. \A b \in Frames : Leads(b, Top) => Leads(b, f)
  BY <1>1, <1>2 DEF Leads
<1> HIDE DEF f
<1>4. /\ r \in Seq(Frames) /\ r # <<>> /\ r[Len(r)] = f
      /\ Chained(r) /\ Grounded(r) /\ NoCritical(r)
  BY <1>1, <1>2, <1>3, ReplaceTop
<1>5. stack' \in [Threads -> Seq(Frames)] /\ StackInv' /\ SectionInv' /\ ResumesIntact'
  BY <1>1, <1>2, <1>4, GoesOn
<1>6. TypeInv'
  BY <1>1, <1>5 DEF TypeInv
<1> QED
  BY <1>5, <1>6 DEF Inv

\* An exception stops everything, a line raised changes nothing for the threads.
LEMMA ExceptionRaiseInv ==
    ASSUME Inv, Exception \/ \E line \in Lines : Raise(line)
    PROVE  Inv'
<1>1. CASE Exception
  <2>1. /\ halted' = TRUE /\ intr' = FALSE
        /\ UNCHANGED <<current, regs, stack, context, gone, pending, inService>>
    <3>1. PageFault # 128
      BY DEF PageFault
    <3>2. intr' = FALSE
      BY <1>1, <3>1 DEF Exception, Gate
    <3> QED BY <1>1, <3>2 DEF Exception, chips
  <2>2. TypeInv' /\ StackInv' /\ SectionInv'
    BY <2>1 DEF Inv, TypeInv, StackInv, SectionInv, InCritical
  <2>3. ResumesIntact'
    BY <2>1 DEF ResumesIntact
  <2> QED BY <2>2, <2>3 DEF Inv
<1>2. CASE \E line \in Lines : Raise(line)
  <2>1. PICK line \in Lines : Raise(line)
    BY <1>2
  <2>2. /\ pending' = pending \cup {line}
        /\ UNCHANGED <<current, regs, intr, stack, context, gone, inService, halted>>
    BY <2>1 DEF Raise, cpu
  <2>3. TypeInv' /\ StackInv' /\ SectionInv'
    BY <2>2 DEF Inv, TypeInv, StackInv, SectionInv, InCritical
  <2>4. ResumesIntact'
    BY <2>2 DEF Inv, ResumesIntact, Top
  <2> QED BY <2>3, <2>4 DEF Inv
<1> QED
  BY <1>1, <1>2

LEMMA DeliverInv == ASSUME Inv, NEW line \in Lines, Deliver(line) PROVE Inv'
<1> DEFINE s == stack[current]
           f == Frame("irq", regs, intr, IRQ0 + line, NoRegs)
           r == Append(s, f)
<1>1. /\ TypeInv /\ Top.at \in {"body", "critical", "syscall", "return"} /\ ~ halted
      /\ intr
      /\ pending' = pending \ {line}
      /\ inService' \in SUBSET (inService \cup {line, Cascade})
      /\ stack' = [stack EXCEPT ![current] = r]
      /\ regs' = InKernel(current, regs)
      /\ intr' = Gate(IRQ0 + line)
      /\ UNCHANGED <<current, context, gone, halted>>
  BY DEF Inv, Deliver, At, Push
<1>2. line \in 0 .. 15 /\ IRQ0 + line \in Int /\ Cascade \in 0 .. 15
  BY ContextAssumption DEF IRQ0, Cascade
<1>3. /\ regs \in RegFiles /\ NoRegs \in RegFiles /\ intr \in BOOLEAN
      /\ InKernel(current, regs) \in RegFiles
  BY <1>1, KernelRegs DEF TypeInv
<1>4. f \in Frames /\ f.at = "irq" /\ f.regs = regs /\ f.intr = intr
  BY <1>2, <1>3 DEF Frame, Frames, Places
<1> HIDE DEF f
<1>5. s \in Seq(Frames) /\ s # <<>> /\ Top = s[Len(s)] /\ Chained(s) /\ Grounded(s)
  BY CurrentStack
<1>6. NoCritical(s)
  BY <1>1, CurrentStack DEF Inv, SectionInv
<1>7. Leads(s[Len(s)], f)
  <2>1. Leads(Top, f)
    BY <1>1, <1>4 DEF Leads, Inv, ResumesIntact
  <2> QED BY <1>5, <2>1
<1>8. r \in Seq(Frames) /\ r # <<>> /\ r[Len(r)] = f
  BY <1>4, <1>5, PushFrame
<1>9. Chained(r) /\ Grounded(r) /\ NoCritical(r)
  BY <1>4, <1>5, <1>6, <1>7, PushFrame
<1>10. stack' \in [Threads -> Seq(Frames)] /\ StackInv' /\ SectionInv' /\ ResumesIntact'
  BY <1>1, <1>4, <1>8, <1>9, GoesOn
<1>11. intr' \in BOOLEAN
  BY <1>1 DEF Gate
<1>12. TypeInv'
  BY <1>1, <1>2, <1>3, <1>10, <1>11 DEF TypeInv
<1> QED
  BY <1>10, <1>12 DEF Inv

\* The clock's handler switches to any thread that can go on, or returns.
LEMMA ScheduleInv ==
    ASSUME Inv, Top.at = "irq", Schedule(Below, Top, Runnable),
           UNCHANGED <<pending, gone, halted>>, inService' \in SUBSET (0 .. 15)
    PROVE  Inv'
<1>1. PICK next \in Runnable :
        IF next = current
        THEN /\ stack' = [stack EXCEPT ![current] = Append(Below, [Top EXCEPT !.at = "return"])]
             /\ UNCHANGED <<cpu, context>>
        ELSE /\ stack' = [stack EXCEPT ![current] =
                            Append(Below, [Top EXCEPT !.at = "switched", !.live = regs])]
             /\ SwitchTo(next)
             /\ UNCHANGED intr
  BY DEF Schedule
<1>2. TypeInv /\ Top \in Frames /\ current \notin gone
  BY CurrentStack DEF Inv, StackInv
<1>3. CASE next = current
  <2> DEFINE f == [Top EXCEPT !.at = "return"]
             r == Append(Below, f)
  <2>1. f \in Frames /\ f.at = "return" /\ f.regs = Top.regs /\ f.intr = Top.intr
    BY <1>2 DEF Frames, Places
  <2>2. \A b \in Frames : Leads(b, Top) => Leads(b, f)
    BY <2>1 DEF Leads
  <2>3. stack' = [stack EXCEPT ![current] = r] /\ UNCHANGED <<current, regs, intr, context>>
    BY <1>1, <1>3 DEF cpu
  <2> HIDE DEF f
  <2>4. /\ r \in Seq(Frames) /\ r # <<>> /\ r[Len(r)] = f
        /\ Chained(r) /\ Grounded(r) /\ NoCritical(r)
    BY <2>1, <2>2, ReplaceTop
  <2>5. stack' \in [Threads -> Seq(Frames)] /\ StackInv' /\ SectionInv' /\ ResumesIntact'
    BY <2>1, <2>3, <2>4, GoesOn
  <2>6. TypeInv'
    BY <1>2, <2>3, <2>5 DEF TypeInv
  <2> QED BY <2>5, <2>6 DEF Inv
<1>4. CASE next # current
  <2> DEFINE f == [Top EXCEPT !.at = "switched", !.live = regs]
             r == Append(Below, f)
  <2>1. f \in Frames /\ f.at = "switched" /\ f.regs = Top.regs /\ f.intr = Top.intr
    BY <1>2 DEF Frames, Places, TypeInv
  <2>2. \A b \in Frames : Leads(b, Top) => Leads(b, f)
    BY <2>1 DEF Leads
  <2>3. stack' = [stack EXCEPT ![current] = r] /\ SwitchTo(next) /\ intr' = intr
    BY <1>1, <1>4
  <2> HIDE DEF f
  <2>4. /\ r \in Seq(Frames) /\ r # <<>> /\ r[Len(r)] = f
        /\ Chained(r) /\ Grounded(r) /\ NoCritical(r)
    BY <2>1, <2>2, ReplaceTop
  <2>5. Waiting(r)
    BY <2>1, <2>4 DEF Waiting
  <2>6. /\ stack' \in [Threads -> Seq(Frames)] /\ context' \in [Threads -> RegFiles]
        /\ current' \in Threads /\ regs' \in RegFiles
        /\ StackInv' /\ SectionInv' /\ ResumesIntact'
    BY <1>4, <2>3, <2>4, <2>5, SwitchedAway
  <2>7. TypeInv'
    BY <1>2, <2>3, <2>6 DEF TypeInv
  <2> QED BY <2>6, <2>7 DEF Inv
<1> QED
  BY <1>3, <1>4

LEMMA IrqHandlerInv == Inv /\ IrqHandler => Inv'
<1> SUFFICES ASSUME Inv, IrqHandler PROVE Inv'
  OBVIOUS
<1>1. /\ TypeInv /\ Top.at = "irq" /\ UNCHANGED <<pending, gone, halted>>
      /\ inService' \in SUBSET (0 .. 15)
  BY DEF Inv, IrqHandler, At, ClearInterruptChip, TypeInv
<1>2. CASE Top.int = IRQ0
  <2>1. Schedule(Below, Top, Runnable)
    BY <1>2 DEF IrqHandler
  <2> QED BY <1>1, <2>1, ScheduleInv
<1>3. CASE Top.int # IRQ0
  <2> DEFINE f == [Top EXCEPT !.at = "return"]
             r == Append(Below, f)
  <2>1. stack' = [stack EXCEPT ![current] = r] /\ UNCHANGED <<current, regs, intr, context>>
    BY <1>3 DEF IrqHandler, cpu
  <2>2. f \in Frames /\ f.at = "return" /\ f.regs = Top.regs /\ f.intr = Top.intr
    BY CurrentStack DEF Frames, Places
  <2>3. \A b \in Frames : Leads(b, Top) => Leads(b, f)
    BY <1>1, <2>2 DEF Leads
  <2> HIDE DEF f
  <2>4. /\ r \in Seq(Frames) /\ r # <<>> /\ r[Len(r)] = f
        /\ Chained(r) /\ Grounded(r) /\ NoCritical(r)
    BY <1>1, <2>2, <2>3, ReplaceTop
  <2>5. stack' \in [Threads -> Seq(Frames)] /\ StackInv' /\ SectionInv' /\ ResumesIntact'
    BY <1>1, <2>1, <2>2, <2>4, GoesOn
  <2>6. TypeInv'
    BY <1>1, <2>1, <2>5 DEF TypeInv
  <2> QED BY <2>5, <2>6 DEF Inv
<1> QED
  BY <1>2, <1>3

LEMMA ResumeInv == Inv /\ Resume => Inv'
<1> SUFFICES ASSUME Inv, Resume PROVE Inv'
  OBVIOUS
<1> DEFINE f == [Top EXCEPT !.at = "return", !.live = NoRegs]
           r == Append(Below, f)
<1>1. /\ TypeInv /\ Top.at = "switched" /\ Top \in Frames
      /\ stack' = [stack EXCEPT ![current] = r]
      /\ intr' \in BOOLEAN
      /\ UNCHANGED <<current, regs, context, gone, pending, inService, halted>>
  BY CurrentStack DEF Inv, Resume, At, Restored, chips
<1>2. f \in Frames /\ f.at = "return" /\ f.regs = Top.regs /\ f.intr = Top.intr
  <2>1. NoRegs \in RegFiles
    BY <1>1, KernelRegs DEF TypeInv
  <2> QED BY <1>1, <2>1 DEF Frames, Places
<1>3. \A b \in Frames : Leads(b, Top) => Leads(b, f)
  BY <1>1, <1>2 DEF Leads
<1> HIDE DEF f
<1>4. /\ r \in Seq(Frames) /\ r # <<>> /\ r[Len(r)] = f
      /\ Chained(r) /\ Grounded(r) /\ NoCritical(r)
  BY <1>1, <1>2, <1>3, ReplaceTop
<1>5. stack' \in [Threads -> Seq(Frames)] /\ StackInv' /\ SectionInv' /\ ResumesIntact'
  BY <1>1, <1>2, <1>4, GoesOn
<1>6. TypeInv'
  BY <1>1, <1>5 DEF TypeInv
<1> QED
  BY <1>5, <1>6 DEF Inv

LEMMA ReturnInv == Inv /\ Return => Inv'
<1> SUFFICES ASSUME Inv, Return PROVE Inv'
  OBVIOUS
<1> DEFINE s == stack[current]
           r == Front(s)
<1>1. /\ TypeInv /\ Top.at = "return" /\ ~ halted
      /\ stack' = [stack EXCEPT ![current] = r]
      /\ regs' = Top.regs /\ intr' = Top.intr
      /\ UNCHANGED <<current, context, gone, pending, inService, halted>>
  BY DEF Inv, Return, At, Pop, chips
<1>2. /\ s \in Seq(Frames) /\ s # <<>> /\ Top = s[Len(s)] /\ Top \in Frames
      /\ Chained(s) /\ Grounded(s) /\ NoCritical(s)
  BY <1>1, CurrentStack
<1>3. /\ r \in Seq(Frames) /\ r # <<>>
      /\ Chained(r) /\ Grounded(r) /\ NoCritical(r)
      /\ Leads(r[Len(r)], Top)
  BY <1>1, <1>2, PopFrame
<1>4. stack' \in [Threads -> Seq(Frames)] /\ StackInv' /\ Top' = r[Len(r)] /\ SectionInv'
  BY <1>1, <1>3, GoesOn
<1>5. TypeInv'
  BY <1>1, <1>2, <1>4 DEF TypeInv, Frames
<1>6. ResumesIntact'
  BY <1>1, <1>3, <1>4 DEF ResumesIntact, Leads
<1> QED
  BY <1>4, <1>5, <1>6 DEF Inv

LEMMA ExitInv == Inv /\ Exit => Inv'
<1> SUFFICES ASSUME Inv, Exit PROVE Inv'
  OBVIOUS
<1> DEFINE f == Frame("switched", NoRegs, intr, NoInt, regs)
           r == <<f>>
<1>1. PICK next \in Runnable \ {current} : SwitchTo(next)
  BY DEF Exit
<1>2. /\ TypeInv /\ gone' = gone \cup {current}
      /\ stack' = [stack EXCEPT ![current] = r]
      /\ intr' = FALSE
      /\ UNCHANGED <<pending, inService, halted>>
  BY DEF Inv, Exit, chips
<1>3. f \in Frames /\ f.at = "switched"
  <2>1. NoRegs \in RegFiles /\ regs \in RegFiles /\ intr \in BOOLEAN
    BY <1>2, KernelRegs DEF TypeInv
  <2> QED BY <2>1 DEF Frame, Frames, Places, NoInt
<1> HIDE DEF f
<1>4. r \in Seq(Frames) /\ r # <<>> /\ Len(r) = 1 /\ r[1] = f
  BY <1>3
<1>5. Chained(r) /\ Waiting(r)
  BY <1>3, <1>4 DEF Chained, Waiting, NoCritical
<1>6. /\ stack' \in [Threads -> Seq(Frames)] /\ context' \in [Threads -> RegFiles]
      /\ current' \in Threads /\ regs' \in RegFiles
      /\ StackInv' /\ SectionInv' /\ ResumesIntact'
  BY <1>1, <1>2, <1>4, <1>5, SwitchedAway
<1>7. TypeInv'
  BY <1>2, <1>6 DEF TypeInv
<1> QED
  BY <1>6, <1>7 DEF Inv

-----------------------------------------------------------------------------
(* The theorems.                                                            *)

\* Whatever happens, stacks, flags and registers fit together.
THEOREM Invariance == Spec => []Inv
<1>1. ASSUME Inv, [Next]_vars PROVE Inv'
  <2>1. CASE Create
    BY <1>1, <2>1, CreateInv
  <2>2. CASE IntrStore
    BY <1>1, <2>2, IntrStoreInv
  <2>3. CASE Syscall
    BY <1>1, <2>3, SyscallInv
  <2>4. CASE Exception \/ \E line \in Lines : Raise(line)
    BY <1>1, <2>4, ExceptionRaiseInv
  <2>5. CASE Exit
    BY <1>1, <2>5, ExitInv
  <2>6. CASE SyscallHandler
    BY <1>1, <2>6, SyscallHandlerInv
  <2>7. CASE IrqHandler
    BY <1>1, <2>7, IrqHandlerInv
  <2>8. CASE Resume
    BY <1>1, <2>8, ResumeInv
  <2>9. CASE Return
    BY <1>1, <2>9, ReturnInv
  <2>10. CASE IntrRestore
    BY <1>1, <2>10, IntrRestoreInv
  <2>11. CASE \E line \in Lines : Deliver(line)
    BY <1>1, <2>11, DeliverInv
  <2>12. CASE UNCHANGED vars
    BY <1>1, <2>12
    DEF vars, Inv, TypeInv, StackInv, SectionInv, InCritical, ResumesIntact, Top
  <2> QED
    BY <1>1, <2>1, <2>2, <2>3, <2>4, <2>5, <2>6, <2>7, <2>8, <2>9, <2>10, <2>11, <2>12
    DEF Next, KernelStep
<1> QED
  BY <1>1, InitInv, PTL DEF Spec

\* Every variable has its type: what the processor runs on is registers and frames.
THEOREM TypeCorrect == Spec => []TypeInv
<1>1. Inv => TypeInv
  BY DEF Inv
<1> QED
  BY <1>1, Invariance, PTL

\* A thread that was interrupted, even many times over and with others in between,
\* goes on with its registers and with interrupts enabled (isr_s.s, switch_to.s).
THEOREM ThreadsResumeIntact == Spec => []ResumesIntact
<1>1. Inv => ResumesIntact
  BY DEF Inv
<1> QED
  BY <1>1, Invariance, PTL

\* local_intr_store keeps the processor for the thread until the outermost
\* local_intr_restore (sync.h): no step in between goes to another thread.
THEOREM CriticalSectionsHold == Spec => NeverSwitchedInCritical
<1>1. ASSUME Inv, [Next]_vars, \E i \in DOMAIN stack[current] : stack[current][i].at = "critical"
      PROVE  current' = current
  <2>1. Top.at # "irq" /\ Top.at # "body"
    <3>1. Top.at = "critical"
      BY <1>1, CurrentStack DEF InCritical
    <3> QED BY <3>1
  <2>2. ~ IrqHandler /\ ~ Exit
    BY <2>1 DEF IrqHandler, Exit, At
  <2> QED
    BY <1>1, <2>2
    DEF Next, KernelStep, Create, IntrStore, Syscall, Exception, SyscallHandler, Resume, Return,
        IntrRestore, Raise, Deliver, vars, cpu
<1>2. Inv /\ [Next]_vars
        => [(\E i \in DOMAIN stack[current] : stack[current][i].at = "critical")
                => current' = current]_vars
  BY <1>1
<1> QED
  BY <1>2, Invariance, PTL DEF Spec, NeverSwitchedInCritical
=============================================================================
