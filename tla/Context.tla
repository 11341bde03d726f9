------------------------------- MODULE Context -------------------------------
(***************************************************************************)
(* How the processor passes between threads: interrupt entry and exit      *)
(* (arch/i386/intr), the interrupt chips (driver/pic.c), system calls      *)
(* (syscall/syscall.c), critical sections (include/sync.h) and switch_to   *)
(* (task/switch_to.s).  Which runnable thread schedule picks is the        *)
(* business of module Task; here it is any.                                *)
(*                                                                         *)
(* A thread's kernel stack is a sequence of frames: what it runs at the    *)
(* bottom, then critical sections, system calls and interrupts as they     *)
(* nest.  A frame has the place the thread is at, the registers and the    *)
(* interrupt flag an interrupt pushed or, of a critical section, the flag  *)
(* it stored, the interrupt number, and live, history: what the registers  *)
(* must be when the frame runs.  The page esp points into is the current   *)
(* thread.  A value is a pair that says where it came from.                *)
(*                                                                         *)
(* A definition marked FAULT is a plausible slip in the one after it, kept *)
(* to show that a property would notice it.                                *)
(***************************************************************************)
EXTENDS Integers, FiniteSets, Sequences, SequencesExt

CONSTANTS
    Threads,
    Boot,       \* the thread that boots and never returns
    Lines,      \* the interrupt lines devices raise, in 0 .. 15
    SysNos,     \* the numbers programs call the system with
    Depth       \* how deep a program nests critical sections

\* There is a thread to boot, and the two chips have 16 lines.
ASSUME ContextAssumption == Boot \in Threads /\ Lines \subseteq 0 .. 15

VARIABLES
    current, regs, intr,  \* the processor: whose stack, registers, interrupt flag
    stack,      \* each thread's frames, <<>> before it is created
    context,    \* task_struct.context
    gone,       \* the threads that have exited
    pending,    \* the lines raised and not yet delivered
    inService,  \* the levels the master (0 .. 7) and the slave (8 .. 15) serve
    halted      \* stopped for good by an exception

vars == <<current, regs, intr, stack, context, gone, pending, inService, halted>>
cpu == <<current, regs, intr>>
chips == <<pending, inService>>

IRQ0 == 32
Cascade == 2    \* the master's level the slave is connected to

Regs == {"eax", "ebx", "ecx", "edx", "esi", "edi", "ebp"}
CalleeSaved == {"ebx", "esi", "edi", "ebp"}
Zero == <<"zero", "">>
Number(n) == <<"sysno", n>>
Scratch == <<"scratch", "">>

\* The registers C code of the kernel runs with: it preserves those a callee must.
InKernel(t, r) ==
    [q \in Regs |-> CASE q \in {"eax", "ecx", "edx"} -> Scratch
                      [] q = "ebp" -> <<t, "frame">>
                      [] OTHER -> r[q]]

Frame(at, r, flag, int, live) == [at |-> at, regs |-> r, intr |-> flag, int |-> int, live |-> live]

NoRegs == [r \in Regs |-> Zero]
NoInt == -1

Top == Last(stack[current])
At(place) == stack[current] # <<>> /\ ~ halted /\ Top.at = place
Push(frame) == stack' = [stack EXCEPT ![current] = Append(@, frame)]
Pop == stack' = [stack EXCEPT ![current] = Front(@)]
Below == Front(stack[current])

-----------------------------------------------------------------------------
\* kernel_thread: the function of the new thread in ebx, its argument in edx.
ThreadRegs(t) == [r \in Regs |-> IF r \in {"ebx", "edx"} THEN <<t, r>> ELSE Zero]

\* copy_thread: the frame of a new thread, as if it had been interrupted.
NewFrame(t) == Frame("return", [ThreadRegs(t) EXCEPT !.eax = Zero], TRUE, NoInt, NoRegs)

Body(r) == Frame("body", NoRegs, TRUE, NoInt, r)

\* The boot thread after kern_init has enabled interrupts.
BootRegs == [r \in Regs |-> <<Boot, r>>]

Init ==
    /\ current = Boot /\ regs = BootRegs /\ intr = TRUE
    /\ stack = [t \in Threads |-> IF t = Boot THEN <<Body(BootRegs)>> ELSE <<>>]
    /\ context = [t \in Threads |-> NoRegs]
    /\ gone = {}
    /\ pending = {} /\ inService = {}
    /\ halted = FALSE

-----------------------------------------------------------------------------
\* do_fork from a thread's own code.  The child starts at forkret_s, with its body
\* below the frame that leads there; kthread_entry finds what the frame holds.
Create ==
    /\ At("body")
    /\ \E t \in Threads :
        /\ stack[t] = <<>>
        /\ stack' = [stack EXCEPT ![t] = <<Body(ThreadRegs(t)), NewFrame(t)>>]
    /\ UNCHANGED <<cpu, context, gone, chips, halted>>

\* FAULT: interrupts are enabled whatever the flag says.
RestoredAlways(flag) == TRUE

\* local_intr_restore enables interrupts only if they were enabled when stored.
Restored(flag) == flag \/ intr

\* local_intr_store.  An interrupt between reading the flag and clearing it finds
\* and leaves the flag set.
IntrStore ==
    /\ At("body") \/ At("critical")
    /\ Len(SelectSeq(stack[current], LAMBDA f : f.at = "critical")) < Depth
    /\ Push(Frame("critical", NoRegs, intr, NoInt, regs))
    /\ intr' = FALSE
    /\ UNCHANGED <<current, regs, context, gone, chips, halted>>

IntrRestore ==
    /\ At("critical")
    /\ intr' = Restored(Top.intr)
    /\ Pop
    /\ UNCHANGED <<current, regs, context, gone, chips, halted>>

-----------------------------------------------------------------------------
\* The interrupt flag behind the gates of idt_init: the one for system calls alone
\* leaves it as it is.
Gate(int) == int = 128 /\ intr

\* What the functions of vfs.c answer, all of them stubs: the descriptor or 0.
VfsResult(n, r) ==
    CASE n = "open" -> Zero
      [] n = "close" -> r.ebx
      [] n \in {"read", "write"} -> IF Zero \in {r.ecx, r.edx} THEN Zero ELSE r.ebx

\* What a system call answers.  A number out of range leaves eax alone.
Result(n, r) ==
    CASE n \in {"test", "exit", "fork", "getpid"} -> r.ebx
      [] n \in {"open", "close", "read", "write"} -> VfsResult(n, r)
      [] OTHER -> r.eax

\* int 0x80.
Syscall == \E n \in SysNos :
    LET called == [regs EXCEPT !.eax = Number(n)]
    IN  /\ At("body")
        /\ stack' = [stack EXCEPT ![current] =
                        <<Body([called EXCEPT !.eax = Result(n, called)]),
                          Frame("syscall", called, intr, 128, InKernel(current, called))>>]
        /\ regs' = InKernel(current, called)
        /\ intr' = Gate(128)
        /\ UNCHANGED <<current, context, gone, chips, halted>>

\* FAULT: the result stays in the register, which popa overwrites.
SyscallHandlerUnstored ==
    /\ At("syscall")
    /\ regs' = [regs EXCEPT !.eax = Result(Top.regs.eax[2], Top.regs)]
    /\ stack' = [stack EXCEPT ![current] = Append(Below, [Top EXCEPT !.at = "return"])]
    /\ UNCHANGED <<current, intr, context, gone, chips, halted>>

\* syscall_handler, which can be interrupted, puts the result in the frame.
SyscallHandler ==
    /\ At("syscall")
    /\ stack' = [stack EXCEPT ![current] =
                    Append(Below, [Top EXCEPT !.at = "return",
                                              !.regs.eax = Result(Top.regs.eax[2], Top.regs)])]
    /\ UNCHANGED <<cpu, context, gone, chips, halted>>

PageFault == 14

\* An exception in a thread's code or a system call: do_page_fault, and isr_handler
\* when none is registered, halt with interrupts disabled, for good.
Exception ==
    /\ At("body") \/ At("critical") \/ At("syscall")
    /\ intr' = Gate(PageFault)
    /\ halted' = TRUE
    /\ UNCHANGED <<current, regs, stack, context, gone, chips>>

-----------------------------------------------------------------------------
\* The levels of the chip that line is connected to.
Chip(line) == IF line < 8 THEN 0 .. 7 ELSE 8 .. 15

\* A line gets through when its chip serves no level of its priority or above, and
\* the slave's lines when the master serves none of the cascade's or above.
Passes(line) ==
    /\ \A s \in inService \cap Chip(line) : line < s
    /\ line >= 8 => \A s \in inService \cap (0 .. 7) : Cascade < s

\* Of two lines that get through the master's order decides, then the slave's.
Level(line) == IF line < 8 THEN 16 * line ELSE 16 * Cascade + line

\* The processor takes an interrupt; the stub pushes all registers and the number
\* init_interrupt_chip has given the line.
Deliver(line) ==
    /\ At("body") \/ At("critical") \/ At("syscall") \/ At("return")
    /\ intr
    /\ line \in pending /\ Passes(line)
    /\ \A l \in pending : Passes(l) => Level(line) <= Level(l)
    /\ pending' = pending \ {line}
    /\ inService' = inService \cup {line} \cup (IF line < 8 THEN {} ELSE {Cascade})
    /\ Push(Frame("irq", regs, intr, IRQ0 + line, NoRegs))
    /\ regs' = InKernel(current, regs)
    /\ intr' = Gate(IRQ0 + line)
    /\ UNCHANGED <<current, context, gone, halted>>

\* A device raises its line.  Devices are slow: none does while a handler runs.
Raise(line) ==
    /\ At("body") \/ At("critical") \/ At("syscall")
    /\ line \notin pending
    /\ pending' = pending \cup {line}
    /\ UNCHANGED <<cpu, stack, context, gone, inService, halted>>

Highest(levels) == {s \in levels : \A r \in levels : s <= r}

\* clear_interrupt_chip: the end of the interrupt, to the slave for its lines and
\* always to the master, each of which forgets its highest level in service.
ClearInterruptChip(int_no) ==
    inService \ (Highest(inService \cap (0 .. 7))
                    \cup IF int_no >= 40 THEN Highest(inService \cap (8 .. 15)) ELSE {})

\* switch_to: the frames are what the saved eip and esp lead back to; ebp is
\* stored in the place of ebx as well.
SwitchTo(next) ==
    /\ context' = [context EXCEPT ![current] = [regs EXCEPT !.ebx = regs.ebp]]
    /\ current' = next
    /\ regs' = [context[next] EXCEPT !.eax = Scratch]

Runnable == {t \in Threads \ gone : stack[t] # <<>>}

\* schedule and task_run, called with the flag given: the thread waits in task_run,
\* or goes on at once when it is picked again.
Schedule(below, frame, picked) ==
    \E next \in picked :
        IF next = current
        THEN /\ stack' = [stack EXCEPT ![current] = Append(below, [frame EXCEPT !.at = "return"])]
             /\ UNCHANGED <<cpu, context>>
        ELSE /\ stack' = [stack EXCEPT ![current] =
                            Append(below, [frame EXCEPT !.at = "switched", !.live = regs])]
             /\ SwitchTo(next)
             /\ UNCHANGED intr

\* FAULT: the chip is told of all interrupts but the clock's, whose handler may
\* switch away first.
IrqHandlerClearsLast ==
    /\ At("irq")
    /\ IF Top.int = IRQ0
       THEN Schedule(Below, Top, Runnable) /\ UNCHANGED inService
       ELSE /\ stack' = [stack EXCEPT ![current] = Append(Below, [Top EXCEPT !.at = "return"])]
            /\ inService' = ClearInterruptChip(Top.int)
            /\ UNCHANGED <<cpu, context>>
    /\ UNCHANGED <<pending, gone, halted>>

\* irq_handler tells the chip before it calls the handler, of which only the
\* clock's touches what is modelled here.
IrqHandler ==
    /\ At("irq")
    /\ inService' = ClearInterruptChip(Top.int)
    /\ IF Top.int = IRQ0
       THEN Schedule(Below, Top, Runnable)
       ELSE /\ stack' = [stack EXCEPT ![current] = Append(Below, [Top EXCEPT !.at = "return"])]
            /\ UNCHANGED <<cpu, context>>
    /\ UNCHANGED <<pending, gone, halted>>

\* Back in task_run and schedule, which restore flags that were clear: the clock's
\* handler called them.
Resume ==
    /\ At("switched")
    /\ intr' = Restored(FALSE)
    /\ stack' = [stack EXCEPT ![current] = Append(Below, [Top EXCEPT !.at = "return", !.live = NoRegs])]
    /\ UNCHANGED <<current, regs, context, gone, chips, halted>>

\* The end of the stubs, forkret_s: popa and iret.
Return ==
    /\ At("return")
    /\ regs' = Top.regs
    /\ intr' = Top.intr
    /\ Pop
    /\ UNCHANGED <<current, context, gone, chips, halted>>

\* kthread_entry calls do_exit when a thread's function returns; cpu_idle schedules.
Exit ==
    /\ At("body") /\ current # Boot /\ Len(stack[current]) = 1
    /\ gone' = gone \cup {current}
    /\ stack' = [stack EXCEPT ![current] = <<Frame("switched", NoRegs, intr, NoInt, regs)>>]
    /\ intr' = FALSE
    /\ \E next \in Runnable \ {current} : SwitchTo(next)
    /\ UNCHANGED <<chips, halted>>

KernelStep == SyscallHandler \/ IrqHandler \/ Resume \/ Return \/ IntrRestore

Next ==
    \/ Create \/ IntrStore \/ Syscall \/ Exception \/ Exit
    \/ KernelStep
    \/ \E line \in Lines : Raise(line) \/ Deliver(line)

Spec == Init /\ [][Next]_vars

(***************************************************************************)
(* The kernel's own code goes on and its critical sections end; with the   *)
(* flag set the processor takes an interrupt that gets through, although   *)
(* devices with a higher priority may come first now and then.  Nothing is *)
(* assumed of devices and programs.                                        *)
(***************************************************************************)
Fairness ==
    /\ WF_vars(KernelStep)
    /\ SF_vars(IntrRestore /\ Len(stack[current]) = 2)
    /\ \A line \in Lines : SF_vars(Deliver(line))

FairSpec == Spec /\ Fairness

-----------------------------------------------------------------------------
\* Whatever interrupts a thread and whichever threads run meanwhile, it goes on
\* with the registers it had, but for the answer of a system call, and its own code
\* with interrupts enabled; a new thread finds its function and its argument, as
\* kthread_entry (entry.s:10-14) expects.  switch_to loses a register on the way:
\* every switch that returns is made inside an interrupt, whose frame has it.
ResumesIntact ==
    ~ halted =>
        /\ Top.at \in {"body", "critical", "syscall"} => regs = Top.live
        /\ Top.at = "body" => intr

\* A thread between local_intr_store and local_intr_restore keeps the processor,
\* also when such a section has another inside.
NeverSwitchedInCritical ==
    [][(\E i \in DOMAIN stack[current] : stack[current][i].at = "critical")
            => current' = current]_vars

\* Every interrupt a device raises is delivered, unless an exception stops the
\* kernel: no line is left in service when the clock's handler switches to a thread
\* that comes back by another way, and no thread is left with interrupts disabled.
LinesServed ==
    \A line \in Lines : (line \in pending) ~> (line \notin pending \/ halted)

-----------------------------------------------------------------------------
\* What task.h:42 says of the context ("save the registers the x86 convention makes
\* the callee save"): after switch_to they are what they were.
SwitchKeepsSaved ==
    Top.at = "switched" => \A r \in CalleeSaved : regs[r] = Top.live[r]
=============================================================================
