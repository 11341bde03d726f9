-------------------------------- MODULE Task --------------------------------
(***************************************************************************)
(* Kernel threads of Hurlex-II: creation (do_fork), exit (do_exit), the    *)
(* round-robin scheduler (schedule) and pre-emption by the clock, from     *)
(* arch/i386/task/task.c and kernel/sched/sched.c.                         *)
(*                                                                         *)
(* There is one CPU.  A section between local_intr_store and               *)
(* local_intr_restore runs with IF = 0 and is one atomic step; everywhere  *)
(* else the clock interrupt may pre-empt the thread, so a kernel call that *)
(* is not inside one such section is one action per interruptible piece.   *)
(*                                                                         *)
(* A task is identified with the page that holds its task_struct and its   *)
(* stack: current is derived from esp (task.c:125), so "the running task"  *)
(* and "the page esp points into" are the same thing.                      *)
(*                                                                         *)
(* Definitions marked FAULT are not part of the model: each is a plausible *)
(* slip in the definition after it, kept to show that some property below  *)
(* would notice it.                                                        *)
(***************************************************************************)
EXTENDS Integers, FiniteSets, Sequences, SequencesExt

CONSTANTS
    Tasks,      \* the pages that can hold a task_struct, kern_stack included
    Idle,       \* glb_idle_task: the task_struct at kern_stack
    NULL,       \* no task
    MAX_TASK    \* limit on the number of tasks (task.h:55)

ASSUME TasksAssumption ==
    /\ IsFiniteSet(Tasks)
    /\ Idle \in Tasks
    /\ NULL \notin Tasks

ASSUME MaxTaskAssumption == MAX_TASK \in Nat /\ MAX_TASK >= 2

\* FAULT: a pid bitmap with no more bits than there may be tasks.
OnePidPerTask == MAX_TASK

MAX_PID == 2 * MAX_TASK

Pids == 0 .. MAX_PID - 1

E_NO_FREE_PROC == 5

VARIABLES
    state,          \* task_struct.state, "FREE" for a page that holds no task
    pid,            \* task_struct.pid
    need_resched,   \* task_struct.need_resched
    task_list,      \* the tasks linked on task_list, from the head
    nr_task,        \* number of tasks
    pid_map,        \* glb_pid_map: the pids whose bit is set
    current,        \* the task esp is in
    pc,             \* where each task is in the kernel
    child,          \* the local "task" of a do_fork in progress
    ret             \* what the last do_fork of a task returned

vars == <<state, pid, need_resched, task_list, nr_task, pid_map, current, pc,
          child, ret>>

States == {"FREE", "UNINIT", "RUNNABLE", "ZOMBIE"}

(***************************************************************************)
(* pc[t] = "body": in the thread's own function, no kernel call pending.   *)
(* "checked", "allocated", "linked": inside do_fork, after the test of     *)
(* nr_task, after alloc_task_struct, after the critical section; "woken":  *)
(* after wakeup_task, the child's pid not yet read.                        *)
(* "panic": halted for ever in panic.  "exiting": in do_exit after its     *)
(* critical section.  "returned": do_exit has returned to kthread_entry,   *)
(* which has no code after the call.                                       *)
(***************************************************************************)
PCs == {"body", "checked", "allocated", "linked", "woken", "panic", "exiting", "returned"}

Linked == ToSet(task_list)

Live == {t \in Linked : state[t] # "ZOMBIE"}

----------------------------------------------------------------------------
(* Helpers of the kernel.                                                   *)

\* The lowest pid whose bit is clear, -1 when every bit is set.
AllocPid == IF Pids \subseteq pid_map THEN -1 ELSE Min(Pids \ pid_map)

\* FAULT: the guard of free_pid one too high.
FreePidAboveOne(p) == IF p <= 1 \/ p > MAX_PID THEN pid_map ELSE pid_map \ {p}

\* The bitmap after free_pid(p).
FreePid(p) == IF p < 0 \/ p > MAX_PID THEN pid_map ELSE pid_map \ {p}

\* FAULT: the last task on the list with this pid.
FindTaskLast(p) ==
    LET at == {i \in DOMAIN task_list : pid[task_list[i]] = p}
    IN  IF p <= 0 \/ p >= MAX_PID \/ at = {} THEN NULL ELSE task_list[Max(at)]

\* FAULT: exited tasks are passed over.
FindTaskNotExited(p) ==
    LET at == {i \in DOMAIN task_list :
                  pid[task_list[i]] = p /\ state[task_list[i]] # "ZOMBIE"}
    IN  IF p <= 0 \/ p >= MAX_PID \/ at = {} THEN NULL ELSE task_list[Min(at)]

\* The first task on the list with this pid, none for pid 0.
FindTask(p) ==
    LET at == {i \in DOMAIN task_list : pid[task_list[i]] = p}
    IN  IF p <= 0 \/ p >= MAX_PID \/ at = {} THEN NULL ELSE task_list[Min(at)]

\* FAULT: every scan starts at the head.
ScanFromHead == task_list

\* The order in which schedule() looks at tasks: the whole list from its head
\* when the idle task is running, otherwise the list after the running task
\* and then, past the list head, up to the running task.
ScanOrder ==
    IF current = Idle
    THEN task_list
    ELSE LET i == CHOOSE j \in DOMAIN task_list : task_list[j] = current
         IN  SubSeq(task_list, i + 1, Len(task_list)) \o SubSeq(task_list, 1, i - 1)

\* The first task of the scan in one of these states, else the idle task.
FirstIn(states) ==
    LET fit == {i \in DOMAIN ScanOrder : state[ScanOrder[i]] \in states}
    IN  IF fit = {} THEN Idle ELSE ScanOrder[Min(fit)]

\* FAULT: only tasks that were never woken are passed over.
TaskNextExited == FirstIn({"RUNNABLE", "ZOMBIE"})

\* The task schedule() runs next.
TaskNext == FirstIn({"RUNNABLE"})

----------------------------------------------------------------------------
\* The state task_init leaves: the idle task alone, holding the first pid.
Init ==
    /\ state = [t \in Tasks |-> IF t = Idle THEN "RUNNABLE" ELSE "FREE"]
    /\ pid = [t \in Tasks |-> IF t = Idle THEN 0 ELSE -1]
    /\ need_resched = [t \in Tasks |-> t = Idle]
    /\ task_list = <<Idle>>
    /\ nr_task = 1
    /\ pid_map = {0}
    /\ current = Idle
    /\ pc = [t \in Tasks |-> "body"]
    /\ child = [t \in Tasks |-> NULL]
    /\ ret = [t \in Tasks |-> 0]

\* do_fork, the test of the task limit, made with interrupts enabled.
ForkCheck(t) ==
    /\ current = t
    /\ pc[t] = "body"
    /\ IF nr_task >= MAX_TASK
       THEN /\ ret' = [ret EXCEPT ![t] = -E_NO_FREE_PROC]
            /\ UNCHANGED pc
       ELSE /\ pc' = [pc EXCEPT ![t] = "checked"]
            /\ UNCHANGED ret
    /\ UNCHANGED <<state, pid, need_resched, task_list, nr_task, pid_map, current, child>>

\* do_fork, alloc_task_struct and copy_thread: a free page becomes a task that
\* is not yet initialised.  copy_mm always succeeds (kernel_thread sets
\* CLONE_VM), so its error path is not reachable.
ForkAlloc(t) ==
    /\ current = t
    /\ pc[t] = "checked"
    /\ \E c \in Tasks :
          /\ state[c] = "FREE"
          /\ state' = [state EXCEPT ![c] = "UNINIT"]
          /\ pid' = [pid EXCEPT ![c] = -1]
          /\ need_resched' = [need_resched EXCEPT ![c] = FALSE]
          /\ child' = [child EXCEPT ![t] = c]
    /\ pc' = [pc EXCEPT ![t] = "allocated"]
    /\ UNCHANGED <<task_list, nr_task, pid_map, current, ret>>

\* alloc_task_struct with no page left: the assertion panics, which stops this
\* thread for ever but leaves interrupts as they are.
ForkNoPage(t) ==
    /\ current = t
    /\ pc[t] = "checked"
    /\ \A c \in Tasks : state[c] # "FREE"
    /\ pc' = [pc EXCEPT ![t] = "panic"]
    /\ UNCHANGED <<state, pid, need_resched, task_list, nr_task, pid_map, current, child, ret>>

\* do_fork, the critical section: the task gets a pid and joins the list.
ForkLink(t) ==
    /\ current = t
    /\ pc[t] = "allocated"
    /\ pid' = [pid EXCEPT ![child[t]] = AllocPid]
    /\ pid_map' = pid_map \cup ({AllocPid} \cap Pids)
    /\ task_list' = <<child[t]>> \o task_list
    /\ nr_task' = nr_task + 1
    /\ pc' = [pc EXCEPT ![t] = "linked"]
    /\ UNCHANGED <<state, need_resched, current, child, ret>>

\* do_fork, wakeup_task.
ForkWakeup(t) ==
    /\ current = t
    /\ pc[t] = "linked"
    /\ state' = IF state[child[t]] # "ZOMBIE"
                THEN [state EXCEPT ![child[t]] = "RUNNABLE"]
                ELSE state
    /\ pc' = [pc EXCEPT ![t] = "woken"]
    /\ UNCHANGED <<pid, need_resched, task_list, nr_task, pid_map, current, child, ret>>

\* do_fork returns the pid it reads in the child's task_struct: the child may
\* have run since it was woken, and have exited.
ForkReturn(t) ==
    /\ current = t
    /\ pc[t] = "woken"
    /\ ret' = [ret EXCEPT ![t] = pid[child[t]]]
    /\ child' = [child EXCEPT ![t] = NULL]
    /\ pc' = [pc EXCEPT ![t] = "body"]
    /\ UNCHANGED <<state, pid, need_resched, task_list, nr_task, pid_map, current>>

\* The thread's function returns and kthread_entry calls do_exit, whose
\* critical section this is.  The idle task's function, kern_init, never
\* returns.
DoExit(t) ==
    /\ current = t
    /\ t # Idle
    /\ pc[t] = "body"
    /\ state' = [state EXCEPT ![t] = "ZOMBIE"]
    /\ need_resched' = [need_resched EXCEPT ![t] = TRUE]
    /\ nr_task' = nr_task - 1
    /\ pid_map' = FreePid(pid[t])
    /\ pc' = [pc EXCEPT ![t] = "exiting"]
    /\ UNCHANGED <<pid, task_list, current, child, ret>>

\* schedule(): interrupts are off from the scan to the switch.
Schedule ==
    /\ need_resched' = [need_resched EXCEPT ![current] = FALSE]
    /\ current' = TaskNext

\* cpu_idle, called at the end of do_exit: when no rescheduling is wanted it
\* returns, and so does do_exit.
CpuIdle(t) ==
    /\ current = t
    /\ pc[t] = "exiting"
    /\ IF need_resched[t]
       THEN Schedule /\ UNCHANGED pc
       ELSE pc' = [pc EXCEPT ![t] = "returned"] /\ UNCHANGED <<need_resched, current>>
    /\ UNCHANGED <<state, pid, task_list, nr_task, pid_map, child, ret>>

\* clock_callback: the timer interrupt pre-empts whatever runs with IF = 1.
ClockTick ==
    /\ Schedule
    /\ UNCHANGED <<state, pid, task_list, nr_task, pid_map, pc, child, ret>>

\* The next instructions of thread t.
Step(t) ==
    \/ ForkCheck(t)
    \/ ForkAlloc(t)
    \/ ForkNoPage(t)
    \/ ForkLink(t)
    \/ ForkWakeup(t)
    \/ ForkReturn(t)
    \/ DoExit(t)
    \/ CpuIdle(t)

Next == ClockTick \/ \E t \in Tasks : Step(t)

Spec == Init /\ [][Next]_vars

\* do_fork and do_exit run to their end once begun.
Continue(t) ==
    \/ ForkAlloc(t)
    \/ ForkNoPage(t)
    \/ ForkLink(t)
    \/ ForkWakeup(t)
    \/ ForkReturn(t)
    \/ CpuIdle(t)

(***************************************************************************)
(* The 8253 raises IRQ0 100 times a second and no section runs with IF = 0 *)
(* for ever: the clock is weakly fair.  A tick lasts for many instructions *)
(* of the thread it dispatches, so a kernel call in progress advances when *)
(* its thread runs again and again: strong fairness.  Nothing is assumed   *)
(* of the threads' functions: they need never call the kernel or return.   *)
(***************************************************************************)
Fairness ==
    /\ WF_vars(ClockTick)
    /\ \A t \in Tasks : SF_vars(Continue(t))

FairSpec == Spec /\ Fairness

----------------------------------------------------------------------------
\* Type correctness: every variable of task.c and every task_struct field holds
\* values of its type.
TypeInv ==
    /\ state \in [Tasks -> States]
    /\ pid \in [Tasks -> Pids \cup {-1}]
    /\ need_resched \in [Tasks -> BOOLEAN]
    /\ task_list \in Seq(Tasks)
    /\ nr_task \in Nat
    /\ pid_map \in SUBSET Pids
    /\ current \in Tasks
    /\ pc \in [Tasks -> PCs]
    /\ child \in [Tasks -> Tasks \cup {NULL}]
    /\ ret \in [Tasks -> Int]

\* Two tasks that have not exited never share a pid, although pids of exited
\* tasks are handed out again while those tasks are still on task_list.
PidUnique ==
    \A t, u \in Live : pid[t] = pid[u] => t = u

\* The bookkeeping of do_fork and do_exit agrees: nr_task counts the tasks
\* that have not exited and glb_pid_map holds exactly their pids.
Bookkeeping ==
    /\ nr_task = Cardinality(Live)
    /\ pid_map = {pid[t] : t \in Live}

\* alloc_pid never fails.  The limit test of do_fork is made outside the
\* critical section and MAX_TASK can be overrun, but never by so much that the
\* 2 * MAX_TASK pids run out, so no task is ever linked with pid -1.
PidNeverExhausted ==
    \A t \in Linked : pid[t] # -1

\* find_task(pid) yields the task that now owns the pid, never an exited task
\* that owned it before: do_fork links at the head of the list it searches.
FindTaskFindsLive ==
    \A t \in Live \ {Idle} : FindTask(pid[t]) = t

\* find_task applied to a pid do_fork has returned never yields NULL, whatever
\* the child did meanwhile: kern_init writes through it unchecked (kmain.c:97).
ReturnedPidFound ==
    \A t \in Tasks : ret[t] > 0 => FindTask(ret[t]) # NULL

\* do_exit never comes back to kthread_entry, which has no code after the call:
\* when an exiting task gets the CPU it still wants to be rescheduled.
ExitNeverReturns ==
    \A t \in Tasks : pc[t] # "returned"

\* schedule never dispatches a task that has exited, nor one that do_fork has
\* not finished: a task that gets the CPU is runnable.
DispatchesRunnable ==
    [][current' # current => state[current'] = "RUNNABLE"]_vars

\* Round robin starves nobody: a runnable task gets the CPU, and so does the thread
\* a do_fork creates, although its creator can be pre-empted between allocating it,
\* linking it and waking it up.
RunnableRuns ==
    \A t \in Tasks : (state[t] \in {"UNINIT", "RUNNABLE"}) ~> (current = t)
=============================================================================
