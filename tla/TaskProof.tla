----------------------------- MODULE TaskProof -----------------------------
(***************************************************************************)
(* Proofs about Task, for every set of pages and every MAX_TASK.           *)
(*                                                                         *)
(* The inductive invariant adds to the properties of Task what they        *)
(* silently rely on: which tasks are linked in which state (StateInv),     *)
(* what a do_fork in progress owns (ForkInv), who may be running           *)
(* (CurrentInv), which of several tasks with one pid may be alive          *)
(* (PidInv), and how far MAX_TASK can be overrun (CountInv).               *)
(***************************************************************************)
EXTENDS Task, SequenceTheorems, WellFoundedInduction, FiniteSetTheorems, TLAPS

\* A non-empty set of naturals has the least element Min picks: what the
\* kernel's "first index such that" loops compute.
LEMMA MinOfNats ==
    ASSUME NEW S \in SUBSET Nat, S # {}
    PROVE  /\ Min(S) \in S
           /\ \A x \in S : Min(S) <= x
<1> DEFINE R == OpToRel(<, Nat)
<1>1. IsWellFoundedOn(R, Nat)
  BY NatLessThanWellFounded
<1>2. \A x, y \in Nat : x < y => <<x, y>> \in R
  BY DEF OpToRel
<1> HIDE DEF R
<1>3. PICK m \in S : \A y \in S : ~ (<<y, m>> \in R)
  BY <1>1, WFMin
<1>4. ASSUME NEW y \in S PROVE m <= y
  <2>1. m \in Nat /\ y \in Nat
    OBVIOUS
  <2>2. ~ (y < m)
    BY <1>2, <1>3, <2>1
  <2> QED BY <2>1, <2>2
<1> QED
  BY <1>4 DEF Min

\* Linking at the head of a list (list_add): the new element is first, the
\* others keep their order.
LEMMA Prepend ==
    ASSUME NEW S, NEW s \in Seq(S), NEW c \in S
    PROVE  /\ <<c>> \o s \in Seq(S)
           /\ DOMAIN (<<c>> \o s) = 1 .. Len(s) + 1
           /\ (<<c>> \o s)[1] = c
           /\ \A i \in 2 .. Len(s) + 1 : (<<c>> \o s)[i] = s[i - 1]
           /\ ToSet(<<c>> \o s) = ToSet(s) \cup {c}
<1> DEFINE r == <<c>> \o s
<1>1. <<c>> \in Seq(S) /\ Len(<<c>>) = 1 /\ <<c>>[1] = c
  OBVIOUS
<1>2. /\ r \in Seq(S)
      /\ Len(r) = Len(s) + 1
      /\ \A i \in 1 .. 1 + Len(s) : r[i] = IF i <= 1 THEN <<c>>[i] ELSE s[i - 1]
  BY <1>1, ConcatProperties
<1>3. Len(s) \in Nat /\ DOMAIN s = 1 .. Len(s) /\ DOMAIN r = 1 .. Len(r)
  BY <1>2, LenProperties
<1>4. ToSet(r) = ToSet(s) \cup {c}
  <2> USE DEF ToSet
  <2>1. ASSUME NEW x \in ToSet(r) PROVE x \in ToSet(s) \cup {c}
    <3>1. PICK i \in 1 .. Len(s) + 1 : x = r[i]
      BY <1>2, <1>3
    <3>2. CASE i = 1
      BY <3>1, <3>2, <1>1, <1>2
    <3>3. CASE i # 1
      <4>1. i - 1 \in DOMAIN s /\ x = s[i - 1]
        BY <3>1, <3>3, <1>2, <1>3
      <4> QED BY <4>1
    <3> QED BY <3>2, <3>3
  <2>2. c \in ToSet(r)
    <3>1. 1 \in DOMAIN r /\ r[1] = c
      BY <1>1, <1>2, <1>3
    <3> QED BY <3>1
  <2>3. ASSUME NEW x \in ToSet(s) PROVE x \in ToSet(r)
    <3>1. PICK i \in DOMAIN s : x = s[i]
      OBVIOUS
    <3>2. i + 1 \in DOMAIN r /\ r[i + 1] = x
      BY <3>1, <1>2, <1>3
    <3> QED BY <3>2
  <2> QED BY <2>1, <2>2, <2>3
<1> QED
  BY <1>1, <1>2, <1>3, <1>4

-----------------------------------------------------------------------------
(* The inductive invariant.                                                 *)

\* Tasks that have passed the limit test of do_fork and not yet been counted.
Forkers == {t \in Tasks : pc[t] \in {"checked", "allocated"}}

StateInv ==
    /\ \A t \in Linked : state[t] # "FREE"
    /\ \A t \in Tasks : state[t] \in {"RUNNABLE", "ZOMBIE"} => t \in Linked
    /\ state[Idle] = "RUNNABLE"
    /\ pid[Idle] = 0

ForkInv ==
    /\ \A t \in Tasks : pc[t] \in {"checked", "allocated", "linked"} => state[t] = "RUNNABLE"
    /\ \A t \in Tasks : pc[t] = "allocated" => child[t] \in Tasks \ Linked
    /\ \A t \in Tasks : pc[t] \in {"linked", "woken"} => child[t] \in Linked
    /\ \A t \in Tasks : pc[t] \in {"allocated", "linked"} => state[child[t]] = "UNINIT"
    /\ \A t, u \in Tasks :
          /\ pc[t] \in {"allocated", "linked"}
          /\ pc[u] \in {"allocated", "linked"}
          /\ child[t] = child[u]
          => t = u

CurrentInv ==
    /\ \A t \in Tasks : pc[t] = "exiting" => state[t] = "ZOMBIE"
    /\ state[current] = "RUNNABLE" \/ (pc[current] = "exiting" /\ need_resched[current])
    /\ ExitNeverReturns

\* Of the tasks on the list that carry one pid, only the first may be alive.
PidInv ==
    /\ \A t \in Linked : pid[t] \in Pids
    /\ \A i, j \in DOMAIN task_list :
          i < j /\ pid[task_list[i]] = pid[task_list[j]] => state[task_list[j]] = "ZOMBIE"
    /\ \A t \in Tasks : ret[t] > 0 => \E u \in Linked : pid[u] = ret[t]

\* Every task past the limit test found nr_task < MAX_TASK and is itself
\* counted in nr_task, so the tasks and those about to be added stay below
\* 2 * MAX_TASK - 1.
CountInv ==
    /\ Bookkeeping
    /\ Cardinality(pid_map) = nr_task
    /\ nr_task + Cardinality(Forkers) <= MAX_PID - 2

IInv == TypeInv /\ StateInv /\ ForkInv /\ CurrentInv /\ PidInv /\ CountInv

----------------------------------------------------------------------------
(* Facts about the helpers.                                                 *)

\* A task on the list is found at some position of it.
LEMMA LinkedPositions ==
    ASSUME TypeInv
    PROVE  /\ Linked \subseteq Tasks
           /\ DOMAIN task_list \subseteq Nat
           /\ \A t \in Linked : \E i \in DOMAIN task_list : task_list[i] = t
           /\ \A i \in DOMAIN task_list : task_list[i] \in Linked
<1>1. DOMAIN task_list = 1 .. Len(task_list) /\ Len(task_list) \in Nat
  BY LenProperties DEF TypeInv
<1>2. \A i \in DOMAIN task_list : task_list[i] \in Tasks
  BY <1>1, ElementOfSeq DEF TypeInv
<1> QED
  BY <1>1, <1>2 DEF Linked, ToSet

\* schedule() scans tasks only, and picks a runnable one: the idle task, which
\* it falls back on, is always runnable.
LEMMA TaskNextRunnable ==
    ASSUME TypeInv, StateInv, current \in Linked
    PROVE  TaskNext \in Tasks /\ state[TaskNext] = "RUNNABLE"
<1>1. ScanOrder \in Seq(Tasks)
  <2>1. CASE current = Idle
    BY <2>1 DEF ScanOrder, TypeInv
  <2>2. CASE current # Idle
    <3> DEFINE i == CHOOSE j \in DOMAIN task_list : task_list[j] = current
    <3>1. i \in DOMAIN task_list
      BY LinkedPositions
    <3>2. /\ Len(task_list) \in Nat
          /\ DOMAIN task_list = 1 .. Len(task_list)
          /\ \A k \in 1 .. Len(task_list) : task_list[k] \in Tasks
      BY LenProperties, ElementOfSeq DEF TypeInv
    <3> HIDE DEF i
    <3>3. SubSeq(task_list, i + 1, Len(task_list)) \in Seq(Tasks)
      <4>1. i + 1 \in Int /\ Len(task_list) \in Int
        BY <3>1, <3>2
      <4>2. \A k \in i + 1 .. Len(task_list) : task_list[k] \in Tasks
        BY <3>1, <3>2
      <4> QED BY <4>1, <4>2, SubSeqProperties
    <3>4. SubSeq(task_list, 1, i - 1) \in Seq(Tasks)
      <4>1. 1 \in Int /\ i - 1 \in Int
        BY <3>1, <3>2
      <4>2. \A k \in 1 .. i - 1 : task_list[k] \in Tasks
        BY <3>1, <3>2
      <4> QED BY <4>1, <4>2, SubSeqProperties
    <3> QED
      BY <2>2, <3>3, <3>4, ConcatProperties DEF ScanOrder, i
  <2> QED BY <2>1, <2>2
<1> DEFINE runnable == {i \in DOMAIN ScanOrder : state[ScanOrder[i]] \in {"RUNNABLE"}}
<1>2. CASE runnable = {}
  BY <1>2, TasksAssumption DEF TaskNext, FirstIn, StateInv
<1>3. CASE runnable # {}
  <2>1. DOMAIN ScanOrder \subseteq Nat /\ \A i \in DOMAIN ScanOrder : ScanOrder[i] \in Tasks
    BY <1>1, LenProperties, ElementOfSeq
  <2>2. Min(runnable) \in runnable
    BY <1>3, <2>1, MinOfNats
  <2> HIDE DEF runnable
  <2>3. TaskNext = ScanOrder[Min(runnable)]
    BY <1>3 DEF TaskNext, FirstIn, runnable
  <2> QED
    BY <2>1, <2>2, <2>3 DEF runnable
<1> QED
  BY <1>2, <1>3

\* alloc_pid yields a pid whose bit is clear whenever a bit is clear.
LEMMA AllocPidFresh ==
    ASSUME ~ (Pids \subseteq pid_map)
    PROVE  AllocPid \in Pids \ pid_map
<1>1. Pids \ pid_map \in SUBSET Nat /\ Pids \ pid_map # {}
  BY MaxTaskAssumption DEF Pids, MAX_PID
<1> QED
  BY <1>1, MinOfNats DEF AllocPid

\* The bitmap is finite: its size can be counted.
LEMMA FiniteParts ==
    ASSUME TypeInv
    PROVE  /\ IsFiniteSet(pid_map) /\ IsFiniteSet(Pids)
           /\ IsFiniteSet(Live) /\ IsFiniteSet(Forkers)
           /\ Cardinality(Pids) = MAX_PID
           /\ MAX_PID \in Nat
<1>1. MAX_PID \in Nat /\ MAX_PID >= 4
  BY MaxTaskAssumption DEF MAX_PID
<1>2. IsFiniteSet(Pids) /\ Cardinality(Pids) = MAX_PID
  BY <1>1, FS_Interval DEF Pids
<1>3. Live \subseteq Tasks /\ Forkers \subseteq Tasks
  BY LinkedPositions DEF Live, Forkers
<1> QED
  BY <1>1, <1>2, <1>3, FS_Subset, TasksAssumption DEF TypeInv

----------------------------------------------------------------------------
(* The inductive invariant holds initially ...                              *)

LEMMA InitIInv == Init => IInv
<1> SUFFICES ASSUME Init PROVE IInv
  OBVIOUS
<1> USE DEF Init
<1>1. DOMAIN task_list = {1} /\ task_list[1] = Idle /\ Linked = {Idle}
  BY DEF Linked, ToSet
<1>2. Live = {Idle} /\ Forkers = {}
  BY <1>1, TasksAssumption DEF Live, Forkers
<1>3. TypeInv
  BY TasksAssumption, MaxTaskAssumption DEF TypeInv, States, PCs, Pids, MAX_PID
<1>4. StateInv
  BY <1>1, TasksAssumption DEF StateInv
<1>5. ForkInv
  BY DEF ForkInv
<1>6. CurrentInv
  BY TasksAssumption DEF CurrentInv, ExitNeverReturns
<1>7. PidInv
  BY <1>1, TasksAssumption, MaxTaskAssumption DEF PidInv, Pids, MAX_PID
<1>8. CountInv
  <2>1. Cardinality(Live) = 1 /\ Cardinality(pid_map) = 1 /\ Cardinality(Forkers) = 0
    BY <1>2, FS_Singleton, FS_EmptySet
  <2>2. pid_map = {pid[t] : t \in Live}
    BY <1>2, TasksAssumption
  <2>3. Bookkeeping
    BY <2>1, <2>2 DEF Bookkeeping
  <2>4. 1 + 0 <= MAX_PID - 2
    BY MaxTaskAssumption DEF MAX_PID
  <2> QED
    BY <2>1, <2>3, <2>4 DEF CountInv
<1> QED
  BY <1>3, <1>4, <1>5, <1>6, <1>7, <1>8 DEF IInv

(* ... and every step preserves it.                                         *)

\* schedule() moves only the CPU, to a runnable task.
LEMMA ScheduleIInv ==
    ASSUME IInv, Schedule, 
           UNCHANGED <<state, pid, task_list, nr_task, pid_map, pc, child, ret>>
    PROVE  IInv'
<1> USE DEF IInv
<1>1. current \in Linked
  BY DEF CurrentInv, StateInv, TypeInv
<1>2. current' \in Tasks /\ state[current'] = "RUNNABLE"
  BY <1>1, TaskNextRunnable DEF Schedule
<1>3. Linked' = Linked /\ Live' = Live /\ Forkers' = Forkers
  BY DEF Linked, Live, Forkers
<1>4. TypeInv'
  BY <1>2 DEF TypeInv, Schedule
<1>5. StateInv' /\ ForkInv' /\ PidInv'
  BY <1>3 DEF StateInv, ForkInv, PidInv
<1>6. CurrentInv'
  BY <1>2 DEF CurrentInv, ExitNeverReturns
<1>7. CountInv'
  BY <1>3 DEF CountInv, Bookkeeping
<1> QED
  BY <1>4, <1>5, <1>6, <1>7

LEMMA ForkCheckIInv ==
    ASSUME IInv, NEW t \in Tasks, ForkCheck(t)
    PROVE  IInv'
<1> USE DEF IInv, ForkCheck
<1>1. Linked' = Linked /\ Live' = Live
  BY DEF Linked, Live
<1>2. state[t] = "RUNNABLE"
  BY DEF CurrentInv
<1>9. /\ ret' \in [Tasks -> Int]
      /\ \A u \in Tasks : ret'[u] > 0 => ret'[u] = ret[u]
  <2>1. -E_NO_FREE_PROC \in Int /\ ~ (-E_NO_FREE_PROC > 0)
    BY DEF E_NO_FREE_PROC
  <2>2. ret \in [Tasks -> Int]
    BY DEF TypeInv
  <2>3. ret' = [ret EXCEPT ![t] = -E_NO_FREE_PROC] \/ ret' = ret
    OBVIOUS
  <2> HIDE DEF ForkCheck, IInv
  <2> QED
    BY <2>1, <2>2, <2>3
<1>3. TypeInv'
  BY <1>9 DEF TypeInv, PCs
<1>4. StateInv'
  BY <1>1 DEF StateInv
<1>5. ForkInv'
  <2>1. ForkInv /\ state[t] = "RUNNABLE"
    BY <1>2
  <2>2. state' = state /\ child' = child /\ Linked' = Linked
    BY <1>1
  <2>3. \A u \in Tasks : pc'[u] = pc[u] \/ (u = t /\ pc'[u] = "checked")
    BY DEF TypeInv
  <2> HIDE DEF IInv, ForkCheck
  <2> QED BY <2>1, <2>2, <2>3 DEF ForkInv
<1>6. CurrentInv'
  BY <1>2 DEF CurrentInv, ExitNeverReturns, TypeInv
<1>7. PidInv'
  <2>1. UNCHANGED <<state, pid, task_list>>
    OBVIOUS
  <2>2. \A u \in Tasks : ret'[u] > 0 => \E w \in Linked : pid[w] = ret'[u]
    BY <1>9 DEF PidInv
  <2> HIDE DEF ForkCheck
  <2> QED
    BY <1>1, <2>1, <2>2 DEF PidInv
<1>8. CountInv'
  <2>1. CASE nr_task >= MAX_TASK
    <3>1. Forkers' = Forkers
      BY <2>1 DEF Forkers
    <3> QED BY <1>1, <2>1, <3>1 DEF CountInv, Bookkeeping
  <2>2. CASE ~ (nr_task >= MAX_TASK)
    \* Everyone past the test, this task included, is alive and so counted.
    <3>1. Forkers' \subseteq Live
      BY <1>2, <2>2, LinkedPositions DEF Forkers, Live, ForkInv, StateInv, TypeInv
    <3>2. Cardinality(Forkers') <= Cardinality(Live) /\ Cardinality(Forkers') \in Nat
      BY <3>1, FiniteParts, FS_Subset, FS_CardinalityType
    <3>3. nr_task' = nr_task /\ nr_task \in Nat /\ nr_task <= MAX_TASK - 1
      BY <2>2, MaxTaskAssumption DEF TypeInv
    <3>4. Bookkeeping' /\ Cardinality(pid_map') = nr_task'
      BY <1>1 DEF CountInv, Bookkeeping
    <3>5. nr_task' + Cardinality(Forkers') <= MAX_PID - 2
      BY <3>2, <3>3, MaxTaskAssumption DEF CountInv, Bookkeeping, MAX_PID
    <3> QED BY <3>4, <3>5 DEF CountInv
  <2> QED BY <2>1, <2>2
<1> QED
  BY <1>3, <1>4, <1>5, <1>6, <1>7, <1>8

LEMMA ForkAllocIInv ==
    ASSUME IInv, NEW t \in Tasks, ForkAlloc(t)
    PROVE  IInv'
<1> USE DEF IInv
<1>1. PICK c \in Tasks :
         /\ state[c] = "FREE"
         /\ state' = [state EXCEPT ![c] = "UNINIT"]
         /\ pid' = [pid EXCEPT ![c] = -1]
         /\ need_resched' = [need_resched EXCEPT ![c] = FALSE]
         /\ child' = [child EXCEPT ![t] = c]
  BY DEF ForkAlloc
<1>2. /\ current = t /\ pc[t] = "checked"
      /\ pc' = [pc EXCEPT ![t] = "allocated"]
      /\ UNCHANGED <<task_list, nr_task, pid_map, current, ret>>
  BY DEF ForkAlloc
<1>3. Linked' = Linked /\ c \notin Linked
  BY <1>1, <1>2 DEF Linked, StateInv
<1>4. state[t] = "RUNNABLE" /\ t # c /\ Idle # c
  BY <1>1, <1>2 DEF CurrentInv, StateInv
<1>5. Live' = Live /\ Live \subseteq Tasks /\ \A u \in Live : pid'[u] = pid[u]
  BY <1>1, <1>3, LinkedPositions DEF Live, TypeInv
<1>6. Forkers' = Forkers
  BY <1>2 DEF Forkers, TypeInv
<1>7. TypeInv'
  BY <1>1, <1>2 DEF TypeInv, States, PCs
<1>8. StateInv'
  BY <1>1, <1>2, <1>3, <1>4, LinkedPositions, TasksAssumption DEF StateInv, TypeInv
<1>9. ForkInv'
  <2>1. \A u \in Tasks : pc[u] \in {"allocated", "linked"} => child[u] # c
    BY <1>1 DEF ForkInv
  <2>2. \A u \in Tasks : u # t => pc'[u] = pc[u] /\ child'[u] = child[u]
    BY <1>1, <1>2 DEF TypeInv
  <2>3. pc'[t] = "allocated" /\ child'[t] = c
    BY <1>1, <1>2 DEF TypeInv
  <2>4. state'[c] = "UNINIT" /\ \A u \in Tasks \ {c} : state'[u] = state[u]
    BY <1>1 DEF TypeInv
  <2>5. \A u \in Tasks : pc[u] \in {"allocated", "linked"} => child[u] \in Tasks
    BY LinkedPositions DEF ForkInv
  <2>6. \A u \in Tasks : pc'[u] \in {"checked", "allocated", "linked"} => state'[u] = "RUNNABLE"
    BY <1>1, <1>4, <2>2, <2>4 DEF ForkInv
  <2>7. \A u \in Tasks : pc'[u] = "allocated" => child'[u] \in Tasks \ Linked'
    BY <1>3, <2>2, <2>3 DEF ForkInv
  <2>8. \A u \in Tasks : pc'[u] \in {"linked", "woken"} => child'[u] \in Linked'
    BY <1>3, <2>2, <2>3 DEF ForkInv
  <2>9. \A u \in Tasks : pc'[u] \in {"allocated", "linked"} => state'[child'[u]] = "UNINIT"
    BY <2>1, <2>2, <2>3, <2>4, <2>5 DEF ForkInv
  <2>10. \A u, w \in Tasks :
            /\ pc'[u] \in {"allocated", "linked"}
            /\ pc'[w] \in {"allocated", "linked"}
            /\ child'[u] = child'[w]
            => u = w
    BY <2>1, <2>2, <2>3 DEF ForkInv
  <2> QED
    BY <2>6, <2>7, <2>8, <2>9, <2>10 DEF ForkInv
<1>10. CurrentInv'
  BY <1>1, <1>2, <1>4 DEF CurrentInv, ExitNeverReturns, TypeInv
<1>11. PidInv'
  <2>1. \A u \in Linked : pid'[u] = pid[u] /\ state'[u] = state[u]
    BY <1>1, <1>3, LinkedPositions DEF TypeInv
  <2> QED
    BY <1>2, <1>3, <2>1, LinkedPositions DEF PidInv
<1>12. CountInv'
  <2>1. {pid'[u] : u \in Live'} = {pid[u] : u \in Live}
    BY <1>5
  <2>2. UNCHANGED <<nr_task, pid_map>>
    BY <1>2
  <2> QED
    BY <1>5, <1>6, <2>1, <2>2 DEF CountInv, Bookkeeping
<1> QED
  BY <1>7, <1>8, <1>9, <1>10, <1>11, <1>12

LEMMA ForkNoPageIInv ==
    ASSUME IInv, NEW t \in Tasks, ForkNoPage(t)
    PROVE  IInv'
<1> USE DEF IInv, ForkNoPage
<1>1. Linked' = Linked /\ Live' = Live
  BY DEF Linked, Live
<1>2. Forkers' \subseteq Forkers
  BY DEF Forkers, TypeInv
<1>3. Cardinality(Forkers') <= Cardinality(Forkers) /\ Cardinality(Forkers') \in Nat
      /\ Cardinality(Forkers) \in Nat
  BY <1>2, FiniteParts, FS_Subset, FS_CardinalityType
<1>4. TypeInv'
  BY DEF TypeInv, PCs
<1>5. StateInv' /\ PidInv'
  BY <1>1 DEF StateInv, PidInv
<1>6. ForkInv'
  BY <1>1 DEF ForkInv, TypeInv
<1>7. CurrentInv'
  BY DEF CurrentInv, ExitNeverReturns, TypeInv
<1>8. CountInv'
  BY <1>1, <1>3, FiniteParts DEF CountInv, Bookkeeping, TypeInv
<1> QED
  BY <1>4, <1>5, <1>6, <1>7, <1>8

LEMMA ForkLinkIInv ==
    ASSUME IInv, NEW t \in Tasks, ForkLink(t)
    PROVE  IInv'
<1> USE DEF IInv
<1> DEFINE c == child[t]
           p == AllocPid
<1>1. /\ current = t /\ pc[t] = "allocated"
      /\ pid' = [pid EXCEPT ![c] = p]
      /\ pid_map' = pid_map \cup ({p} \cap Pids)
      /\ task_list' = <<c>> \o task_list
      /\ nr_task' = nr_task + 1
      /\ pc' = [pc EXCEPT ![t] = "linked"]
      /\ UNCHANGED <<state, need_resched, current, child, ret>>
  BY DEF ForkLink
<1>2. c \in Tasks \ Linked /\ state[c] = "UNINIT" /\ state[t] = "RUNNABLE"
  BY <1>1 DEF ForkInv
\* The pids in use are fewer than all pids: this task is still among Forkers.
<1>3. p \in Pids \ pid_map
  <2>1. t \in Forkers
    BY <1>1 DEF Forkers
  <2>2. Cardinality(Forkers) \in Nat /\ Cardinality(Forkers) # 0
    BY <2>1, FiniteParts, FS_CardinalityType, FS_EmptySet
  <2>3. Cardinality(pid_map) < Cardinality(Pids)
    BY <2>2, FiniteParts DEF CountInv, TypeInv
  <2>4. ~ (Pids \subseteq pid_map)
    <3>1. SUFFICES ASSUME Pids = pid_map PROVE FALSE
      BY DEF TypeInv
    <3>2. Cardinality(pid_map) \in Nat
      BY FiniteParts, FS_CardinalityType
    <3> QED BY <2>3, <3>1, <3>2
  <2> QED BY <2>4, AllocPidFresh
<1> HIDE DEF p
<1>4. /\ task_list' \in Seq(Tasks)
      /\ Len(task_list) \in Nat
      /\ DOMAIN task_list = 1 .. Len(task_list)
      /\ DOMAIN task_list' = 1 .. Len(task_list) + 1
      /\ task_list'[1] = c
      /\ \A i \in 2 .. Len(task_list) + 1 : task_list'[i] = task_list[i - 1]
      /\ Linked' = Linked \cup {c}
  BY <1>1, <1>2, Prepend, LenProperties DEF TypeInv, Linked
<1>5. /\ pid'[c] = p
      /\ \A u \in Tasks \ {c} : pid'[u] = pid[u]
      /\ \A u \in Linked : u \in Tasks \ {c} /\ pid'[u] = pid[u]
  BY <1>1, <1>2, LinkedPositions DEF TypeInv
<1>6. Live' = Live \cup {c} /\ c \notin Live /\ Live \subseteq Linked
  BY <1>1, <1>2, <1>4 DEF Live
<1>7. pid_map' = pid_map \cup {p} /\ p \notin pid_map
  BY <1>1, <1>3
<1>8. TypeInv'
  BY <1>1, <1>3, <1>4, <1>7 DEF TypeInv, PCs
<1>9. StateInv'
  <2>1. Idle \in Linked
    BY TasksAssumption DEF StateInv
  <2> QED
    BY <1>1, <1>2, <1>4, <1>5, <2>1 DEF StateInv
<1>10. ForkInv'
  <2>1. \A u \in Tasks : u # t => pc'[u] = pc[u]
    BY <1>1 DEF TypeInv
  <2>2. pc'[t] = "linked"
    BY <1>1 DEF TypeInv
  <2>3. \A u \in Tasks : u # t /\ pc[u] = "allocated" => child[u] # c
    BY <1>1 DEF ForkInv
  <2>4. UNCHANGED <<state, child>>
    BY <1>1
  <2>5. \A u \in Tasks : pc'[u] = "allocated" => child'[u] \in Tasks \ Linked'
    BY <1>4, <2>1, <2>2, <2>3, <2>4 DEF ForkInv
  <2>6. \A u \in Tasks : pc'[u] \in {"linked", "woken"} => child'[u] \in Linked'
    BY <1>4, <2>1, <2>2, <2>4 DEF ForkInv
  <2>7. \A u \in Tasks : pc'[u] \in {"allocated", "linked"} <=> pc[u] \in {"allocated", "linked"}
    BY <1>1, <2>1, <2>2
  <2>8. \A u \in Tasks : pc'[u] \in {"checked", "allocated", "linked"} => state'[u] = "RUNNABLE"
    BY <1>2, <2>1, <2>4 DEF ForkInv
  <2> QED
    BY <2>4, <2>5, <2>6, <2>7, <2>8 DEF ForkInv
<1>11. CurrentInv'
  BY <1>1, <1>2 DEF CurrentInv, ExitNeverReturns, TypeInv
<1>12. PidInv'
  <2>1. \A u \in Linked' : pid'[u] \in Pids
    BY <1>3, <1>4, <1>5 DEF PidInv
  \* The new task is first, and whoever had its pid before has exited.
  <2>2. ASSUME NEW i \in DOMAIN task_list', NEW j \in DOMAIN task_list',
               i < j, pid'[task_list'[i]] = pid'[task_list'[j]]
        PROVE  state'[task_list'[j]] = "ZOMBIE"
    <3>1. /\ j \in 2 .. Len(task_list) + 1
          /\ j - 1 \in DOMAIN task_list
          /\ task_list'[j] = task_list[j - 1]
      BY <2>2, <1>4
    <3>2. task_list[j - 1] \in Linked /\ pid'[task_list[j - 1]] = pid[task_list[j - 1]]
      BY <3>1, <1>5, LinkedPositions
    <3>3. CASE i = 1
      <4>1. pid[task_list[j - 1]] = p
        BY <2>2, <3>1, <3>2, <3>3, <1>4, <1>5
      <4>2. task_list[j - 1] \notin Live
        BY <4>1, <1>3 DEF CountInv, Bookkeeping
      <4> QED
        BY <4>2, <3>1, <3>2, <1>1 DEF Live
    <3>4. CASE i # 1
      <4>1. /\ i - 1 \in DOMAIN task_list
            /\ i - 1 < j - 1
            /\ task_list'[i] = task_list[i - 1]
        BY <2>2, <3>4, <1>4
      <4>2. pid'[task_list[i - 1]] = pid[task_list[i - 1]]
        BY <4>1, <1>5, LinkedPositions
      <4>3. pid[task_list[i - 1]] = pid[task_list[j - 1]]
        BY <2>2, <3>1, <3>2, <4>1, <4>2
      <4> QED
        BY <3>1, <4>1, <4>3, <1>1 DEF PidInv
    <3> QED BY <3>3, <3>4
  <2>3. \A u \in Tasks : ret'[u] > 0 => \E w \in Linked' : pid'[w] = ret'[u]
    <3>1. ret' = ret
      BY <1>1
    <3> QED BY <3>1, <1>4, <1>5 DEF PidInv
  <2> QED
    BY <2>1, <2>2, <2>3 DEF PidInv
<1>13. CountInv'
  <2>1. Cardinality(Live') = Cardinality(Live) + 1
    BY <1>6, FiniteParts, FS_AddElement
  <2>2. Cardinality(pid_map') = Cardinality(pid_map) + 1
    BY <1>7, FiniteParts, FS_AddElement
  <2>3. pid_map' = {pid'[u] : u \in Live'}
    <3>1. \A u \in Live : pid'[u] = pid[u]
      BY <1>5, <1>6
    <3>2. {pid'[u] : u \in Live'} = {pid[u] : u \in Live} \cup {p}
      BY <1>5, <1>6, <3>1
    <3> QED BY <1>7, <3>2 DEF CountInv, Bookkeeping
  <2>4. Forkers' = Forkers \ {t} /\ t \in Forkers
    BY <1>1 DEF Forkers, TypeInv
  <2>5. Cardinality(Forkers') = Cardinality(Forkers) - 1 /\ Cardinality(Forkers) \in Nat
    BY <2>4, FiniteParts, FS_RemoveElement, FS_CardinalityType
  <2>6. nr_task' = nr_task + 1 /\ nr_task \in Nat /\ MAX_PID \in Nat
    BY <1>1, FiniteParts DEF TypeInv
  <2>7. Bookkeeping'
    BY <2>1, <2>3, <2>6 DEF CountInv, Bookkeeping
  <2> QED
    BY <2>2, <2>5, <2>6, <2>7 DEF CountInv
<1> QED
  BY <1>8, <1>9, <1>10, <1>11, <1>12, <1>13

LEMMA ForkWakeupIInv ==
    ASSUME IInv, NEW t \in Tasks, ForkWakeup(t)
    PROVE  IInv'
<1> USE DEF IInv
<1> DEFINE c == child[t]
<1>1. /\ current = t /\ pc[t] = "linked"
      /\ pc' = [pc EXCEPT ![t] = "woken"]
      /\ UNCHANGED <<pid, need_resched, task_list, nr_task, pid_map, current, child, ret>>
  BY DEF ForkWakeup
<1>2. c \in Linked /\ c \in Tasks /\ state[c] = "UNINIT" /\ state[t] = "RUNNABLE"
  BY <1>1, LinkedPositions DEF ForkInv
<1>3. state' = [state EXCEPT ![c] = "RUNNABLE"]
  BY <1>2 DEF ForkWakeup
<1>4. /\ state'[c] = "RUNNABLE"
      /\ \A u \in Tasks \ {c} : state'[u] = state[u]
      /\ \A u \in Tasks : state'[u] = "ZOMBIE" <=> state[u] = "ZOMBIE"
  BY <1>2, <1>3 DEF TypeInv
<1>5. Linked' = Linked /\ Linked \subseteq Tasks
  BY <1>1, LinkedPositions DEF Linked
<1>6. Live' = Live
  BY <1>4, <1>5 DEF Live
<1>7. Forkers' = Forkers
  BY <1>1 DEF Forkers, TypeInv
<1>9. TypeInv'
  BY <1>1, <1>3 DEF TypeInv, States, PCs
<1>10. StateInv'
  BY <1>1, <1>2, <1>4, <1>5, TasksAssumption DEF StateInv
<1>11. ForkInv'
  <2>1. child' = child /\ \A u \in Tasks : u # t => pc'[u] = pc[u]
    BY <1>1 DEF TypeInv
  <2>2. pc'[t] = "woken"
    BY <1>1 DEF TypeInv
  <2>3. \A u \in Tasks : u # t /\ pc[u] \in {"allocated", "linked"}
                             => child[u] # c /\ child[u] \in Tasks
    BY <1>1, LinkedPositions DEF ForkInv
  <2>4. \A u \in Tasks : pc'[u] \in {"checked", "allocated", "linked"} => state'[u] = "RUNNABLE"
    BY <1>4, <2>1, <2>2 DEF ForkInv
  <2>5. \A u \in Tasks : pc'[u] \in {"allocated", "linked"} => state'[child'[u]] = "UNINIT"
    BY <1>4, <2>1, <2>2, <2>3 DEF ForkInv
  <2>6. \A u \in Tasks : pc'[u] \in {"linked", "woken"} => child'[u] \in Linked
    BY <1>2, <2>1, <2>2 DEF ForkInv
  <2> QED
    BY <1>5, <2>1, <2>2, <2>4, <2>5, <2>6 DEF ForkInv
<1>12. CurrentInv'
  BY <1>1, <1>2, <1>3 DEF CurrentInv, ExitNeverReturns, TypeInv
<1>13. PidInv'
  <2>1. \A j \in DOMAIN task_list : state[task_list[j]] = "ZOMBIE" => state'[task_list[j]] = "ZOMBIE"
    BY <1>4, LinkedPositions
  <2>2. UNCHANGED <<pid, task_list, ret>>
    BY <1>1
  <2> QED
    BY <1>5, <2>1, <2>2 DEF PidInv
<1>14. CountInv'
  BY <1>1, <1>6, <1>7 DEF CountInv, Bookkeeping
<1> QED
  BY <1>9, <1>10, <1>11, <1>12, <1>13, <1>14

\* The child may have run and exited; it is still linked, with its pid.
LEMMA ForkReturnIInv ==
    ASSUME IInv, NEW t \in Tasks, ForkReturn(t)
    PROVE  IInv'
<1> USE DEF IInv
<1> DEFINE c == child[t]
<1>1. /\ current = t /\ pc[t] = "woken"
      /\ ret' = [ret EXCEPT ![t] = pid[c]]
      /\ child' = [child EXCEPT ![t] = NULL]
      /\ pc' = [pc EXCEPT ![t] = "body"]
      /\ UNCHANGED <<state, pid, need_resched, task_list, nr_task, pid_map, current>>
  BY DEF ForkReturn
<1>2. c \in Linked /\ c \in Tasks
  BY <1>1, LinkedPositions DEF ForkInv
<1>3. Linked' = Linked /\ Live' = Live
  BY <1>1 DEF Linked, Live
<1>4. Forkers' = Forkers
  BY <1>1 DEF Forkers, TypeInv
<1>5. pid[c] \in Int
  BY <1>2 DEF TypeInv, Pids
<1>6. TypeInv'
  BY <1>1, <1>5 DEF TypeInv, PCs
<1>7. StateInv'
  BY <1>1, <1>3 DEF StateInv
<1>8. ForkInv'
  <2>1. \A u \in Tasks : u # t => pc'[u] = pc[u] /\ child'[u] = child[u]
    BY <1>1 DEF TypeInv
  <2>2. pc'[t] = "body"
    BY <1>1 DEF TypeInv
  <2>3. state' = state
    BY <1>1
  <2> QED
    BY <1>3, <2>1, <2>2, <2>3 DEF ForkInv
<1>9. CurrentInv'
  BY <1>1 DEF CurrentInv, ExitNeverReturns, TypeInv
<1>10. PidInv'
  <2>1. \A u \in Tasks : ret'[u] > 0 => \E w \in Linked : pid[w] = ret'[u]
    BY <1>1, <1>2 DEF PidInv, TypeInv
  <2>2. UNCHANGED <<state, pid, task_list>>
    BY <1>1
  <2> QED
    BY <1>3, <2>1, <2>2 DEF PidInv
<1>11. CountInv'
  BY <1>1, <1>3, <1>4 DEF CountInv, Bookkeeping
<1> QED
  BY <1>6, <1>7, <1>8, <1>9, <1>10, <1>11

LEMMA DoExitIInv ==
    ASSUME IInv, NEW t \in Tasks, DoExit(t)
    PROVE  IInv'
<1> USE DEF IInv
<1>1. /\ current = t /\ t # Idle /\ pc[t] = "body"
      /\ state' = [state EXCEPT ![t] = "ZOMBIE"]
      /\ need_resched' = [need_resched EXCEPT ![t] = TRUE]
      /\ nr_task' = nr_task - 1
      /\ pid_map' = FreePid(pid[t])
      /\ pc' = [pc EXCEPT ![t] = "exiting"]
      /\ UNCHANGED <<pid, task_list, current, child, ret>>
  BY DEF DoExit
<1>2. state[t] = "RUNNABLE" /\ t \in Linked /\ t \in Live
  BY <1>1 DEF CurrentInv, StateInv, Live
<1>3. Linked' = Linked /\ Linked \subseteq Tasks
  BY <1>1, LinkedPositions DEF Linked
<1>4. state'[t] = "ZOMBIE" /\ \A u \in Tasks \ {t} : state'[u] = state[u]
  BY <1>1 DEF TypeInv
<1>5. Live' = Live \ {t}
  BY <1>3, <1>4 DEF Live
<1>6. pid[t] \in Pids /\ pid_map' = pid_map \ {pid[t]}
  <2>1. pid[t] \in Pids
    BY <1>2 DEF PidInv
  <2>2. ~ (pid[t] < 0 \/ pid[t] > MAX_PID)
    BY <2>1, MaxTaskAssumption DEF Pids, MAX_PID
  <2> QED BY <1>1, <2>1, <2>2 DEF FreePid
\* No other task that has not exited has this pid.
<1>7. \A u \in Live : pid[u] = pid[t] => u = t
  <2>1. ASSUME NEW u \in Live, pid[u] = pid[t] PROVE u = t
    <3>1. PICK i \in DOMAIN task_list : task_list[i] = u
      BY LinkedPositions DEF Live
    <3>2. PICK j \in DOMAIN task_list : task_list[j] = t
      BY <1>2, LinkedPositions
    <3>3. i \in Nat /\ j \in Nat
      BY LinkedPositions
    <3>4. ~ (i < j) /\ ~ (j < i)
      BY <1>2, <2>1, <3>1, <3>2 DEF PidInv, Live
    <3> QED BY <3>1, <3>2, <3>3, <3>4
  <2> QED BY <2>1
<1>8. Forkers' = Forkers
  BY <1>1 DEF Forkers, TypeInv
<1>9. nr_task' \in Nat /\ Cardinality(Live') = Cardinality(Live) - 1 /\ nr_task \in Nat
  <2>1. Cardinality(Live) \in Nat /\ Cardinality(Live) # 0
    BY <1>2, FiniteParts, FS_CardinalityType, FS_EmptySet
  <2>2. Cardinality(Live') = Cardinality(Live) - 1
    BY <1>2, <1>5, FiniteParts, FS_RemoveElement
  <2> QED BY <1>1, <2>1, <2>2 DEF CountInv, Bookkeeping
<1>10. TypeInv'
  BY <1>1, <1>6, <1>9 DEF TypeInv, States, PCs
<1>11. StateInv'
  BY <1>1, <1>2, <1>3, <1>4, TasksAssumption DEF StateInv
<1>12. ForkInv'
  <2>1. \A u \in Tasks : u # t => pc'[u] = pc[u]
    BY <1>1 DEF TypeInv
  <2>2. pc'[t] = "exiting"
    BY <1>1 DEF TypeInv
  <2>3. child' = child
    BY <1>1
  <2>4. \A u \in Tasks : pc[u] \in {"allocated", "linked"} => child[u] # t /\ child[u] \in Tasks
    BY <1>2, <1>3 DEF ForkInv
  <2> QED
    BY <1>3, <1>4, <2>1, <2>2, <2>3, <2>4 DEF ForkInv
<1>13. CurrentInv'
  BY <1>1, <1>4 DEF CurrentInv, ExitNeverReturns, TypeInv
<1>14. PidInv'
  <2>1. \A j \in DOMAIN task_list : state[task_list[j]] = "ZOMBIE" => state'[task_list[j]] = "ZOMBIE"
    BY <1>4, LinkedPositions
  <2>2. UNCHANGED <<pid, task_list, ret>>
    BY <1>1
  <2> QED
    BY <1>3, <2>1, <2>2 DEF PidInv
<1>15. CountInv'
  <2>1. pid_map' = {pid'[u] : u \in Live'}
    BY <1>1, <1>5, <1>6, <1>7 DEF CountInv, Bookkeeping
  <2>2. pid[t] \in pid_map
    BY <1>2 DEF CountInv, Bookkeeping
  <2>3. Cardinality(pid_map') = Cardinality(pid_map) - 1
    BY <1>6, <2>2, FiniteParts, FS_RemoveElement
  <2>4. Bookkeeping'
    BY <1>1, <1>9, <2>1 DEF CountInv, Bookkeeping
  <2>5. Cardinality(Forkers) \in Nat /\ MAX_PID \in Nat
    BY FiniteParts, FS_CardinalityType
  <2> QED
    BY <1>1, <1>8, <1>9, <2>3, <2>4, <2>5 DEF CountInv
<1> QED
  BY <1>10, <1>11, <1>12, <1>13, <1>14, <1>15

LEMMA CpuIdleIInv ==
    ASSUME IInv, NEW t \in Tasks, CpuIdle(t)
    PROVE  IInv'
<1>1. need_resched[t]
  <2>1. pc[t] = "exiting" /\ current = t
    BY DEF CpuIdle
  <2> QED
    BY <2>1 DEF IInv, CurrentInv
<1> QED
  BY <1>1, ScheduleIInv DEF CpuIdle

----------------------------------------------------------------------------
(* The theorems.                                                            *)

\* The inductive invariant holds in every behaviour of do_fork, do_exit and the
\* scheduler.
THEOREM Invariance == Spec => []IInv
<1>1. ASSUME IInv, [Next]_vars PROVE IInv'
  <2>1. CASE ClockTick
    BY <1>1, <2>1, ScheduleIInv DEF ClockTick
  <2>2. ASSUME NEW t \in Tasks, Step(t) PROVE IInv'
    BY <1>1, <2>2, ForkCheckIInv, ForkAllocIInv, ForkNoPageIInv, ForkLinkIInv,
       ForkWakeupIInv, ForkReturnIInv, DoExitIInv, CpuIdleIInv DEF Step
  <2>3. CASE UNCHANGED vars
    BY <1>1, <2>3 DEF vars, IInv, TypeInv, StateInv, ForkInv, CurrentInv, PidInv,
       CountInv, Bookkeeping, ExitNeverReturns, Linked, Live, Forkers
  <2> QED
    BY <1>1, <2>1, <2>2, <2>3 DEF Next
<1> QED
  BY <1>1, InitIInv, PTL DEF Spec

\* Every variable keeps its type: in particular no task_struct ever carries a
\* pid outside the bitmap other than -1.
THEOREM TypeCorrect == Spec => []TypeInv
<1>1. IInv => TypeInv
  BY DEF IInv
<1> QED
  BY <1>1, Invariance, PTL

\* Two tasks that have not exited never share a pid.
THEOREM PidsAreUnique == Spec => []PidUnique
<1>1. IInv => PidUnique
  <2> SUFFICES ASSUME IInv, NEW t \in Live, NEW u \in Live, pid[t] = pid[u]
               PROVE  t = u
    BY DEF PidUnique
  <2>1. PICK i \in DOMAIN task_list : task_list[i] = t
    BY LinkedPositions DEF Live, IInv
  <2>2. PICK j \in DOMAIN task_list : task_list[j] = u
    BY LinkedPositions DEF Live, IInv
  <2>3. i \in Nat /\ j \in Nat
    BY LinkedPositions DEF IInv
  <2>4. ~ (i < j) /\ ~ (j < i)
    BY <2>1, <2>2 DEF IInv, PidInv, Live
  <2> QED BY <2>1, <2>2, <2>3, <2>4
<1> QED
  BY <1>1, Invariance, PTL

\* nr_task and glb_pid_map agree with the tasks that have not exited.
THEOREM BookkeepingCorrect == Spec => []Bookkeeping
<1>1. IInv => Bookkeeping
  BY DEF IInv, CountInv
<1> QED
  BY <1>1, Invariance, PTL

\* alloc_pid never fails in do_fork: twice MAX_TASK pids are enough for every
\* interleaving of do_forks that all passed the limit test.
THEOREM PidsNeverRunOut == Spec => []PidNeverExhausted
<1>1. IInv => PidNeverExhausted
  BY DEF IInv, PidInv, PidNeverExhausted, Pids
<1> QED
  BY <1>1, Invariance, PTL

\* The overrun of MAX_TASK that the unprotected limit test allows is bounded.
TaskOverrun == nr_task <= 2 * MAX_TASK - 2

THEOREM TaskOverrunBounded == Spec => []TaskOverrun
<1>1. IInv => TaskOverrun
  <2> SUFFICES ASSUME IInv PROVE TaskOverrun
    OBVIOUS
  <2>1. Cardinality(Forkers) \in Nat /\ nr_task \in Nat
    BY FiniteParts, FS_CardinalityType DEF IInv, TypeInv
  <2> QED
    BY <2>1, MaxTaskAssumption DEF IInv, CountInv, TaskOverrun, MAX_PID
<1> QED
  BY <1>1, Invariance, PTL

\* find_task yields the live owner of a pid, not an exited task before it.
THEOREM FindTaskCorrect == Spec => []FindTaskFindsLive
<1>1. IInv => FindTaskFindsLive
  <2> SUFFICES ASSUME IInv, NEW t \in Live \ {Idle} PROVE FindTask(pid[t]) = t
    BY DEF FindTaskFindsLive
  <2> USE DEF IInv
  <2> DEFINE at == {i \in DOMAIN task_list : pid[task_list[i]] = pid[t]}
  <2>1. PICK k \in DOMAIN task_list : task_list[k] = t
    BY LinkedPositions DEF Live
  <2>2. at \in SUBSET Nat /\ k \in at
    BY <2>1, LinkedPositions
  <2>3. Min(at) \in at /\ Min(at) <= k
    BY <2>2, MinOfNats
  <2>4. ~ (Min(at) < k)
    BY <2>1, <2>3 DEF PidInv, Live
  <2>5. Min(at) = k
    BY <2>2, <2>3, <2>4
  \* Pid 0 stays with the idle task, which never exits.
  <2>6. pid[t] \in Int /\ pid[t] > 0 /\ pid[t] < MAX_PID
    <3>1. pid[t] \in Pids /\ t \in Tasks
      BY LinkedPositions DEF PidInv, Live
    <3>2. pid[t] # 0
      <4>1. Idle \in Linked /\ state[Idle] = "RUNNABLE" /\ pid[Idle] = 0
        BY TasksAssumption DEF StateInv
      <4>2. PICK m \in DOMAIN task_list : task_list[m] = Idle
        BY <4>1, LinkedPositions
      <4>3. m \in Nat /\ k \in Nat /\ m # k
        BY <2>1, <4>2, LinkedPositions
      <4> QED
        BY <2>1, <4>1, <4>2, <4>3 DEF PidInv, Live
    <3> QED
      BY <3>1, <3>2, MaxTaskAssumption DEF Pids, MAX_PID
  <2> HIDE DEF at
  <2>7. FindTask(pid[t]) = task_list[Min(at)]
    BY <2>2, <2>6, MaxTaskAssumption DEF FindTask, at, MAX_PID
  <2> QED
    BY <2>1, <2>5, <2>7
<1> QED
  BY <1>1, Invariance, PTL

\* A pid do_fork returned is always found, so kern_init never writes through
\* NULL.
THEOREM ReturnedPidsFound == Spec => []ReturnedPidFound
<1>1. IInv => ReturnedPidFound
  <2> SUFFICES ASSUME IInv, NEW t \in Tasks, ret[t] > 0 PROVE FindTask(ret[t]) # NULL
    BY DEF ReturnedPidFound
  <2> USE DEF IInv
  <2> DEFINE at == {i \in DOMAIN task_list : pid[task_list[i]] = ret[t]}
  <2>1. PICK u \in Linked : pid[u] = ret[t]
    BY DEF PidInv
  <2>2. PICK k \in DOMAIN task_list : task_list[k] = u
    BY LinkedPositions
  <2>3. at \in SUBSET Nat /\ k \in at
    BY <2>1, <2>2, LinkedPositions
  <2>4. Min(at) \in DOMAIN task_list
    BY <2>3, MinOfNats
  <2>5. ret[t] < MAX_PID
    BY <2>1, MaxTaskAssumption DEF PidInv, Pids, MAX_PID
  <2> HIDE DEF at
  <2>6. FindTask(ret[t]) = task_list[Min(at)]
    BY <2>3, <2>5, MaxTaskAssumption DEF FindTask, at, MAX_PID, TypeInv
  <2> QED
    BY <2>4, <2>6, LinkedPositions, TasksAssumption
<1> QED
  BY <1>1, Invariance, PTL

\* do_exit never returns to kthread_entry.
THEOREM ExitIsFinal == Spec => []ExitNeverReturns
<1>1. IInv => ExitNeverReturns
  BY DEF IInv, CurrentInv
<1> QED
  BY <1>1, Invariance, PTL

\* schedule() gives the CPU to runnable tasks only.
THEOREM OnlyRunnableDispatched == Spec => DispatchesRunnable
<1>1. IInv /\ [Next]_vars => (current' # current => state[current'] = "RUNNABLE")
  <2> SUFFICES ASSUME IInv, [Next]_vars, current' # current
               PROVE  state[current'] = "RUNNABLE"
    OBVIOUS
  <2>1. current \in Linked
    BY DEF IInv, CurrentInv, StateInv, TypeInv
  <2>2. Schedule
    BY DEF Next, Step, vars, ForkCheck, ForkAlloc, ForkNoPage, ForkLink, ForkWakeup,
           ForkReturn, DoExit, CpuIdle, ClockTick
  <2> QED
    BY <2>1, <2>2, TaskNextRunnable DEF IInv, Schedule
<1> QED
  BY <1>1, Invariance, PTL DEF Spec, DispatchesRunnable
=============================================================================
