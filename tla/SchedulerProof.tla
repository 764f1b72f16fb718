--------------------------- MODULE SchedulerProof ---------------------------
(***************************************************************************)
(* Proofs about module Scheduler, for every number of processes, queue     *)
(* capacity and choice of system calls.  First type correctness.  Then     *)
(* Scheduler keeps its books: SchedulerInv is inductive under the calls    *)
(* that Disciplined allows.  For it, what each piece of scheduler.c does   *)
(* to the sets of processes it moves, then one lemma for each action, then *)
(* the order of the ready queue.                                           *)
(***************************************************************************)
EXTENDS Scheduler, QueuesProof

\* What the constants are, as the steps below use it.
LEMMA Constants ==
    /\ MaxPid \in Nat /\ MaxPid >= 2 /\ Kernel \in Procs /\ Init_pid \in Procs
    /\ SCHED_MAX_READY \in Nat /\ SCHED_MAX_READY > 0
    /\ SCHED_MAX_DEAD \in Nat /\ SCHED_MAX_DEAD > 0
    /\ WaitPids \subseteq Procs /\ KillPids \subseteq Procs
    /\ KillStates \subseteq {"READY", "LIVING", "NAPPING"}
    /\ SleepTimes \subseteq Int
BY ConstantsAssumption DEF Kernel, Init_pid, Procs

-----------------------------------------------------------------------------
(* Type correctness.                                                       *)

\* The ready queue after the current process was requeued.
LEMMA RequeuedType ==
    ASSUME TypeOK, NEW st \in [Procs -> States]
    PROVE  /\ Requeued(st) \in Seq(Procs)
           /\ Len(Requeued(st)) <= SCHED_MAX_READY
BY Constants, EnqueueType DEF TypeOK, Requeued, sched_make_ready

\* What sched_preempt_handler leaves is well typed.
LEMMA SwitchType ==
    ASSUME TypeOK, NEW st \in [Procs -> States], SwitchSafe(st)
    PROVE  /\ sched_get_ready(st) \in Procs
           /\ ReadyLeft(st) \in Seq(Procs)
           /\ Len(ReadyLeft(st)) <= SCHED_MAX_READY
           /\ Switched(st) \in [Procs -> States]
<1>1. /\ Requeued(st) \in Seq(Procs) /\ Requeued(st) # << >>
      /\ Len(Requeued(st)) <= SCHED_MAX_READY
  BY RequeuedType DEF SwitchSafe
<1>2. /\ Head(Requeued(st)) \in Procs /\ Tail(Requeued(st)) \in Seq(Procs)
      /\ Len(Tail(Requeued(st))) = Len(Requeued(st)) - 1
  BY <1>1, HeadTailRange
<1>3. Len(Tail(Requeued(st))) <= SCHED_MAX_READY
  BY <1>1, <1>2, Constants
<1>4. Switched(st) \in [Procs -> States]
  BY DEF Switched, States
<1> QED
  BY <1>2, <1>3, <1>4 DEF sched_get_ready, ReadyLeft

\* Taking a dead process off keeps the dead queue well typed.
LEMMA DeadType ==
    ASSUME TypeOK
    PROVE  /\ sched_get_dead \in Seq(Procs)
           /\ Len(sched_get_dead) <= SCHED_MAX_DEAD
<1>1. CASE dead_queue = << >>
  BY <1>1 DEF TypeOK, sched_get_dead
<1>2. CASE dead_queue # << >>
  BY <1>2, HeadTailRange, Constants DEF TypeOK, sched_get_dead
<1> QED
  BY <1>1, <1>2

\* Queuing the current process to die keeps the dead queue well typed.
LEMMA DeadLeftType ==
    ASSUME TypeOK, NEW st, NEW dq \in Seq(Procs), Len(dq) <= SCHED_MAX_DEAD
    PROVE  /\ DeadLeft(st, dq) \in Seq(Procs)
           /\ Len(DeadLeft(st, dq)) <= SCHED_MAX_DEAD
BY Constants, EnqueueType DEF TypeOK, DeadLeft, sched_make_dead

\* Removing processes from a queue keeps it a queue within its capacity.
LEMMA WithoutType ==
    ASSUME NEW q \in Seq(Procs), NEW S, NEW limit \in Nat, Len(q) <= limit
    PROVE  Without(q, S) \in Seq(Procs) /\ Len(Without(q, S)) <= limit
<1> DEFINE k == Keep(q, Range(q) \ S)
<1>1. k \in Seq(Procs) /\ Len(k) <= Len(q)
  BY WithoutRange
<1>2. Len(k) \in Nat /\ Len(q) \in Nat
  BY <1>1
<1> HIDE DEF k
<1>3. Len(k) <= limit
  BY <1>1, <1>2
<1> QED
  BY <1>1, <1>3 DEF Without, k

\* The entries that expire and those that stay are napping entries.
LEMMA NappingType ==
    ASSUME TypeOK
    PROVE  Expired \in Seq(Naps) /\ Napping \in Seq(Naps) /\ Woken \in Seq(Procs)
<1>1. Expired \in Seq(Naps) /\ Napping \in Seq(Naps)
  BY KeepRange DEF TypeOK, Expired, Napping
<1>2. Woken = [i \in 1..Len(Expired) |-> Expired[i].process]
  BY <1>1 DEF Woken
<1>3. \A i \in 1..Len(Expired) : Expired[i] \in Naps
  BY <1>1
<1>4. \A i \in 1..Len(Expired) : Expired[i].process \in Procs
  BY <1>3 DEF Naps
<1> QED
  BY <1>1, <1>2, <1>4

\* sched_timekeeper keeps states, ready queue and napping list well typed.
LEMMA TimekeeperType ==
    ASSUME TypeOK, NEW st \in [Procs -> States], NEW rq \in Seq(Procs),
           Len(rq) <= SCHED_MAX_READY, sched_timekeeper(st, rq)
    PROVE  /\ state' \in [Procs -> States]
           /\ ready_queue' \in Seq(Procs) /\ Len(ready_queue') <= SCHED_MAX_READY
           /\ napping_list' \in Seq(Naps)
<1>1. state' \in [Procs -> States]
  BY DEF sched_timekeeper, States
<1>2. ready_queue' \in Seq(Procs) /\ Len(ready_queue') <= SCHED_MAX_READY
  BY NappingType, EnqueueAllType, Constants DEF sched_timekeeper
<1>3. Napping \in Seq(Naps)
  BY NappingType
<1>4. napping_list' = [i \in 1..Len(Napping) |->
                          [process |-> Napping[i].process,
                           counter |-> Napping[i].counter - 1]]
  BY <1>3 DEF sched_timekeeper
<1>5. \A i \in 1..Len(Napping) : [process |-> Napping[i].process,
                                  counter |-> Napping[i].counter - 1] \in Naps
  <2>1. \A i \in 1..Len(Napping) : Napping[i] \in Naps
    BY <1>3
  <2> QED
    BY <2>1 DEF Naps
<1> QED
  BY <1>1, <1>2, <1>3, <1>4, <1>5

\* The timer tick preserves the types.
LEMMA TickType == ASSUME TypeOK, Tick PROVE TypeOK'
<1>1. /\ state \in [Procs -> States] /\ SwitchSafe(state)
      /\ current \in Procs /\ proc_pid \in Procs
  BY DEF TypeOK, Tick
<1>2. /\ sched_get_ready(state) \in Procs /\ ReadyLeft(state) \in Seq(Procs)
      /\ Len(ReadyLeft(state)) <= SCHED_MAX_READY
      /\ Switched(state) \in [Procs -> States]
  BY <1>1, SwitchType
<1>3. sched_get_dead \in Seq(Procs) /\ Len(sched_get_dead) <= SCHED_MAX_DEAD
  BY DeadType
<1>4. /\ current' \in Procs /\ crashed' \in BOOLEAN
      /\ int_no' \in [Procs -> {"irq", "syscall", "fault"}]
  BY <1>1, <1>2 DEF Tick, TypeOK, Saved
<1>5. in_service' \in BOOLEAN
  BY DEF Tick, clear_irq
<1>6. CASE Reaps
  <2> DEFINE v == Head(dead_queue)
             w == waiters[v]
             st == [p \in Procs |-> IF p = v THEN "FREED"
                               ELSE IF p = sched_get_ready(state) THEN "LIVING"
                               ELSE IF p \in Range(w) THEN "READY"
                               ELSE Switched(state)[p]]
             rq == EnqueueAll(Without(ReadyLeft(state), Range(w)), w, SCHED_MAX_READY)
  <2>1. v \in Procs
    BY <1>6, HeadTailRange DEF Reaps, TypeOK
  <2>2. w \in Seq(Procs)
    BY <2>1 DEF TypeOK
  <2>3. st \in [Procs -> States]
    BY <1>2 DEF States
  <2>4. rq \in Seq(Procs) /\ Len(rq) <= SCHED_MAX_READY
    BY <1>2, <2>2, WithoutType, EnqueueAllType, Constants
  <2>5. TickReap(v)
    BY <1>6 DEF Tick
  <2>6. sched_timekeeper(st, rq)
    BY <2>5 DEF TickReap
  <2>7. dead_queue' \in Seq(Procs) /\ Len(dead_queue') <= SCHED_MAX_DEAD
    BY <2>5, <1>3, WithoutType, DeadLeftType, Constants DEF TickReap
  <2>8. /\ state' \in [Procs -> States]
        /\ ready_queue' \in Seq(Procs) /\ Len(ready_queue') <= SCHED_MAX_READY
        /\ napping_list' \in Seq(Naps)
    <3> HIDE DEF st, rq
    <3> QED
      BY <2>3, <2>4, <2>6, TimekeeperType
  <2>9. waiters' \in [Procs -> Seq(Procs)]
    <3>1. << >> \in Seq(Procs)
      OBVIOUS
    <3> QED
      BY <2>5, <3>1 DEF TickReap, TypeOK
  <2>10. parent' \in [Procs -> 0..MaxPid]
    BY <2>1, <2>5 DEF TickReap, Orphaned, TypeOK
  <2>11. sub_trees' \in [Procs -> Seq(Procs)]
    <3>1. sub_trees' = [p \in Procs |->
                          IF p = parent[v] THEN Without(sub_trees[p], {v}) \o sub_trees[v]
                          ELSE IF p = v THEN << >> ELSE sub_trees[p]]
      BY <2>5 DEF TickReap, Orphaned
    <3>2. \A p \in Procs : sub_trees[p] \in Seq(Procs)
      BY DEF TypeOK
    <3>3. \A p \in Procs : Without(sub_trees[p], {v}) \in Seq(Procs)
      BY <3>2, WithoutRange DEF Without
    <3>4. \A p \in Procs : Without(sub_trees[p], {v}) \o sub_trees[v] \in Seq(Procs)
      BY <3>2, <3>3, <2>1, ConcatRange
    <3>5. << >> \in Seq(Procs)
      OBVIOUS
    <3> HIDE DEF v
    <3> QED
      BY <3>1, <3>2, <3>4, <3>5
  <2>12. proc_pid' \in Procs
    BY <2>5, <1>1 DEF TickReap
  <2> QED
    BY <1>4, <1>5, <2>7, <2>8, <2>9, <2>10, <2>11, <2>12 DEF TypeOK
<1>7. CASE ~Reaps
  <2>1. TickPlain
    BY <1>7 DEF Tick
  <2>2. /\ state' \in [Procs -> States]
        /\ ready_queue' \in Seq(Procs) /\ Len(ready_queue') <= SCHED_MAX_READY
        /\ napping_list' \in Seq(Naps)
    BY <2>1, <1>2, TimekeeperType DEF TickPlain
  <2>3. dead_queue' \in Seq(Procs) /\ Len(dead_queue') <= SCHED_MAX_DEAD
    BY <2>1, <1>3, DeadLeftType DEF TickPlain
  <2> QED
    BY <1>4, <1>5, <2>1, <2>2, <2>3 DEF TypeOK, TickPlain, tree
<1> QED
  BY <1>6, <1>7

\* So do the calls that end the process or replace its program.
LEMMA CallTypes ==
    ASSUME TypeOK,
           sysc_exit \/ sysc_execve \/ sysc_execve_fail \/ page_fault_kill
    PROVE  TypeOK'
<1>1. \E st \in [Procs -> States], n \in {"irq", "syscall", "fault"} :
        /\ Switch(st, Saved(n))
        /\ state' = Switched(st)
        /\ ready_queue' = ReadyLeft(st)
        /\ dead_queue' = DeadLeft(st, sched_get_dead)
        /\ UNCHANGED <<napping_list, waiters, tree, crashed>>
  <2>1. state \in [Procs -> States] /\ [state EXCEPT ![current] = "DEAD"] \in [Procs -> States]
    BY DEF TypeOK, States
  <2> QED
    BY <2>1 DEF sysc_exit, sysc_execve, sysc_execve_fail, page_fault_kill, Die
<1>2. PICK st \in [Procs -> States], n \in {"irq", "syscall", "fault"} :
        /\ Switch(st, Saved(n))
        /\ state' = Switched(st)
        /\ ready_queue' = ReadyLeft(st)
        /\ dead_queue' = DeadLeft(st, sched_get_dead)
        /\ UNCHANGED <<napping_list, waiters, tree, crashed>>
  BY <1>1
<1>3. SwitchSafe(st)
  BY <1>2 DEF Switch
<1>4. /\ current' \in Procs /\ state' \in [Procs -> States]
      /\ ready_queue' \in Seq(Procs) /\ Len(ready_queue') <= SCHED_MAX_READY
  BY <1>2, <1>3, SwitchType DEF Switch
<1>5. dead_queue' \in Seq(Procs) /\ Len(dead_queue') <= SCHED_MAX_DEAD
  BY <1>2, DeadType, DeadLeftType
<1>6. int_no' \in [Procs -> {"irq", "syscall", "fault"}]
  BY <1>2 DEF Switch, Saved, TypeOK
<1>7. in_service' \in BOOLEAN
  BY <1>2 DEF Switch, clear_irq, TypeOK
<1> QED
  BY <1>2, <1>4, <1>5, <1>6, <1>7 DEF TypeOK, tree

\* So do fork and spawn.
LEMMA CreateType ==
    ASSUME TypeOK, NEW n \in {"irq", "syscall"}, Create(n)
    PROVE  TypeOK'
<1> DEFINE child == proc_pid + 1
<1>1. child \in Procs
  BY Constants DEF Create, TypeOK, Procs
<1>2. ready_queue' \in Seq(Procs) /\ Len(ready_queue') <= SCHED_MAX_READY
  BY <1>1, EnqueueType, Constants DEF Create, TypeOK, sched_make_ready
<1>3. sub_trees' \in [Procs -> Seq(Procs)]
  <2>1. Append(sub_trees[current], child) \in Seq(Procs)
    BY <1>1 DEF TypeOK
  <2> QED
    BY <2>1 DEF Create, TypeOK
<1>4. parent' \in [Procs -> 0..MaxPid]
  <2>1. current \in 0..MaxPid /\ parent \in [Procs -> 0..MaxPid]
    BY Constants DEF TypeOK, Procs
  <2> QED
    BY <2>1 DEF Create
<1>5. int_no' \in [Procs -> {"irq", "syscall", "fault"}]
  BY DEF Create, TypeOK, Saved
<1>6. state' \in [Procs -> States] /\ proc_pid' \in Procs
  BY <1>1 DEF Create, TypeOK, States
<1> QED
  BY <1>2, <1>3, <1>4, <1>5, <1>6 DEF Create, TypeOK

\* The two calls that switch first and block the caller afterwards.
LEMMA BlockType ==
    ASSUME TypeOK, \/ \E pid \in WaitPids : sysc_wait(pid)
                   \/ \E t \in SleepTimes : sysc_sleep(t)
    PROVE  TypeOK'
<1> DEFINE st == Switched(state)
           rq == ReadyLeft(state)
           dq == DeadLeft(state, sched_get_dead)
<1>1. SwitchSafe(state) /\ state \in [Procs -> States] /\ current \in Procs
  BY DEF sysc_wait, sysc_sleep, Switch, TypeOK
<1>2. /\ sched_get_ready(state) \in Procs /\ st \in [Procs -> States]
      /\ rq \in Seq(Procs) /\ Len(rq) <= SCHED_MAX_READY
  BY <1>1, SwitchType
<1>3. dq \in Seq(Procs) /\ Len(dq) <= SCHED_MAX_DEAD
  BY DeadType, DeadLeftType
<1>4. /\ Without(rq, {current}) \in Seq(Procs)
      /\ Len(Without(rq, {current})) <= SCHED_MAX_READY
      /\ Without(dq, {current}) \in Seq(Procs)
      /\ Len(Without(dq, {current})) <= SCHED_MAX_DEAD
  <2> HIDE DEF rq, dq
  <2> QED
    BY <1>2, <1>3, WithoutType, Constants
<1>5. [st EXCEPT ![current] = "NAPPING"] \in [Procs -> States]
  BY <1>2 DEF States
<1>6. Switch(state, Saved("syscall"))
  BY DEF sysc_wait, sysc_sleep
<1>7. /\ current' \in Procs /\ in_service' \in BOOLEAN
      /\ int_no' \in [Procs -> {"irq", "syscall", "fault"}]
  BY <1>2, <1>6 DEF Switch, Saved, clear_irq, TypeOK
<1> HIDE DEF st, rq, dq
<1>8. CASE \E pid \in WaitPids : sysc_wait(pid)
  <2>1. PICK pid \in WaitPids : sysc_wait(pid)
    BY <1>8
  <2>2. /\ state' \in {st, [st EXCEPT ![current] = "NAPPING"]}
        /\ ready_queue' \in {rq, Without(rq, {current})}
        /\ dead_queue' \in {dq, Without(dq, {current})}
        /\ waiters' \in {waiters, [waiters EXCEPT ![pid] = Append(@, current)]}
        /\ UNCHANGED <<napping_list, tree, crashed>>
    BY <2>1 DEF sysc_wait, st, rq, dq
  <2>3. waiters' \in [Procs -> Seq(Procs)]
    <3>1. pid \in Procs
      BY Constants
    <3>2. Append(waiters[pid], current) \in Seq(Procs)
      BY <1>1, <3>1 DEF TypeOK
    <3> QED
      BY <2>2, <3>1, <3>2 DEF TypeOK
  <2> QED
    BY <1>2, <1>3, <1>4, <1>5, <1>7, <2>2, <2>3 DEF TypeOK, tree
<1>9. CASE \E t \in SleepTimes : sysc_sleep(t)
  <2>1. PICK t \in SleepTimes : sysc_sleep(t)
    BY <1>9
  <2>2. /\ state' \in {st, [st EXCEPT ![current] = "NAPPING"]}
        /\ ready_queue' \in {rq, Without(rq, {current})}
        /\ dead_queue' \in {dq, Without(dq, {current})}
        /\ napping_list' \in {napping_list, Append(napping_list,
                                [process |-> current, counter |-> t])}
        /\ UNCHANGED <<waiters, tree, crashed>>
    BY <2>1 DEF sysc_sleep, st, rq, dq
  <2>3. napping_list' \in Seq(Naps)
    <3>1. [process |-> current, counter |-> t] \in Naps
      BY <1>1, Constants DEF Naps
    <3>2. napping_list \in Seq(Naps)
      BY DEF TypeOK
    <3>3. Append(napping_list, [process |-> current, counter |-> t]) \in Seq(Naps)
      BY <3>1, <3>2, AppendRange
    <3> QED
      BY <2>2, <3>2, <3>3
  <2> QED
    BY <1>2, <1>3, <1>4, <1>5, <1>7, <2>2, <2>3 DEF TypeOK, tree
<1> QED
  BY <1>8, <1>9

\* So does wakeup.
LEMMA WakeupType ==
    ASSUME TypeOK, NEW pid \in Procs, sysc_wakeup(pid)
    PROVE  TypeOK'
<1>1. PICK i \in DOMAIN napping_list : napping_list' = Drop(napping_list, i)
  BY DEF sysc_wakeup
<1>2. napping_list' \in Seq(Naps)
  <2> DEFINE n == Len(napping_list) - 1
             e(j) == IF j < i THEN napping_list[j] ELSE napping_list[j + 1]
  <2>1. napping_list \in Seq(Naps) /\ i \in 1..Len(napping_list) /\ n \in Nat
    BY DEF TypeOK
  <2>2. \A j \in 1..n : e(j) \in Naps
    BY <2>1
  <2>3. napping_list' = [j \in 1..n |-> e(j)]
    BY <1>1 DEF Drop
  <2> HIDE DEF n, e
  <2> QED
    BY <2>1, <2>2, <2>3
<1>3. /\ Without(ready_queue, {pid}) \in Seq(Procs)
      /\ Len(Without(ready_queue, {pid})) <= SCHED_MAX_READY
  BY WithoutType, Constants DEF TypeOK
<1>4. ready_queue' \in Seq(Procs) /\ Len(ready_queue') <= SCHED_MAX_READY
  BY <1>3, EnqueueType, Constants DEF sysc_wakeup, sched_make_ready
<1>5. dead_queue' \in Seq(Procs) /\ Len(dead_queue') <= SCHED_MAX_DEAD
  BY WithoutType, Constants DEF TypeOK, sysc_wakeup
<1>6. state' \in [Procs -> States]
  BY DEF TypeOK, sysc_wakeup, States
<1> QED
  BY <1>2, <1>4, <1>5, <1>6 DEF TypeOK, sysc_wakeup, Saved, tree

\* So does kill.
LEMMA KillType ==
    ASSUME TypeOK, NEW pid \in KillPids, sysc_kill(pid)
    PROVE  TypeOK'
<1>1. pid \in Procs
  BY Constants
<1>2. ready_queue' \in Seq(Procs) /\ Len(ready_queue') <= SCHED_MAX_READY
  BY WithoutType, Constants DEF TypeOK, sysc_kill
<1>3. /\ Without(dead_queue, {pid}) \in Seq(Procs)
      /\ Len(Without(dead_queue, {pid})) <= SCHED_MAX_DEAD
  BY WithoutType, Constants DEF TypeOK
<1>4. dead_queue' \in Seq(Procs) /\ Len(dead_queue') <= SCHED_MAX_DEAD
  BY <1>1, <1>3, EnqueueType, Constants DEF sysc_kill, sched_make_dead
<1>5. state' \in [Procs -> States]
  BY DEF TypeOK, sysc_kill, States
<1> QED
  BY <1>2, <1>4, <1>5 DEF TypeOK, sysc_kill, Saved, tree

\* The state boot leaves is well typed.
LEMMA InitType == Init => TypeOK
<1> SUFFICES ASSUME Init PROVE TypeOK
  OBVIOUS
<1>1. Kernel \in Procs /\ Init_pid \in Procs /\ MaxPid \in Nat
  BY Constants
<1>2. /\ state \in [Procs -> States] /\ proc_pid \in Procs
      /\ current \in Procs /\ in_service \in BOOLEAN /\ crashed \in BOOLEAN
      /\ int_no \in [Procs -> {"irq", "syscall", "fault"}]
  BY <1>1 DEF Init, States
<1>3. ready_queue \in Seq(Procs) /\ Len(ready_queue) <= SCHED_MAX_READY
  BY <1>1, Constants DEF Init
<1>4. /\ dead_queue \in Seq(Procs) /\ Len(dead_queue) <= SCHED_MAX_DEAD
      /\ napping_list \in Seq(Naps) /\ waiters \in [Procs -> Seq(Procs)]
  BY Constants DEF Init
<1>5. parent \in [Procs -> 0..MaxPid]
  BY <1>1 DEF Init, Kernel, NoParent, Procs
<1>6. sub_trees \in [Procs -> Seq(Procs)]
  <2>1. << >> \in Seq(Procs) /\ <<Init_pid>> \in Seq(Procs)
    BY <1>1
  <2> QED
    BY <2>1 DEF Init
<1> QED
  BY <1>2, <1>3, <1>4, <1>5, <1>6 DEF TypeOK

\* Every step preserves the types.
LEMMA NextType == TypeOK /\ [Next]_vars => TypeOK'
<1> SUFFICES ASSUME TypeOK, [Next]_vars PROVE TypeOK'
  OBVIOUS
<1>1. CASE Tick
  BY <1>1, TickType
<1>2. CASE sysc_exit \/ sysc_execve \/ sysc_execve_fail \/ page_fault_kill
  BY <1>2, CallTypes
<1>3. CASE sysc_fork \/ sysc_spawn
  BY <1>3, CreateType DEF sysc_fork, sysc_spawn
<1>4. CASE \/ \E pid \in WaitPids : sysc_wait(pid)
           \/ \E t \in SleepTimes : sysc_sleep(t)
  BY <1>4, BlockType
<1>5. CASE \E pid \in Procs : sysc_wakeup(pid)
  BY <1>5, WakeupType
<1>6. CASE \E pid \in KillPids : sysc_kill(pid)
  BY <1>6, KillType
<1>7. CASE Crash
  BY <1>7 DEF Crash, TypeOK, tree
<1>8. CASE UNCHANGED vars
  BY <1>8 DEF vars, TypeOK
<1> QED
  BY <1>1, <1>2, <1>3, <1>4, <1>5, <1>6, <1>7, <1>8 DEF Next

\* Whatever system calls programs make, kills of any process included, the
\* scheduler's queues stay within their capacity and hold processes, and
\* every field of the process table keeps its type.
THEOREM TypeCorrect == Spec => []TypeOK
<1>1. Init => TypeOK
  BY InitType
<1>2. TypeOK /\ [Next]_vars => TypeOK'
  BY NextType
<1> QED
  BY <1>1, <1>2, PTL DEF Spec

-----------------------------------------------------------------------------
(* The pieces.                                                             *)

\* queue_enqueue adds at most the one element, and no repetition.
LEMMA EnqueueRange ==
    ASSUME NEW T, NEW q \in Seq(T), NEW x \in T, NEW limit \in Nat
    PROVE  /\ Range(queue_enqueue(q, x, limit)) \subseteq Range(q) \cup {x}
           /\ IsInjective(q) /\ x \notin Range(q)
                => IsInjective(queue_enqueue(q, x, limit))
BY AppendRange DEF queue_enqueue

\* The states of processes the scheduler holds are those of allocated ones.
LEMMA HeldAllocated ==
    ASSUME SchedulerInv
    PROVE  /\ current \in Procs /\ state[current] = "LIVING"
           /\ current \notin Range(ready_queue) /\ current \notin Range(dead_queue)
           /\ current \notin Nappers /\ current \notin Waiting
           /\ \A p \in Range(ready_queue) : p \in Procs /\ state[p] = "READY"
           /\ \A p \in Nappers : p \in Procs /\ state[p] = "NAPPING"
           /\ \A p \in Waiting : p \in Procs /\ state[p] = "NAPPING"
           /\ \A p \in Range(dead_queue) : p \in Procs /\ state[p] = "DEAD" /\ p # Kernel
<1>1. /\ TypeOK /\ StateMatchesPlace /\ DeadAwaitDestruction
  BY DEF SchedulerInv, Placement
<1>2. current \in Procs /\ state[current] = "LIVING"
  <2>1. current \in Procs
    BY <1>1 DEF TypeOK
  <2> QED
    BY <1>1, <2>1 DEF StateMatchesPlace
<1>3. Range(ready_queue) \subseteq Procs /\ Range(dead_queue) \subseteq Procs
  <2>1. ready_queue \in Seq(Procs) /\ dead_queue \in Seq(Procs)
    BY <1>1 DEF TypeOK
  <2>2. \A q \in Seq(Procs) : Range(q) \subseteq Procs
    BY DEF Range
  <2> QED
    BY <2>1, <2>2
<1>4. Waiting \subseteq Procs
  BY <1>1 DEF TypeOK, Waiting, Range
<1>5. Nappers \subseteq Procs
  <2>1. napping_list \in Seq(Naps)
    BY <1>1 DEF TypeOK
  <2>2. \A i \in DOMAIN napping_list : napping_list[i] \in Naps
    BY <2>1
  <2> QED
    BY <2>2 DEF Nappers, Naps
<1>6. \A p \in Procs : /\ state[p] = "READY" <=> p \in Range(ready_queue)
                       /\ state[p] = "NAPPING" <=> p \in Nappers \cup Waiting
  BY <1>1 DEF StateMatchesPlace
<1>7. \A p \in Range(dead_queue) : state[p] = "DEAD" /\ p # Kernel
  BY <1>1 DEF DeadAwaitDestruction
<1> QED
  BY <1>2, <1>3, <1>4, <1>5, <1>6, <1>7

\* A switch away from a running process requeues it behind the ready ones.
LEMMA SwitchLiving ==
    ASSUME SchedulerInv, Disciplined
    PROVE  LET next == sched_get_ready(state)
               all  == Range(ready_queue) \cup {current}
           IN  /\ SwitchSafe(state)
               /\ next \in all
               /\ Range(ReadyLeft(state)) = all \ {next}
               /\ IsInjective(ReadyLeft(state))
               /\ ReadyLeft(state) \in Seq(Procs)
<1> DEFINE next == sched_get_ready(state)
           all == Range(ready_queue) \cup {current}
<1>1. /\ current \in Procs /\ state[current] = "LIVING"
      /\ current \notin Range(ready_queue)
      /\ \A p \in Range(ready_queue) : p \in Procs /\ state[p] = "READY"
  BY HeldAllocated
<1>2. ready_queue \in Seq(Procs) /\ IsInjective(ready_queue)
  BY DEF SchedulerInv, TypeOK, Placement, HeldOnce
<1>3. Requeued(state) = Append(ready_queue, current)
  BY <1>1, <1>2, EnqueueFits, Constants
  DEF Requeued, sched_make_ready, Disciplined, Procs
<1>4. /\ Requeued(state) \in Seq(Procs) /\ Range(Requeued(state)) = all
      /\ IsInjective(Requeued(state))
  BY <1>1, <1>2, <1>3, AppendRange
<1>5. Requeued(state) # << >>
  BY <1>1, <1>2, <1>3
<1>6. /\ next \in all /\ ReadyLeft(state) \in Seq(Procs)
      /\ all = Range(ReadyLeft(state)) \cup {next}
      /\ IsInjective(ReadyLeft(state)) /\ next \notin Range(ReadyLeft(state))
  BY <1>4, <1>5, HeadTailRange DEF sched_get_ready, ReadyLeft
<1>7. Allocated(next)
  BY <1>1, <1>6 DEF Allocated
<1> QED
  BY <1>5, <1>6, <1>7 DEF SwitchSafe

\* A switch away from a user process that dies only takes from the queue.
LEMMA SwitchDying ==
    ASSUME SchedulerInv, current # Kernel,
           NEW st, st = [state EXCEPT ![current] = "DEAD"]
    PROVE  LET next == sched_get_ready(st)
           IN  /\ SwitchSafe(st)
               /\ next \in Range(ready_queue)
               /\ Range(ReadyLeft(st)) = Range(ready_queue) \ {next}
               /\ IsInjective(ReadyLeft(st))
               /\ ReadyLeft(st) \in Seq(Procs)
<1> DEFINE next == sched_get_ready(st)
<1>1. /\ current \in Procs
      /\ \A p \in Range(ready_queue) : p \in Procs /\ state[p] = "READY"
  BY HeldAllocated
<1>2. /\ ready_queue \in Seq(Procs) /\ IsInjective(ready_queue)
      /\ state \in [Procs -> States]
  BY DEF SchedulerInv, TypeOK, Placement, HeldOnce
<1>3. Requeued(st) = ready_queue
  BY <1>1, <1>2 DEF Requeued
<1>4. Kernel \in Range(ready_queue)
  BY Constants DEF SchedulerInv, KernelStays, Placement, StateMatchesPlace
<1>5. ready_queue # << >>
  BY <1>4 DEF Range
<1>6. /\ next \in Range(ready_queue) /\ ReadyLeft(st) \in Seq(Procs)
      /\ Range(ready_queue) = Range(ReadyLeft(st)) \cup {next}
      /\ IsInjective(ReadyLeft(st)) /\ next \notin Range(ReadyLeft(st))
  BY <1>2, <1>3, <1>5, HeadTailRange DEF sched_get_ready, ReadyLeft
<1>7. Allocated(next)
  BY <1>1, <1>6 DEF Allocated
<1> QED
  BY <1>3, <1>5, <1>6, <1>7 DEF SwitchSafe

\* The dead queue loses its head at every switch.
LEMMA DeadRange ==
    ASSUME SchedulerInv
    PROVE  /\ sched_get_dead \in Seq(Procs)
           /\ Range(sched_get_dead) \subseteq Range(dead_queue)
           /\ IsInjective(sched_get_dead)
           /\ dead_queue # << >> => /\ Head(dead_queue) \in Range(dead_queue)
                                    /\ Head(dead_queue) \notin Range(sched_get_dead)
<1>1. dead_queue \in Seq(Procs) /\ IsInjective(dead_queue)
  BY DEF SchedulerInv, TypeOK, Placement, HeldOnce
<1>2. CASE dead_queue = << >>
  BY <1>2, <1>1 DEF sched_get_dead
<1>3. CASE dead_queue # << >>
  BY <1>3, <1>1, HeadTailRange DEF sched_get_dead
<1> QED
  BY <1>2, <1>3

\* A running process leaves the dead queue alone when it is switched away.
LEMMA DeadLeftLiving ==
    ASSUME SchedulerInv, NEW dq PROVE DeadLeft(state, dq) = dq
BY HeldAllocated DEF DeadLeft

\* sched_timekeeper wakes napping processes, each once, and keeps the others.
LEMMA NappingFacts ==
    ASSUME TypeOK, NapsOnce
    PROVE  /\ Woken \in Seq(Procs) /\ IsInjective(Woken)
           /\ Range(Woken) \subseteq Nappers
           /\ \A i, j \in DOMAIN Napping :
                Napping[i].process = Napping[j].process => i = j
           /\ {Napping[i].process : i \in DOMAIN Napping} = Nappers \ Range(Woken)
<1> DEFINE N == Range(napping_list)
           E == {t \in N : t.counter <= 1}
           K == {t \in N : t.counter > 1}
<1>1. napping_list \in Seq(Naps) /\ \A i \in DOMAIN napping_list : napping_list[i] \in Naps
  BY DEF TypeOK
<1>2. \A t \in N : t.counter \in Int /\ t.process \in Procs
  BY <1>1 DEF Range, Naps
<1>3. IsInjective(napping_list)
  BY DEF NapsOnce, IsInjective
<1>4. \A t, u \in N : t.process = u.process => t = u
  BY DEF NapsOnce, Range
<1>5. /\ Expired \in Seq(Naps) /\ Range(Expired) = E /\ IsInjective(Expired)
      /\ Napping \in Seq(Naps) /\ Range(Napping) = K /\ IsInjective(Napping)
  BY <1>1, <1>3, KeepRange DEF Expired, Napping
<1>6. Nappers = {t.process : t \in N}
  BY DEF Nappers, Range
<1> HIDE DEF N
<1>7. Range(Woken) = {t.process : t \in E}
  BY <1>5 DEF Woken, Range
<1>8. {Napping[i].process : i \in DOMAIN Napping} = {t.process : t \in K}
  BY <1>5 DEF Range
<1>9. IsInjective(Woken)
  <2> SUFFICES ASSUME NEW a \in DOMAIN Expired, NEW b \in DOMAIN Expired,
                      Expired[a].process = Expired[b].process
               PROVE  a = b
    BY DEF Woken, IsInjective
  <2>1. Expired[a] \in N /\ Expired[b] \in N
    BY <1>5 DEF Range
  <2>2. Expired[a] = Expired[b]
    BY <2>1, <1>4
  <2> QED
    BY <2>2, <1>5 DEF IsInjective
<1>10. \A i, j \in DOMAIN Napping : Napping[i].process = Napping[j].process => i = j
  <2> SUFFICES ASSUME NEW a \in DOMAIN Napping, NEW b \in DOMAIN Napping,
                      Napping[a].process = Napping[b].process
               PROVE  a = b
    OBVIOUS
  <2>1. Napping[a] \in N /\ Napping[b] \in N
    BY <1>5 DEF Range
  <2>2. Napping[a] = Napping[b]
    BY <2>1, <1>4
  <2> QED
    BY <2>2, <1>5 DEF IsInjective
<1>11. {t.process : t \in K} = Nappers \ Range(Woken)
  <2>1. N = E \cup K /\ E \cap K = {}
    BY <1>2
  <2> QED
    BY <2>1, <1>4, <1>6, <1>7
<1> QED
  BY <1>6, <1>7, <1>8, <1>9, <1>10, <1>11, NappingType

\* Who the timekeeper wakes, and who keeps napping.
LEMMA TimekeeperFacts ==
    ASSUME TypeOK, NapsOnce, MaxPid <= SCHED_MAX_READY,
           NEW st \in [Procs -> States], NEW rq \in Seq(Procs),
           IsInjective(rq), Range(rq) \cap Nappers = {},
           sched_timekeeper(st, rq)
    PROVE  /\ IsInjective(ready_queue')
           /\ Range(ready_queue') = Range(rq) \cup Range(Woken)
           /\ NapsOnce'
           /\ Nappers' = Nappers \ Range(Woken)
           /\ \A p \in Procs : state'[p] = IF p \in Range(Woken) THEN "READY" ELSE st[p]
<1>1. /\ Woken \in Seq(Procs) /\ IsInjective(Woken)
      /\ Range(Woken) \subseteq Nappers
      /\ \A i, j \in DOMAIN Napping : Napping[i].process = Napping[j].process => i = j
      /\ {Napping[i].process : i \in DOMAIN Napping} = Nappers \ Range(Woken)
  BY NappingFacts
<1>2. ready_queue' = rq \o Woken
  <2>1. ready_queue' = EnqueueAll(rq, Woken, SCHED_MAX_READY)
    BY DEF sched_timekeeper
  <2>2. /\ MaxPid \in Nat /\ SCHED_MAX_READY \in Nat
        /\ rq \in Seq(1..MaxPid) /\ Woken \in Seq(1..MaxPid)
    BY <1>1, Constants DEF Procs
  <2>3. Range(rq) \cap Range(Woken) = {} /\ IsInjective(Woken)
    BY <1>1
  <2>4. ASSUME NEW w \in Seq(1..MaxPid), IsInjective(w), Range(rq) \cap Range(w) = {}
        PROVE  EnqueueAll(rq, w, SCHED_MAX_READY) = rq \o w
    BY <2>2, <2>4, EnqueueAllFits
  <2>5. EnqueueAll(rq, Woken, SCHED_MAX_READY) = rq \o Woken
    BY <2>2, <2>3, <2>4
  <2> QED
    BY <2>1, <2>5
<1>3. /\ IsInjective(ready_queue')
      /\ Range(ready_queue') = Range(rq) \cup Range(Woken)
  BY <1>1, <1>2, ConcatRange
<1>4. /\ DOMAIN napping_list' = DOMAIN Napping
      /\ \A i \in DOMAIN Napping : napping_list'[i].process = Napping[i].process
  BY DEF sched_timekeeper
<1>5. NapsOnce' /\ Nappers' = Nappers \ Range(Woken)
  <2>1. NapsOnce'
    BY <1>1, <1>4 DEF NapsOnce
  <2>2. Nappers' = {napping_list'[i].process : i \in DOMAIN napping_list'}
    BY DEF Nappers
  <2>3. Nappers' = {Napping[i].process : i \in DOMAIN Napping}
    BY <2>2, <1>4
  <2> QED
    BY <2>1, <2>3, <1>1
<1>6. \A p \in Procs : state'[p] = IF p \in Range(Woken) THEN "READY" ELSE st[p]
  BY DEF sched_timekeeper
<1> QED
  BY <1>3, <1>5, <1>6

\* A step that creates and destroys no process leaves the tree in order.
LEMMA TreeFrame ==
    ASSUME SchedulerInv, UNCHANGED tree,
           \A p \in Procs : state'[p] # state[p] => Allocated(p) /\ Allocated(p)'
    PROVE  TreeMatchesParents' /\ PidsInOrder'
<1>1. \A p \in Procs : Allocated(p)' <=> Allocated(p)
  BY DEF Allocated
<1>2. \A p \in Procs : state'[p] = "UNBORN" <=> state[p] = "UNBORN"
  BY DEF Allocated
<1>3. TypeOK /\ TreeMatchesParents /\ PidsInOrder
  BY DEF SchedulerInv
<1>4. \A p \in Procs : Allocated(p) /\ p # Kernel => parent[p] \in Procs
  BY <1>3 DEF TreeMatchesParents
<1>5. TreeMatchesParents'
  BY <1>1, <1>3, <1>4 DEF TreeMatchesParents, tree
<1>6. PidsInOrder'
  BY <1>1, <1>2, <1>3 DEF PidsInOrder, tree
<1> QED
  BY <1>5, <1>6

\* proc_find only returns processes that exist.
LEMMA FindAllocated ==
    ASSUME SchedulerInv, NEW pid \in Procs, proc_find(pid)
    PROVE  Allocated(pid)
<1> DEFINE S == {p \in Procs : Allocated(p)}
<1>1. Kernel \in S
  BY Constants DEF SchedulerInv, KernelStays, Allocated
<1>2. ASSUME NEW q \in S, sub_trees[q] # << >> PROVE Head(sub_trees[q]) \in S
  <2>1. sub_trees[q] \in Seq(Procs)
    BY DEF SchedulerInv, TypeOK
  <2>2. Head(sub_trees[q]) \in Range(sub_trees[q]) /\ Head(sub_trees[q]) \in Procs
    BY <2>1, <1>2, HeadTailRange
  <2> QED
    BY <2>2 DEF SchedulerInv, TreeMatchesParents
<1>3. S \in SUBSET Procs
  OBVIOUS
<1> HIDE DEF S
<1>4. pid \in S
  BY <1>1, <1>2, <1>3 DEF proc_find
<1> QED
  BY <1>4 DEF S

-----------------------------------------------------------------------------
(* One lemma for each action.                                              *)

\* After a switch the process taken from the ready queue, and no other, is LIVING.
LEMMA SwitchedLiving ==
    ASSUME SchedulerInv, NEW p \in Procs
    PROVE  Switched(state)[p] = IF p = sched_get_ready(state) THEN "LIVING"
                                ELSE IF p = current THEN "READY" ELSE state[p]
BY HeldAllocated DEF Switched

\* A process that exits, fails to execve or faults preserves the invariant.
LEMMA DieInv ==
    ASSUME SchedulerInv, Disciplined, current # Kernel,
           NEW n \in {"syscall", "fault"}, Die(n), TypeOK'
    PROVE  SchedulerInv'
<1> DEFINE st == [state EXCEPT ![current] = "DEAD"]
           next == sched_get_ready(st)
<1>0. state \in [Procs -> States] /\ TypeOK
  BY DEF SchedulerInv, TypeOK
<1>1. /\ current \in Procs /\ state[current] = "LIVING"
      /\ current \notin Range(ready_queue) /\ current \notin Range(dead_queue)
      /\ current \notin Nappers /\ current \notin Waiting
      /\ \A p \in Range(ready_queue) : p \in Procs /\ state[p] = "READY"
      /\ \A p \in Range(dead_queue) : p \in Procs /\ state[p] = "DEAD" /\ p # Kernel
  BY HeldAllocated
<1>2. /\ next \in Range(ready_queue)
      /\ Range(ReadyLeft(st)) = Range(ready_queue) \ {next}
      /\ IsInjective(ReadyLeft(st))
  BY SwitchDying
<1>3. /\ current' = next /\ state' = Switched(st) /\ ready_queue' = ReadyLeft(st)
      /\ dead_queue' = sched_make_dead(sched_get_dead, current)
      /\ UNCHANGED <<napping_list, waiters, tree, crashed>>
  BY <1>0, <1>1 DEF Die, Switch, DeadLeft
<1>4. \A p \in Procs : state'[p] = IF p = next THEN "LIVING"
                                   ELSE IF p = current THEN "DEAD" ELSE state[p]
  BY <1>0, <1>1, <1>3 DEF Switched
<1> HIDE DEF st, next
<1>5. /\ Range(dead_queue') \subseteq Range(dead_queue) \cup {current}
      /\ IsInjective(dead_queue')
  <2>1. /\ sched_get_dead \in Seq(Procs) /\ IsInjective(sched_get_dead)
        /\ Range(sched_get_dead) \subseteq Range(dead_queue)
    BY DeadRange
  <2> QED
    BY <2>1, <1>1, <1>3, EnqueueRange, Constants DEF sched_make_dead
<1>6. Nappers' = Nappers /\ Waiting' = Waiting
  BY <1>3 DEF Nappers, Waiting
<1>7. StateMatchesPlace /\ HeldOnce
  BY DEF SchedulerInv, Placement
<1>8. StateMatchesPlace'
  BY <1>1, <1>2, <1>3, <1>4, <1>6, <1>7 DEF StateMatchesPlace
<1>9. HeldOnce'
  BY <1>2, <1>3, <1>5, <1>6, <1>7 DEF HeldOnce, NapsOnce, WaitsOnce
<1>10. DeadAwaitDestruction'
  BY <1>1, <1>2, <1>4, <1>5 DEF DeadAwaitDestruction
<1>11. \A p \in Procs : state'[p] # state[p] => Allocated(p) /\ Allocated(p)'
  BY <1>1, <1>2, <1>4 DEF Allocated
<1>12. TreeMatchesParents' /\ PidsInOrder'
  BY <1>3, <1>11, TreeFrame
<1>13. WaitedForExists'
  BY <1>3, <1>11 DEF SchedulerInv, WaitedForExists, Allocated
<1>14. KernelStays' /\ NeverCrashed'
  BY <1>3, <1>4, Constants DEF SchedulerInv, KernelStays, NeverCrashed
<1> QED
  BY <1>8, <1>9, <1>10, <1>12, <1>13, <1>14 DEF SchedulerInv, Placement

\* A switch to the next process that does nothing else.
LEMMA SwitchInv ==
    ASSUME SchedulerInv, Disciplined, TypeOK', NEW regs, Switch(state, regs),
           state' = Switched(state), ready_queue' = ReadyLeft(state),
           dead_queue' = DeadLeft(state, sched_get_dead),
           UNCHANGED <<napping_list, waiters, tree, crashed>>
    PROVE  SchedulerInv'
<1> DEFINE next == sched_get_ready(state)
           all == Range(ready_queue) \cup {current}
<1>1. /\ current \in Procs /\ state[current] = "LIVING"
      /\ current \notin Range(ready_queue) /\ current \notin Range(dead_queue)
      /\ current \notin Nappers /\ current \notin Waiting
      /\ \A p \in Range(ready_queue) : p \in Procs /\ state[p] = "READY"
      /\ \A p \in Range(dead_queue) : p \in Procs /\ state[p] = "DEAD" /\ p # Kernel
  BY HeldAllocated
<1>2. /\ next \in all /\ Range(ReadyLeft(state)) = all \ {next}
      /\ IsInjective(ReadyLeft(state))
  BY SwitchLiving
<1>3. /\ current' = next /\ state' = Switched(state)
      /\ ready_queue' = ReadyLeft(state) /\ dead_queue' = sched_get_dead
      /\ UNCHANGED <<napping_list, waiters, tree, crashed>>
  BY DeadLeftLiving DEF Switch
<1>4. \A p \in Procs : state'[p] = IF p = next THEN "LIVING"
                                   ELSE IF p = current THEN "READY" ELSE state[p]
  BY <1>3, SwitchedLiving
<1> HIDE DEF next
<1>5. Range(dead_queue') \subseteq Range(dead_queue) /\ IsInjective(dead_queue')
  BY <1>3, DeadRange
<1>6. Nappers' = Nappers /\ Waiting' = Waiting
  BY <1>3 DEF Nappers, Waiting
<1>7. StateMatchesPlace /\ HeldOnce
  BY DEF SchedulerInv, Placement
<1>8. StateMatchesPlace'
  BY <1>1, <1>2, <1>3, <1>4, <1>6, <1>7 DEF StateMatchesPlace
<1>9. HeldOnce'
  BY <1>2, <1>3, <1>5, <1>6, <1>7 DEF HeldOnce, NapsOnce, WaitsOnce
<1>10. DeadAwaitDestruction'
  BY <1>1, <1>2, <1>4, <1>5 DEF DeadAwaitDestruction
<1>11. \A p \in Procs : state'[p] # state[p] => Allocated(p) /\ Allocated(p)'
  BY <1>1, <1>2, <1>4 DEF Allocated
<1>12. TreeMatchesParents' /\ PidsInOrder'
  BY <1>3, <1>11, TreeFrame
<1>13. WaitedForExists'
  BY <1>3, <1>11 DEF SchedulerInv, WaitedForExists, Allocated
<1>14. KernelStays' /\ NeverCrashed'
  BY <1>3, <1>4, Constants DEF SchedulerInv, KernelStays, NeverCrashed
<1> QED
  BY <1>8, <1>9, <1>10, <1>12, <1>13, <1>14 DEF SchedulerInv, Placement

\* fork and spawn preserve the invariant.
LEMMA CreateInv ==
    ASSUME SchedulerInv, Disciplined, NEW n \in {"irq", "syscall"}, Create(n), TypeOK'
    PROVE  SchedulerInv'
<1> DEFINE child == proc_pid + 1
<1>0. /\ TypeOK /\ StateMatchesPlace /\ HeldOnce /\ PidsInOrder
      /\ TreeMatchesParents /\ state \in [Procs -> States]
      /\ proc_pid \in Procs /\ parent \in [Procs -> 0..MaxPid]
      /\ sub_trees \in [Procs -> Seq(Procs)] /\ ready_queue \in Seq(Procs)
  BY DEF SchedulerInv, Placement, TypeOK
<1>1. /\ current \in Procs /\ state[current] = "LIVING"
      /\ \A p \in Range(ready_queue) : p \in Procs /\ state[p] = "READY"
      /\ \A p \in Nappers : state[p] = "NAPPING"
      /\ \A p \in Waiting : state[p] = "NAPPING"
      /\ \A p \in Range(dead_queue) : p \in Procs /\ state[p] = "DEAD" /\ p # Kernel
  BY HeldAllocated
<1>2. /\ child \in Procs /\ child # Kernel /\ child > proc_pid
      /\ \A p \in Procs : p > child <=> (p > proc_pid /\ p # child)
  BY <1>0, Constants DEF Create, Procs, Kernel
<1>3. state[child] = "UNBORN" /\ child # current
  BY <1>0, <1>1, <1>2 DEF PidsInOrder
<1>4. ready_queue' = Append(ready_queue, child)
  <2>1. child \notin Range(ready_queue) /\ IsInjective(ready_queue)
    BY <1>0, <1>1, <1>2, <1>3 DEF HeldOnce
  <2>2. ready_queue' = queue_enqueue(ready_queue, child, SCHED_MAX_READY)
    BY DEF Create, sched_make_ready
  <2>3. /\ ready_queue \in Seq(1..MaxPid) /\ child \in 1..MaxPid
        /\ MaxPid <= SCHED_MAX_READY /\ MaxPid \in Nat /\ SCHED_MAX_READY \in Nat
    BY <1>0, <1>2, Constants DEF Procs, Disciplined
  <2> HIDE DEF child
  <2> QED
    BY <2>1, <2>2, <2>3, EnqueueFits
<1>5. /\ Range(ready_queue') = Range(ready_queue) \cup {child}
      /\ IsInjective(ready_queue')
  BY <1>0, <1>1, <1>2, <1>3, <1>4, AppendRange DEF HeldOnce
<1>6. /\ state' = [state EXCEPT ![child] = "READY"] /\ proc_pid' = child
      /\ parent' = [parent EXCEPT ![child] = current]
      /\ sub_trees' = [sub_trees EXCEPT ![current] = Append(@, child)]
      /\ UNCHANGED <<dead_queue, napping_list, waiters, current, crashed>>
  BY DEF Create
<1> HIDE DEF child
<1>7. Nappers' = Nappers /\ Waiting' = Waiting
  BY <1>6 DEF Nappers, Waiting
<1>8. \A p \in Procs : state'[p] = IF p = child THEN "READY" ELSE state[p]
  BY <1>0, <1>6
<1>9. StateMatchesPlace'
  BY <1>0, <1>1, <1>2, <1>3, <1>5, <1>6, <1>7, <1>8 DEF StateMatchesPlace
<1>10. HeldOnce'
  BY <1>0, <1>5, <1>6, <1>7 DEF HeldOnce, NapsOnce, WaitsOnce
<1>11. DeadAwaitDestruction'
  BY <1>1, <1>3, <1>6, <1>8 DEF DeadAwaitDestruction
<1>12. WaitedForExists'
  BY <1>6, <1>8 DEF SchedulerInv, WaitedForExists, Allocated
<1>13. KernelStays' /\ NeverCrashed'
  BY <1>6, <1>8, Constants DEF SchedulerInv, KernelStays, NeverCrashed
<1>14. \A p \in Procs : Allocated(p)' <=> (Allocated(p) \/ p = child)
  BY <1>8 DEF Allocated
<1>15. Allocated(current) /\ ~Allocated(child)
  BY <1>1, <1>3 DEF Allocated
<1>16. PidsInOrder'
  <2>1. \A p \in Procs : state'[p] = "UNBORN" <=> p > proc_pid'
    BY <1>0, <1>2, <1>6, <1>8 DEF PidsInOrder
  <2>2. current <= proc_pid
    BY <1>0, <1>1, Constants DEF PidsInOrder, Procs
  <2>3. current < child
    BY <2>2, <1>0, <1>1, <1>2, Constants DEF Procs
  <2>4. \A p \in Procs : Allocated(p)' /\ p # Kernel => parent'[p] < p
    BY <2>3, <1>0, <1>6, <1>14 DEF PidsInOrder
  <2> QED
    BY <2>1, <2>4 DEF PidsInOrder
<1>17. TreeMatchesParents'
  <2>1. /\ Range(Append(sub_trees[current], child)) = Range(sub_trees[current]) \cup {child}
        /\ child \notin Range(sub_trees[current])
    BY <1>0, <1>1, <1>2, <1>15, AppendRange DEF TreeMatchesParents
  <2>2. IsInjective(Append(sub_trees[current], child))
    BY <2>1, <1>0, <1>1, <1>2, AppendRange DEF TreeMatchesParents
  <2>3. \A p \in Procs : sub_trees'[p] = IF p = current THEN Append(sub_trees[p], child)
                                         ELSE sub_trees[p]
    BY <1>0, <1>6
  <2>4. \A p \in Procs : parent'[p] = IF p = child THEN current ELSE parent[p]
    BY <1>0, <1>6
  <2>5. \A p \in Procs : IsInjective(sub_trees'[p])
    <3>1. ASSUME NEW p \in Procs PROVE IsInjective(sub_trees'[p])
      <4>1. CASE p = current
        BY <4>1, <2>2, <2>3
      <4>2. CASE p # current
        <5>1. sub_trees'[p] = sub_trees[p]
          BY <4>2, <2>3
        <5> QED
          BY <5>1, <1>0 DEF TreeMatchesParents
      <4> QED
        BY <4>1, <4>2
    <3> QED
      BY <3>1
  <2>6. \A p, c \in Procs : c \in Range(sub_trees'[p]) <=>
          (c # Kernel /\ Allocated(c)' /\ parent'[c] = p)
    <3> SUFFICES ASSUME NEW p \in Procs, NEW c \in Procs
                 PROVE  c \in Range(sub_trees'[p]) <=>
                        (c # Kernel /\ Allocated(c)' /\ parent'[c] = p)
      OBVIOUS
    <3>1. c \in Range(sub_trees[p]) <=> (c # Kernel /\ Allocated(c) /\ parent[c] = p)
      BY <1>0 DEF TreeMatchesParents
    <3>2. CASE p = current
      BY <3>1, <3>2, <2>1, <2>3, <2>4, <1>2, <1>14, <1>15
    <3>3. CASE p # current
      BY <3>1, <3>3, <2>3, <2>4, <1>2, <1>14, <1>15
    <3> QED
      BY <3>2, <3>3
  <2>7. \A p \in Procs : Allocated(p)' /\ p # Kernel =>
          parent'[p] \in Procs /\ Allocated(parent[p])'
    <3> SUFFICES ASSUME NEW p \in Procs, Allocated(p)', p # Kernel
                 PROVE  parent'[p] \in Procs /\ Allocated(parent[p])'
      OBVIOUS
    <3>1. parent'[p] \in Procs
      <4>1. CASE p = child
        BY <4>1, <2>4, <1>1
      <4>2. CASE p # child
        <5>1. parent[p] \in Procs
          BY <4>2, <1>0, <1>14 DEF TreeMatchesParents
        <5> QED
          BY <4>2, <5>1, <2>4
      <4> QED
        BY <4>1, <4>2
    <3>2. state'[parent'[p]] \notin {"UNBORN", "FREED"}
      <4>1. CASE p = child
        BY <4>1, <2>4, <1>1, <1>3, <1>8
      <4>2. CASE p # child
        BY <4>2, <2>4, <1>0, <1>8, <1>14 DEF TreeMatchesParents, Allocated
      <4> QED
        BY <4>1, <4>2
    <3> QED
      BY <3>1, <3>2 DEF Allocated
  <2>8. \A p \in Procs : ~Allocated(p)' => sub_trees'[p] = << >>
    BY <2>3, <1>0, <1>14, <1>15 DEF TreeMatchesParents
  <2> QED
    BY <2>5, <2>6, <2>7, <2>8 DEF TreeMatchesParents
<1> QED
  BY <1>9, <1>10, <1>11, <1>12, <1>13, <1>16, <1>17 DEF SchedulerInv, Placement

\* The kernel is ready whenever a user process runs, so the user process is
\* never switched to itself.
LEMMA SwitchUser ==
    ASSUME SchedulerInv, Disciplined, current # Kernel
    PROVE  sched_get_ready(state) \in Range(ready_queue)
<1>1. ready_queue \in Seq(Procs) /\ IsInjective(ready_queue)
  BY DEF SchedulerInv, TypeOK, Placement, HeldOnce
<1>2. Kernel \in Range(ready_queue)
  BY Constants DEF SchedulerInv, KernelStays, Placement, StateMatchesPlace
<1>3. ready_queue # << >>
  BY <1>2 DEF Range
<1>4. Head(ready_queue) \in Range(ready_queue)
  BY <1>1, <1>3, HeadTailRange
<1>5. Head(Requeued(state)) = Head(ready_queue)
  BY <1>1, <1>3, HeldAllocated DEF Requeued, sched_make_ready, queue_enqueue
<1> QED
  BY <1>4, <1>5 DEF sched_get_ready

\* The caller of sleep or wait is switched away from and taken off the queues;
\* the list it is put on is the concern of the two calls.
LEMMA BlockInv ==
    ASSUME SchedulerInv, Disciplined, TypeOK', current # Kernel,
           NEW regs, Switch(state, regs),
           state' = [Switched(state) EXCEPT ![current] = "NAPPING"],
           ready_queue' = Without(ReadyLeft(state), {current}),
           dead_queue' = Without(DeadLeft(state, sched_get_dead), {current}),
           UNCHANGED <<tree, crashed>>,
           NapsOnce', WaitsOnce', Nappers' \cap Waiting' = {},
           Nappers' \cup Waiting' = Nappers \cup Waiting \cup {current},
           \A q \in Procs : waiters'[q] # << >> => Allocated(q) /\ q # Kernel
    PROVE  SchedulerInv'
<1> DEFINE next == sched_get_ready(state)
<1>1. /\ current \in Procs /\ state[current] = "LIVING"
      /\ current \notin Range(ready_queue) /\ current \notin Range(dead_queue)
      /\ current \notin Nappers /\ current \notin Waiting
      /\ \A p \in Range(ready_queue) : p \in Procs /\ state[p] = "READY"
      /\ \A p \in Range(dead_queue) : p \in Procs /\ state[p] = "DEAD" /\ p # Kernel
  BY HeldAllocated
<1>2. /\ next \in Range(ready_queue)
      /\ Range(ReadyLeft(state)) = (Range(ready_queue) \cup {current}) \ {next}
      /\ IsInjective(ReadyLeft(state)) /\ ReadyLeft(state) \in Seq(Procs)
  BY SwitchLiving, SwitchUser
<1>3. /\ current' = next
      /\ dead_queue' = Without(sched_get_dead, {current})
  BY DeadLeftLiving DEF Switch
<1>4. \A p \in Procs : state'[p] = IF p = next THEN "LIVING"
                                   ELSE IF p = current THEN "NAPPING" ELSE state[p]
  <2>1. Switched(state) \in [Procs -> States]
    BY SwitchLiving, SwitchType DEF SchedulerInv, TypeOK
  <2>2. next # current
    BY <1>1, <1>2
  <2>3. \A p \in Procs : state'[p] = IF p = current THEN "NAPPING" ELSE Switched(state)[p]
    BY <2>1
  <2> QED
    BY <2>2, <2>3, SwitchedLiving
<1> HIDE DEF next
<1>5. /\ Range(ready_queue') = Range(ready_queue) \ {next}
      /\ IsInjective(ready_queue')
  <2>1. /\ Range(ready_queue') = Range(ReadyLeft(state)) \ {current}
        /\ IsInjective(ready_queue')
    BY <1>2, WithoutRange DEF Without
  <2> QED
    BY <2>1, <1>1, <1>2
<1>6. Range(dead_queue') \subseteq Range(dead_queue) /\ IsInjective(dead_queue')
  <2>1. /\ sched_get_dead \in Seq(Procs) /\ IsInjective(sched_get_dead)
        /\ Range(sched_get_dead) \subseteq Range(dead_queue)
    BY DeadRange
  <2>2. ASSUME NEW q \in Seq(Procs), IsInjective(q)
        PROVE  /\ Range(Without(q, {current})) = Range(q) \ {current}
               /\ IsInjective(Without(q, {current}))
    BY <2>2, WithoutRange DEF Without
  <2>3. /\ Range(dead_queue') = Range(sched_get_dead) \ {current}
        /\ IsInjective(dead_queue')
    BY <2>1, <2>2, <1>3
  <2> QED
    BY <2>1, <2>3
<1>7. StateMatchesPlace
  BY DEF SchedulerInv, Placement
<1>8. StateMatchesPlace'
  <2> SUFFICES ASSUME NEW p \in Procs
               PROVE  /\ state'[p] = "LIVING" <=> p = current'
                      /\ state'[p] = "READY" <=> p \in Range(ready_queue')
                      /\ state'[p] = "NAPPING" <=> p \in Nappers' \cup Waiting'
    BY DEF StateMatchesPlace
  <2>1. /\ state[p] = "LIVING" <=> p = current
        /\ state[p] = "READY" <=> p \in Range(ready_queue)
        /\ state[p] = "NAPPING" <=> p \in Nappers \cup Waiting
    BY <1>7 DEF StateMatchesPlace
  <2>2. p \in Nappers' \cup Waiting' <=> p \in Nappers \cup Waiting \cup {current}
    OBVIOUS
  <2>3. state[next] = "READY" /\ next # current
    BY <1>1, <1>2
  <2>4. CASE p = next
    <3>1. state'[p] = "LIVING" /\ p = current' /\ p \notin Range(ready_queue')
      BY <2>4, <1>3, <1>4, <1>5
    <3>2. p \notin Nappers' \cup Waiting'
      BY <2>1, <2>2, <2>3, <2>4
    <3> QED
      BY <3>1, <3>2
  <2>5. CASE p = current
    <3>1. state'[p] = "NAPPING" /\ p # current' /\ p \notin Range(ready_queue')
      BY <2>1, <2>3, <2>5, <1>3, <1>4, <1>5
    <3>2. p \in Nappers' \cup Waiting'
      BY <2>2, <2>5
    <3> QED
      BY <3>1, <3>2
  <2>6. CASE p # next /\ p # current
    BY <2>1, <2>2, <2>6, <1>3, <1>4, <1>5
  <2> QED
    BY <2>4, <2>5, <2>6
<1>9. HeldOnce'
  BY <1>5, <1>6 DEF HeldOnce
<1>10. DeadAwaitDestruction'
  BY <1>1, <1>2, <1>4, <1>6 DEF DeadAwaitDestruction
<1>11. \A p \in Procs : state'[p] # state[p] => Allocated(p) /\ Allocated(p)'
  BY <1>1, <1>2, <1>4 DEF Allocated
<1>12. TreeMatchesParents' /\ PidsInOrder'
  BY <1>11, TreeFrame
<1>13. WaitedForExists'
  BY <1>11 DEF WaitedForExists, Allocated
<1>14. KernelStays' /\ NeverCrashed'
  BY <1>4, Constants DEF SchedulerInv, KernelStays, NeverCrashed
<1> QED
  BY <1>8, <1>9, <1>10, <1>12, <1>13, <1>14 DEF SchedulerInv, Placement

\* sysc_sleep adds one napping entry, for a process that has none.
LEMMA SleepInv ==
    ASSUME SchedulerInv, Disciplined, TypeOK', NEW t \in SleepTimes, sysc_sleep(t)
    PROVE  SchedulerInv'
<1>1. /\ current \in Procs /\ state[current] = "LIVING"
      /\ current \notin Nappers /\ current \notin Waiting
      /\ \A p \in Range(ready_queue) : p \in Procs /\ state[p] = "READY"
  BY HeldAllocated
<1>2. current # Kernel /\ Switch(state, Saved("syscall"))
  BY DEF sysc_sleep, Call
<1>3. Switched(state)[current] \notin {"DEAD", "NAPPING"}
  BY <1>1, SwitchedLiving
<1>4. /\ state' = [Switched(state) EXCEPT ![current] = "NAPPING"]
      /\ napping_list' = Append(napping_list, [process |-> current, counter |-> t])
      /\ ready_queue' = Without(ReadyLeft(state), {current})
      /\ dead_queue' = Without(DeadLeft(state, sched_get_dead), {current})
      /\ UNCHANGED <<waiters, tree, crashed>>
  BY <1>3 DEF sysc_sleep
<1>5. napping_list \in Seq(Naps) /\ [process |-> current, counter |-> t] \in Naps
  BY <1>1, Constants DEF SchedulerInv, TypeOK, Naps
<1>6. /\ DOMAIN napping_list' = 1..(Len(napping_list) + 1)
      /\ DOMAIN napping_list = 1..Len(napping_list) /\ Len(napping_list) \in Nat
      /\ \A i \in DOMAIN napping_list : napping_list'[i] = napping_list[i]
      /\ napping_list'[Len(napping_list) + 1].process = current
  BY <1>4, <1>5
<1>7. Nappers' = Nappers \cup {current}
  <2>1. Nappers' \subseteq Nappers \cup {current}
    BY <1>6 DEF Nappers
  <2>2. Nappers \subseteq Nappers'
    BY <1>6 DEF Nappers
  <2>3. current \in Nappers'
    BY <1>6 DEF Nappers
  <2> QED
    BY <2>1, <2>2, <2>3
<1>8. NapsOnce'
  <2> SUFFICES ASSUME NEW i \in DOMAIN napping_list', NEW j \in DOMAIN napping_list',
                      napping_list'[i].process = napping_list'[j].process
               PROVE  i = j
    BY DEF NapsOnce
  <2>1. \A k \in DOMAIN napping_list : napping_list[k].process # current
    BY <1>1 DEF Nappers
  <2>2. NapsOnce
    BY DEF SchedulerInv, Placement, HeldOnce
  <2>3. CASE i \in DOMAIN napping_list /\ j \in DOMAIN napping_list
    BY <2>2, <2>3, <1>6 DEF NapsOnce
  <2>4. CASE i \notin DOMAIN napping_list \/ j \notin DOMAIN napping_list
    BY <2>1, <2>4, <1>6
  <2> QED
    BY <2>3, <2>4
<1>9. /\ Waiting' = Waiting /\ WaitsOnce' /\ Nappers \cap Waiting = {}
  BY <1>4 DEF Waiting, WaitsOnce, SchedulerInv, Placement, HeldOnce
<1>10. \A q \in Procs : waiters'[q] # << >> => Allocated(q) /\ q # Kernel
  BY <1>4 DEF SchedulerInv, WaitedForExists
<1> QED
  BY <1>1, <1>2, <1>4, <1>7, <1>8, <1>9, <1>10, BlockInv

\* sysc_wait either finds nobody to wait for, or adds the caller once to the
\* waiters of a process that exists.
LEMMA WaitInv ==
    ASSUME SchedulerInv, Disciplined, TypeOK', NEW pid \in WaitPids, sysc_wait(pid)
    PROVE  SchedulerInv'
<1> DEFINE waits == proc_find(pid) /\ Switched(state)[pid] # "DEAD"
<1>1. /\ current \in Procs /\ state[current] = "LIVING"
      /\ current \notin Nappers /\ current \notin Waiting
  BY HeldAllocated
<1>2. /\ current # Kernel /\ Switch(state, Saved("syscall"))
      /\ pid \in Procs /\ pid # Kernel
      /\ UNCHANGED <<napping_list, tree, crashed>>
  BY Constants DEF sysc_wait, Call, Disciplined
<1>3. CASE ~waits
  <2>1. /\ state' = Switched(state) /\ ready_queue' = ReadyLeft(state)
        /\ dead_queue' = DeadLeft(state, sched_get_dead)
        /\ UNCHANGED waiters
    BY <1>3 DEF sysc_wait
  <2> QED
    BY <2>1, <1>2, SwitchInv
<1>4. CASE waits
  <2>1. /\ state' = [Switched(state) EXCEPT ![current] = "NAPPING"]
        /\ waiters' = [waiters EXCEPT ![pid] = Append(@, current)]
        /\ ready_queue' = Without(ReadyLeft(state), {current})
        /\ dead_queue' = Without(DeadLeft(state, sched_get_dead), {current})
    BY <1>2, <1>4 DEF sysc_wait
  <2>2. Allocated(pid)
    BY <1>2, <1>4, FindAllocated
  <2>3. waiters \in [Procs -> Seq(Procs)] /\ WaitsOnce
    BY DEF SchedulerInv, TypeOK, Placement, HeldOnce
  <2>4. \A q \in Procs : waiters'[q] = IF q = pid THEN Append(waiters[pid], current)
                                       ELSE waiters[q]
    BY <2>1, <2>3
  <2>5. \A q \in Procs : current \notin Range(waiters[q])
    BY <1>1 DEF Waiting
  <2>6. /\ Range(Append(waiters[pid], current)) = Range(waiters[pid]) \cup {current}
        /\ IsInjective(Append(waiters[pid], current))
    BY <1>1, <1>2, <2>3, <2>5, AppendRange DEF WaitsOnce
  <2>7. \A q \in Procs : Range(waiters'[q]) =
          IF q = pid THEN Range(waiters[q]) \cup {current} ELSE Range(waiters[q])
    BY <2>4, <2>6
  <2>8. Waiting' = Waiting \cup {current}
    <3>1. Waiting' = UNION {Range(waiters'[q]) : q \in Procs}
      BY DEF Waiting
    <3> QED
      BY <3>1, <2>7, <1>2 DEF Waiting
  <2>9. WaitsOnce'
    <3>1. \A q \in Procs : IsInjective(waiters'[q])
      <4>1. ASSUME NEW q \in Procs PROVE IsInjective(waiters'[q])
        <5>1. CASE q = pid
          BY <5>1, <2>4, <2>6
        <5>2. CASE q # pid
          <6>1. waiters'[q] = waiters[q]
            BY <5>2, <2>4
          <6> QED
            BY <6>1, <2>3 DEF WaitsOnce
        <5> QED
          BY <5>1, <5>2
      <4> QED
        BY <4>1
    <3>2. \A q, r \in Procs : q # r => Range(waiters'[q]) \cap Range(waiters'[r]) = {}
      BY <2>3, <2>5, <2>7 DEF WaitsOnce
    <3> QED
      BY <3>1, <3>2 DEF WaitsOnce
  <2>10. NapsOnce' /\ Nappers' = Nappers /\ Nappers \cap Waiting = {}
    BY <1>2 DEF Nappers, NapsOnce, SchedulerInv, Placement, HeldOnce
  <2>11. \A q \in Procs : waiters'[q] # << >> => Allocated(q) /\ q # Kernel
    BY <1>2, <2>2, <2>4 DEF SchedulerInv, WaitedForExists
  <2> QED
    BY <1>1, <1>2, <2>1, <2>8, <2>9, <2>10, <2>11, BlockInv
<1> QED
  BY <1>3, <1>4

\* sysc_wakeup moves one napping process behind the ready ones.
LEMMA WakeupInv ==
    ASSUME SchedulerInv, Disciplined, TypeOK', NEW pid \in Procs, sysc_wakeup(pid)
    PROVE  SchedulerInv'
<1>0. /\ TypeOK /\ StateMatchesPlace /\ HeldOnce /\ NapsOnce
      /\ state \in [Procs -> States]
      /\ ready_queue \in Seq(Procs) /\ dead_queue \in Seq(Procs)
      /\ napping_list \in Seq(Naps)
      /\ IsInjective(ready_queue) /\ IsInjective(dead_queue)
      /\ Nappers \cap Waiting = {}
  BY DEF SchedulerInv, Placement, TypeOK, HeldOnce
<1>1. /\ current \in Procs /\ state[current] = "LIVING"
      /\ \A p \in Range(ready_queue) : p \in Procs /\ state[p] = "READY"
      /\ \A p \in Nappers : state[p] = "NAPPING"
      /\ \A p \in Range(dead_queue) : p \in Procs /\ state[p] = "DEAD" /\ p # Kernel
  BY HeldAllocated
<1>2. PICK i \in DOMAIN napping_list :
        /\ napping_list[i].process = pid
        /\ napping_list' = Drop(napping_list, i)
  BY DEF sysc_wakeup
<1>3. /\ state' = [state EXCEPT ![pid] = "READY"]
      /\ ready_queue' = sched_make_ready(Without(ready_queue, {pid}), pid)
      /\ dead_queue' = Without(dead_queue, {pid})
      /\ UNCHANGED <<waiters, tree, current, crashed>>
  BY DEF sysc_wakeup
<1>4. pid \in Nappers /\ state[pid] = "NAPPING" /\ pid \notin Range(ready_queue)
  <2>1. pid \in Nappers
    BY <1>2 DEF Nappers
  <2> QED
    BY <2>1, <1>1
<1>5. NapsOnce' /\ Nappers' = Nappers \ {pid}
  <2> DEFINE n == Len(napping_list)
             at(j) == IF j < i THEN j ELSE j + 1
  <2>1. n \in Nat /\ DOMAIN napping_list = 1..n /\ i \in 1..n
    BY <1>0
  <2>2. /\ DOMAIN napping_list' = 1..(n - 1)
        /\ \A j \in 1..(n - 1) : napping_list'[j] = napping_list[at(j)]
    BY <1>2 DEF Drop
  <2>3. /\ \A j \in 1..(n - 1) : at(j) \in 1..n /\ at(j) # i
        /\ \A j, k \in 1..(n - 1) : at(j) = at(k) => j = k
        /\ \A m \in 1..n : m # i => \E j \in 1..(n - 1) : at(j) = m
    <3>1. \A j \in 1..(n - 1) : at(j) \in 1..n /\ at(j) # i
      BY <2>1
    <3>2. \A j, k \in 1..(n - 1) : at(j) = at(k) => j = k
      BY <2>1
    <3>3. ASSUME NEW m \in 1..n, m # i PROVE \E j \in 1..(n - 1) : at(j) = m
      <4>1. CASE m < i
        <5>1. m \in 1..(n - 1) /\ at(m) = m
          BY <4>1, <2>1
        <5> QED
          BY <5>1
      <4>2. CASE m > i
        <5>1. m - 1 \in 1..(n - 1) /\ at(m - 1) = m
          BY <4>2, <2>1
        <5> QED
          BY <5>1
      <4> QED
        BY <4>1, <4>2, <3>3, <2>1
    <3> QED
      BY <3>1, <3>2, <3>3
  <2> HIDE DEF n, at
  <2>4. \A j, k \in 1..n : napping_list[j].process = napping_list[k].process => j = k
    BY <1>0, <2>1 DEF NapsOnce
  <2>5. NapsOnce'
    <3> SUFFICES ASSUME NEW j \in 1..(n - 1), NEW k \in 1..(n - 1),
                        napping_list'[j].process = napping_list'[k].process
                 PROVE  j = k
      BY <2>2 DEF NapsOnce
    <3>1. napping_list[at(j)].process = napping_list[at(k)].process
      BY <2>2
    <3>2. at(j) \in 1..n /\ at(k) \in 1..n
      BY <2>3
    <3>3. at(j) = at(k)
      BY <3>1, <3>2, <2>4
    <3> QED
      BY <3>3, <2>3
  <2>6. Nappers' \subseteq Nappers \ {pid}
    <3> SUFFICES ASSUME NEW j \in 1..(n - 1)
                 PROVE  napping_list'[j].process \in Nappers \ {pid}
      BY <2>2 DEF Nappers
    <3>1. at(j) \in 1..n /\ at(j) # i /\ napping_list'[j] = napping_list[at(j)]
      BY <2>2, <2>3
    <3>2. napping_list[at(j)].process # pid
      BY <3>1, <2>1, <2>4, <1>2
    <3> QED
      BY <3>1, <3>2, <2>1 DEF Nappers
  <2>7. Nappers \ {pid} \subseteq Nappers'
    <3> SUFFICES ASSUME NEW m \in 1..n, napping_list[m].process # pid
                 PROVE  napping_list[m].process \in Nappers'
      BY <2>1 DEF Nappers
    <3>1. m # i
      BY <1>2
    <3>2. PICK j \in 1..(n - 1) : at(j) = m
      BY <3>1, <2>3
    <3>3. napping_list'[j] = napping_list[m] /\ j \in DOMAIN napping_list'
      BY <3>2, <2>2
    <3> QED
      BY <3>3 DEF Nappers
  <2> QED
    BY <2>5, <2>6, <2>7
<1>6. /\ Range(ready_queue') = Range(ready_queue) \cup {pid}
      /\ IsInjective(ready_queue')
  <2> DEFINE rq == Without(ready_queue, {pid})
  <2>1. rq \in Seq(Procs) /\ Range(rq) = Range(ready_queue) \ {pid} /\ IsInjective(rq)
    BY <1>0, WithoutRange DEF Without
  <2>2. ready_queue' = queue_enqueue(rq, pid, SCHED_MAX_READY)
    BY <1>3 DEF sched_make_ready
  <2> HIDE DEF rq
  <2>3. ready_queue' = Append(rq, pid)
    BY <2>1, <2>2, EnqueueFits, Constants DEF Disciplined, Procs
  <2> QED
    BY <2>1, <2>3, <1>4, AppendRange
<1>7. Range(dead_queue') \subseteq Range(dead_queue) /\ IsInjective(dead_queue')
  BY <1>0, <1>3, WithoutRange DEF Without
<1>8. \A p \in Procs : state'[p] = IF p = pid THEN "READY" ELSE state[p]
  BY <1>0, <1>3
<1>9. Waiting' = Waiting /\ WaitsOnce'
  BY <1>0, <1>3 DEF Waiting, WaitsOnce, HeldOnce
<1>10. StateMatchesPlace'
  <2> SUFFICES ASSUME NEW p \in Procs
               PROVE  /\ state'[p] = "LIVING" <=> p = current'
                      /\ state'[p] = "READY" <=> p \in Range(ready_queue')
                      /\ state'[p] = "NAPPING" <=> p \in Nappers' \cup Waiting'
    BY DEF StateMatchesPlace
  <2>1. /\ state[p] = "LIVING" <=> p = current
        /\ state[p] = "READY" <=> p \in Range(ready_queue)
        /\ state[p] = "NAPPING" <=> p \in Nappers \cup Waiting
    BY <1>0 DEF StateMatchesPlace
  <2>2. CASE p = pid
    <3>1. state'[p] = "READY" /\ p # current' /\ p \in Range(ready_queue')
      BY <2>2, <1>1, <1>3, <1>4, <1>6, <1>8
    <3>2. p \notin Nappers' \cup Waiting'
      BY <2>2, <1>0, <1>4, <1>5, <1>9
    <3> QED
      BY <3>1, <3>2
  <2>3. CASE p # pid
    <3>1. p \in Nappers' \cup Waiting' <=> p \in Nappers \cup Waiting
      BY <2>3, <1>5, <1>9
    <3> QED
      BY <2>1, <2>3, <3>1, <1>3, <1>6, <1>8
  <2> QED
    BY <2>2, <2>3
<1>11. HeldOnce'
  BY <1>0, <1>5, <1>6, <1>7, <1>9 DEF HeldOnce
<1>12. DeadAwaitDestruction'
  BY <1>1, <1>4, <1>7, <1>8 DEF DeadAwaitDestruction
<1>13. \A p \in Procs : state'[p] # state[p] => Allocated(p) /\ Allocated(p)'
  BY <1>4, <1>8 DEF Allocated
<1>14. TreeMatchesParents' /\ PidsInOrder'
  BY <1>3, <1>13, TreeFrame
<1>15. WaitedForExists'
  BY <1>3, <1>13 DEF SchedulerInv, WaitedForExists, Allocated
<1>16. KernelStays' /\ NeverCrashed'
  BY <1>3, <1>8, Constants DEF SchedulerInv, KernelStays, NeverCrashed
<1> QED
  BY <1>10, <1>11, <1>12, <1>14, <1>15, <1>16 DEF SchedulerInv, Placement

\* sysc_kill takes a ready process off the queue and sets it to be destroyed.
LEMMA KillInv ==
    ASSUME SchedulerInv, Disciplined, TypeOK', NEW pid \in KillPids, sysc_kill(pid)
    PROVE  SchedulerInv'
<1>0. /\ TypeOK /\ StateMatchesPlace /\ HeldOnce
      /\ state \in [Procs -> States]
      /\ ready_queue \in Seq(Procs) /\ dead_queue \in Seq(Procs)
      /\ IsInjective(ready_queue) /\ IsInjective(dead_queue)
  BY DEF SchedulerInv, Placement, TypeOK, HeldOnce
<1>1. /\ current \in Procs /\ state[current] = "LIVING"
      /\ \A p \in Range(dead_queue) : p \in Procs /\ state[p] = "DEAD" /\ p # Kernel
  BY HeldAllocated
<1>2. pid \in Procs /\ pid # Kernel /\ state[pid] = "READY"
  BY Constants DEF sysc_kill, Disciplined
<1>3. /\ state' = [state EXCEPT ![pid] = "DEAD"]
      /\ ready_queue' = Without(ready_queue, {pid})
      /\ dead_queue' = sched_make_dead(Without(dead_queue, {pid}), pid)
      /\ UNCHANGED <<napping_list, waiters, tree, current, crashed>>
  BY DEF sysc_kill
<1>4. \A p \in Procs : state'[p] = IF p = pid THEN "DEAD" ELSE state[p]
  BY <1>0, <1>3
<1>5. Range(ready_queue') = Range(ready_queue) \ {pid} /\ IsInjective(ready_queue')
  BY <1>0, <1>3, WithoutRange DEF Without
<1>6. Range(dead_queue') \subseteq Range(dead_queue) \cup {pid} /\ IsInjective(dead_queue')
  <2> DEFINE dq == Without(dead_queue, {pid})
  <2>1. dq \in Seq(Procs) /\ Range(dq) = Range(dead_queue) \ {pid} /\ IsInjective(dq)
    BY <1>0, WithoutRange DEF Without
  <2>2. dead_queue' = queue_enqueue(dq, pid, SCHED_MAX_DEAD)
    BY <1>3 DEF sched_make_dead
  <2> HIDE DEF dq
  <2>3. pid \notin Range(dq)
    BY <2>1
  <2>4. /\ Range(queue_enqueue(dq, pid, SCHED_MAX_DEAD)) \subseteq Range(dq) \cup {pid}
        /\ IsInjective(queue_enqueue(dq, pid, SCHED_MAX_DEAD))
    BY <2>1, <2>3, <1>2, EnqueueRange, Constants
  <2> QED
    BY <2>1, <2>2, <2>4
<1>7. Nappers' = Nappers /\ Waiting' = Waiting
  BY <1>3 DEF Nappers, Waiting
<1>8. StateMatchesPlace'
  BY <1>0, <1>1, <1>2, <1>3, <1>4, <1>5, <1>7 DEF StateMatchesPlace
<1>9. HeldOnce'
  BY <1>0, <1>3, <1>5, <1>6, <1>7 DEF HeldOnce, NapsOnce, WaitsOnce
<1>10. DeadAwaitDestruction'
  BY <1>1, <1>2, <1>4, <1>6 DEF DeadAwaitDestruction
<1>11. \A p \in Procs : state'[p] # state[p] => Allocated(p) /\ Allocated(p)'
  BY <1>2, <1>4 DEF Allocated
<1>12. TreeMatchesParents' /\ PidsInOrder'
  BY <1>3, <1>11, TreeFrame
<1>13. WaitedForExists'
  BY <1>3, <1>11 DEF SchedulerInv, WaitedForExists, Allocated
<1>14. KernelStays' /\ NeverCrashed'
  BY <1>2, <1>3, <1>4, Constants DEF SchedulerInv, KernelStays, NeverCrashed
<1> QED
  BY <1>8, <1>9, <1>10, <1>12, <1>13, <1>14 DEF SchedulerInv, Placement

\* A tick that destroys nobody.
LEMMA TickPlainInv ==
    ASSUME SchedulerInv, Disciplined, TypeOK', TickPlain,
           current' = sched_get_ready(state), UNCHANGED crashed
    PROVE  SchedulerInv'
<1> DEFINE next == sched_get_ready(state)
           all == Range(ready_queue) \cup {current}
<1>0. /\ TypeOK /\ StateMatchesPlace /\ HeldOnce /\ NapsOnce
      /\ state \in [Procs -> States] /\ Nappers \cap Waiting = {}
  BY DEF SchedulerInv, Placement, TypeOK, HeldOnce
<1>1. /\ current \in Procs /\ state[current] = "LIVING"
      /\ current \notin Nappers /\ current \notin Waiting
      /\ \A p \in Range(ready_queue) : p \in Procs /\ state[p] = "READY"
      /\ \A p \in Nappers : p \in Procs /\ state[p] = "NAPPING"
      /\ \A p \in Range(dead_queue) : p \in Procs /\ state[p] = "DEAD" /\ p # Kernel
  BY HeldAllocated
<1>2. /\ next \in all /\ Range(ReadyLeft(state)) = all \ {next}
      /\ IsInjective(ReadyLeft(state)) /\ ReadyLeft(state) \in Seq(Procs)
      /\ SwitchSafe(state)
  BY SwitchLiving
<1>3. /\ sched_timekeeper(Switched(state), ReadyLeft(state))
      /\ dead_queue' = sched_get_dead
      /\ UNCHANGED <<waiters, tree>>
  BY DeadLeftLiving DEF TickPlain
<1>4. Switched(state) \in [Procs -> States]
  BY <1>0, <1>2, SwitchType
<1>5. Range(Woken) \subseteq Nappers
  BY <1>0, NappingFacts
<1>6. Range(ReadyLeft(state)) \cap Nappers = {}
  BY <1>1, <1>2
<1>7. /\ IsInjective(ready_queue') /\ NapsOnce'
      /\ Range(ready_queue') = (all \ {next}) \cup Range(Woken)
      /\ Nappers' = Nappers \ Range(Woken)
      /\ \A p \in Procs : state'[p] = IF p \in Range(Woken) THEN "READY"
                                       ELSE Switched(state)[p]
  BY <1>0, <1>2, <1>3, <1>4, <1>6, TimekeeperFacts DEF Disciplined
<1>8. \A p \in Procs : state'[p] = IF p \in Range(Woken) THEN "READY"
                                   ELSE IF p = next THEN "LIVING"
                                   ELSE IF p = current THEN "READY" ELSE state[p]
  BY <1>7, SwitchedLiving
<1> HIDE DEF next
<1>9. Range(dead_queue') \subseteq Range(dead_queue) /\ IsInjective(dead_queue')
  BY <1>3, DeadRange
<1>10. Waiting' = Waiting /\ WaitsOnce'
  BY <1>0, <1>3 DEF Waiting, WaitsOnce, HeldOnce
<1>11. next \notin Range(Woken) /\ current \notin Range(Woken)
       /\ next \notin Waiting /\ next \notin Nappers
  BY <1>0, <1>1, <1>2, <1>5 DEF StateMatchesPlace
<1>12. StateMatchesPlace'
  <2> SUFFICES ASSUME NEW p \in Procs
               PROVE  /\ state'[p] = "LIVING" <=> p = current'
                      /\ state'[p] = "READY" <=> p \in Range(ready_queue')
                      /\ state'[p] = "NAPPING" <=> p \in Nappers' \cup Waiting'
    BY DEF StateMatchesPlace
  <2>1. /\ state[p] = "LIVING" <=> p = current
        /\ state[p] = "READY" <=> p \in Range(ready_queue)
        /\ state[p] = "NAPPING" <=> p \in Nappers \cup Waiting
    BY <1>0 DEF StateMatchesPlace
  <2>2. current' = next
    BY DEF next
  <2>3. CASE p \in Range(Woken)
    <3>1. state'[p] = "READY" /\ p # current' /\ p \in Range(ready_queue')
      BY <2>2, <2>3, <1>7, <1>8, <1>11
    <3>2. p \notin Nappers' \cup Waiting'
      BY <2>3, <1>0, <1>5, <1>7, <1>10
    <3> QED
      BY <3>1, <3>2
  <2>4. CASE p = next
    <3>1. state'[p] = "LIVING" /\ p = current' /\ p \notin Range(ready_queue')
      BY <2>2, <2>4, <1>7, <1>8, <1>11
    <3>2. p \notin Nappers' \cup Waiting'
      BY <2>4, <1>7, <1>10, <1>11
    <3> QED
      BY <3>1, <3>2
  <2>5. CASE p \notin Range(Woken) /\ p # next
    <3>1. p \in Nappers' \cup Waiting' <=> p \in Nappers \cup Waiting
      BY <2>5, <1>7, <1>10
    <3>2. p # current' /\ state'[p] = IF p = current THEN "READY" ELSE state[p]
      BY <2>2, <2>5, <1>8
    <3>3. p \in Range(ready_queue') <=> p \in all
      BY <2>5, <1>7
    <3>4. CASE p = current
      BY <3>1, <3>2, <3>3, <3>4, <1>1
    <3>5. CASE p # current
      BY <3>1, <3>2, <3>3, <3>5, <2>1
    <3> QED
      BY <3>4, <3>5
  <2> QED
    BY <2>3, <2>4, <2>5
<1>13. HeldOnce'
  BY <1>0, <1>7, <1>9, <1>10 DEF HeldOnce
<1>14. \A p \in Procs : state'[p] # state[p] =>
         state[p] \notin {"UNBORN", "FREED", "DEAD"} /\ Allocated(p) /\ Allocated(p)'
  BY <1>1, <1>2, <1>5, <1>8 DEF Allocated
<1>15. DeadAwaitDestruction'
  BY <1>1, <1>9, <1>14 DEF DeadAwaitDestruction
<1>16. TreeMatchesParents' /\ PidsInOrder'
  BY <1>3, <1>14, TreeFrame
<1>17. WaitedForExists'
  BY <1>3, <1>14 DEF SchedulerInv, WaitedForExists, Allocated
<1>18. KernelStays' /\ NeverCrashed'
  BY <1>8, Constants DEF SchedulerInv, KernelStays, NeverCrashed
<1> QED
  BY <1>12, <1>13, <1>15, <1>16, <1>17, <1>18 DEF SchedulerInv, Placement

\* proc_destroy keeps the process tree in order: the children of the destroyed
\* process are listed under its parent, which is older and still exists.
LEMMA OrphanedInv ==
    ASSUME SchedulerInv, NEW v \in Procs, v # Kernel, Allocated(v), Orphaned(v),
           UNCHANGED proc_pid,
           \A p \in Procs : Allocated(p)' <=> (Allocated(p) /\ p # v),
           \A p \in Procs : state'[p] = "UNBORN" <=> state[p] = "UNBORN"
    PROVE  TreeMatchesParents' /\ PidsInOrder'
<1> DEFINE g == parent[v]
           mine == sub_trees[v]
           rest == Without(sub_trees[g], {v})
           joined == rest \o mine
<1>0. /\ TreeMatchesParents /\ PidsInOrder /\ proc_pid \in Procs
      /\ sub_trees \in [Procs -> Seq(Procs)] /\ parent \in [Procs -> 0..MaxPid]
  BY DEF SchedulerInv, TypeOK
<1>1. g \in Procs /\ Allocated(g) /\ g < v /\ g # v
  <2>1. g \in Procs /\ Allocated(g) /\ g < v
    BY <1>0 DEF TreeMatchesParents, PidsInOrder
  <2> QED
    BY <2>1, Constants DEF Procs
<1>2. /\ \A p \in Procs : parent'[p] = IF p \in Range(mine) THEN g ELSE parent[p]
      /\ \A p \in Procs : sub_trees'[p] = IF p = g THEN joined
                                          ELSE IF p = v THEN << >> ELSE sub_trees[p]
  BY DEF Orphaned
<1>3. \A c \in Procs : /\ c \in Range(mine) <=> (c # Kernel /\ Allocated(c) /\ parent[c] = v)
                       /\ c \in Range(sub_trees[g]) <=> (c # Kernel /\ Allocated(c) /\ parent[c] = g)
  BY <1>0, <1>1 DEF TreeMatchesParents
<1>4. /\ Range(joined) = (Range(sub_trees[g]) \ {v}) \cup Range(mine)
      /\ IsInjective(joined)
  <2>1. /\ sub_trees[g] \in Seq(Procs) /\ mine \in Seq(Procs)
        /\ IsInjective(sub_trees[g]) /\ IsInjective(mine)
    BY <1>0, <1>1 DEF TreeMatchesParents
  <2>2. /\ rest \in Seq(Procs) /\ Range(rest) = Range(sub_trees[g]) \ {v}
        /\ IsInjective(rest)
    BY <2>1, WithoutRange DEF Without
  <2>3. Range(sub_trees[g]) \subseteq Procs /\ Range(mine) \subseteq Procs
    BY <2>1 DEF Range
  <2>4. (Range(sub_trees[g]) \ {v}) \cap Range(mine) = {}
    BY <2>3, <1>1, <1>3
  <2> HIDE DEF rest, mine, g
  <2> QED
    BY <2>1, <2>2, <2>4, ConcatRange
<1> HIDE DEF joined, rest, mine, g
<1>5. \A p \in Procs : IsInjective(sub_trees'[p])
  <2>1. ASSUME NEW p \in Procs PROVE IsInjective(sub_trees'[p])
    <3>1. CASE p = g
      <4>1. sub_trees'[p] = joined
        BY <3>1, <1>2
      <4> QED
        BY <4>1, <1>4
    <3>2. CASE p # g /\ p = v
      <4>1. sub_trees'[p] = << >>
        BY <3>2, <1>2
      <4> QED
        BY <4>1 DEF IsInjective
    <3>3. CASE p # g /\ p # v
      <4>1. sub_trees'[p] = sub_trees[p]
        BY <3>3, <1>2
      <4> QED
        BY <4>1, <1>0 DEF TreeMatchesParents
    <3> QED
      BY <3>1, <3>2, <3>3
  <2> QED
    BY <2>1
<1>6. \A p, c \in Procs : c \in Range(sub_trees'[p]) <=>
         (c # Kernel /\ Allocated(c)' /\ parent'[c] = p)
  <2> SUFFICES ASSUME NEW p \in Procs, NEW c \in Procs
               PROVE  c \in Range(sub_trees'[p]) <=>
                      (c # Kernel /\ Allocated(c)' /\ parent'[c] = p)
    OBVIOUS
  <2>1. c \in Range(sub_trees[p]) <=> (c # Kernel /\ Allocated(c) /\ parent[c] = p)
    BY <1>0 DEF TreeMatchesParents
  <2>2. /\ Allocated(c)' <=> (Allocated(c) /\ c # v)
        /\ parent'[c] = IF c \in Range(mine) THEN g ELSE parent[c]
    BY <1>2
  <2>3. v \notin Range(mine)
    BY <1>1, <1>3 DEF g
  <2>4. CASE p = g
    <3>1. c \in Range(sub_trees'[p]) <=> ((c \in Range(sub_trees[g]) /\ c # v) \/ c \in Range(mine))
      BY <2>4, <1>2, <1>4
    <3>2. CASE c \in Range(mine)
      BY <3>1, <3>2, <2>2, <2>3, <2>4, <1>3
    <3>3. CASE c \notin Range(mine)
      BY <3>1, <3>3, <2>2, <2>4, <1>3
    <3> QED
      BY <3>2, <3>3
  <2>5. CASE p # g /\ p = v
    <3>1. sub_trees'[p] = << >>
      BY <2>5, <1>2
    <3>2. c \notin Range(sub_trees'[p])
      BY <3>1 DEF Range
    <3> QED
      BY <3>2, <2>2, <2>5, <1>3
  <2>6. CASE p # g /\ p # v
    <3>1. sub_trees'[p] = sub_trees[p]
      BY <2>6, <1>2
    <3>2. c = v => parent[c] # p
      BY <2>6 DEF g
    <3> QED
      BY <3>1, <3>2, <2>1, <2>2, <2>6, <1>3
  <2> QED
    BY <2>4, <2>5, <2>6
<1>7. \A p \in Procs : Allocated(p)' /\ p # Kernel =>
         parent'[p] \in Procs /\ Allocated(parent[p])' /\ parent'[p] < p
  <2> SUFFICES ASSUME NEW p \in Procs, Allocated(p)', p # Kernel
               PROVE  parent'[p] \in Procs /\ Allocated(parent[p])' /\ parent'[p] < p
    OBVIOUS
  <2>1. Allocated(p) /\ p # v
    OBVIOUS
  <2>2. parent[p] \in Procs /\ Allocated(parent[p]) /\ parent[p] < p
    BY <2>1, <1>0 DEF TreeMatchesParents, PidsInOrder
  <2>3. \A x \in Procs : Allocated(x) /\ x # v => state'[x] \notin {"UNBORN", "FREED"}
    BY DEF Allocated
  <2>4. CASE p \in Range(mine)
    <3>1. parent'[p] = g /\ parent[p] = v
      BY <2>4, <1>2, <1>3
    <3>2. g < p
      BY <3>1, <2>2, <1>1, Constants DEF Procs
    <3>3. state'[parent'[p]] \notin {"UNBORN", "FREED"}
      BY <3>1, <2>3, <1>1
    <3> QED
      BY <3>1, <3>2, <3>3, <1>1 DEF Allocated
  <2>5. CASE p \notin Range(mine)
    <3>1. parent'[p] = parent[p] /\ parent[p] # v
      BY <2>1, <2>5, <1>2, <1>3
    <3>2. state'[parent'[p]] \notin {"UNBORN", "FREED"}
      BY <3>1, <2>2, <2>3
    <3> QED
      BY <3>1, <3>2, <2>2 DEF Allocated
  <2> QED
    BY <2>4, <2>5
<1>8. \A p \in Procs : ~Allocated(p)' => sub_trees'[p] = << >>
  <2> SUFFICES ASSUME NEW p \in Procs, ~Allocated(p)' PROVE sub_trees'[p] = << >>
    OBVIOUS
  <2>1. ~Allocated(p) \/ p = v
    OBVIOUS
  <2>2. p # g
    BY <2>1, <1>1
  <2>3. ~Allocated(p) => sub_trees[p] = << >>
    BY <1>0 DEF TreeMatchesParents
  <2> QED
    BY <2>1, <2>2, <2>3, <1>2
<1>9. TreeMatchesParents'
  BY <1>5, <1>6, <1>7, <1>8 DEF TreeMatchesParents
<1>10. PidsInOrder'
  BY <1>0, <1>7 DEF PidsInOrder
<1> QED
  BY <1>9, <1>10

\* A tick in which the kernel destroys a dead process.
LEMMA TickReapInv ==
    ASSUME SchedulerInv, Disciplined, TypeOK', current = Kernel, dead_queue # << >>,
           NEW v, v = Head(dead_queue), TickReap(v),
           current' = sched_get_ready(state), UNCHANGED crashed
    PROVE  SchedulerInv'
<1> DEFINE next == sched_get_ready(state)
           all == Range(ready_queue) \cup {current}
           w == waiters[v]
           st == [p \in Procs |-> IF p = v THEN "FREED"
                                  ELSE IF p = next THEN "LIVING"
                                  ELSE IF p \in Range(w) THEN "READY"
                                  ELSE Switched(state)[p]]
           kept == Without(ReadyLeft(state), Range(w))
           rq == EnqueueAll(kept, w, SCHED_MAX_READY)
<1>0. /\ TypeOK /\ StateMatchesPlace /\ HeldOnce /\ NapsOnce /\ WaitsOnce
      /\ state \in [Procs -> States] /\ Nappers \cap Waiting = {}
      /\ waiters \in [Procs -> Seq(Procs)]
  BY DEF SchedulerInv, Placement, TypeOK, HeldOnce
<1>1. /\ current \in Procs /\ state[current] = "LIVING"
      /\ current \notin Nappers /\ current \notin Waiting
      /\ \A p \in Range(ready_queue) : p \in Procs /\ state[p] = "READY"
      /\ \A p \in Nappers : p \in Procs /\ state[p] = "NAPPING"
      /\ \A p \in Waiting : p \in Procs /\ state[p] = "NAPPING"
      /\ \A p \in Range(dead_queue) : p \in Procs /\ state[p] = "DEAD" /\ p # Kernel
  BY HeldAllocated
<1>2. /\ next \in all /\ Range(ReadyLeft(state)) = all \ {next}
      /\ IsInjective(ReadyLeft(state)) /\ ReadyLeft(state) \in Seq(Procs)
      /\ SwitchSafe(state)
  BY SwitchLiving
<1>3. v \in Procs /\ v # Kernel /\ state[v] = "DEAD" /\ v \notin Range(sched_get_dead)
  BY <1>1, DeadRange
<1>4. /\ w \in Seq(Procs) /\ IsInjective(w) /\ Range(w) \subseteq Waiting
  BY <1>0, <1>3 DEF WaitsOnce, Waiting
<1>5. /\ sched_timekeeper(st, rq)
      /\ dead_queue' = Without(sched_get_dead, Range(w))
      /\ waiters' = [waiters EXCEPT ![v] = << >>]
      /\ Orphaned(v) /\ UNCHANGED proc_pid
  BY DeadLeftLiving DEF TickReap
<1>6. \A p \in Procs : st[p] = IF p = v THEN "FREED"
                               ELSE IF p = next THEN "LIVING"
                               ELSE IF p \in Range(w) \/ p = current THEN "READY"
                               ELSE state[p]
  BY SwitchedLiving
<1>7. st \in [Procs -> States]
  <2>1. Switched(state) \in [Procs -> States]
    BY <1>0, <1>2, SwitchType
  <2> QED
    BY <2>1 DEF States
<1>8. /\ rq \in Seq(Procs) /\ IsInjective(rq)
      /\ Range(rq) = (all \ {next}) \cup Range(w)
  <2>1. /\ kept \in Seq(Procs) /\ IsInjective(kept)
        /\ Range(kept) = Range(ReadyLeft(state)) \ Range(w)
    <3> DEFINE left == ReadyLeft(state)
               S == Range(w)
    <3>1. left \in Seq(Procs) /\ IsInjective(left) /\ kept = Keep(left, Range(left) \ S)
      BY <1>2 DEF Without
    <3> HIDE DEF left, S, kept
    <3>2. kept \in Seq(Procs) /\ IsInjective(kept) /\ Range(kept) = Range(left) \ S
      BY <3>1, WithoutRange
    <3> QED
      BY <3>2 DEF left, S
  <2>2. Range(kept) = all \ {next} /\ Range(kept) \cap Range(w) = {}
    BY <2>1, <1>1, <1>2, <1>4
  <2> HIDE DEF kept, w
  <2>3. rq = kept \o w
    BY <2>1, <2>2, <1>4, EnqueueAllFits, Constants DEF Disciplined, Procs
  <2> HIDE DEF rq
  <2> QED
    BY <2>1, <2>2, <2>3, <1>4, ConcatRange
<1>9. Range(rq) \cap Nappers = {}
  BY <1>0, <1>1, <1>4, <1>8
<1> HIDE DEF st, rq, next, w
<1>10. /\ IsInjective(ready_queue') /\ NapsOnce'
       /\ Range(ready_queue') = (all \ {next}) \cup Range(w) \cup Range(Woken)
       /\ Nappers' = Nappers \ Range(Woken)
       /\ \A p \in Procs : state'[p] = IF p \in Range(Woken) THEN "READY" ELSE st[p]
  BY <1>0, <1>5, <1>7, <1>8, <1>9, TimekeeperFacts DEF Disciplined
<1>11. Range(Woken) \subseteq Nappers
  BY <1>0, NappingFacts
<1>12. /\ next \notin Range(Woken) /\ next \notin Range(w) /\ next # v
       /\ current \notin Range(Woken) /\ current \notin Range(w) /\ current # v
       /\ v \notin Range(Woken) /\ v \notin Range(w)
       /\ next \notin Waiting /\ next \notin Nappers
       /\ v \notin Waiting /\ v \notin Nappers /\ v \notin all
       /\ Range(w) \cap Range(Woken) = {}
  BY <1>0, <1>1, <1>2, <1>3, <1>4, <1>11
<1>13. \A p \in Procs : state'[p] = IF p = v THEN "FREED"
                                    ELSE IF p = next THEN "LIVING"
                                    ELSE IF p \in Range(w) \cup Range(Woken) \cup {current}
                                         THEN "READY"
                                    ELSE state[p]
  BY <1>6, <1>10, <1>12
<1>14. Range(dead_queue') \subseteq Range(dead_queue) \ {v} /\ IsInjective(dead_queue')
  <2>1. /\ sched_get_dead \in Seq(Procs) /\ IsInjective(sched_get_dead)
        /\ Range(sched_get_dead) \subseteq Range(dead_queue)
    BY DeadRange
  <2>2. /\ Range(dead_queue') = Range(sched_get_dead) \ Range(w)
        /\ IsInjective(dead_queue')
    BY <2>1, <1>5, WithoutRange DEF Without
  <2> QED
    BY <2>1, <2>2, <1>3
<1>15. \A q \in Procs : waiters'[q] = IF q = v THEN << >> ELSE waiters[q]
  BY <1>0, <1>5
<1>16. \A q \in Procs : Range(waiters'[q]) = IF q = v THEN {} ELSE Range(waiters[q])
  BY <1>15 DEF Range
<1>17. Waiting' = Waiting \ Range(w)
  <2>1. Waiting' = UNION {Range(waiters'[q]) : q \in Procs}
    BY DEF Waiting
  <2>2. \A q \in Procs : q # v => Range(waiters[q]) \cap Range(w) = {}
    BY <1>0, <1>3 DEF WaitsOnce, w
  <2>3. Waiting' \subseteq Waiting \ Range(w)
    BY <2>1, <2>2, <1>16 DEF Waiting
  <2>4. Waiting \ Range(w) \subseteq Waiting'
    BY <2>1, <1>16 DEF Waiting, w
  <2> QED
    BY <2>3, <2>4
<1>18. WaitsOnce'
  <2>1. ASSUME NEW q \in Procs PROVE IsInjective(waiters'[q])
    <3>1. CASE q = v
      <4>1. waiters'[q] = << >>
        BY <3>1, <1>15
      <4> QED
        BY <4>1 DEF IsInjective
    <3>2. CASE q # v
      <4>1. waiters'[q] = waiters[q]
        BY <3>2, <1>15
      <4> QED
        BY <4>1, <1>0 DEF WaitsOnce
    <3> QED
      BY <3>1, <3>2
  <2>2. \A q, r \in Procs : q # r => Range(waiters'[q]) \cap Range(waiters'[r]) = {}
    BY <1>0, <1>16 DEF WaitsOnce
  <2> QED
    BY <2>1, <2>2 DEF WaitsOnce
<1>19. StateMatchesPlace'
  <2> SUFFICES ASSUME NEW p \in Procs
               PROVE  /\ state'[p] = "LIVING" <=> p = current'
                      /\ state'[p] = "READY" <=> p \in Range(ready_queue')
                      /\ state'[p] = "NAPPING" <=> p \in Nappers' \cup Waiting'
    BY DEF StateMatchesPlace
  <2>1. /\ state[p] = "LIVING" <=> p = current
        /\ state[p] = "READY" <=> p \in Range(ready_queue)
        /\ state[p] = "NAPPING" <=> p \in Nappers \cup Waiting
    BY <1>0 DEF StateMatchesPlace
  <2>2. current' = next
    BY DEF next
  <2>3. CASE p \in Range(w) \cup Range(Woken)
    <3>1. state'[p] = "READY" /\ p # current' /\ p \in Range(ready_queue')
      BY <2>2, <2>3, <1>10, <1>12, <1>13
    <3>2. p \notin Nappers' \cup Waiting'
      BY <2>3, <1>0, <1>4, <1>10, <1>11, <1>17
    <3> QED
      BY <3>1, <3>2
  <2>4. CASE p = next
    <3>1. state'[p] = "LIVING" /\ p = current' /\ p \notin Range(ready_queue')
      BY <2>2, <2>4, <1>10, <1>12, <1>13
    <3>2. p \notin Nappers' \cup Waiting'
      BY <2>4, <1>10, <1>12, <1>17
    <3> QED
      BY <3>1, <3>2
  <2>5. CASE p = v
    <3>1. state'[p] = "FREED" /\ p # current' /\ p \notin Range(ready_queue')
      BY <2>2, <2>5, <1>10, <1>12, <1>13
    <3>2. p \notin Nappers' \cup Waiting'
      BY <2>5, <1>10, <1>12, <1>17
    <3> QED
      BY <3>1, <3>2
  <2>6. CASE p \notin Range(w) \cup Range(Woken) /\ p # next /\ p # v
    <3>1. p \in Nappers' \cup Waiting' <=> p \in Nappers \cup Waiting
      BY <2>6, <1>10, <1>17
    <3>2. p # current' /\ state'[p] = IF p = current THEN "READY" ELSE state[p]
      BY <2>2, <2>6, <1>13
    <3>3. p \in Range(ready_queue') <=> p \in all
      BY <2>6, <1>10
    <3>4. CASE p = current
      BY <3>1, <3>2, <3>3, <3>4, <1>1
    <3>5. CASE p # current
      BY <3>1, <3>2, <3>3, <3>5, <2>1
    <3> QED
      BY <3>4, <3>5
  <2> QED
    BY <2>3, <2>4, <2>5, <2>6
<1>20. HeldOnce'
  BY <1>0, <1>10, <1>14, <1>17, <1>18 DEF HeldOnce
<1>21. \A p \in Procs : state'[p] # state[p] /\ p # v =>
         state[p] \in {"LIVING", "READY", "NAPPING"} /\ state'[p] \in {"LIVING", "READY"}
  BY <1>1, <1>2, <1>4, <1>11, <1>13
<1>22. DeadAwaitDestruction'
  BY <1>1, <1>14, <1>21 DEF DeadAwaitDestruction
<1>23. Allocated(v) /\ state'[v] = "FREED"
  BY <1>3, <1>13 DEF Allocated
<1>24. /\ \A p \in Procs : Allocated(p)' <=> (Allocated(p) /\ p # v)
       /\ \A p \in Procs : state'[p] = "UNBORN" <=> state[p] = "UNBORN"
  BY <1>3, <1>21, <1>23 DEF Allocated
<1>25. TreeMatchesParents' /\ PidsInOrder'
  BY <1>3, <1>5, <1>23, <1>24, OrphanedInv
<1>26. WaitedForExists'
  BY <1>15, <1>24 DEF SchedulerInv, WaitedForExists
<1>27. KernelStays' /\ NeverCrashed'
  BY <1>3, <1>13, Constants DEF SchedulerInv, KernelStays, NeverCrashed
<1> QED
  BY <1>19, <1>20, <1>22, <1>25, <1>26, <1>27 DEF SchedulerInv, Placement

\* No handler is about to follow a NULL or a freed process.
LEMMA NoCrash ==
    ASSUME SchedulerInv, Disciplined PROVE ~TickUnsafe /\ ~CallUnsafe
<1>1. /\ current \in Procs /\ state[current] = "LIVING"
      /\ \A p \in Range(ready_queue) : p \in Procs /\ state[p] = "READY"
      /\ \A p \in Nappers : p \in Procs /\ state[p] = "NAPPING"
      /\ \A p \in Waiting : p \in Procs /\ state[p] = "NAPPING"
      /\ \A p \in Range(dead_queue) : p \in Procs /\ state[p] = "DEAD" /\ p # Kernel
  BY HeldAllocated
<1>2. /\ SwitchSafe(state)
      /\ sched_get_ready(state) \in Range(ready_queue) \cup {current}
  BY SwitchLiving
<1>3. \A p \in Range(Woken) : Allocated(p) /\ state[p] = "NAPPING"
  <2>1. Range(Woken) \subseteq Nappers
    BY NappingFacts DEF SchedulerInv, Placement, HeldOnce
  <2> QED
    BY <2>1, <1>1 DEF Allocated
<1>4. ASSUME Reaps PROVE ReapSafe(Head(dead_queue))
  <2> DEFINE v == Head(dead_queue)
  <2>1. v \in Procs /\ state[v] = "DEAD"
    BY <1>1, <1>4, DeadRange DEF Reaps
  <2>2. \A p \in Range(waiters[v]) : Allocated(p)
    BY <2>1, <1>1 DEF Waiting, Allocated
  <2>3. v # sched_get_ready(state) /\ v \notin Range(Woken)
    BY <2>1, <1>1, <1>2, <1>3
  <2> QED
    BY <2>1, <2>2, <2>3 DEF ReapSafe, Allocated
<1>5. current # Kernel => SwitchSafe([state EXCEPT ![current] = "DEAD"])
  BY SwitchDying
<1>6. \A t \in Range(napping_list) : Allocated(t.process)
  BY <1>1 DEF Nappers, Range, Allocated
<1> QED
  BY <1>2, <1>3, <1>4, <1>5, <1>6 DEF TickUnsafe, CallUnsafe

-----------------------------------------------------------------------------
(* The invariant, and what it says of every reachable state.               *)

\* kmain leaves the scheduler in order.
LEMMA InitInv == Init => SchedulerInv
<1> SUFFICES ASSUME Init PROVE SchedulerInv
  OBVIOUS
<1>1. TypeOK
  BY InitType
<1>2. /\ Kernel \in Procs /\ Init_pid \in Procs /\ Kernel # Init_pid
      /\ Kernel = 1 /\ Init_pid = 2 /\ NoParent = 0
  BY Constants DEF Kernel, Init_pid, NoParent
<1>3. /\ Range(<<Init_pid>>) = {Init_pid} /\ IsInjective(<<Init_pid>>)
      /\ Range(<< >>) = {} /\ IsInjective(<< >>)
  BY DEF Range, IsInjective
<1>4. /\ \A p \in Procs : state[p] = IF p = Kernel THEN "LIVING"
                                ELSE IF p = Init_pid THEN "READY" ELSE "UNBORN"
      /\ \A p \in Procs : waiters[p] = << >>
      /\ \A p \in Procs : parent[p] = IF p = Init_pid THEN Kernel ELSE NoParent
      /\ \A p \in Procs : sub_trees[p] = IF p = Kernel THEN <<Init_pid>> ELSE << >>
      /\ ready_queue = <<Init_pid>> /\ dead_queue = << >> /\ napping_list = << >>
      /\ current = Kernel /\ proc_pid = Init_pid /\ crashed = FALSE
  BY DEF Init
<1>5. Nappers = {} /\ Waiting = {}
  BY <1>3, <1>4 DEF Nappers, Waiting
<1>6. Placement
  <2>1. StateMatchesPlace
    BY <1>2, <1>3, <1>4, <1>5 DEF StateMatchesPlace
  <2>2. NapsOnce
    BY <1>4 DEF NapsOnce
  <2>3. WaitsOnce
    <3>1. \A q \in Procs : IsInjective(waiters[q]) /\ Range(waiters[q]) = {}
      BY <1>3, <1>4
    <3> QED
      BY <3>1 DEF WaitsOnce
  <2> QED
    BY <2>1, <2>2, <2>3, <1>3, <1>4, <1>5 DEF Placement, HeldOnce
<1>7. DeadAwaitDestruction
  BY <1>3, <1>4 DEF DeadAwaitDestruction
<1>8. TreeMatchesParents
  <2>1. \A p \in Procs : /\ Range(sub_trees[p]) = IF p = Kernel THEN {Init_pid} ELSE {}
                         /\ IsInjective(sub_trees[p])
    BY <1>3, <1>4
  <2>2. \A p \in Procs : Allocated(p) <=> p \in {Kernel, Init_pid}
    BY <1>2, <1>4 DEF Allocated
  <2>3. \A p, c \in Procs : c \in Range(sub_trees[p]) <=>
          (c # Kernel /\ Allocated(c) /\ parent[c] = p)
    <3> SUFFICES ASSUME NEW p \in Procs, NEW c \in Procs
                 PROVE  c \in Range(sub_trees[p]) <=>
                        (c # Kernel /\ Allocated(c) /\ parent[c] = p)
      OBVIOUS
    <3>1. CASE c = Init_pid
      BY <3>1, <2>1, <2>2, <1>2, <1>4
    <3>2. CASE c # Init_pid
      BY <3>2, <2>1, <2>2
    <3> QED
      BY <3>1, <3>2
  <2>4. \A p \in Procs : Allocated(p) /\ p # Kernel =>
          parent[p] \in Procs /\ Allocated(parent[p])
    BY <2>2, <1>2, <1>4
  <2>5. \A p \in Procs : ~Allocated(p) => sub_trees[p] = << >>
    BY <2>2, <1>4
  <2> QED
    BY <2>1, <2>3, <2>4, <2>5 DEF TreeMatchesParents
<1>9. PidsInOrder
  BY <1>2, <1>4, Constants DEF PidsInOrder, Allocated, Procs
<1>10. WaitedForExists /\ KernelStays /\ NeverCrashed
  BY <1>2, <1>4 DEF WaitedForExists, KernelStays, NeverCrashed
<1> QED
  BY <1>1, <1>6, <1>7, <1>8, <1>9, <1>10 DEF SchedulerInv

\* A step that leaves the scheduler's variables alone.
LEMMA StutterInv == ASSUME SchedulerInv, UNCHANGED vars PROVE SchedulerInv'
<1>1. UNCHANGED <<state, ready_queue, dead_queue, napping_list, waiters, tree,
                  current, int_no, in_service, crashed>>
  BY DEF vars, tree
<1>2. TypeOK'
  BY NextType DEF SchedulerInv
<1>3. Nappers' = Nappers /\ Waiting' = Waiting
  BY <1>1 DEF Nappers, Waiting
<1>4. Placement'
  BY <1>1, <1>3 DEF SchedulerInv, Placement, StateMatchesPlace, HeldOnce, NapsOnce, WaitsOnce
<1>5. TreeMatchesParents' /\ PidsInOrder'
  BY <1>1, TreeFrame
<1>6. DeadAwaitDestruction' /\ WaitedForExists' /\ KernelStays' /\ NeverCrashed'
  BY <1>1 DEF SchedulerInv, DeadAwaitDestruction, WaitedForExists, KernelStays,
              NeverCrashed, Allocated
<1> QED
  BY <1>2, <1>4, <1>5, <1>6 DEF SchedulerInv

\* Every step keeps the scheduler in order.
LEMMA NextInv == ASSUME SchedulerInv, Disciplined, [Next]_vars PROVE SchedulerInv'
<1>0. TypeOK'
  BY NextType DEF SchedulerInv
<1>1. CASE Tick
  <2>1. current' = sched_get_ready(state) /\ UNCHANGED crashed
    BY <1>1 DEF Tick
  <2>2. CASE Reaps
    BY <2>1, <2>2, <1>0, <1>1, TickReapInv DEF Tick, Reaps
  <2>3. CASE ~Reaps
    BY <2>1, <2>3, <1>0, <1>1, TickPlainInv DEF Tick
  <2> QED
    BY <2>2, <2>3
<1>2. CASE sysc_exit \/ sysc_execve_fail \/ page_fault_kill
  BY <1>0, <1>2, DieInv DEF sysc_exit, sysc_execve_fail, page_fault_kill, Call
<1>3. CASE sysc_execve
  BY <1>0, <1>3, SwitchInv DEF sysc_execve
<1>4. CASE sysc_fork \/ sysc_spawn
  BY <1>0, <1>4, CreateInv DEF sysc_fork, sysc_spawn
<1>5. CASE \E pid \in WaitPids : sysc_wait(pid)
  BY <1>0, <1>5, WaitInv
<1>6. CASE \E t \in SleepTimes : sysc_sleep(t)
  BY <1>0, <1>6, SleepInv
<1>7. CASE \E pid \in Procs : sysc_wakeup(pid)
  BY <1>0, <1>7, WakeupInv
<1>8. CASE \E pid \in KillPids : sysc_kill(pid)
  BY <1>0, <1>8, KillInv
<1>9. CASE Crash
  BY <1>9, NoCrash DEF Crash
<1>10. CASE UNCHANGED vars
  BY <1>10, StutterInv
<1> QED
  BY <1>1, <1>2, <1>3, <1>4, <1>5, <1>6, <1>7, <1>8, <1>9, <1>10 DEF Next

\* Under the calls Disciplined allows, the inductive invariant holds in every
\* reachable state of the scheduler, for any number of processes.
THEOREM SchedulerInvariant == ASSUME Disciplined PROVE Spec => []SchedulerInv
<1>1. Init => SchedulerInv
  BY InitInv
<1>2. SchedulerInv /\ [Next]_vars => SchedulerInv'
  BY NextInv
<1> QED
  BY <1>1, <1>2, PTL DEF Spec

\* Every unfinished process is running, ready, napping or waiting, in exactly
\* one place: sched_get_next loses and duplicates nothing.
THEOREM PlacementHolds == ASSUME Disciplined PROVE Spec => []Placement
<1>1. SchedulerInv => Placement
  BY DEF SchedulerInv
<1> QED
  BY <1>1, SchedulerInvariant, PTL

\* sched_preempt_handler always has a process to switch to, and proc_destroy
\* never runs twice for a process or under one the scheduler still uses.
THEOREM CrashFree == ASSUME Disciplined PROVE Spec => []NeverCrashed
<1>1. SchedulerInv => NeverCrashed
  BY DEF SchedulerInv
<1> QED
  BY <1>1, SchedulerInvariant, PTL

\* The process tree and the parent pointers agree in every reachable state,
\* across creation and across the reparenting of proc_destroy.
THEOREM TreeHolds == ASSUME Disciplined PROVE Spec => []TreeMatchesParents
<1>1. SchedulerInv => TreeMatchesParents
  BY DEF SchedulerInv
<1> QED
  BY <1>1, SchedulerInvariant, PTL

\* A process that blocks in wait is on the list of a process that exists, so
\* proc_destroy of that one will find and wake it.
THEOREM WaitersAreFound == ASSUME Disciplined PROVE Spec => []WaitedForExists
<1>1. SchedulerInv => WaitedForExists
  BY DEF SchedulerInv
<1> QED
  BY <1>1, SchedulerInvariant, PTL

-----------------------------------------------------------------------------
(* Round robin.                                                            *)

LEMMA SameOrder == ASSUME NEW q PROVE InOrder(q, q)
BY DEF InOrder

LEMMA OrderTransitive ==
    ASSUME NEW q, NEW r, NEW s, InOrder(q, r), InOrder(r, s), Range(s) \cap Range(q) \subseteq Range(r)
    PROVE  InOrder(q, s)
<1> SUFFICES ASSUME NEW x \in Range(s), NEW y \in Range(s), x \in Range(q), x # y,
                    y \notin Range(q) \/ Before(q, x, y)
             PROVE  Before(s, x, y)
  BY DEF InOrder
<1>1. x \in Range(r)
  OBVIOUS
<1>2. CASE y \in Range(r)
  BY <1>1, <1>2 DEF InOrder
<1>3. CASE y \notin Range(r)
  BY <1>1, <1>3 DEF InOrder
<1> QED
  BY <1>2, <1>3

LEMMA ConcatOrder ==
    ASSUME NEW T, NEW q \in Seq(T), NEW r \in Seq(T)
    PROVE  InOrder(q, q \o r)
<1> DEFINE k == q \o r
           m == Len(q)
           n == Len(r)
<1>1. /\ m \in Nat /\ n \in Nat /\ DOMAIN q = 1..m /\ DOMAIN r = 1..n /\ DOMAIN k = 1..(m + n)
      /\ \A i \in 1..m : k[i] = q[i]
      /\ \A j \in 1..n : k[m + j] = r[j]
  OBVIOUS
<1>2. Range(k) = Range(q) \cup Range(r)
  BY ConcatRange
<1> HIDE DEF k, m, n
<1>3. \A i \in 1..m : i \in 1..(m + n)
  BY <1>1
<1>4. \A j \in 1..n : m + j \in 1..(m + n)
  BY <1>1
<1> SUFFICES ASSUME NEW x \in Range(k), NEW y \in Range(k), x \in Range(q), x # y,
                    y \notin Range(q) \/ Before(q, x, y)
             PROVE  Before(k, x, y)
  BY DEF InOrder, k
<1>5. CASE Before(q, x, y)
  BY <1>1, <1>3, <1>5 DEF Before
<1>6. CASE y \notin Range(q)
  <2>1. PICK i \in 1..m : q[i] = x
    BY <1>1 DEF Range
  <2>2. PICK j \in 1..n : r[j] = y
    BY <1>1, <1>2, <1>6 DEF Range
  <2>3. i < m + j
    BY <1>1
  <2>4. k[i] = x /\ k[m + j] = y /\ i \in DOMAIN k /\ m + j \in DOMAIN k
    BY <1>1, <1>3, <1>4, <2>1, <2>2
  <2> QED
    BY <2>3, <2>4 DEF Before
<1> QED
  BY <1>5, <1>6

LEMMA EnqueueOrder ==
    ASSUME NEW T, NEW q \in Seq(T), NEW x \in T, NEW limit
    PROVE  InOrder(q, queue_enqueue(q, x, limit))
<1>1. Append(q, x) = q \o <<x>> /\ <<x>> \in Seq(T)
  OBVIOUS
<1>2. InOrder(q, Append(q, x))
  BY <1>1, ConcatOrder
<1> QED
  BY <1>2, SameOrder DEF queue_enqueue

LEMMA TailOrder ==
    ASSUME NEW T, NEW q \in Seq(T), q # << >>, IsInjective(q)
    PROVE  InOrder(q, Tail(q))
<1> DEFINE k == Tail(q)
           n == Len(q)
<1>1. n \in Nat /\ DOMAIN q = 1..n /\ DOMAIN k = 1..(n - 1) /\ \A i \in 1..(n - 1) : k[i] = q[i + 1]
  OBVIOUS
<1>2. Range(k) \subseteq Range(q) /\ Head(q) \notin Range(k) /\ Head(q) = q[1]
  BY HeadTailRange
<1> HIDE DEF k, n
<1> SUFFICES ASSUME NEW x \in Range(k), NEW y \in Range(k), Before(q, x, y)
             PROVE  Before(k, x, y)
  BY <1>2 DEF InOrder, k
<1>3. PICK i, j \in 1..n : i < j /\ q[i] = x /\ q[j] = y
  BY <1>1 DEF Before
<1>4. i # 1
  BY <1>2, <1>3
<1>5. /\ i - 1 \in 1..(n - 1) /\ j - 1 \in 1..(n - 1) /\ i - 1 < j - 1
      /\ (i - 1) + 1 = i /\ (j - 1) + 1 = j
  BY <1>1, <1>3, <1>4
<1>6. k[i - 1] = x /\ k[j - 1] = y
  BY <1>1, <1>3, <1>5
<1> QED
  BY <1>1, <1>5, <1>6 DEF Before

LEMMA WithoutOrder ==
    ASSUME NEW T, NEW q \in Seq(T), NEW S, IsInjective(q)
    PROVE  InOrder(q, Without(q, S))
<1> DEFINE k == Without(q, S)
           n == Len(q)
           R == Range(q) \ S
<1>1. k = Keep(q, R)
  BY DEF Without
<1> HIDE DEF k, R
<1>2. k \in Seq(T) /\ \E e : Embeds(e, k, q, n, R)
  BY <1>1, KeepEmbeds
<1>3. Range(k) \subseteq Range(q)
  BY <1>1, KeepRange
<1>4. n \in Nat /\ DOMAIN q = 1..n /\ DOMAIN k = 1..Len(k) /\ Len(k) \in Nat
  BY <1>2
<1>5. PICK e : Embeds(e, k, q, n, R)
  BY <1>2
<1> HIDE DEF n
<1> SUFFICES ASSUME NEW x \in Range(k), NEW y \in Range(k), Before(q, x, y)
             PROVE  Before(k, x, y)
  BY <1>3 DEF InOrder, k
<1>6. PICK i, j \in 1..n : i < j /\ q[i] = x /\ q[j] = y
  BY <1>4 DEF Before
<1>7. PICK a \in 1..Len(k) : k[a] = x
  BY <1>4 DEF Range
<1>8. PICK b \in 1..Len(k) : k[b] = y
  BY <1>4 DEF Range
<1>9. e[a] = i /\ e[b] = j
  <2>1. e[a] \in 1..n /\ e[b] \in 1..n /\ q[e[a]] = x /\ q[e[b]] = y
    BY <1>5, <1>7, <1>8 DEF Embeds
  <2> QED
    BY <1>4, <1>6, <2>1 DEF IsInjective
<1>10. a < b
  <2>1. a # b
    BY <1>4, <1>6, <1>9
  <2>2. ~(b < a)
    BY <1>4, <1>5, <1>6, <1>9 DEF Embeds
  <2> QED
    BY <1>4, <2>1, <2>2
<1> QED
  BY <1>4, <1>7, <1>8, <1>10 DEF Before

\* A switch takes the first process and puts the current one behind the others.
LEMMA SwitchOrder ==
    ASSUME SchedulerInv, Disciplined
    PROVE  InOrder(ready_queue, ReadyLeft(state))
<1>1. /\ current \in Procs /\ state[current] = "LIVING" /\ current \notin Range(ready_queue)
      /\ ready_queue \in Seq(Procs) /\ IsInjective(ready_queue)
  BY HeldAllocated DEF SchedulerInv, TypeOK, Placement, HeldOnce
<1> DEFINE q == Requeued(state)
<1>2. q = Append(ready_queue, current)
  BY <1>1, EnqueueFits, Constants DEF Requeued, sched_make_ready, Disciplined, Procs
<1>3. /\ q \in Seq(Procs) /\ Range(q) = Range(ready_queue) \cup {current} /\ IsInjective(q) /\ q # << >>
  BY <1>1, <1>2, AppendRange
<1>4. InOrder(ready_queue, q)
  <2>1. q = ready_queue \o <<current>> /\ <<current>> \in Seq(Procs)
    BY <1>1, <1>2
  <2> QED
    BY <1>1, <2>1, ConcatOrder
<1>5. InOrder(q, Tail(q)) /\ Range(Tail(q)) \subseteq Range(q)
  BY <1>3, TailOrder, HeadTailRange
<1> HIDE DEF q
<1>6. InOrder(ready_queue, Tail(q))
  BY <1>3, <1>4, <1>5, OrderTransitive
<1> QED
  BY <1>6 DEF ReadyLeft, q

LEMMA DyingOrder ==
    ASSUME SchedulerInv, current # Kernel, NEW st, st = [state EXCEPT ![current] = "DEAD"]
    PROVE  InOrder(ready_queue, ReadyLeft(st))
<1>1. /\ current \in Procs /\ state \in [Procs -> States]
      /\ ready_queue \in Seq(Procs) /\ IsInjective(ready_queue)
  BY HeldAllocated DEF SchedulerInv, TypeOK, Placement, HeldOnce
<1>2. Requeued(st) = ready_queue
  BY <1>1 DEF Requeued
<1>3. Requeued(st) # << >>
  BY SwitchDying DEF SwitchSafe
<1> QED
  BY <1>1, <1>2, <1>3, TailOrder DEF ReadyLeft

\* Who is woken or was waiting was not ready before: it is queued behind those who were.
LEMMA TickOrder ==
    ASSUME SchedulerInv, Disciplined, Tick
    PROVE  InOrder(ready_queue, ready_queue')
<1> DEFINE L == ReadyLeft(state)
           v == Head(dead_queue)
           w == waiters[v]
<1>1. /\ L \in Seq(Procs) /\ IsInjective(L) /\ Range(L) \subseteq Range(ready_queue) \cup {current}
  BY SwitchLiving
<1>2. InOrder(ready_queue, L)
  BY SwitchOrder
<1>3. /\ current \notin Nappers /\ current \notin Waiting
      /\ \A p \in Range(ready_queue) : state[p] = "READY"
      /\ \A p \in Nappers : state[p] = "NAPPING"
      /\ \A p \in Waiting : state[p] = "NAPPING"
  BY HeldAllocated
<1>4. Woken \in Seq(Procs) /\ IsInjective(Woken) /\ Range(Woken) \subseteq Nappers
  BY NappingFacts DEF SchedulerInv, Placement, HeldOnce
<1>5. Nappers \cap Waiting = {} /\ waiters \in [Procs -> Seq(Procs)] /\ WaitsOnce
  BY DEF SchedulerInv, TypeOK, Placement, HeldOnce
<1> HIDE DEF L
<1>6. Range(L) \cap Range(Woken) = {} /\ Range(ready_queue) \cap Range(Woken) = {}
  BY <1>1, <1>3, <1>4
\* The queue the timekeeper starts from has what was left, in order, and new ones.
<1>7. ASSUME NEW rq \in Seq(Procs), IsInjective(rq), Range(rq) \cap Range(Woken) = {}, InOrder(ready_queue, rq),
             ready_queue' = EnqueueAll(rq, Woken, SCHED_MAX_READY)
      PROVE  InOrder(ready_queue, ready_queue')
  <2>1. ready_queue' = rq \o Woken
    <3>1. MaxPid \in Nat /\ SCHED_MAX_READY \in Nat /\ MaxPid <= SCHED_MAX_READY /\ Procs = 1..MaxPid
      BY Constants DEF Disciplined, Procs
    <3>2. rq \in Seq(1..MaxPid) /\ Woken \in Seq(1..MaxPid)
      BY <1>4, <3>1
    <3> HIDE DEF Woken
    <3> QED
      BY ONLY <1>4, <1>7, <3>1, <3>2, EnqueueAllFits
  <2>2. InOrder(rq, ready_queue')
    BY <1>4, <2>1, ConcatOrder
  <2>3. Range(ready_queue') = Range(rq) \cup Range(Woken)
    BY <1>4, <2>1, ConcatRange
  <2>4. Range(ready_queue') \cap Range(ready_queue) \subseteq Range(rq)
    BY <1>6, <2>3
  <2> QED
    BY <1>7, <2>2, <2>4, OrderTransitive
<1>8. CASE ~Reaps
  <2>1. ready_queue' = EnqueueAll(L, Woken, SCHED_MAX_READY)
    BY <1>8 DEF Tick, TickPlain, sched_timekeeper, L
  <2> QED
    BY <1>1, <1>2, <1>6, <1>7, <2>1
<1>9. CASE Reaps
  <2> DEFINE kept == Without(L, Range(w))
             rq == EnqueueAll(kept, w, SCHED_MAX_READY)
  <2>1. v \in Procs
    BY <1>9, HeldAllocated, DeadRange DEF Reaps
  <2>2. w \in Seq(Procs) /\ IsInjective(w) /\ Range(w) \subseteq Waiting
    BY <1>5, <2>1 DEF WaitsOnce, Waiting
  <2>3. ready_queue' = EnqueueAll(rq, Woken, SCHED_MAX_READY)
    BY <1>9 DEF Tick, TickReap, sched_timekeeper, L
  <2> DEFINE S == Range(w)
  <2> HIDE DEF w, v, S
  <2>4. /\ kept \in Seq(Procs) /\ IsInjective(kept) /\ Range(kept) = Range(L) \ S
        /\ InOrder(L, kept)
    <3>1. kept = Without(L, S)
      BY DEF S
    <3> HIDE DEF kept
    <3> QED
      BY <1>1, <3>1, WithoutRange, WithoutOrder DEF Without
  <2>5. InOrder(ready_queue, kept)
    BY <1>2, <2>4, OrderTransitive
  <2> HIDE DEF kept
  <2>6. Range(kept) \cap Range(w) = {} /\ Range(w) \cap Range(ready_queue) = {}
    BY <1>3, <2>2, <2>4 DEF S
  <2>7. rq = kept \o w
    BY <2>2, <2>4, <2>6, EnqueueAllFits, Constants DEF Disciplined, Procs
  <2> HIDE DEF rq
  <2>8. rq \in Seq(Procs) /\ IsInjective(rq) /\ Range(rq) = Range(kept) \cup Range(w) /\ InOrder(kept, rq)
    BY <2>2, <2>4, <2>6, <2>7, ConcatRange, ConcatOrder
  <2>9. InOrder(ready_queue, rq)
    <3>1. Range(rq) \cap Range(ready_queue) \subseteq Range(kept)
      BY <2>6, <2>8
    <3> QED
      BY <2>5, <2>8, <3>1, OrderTransitive
  <2>10. Range(rq) \cap Range(Woken) = {}
    BY <1>4, <1>5, <1>6, <2>2, <2>4, <2>8
  <2> QED
    BY <1>7, <2>3, <2>8, <2>9, <2>10
<1> QED
  BY <1>8, <1>9

LEMMA NextOrder ==
    ASSUME SchedulerInv, Disciplined, Next
    PROVE  InOrder(ready_queue, ready_queue')
<1>1. /\ ready_queue \in Seq(Procs) /\ IsInjective(ready_queue) /\ TypeOK
  BY DEF SchedulerInv, TypeOK, Placement, HeldOnce
<1>2. CASE Tick
  BY <1>2, TickOrder
<1>3. CASE sysc_exit \/ sysc_execve_fail \/ page_fault_kill
  <2>1. current # Kernel /\ ready_queue' = ReadyLeft([state EXCEPT ![current] = "DEAD"])
    BY <1>3 DEF sysc_exit, sysc_execve_fail, page_fault_kill, Call, Die
  <2> QED
    BY <2>1, DyingOrder
<1>4. CASE sysc_execve
  BY <1>4, SwitchOrder DEF sysc_execve
<1>5. CASE sysc_fork \/ sysc_spawn
  <2>1. proc_pid + 1 \in Procs /\ ready_queue' = sched_make_ready(ready_queue, proc_pid + 1)
    BY <1>1, <1>5, Constants DEF sysc_fork, sysc_spawn, Create, TypeOK, Procs
  <2> QED
    BY <1>1, <2>1, EnqueueOrder DEF sched_make_ready
\* A process that blocks leaves the queue again.
<1>6. ASSUME ready_queue' = ReadyLeft(state) \/ ready_queue' = Without(ReadyLeft(state), {current})
      PROVE  InOrder(ready_queue, ready_queue')
  <2> DEFINE L == ReadyLeft(state)
             k == Without(L, {current})
  <2>1. InOrder(ready_queue, L) /\ L \in Seq(Procs) /\ IsInjective(L)
    BY SwitchOrder, SwitchLiving
  <2> HIDE DEF L
  <2>2. InOrder(L, k) /\ Range(k) = Range(L) \ {current}
    BY <2>1, WithoutOrder, WithoutRange DEF Without
  <2> HIDE DEF k
  <2>3. InOrder(ready_queue, k)
    BY <2>1, <2>2, OrderTransitive
  <2> QED
    BY <1>6, <2>1, <2>3 DEF L, k
<1>7. CASE \E pid \in WaitPids : sysc_wait(pid)
  <2>1. ready_queue' = ReadyLeft(state) \/ ready_queue' = Without(ReadyLeft(state), {current})
    BY <1>7 DEF sysc_wait
  <2> QED
    BY <1>6, <2>1
<1>8. CASE \E t \in SleepTimes : sysc_sleep(t)
  <2>1. ready_queue' = ReadyLeft(state) \/ ready_queue' = Without(ReadyLeft(state), {current})
    BY <1>8 DEF sysc_sleep
  <2> QED
    BY <1>6, <2>1
<1>9. ASSUME NEW pid \in Procs PROVE InOrder(ready_queue, Without(ready_queue, {pid}))
  BY <1>1, WithoutOrder
<1>10. CASE \E pid \in Procs : sysc_wakeup(pid)
  <2>1. PICK pid \in Procs : sysc_wakeup(pid)
    BY <1>10
  <2> DEFINE k == Without(ready_queue, {pid})
  <2>2. pid \in Nappers /\ ready_queue' = sched_make_ready(k, pid)
    BY <2>1 DEF sysc_wakeup, Nappers
  <2>3. pid \notin Range(ready_queue)
    BY <2>2, HeldAllocated
  <2>4. k \in Seq(Procs) /\ Range(k) = Range(ready_queue) \ {pid}
    BY <1>1, WithoutRange DEF Without
  <2>5. InOrder(ready_queue, k)
    BY <1>9
  <2> HIDE DEF k
  <2>6. InOrder(k, ready_queue') /\ Range(ready_queue') \subseteq Range(k) \cup {pid}
    BY <2>2, <2>4, EnqueueOrder, EnqueueRange, Constants DEF sched_make_ready
  <2>7. Range(ready_queue') \cap Range(ready_queue) \subseteq Range(k)
    BY <2>3, <2>4, <2>6
  <2> QED
    BY <2>5, <2>6, <2>7, OrderTransitive
<1>11. CASE \E pid \in KillPids : sysc_kill(pid)
  <2>1. PICK pid \in Procs : ready_queue' = Without(ready_queue, {pid})
    BY <1>11, Constants DEF sysc_kill
  <2> QED
    BY <1>9, <2>1
<1>12. CASE Crash
  BY <1>12, NoCrash DEF Crash
<1> QED
  BY <1>2, <1>3, <1>4, <1>5, <1>7, <1>8, <1>10, <1>11, <1>12 DEF Next

\* Round robin: sched_make_ready, the timekeeper and proc_destroy queue a process
\* behind all that were ready before it, and no handler moves one within the queue.
THEOREM RoundRobin == ASSUME Disciplined PROVE Spec => NoOvertaking
<1>1. SchedulerInv /\ [Next]_vars => [InOrder(ready_queue, ready_queue')]_vars
  BY NextOrder
<1> QED
  BY <1>1, SchedulerInvariant, PTL DEF Spec, NoOvertaking
=============================================================================
