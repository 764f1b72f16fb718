------------------------------ MODULE Scheduler ------------------------------
(***************************************************************************)
(* Processes and their scheduling: src/kernel/process/scheduler.c, the     *)
(* process tree of process.c, the process-control system calls of          *)
(* syscall.c and the interrupt acknowledgement of interrupts/isr.c.        *)
(*                                                                         *)
(* Every handler is entered through an interrupt gate, so with interrupts  *)
(* off, on a single CPU: a handler is one atomic step.  A process is named *)
(* by its pid, which the code never reuses.  The kernel process (pid 1)    *)
(* only halts in a loop after boot and issues no system calls.             *)
(***************************************************************************)
EXTENDS Queues

CONSTANTS
    MaxPid,           \* bound: the last pid proc_get_pid hands out
    SCHED_MAX_READY,  \* capacity of the ready queue (256 in scheduler.h)
    SCHED_MAX_DEAD,   \* capacity of the dead queue (256 in scheduler.h)
    Syscalls,         \* the process-control calls (and faults) programs make
    WaitPids,         \* the pids programs pass to wait
    KillPids,         \* the pids programs pass to kill
    KillStates,       \* the states a target of kill is in when it is called
    SleepTimes        \* the durations, in ticks, programs pass to sleep

Kernel == 1
Init_pid == 2                 \* "/init", spawned by kmain
Procs == 1..MaxPid

Calls == {"exit", "fork", "spawn", "execve", "wait", "sleep", "wakeup",
          "kill", "fault"}
States == {"UNBORN", "READY", "LIVING", "NAPPING", "DEAD", "FREED"}

ASSUME ConstantsAssumption ==
    /\ MaxPid \in Nat /\ MaxPid >= 2
    /\ SCHED_MAX_READY \in Nat \ {0}
    /\ SCHED_MAX_DEAD \in Nat \ {0}
    /\ Syscalls \subseteq Calls
    /\ WaitPids \subseteq Procs
    /\ KillPids \subseteq Procs
    /\ KillStates \subseteq {"READY", "LIVING", "NAPPING"}
    /\ SleepTimes \subseteq Int

VARIABLES
    state,         \* proc_t.state; UNBORN before creation, FREED after proc_destroy
    proc_pid,      \* the last pid handed out
    ready_queue,   \* sequence of processes
    dead_queue,    \* sequence of processes
    napping_list,  \* sequence of [process, counter]
    waiters,       \* proc_t.waiters: who waits for the process to finish
    parent,        \* proc_t.parent
    sub_trees,     \* children of the process's node in process_tree, in order
    current,       \* current_process
    int_no,        \* the interrupt number in the process's saved registers
    in_service,    \* the PIC has delivered IRQ0 and was not yet acknowledged
    crashed        \* a handler followed a NULL or a freed proc_t

vars == <<state, proc_pid, ready_queue, dead_queue, napping_list, waiters,
          parent, sub_trees, current, int_no, in_service, crashed>>

tree == <<parent, sub_trees, proc_pid>>

-----------------------------------------------------------------------------
(* Boot: kmain has made the kernel current and spawned "/init".            *)

NoParent == 0

Init ==
    /\ state = [p \in Procs |-> IF p = Kernel THEN "LIVING"
                                ELSE IF p = Init_pid THEN "READY" ELSE "UNBORN"]
    /\ proc_pid = Init_pid
    /\ ready_queue = <<Init_pid>>
    /\ dead_queue = << >>
    /\ napping_list = << >>
    /\ waiters = [p \in Procs |-> << >>]
    /\ parent = [p \in Procs |-> IF p = Init_pid THEN Kernel ELSE NoParent]
    /\ sub_trees = [p \in Procs |-> IF p = Kernel THEN <<Init_pid>> ELSE << >>]
    /\ current = Kernel
    /\ int_no = [p \in Procs |-> "irq"]
    /\ in_service = FALSE
    /\ crashed = FALSE

-----------------------------------------------------------------------------
(* The pieces of scheduler.c.  Each takes the process states or the queue  *)
(* it starts from, because a handler chains several of them.               *)

\* The memory of the process exists.
Allocated(p) == state[p] \notin {"UNBORN", "FREED"}

\* Mutant: the new process goes to the front of the queue.
sched_make_ready_first(rq, p) == <<p>> \o rq

sched_make_ready(rq, p) == queue_enqueue(rq, p, SCHED_MAX_READY)
sched_make_dead(dq, p) == queue_enqueue(dq, p, SCHED_MAX_DEAD)

\* Mutant: the current process is requeued whatever its state.
Requeued_always(st) == sched_make_ready(ready_queue, current)

\* sched_get_next, first half: a process that is still LIVING is requeued
\* before the next one is taken, so it may be picked again.
Requeued(st) ==
    IF st[current] = "LIVING" THEN sched_make_ready(ready_queue, current)
                              ELSE ready_queue
sched_get_ready(st) == Head(Requeued(st))
ReadyLeft(st) == Tail(Requeued(st))

\* sched_get_next takes the next dead process off its queue at every switch.
sched_get_dead == IF dead_queue = << >> THEN << >> ELSE Tail(dead_queue)

\* Mutant: the current process is queued for destruction whatever its state.
DeadLeft_always(st, dq) == sched_make_dead(dq, current)

\* ... and then queues the current process if it was set to die.
DeadLeft(st, dq) ==
    IF st[current] = "DEAD" THEN sched_make_dead(dq, current) ELSE dq

\* The process states after sched_preempt_handler.
Switched(st) ==
    [p \in Procs |-> IF p = sched_get_ready(st) THEN "LIVING"
                     ELSE IF p = current /\ st[p] = "LIVING" THEN "READY"
                     ELSE st[p]]

\* The switch follows neither a NULL nor a freed process.
SwitchSafe(st) ==
    /\ Requeued(st) # << >>
    /\ Allocated(sched_get_ready(st))

\* clear_irq is passed the registers the handler returns, those of the
\* process switched to, and acknowledges only if they hold an IRQ number.
clear_irq(pending, regs, next) == pending /\ regs[next] # "irq"

\* The registers saved on entry carry the number of the interrupt taken.
Saved(number) == [int_no EXCEPT ![current] = number]

\* What a user process's handler does when it calls sched_preempt_handler
\* with states st and registers regs; the caller gives state', ready_queue'.
Switch(st, regs) ==
    /\ SwitchSafe(st)
    /\ current' = sched_get_ready(st)
    /\ int_no' = regs
    /\ in_service' = clear_irq(in_service, regs, sched_get_ready(st))

-----------------------------------------------------------------------------
(* proc_find walks only the first subtree of every node it visits: it      *)
(* finds the pids in the least set that holds the root and, with a node,   *)
(* its first child.                                                        *)

\* Mutant: a miss is not reported.
proc_find_hit(pid) == TRUE

proc_find(pid) ==
    \A S \in SUBSET Procs :
        (/\ Kernel \in S
         /\ \A q \in S : sub_trees[q] # << >> => Head(sub_trees[q]) \in S)
            => pid \in S

-----------------------------------------------------------------------------
(* The timer tick: sched_preempt_handler, then sched_timekeeper.           *)

Expired == Keep(napping_list, {t \in Range(napping_list) : t.counter <= 1})
Napping == Keep(napping_list, {t \in Range(napping_list) : t.counter > 1})
Woken == [i \in DOMAIN Expired |-> Expired[i].process]

\* sched_timekeeper, from process states st and ready queue rq.
sched_timekeeper(st, rq) ==
    /\ state' = [p \in Procs |-> IF p \in Range(Woken) THEN "READY" ELSE st[p]]
    /\ ready_queue' = EnqueueAll(rq, Woken, SCHED_MAX_READY)
    /\ napping_list' = [i \in DOMAIN Napping |->
                          [process |-> Napping[i].process,
                           counter |-> Napping[i].counter - 1]]

\* Only the kernel process destroys the dead process it takes; proc_destroy
\* returns at once for the kernel itself.
Reaps == current = Kernel /\ dead_queue # << >> /\ Head(dead_queue) # Kernel

\* Mutant: the subtree of v is dropped with its node.
Orphaned_lost(v) ==
    /\ parent' = parent
    /\ sub_trees' = [p \in Procs |->
                       IF p = parent[v] THEN Without(sub_trees[p], {v})
                       ELSE IF p = v THEN << >> ELSE sub_trees[p]]

\* proc_destroy hands the children of v to its parent, behind the ones it has.
Orphaned(v) ==
    /\ parent' = [p \in Procs |-> IF p \in Range(sub_trees[v])
                                  THEN parent[v] ELSE parent[p]]
    /\ sub_trees' = [p \in Procs |->
                       IF p = parent[v]
                       THEN Without(sub_trees[p], {v}) \o sub_trees[v]
                       ELSE IF p = v THEN << >> ELSE sub_trees[p]]

\* v is destroyed once, is not the process switched to or woken in the same
\* tick, and its waiters still exist.
ReapSafe(v) ==
    /\ Allocated(v)
    /\ \A p \in Range(waiters[v]) : Allocated(p)
    /\ v # sched_get_ready(state)
    /\ v \notin Range(Woken)

\* A tick in which the kernel destroys v: the waiters of v become ready.
TickReap(v) ==
    LET w    == waiters[v]
        next == sched_get_ready(state)
    IN  /\ ReapSafe(v)
        /\ sched_timekeeper(
              [p \in Procs |-> IF p = v THEN "FREED"
                               ELSE IF p = next THEN "LIVING"
                               ELSE IF p \in Range(w) THEN "READY"
                               ELSE Switched(state)[p]],
              EnqueueAll(Without(ReadyLeft(state), Range(w)), w, SCHED_MAX_READY))
        /\ dead_queue' = DeadLeft(state, Without(sched_get_dead, Range(w)))
        /\ waiters' = [waiters EXCEPT ![v] = << >>]
        /\ Orphaned(v)
        /\ UNCHANGED proc_pid

TickPlain ==
    /\ sched_timekeeper(Switched(state), ReadyLeft(state))
    /\ dead_queue' = DeadLeft(state, sched_get_dead)
    /\ UNCHANGED <<waiters, tree>>

Tick ==
    /\ ~crashed /\ ~in_service
    /\ SwitchSafe(state)
    /\ \A p \in Range(Woken) : Allocated(p)
    /\ IF Reaps THEN TickReap(Head(dead_queue)) ELSE TickPlain
    /\ current' = sched_get_ready(state)
    /\ int_no' = Saved("irq")
    /\ in_service' = clear_irq(TRUE, Saved("irq"), sched_get_ready(state))
    /\ UNCHANGED crashed

-----------------------------------------------------------------------------
(* System calls of the current user process.                               *)

Call(c) == ~crashed /\ current # Kernel /\ c \in Syscalls

\* The current process is set to die and the scheduler is called: sysc_exit,
\* sysc_execve of a missing binary (syscall interrupt), and the fault of
\* page_fault_handler that is no copy-on-write (exception).
Die(number) ==
    LET st == [state EXCEPT ![current] = "DEAD"]
    IN  /\ Switch(st, Saved(number))
        /\ state' = Switched(st)
        /\ ready_queue' = ReadyLeft(st)
        /\ dead_queue' = DeadLeft(st, sched_get_dead)
        /\ UNCHANGED <<napping_list, waiters, tree, crashed>>

sysc_exit == Call("exit") /\ Die("syscall")
sysc_execve_fail == Call("execve") /\ Die("syscall")
page_fault_kill == Call("fault") /\ Die("fault")

\* loader_exec succeeds and makes the process look freshly scheduled.
sysc_execve ==
    /\ Call("execve")
    /\ Switch(state, Saved("irq"))
    /\ state' = Switched(state)
    /\ ready_queue' = ReadyLeft(state)
    /\ dead_queue' = DeadLeft(state, sched_get_dead)
    /\ UNCHANGED <<napping_list, waiters, tree, crashed>>

\* A new process under the current one.  A clone's registers are a copy of
\* the parent's, taken in a system call; a spawned one's are made up.
Create(number) ==
    LET child == proc_pid + 1
    IN  /\ child <= MaxPid
        /\ proc_pid' = child
        /\ state' = [state EXCEPT ![child] = "READY"]
        /\ ready_queue' = sched_make_ready(ready_queue, child)
        /\ parent' = [parent EXCEPT ![child] = current]
        /\ sub_trees' = [sub_trees EXCEPT ![current] = Append(@, child)]
        /\ int_no' = [Saved("syscall") EXCEPT ![child] = number]
        /\ UNCHANGED <<dead_queue, napping_list, waiters, current,
                       in_service, crashed>>

sysc_fork == Call("fork") /\ Create("syscall")
sysc_spawn == Call("spawn") /\ Create("irq")

\* sysc_wait switches first and blocks the caller afterwards.
sysc_wait(pid) ==
    LET st    == Switched(state)
        dq    == DeadLeft(state, sched_get_dead)
        waits == proc_find(pid) /\ st[pid] # "DEAD"
    IN  /\ Call("wait")
        /\ Switch(state, Saved("syscall"))
        /\ state' = IF waits THEN [st EXCEPT ![current] = "NAPPING"] ELSE st
        /\ waiters' = IF waits /\ pid # Kernel  \* the kernel's list is NULL
                      THEN [waiters EXCEPT ![pid] = Append(@, current)]
                      ELSE waiters
        /\ ready_queue' = IF waits THEN Without(ReadyLeft(state), {current})
                                   ELSE ReadyLeft(state)
        /\ dead_queue' = IF waits THEN Without(dq, {current}) ELSE dq
        /\ UNCHANGED <<napping_list, tree, crashed>>

\* sysc_sleep switches first and makes the caller nap afterwards.
sysc_sleep(_time) ==
    LET st   == Switched(state)
        dq   == DeadLeft(state, sched_get_dead)
        naps == st[current] \notin {"DEAD", "NAPPING"}
    IN  /\ Call("sleep")
        /\ Switch(state, Saved("syscall"))
        /\ state' = IF naps THEN [st EXCEPT ![current] = "NAPPING"] ELSE st
        /\ napping_list' =
              IF naps
              THEN Append(napping_list, [process |-> current, counter |-> _time])
              ELSE napping_list
        /\ ready_queue' = IF naps THEN Without(ReadyLeft(state), {current})
                                  ELSE ReadyLeft(state)
        /\ dead_queue' = IF naps THEN Without(dq, {current}) ELSE dq
        /\ UNCHANGED <<waiters, tree, crashed>>

\* The first napping entry of the process ends; any process may ask for it.
sysc_wakeup(pid) ==
    \E i \in DOMAIN napping_list :
        /\ Call("wakeup")
        /\ napping_list[i].process = pid
        /\ \A j \in 1..(i - 1) : napping_list[j].process # pid
        /\ \A j \in 1..i : Allocated(napping_list[j].process)
        /\ napping_list' = Drop(napping_list, i)
        /\ state' = [state EXCEPT ![pid] = "READY"]
        /\ ready_queue' = sched_make_ready(Without(ready_queue, {pid}), pid)
        /\ dead_queue' = Without(dead_queue, {pid})
        /\ int_no' = Saved("syscall")
        /\ UNCHANGED <<waiters, tree, current, in_service, crashed>>

sysc_kill(pid) ==
    /\ Call("kill")
    /\ pid \in KillPids /\ state[pid] \in KillStates
    /\ proc_find(pid)
    /\ state' = [state EXCEPT ![pid] = "DEAD"]
    /\ ready_queue' = Without(ready_queue, {pid})
    /\ dead_queue' = sched_make_dead(Without(dead_queue, {pid}), pid)
    /\ int_no' = Saved("syscall")
    /\ UNCHANGED <<napping_list, waiters, tree, current, in_service, crashed>>

-----------------------------------------------------------------------------
(* A handler that would follow a NULL or a freed process: what happens     *)
(* next is undefined, and the model stops.                                 *)

TickUnsafe ==
    /\ ~in_service
    /\ \/ ~SwitchSafe(state)
       \/ \E p \in Range(Woken) : ~Allocated(p)
       \/ Reaps /\ ~ReapSafe(Head(dead_queue))

CallUnsafe ==
    /\ current # Kernel
    /\ \/ /\ Syscalls \cap {"exit", "execve", "fault"} # {}
          /\ ~SwitchSafe([state EXCEPT ![current] = "DEAD"])
       \/ /\ Syscalls \cap {"execve", "wait", "sleep"} # {}
          /\ ~SwitchSafe(state)
       \/ /\ "wakeup" \in Syscalls
          /\ \E t \in Range(napping_list) : ~Allocated(t.process)

Crash ==
    /\ ~crashed
    /\ TickUnsafe \/ CallUnsafe
    /\ crashed' = TRUE
    /\ UNCHANGED <<state, ready_queue, dead_queue, napping_list, waiters, tree,
                   current, int_no, in_service>>

Next ==
    \/ Tick
    \/ sysc_exit \/ sysc_execve \/ sysc_execve_fail \/ page_fault_kill
    \/ sysc_fork \/ sysc_spawn
    \/ \E pid \in WaitPids : sysc_wait(pid)
    \/ \E t \in SleepTimes : sysc_sleep(t)
    \/ \E pid \in Procs : sysc_wakeup(pid)
    \/ \E pid \in KillPids : sysc_kill(pid)
    \/ Crash

Spec == Init /\ [][Next]_vars

\* The timer keeps raising IRQ0: a tick that stays deliverable is delivered.
TimerSpec == Spec /\ WF_vars(Tick)

\* Programs are finite besides: one that keeps the CPU reaches its exit.
FiniteProgramsSpec == TimerSpec /\ WF_vars(sysc_exit)

-----------------------------------------------------------------------------
(* Correctness.                                                            *)

Naps == [process : Procs, counter : Int]

\* Every field of the scheduler and of the process table holds a value of its
\* C type; queues stay within their capacity.
TypeOK ==
    /\ state \in [Procs -> States]
    /\ proc_pid \in Procs
    /\ ready_queue \in Seq(Procs) /\ Len(ready_queue) <= SCHED_MAX_READY
    /\ dead_queue \in Seq(Procs) /\ Len(dead_queue) <= SCHED_MAX_DEAD
    /\ napping_list \in Seq(Naps)
    /\ waiters \in [Procs -> Seq(Procs)]
    /\ parent \in [Procs -> 0..MaxPid]
    /\ sub_trees \in [Procs -> Seq(Procs)]
    /\ current \in Procs
    /\ int_no \in [Procs -> {"irq", "syscall", "fault"}]
    /\ in_service \in BOOLEAN
    /\ crashed \in BOOLEAN

Nappers == {napping_list[i].process : i \in DOMAIN napping_list}
Waiting == UNION {Range(waiters[q]) : q \in Procs}

\* The state field of a process says where the scheduler holds it.
StateMatchesPlace ==
    \A p \in Procs :
        /\ state[p] = "LIVING" <=> p = current
        /\ state[p] = "READY" <=> p \in Range(ready_queue)
        /\ state[p] = "NAPPING" <=> p \in Nappers \cup Waiting

\* Distinct napping entries belong to distinct processes.
NapsOnce ==
    \A i, j \in DOMAIN napping_list :
        napping_list[i].process = napping_list[j].process => i = j

\* A process waits for one process, once.
WaitsOnce ==
    /\ \A q \in Procs : IsInjective(waiters[q])
    /\ \A q, r \in Procs : q # r => Range(waiters[q]) \cap Range(waiters[r]) = {}

\* No process is queued, napping or waiting twice.
HeldOnce ==
    /\ IsInjective(ready_queue)
    /\ IsInjective(dead_queue)
    /\ NapsOnce
    /\ WaitsOnce
    /\ Nappers \cap Waiting = {}

\* Every process that is not finished is held in exactly one place of the
\* scheduler: it runs, is queued to run, naps, or waits for one process.
\* Nothing is lost and nothing can be scheduled twice.
Placement == StateMatchesPlace /\ HeldOnce

\* What is queued to be destroyed is a user process that is dead and was
\* not destroyed before.
DeadAwaitDestruction ==
    \A p \in Range(dead_queue) : state[p] = "DEAD" /\ p # Kernel

\* The process tree and the parent pointers agree: a node is listed once,
\* under its parent, exactly as long as the process exists.
TreeMatchesParents ==
    /\ \A p \in Procs : IsInjective(sub_trees[p])
    /\ \A p, c \in Procs : c \in Range(sub_trees[p]) <=>
          (c # Kernel /\ Allocated(c) /\ parent[c] = p)
    /\ \A p \in Procs : Allocated(p) /\ p # Kernel =>
          parent[p] \in Procs /\ Allocated(parent[p])
    /\ \A p \in Procs : ~Allocated(p) => sub_trees[p] = << >>

\* No handler follows a NULL or a freed process: sched_preempt_handler always
\* has a process to switch to and proc_destroy runs once for each process.
NeverCrashed == ~crashed

\* A process that blocks in wait waits for one that still exists, and that
\* keeps a list of its waiters: proc_destroy will find it there.
WaitedForExists ==
    \A q \in Procs : waiters[q] # << >> => Allocated(q) /\ q # Kernel

\* The kernel process is always running or ready, so the scheduler never
\* runs out of processes.
KernelStays == state[Kernel] \in {"LIVING", "READY"}

\* Pids are handed out in order, and a process is younger than its parent.
PidsInOrder ==
    /\ \A p \in Procs : state[p] = "UNBORN" <=> p > proc_pid
    /\ \A p \in Procs : Allocated(p) /\ p # Kernel => parent[p] < p

\* The calls under which the scheduler keeps its books: nobody waits for or
\* kills the kernel process, only ready processes are killed, and the ready
\* queue has room for every process.
Disciplined ==
    /\ Kernel \notin WaitPids
    /\ Kernel \notin KillPids
    /\ KillStates \subseteq {"READY"}
    /\ MaxPid <= SCHED_MAX_READY

\* The inductive invariant behind Placement and NeverCrashed.
SchedulerInv ==
    /\ TypeOK
    /\ Placement
    /\ DeadAwaitDestruction
    /\ TreeMatchesParents
    /\ WaitedForExists
    /\ KernelStays
    /\ PidsInOrder
    /\ NeverCrashed

\* a stands before b in q.
Before(q, a, b) ==
    \E i, j \in DOMAIN q : i < j /\ q[i] = a /\ q[j] = b

\* In r, whoever was in q keeps its place before those that stood behind it
\* and those that are new.
InOrder(q, r) ==
    \A x, y \in Range(r) :
        /\ x \in Range(q) /\ x # y
        /\ y \notin Range(q) \/ Before(q, x, y)
        => Before(r, x, y)

\* Round robin: whoever becomes ready queues behind every process that was
\* ready before it, whether a switch, a tick, a destroyed process, a wakeup
\* or a system call made it ready, and nobody is moved within the queue.
NoOvertaking == [][InOrder(ready_queue, ready_queue')]_vars

\* A ready process is eventually given the CPU.
ReadyRuns ==
    \A p \in Procs : (state[p] = "READY") ~> (state[p] # "READY")

\* A process that waits for a process that has died eventually stops waiting.
WaitReturns ==
    \A p, q \in Procs :
        (state[q] = "DEAD" /\ p \in Range(waiters[q]))
            ~> (p \notin Range(waiters[q]))
=============================================================================
