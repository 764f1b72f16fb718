------------------------------- MODULE Machine -------------------------------
(* The processor as the kernel programs it: the interrupt descriptor table
   (kernel/interrupts), the interrupt controllers, the routines of the timer, the
   floating point registers (kernel/fpu), and what a context switch loads: page
   directory, kernel stack, floating point registers.  kmain boots with interrupts
   enabled, so a device may interrupt it between any two of its steps; handlers
   run with interrupts disabled, so each is one step.                          *)
EXTENDS Integers, Sequences, FiniteSets, Functions

CONSTANTS Vectors,        \* the interrupt vectors that occur: a set of numbers
          Kernel,         \* the kernel process
          Procs,          \* user processes
          Values,         \* contents of the floating point registers
          TableLen,       \* heap pages a page table maps
          MaxHeap,        \* bound: pages of the kernel heap
          Vesa            \* is there a VESA display, with a cursor that blinks?

ASSUME MachineAssumption ==
  /\ Vectors \subseteq 0 .. 255
  /\ Kernel \notin Procs /\ "none" \notin Procs \union {Kernel}
  /\ TableLen \in Nat \ {0} /\ MaxHeap \in Nat \ {0}
  /\ Vesa \in BOOLEAN

VARIABLES boot,           \* the next step of kmain
          IF_flag,        \* the interrupt flag of the processor
          idt,            \* [base, privilege, present] of each vector
          interrupt_handlers,
          in_service,     \* vectors the interrupt controllers wait to be acknowledged for
          routines,       \* the routines of the timer; <<"NULL">> before the list exists
          kbd_listeners,  \* the listeners of the keyboard, likewise
          current,        \* current_process
          ready, asleep,  \* the processes that may be switched to; those that sleep or wait
          int_no,         \* the vector of the frame a process was saved in
          fpu,            \* the floating point registers
          fpu_regs,       \* where the processes keep theirs
          own,            \* what the processes last had in them
          esp0, cr3,      \* the kernel stack in the TSS, the page directory in use
          kdir,           \* the heap tables in the directory of a process; 0 for none
          heap_tables,    \* the pages each table maps
          heap_end,       \* pages of the kernel heap
          lost            \* did an interrupt find no way on?

cpu   == <<boot, IF_flag, idt, interrupt_handlers, routines, kbd_listeners>>
procs == <<current, ready, asleep, int_no, fpu, fpu_regs, own, esp0, cr3, kdir>>
heap  == <<heap_tables, heap_end>>
vars  == <<cpu, in_service, procs, heap, lost>>

NULL == <<"NULL">>
None == "none"
All  == Procs \union {Kernel}

-----------------------------------------------------------------------------
(* The interrupt descriptor table *)

Slots == 1 .. ((MaxHeap - 1) \div TableLen) + 1
Slot(page) == ((page - 1) \div TableLen) + 1

\* set_vector_catchers: the vectors that have a catcher of their own.
Catcher(v) == IF v \in 0 .. 47 \union {50} THEN "isr" ELSE "none"

\* Mutant: the vectors of the second controller are forgotten.
DisablerMutant(v) ==
  CASE v \in {8} \union 10 .. 14 -> "ignore_isr_error"
    [] v \in 0 .. 31 \ ({8} \union 10 .. 14) -> "ignore_isr"
    [] v \in 32 .. 39 -> "ignore_irq_master"
    [] OTHER -> "none"

\* uninstall_interrupt_vector: what returns at once from a vector.
Disabler(v) ==
  CASE v \in {8} \union 10 .. 14 -> "ignore_isr_error"
    [] v \in 0 .. 31 \ ({8} \union 10 .. 14) -> "ignore_isr"
    [] v \in 32 .. 39 -> "ignore_irq_master"
    [] v \in 40 .. 47 -> "ignore_irq_slave"
    [] OTHER -> "none"

Gate(base, privilege) == [base |-> base, privilege |-> privilege, present |-> base # "none"]

\* check_if_vector_installed
Installed(v) == idt[v].base = "isr"

\* install_interrupt_handler.  The privilege counts only if the vector was not
\* installed yet; interrupts are enabled at the end whatever they were before.
install_interrupt_handler(v, handler, privilege) ==
  /\ idt' = IF Installed(v) \/ v \notin Vectors THEN idt
            ELSE [idt EXCEPT ![v] = Gate(Catcher(v), privilege)]
  /\ interrupt_handlers' = [n \in Vectors |-> IF n = v THEN handler ELSE interrupt_handlers[n]]
  /\ IF_flag' = TRUE

-----------------------------------------------------------------------------
(* kmain *)

Step(n) == ~lost /\ boot = n /\ boot' = n + 1

\* interrupts_initialise: all vectors are disabled, the exceptions are then installed
\* without a handler, and the controllers are set to the vectors from 32 on.
idt_initialise ==
  /\ Step(1)
  /\ idt' = [v \in Vectors |-> IF v < 32 THEN Gate(Catcher(v), 0) ELSE Gate(Disabler(v), 0)]
  /\ IF_flag' = TRUE
  /\ UNCHANGED <<interrupt_handlers, routines, kbd_listeners, in_service, procs, heap, lost>>

\* init_paging
init_paging ==
  /\ Step(2)
  /\ install_interrupt_handler(14, "page_fault_handler", 0)
  /\ UNCHANGED <<routines, kbd_listeners, in_service, procs, heap, lost>>

\* initialise_pit installs its handler and then makes the list the handler walks.
pit_install ==
  /\ Step(3)
  /\ install_interrupt_handler(32, "pit_interrupt_handler", 0)
  /\ UNCHANGED <<routines, kbd_listeners, in_service, procs, heap, lost>>

pit_list ==
  /\ Step(4)
  /\ routines' = <<>>
  /\ UNCHANGED <<IF_flag, idt, interrupt_handlers, kbd_listeners, in_service, procs, heap, lost>>

\* initialise_keyboard, in the same order.
kbd_install ==
  /\ Step(5)
  /\ install_interrupt_handler(33, "parse_scancode", 0)
  /\ UNCHANGED <<routines, kbd_listeners, in_service, procs, heap, lost>>

kbd_list ==
  /\ Step(6)
  /\ kbd_listeners' = <<>>
  /\ UNCHANGED <<IF_flag, idt, interrupt_handlers, routines, in_service, procs, heap, lost>>

\* initialise_gtty registers a listener and, for VESA, the routine of the cursor.
initialise_gtty ==
  /\ Step(7)
  /\ kbd_listeners' = Append(kbd_listeners, "gtty_keyboard_listener")
  /\ routines' = IF Vesa THEN Append(routines, "vesa_cursor_handler") ELSE routines
  /\ UNCHANGED <<IF_flag, idt, interrupt_handlers, in_service, procs, heap, lost>>

initialise_syscalls ==
  /\ Step(8)
  /\ install_interrupt_handler(50, "syscall_handler", 3)
  /\ UNCHANGED <<routines, kbd_listeners, in_service, procs, heap, lost>>

\* initialise_scheduler, with interrupts disabled.
initialise_scheduler ==
  /\ Step(9)
  /\ routines' = routines \o <<"sched_preempt_handler", "sched_timekeeper">>
  /\ current' = Kernel
  /\ IF_flag' = TRUE
  /\ UNCHANGED <<idt, interrupt_handlers, kbd_listeners, in_service, heap, lost,
                 ready, asleep, int_no, fpu, fpu_regs, own, esp0, cr3, kdir>>

\* initialise_fpu: fninit, and fpu_save for the kernel.
initialise_fpu ==
  /\ Step(10)
  /\ fpu' = "fninit"
  /\ fpu_regs' = [fpu_regs EXCEPT ![Kernel] = "fninit"]
  /\ own' = [own EXCEPT ![Kernel] = "fninit"]
  /\ UNCHANGED <<IF_flag, idt, interrupt_handlers, routines, kbd_listeners, in_service, heap, lost,
                 current, ready, asleep, int_no, esp0, cr3, kdir>>

-----------------------------------------------------------------------------
(* Processes *)

\* Mutant: the tables made after the boot are left out.
map_kernel_tablesMutant == [s \in Slots |-> 0]

\* map_kernel_tables: the heap tables of a new directory are those of the directory in use.
\* (The page directory is mapped into itself, so kernel_pagedir is always the one in CR3.)
map_kernel_tables == kdir[cr3]

\* proc_create, through loader_spawn: the floating point registers are zero, and the frame
\* claims to be that of a timer interrupt.
Created(p) ==
  /\ p \notin ready \union asleep \union {current}
  /\ ready' = ready \union {p}
  /\ int_no' = [int_no EXCEPT ![p] = 32]
  /\ fpu_regs' = [fpu_regs EXCEPT ![p] = "zero"]
  /\ own' = [own EXCEPT ![p] = "zero"]
  /\ kdir' = [kdir EXCEPT ![p] = map_kernel_tables]

\* kmain loads /init with interrupts disabled and then waits for interrupts.
kmain_spawn(p) ==
  /\ Step(11) /\ current = Kernel
  /\ Created(p)
  /\ UNCHANGED <<IF_flag, idt, interrupt_handlers, routines, kbd_listeners, in_service, heap, lost,
                 current, asleep, fpu, esp0, cr3>>

\* A process computes.
compute(x) ==
  /\ ~lost /\ current \in Procs
  /\ fpu' = x
  /\ own' = [own EXCEPT ![current] = x]
  /\ UNCHANGED <<cpu, in_service, heap, lost, current, ready, asleep, int_no, fpu_regs, esp0, cr3, kdir>>

\* fpu_reload of the process switched to.
Reloaded(new, saved) == saved[new]

\* Mutant: the kernel stack is that of the process switched from.
StackOf_old(new) == IF current \in Procs THEN current ELSE esp0

\* The kernel stack in the TSS: changed for user processes only.
StackOf(new) == IF new \in Procs THEN new ELSE esp0

\* sched_preempt_handler, called in the interrupt v of the current process, which is then
\* "ready", "asleep" or "dead".  Which process comes next is module Scheduler's.
sched_preempt_handler(v, new, then) ==
  LET saved == [fpu_regs EXCEPT ![current] = fpu]
      left  == IF then = "ready" THEN ready \union {current} ELSE ready
  IN  /\ new \in left
      /\ ready' = left \ {new}
      /\ asleep' = IF then = "asleep" THEN asleep \union {current} ELSE asleep
      /\ int_no' = [int_no EXCEPT ![current] = v]
      /\ fpu_regs' = saved
      /\ fpu' = Reloaded(new, saved)
      /\ esp0' = StackOf(new)
      /\ cr3' = new
      /\ current' = new

\* sched_timekeeper, sched_wakeup, and the waiters of a process that is destroyed.
made_ready(p) ==
  /\ ~lost /\ p \in asleep
  /\ asleep' = asleep \ {p}
  /\ ready' = ready \union {p}
  /\ UNCHANGED <<cpu, in_service, heap, lost, current, int_no, fpu, fpu_regs, own, esp0, cr3, kdir>>

\* A non-specific end of interrupt: the vector of the highest priority is done.
EndOf(service) ==
  IF service = {} THEN {} ELSE service \ {CHOOSE v \in service : \A w \in service : v <= w}

\* clear_irq, with the vector of the frame the handler RETURNED.
clear_irq(v, service) == IF v \in 32 .. 47 THEN EndOf(service) ELSE service

-----------------------------------------------------------------------------
(* Interrupts *)

\* The controllers (external) deliver a vector when none of the same or of a higher
\* priority is in service.
Deliverable(v) == ~lost /\ IF_flag /\ \A w \in in_service : v < w

\* The vector is in the table; else the processor (external) faults for good.
Present(v) == idt[v].present

\* Mutant: only the second controller is told.
AcknowledgedMutant(v) ==
  IF idt[v].base = "ignore_irq_slave" THEN in_service \union {v}
  ELSE clear_irq(v, in_service \union {v})

\* The vector is acknowledged by ignore_irq_master, ignore_irq_slave, or by isr_handler
\* for a handler that returns the frame it was given, or for no handler.
Acknowledged(v) == clear_irq(v, in_service \union {v})

\* A device interrupts, and its handler returns to what was interrupted: nothing but the
\* timer switches processes.  A handler that walks a list before it exists reads at address
\* 0, where nothing is mapped, and there is no process yet to be ended for it.
device_interrupt(v) ==
  /\ v \in 32 .. 47 /\ Deliverable(v)
  /\ ~(interrupt_handlers[v] = "pit_interrupt_handler" /\ routines # NULL
       /\ "sched_preempt_handler" \in Range(routines))
  /\ in_service' = Acknowledged(v)
  /\ lost' = \/ ~Present(v)
             \/ interrupt_handlers[v] = "pit_interrupt_handler" /\ routines = NULL
             \/ interrupt_handlers[v] = "parse_scancode" /\ kbd_listeners = NULL
  /\ UNCHANGED <<cpu, procs, heap>>

\* The timer interrupts when the scheduler is one of its routines.
timer_interrupt(new) ==
  /\ 32 \in Vectors /\ Deliverable(32)
  /\ routines # NULL /\ "sched_preempt_handler" \in Range(routines)
  /\ lost' = (current = None)
  /\ IF current = None THEN UNCHANGED <<procs, in_service>>
     ELSE /\ sched_preempt_handler(32, new, "ready")
          /\ in_service' = clear_irq(int_no'[new], in_service \union {32})
          /\ UNCHANGED <<own, kdir>>
  /\ UNCHANGED <<cpu, heap>>

\* A user program may use the vectors of its privilege.
UserMay(v) == current \in Procs /\ Present(v) /\ idt[v].privilege = 3

\* The system calls that switch: sleep and wait, execve (whose frame then claims to be that
\* of a timer interrupt), exit.
syscall_switch(new, then) ==
  /\ ~lost /\ 50 \in Vectors /\ UserMay(50)
  /\ sched_preempt_handler(IF then = "ready" THEN 32 ELSE 50, new, then)
  /\ in_service' = clear_irq(int_no'[new], in_service)
  /\ UNCHANGED <<cpu, own, kdir, heap, lost>>

\* A page fault that is not a copy on write ends the process.  (A fault of any other kind
\* has no handler and returns to the instruction that caused it.)
page_fault_handler(new) ==
  /\ ~lost /\ 14 \in Vectors /\ current \in Procs
  /\ sched_preempt_handler(14, new, "dead")
  /\ in_service' = clear_irq(int_no'[new], in_service)
  /\ UNCHANGED <<cpu, own, kdir, heap, lost>>

\* spawn
syscall_spawn(p) ==
  /\ ~lost /\ 50 \in Vectors /\ UserMay(50)
  /\ Created(p)
  /\ UNCHANGED <<cpu, in_service, heap, lost, current, asleep, fpu, esp0, cr3>>

\* fork: proc_clone copies the floating point registers kept for the parent, and
\* clone_page_structures its directory.  "own" is what the copy gives the child.
syscall_fork(c) ==
  /\ ~lost /\ 50 \in Vectors /\ UserMay(50)
  /\ c \in Procs \ (ready \union asleep \union {current})
  /\ ready' = ready \union {c}
  /\ int_no' = [int_no EXCEPT ![c] = 50]
  /\ fpu_regs' = [fpu_regs EXCEPT ![c] = fpu_regs[current]]
  /\ own' = [own EXCEPT ![c] = fpu_regs[current]]
  /\ kdir' = [kdir EXCEPT ![c] = kdir[cr3]]
  /\ UNCHANGED <<cpu, in_service, heap, lost, current, asleep, fpu, esp0, cr3>>

\* increase_heap, by a page, from any call that allocates.  set_page_table_entry makes a
\* table where the directory in use has none.
increase_heap ==
  LET page  == heap_end + 1
      table == kdir[cr3][Slot(page)]
  IN  /\ ~lost /\ boot > 2 /\ heap_end < MaxHeap
      /\ heap_end' = page
      /\ IF table # 0
         THEN /\ heap_tables' = [heap_tables EXCEPT ![table] = @ \union {page}]
              /\ UNCHANGED kdir
         ELSE /\ heap_tables' = Append(heap_tables, {page})
              /\ kdir' = [kdir EXCEPT ![cr3][Slot(page)] = Len(heap_tables) + 1]
      /\ UNCHANGED <<cpu, in_service, current, ready, asleep, int_no, fpu, fpu_regs, own, esp0, cr3, lost>>

Init ==
  /\ boot = 1 /\ IF_flag = FALSE
  /\ idt = [v \in Vectors |-> Gate("none", 0)]
  /\ interrupt_handlers = [v \in Vectors |-> "none"]
  /\ in_service = {} /\ routines = NULL /\ kbd_listeners = NULL
  /\ current = None /\ ready = {} /\ asleep = {}
  /\ int_no = [p \in All |-> 32]
  /\ fpu = "reset" /\ fpu_regs = [p \in All |-> "zero"] /\ own = [p \in All |-> "zero"]
  /\ esp0 = None /\ cr3 = Kernel
  /\ kdir = [p \in All |-> [s \in Slots |-> IF p = Kernel /\ s = 1 THEN 1 ELSE 0]]
  /\ heap_tables = <<{1}>> /\ heap_end = 1
  /\ lost = FALSE

Next ==
  \/ idt_initialise \/ init_paging \/ pit_install \/ pit_list \/ kbd_install \/ kbd_list
  \/ initialise_gtty \/ initialise_syscalls \/ initialise_scheduler \/ initialise_fpu
  \/ \E v \in Vectors : device_interrupt(v)
  \/ \E x \in Values : compute(x)
  \/ \E p \in Procs : kmain_spawn(p) \/ syscall_spawn(p) \/ syscall_fork(p)
  \/ \E p \in Procs : made_ready(p)
  \/ \E new \in All : \/ timer_interrupt(new) \/ page_fault_handler(new)
                      \/ \E then \in {"ready", "asleep", "dead"} : syscall_switch(new, then)
  \/ increase_heap

Spec == Init /\ [][Next]_vars

-----------------------------------------------------------------------------
(* Correctness *)

\* What the floating point registers may hold.
Contents == Values \union {"zero", "fninit", "reset"}

Gates == [base : {"none", "isr", "ignore_isr", "ignore_isr_error", "ignore_irq_master", "ignore_irq_slave"},
          privilege : {0, 3}, present : BOOLEAN]
Handlers == {"none", "page_fault_handler", "pit_interrupt_handler", "parse_scancode", "syscall_handler"}

\* Every part of the state has its shape; a gate leads to a catcher or to what returns at
\* once, and has one of the two privileges the kernel uses.
TypeOK ==
  /\ boot \in 1 .. 12 /\ IF_flag \in BOOLEAN /\ lost \in BOOLEAN
  /\ idt \in [Vectors -> Gates]
  /\ interrupt_handlers \in [Vectors -> Handlers]
  /\ in_service \subseteq Vectors
  /\ current \in All \union {None}
  /\ ready \subseteq All \ {current} /\ asleep \subseteq Procs \ (ready \union {current})
  /\ int_no \in [All -> 0 .. 255]
  /\ fpu \in Contents /\ fpu_regs \in [All -> Contents] /\ own \in [All -> Contents]
  /\ esp0 \in Procs \union {None} /\ cr3 \in All
  /\ kdir \in [All -> [Slots -> 0 .. Len(heap_tables)]]
  /\ heap_end \in 1 .. MaxHeap /\ heap_tables \in Seq(SUBSET (1 .. MaxHeap))

\* Every interrupt is handled: it finds a gate, and its handler the list it walks.  Does
\* not hold, and no run claims it: initialise_pit and initialise_keyboard install their
\* handlers before the lists exist (LostOnlyInInstall is what holds).
NeverLost == ~lost

\* From the moment interrupts are enabled every interrupt finds a gate, its handler the list
\* it walks, and the scheduler its current process, at every step of the boot and after it,
\* but for two moments: between the two halves of initialise_pit, and of
\* initialise_keyboard (idt_initialise, install_interrupt_handler, initialise_scheduler).
LostOnlyInInstall == lost => boot \in {4, 6}

\* Every device interrupt is acknowledged when its handler returns, those nobody handles
\* included.  The exception is the timer: it stays in service exactly if it switched to a
\* process that was saved in something else than a device interrupt (clear_irq looks at the
\* frame returned), and only until a switch back to a process a device interrupted.
OnlyTimerUnacknowledged ==
  /\ in_service \subseteq {32}
  /\ in_service # {} => current \in Procs /\ int_no[current] \notin 32 .. 47

\* A process runs on its own page directory, traps to its own kernel stack, and finds in
\* the floating point registers what it left there, however it came to run and whatever
\* ran in between (sched_preempt_handler, fpu_save, fpu_reload).
OwnContext ==
  /\ current # None => cr3 = current
  /\ current \in Procs => esp0 = current /\ fpu = own[current]
  /\ \A p \in (ready \union asleep) \cap Procs : fpu_regs[p] = own[p]

\* A process finds a page of the kernel heap through its own directory.
Maps(p, page) ==
  LET table == kdir[p][Slot(page)]
  IN  table # 0 /\ page \in heap_tables[table]

\* The processes there are, and the kernel.
Living == ({Kernel, current} \union ready \union asleep) \ {None}

\* The kernel heap is mapped in the directory of every process: whoever is current, the
\* kernel finds its structures.  Does not hold, and no run claims it: a page table that
\* increase_heap makes is entered in the directory in use and in no other (BootHeapMapped
\* is what holds).
HeapMapped == \A p \in Living : \A page \in 1 .. heap_end : Maps(p, page)

\* The part of the heap in the page table made at boot is mapped in every directory,
\* whoever makes it grow and whatever tables are made later, for whichever process
\* (increase_heap, map_kernel_tables, clone_page_structures).
BootHeapMapped ==
  \A p \in Living : \A page \in 1 .. heap_end : Slot(page) = 1 => Maps(p, page)

-----------------------------------------------------------------------------
(* The inductive invariant *)

\* What kmain has set up when it comes to a step: the gates before interrupts are
\* enabled, a list some time after the handler that walks it, the scheduler last.
BootOrder ==
  /\ IF_flag => boot > 1
  /\ boot > 1 => \A v \in Vectors : v < 48 => idt[v].present
  /\ \A v \in Vectors : /\ interrupt_handlers[v] = "pit_interrupt_handler" => boot > 3
                        /\ interrupt_handlers[v] = "parse_scancode" => boot > 5
  /\ CASE boot <= 4 -> routines = NULL
       [] boot \in 5 .. 9 -> routines \in Seq({"vesa_cursor_handler"})
       [] OTHER -> routines \in Seq({"vesa_cursor_handler", "sched_preempt_handler", "sched_timekeeper"})
  /\ IF boot <= 6 THEN kbd_listeners = NULL ELSE kbd_listeners \in Seq({"gtty_keyboard_listener"})
  /\ current = None <=> boot <= 9
  /\ boot <= 11 => cr3 = Kernel /\ current \in {None, Kernel} /\ ready = {} /\ asleep = {}

\* The kernel never sleeps, and only ticks switch away from it.
KernelTicks == int_no[Kernel] = 32

\* The table made at boot is in all directories and maps its part of the heap.
TableShared ==
  /\ Len(heap_tables) >= 1
  /\ \A page \in 1 .. heap_end : Slot(page) = 1 => page \in heap_tables[1]
  /\ \A p \in Living : kdir[p][1] = 1

MachineInv ==
  /\ TypeOK /\ BootOrder /\ KernelTicks /\ OnlyTimerUnacknowledged /\ OwnContext
  /\ TableShared
  /\ LostOnlyInInstall
=============================================================================
