---------------------------- MODULE MachineProof ----------------------------
(***************************************************************************)
(* The invariants of Machine for any set of processes and of vectors: an   *)
(* interrupt finds its way, is acknowledged unless it is a tick that       *)
(* switched to a process saved in a trap, and every process finds its own  *)
(* context and the heap of the kernel.                                     *)
(***************************************************************************)
EXTENDS Machine, TLAPS

-----------------------------------------------------------------------------
(* Operators.                                                              *)

\* The only vector in service is ended.
LEMMA EndOfOne ==
    ASSUME NEW v \in Int
    PROVE  EndOf({v}) = {} /\ EndOf({}) = {}
<1>1. \A x : (x \in {v} /\ \A w \in {v} : x <= w) <=> x = v
  OBVIOUS
<1>2. (CHOOSE x \in {v} : \A w \in {v} : x <= w) = v
  BY <1>1
<1> QED
  BY <1>2 DEF EndOf

\* clear_irq leaves at most what was in service, and nothing after a device.
LEMMA ClearIrq ==
    ASSUME NEW v \in Int, NEW service \in SUBSET {32}
    PROVE  clear_irq(v, service) = IF v \in 32 .. 47 THEN {} ELSE service
<1>1. EndOf({32}) = {} /\ EndOf({}) = {}
  BY EndOfOne, 32 \in Int
<1>2. service = {} \/ service = {32}
  OBVIOUS
<1>3. CASE service = {}
  BY <1>1, <1>3, Zenon DEF clear_irq
<1>4. CASE service = {32}
  BY <1>1, <1>4, Zenon DEF clear_irq
<1> QED
  BY <1>2, <1>3, <1>4

\* The slots are numbered from 1, and the first page is in the first.
LEMMA FirstSlot ==
    /\ 1 \in Slots /\ Slot(1) = 1
    /\ \A page \in 1 .. MaxHeap : Slot(page) \in Int
<1>1. ASSUME NEW n \in Nat, n < TableLen PROVE n \div TableLen = 0
  <2> DEFINE q == n \div TableLen
  <2>1. TableLen \in Nat /\ TableLen > 0
    BY MachineAssumption
  <2>2. q \in Nat /\ n = TableLen * q + (n % TableLen) /\ n % TableLen \in Nat
    BY <2>1
  <2> HIDE DEF q
  <2>3. q >= 1 => TableLen * q >= TableLen
    BY <2>1, <2>2
  <2>4. TableLen * q <= n
    BY <2>1, <2>2
  <2>5. q = 0
    BY <2>1, <2>2, <2>3, <2>4, <1>1
  <2> QED
    BY <2>5 DEF q
<1>2. (1 - 1) \div TableLen = 0
  BY <1>1, MachineAssumption
<1>3. (MaxHeap - 1) \div TableLen \in Nat
  <2>1. MaxHeap - 1 \in Nat /\ TableLen \in Nat /\ TableLen > 0
    BY MachineAssumption
  <2> QED
    BY <2>1
<1>4. ASSUME NEW page \in 1 .. MaxHeap PROVE Slot(page) \in Int
  <2>1. page - 1 \in Nat /\ TableLen \in Nat /\ TableLen > 0
    BY MachineAssumption
  <2> QED
    BY <2>1 DEF Slot
<1>5. 1 \in Slots
  BY <1>3 DEF Slots
<1>6. Slot(1) = 1
  BY <1>2 DEF Slot
<1> QED
  BY <1>4, <1>5, <1>6

-----------------------------------------------------------------------------
(* The invariant, in the parts that the steps disturb.                     *)

\* What MachineInv says of the constants and of the types.
LEMMA Constants ==
    /\ Kernel \in All /\ Kernel \notin Procs /\ Kernel # None
    /\ \A p \in All : p # None
    /\ \A p \in All : p \in Procs \/ p = Kernel
    /\ Vectors \subseteq Int
BY MachineAssumption DEF All, None

LEMMA InitInv == Init => MachineInv
<1> SUFFICES ASSUME Init PROVE MachineInv
  OBVIOUS
<1> USE DEF Init
<1>1. heap_tables = <<1 .. 1>> /\ Len(heap_tables) = 1 /\ heap_tables \in Seq(SUBSET (1 .. MaxHeap))
  <2>1. 1 .. 1 = {1} /\ {1} \in SUBSET (1 .. MaxHeap)
    BY MachineAssumption
  <2> QED
    BY <2>1
<1>2. TypeOK
  <2>1. kdir \in [All -> [Slots -> 0 .. Len(heap_tables)]]
    BY <1>1
  <2>2. idt \in [Vectors -> Gates]
    BY DEF Gate, Gates
  <2>3. interrupt_handlers \in [Vectors -> Handlers]
    BY DEF Handlers
  <2>6. int_no \in [All -> 0 .. 255]
    OBVIOUS
  <2>7. IF_flag \in BOOLEAN /\ lost \in BOOLEAN
    BY Zenon
  <2>4. fpu \in Contents /\ fpu_regs \in [All -> Contents] /\ own \in [All -> Contents]
    BY DEF Contents
  <2>5. /\ boot \in 1 .. 12
        /\ in_service \subseteq Vectors
        /\ current \in All \union {None}
        /\ ready \subseteq All \ {current} /\ asleep \subseteq Procs \ (ready \union {current})
        /\ esp0 \in Procs \union {None} /\ cr3 \in All /\ heap_end \in 1 .. MaxHeap
    BY MachineAssumption, Constants
  <2> QED
    BY <1>1, <2>1, <2>2, <2>3, <2>4, <2>5, <2>6, <2>7 DEF TypeOK
<1>3. BootOrder
  BY DEF BootOrder, None
<1>4. KernelTicks /\ OnlyTimerUnacknowledged /\ OwnContext
  BY Constants, MachineAssumption DEF KernelTicks, OnlyTimerUnacknowledged, OwnContext, None, All
<1>6. LostOnlyInInstall
  BY Zenon DEF LostOnlyInInstall
<1>5. TableShared
  <2>1. kdir[Kernel][1] = 1
    BY FirstSlot, Constants
  <2>2. Living = {Kernel}
    BY Constants DEF Living
  <2>3. heap_tables = <<{1}>> /\ heap_end = 1
    OBVIOUS
  <2> QED
    BY ONLY <2>1, <2>2, <2>3 DEF TableShared
<1> QED
  BY <1>2, <1>3, <1>4, <1>5, <1>6 DEF MachineInv

\* install_interrupt_handler for a vector with a catcher: all gates stay.
LEMMA InstallKeeps ==
    ASSUME TypeOK, NEW v \in {14, 32, 33, 50}, NEW handler \in Handlers, NEW privilege \in {0, 3},
           install_interrupt_handler(v, handler, privilege)
    PROVE  /\ idt' \in [Vectors -> Gates]
           /\ \A w \in Vectors : idt[w].present => idt'[w].present
           /\ interrupt_handlers' \in [Vectors -> Handlers]
           /\ \A w \in Vectors : interrupt_handlers'[w] = IF w = v THEN handler ELSE interrupt_handlers[w]
           /\ IF_flag' \in BOOLEAN
<1>1. Catcher(v) = "isr"
  BY DEF Catcher
<1>2. Gate(Catcher(v), privilege) = [base |-> "isr", privilege |-> privilege, present |-> TRUE]
  BY <1>1 DEF Gate
<1>3. IF_flag' \in BOOLEAN
  BY Zenon DEF install_interrupt_handler
<1> QED
  BY <1>2, <1>3 DEF install_interrupt_handler, TypeOK, Gates

-----------------------------------------------------------------------------
(* kmain.                                                                  *)

\* The parts of MachineInv that speak of processes and of the heap.
Rest == KernelTicks /\ OnlyTimerUnacknowledged /\ OwnContext /\ TableShared

LEMMA RestKept ==
    ASSUME Rest, UNCHANGED <<in_service, procs, heap>>
    PROVE  Rest'
BY DEF Rest, KernelTicks, OnlyTimerUnacknowledged, OwnContext, TableShared, Living, procs, heap,
       Slot, Slots, None

\* What is not lost before and after a step.
LEMMA NotLost ==
    ASSUME ~lost'
    PROVE  LostOnlyInInstall'
BY Zenon DEF LostOnlyInInstall

LEMMA IdtInitialise ==
    ASSUME MachineInv, idt_initialise
    PROVE  MachineInv'
<1> DEFINE g(v) == IF v < 32 THEN Gate(Catcher(v), 0) ELSE Gate(Disabler(v), 0)
<1>1. ASSUME NEW v \in Vectors
      PROVE  g(v) \in Gates /\ (v < 48 => g(v).present)
  <2>1. v \in Int /\ v >= 0
    BY MachineAssumption
  <2>2. v < 32 => Catcher(v) = "isr"
    BY <2>1 DEF Catcher
  <2>3. v < 32 \/ v \in 32 .. 39 \/ v \in 40 .. 47 \/ v > 47
    BY <2>1
  <2>4. v \in 32 .. 39 => Disabler(v) = "ignore_irq_master"
    BY DEF Disabler
  <2>5. v \in 40 .. 47 => Disabler(v) = "ignore_irq_slave"
    BY DEF Disabler
  <2>6. v > 47 => Disabler(v) = "none"
    <3> SUFFICES ASSUME v > 47 PROVE Disabler(v) = "none"
      OBVIOUS
    <3>1. /\ v \notin {8} \union 10 .. 14 /\ v \notin 0 .. 31 \ ({8} \union 10 .. 14)
          /\ v \notin 32 .. 39 /\ v \notin 40 .. 47
      BY <2>1
    <3> QED
      BY <3>1, Zenon DEF Disabler
  <2> QED
    <3> DEFINE b == IF v < 32 THEN "isr" ELSE IF v < 40 THEN "ignore_irq_master"
                    ELSE IF v < 48 THEN "ignore_irq_slave" ELSE "none"
    <3>1. g(v) = Gate(b, 0)
      BY <2>1, <2>2, <2>3, <2>4, <2>5, <2>6
    <3>2. Gate(b, 0) \in Gates
      BY DEF Gate, Gates
    <3>3. v < 48 => b # "none"
      BY <2>1
    <3>4. b # "none" => Gate(b, 0).present
      BY DEF Gate
    <3> QED
      BY <3>1, <3>2, <3>3, <3>4
<1>2. TypeOK'
  <2>1. TypeOK /\ boot' = 2 /\ IF_flag' = TRUE /\ idt' = [v \in Vectors |-> g(v)]
    BY DEF MachineInv, idt_initialise, Step
  <2>2. UNCHANGED <<lost, interrupt_handlers, in_service, current, ready, asleep, int_no,
                    fpu, fpu_regs, own, esp0, cr3, kdir, heap_end, heap_tables>>
    BY DEF idt_initialise, procs, heap
  <2>3. IF_flag' \in BOOLEAN /\ lost' \in BOOLEAN
    BY <2>1, <2>2, Zenon DEF TypeOK
  <2> HIDE DEF g
  <2>4. idt' \in [Vectors -> Gates]
    BY ONLY <1>1, <2>1
  <2>5. boot' \in 1 .. 12
    BY ONLY <2>1
  <2> QED
    BY ONLY <2>1, <2>2, <2>3, <2>4, <2>5 DEF TypeOK, Contents
<1>3. BootOrder'
  BY <1>1 DEF MachineInv, BootOrder, TypeOK, idt_initialise, Step, procs
<1>4. Rest'
  BY RestKept DEF MachineInv, Rest, idt_initialise
<1>5. LostOnlyInInstall'
  BY NotLost, Zenon DEF idt_initialise, Step
<1> QED
  BY <1>2, <1>3, <1>4, <1>5 DEF MachineInv, Rest

\* A step of kmain that installs a handler.
LEMMA InstallStep ==
    ASSUME MachineInv, NEW n \in {2, 3, 5, 8}, NEW v \in {14, 32, 33, 50},
           NEW handler \in Handlers, NEW privilege \in {0, 3},
           handler = "pit_interrupt_handler" => n = 3, handler = "parse_scancode" => n = 5,
           Step(n), install_interrupt_handler(v, handler, privilege),
           UNCHANGED <<routines, kbd_listeners, in_service, procs, heap, lost>>
    PROVE  MachineInv'
<1> USE DEF MachineInv
<1>1. /\ idt' \in [Vectors -> Gates]
      /\ \A w \in Vectors : idt[w].present => idt'[w].present
      /\ interrupt_handlers' \in [Vectors -> Handlers]
      /\ \A w \in Vectors : interrupt_handlers'[w] = IF w = v THEN handler ELSE interrupt_handlers[w]
      /\ IF_flag' \in BOOLEAN
  <2>1. TypeOK
    OBVIOUS
  <2>2. /\ TypeOK /\ v \in {14, 32, 33, 50} /\ handler \in Handlers /\ privilege \in {0, 3}
        /\ install_interrupt_handler(v, handler, privilege)
    BY <2>1
  <2> HIDE DEF MachineInv
  <2> QED
    BY ONLY <2>2, InstallKeeps
<1>2. boot = n /\ boot' = n + 1
  BY DEF Step
<1>3. TypeOK'
  <2>1. lost' \in BOOLEAN
    BY Zenon DEF TypeOK
  <2>2. boot' \in 1 .. 12
    BY <1>2
  <2> QED
    BY <1>1, <2>1, <2>2 DEF TypeOK, procs, heap, Contents
<1>4. BootOrder'
  <2>1. boot' > 1 /\ \A w \in Vectors : w < 48 => idt'[w].present
    BY <1>1, <1>2 DEF BootOrder
  <2>2. \A w \in Vectors : /\ interrupt_handlers'[w] = "pit_interrupt_handler" => boot' > 3
                           /\ interrupt_handlers'[w] = "parse_scancode" => boot' > 5
    BY <1>1, <1>2 DEF BootOrder
  <2>3. CASE n \in {2, 3}
    BY <2>1, <2>2, <2>3, <1>2 DEF BootOrder, procs
  <2>4. CASE n \in {5, 8}
    BY <2>1, <2>2, <2>4, <1>2 DEF BootOrder, procs
  <2> QED
    BY <2>3, <2>4
<1>5. Rest'
  BY RestKept DEF Rest
<1>6. LostOnlyInInstall'
  BY NotLost, Zenon DEF Step
<1> QED
  BY <1>3, <1>4, <1>5, <1>6 DEF Rest

LEMMA InstallSteps ==
    ASSUME MachineInv, init_paging \/ pit_install \/ kbd_install \/ initialise_syscalls
    PROVE  MachineInv'
<1>1. CASE init_paging
  BY <1>1, InstallStep DEF init_paging, Handlers
<1>2. CASE pit_install
  BY <1>2, InstallStep DEF pit_install, Handlers
<1>3. CASE kbd_install
  BY <1>3, InstallStep DEF kbd_install, Handlers
<1>4. CASE initialise_syscalls
  BY <1>4, InstallStep DEF initialise_syscalls, Handlers
<1> QED
  BY <1>1, <1>2, <1>3, <1>4

\* The steps that make or extend the lists of timer and keyboard.
LEMMA ListSteps ==
    ASSUME MachineInv, pit_list \/ kbd_list \/ initialise_gtty
    PROVE  MachineInv'
<1> USE DEF MachineInv
<1>1. UNCHANGED <<IF_flag, idt, interrupt_handlers, in_service, procs, heap, lost>> /\ boot' = boot + 1
  BY DEF pit_list, kbd_list, initialise_gtty, Step
<1>2. boot \in {4, 6, 7}
  BY DEF pit_list, kbd_list, initialise_gtty, Step
<1>3. TypeOK'
  <2>1. UNCHANGED <<IF_flag, lost, idt, interrupt_handlers, in_service, current, ready, asleep, int_no,
                    fpu, fpu_regs, own, esp0, cr3, kdir, heap_end, heap_tables>>
    BY <1>1 DEF procs, heap
  <2>2. boot' \in 1 .. 12
    BY <1>1, <1>2
  <2>3. IF_flag' \in BOOLEAN /\ lost' \in BOOLEAN
    BY <2>1, Zenon DEF TypeOK
  <2> QED
    BY ONLY MachineInv, <2>1, <2>2, <2>3 DEF TypeOK, Contents
<1>4. BootOrder'
  <2>1. CASE pit_list
    <3>1. routines' = <<>> /\ UNCHANGED kbd_listeners /\ boot = 4
      BY <2>1 DEF pit_list, Step
    <3> QED
      BY <1>1, <3>1 DEF BootOrder, procs
  <2>2. CASE kbd_list
    <3>1. kbd_listeners' = <<>> /\ UNCHANGED routines /\ boot = 6
      BY <2>2 DEF kbd_list, Step
    <3> QED
      BY <1>1, <3>1 DEF BootOrder, procs
  <2>3. CASE initialise_gtty
    <3>1. boot = 7 /\ kbd_listeners \in Seq({"gtty_keyboard_listener"}) /\ routines \in Seq({"vesa_cursor_handler"})
      BY <2>3 DEF initialise_gtty, Step, BootOrder
    <3>2. kbd_listeners' \in Seq({"gtty_keyboard_listener"}) /\ routines' \in Seq({"vesa_cursor_handler"})
      BY <2>3, <3>1 DEF initialise_gtty
    <3> QED
      BY <1>1, <3>1, <3>2 DEF BootOrder, procs
  <2> QED
    BY <2>1, <2>2, <2>3
<1>5. Rest'
  BY <1>1, RestKept DEF Rest
<1>6. LostOnlyInInstall'
  <2>1. ~lost
    BY DEF pit_list, kbd_list, initialise_gtty, Step
  <2> QED
    BY ONLY <1>1, <2>1, NotLost
<1> QED
  BY <1>3, <1>4, <1>5, <1>6 DEF Rest

LEMMA SchedulerStep ==
    ASSUME MachineInv, initialise_scheduler
    PROVE  MachineInv'
<1> USE DEF MachineInv, initialise_scheduler
<1>1. boot = 9 /\ boot' = 10
  BY DEF Step
<1>2. current = None /\ cr3 = Kernel /\ current' = Kernel
  BY <1>1 DEF BootOrder
<1>3. ready = {} /\ asleep = {}
  BY <1>1 DEF BootOrder
<1>4. TypeOK'
  <2>1. IF_flag' \in BOOLEAN /\ lost' \in BOOLEAN
    BY Zenon DEF TypeOK
  <2> QED
    <3>1. UNCHANGED <<idt, interrupt_handlers, in_service, ready, asleep, int_no, fpu, fpu_regs, own,
                      esp0, cr3, kdir, heap_end, heap_tables>>
      BY DEF heap
    <3>2. current' \in All \union {None} /\ boot' \in 1 .. 12
      BY ONLY <1>1, <1>2, Constants
    <3>3. ready' \subseteq All \ {current'} /\ asleep' \subseteq Procs \ (ready' \union {current'})
      BY ONLY <1>3, <3>1
    <3>4. TypeOK
      OBVIOUS
    <3> QED
      BY ONLY <2>1, <3>1, <3>2, <3>3, <3>4 DEF TypeOK, Contents
<1>5. BootOrder'
  <2>1. routines' \in Seq({"vesa_cursor_handler", "sched_preempt_handler", "sched_timekeeper"})
    <3>1. routines \in Seq({"vesa_cursor_handler", "sched_preempt_handler", "sched_timekeeper"})
      BY <1>1 DEF BootOrder
    <3> QED
      BY <3>1
  <2> QED
    BY <1>1, <1>2, <2>1, Constants DEF BootOrder
<1>6. KernelTicks' /\ OnlyTimerUnacknowledged'
  <2>1. in_service = {}
    BY <1>2, MachineAssumption DEF OnlyTimerUnacknowledged, None
  <2>2. UNCHANGED <<in_service, int_no>>
    OBVIOUS
  <2> QED
    BY <2>1, <2>2 DEF KernelTicks, OnlyTimerUnacknowledged
<1>7. OwnContext'
  BY <1>2, <1>3, Constants DEF OwnContext
<1>8. TableShared'
  BY <1>2, <1>3, Constants DEF TableShared, Living, heap, Slot
<1>9. LostOnlyInInstall'
  BY NotLost, Zenon DEF Step
<1> QED
  BY <1>4, <1>5, <1>6, <1>7, <1>8, <1>9

-----------------------------------------------------------------------------
(* Processes.                                                              *)

\* Once there is a current process, what kmain has set up stays.
LEMMA BootKept ==
    ASSUME TypeOK, BootOrder, UNCHANGED <<IF_flag, idt, interrupt_handlers, routines, kbd_listeners>>,
           boot' \in 1 .. 12, boot' >= boot, current # None, current' # None,
           boot' <= 11 => cr3' = Kernel /\ current' \in {None, Kernel} /\ ready' = {} /\ asleep' = {}
    PROVE  BootOrder'
<1>1. boot > 9 /\ boot' > 9 /\ boot \in Int
  <2>1. boot \in 1 .. 12 /\ ~(boot <= 9)
    BY DEF BootOrder, TypeOK
  <2> QED
    BY <2>1
<1>2. /\ boot' > 1 /\ \A v \in Vectors : v < 48 => idt'[v].present
      /\ kbd_listeners' \in Seq({"gtty_keyboard_listener"})
  BY <1>1 DEF BootOrder
<1>3. routines' \in Seq({"vesa_cursor_handler", "sched_preempt_handler", "sched_timekeeper"})
  BY <1>1 DEF BootOrder
<1>4. boot' > 3 /\ boot' > 5 /\ ~(boot' <= 4) /\ boot' \notin 5 .. 9 /\ ~(boot' <= 6) /\ ~(boot' <= 9)
  BY ONLY <1>1, boot' \in 1 .. 12
<1> QED
  BY ONLY <1>2, <1>3, <1>4, current' # None,
          boot' <= 11 => cr3' = Kernel /\ current' \in {None, Kernel} /\ ready' = {} /\ asleep' = {}
     DEF BootOrder

\* The booleans that most steps leave alone.
LEMMA Flags ==
    ASSUME TypeOK, UNCHANGED IF_flag, UNCHANGED lost
    PROVE  IF_flag' \in BOOLEAN /\ lost' \in BOOLEAN /\ (~lost => ~lost')
BY Zenon DEF TypeOK

LEMMA FpuStep ==
    ASSUME MachineInv, initialise_fpu
    PROVE  MachineInv'
<1> USE DEF MachineInv, initialise_fpu
<1>1. boot = 10 /\ boot' = 11 /\ current # None
  BY DEF Step, BootOrder
<1>2. UNCHANGED <<IF_flag, lost, current, ready, asleep, in_service, int_no, esp0, cr3, kdir>>
  OBVIOUS
<1>3. IF_flag' \in BOOLEAN /\ lost' \in BOOLEAN /\ (~lost => ~lost')
  BY <1>2, Flags
<1>4. TypeOK'
  <2>1. TypeOK /\ UNCHANGED <<idt, interrupt_handlers, heap_end, heap_tables>>
    BY DEF heap
  <2>2. fpu' \in Contents /\ fpu_regs' \in [All -> Contents] /\ own' \in [All -> Contents]
    BY Constants DEF TypeOK, Contents
  <2>3. boot' \in 1 .. 12
    BY ONLY <1>1
  <2> QED
    BY ONLY <1>2, <1>3, <2>1, <2>2, <2>3 DEF TypeOK
<1>5. BootOrder'
  <2>1. cr3' = Kernel /\ current' = Kernel /\ ready' = {} /\ asleep' = {}
    BY <1>1, <1>2 DEF BootOrder
  <2> QED
    BY <1>1, <2>1, BootKept
<1>6. KernelTicks' /\ OnlyTimerUnacknowledged'
  BY <1>2 DEF KernelTicks, OnlyTimerUnacknowledged
<1>7. OwnContext'
  <2>1. current = Kernel /\ ready = {} /\ asleep = {}
    BY <1>1 DEF BootOrder
  <2> QED
    BY <1>2, <2>1, Constants DEF OwnContext, TypeOK
<1>8. TableShared'
  BY <1>2 DEF TableShared, Living, heap, Slot, None
<1>9. LostOnlyInInstall'
  BY <1>3, NotLost, Zenon DEF Step
<1> QED
  BY <1>4, <1>5, <1>6, <1>7, <1>8, <1>9

\* A switch: whatever the handler did, the process switched to finds its own context.
LEMMA Switch ==
    ASSUME MachineInv, current # None, NEW v \in 0 .. 255, NEW new \in All,
           NEW then \in {"ready", "asleep", "dead"}, current = Kernel => v = 32 /\ then = "ready",
           sched_preempt_handler(v, new, then), UNCHANGED <<own, kdir, heap>>
    PROVE  /\ current' = new
           /\ ready' \subseteq All \ {new} /\ asleep' \subseteq Procs \ (ready' \union {new})
           /\ int_no' \in [All -> 0 .. 255] /\ KernelTicks'
           /\ fpu' \in Contents /\ fpu_regs' \in [All -> Contents]
           /\ esp0' \in Procs \union {None} /\ cr3' \in All
           /\ OwnContext'
           /\ TableShared'
<1> USE DEF MachineInv, sched_preempt_handler
<1>1. current \in All
  BY DEF TypeOK
<1> DEFINE left == IF then = "ready" THEN ready \union {current} ELSE ready
           saved == [fpu_regs EXCEPT ![current] = fpu]
<1>2. /\ new \in left /\ ready' = left \ {new} /\ current' = new
      /\ asleep' = IF then = "asleep" THEN asleep \union {current} ELSE asleep
      /\ int_no' = [int_no EXCEPT ![current] = v]
      /\ fpu_regs' = saved /\ fpu' = saved[new] /\ cr3' = new
      /\ esp0' = IF new \in Procs THEN new ELSE esp0
  BY DEF Reloaded, StackOf
<1>3. ready' \subseteq All \ {new} /\ asleep' \subseteq Procs \ (ready' \union {new})
  BY <1>1, <1>2, Constants DEF TypeOK
<1>4. int_no' \in [All -> 0 .. 255] /\ KernelTicks'
  <2>1. int_no \in [All -> 0 .. 255] /\ int_no[Kernel] = 32
    BY DEF TypeOK, KernelTicks
  <2>2. v \in 0 .. 255 /\ (current = Kernel => v = 32)
    OBVIOUS
  <2>3. int_no' = [int_no EXCEPT ![current] = v] /\ Kernel \in All
    BY <1>2, Constants
  <2> QED
    BY ONLY <1>1, <2>1, <2>2, <2>3 DEF KernelTicks
<1>5. fpu' \in Contents /\ fpu_regs' \in [All -> Contents]
  BY <1>1, <1>2 DEF TypeOK
<1>6. esp0' \in Procs \union {None} /\ cr3' \in All
  BY <1>2 DEF TypeOK
<1>7. \A p \in Procs \cap (ready \union asleep \union {current}) : saved[p] = own[p]
  BY <1>1 DEF TypeOK, OwnContext, All
<1>8. OwnContext'
  <2>1. new \in Procs => fpu' = own'[new] /\ esp0' = new
    BY <1>2, <1>7
  <2>2. (ready' \union asleep') \subseteq ready \union asleep \union {current}
    BY <1>2
  <2>3. UNCHANGED own
    OBVIOUS
  <2> QED
    BY <1>2, <1>7, <2>1, <2>2, <2>3 DEF OwnContext
<1>9. TableShared'
  <2>1. Living' \subseteq Living
    BY <1>2 DEF Living, None
  <2> QED
    BY <2>1 DEF TableShared, heap, Slot
<1> QED
  BY <1>2, <1>3, <1>4, <1>5, <1>6, <1>8, <1>9

\* During the boot there is only the kernel to switch to.
LEMMA SwitchBooting ==
    ASSUME MachineInv, current # None, NEW v, NEW new, NEW then \in {"ready", "asleep", "dead"},
           current = Kernel => then = "ready", sched_preempt_handler(v, new, then), boot <= 11
    PROVE  cr3' = Kernel /\ current' = Kernel /\ ready' = {} /\ asleep' = {}
<1>1. current = Kernel /\ ready = {} /\ asleep = {} /\ then = "ready"
  BY DEF MachineInv, BootOrder
<1> QED
  BY <1>1 DEF sched_preempt_handler

\* A switch from an interrupt handler, with the acknowledgement that follows it.
Switches(v, new, then, service) ==
    /\ current # None /\ v \in 0 .. 255 /\ then \in {"ready", "asleep", "dead"}
    /\ current = Kernel => v = 32 /\ then = "ready"
    /\ sched_preempt_handler(v, new, then) /\ UNCHANGED <<cpu, own, kdir, heap>>
    /\ lost' \in BOOLEAN /\ ~lost'
    /\ service \in SUBSET {32} /\ service \subseteq Vectors
    /\ in_service' = clear_irq(int_no'[new], service)

LEMMA SwitchStep ==
    ASSUME MachineInv, NEW v, NEW new \in All, NEW then, NEW service, Switches(v, new, then, service)
    PROVE  MachineInv'
<1> USE DEF Switches
<1>1. /\ current' = new
      /\ ready' \subseteq All \ {new} /\ asleep' \subseteq Procs \ (ready' \union {new})
      /\ int_no' \in [All -> 0 .. 255] /\ KernelTicks'
      /\ fpu' \in Contents /\ fpu_regs' \in [All -> Contents]
      /\ esp0' \in Procs \union {None} /\ cr3' \in All
      /\ OwnContext'
      /\ TableShared'
  BY Switch
<1>2. int_no'[new] \in 0 .. 255
  BY <1>1
<1>3. in_service' = IF int_no'[new] \in 32 .. 47 THEN {} ELSE service
  <2> DEFINE w == int_no'[new]
  <2>1. w \in Int /\ service \in SUBSET {32} /\ in_service' = clear_irq(w, service)
    BY <1>2
  <2> HIDE DEF w
  <2>2. clear_irq(w, service) = IF w \in 32 .. 47 THEN {} ELSE service
    BY ONLY <2>1, ClearIrq
  <2>3. in_service' = IF w \in 32 .. 47 THEN {} ELSE service
    BY ONLY <2>1, <2>2
  <2> QED
    BY <2>3 DEF w
<1>4. UNCHANGED <<boot, IF_flag, idt, interrupt_handlers, routines, kbd_listeners, own, kdir, heap_tables, heap_end>>
  BY DEF cpu, heap
<1>5. IF_flag' \in BOOLEAN
  BY <1>4, Zenon DEF MachineInv, TypeOK
<1>6. TypeOK'
  <2>1. in_service' \subseteq Vectors
    BY <1>3
  <2>2. TypeOK
    BY DEF MachineInv
  <2> QED
    BY ONLY <1>1, <1>4, <1>5, <2>1, <2>2, lost' \in BOOLEAN, new \in All DEF TypeOK, Contents
<1>7. BootOrder'
  <2>1. boot' \in 1 .. 12 /\ boot' >= boot /\ current' # None
    BY <1>1, <1>4, Constants DEF MachineInv, TypeOK
  <2>2. boot' <= 11 => cr3' = Kernel /\ current' \in {None, Kernel} /\ ready' = {} /\ asleep' = {}
    BY <1>4, SwitchBooting
  <2> QED
    BY <1>4, <2>1, <2>2, BootKept DEF MachineInv
<1>8. OnlyTimerUnacknowledged'
  <2>1. int_no'[Kernel] = 32 /\ (new \in Procs \/ new = Kernel) /\ service \subseteq {32}
    BY <1>1, Constants DEF KernelTicks
  <2> QED
    <3>1. CASE int_no'[new] \in 32 .. 47
      BY ONLY <1>3, <3>1 DEF OnlyTimerUnacknowledged
    <3>2. CASE int_no'[new] \notin 32 .. 47
      <4>1. new \in Procs /\ in_service' \subseteq {32} /\ current' = new
        BY ONLY <1>1, <1>3, <2>1, <3>2
      <4> QED
        BY ONLY <4>1, <3>2 DEF OnlyTimerUnacknowledged
    <3> QED
      BY <3>1, <3>2
<1>9. LostOnlyInInstall'
  BY NotLost, Zenon
<1> QED
  BY <1>1, <1>6, <1>7, <1>8, <1>9 DEF MachineInv

LEMMA TimerInterrupt ==
    ASSUME MachineInv, NEW new \in All, timer_interrupt(new)
    PROVE  MachineInv'
<1> USE DEF timer_interrupt
<1>1. current # None
  <2>1. boot > 9
    <3>0. boot \in 1 .. 12
      BY ONLY MachineInv DEF MachineInv, TypeOK
    <3> SUFFICES ASSUME boot <= 9 PROVE FALSE
      BY <3>0
    <3>1. routines = NULL \/ routines \in Seq({"vesa_cursor_handler"})
      BY DEF MachineInv, BootOrder, TypeOK
    <3>2. \A T : \A q \in Seq(T) : Range(q) \subseteq T
      BY DEF Range
    <3>3. "sched_preempt_handler" \notin {"vesa_cursor_handler"}
      OBVIOUS
    <3> QED
      BY <3>1, <3>2, <3>3
  <2>2. boot \in 1 .. 12 /\ (current = None <=> boot <= 9)
    BY ONLY MachineInv DEF MachineInv, BootOrder, TypeOK
  <2>3. ~(boot <= 9)
    BY ONLY <2>1, <2>2
  <2> QED
    BY ONLY <2>2, <2>3
<1>2. /\ sched_preempt_handler(32, new, "ready")
      /\ in_service' = clear_irq(int_no'[new], in_service \union {32})
      /\ UNCHANGED <<cpu, own, kdir, heap>>
  BY <1>1
<1>3. lost' \in BOOLEAN /\ ~lost'
  BY <1>1, Zenon
<1>4. in_service \union {32} \in SUBSET {32} /\ in_service \union {32} \subseteq Vectors
  BY DEF MachineInv, OnlyTimerUnacknowledged, TypeOK
<1> QED
  <2>1. current = Kernel => 32 = 32 /\ "ready" = "ready"
    OBVIOUS
  <2>2. 32 \in 0 .. 255 /\ "ready" \in {"ready", "asleep", "dead"}
    OBVIOUS
  <2> HIDE DEF timer_interrupt
  <2>3. Switches(32, new, "ready", in_service \union {32})
    BY ONLY <1>1, <1>2, <1>3, <1>4, <2>1, <2>2, Zenon DEF Switches
  <2> QED
    BY ONLY MachineInv, new \in All, <2>3, SwitchStep, Zenon

LEMMA TrapSwitch ==
    ASSUME MachineInv, NEW new \in All, NEW then \in {"ready", "asleep", "dead"},
           syscall_switch(new, then) \/ page_fault_handler(new)
    PROVE  MachineInv'
<1>1. /\ current \in Procs /\ UNCHANGED <<cpu, own, kdir, heap>> /\ UNCHANGED lost
      /\ in_service' = clear_irq(int_no'[new], in_service)
      /\ \E v \in {14, 32, 50}, t \in {"ready", "asleep", "dead"} : sched_preempt_handler(v, new, t)
  BY DEF syscall_switch, page_fault_handler, UserMay
<1>2. PICK v \in {14, 32, 50}, t \in {"ready", "asleep", "dead"} : sched_preempt_handler(v, new, t)
  BY <1>1
<1>3. lost' \in BOOLEAN /\ ~lost'
  <2>1. ~lost
    BY DEF syscall_switch, page_fault_handler
  <2>2. lost' = FALSE
    BY <1>1, <2>1, Zenon DEF MachineInv, TypeOK
  <2> QED
    BY ONLY <2>2
<1>4. in_service \in SUBSET {32} /\ in_service \subseteq Vectors
  BY DEF MachineInv, OnlyTimerUnacknowledged, TypeOK
<1>5. current # None /\ current # Kernel
  BY <1>1, Constants DEF All
<1> QED
  <2>1. (current = Kernel => v = 32 /\ t = "ready") /\ v \in 0 .. 255
    BY <1>5
  <2>2. Switches(v, new, t, in_service)
    BY ONLY t \in {"ready", "asleep", "dead"}, <1>1, <1>2, <1>3, <1>4, <1>5, <2>1, Zenon DEF Switches
  <2> QED
    BY ONLY MachineInv, new \in All, <2>2, SwitchStep, Zenon

\* A process that appears: its registers are kept, its directory has the tables of the
\* directory in use, and nobody else is touched.
LEMMA NewProcess ==
    ASSUME MachineInv, current # None, NEW p \in Procs, p \notin ready \union asleep \union {current},
           NEW x \in Contents, NEW n \in 0 .. 255,
           ready' = ready \union {p}, int_no' = [int_no EXCEPT ![p] = n],
           fpu_regs' = [fpu_regs EXCEPT ![p] = x], own' = [own EXCEPT ![p] = x],
           kdir' = [kdir EXCEPT ![p] = kdir[cr3]],
           UNCHANGED <<IF_flag, idt, interrupt_handlers, routines, kbd_listeners, in_service, heap, lost,
                       current, asleep, fpu, esp0, cr3>>,
           boot' = 12
    PROVE  MachineInv'
<1>1. TypeOK /\ BootOrder /\ current \in All /\ p \in All /\ cr3 = current
  BY DEF MachineInv, TypeOK, OwnContext, All
<1>2. UNCHANGED <<IF_flag, idt, interrupt_handlers, routines, kbd_listeners, in_service, heap_tables, heap_end, lost,
                  current, asleep, fpu, esp0, cr3>>
  BY DEF heap
<1>3. IF_flag' \in BOOLEAN /\ lost' \in BOOLEAN /\ (~lost => ~lost')
  BY <1>1, <1>2, Flags
<1>4. TypeOK'
  <2>1. /\ int_no' \in [All -> 0 .. 255] /\ fpu_regs' \in [All -> Contents] /\ own' \in [All -> Contents]
        /\ kdir' \in [All -> [Slots -> 0 .. Len(heap_tables)]]
    BY <1>1 DEF TypeOK
  <2>2. ready' \subseteq All \ {current} /\ asleep \subseteq Procs \ (ready' \union {current})
    BY <1>1 DEF TypeOK
  <2>3. boot' \in 1 .. 12
    OBVIOUS
  <2> QED
    BY ONLY <1>1, <1>2, <1>3, <2>1, <2>2, <2>3 DEF TypeOK, Contents
<1>5. BootOrder'
  <2>1. boot' \in 1 .. 12 /\ boot' >= boot /\ current' # None /\ ~(boot' <= 11)
    BY <1>1, <1>2 DEF TypeOK
  <2> QED
    BY <1>1, <1>2, <2>1, BootKept
<1>6. KernelTicks' /\ OnlyTimerUnacknowledged'
  <2>1. \A q \in All : q # p => int_no'[q] = int_no[q]
    BY <1>1 DEF TypeOK
  <2>2. p # Kernel /\ p # current /\ Kernel \in All
    BY Constants
  <2> QED
    BY <1>1, <1>2, <2>1, <2>2 DEF MachineInv, KernelTicks, OnlyTimerUnacknowledged
<1>7. OwnContext'
  <2>1. \A q \in All : q # p => fpu_regs'[q] = fpu_regs[q] /\ own'[q] = own[q]
    BY <1>1 DEF TypeOK
  <2>2. fpu_regs'[p] = own'[p]
    BY <1>1 DEF TypeOK
  <2> QED
    BY <1>1, <1>2, <2>1, <2>2 DEF MachineInv, OwnContext, All
<1>8. TableShared'
  <2>1. TableShared /\ kdir[cr3][1] = 1
    BY <1>1 DEF MachineInv, TableShared, Living
  <2>2. kdir'[p][1] = 1
    BY <1>1, <2>1 DEF TypeOK
  <2>3. \A q \in All : q # p => kdir'[q] = kdir[q]
    BY <1>1 DEF TypeOK
  <2>4. \A q \in Living' : q \in Living \union {p} /\ q \in All
    BY <1>1, <1>2, Constants DEF TypeOK, All, Living, None
  <2> QED
    BY ONLY <1>2, <2>1, <2>2, <2>3, <2>4 DEF TableShared, Slot
<1>9. LostOnlyInInstall'
  <2>1. boot \in 1 .. 12 /\ ~(boot <= 9)
    BY <1>1 DEF BootOrder, TypeOK
  <2>2. lost => boot \in {4, 6}
    BY DEF MachineInv, LostOnlyInInstall
  <2>3. ~lost
    BY ONLY <2>1, <2>2
  <2> QED
    BY ONLY <1>3, <2>3, NotLost
<1> QED
  BY <1>4, <1>5, <1>6, <1>7, <1>8, <1>9 DEF MachineInv

\* spawn, by kmain or by a process, and fork.
LEMMA Births ==
    ASSUME MachineInv, NEW p \in Procs, kmain_spawn(p) \/ syscall_spawn(p) \/ syscall_fork(p)
    PROVE  MachineInv'
<1>1. /\ TypeOK /\ BootOrder /\ current # None /\ p \notin ready \union asleep \union {current}
      /\ UNCHANGED <<IF_flag, idt, interrupt_handlers, routines, kbd_listeners, in_service, heap, lost,
                     current, asleep, fpu, esp0, cr3>>
  BY Constants DEF MachineInv, kmain_spawn, syscall_spawn, syscall_fork, Created, UserMay, cpu, All
<1>2. boot' = 12
  <2>1. CASE kmain_spawn(p)
    BY <2>1 DEF kmain_spawn, Step
  <2>2. CASE syscall_spawn(p) \/ syscall_fork(p)
    <3>1. current \in Procs /\ boot' = boot
      BY <2>2 DEF syscall_spawn, syscall_fork, UserMay, cpu
    <3>2. current # Kernel
      BY <3>1, Constants
    <3>3. ~(boot <= 11) /\ boot \in 1 .. 12
      BY <1>1, <3>2 DEF BootOrder, TypeOK
    <3> QED
      BY <3>1, <3>3
  <2> QED
    BY <2>1, <2>2
<1>3. \E x \in Contents, n \in 0 .. 255 :
        /\ ready' = ready \union {p} /\ int_no' = [int_no EXCEPT ![p] = n]
        /\ fpu_regs' = [fpu_regs EXCEPT ![p] = x] /\ own' = [own EXCEPT ![p] = x]
        /\ kdir' = [kdir EXCEPT ![p] = kdir[cr3]]
  <2>1. CASE kmain_spawn(p) \/ syscall_spawn(p)
    <3>1. Created(p)
      BY <2>1 DEF kmain_spawn, syscall_spawn
    <3>2. "zero" \in Contents /\ 32 \in 0 .. 255
      BY DEF Contents
    <3> QED
      BY <3>1, <3>2 DEF Created, map_kernel_tables
  <2>2. CASE syscall_fork(p)
    <3>1. fpu_regs[current] \in Contents /\ 50 \in 0 .. 255
      BY <1>1 DEF TypeOK
    <3> QED
      BY <2>2, <3>1 DEF syscall_fork
  <2> QED
    BY <2>1, <2>2
<1> QED
  BY ONLY MachineInv, p \in Procs, <1>1, <1>2, <1>3, NewProcess

LEMMA ComputeStep ==
    ASSUME MachineInv, NEW x \in Values, compute(x)
    PROVE  MachineInv'
<1> USE DEF compute
<1>1. /\ TypeOK /\ BootOrder /\ current \in Procs /\ current # None
      /\ UNCHANGED <<boot, IF_flag, idt, interrupt_handlers, routines, kbd_listeners, in_service, heap_tables,
                     heap_end, lost, current, ready, asleep, int_no, fpu_regs, esp0, cr3, kdir>>
  BY Constants DEF MachineInv, cpu, heap, All
<1>2. IF_flag' \in BOOLEAN /\ lost' \in BOOLEAN /\ (~lost => ~lost')
  BY <1>1, Flags
<1>3. fpu' \in Contents /\ own' \in [All -> Contents]
  BY <1>1 DEF TypeOK, Contents
<1> HIDE DEF compute
<1>4. TypeOK'
  BY ONLY <1>1, <1>2, <1>3 DEF TypeOK, Contents
<1>5. BootOrder'
  BY ONLY <1>1 DEF BootOrder
<1>6. KernelTicks' /\ OnlyTimerUnacknowledged'
  BY <1>1 DEF MachineInv, KernelTicks, OnlyTimerUnacknowledged
<1>7. OwnContext'
  <2>1. fpu' = x /\ own' = [own EXCEPT ![current] = x] /\ current \in All
    BY <1>1 DEF compute, All
  <2>2. own'[current] = x /\ \A q \in All : q # current => own'[q] = own[q]
    BY <1>1, <2>1 DEF TypeOK
  <2>3. current \notin ready \union asleep /\ Procs \subseteq All
    BY <1>1 DEF TypeOK, All
  <2> QED
    BY <1>1, <2>1, <2>2, <2>3 DEF MachineInv, OwnContext
<1>8. TableShared' /\ LostOnlyInInstall'
  <2>1. TableShared'
    BY <1>1 DEF MachineInv, TableShared, Living, Slot, None
  <2>2. ~lost
    BY DEF compute
  <2> QED
    BY <1>2, <2>1, <2>2, NotLost
<1> QED
  BY <1>4, <1>5, <1>6, <1>7, <1>8 DEF MachineInv

LEMMA WakeStep ==
    ASSUME MachineInv, NEW p \in Procs, made_ready(p)
    PROVE  MachineInv'
<1> USE DEF made_ready
<1>1. /\ TypeOK /\ BootOrder /\ p \in asleep /\ asleep' = asleep \ {p} /\ ready' = ready \union {p}
      /\ UNCHANGED <<boot, IF_flag, idt, interrupt_handlers, routines, kbd_listeners, in_service, heap_tables,
                     heap_end, lost, current, int_no, fpu, fpu_regs, own, esp0, cr3, kdir>>
  BY DEF MachineInv, cpu, heap
<1> HIDE DEF made_ready
<1>2. IF_flag' \in BOOLEAN /\ lost' \in BOOLEAN /\ (~lost => ~lost')
  BY <1>1, Flags
<1>3. TypeOK'
  <2>1. ready' \subseteq All \ {current} /\ asleep' \subseteq Procs \ (ready' \union {current})
    BY <1>1 DEF TypeOK, All
  <2> QED
    BY ONLY <1>1, <1>2, <2>1 DEF TypeOK, Contents
<1>4. BootOrder'
  <2>1. ~(boot <= 11)
    BY <1>1 DEF BootOrder
  <2> QED
    BY ONLY <1>1, <2>1 DEF BootOrder
<1>5. KernelTicks' /\ OnlyTimerUnacknowledged' /\ OwnContext'
  BY <1>1 DEF MachineInv, KernelTicks, OnlyTimerUnacknowledged, OwnContext
<1>6. TableShared' /\ LostOnlyInInstall'
  <2>1. TableShared'
    BY <1>1 DEF MachineInv, TableShared, Living, Slot, None
  <2>2. ~lost
    BY DEF made_ready
  <2> QED
    BY <1>2, <2>1, <2>2, NotLost
<1> QED
  BY <1>3, <1>4, <1>5, <1>6 DEF MachineInv

-----------------------------------------------------------------------------
(* Devices, and the heap of the kernel.                                    *)

\* A device interrupts only when nothing is in service: the timer, which may be, has the
\* highest priority.  It finds its gate, since interrupts are enabled only after the gates
\* are set, and its list, unless kmain is between the two halves of a set-up.
LEMMA DeviceInterrupt ==
    ASSUME MachineInv, NEW v \in Vectors, device_interrupt(v)
    PROVE  MachineInv'
<1>1. /\ TypeOK /\ BootOrder /\ v \in 32 .. 47
      /\ UNCHANGED <<boot, IF_flag, idt, interrupt_handlers, routines, kbd_listeners, heap_tables, heap_end,
                     current, ready, asleep, int_no, fpu, fpu_regs, own, esp0, cr3, kdir>>
  BY DEF MachineInv, device_interrupt, cpu, heap, procs
<1>2. in_service' = {}
  <2>1. in_service = {}
    <3>1. in_service \subseteq {32} /\ \A w \in in_service : v < w
      BY DEF MachineInv, OnlyTimerUnacknowledged, device_interrupt, Deliverable
    <3> QED
      BY <1>1, <3>1
  <2>2. in_service' = EndOf({v})
    BY <1>1, <2>1 DEF device_interrupt, Acknowledged, clear_irq
  <2> QED
    BY <1>1, <2>2, EndOfOne
<1>3. lost' => boot \in {4, 6}
  <2>1. idt[v].present
    BY <1>1 DEF device_interrupt, Deliverable, BootOrder
  <2>2. boot \in 1 .. 12
    BY <1>1 DEF TypeOK
  <2>3. ASSUME interrupt_handlers[v] = "pit_interrupt_handler", routines = NULL PROVE boot = 4
    <3>1. boot > 3
      BY <1>1, <2>3 DEF BootOrder
    <3>2. "NULL" \notin {"vesa_cursor_handler", "sched_preempt_handler", "sched_timekeeper"}
      OBVIOUS
    <3>3. \A T : <<"NULL">> \in Seq(T) => "NULL" \in T
      OBVIOUS
    <3>4. NULL \notin Seq({"vesa_cursor_handler"})
      BY ONLY <3>2, <3>3 DEF NULL
    <3>5. NULL \notin Seq({"vesa_cursor_handler", "sched_preempt_handler", "sched_timekeeper"})
      BY ONLY <3>2, <3>3 DEF NULL
    <3>6. boot <= 4 \/ routines \in Seq({"vesa_cursor_handler"})
                    \/ routines \in Seq({"vesa_cursor_handler", "sched_preempt_handler", "sched_timekeeper"})
      BY ONLY <1>1, <2>2 DEF BootOrder
    <3> QED
      BY ONLY <2>2, <2>3, <3>1, <3>4, <3>5, <3>6
  <2>4. ASSUME interrupt_handlers[v] = "parse_scancode", kbd_listeners = NULL PROVE boot = 6
    <3>1. boot > 5
      BY <1>1, <2>4 DEF BootOrder
    <3>2. \A T : <<"NULL">> \in Seq(T) => "NULL" \in T
      OBVIOUS
    <3>3. NULL \notin Seq({"gtty_keyboard_listener"})
      BY ONLY <3>2 DEF NULL
    <3>4. boot <= 6 \/ kbd_listeners \in Seq({"gtty_keyboard_listener"})
      BY ONLY <1>1, <2>2 DEF BootOrder
    <3> QED
      BY ONLY <2>2, <2>4, <3>1, <3>3, <3>4
  <2>5. \/ ~lost'
        \/ interrupt_handlers[v] = "pit_interrupt_handler" /\ routines = NULL
        \/ interrupt_handlers[v] = "parse_scancode" /\ kbd_listeners = NULL
    BY <2>1, Zenon DEF device_interrupt, Present
  <2> QED
    BY ONLY <2>3, <2>4, <2>5
<1>4. lost' \in BOOLEAN
  BY Zenon DEF device_interrupt
<1>5. IF_flag' \in BOOLEAN
  BY <1>1, Zenon DEF TypeOK
<1>6. TypeOK'
  BY ONLY <1>1, <1>2, <1>4, <1>5 DEF TypeOK, Contents
<1>7. BootOrder'
  BY ONLY <1>1 DEF BootOrder
<1>8. KernelTicks' /\ OnlyTimerUnacknowledged' /\ OwnContext'
  BY <1>1, <1>2 DEF MachineInv, KernelTicks, OnlyTimerUnacknowledged, OwnContext
<1>9. TableShared' /\ LostOnlyInInstall'
  <2>1. TableShared'
    BY <1>1 DEF MachineInv, TableShared, Living, Slot, None
  <2>2. boot' = boot
    BY <1>1
  <2>3. LostOnlyInInstall'
    BY ONLY <1>3, <2>2 DEF LostOnlyInInstall
  <2> QED
    BY <2>1, <2>3
<1> QED
  BY <1>6, <1>7, <1>8, <1>9 DEF MachineInv

\* The heap grows by a page, whichever directory is in use.
LEMMA HeapStep ==
    ASSUME MachineInv, increase_heap
    PROVE  MachineInv'
<1> DEFINE page  == heap_end + 1
           table == kdir[cr3][Slot(page)]
<1>1. /\ TypeOK /\ BootOrder /\ heap_end < MaxHeap /\ heap_end' = page
      /\ UNCHANGED <<boot, IF_flag, idt, interrupt_handlers, routines, kbd_listeners, in_service,
                     current, ready, asleep, int_no, fpu, fpu_regs, own, esp0, cr3, lost>>
  BY DEF MachineInv, increase_heap, cpu
<1>2. IF_flag' \in BOOLEAN /\ lost' \in BOOLEAN /\ (~lost => ~lost')
  BY <1>1, Flags
<1>3. page \in 1 .. MaxHeap /\ cr3 \in All /\ heap_end \in Nat
  BY <1>1, MachineAssumption DEF TypeOK
<1>4. \/ /\ table # 0 /\ UNCHANGED kdir
         /\ heap_tables' = [heap_tables EXCEPT ![table] = @ \union {page}]
      \/ /\ table = 0 /\ heap_tables' = Append(heap_tables, {page})
         /\ kdir' = [kdir EXCEPT ![cr3] = [kdir[cr3] EXCEPT ![Slot(page)] = Len(heap_tables) + 1]]
  BY <1>1 DEF increase_heap, TypeOK
<1> HIDE DEF page, table
<1>5. /\ heap_tables' \in Seq(SUBSET (1 .. MaxHeap))
      /\ kdir' \in [All -> [Slots -> 0 .. Len(heap_tables')]]
  <2>1. /\ heap_tables \in Seq(SUBSET (1 .. MaxHeap)) /\ {page} \in SUBSET (1 .. MaxHeap)
        /\ kdir \in [All -> [Slots -> 0 .. Len(heap_tables)]] /\ Len(heap_tables) \in Nat
    BY <1>1, <1>3 DEF TypeOK
  <2>2. CASE table # 0
    <3>1. heap_tables' = [heap_tables EXCEPT ![table] = @ \union {page}] /\ kdir' = kdir
      BY <1>4, <2>2
    <3>2. heap_tables' \in Seq(SUBSET (1 .. MaxHeap)) /\ Len(heap_tables') = Len(heap_tables)
      <4>1. heap_tables \in [1 .. Len(heap_tables) -> SUBSET (1 .. MaxHeap)]
        BY <2>1
      <4>2. heap_tables' \in [1 .. Len(heap_tables) -> SUBSET (1 .. MaxHeap)]
        BY <2>1, <3>1, <4>1
      <4> QED
        BY <2>1, <4>2
    <3> QED
      BY <2>1, <3>1, <3>2
  <2>3. CASE table = 0
    <3>1. /\ heap_tables' = Append(heap_tables, {page})
          /\ kdir' = [kdir EXCEPT ![cr3] = [kdir[cr3] EXCEPT ![Slot(page)] = Len(heap_tables) + 1]]
      BY <1>4, <2>3
    <3>2. heap_tables' \in Seq(SUBSET (1 .. MaxHeap)) /\ Len(heap_tables') = Len(heap_tables) + 1
      BY <2>1, <3>1
    <3>3. [kdir[cr3] EXCEPT ![Slot(page)] = Len(heap_tables) + 1] \in [Slots -> 0 .. Len(heap_tables) + 1]
      <4> DEFINE L == Len(heap_tables)
                 d == kdir[cr3]
                 z == Slot(page)
      <4>1. d \in [Slots -> 0 .. L] /\ L \in Nat
        BY <1>3, <2>1
      <4> HIDE DEF L, d, z
      <4>2. [d EXCEPT ![z] = L + 1] \in [Slots -> 0 .. L + 1]
        <5> DEFINE T == 0 .. L + 1
        <5>1. L + 1 \in T /\ \A i \in Slots : d[i] \in T
          BY ONLY <4>1
        <5> HIDE DEF T
        <5>2. DOMAIN d = Slots /\ d = [i \in Slots |-> d[i]]
          BY ONLY <4>1
        <5>3. [d EXCEPT ![z] = L + 1] = [i \in Slots |-> IF i = z THEN L + 1 ELSE d[i]]
          BY ONLY <5>2
        <5>4. [i \in Slots |-> IF i = z THEN L + 1 ELSE d[i]] \in [Slots -> T]
          BY ONLY <5>1
        <5> QED
          BY <5>3, <5>4 DEF T
      <4> QED
        BY <4>2 DEF L, d, z
    <3>4. \A p \in All : kdir[p] \in [Slots -> 0 .. Len(heap_tables) + 1]
      BY <2>1
    <3> QED
      BY <1>3, <2>1, <3>1, <3>2, <3>3, <3>4
  <2> QED
    BY <2>2, <2>3
<1>6. TypeOK'
  BY ONLY <1>1, <1>2, <1>3, <1>5 DEF TypeOK, Contents
<1>7. BootOrder'
  BY ONLY <1>1 DEF BootOrder
<1>8. KernelTicks' /\ OnlyTimerUnacknowledged' /\ OwnContext'
  BY <1>1 DEF MachineInv, KernelTicks, OnlyTimerUnacknowledged, OwnContext
<1>9. TableShared'
  <2>2. kdir[cr3][1] = 1
    <3>1. cr3 = current \/ cr3 = Kernel
      <4>1. boot \in 1 .. 12 /\ (current = None => boot <= 9) /\ (boot <= 11 => cr3 = Kernel)
        BY <1>1 DEF BootOrder, TypeOK
      <4>2. current # None => cr3 = current
        BY DEF MachineInv, OwnContext
      <4> QED
        BY <4>1, <4>2
    <3>2. cr3 # None /\ TableShared
      BY <1>3, Constants DEF MachineInv
    <3> QED
      BY <3>1, <3>2 DEF TableShared, Living
  <2>3. Len(heap_tables) \in Nat /\ Len(heap_tables) >= 1 /\ TableShared /\ heap_tables \in Seq(SUBSET (1 .. MaxHeap))
    BY <1>1 DEF MachineInv, TableShared, TypeOK
  <2>4. Living' = Living /\ \A q \in Living : q \in All
    BY <1>1, Constants DEF Living, None, TypeOK, All
  <2>5. \A i \in 1 .. heap_end' : i \in 1 .. heap_end \/ i = page
    BY <1>1, <1>3 DEF page
  <2>6. Len(heap_tables') >= 1 /\ heap_tables[1] \subseteq heap_tables'[1]
    <3>1. CASE heap_tables' = [heap_tables EXCEPT ![table] = @ \union {page}]
      <4> DEFINE L == Len(heap_tables)
      <4>1. heap_tables \in [1 .. L -> SUBSET (1 .. MaxHeap)] /\ 1 \in 1 .. L /\ L \in Nat
        BY <2>3
      <4> HIDE DEF L
      <4>2. DOMAIN heap_tables' = 1 .. L /\ heap_tables[1] \subseteq heap_tables'[1]
        BY ONLY <3>1, <4>1
      <4>3. Len(heap_tables') = Len(heap_tables)
        <5>1. heap_tables' \in Seq(SUBSET (1 .. MaxHeap))
          BY <1>5
        <5> QED
          BY ONLY <2>3, <4>1, <4>2, <5>1 DEF L
      <4> QED
        BY <2>3, <4>2, <4>3
    <3>2. CASE heap_tables' = Append(heap_tables, {page})
      <4>1. Len(heap_tables') = Len(heap_tables) + 1 /\ heap_tables'[1] = heap_tables[1]
        BY ONLY <2>3, <3>2
      <4> QED
        BY <2>3, <4>1
    <3> QED
      BY <1>4, <3>1, <3>2
  <2>7. Slot(page) = 1 => page \in heap_tables'[1]
    <3> SUFFICES ASSUME Slot(page) = 1 PROVE page \in heap_tables'[1]
      OBVIOUS
    <3>1. table = 1
      BY <2>2 DEF table
    <3>2. heap_tables' = [heap_tables EXCEPT ![1] = @ \union {page}]
      BY <1>4, <3>1
    <3> QED
      BY ONLY <2>3, <3>2
  <2>8. \A q \in All : kdir'[q][1] = kdir[q][1]
    <3>1. CASE kdir' = kdir
      BY <3>1
    <3>2. CASE table = 0 /\ kdir' = [kdir EXCEPT ![cr3] = [kdir[cr3] EXCEPT ![Slot(page)] = Len(heap_tables) + 1]]
      <4>1. Slot(page) # 1
        BY <2>2, <3>2 DEF table
      <4>2. kdir \in [All -> [Slots -> 0 .. Len(heap_tables)]] /\ cr3 \in All /\ 1 \in Slots
        BY <1>1, FirstSlot DEF TypeOK
      <4>3. [kdir[cr3] EXCEPT ![Slot(page)] = Len(heap_tables) + 1][1] = kdir[cr3][1]
        BY ONLY <4>1, <4>2
      <4> QED
        BY ONLY <3>2, <4>2, <4>3
    <3> QED
      BY <1>4, <3>1, <3>2
  <2> QED
    BY ONLY <2>3, <2>4, <2>5, <2>6, <2>7, <2>8 DEF TableShared
<1>10. LostOnlyInInstall'
  <2>1. ~lost
    BY DEF increase_heap
  <2> QED
    BY <1>2, <2>1, NotLost
<1> QED
  BY <1>6, <1>7, <1>8, <1>9, <1>10 DEF MachineInv

-----------------------------------------------------------------------------
(* The theorems.                                                           *)

LEMMA MachineStutter ==
    ASSUME MachineInv, UNCHANGED vars
    PROVE  MachineInv'
<1>1. /\ UNCHANGED <<boot, IF_flag, idt, interrupt_handlers, routines, kbd_listeners, in_service, lost>>
      /\ UNCHANGED <<procs, heap>>
      /\ UNCHANGED <<current, ready, asleep, int_no, fpu, fpu_regs, own, esp0, cr3, kdir, heap_tables, heap_end>>
  BY DEF vars, cpu, procs, heap
<1>2. Rest' /\ LostOnlyInInstall'
  BY <1>1, RestKept DEF MachineInv, Rest, LostOnlyInInstall
<1>3. IF_flag' \in BOOLEAN /\ lost' \in BOOLEAN
  BY <1>1, Flags DEF MachineInv
<1>4. TypeOK' /\ BootOrder'
  BY <1>1, <1>3 DEF MachineInv, TypeOK, BootOrder, Contents
<1> QED
  BY <1>2, <1>4 DEF MachineInv, Rest

LEMMA MachineStep ==
    ASSUME MachineInv, [Next]_vars
    PROVE  MachineInv'
<1>1. CASE idt_initialise
  BY <1>1, IdtInitialise
<1>2. CASE init_paging \/ pit_install \/ kbd_install \/ initialise_syscalls
  BY <1>2, InstallSteps
<1>3. CASE pit_list \/ kbd_list \/ initialise_gtty
  BY <1>3, ListSteps
<1>4. CASE initialise_scheduler
  BY <1>4, SchedulerStep
<1>5. CASE initialise_fpu
  BY <1>5, FpuStep
<1>6. ASSUME NEW v \in Vectors, device_interrupt(v) PROVE MachineInv'
  BY <1>6, DeviceInterrupt
<1>7. ASSUME NEW x \in Values, compute(x) PROVE MachineInv'
  BY <1>7, ComputeStep
<1>8. ASSUME NEW p \in Procs, kmain_spawn(p) \/ syscall_spawn(p) \/ syscall_fork(p) PROVE MachineInv'
  BY <1>8, Births
<1>9. ASSUME NEW p \in Procs, made_ready(p) PROVE MachineInv'
  BY <1>9, WakeStep
<1>10. ASSUME NEW new \in All, timer_interrupt(new) PROVE MachineInv'
  BY <1>10, TimerInterrupt
<1>11. ASSUME NEW new \in All, page_fault_handler(new) PROVE MachineInv'
  BY <1>11, TrapSwitch
<1>12. ASSUME NEW new \in All, NEW then \in {"ready", "asleep", "dead"}, syscall_switch(new, then)
       PROVE  MachineInv'
  BY <1>12, TrapSwitch
<1>13. CASE increase_heap
  BY <1>13, HeapStep
<1>14. CASE UNCHANGED vars
  BY <1>14, MachineStutter
<1> QED
  BY <1>1, <1>2, <1>3, <1>4, <1>5, <1>6, <1>7, <1>8, <1>9, <1>10, <1>11, <1>12, <1>13, <1>14 DEF Next

\* MachineInv holds in every state, for any processes, vectors and sizes.
THEOREM MachineInvariant == Spec => []MachineInv
<1>1. Init => MachineInv
  BY InitInv
<1>2. MachineInv /\ [Next]_vars => MachineInv'
  BY MachineStep
<1> QED
  BY <1>1, <1>2, PTL DEF Spec

\* Every device interrupt is acknowledged when its handler returns; only a tick stays in
\* service, and only while a process runs that was saved in a trap (isr_handler, clear_irq).
THEOREM Acknowledgement == Spec => []OnlyTimerUnacknowledged
<1>1. MachineInv => OnlyTimerUnacknowledged
  BY DEF MachineInv
<1> QED
  BY <1>1, MachineInvariant, PTL

\* A process runs on its directory and kernel stack and finds its floating point registers,
\* whatever sequence of ticks, traps, spawns, forks and sleeps went before
\* (sched_preempt_handler, fpu_save, fpu_reload).
THEOREM ContextKept == Spec => []OwnContext
<1>1. MachineInv => OwnContext
  BY DEF MachineInv
<1> QED
  BY <1>1, MachineInvariant, PTL

\* Whenever a device interrupts, it finds a gate, its handler the list it walks and the
\* scheduler a current process, except between the installation of the handlers of timer
\* and keyboard and the creation of their lists (initialise_pit, initialise_keyboard).
THEOREM InterruptsFindTheirWay == Spec => []LostOnlyInInstall
<1>1. MachineInv => LostOnlyInInstall
  BY DEF MachineInv
<1> QED
  BY <1>1, MachineInvariant, PTL

\* The part of the kernel heap in the page table the boot made is mapped in the directory of
\* every process, however many are made before or after it grows, and whatever tables the
\* heap needs beyond it (increase_heap, map_kernel_tables, clone_page_structures).
THEOREM KernelHeapShared == Spec => []BootHeapMapped
<1>1. MachineInv => BootHeapMapped
  <2> SUFFICES ASSUME MachineInv, NEW p \in Living, NEW page \in 1 .. heap_end, Slot(page) = 1
               PROVE  Maps(p, page)
    BY DEF BootHeapMapped
  <2>1. kdir[p][1] = 1 /\ page \in heap_tables[1]
    BY DEF MachineInv, TableShared
  <2> QED
    BY <2>1 DEF Maps
<1> QED
  BY <1>1, MachineInvariant, PTL
=============================================================================
