# A TLA+ model of DBOS

DBOS is a small i386 operating system in C: a monolithic kernel with paging,
a preemptive scheduler, a virtual file system and a terminal, a C library and
a few programs.  This directory holds a model of it in TLA+.  Its stateful parts
are state machines: processes and their scheduling, the heap allocators, address
spaces with copy-on-write, the terminal, the file systems, and the processor as
the kernel programs it.  Its functions (strings, formatting, the loader, the
search for hardware, what programs compute) are operators compared with
reference definitions.  TLC checks the model on small instances; TLAPS proves
the safety properties of the scheduler, the heap, paging, the terminal, the file
systems and the processor for every size, and of three of the stateless parts:
lists and queues, the memory kept at boot, and the loading of programs.

Paths below are relative to `src/`.

## The system

| Component | State | Operations | Interacts with |
|---|---|---|---|
| Scheduler (`kernel/process/scheduler.c`) | ready queue, dead queue, napping list, current process | switch, timekeeper, make ready/dead/napping, wait, wake up, purge | called by the timer, by system calls and by the page fault handler; destroys processes |
| Processes (`kernel/process/process.c`) | `proc_t`: state, pid, parent, waiters, open nodes, page directory, heap and stack; process tree | create, clone, destroy, find, number for `ps` | paging, scheduler, kernel heap |
| System calls (`kernel/process/syscall.c`) | none of its own | exit, fork, execve, spawn, wait, wakeup, sleep, kill, sbrk, open, close, read, write, ioctl, ps, list | everything |
| Interrupt dispatch (`kernel/interrupts/isr.c`, `idt.c`) | descriptor table, handler table, the controllers' in-service bits | install, dispatch, acknowledge | timer, keyboard, system calls, faults |
| Timer (`kernel/interrupts/pit.c`) | list of routines, tick counter | tick, install, uninstall, change interval | scheduler, terminal cursor |
| Floating point unit (`kernel/fpu`) | the registers, a copy per process | initialise, save, reload | scheduler, processes |
| Queue, linked list, tree (`kernel/util`, `libraries/liblist.c`) | linked nodes | enqueue, dequeue, append, remove, search | used by all of the kernel |
| Kernel heap, user heap (`kernel/memory/memory_heap.c`, `libraries/alloc.c`) | list of block headers, end of the heap | malloc, free, grow | physical memory, `sbrk` |
| Physical memory (`kernel/memory/memory_phys.c`) | reference count of each frame | reserve, allocate, free, increase, decrease | paging, loader, heap |
| Paging (`kernel/memory/memory_paging.c`) | page directories and tables | map, clone, remove, destroy, copy-on-write fault | physical memory, processes |
| Loader (`kernel/process/loader.c`, `elf.c`, `libraries/bootstrap.c`) | none of its own | spawn, exec, start of `main` | file system, paging, processes |
| Boot (`kernel/kernel.c`, `kernel/mboot`, `memory_manager.c`) | runs once, with interrupts enabled early | initialise everything, spawn `/init` | everything |
| Terminal, keyboard (`drivers/devices/gtty`, `keyboard.c`) | modifier flags; input buffer with size, index and flag; cursor, screen | key interrupt, read, write, ioctl, cursor blink | timer, shell, programs |
| File system (`kernel/vfs`, `drivers/devfs`, `drivers/tarfs`, `initrd`) | mount tree, devices, open nodes of a process | mount, find, open, close, read, list | loader, file system calls, `FILE` |
| Displays, serial line (`drivers/devices/vga.c`, `vesa.c`, `serial.c`) | screen, colours, mode | read, write, control | terminal, kernel log |
| PCI, IDE (`drivers/devices/pci.c`, `storage/ide.c`) | list of devices | scan, find | VESA |
| Kernel text, C library (`kernel/util`, `libraries`) | none (`strtok` keeps a pointer) | strings, formatting, parsing, files, bitmaps, mathematics | everything |
| Programs (`userland`) | their own memory | init, shell, ls, ps, calc, bmpview | C library |

What makes this code hard: every handler runs with interrupts off on one CPU,
so a handler is atomic, but what it does depends on *which* process it happens
to interrupt.  A process is referred to by pointers in six places (two queues,
two kinds of lists, the tree, `current_process`), and only some of them are
updated when it dies.  Frames are shared by processes that fault, fork, exec
and exit in any order.  A reader of the terminal asks for input in one system
call and takes it in another, and keys, timer and the other process come in
between.  Interrupts are enabled while `kmain` is still setting up what they
use.  An archive is searched by parts of names, ids of files are positions in a
list.  The heap's errors show long after they were made.  `PROJECT.json` lists
these hazards, each at its line, with the properties that are about it.

## Modules

| Module | What it is |
|---|---|
| `Queues` | the bounded queue and order-preserving removal, on sequences |
| `Scheduler` | scheduler, process tree, process-control calls, acknowledgement of IRQ0 |
| `Heap` | the first-fit allocator of the kernel and of the C library |
| `PrivateMemory` | what paging promises: a memory of its own for each process |
| `Paging` | frames, page tables, copy-on-write, and the operations on address spaces; implements `PrivateMemory` |
| `Terminal` | keyboard, input buffer, echo, cursor and scrolling on both displays, with the shell and a program in front of it |
| `Tarfs` | operators: the scan of an archive and what it finds |
| `Files` | boot of the file systems, mount tree, devfs, open nodes, `FILE`, on top of `Tarfs` |
| `Machine` | descriptor table, interrupt controllers, timer routines, FPU, and what a context switch loads; boot with interrupts |
| `AbstractList` | what list and queue promise: a sequence |
| `Lists` | list and queue with nodes and pointers; implements `AbstractList` |
| `Text` | operators: strings, formatted output and input, kernel parameters |
| `Doubles`, `Calc` | operators: libm on the bits of a double; the calculator |
| `Calls` | one caller that calls functions without state one after the other |
| `PhysicalMemory` | operators: frames and their indices, the frames reserved at boot |
| `Elf` | operators: program headers and the bytes they load |
| `Loader` | operators: the page of arguments, the start of `main` |
| `Devices` | operators: PCI scan, choice of the display |
| `Programs` | operators: init, the shell's command line, ps, bmpview, the VGA device |
| `Library` | composes `Lists`, `Calls` and the modules of operators above: one caller works on a list or calls one function after the other |
| `MCScheduler`, `MCHeap`, `MCPaging`, `MCTerminal`, `MCFiles`, `MCMachine`, `MCLibrary` | instances for TLC |
| `QueuesProof` | lemmas about `Queues`; least elements, induction over a set of naturals, division |
| `SchedulerProof` | the type invariant and the inductive invariant of `Scheduler`, and the order of the ready queue |
| `HeapProof` | the inductive invariant of `Heap` |
| `PagingProof` | the inductive invariant of `Paging`, and that it implements `PrivateMemory` |
| `MachineProof` | the inductive invariant of `Machine` |
| `TerminalProof` | the inductive invariants of `Terminal` |
| `FilesProof` | the inductive invariants of `Files`: boot, open files, lookups in an archive, listings |
| `LibraryProof` | that `Lists` implements `AbstractList`; the frames reserved at boot; the image of a program |

Definitions keep the names of the functions they model.  A definition marked
"Mutant" in its comment is the definition below it with a plausible mistake; no
specification uses it.

### Scheduler

One action per handler.  `Tick` is the timer interrupt: `sched_preempt_handler`
(save, requeue a LIVING process, take the next ready one, take one dead process
and destroy it if the *kernel* process is being switched away from), then
`sched_timekeeper` (count down the sleepers, make the expired ones ready), then
`clear_irq`.  `TickReap` is the tick in which a process is destroyed
(`proc_destroy`: its waiters become ready, its children go to its parent),
`TickPlain` the other one.  The system calls are `sysc_exit`, `sysc_fork`,
`sysc_spawn`, `sysc_execve` (and `sysc_execve_fail`, for a missing binary),
`sysc_wait`, `sysc_sleep`, `sysc_wakeup`, `sysc_kill`; `page_fault_kill` is the
fault that ends a process.  `sysc_wait` and `sysc_sleep` switch first and block
the caller afterwards, as the code does.  A call that fails without changing
anything (a spawn of a missing binary, a kill of an unknown pid) is a stuttering
step.  `proc_find` follows only the first child of each node, as
`proc_find_recur` does.

A process is its pid; the code never reuses one.  Where the code would follow a
NULL or a freed `proc_t` the behaviour is undefined: `Crash` sets `crashed` and
the model stops.  `int_no` is the interrupt number in the saved registers and
`in_service` the state of the interrupt controller: no tick is delivered while
an earlier one is not acknowledged.

The scheduler does not keep its books under all calls.  `Disciplined` states
when it does: nobody waits for or kills pid 1, only ready processes are killed,
and the ready queue has room for every process.

### Heap

`malloc_first`, `malloc_reuse` (with or without splitting) and `malloc_append`
are the three ways through `kern_malloc` and `alloc_allocate`, `kern_free` the
way back.  A header is its address; the list of headers is the function `items`.
`held` remembers what callers asked for.  `Header`, `Page`, the sizes and the
addresses are parameters.  The first request of all is one of `FirstSizes` (the
kernel's is the copy of the boot parameters, a program's the array of its
argument pointers); later ones are any of `Sizes`, larger than a page or not.
Sizes are below 2^31.

### Paging

A frame is an index of the allocation map, with its reference count modulo
`RefLimit` (2^8).  A process has a page directory, three page tables (code,
stack, heap) and page table entries (present, writable, frame).  `loader_spawn`,
`loader_exec`, `proc_clone` with `clone_page_structures`,
`page_fault_handler` (`cow_copy`, `cow_own`), `sysc_sbrk` (one page at a time),
`sysc_read` (the kernel writes to a buffer of its caller), and `proc_destroy`
with `nuke_page_directory` take and give frames in the order of the code.
`store` is a store instruction of the program.  The contents of a page are one
of a few values.  A frame that is given out without being cleared (for a page of
`sbrk`, and for the heap page on which the loader puts the arguments) holds some
value of `Stale`.

A heap grows while there are at most `MaxGrow` processes, and programs write to
the pages of the tables in `Touched`: two bounds.

`Beyond` names what a run lets go beyond the limits of the machine: no frame is
left for a page (`frames`), a count wraps (`refcount`), the kernel writes to a
page that is mapped read-only (`readonly`).  Without `refcount`, a process is cloned
only when no count reaches `RefLimit` (`Countable`, where a frame that is still free
counts as 1: it may become a page table).  `Cloned` has the counts that
`clone_page_structures` goes through, table by table.  Frames for page directories and
tables are always available: a bound of the model.

`PrivateMemory` is the abstract specification: `memory[p][v]` changes only by
steps of `p`, a fork copies, a load replaces.  The refinement mapping reads
`memory[p][v]` through the page table of `p`.

### Terminal

`gtty` is the record of the variables of `gtty.c`: the place of the cursor, what
is shown, the input buffer with its index, size and flag, echo and display mode.
`parse_scancode` is the keyboard interrupt with the listener of the terminal
(store, echo, backspace, tab, Enter, modifier keys), `blink` the timer routine
that draws and removes the VESA cursor.  `Poll` is one ioctl of the loop in
`gets` (INPUT_READY, which also sets the size when none is set), `Read` the
`fread` after it, which `gtty_dev_read` refuses when flag or size do not agree.
The shell's loop (`shell_prompt` ... `shell_check`) and a program that writes,
clears, switches the mode or the echo, and calls `gets` with a size of its own
alternate through spawn and waitpid.  VGA counts in characters, VESA in pixels
with margins; both scroll.  Text is written character by character, a tab as four
spaces.  The input buffer has `BufferLen` places, as many as are allocated; a request
may ask for more, a tab may pass its end, and a store past it changes nothing that is
modelled (`Written`).  The screens have room for a character between their margins (and,
on VESA, below the bar the shell draws): `TerminalAssumption`.  `undisturbed` is a history variable: nothing but keys
has changed the screen since the request for input.

### Files

`boot` counts the steps of `kmain` that create the stub root, devfs, each device
and the archive's file system, in the order of the code.  `mounts` is the
mount tree as the list of mounted paths, `devices` the nodes of devfs.
`vfs_find_node` goes through the mount tree (the search that does not stop at the
match included) and then through the file system found there.  `Tarfs` scans
headers from the first on: sizes in octal, rounding to blocks, and the search for
the *last part* of a path as a substring of the names.  Processes spawn, exec,
fork, exit, `fopen`, `fclose` (in any order), `fread`, `fwrite`, `ioctl`, `fseek` and
list a directory as `ls` does, entry by entry; an id is a position in
`process->nodes`.  A read of a file or of the ramdisk returns what the code computes,
one of a display what its size leaves, one of the terminal any result it may have.
`own` is a history variable of a FILE: its id still stands for what was opened.
Seek indices stay
below half a word (`FilesAssumption`): from there on `read_node_tarfs` takes them for
negative.  `ReadsOnce` is about nodes whose size is a word, as the `uint32_t` in the
code is.  Calling a function pointer that a node does not have, which
`create_node_vfs`, `mount_tarfs`, `sysc_read`, `sysc_write` and `sysc_ioctl` do not
check, sets `crashed`; nothing happens after it.

What makes the archives is the tar program on the build host, which is not part of
the repository.  `Contents` has the lists of entries it may pack; `Layout` and
`Addresses` are where it puts the header and the blocks of each, one behind the
other.  `ContentsAssumption` states what it makes of `./` (the entry `./` comes first
and only once, a file comes with the directories it is in, names are not empty and
have no slash, sizes are octal digits and blanks), and `PathsAssumption` that paths are
sequences of names.

### Machine

`boot` is the next step of `kmain`.  `idt_initialise` fills the table with
ignoring gates and the gates of isr.c; `pit_install`/`pit_list`,
`kbd_install`/`kbd_list` are the two halves of the set-up of timer and keyboard,
with the handler installed before the list it walks exists.  `device_interrupt`
is any vector but the timer, `timer_interrupt`, `syscall_switch` and
`page_fault_handler` switch to any process that is ready (which one is
`Scheduler`'s business), with `fpu_save` and `fpu_reload`, the TSS and CR3 as
the code sets them for the kernel and for user processes.  `compute` changes the
floating point registers, `syscall_fork` copies what the parent saved last,
`increase_heap` maps a page of the kernel heap in the directory in use.  `own`
is a history variable: what a process last had in the registers.  An interrupt
without a gate, or a handler without its list, sets `lost`.

A device may interrupt between the two halves of its set-up; after an interrupt
that is lost nothing is claimed of the kernel, and the model stops.

### Library

`Lists` has a heap of nodes with their pointers and one action per operation of
`linked_list.c` (and `liblist.c`, the same code) and `queue.c`; the mapping to
`AbstractList` walks the nodes from the head.  The other functions have no
state.  `Call` picks one and an input from the set `Inputs[f]` (`Calls`), and each invariant
compares the results with a reference: the first occurrence by a quantifier, the
value of a line by its grammar, the byte of a segment by its address.

Where a function is right only for some inputs the invariant says for which it is,
and claims nothing of the others; where a comment of the code or a text it prints
promises more, that promise is a definition of its own, which does not hold (see
Runs).  A text or a table that is written outside its block sets `wild` in the result: the blocks of the calculator (`MaxTokens`, `MaxTokLen`) and of the
shell (`MaxName`, `MaxArgs`, `MaxWord`), the frames of a segment that is larger in
the file than in memory (`Strays`), the pointer that `strtok` keeps.

Not stated at all, because nothing says otherwise: `snprintf` ends at the first character
of even code, by a `&` for `&&` (`ReadBack` claims a beginning of the text); calc
loses zeros behind the point and the minus of a number above -1, and takes the empty
line for `exit`; bmpview tries `argv[0]` too; the Bochs display is set up only when its
version is known, and is used otherwise as it is.  `ldexp` puts its exponent in the wrong word; nothing calls
it, and it is not modelled.

## Runs

Passing runs:

| Run | Shows |
|---|---|
| `scheduler` | Five pids, all calls, `Disciplined`: `Placement` (each unfinished process is in exactly one place and its state says which), `WaitedForExists`, `NeverCrashed`, the inductive invariant, and `NoOvertaking` (the ready queue is first in, first out over every kind of step) |
| `scheduler_kill` | Four pids, queues smaller than the number of processes, wait for and kill of any pid in any state: the capacities and the process tree survive until a freed process is followed, where the model stops (so deadlock is not checked) |
| `round_robin` | `ReadyRuns`: every ready process gets the CPU, when no process blocks in a system call |
| `heap` | `Exclusive`, `NeverRefused` and the inductive invariant, with a page of 32 bytes, a header of 9, three sizes of which one is larger than a page, and up to three pages of growth: first, split, exact and oversized reuse, and growth at the boundary and by two pages at once all happen |
| `paging` | Three processes, all operations: `Counted` (no frame is used more often than it is counted), `SharedReadOnly`, and the refinement `PrivateSpec` |
| `terminal` | `CursorOnScreen`, `InputShown` (what the user sees is what will be read), `NoCursorLeftBehind`, `ReadSucceeds` (a read after a successful poll), and `GetsReturns` |
| `files` | `MountsFound` at every step of the boot, `Resolves` and `LsComplete` on archives with plain names, `ReadsOnce` (every byte once), `OnlyCallsCrash` (a NULL function is called only when a program has a directory or a file of the archive open) |
| `machine` | `LostOnlyInInstall` (every interrupt finds its way, but for two moments of the boot), `OnlyTimerUnacknowledged` (exactly when a tick stays in service), `OwnContext` (directory, stack and floating point registers), `BootHeapMapped` (the table made at boot is everybody's), with a heap that grows to a second table |
| `library` | `SequenceSpec`, and the functions against their references: `Searches`, `ReadBack`, `CalcMeaning`, `ImageLoaded`, `MainGetsArguments`, `DisplayFound`, `KernelReserved`, `CommandSplit`, `PsListed`, `ImageUpright`, `CellsShown` |

In the paging run the supply of pids is bounded (`MaxPid`), and in the files and the
machine run the model stops at a crash and at a lost interrupt: deadlock is not checked
in these.

Runs that show a disagreement between the code and what it says of itself:

| Run | Property that fails | Why |
|---|---|---|
| `preemption_stops` | `ReadyRuns` | `isr_handler` passes `clear_irq` the registers of the process it returns to; if that one was saved in a system call no acknowledgement is sent, and no further tick comes |
| `wait_hangs` | `WaitReturns` | a dead process dequeued in a switch away from a user process is dropped: never destroyed, its waiters never woken |
| `kernel_write` | `PrivateSpec` | the kernel writes to user pages with CR0.WP clear, so copy-on-write is bypassed |

Thirteen more statements of the repository do not hold.  They are defined in the modules,
each with the text it states and with a comment that it fails, and no run claims them;
TLC refutes each one as an `INVARIANT` in the configuration given, in place of its own:

| Statement | Configuration | What says so | Why it fails |
|---|---|---|---|
| `Machine!NeverLost` | `MCMachine` | `pit.c:38`, "handler for all timer interrupts" | a tick between the installation of the timer's handler and the creation of its list follows NULL (`pit.c:27`); the keyboard has the same gap |
| `Machine!HeapMapped` | `MCMachine` | `memory_paging.c:102`, "maps in kernel page tables onto the provided page directory" | `increase_heap` enters a new page table in the directory in use only (`memory_heap.c:138`) |
| `Terminal!ReadWithinSize` | `MCTerminal` | `gtty.c:318`, "for size bytes into buffer" | a tab advances the input index by four, and a read copies up to the index: three bytes more than were asked for |
| `Files!FileStable` | `MCFiles` | `syscall.c:214-215`, "from the node with id provided as node_id" | an id is a position in the list of open nodes, and a close moves those behind it |
| `Files!NeverCrashed` | `MCFiles` | `syscall.c:240`, "handled by devfs and device driver responsible" | read, write and ioctl call what the node's driver does not have, such as `node_control` of a file of the archive |
| `Library!ComparesLength` | `MCLibrary` | `libc/string.c:112`, "0 if equal and -1 or 1 if not" | `strncmp` of the C library returns 0 when one string ends |
| `Library!AtoiReads` | `MCLibrary` | `stdlib.c:29`, "integer representation of the number" | `atoi` of the C library returns -1 for every negative number |
| `Library!FloatsWritten` | `MCLibrary` | `stdio.c:74`, "writes formatted list of arguments to string" | `sputfpoint` counts the characters behind the end of the text, and `sprintf` goes on in the middle of it |
| `Library!AnyExpression` | `MCLibrary` | `calc.c:109`, "Type in any expression" | each level of the calculator's grammar takes one operator, so that `2^3^2` is refused |
| `Library!PresentFound` | `MCLibrary` | `pci.c:36`, "loop over all functions of first device" | the scan stops at the first function of the host bridge that exists |
| `Library!EnoughSpace` | `MCLibrary` | `shell.c:174`, "allocate enough space for the executable name" | five arguments, or a long word, need more than the blocks of 20, 50 and 100 bytes (the configuration has smaller ones) |
| `Library!AllListed` | `MCLibrary` | `ps.c:118`, "LIST OF CURRENTLY RUNNING PROCESSES" | processes below an elder sibling are not counted in the number of a younger one, and one of two with the same number is hidden |
| `Library!ImageCentred` | `MCLibrary` | `bmpview.c:117`, "to center the image on the display" | odd margins shift each row by one, and the bytes that fill up a row of the file are taken for pixels |

Other limits of the code that the model shows and that have no run of their own:

* processes: one that kills itself is destroyed twice; one killed while it sleeps
  or waits is made ready again; a kill of pid 1 leaves the scheduler without a
  process to run; a wait for pid 1 never ends; one made ready while the queue is
  full is lost; `proc_find` misses every process that is not on the path of first
  children.  `Disciplined` excludes these.
* memory: the first block of a heap is not compared with `heap.end`
  (`FirstFitsPage`, about `FirstSizes`, excludes it); each fork counts stack frames twice and nobody
  takes the second count back, so that after enough forks the `uint8_t` wraps and
  a mapped frame is free; without a free frame the fault handler maps frame 0
  (`Beyond` admits both).
* files: archives in which one name is part of another, or used twice, are
  searched wrongly (`Plain` excludes them); the close of an id that is not open
  follows an uninitialized pointer, and is not in the model.
* start-up: ELF segments that share a page, or are larger in the file than in memory
  (`Apart`, `InMemory`); arguments that leave no room for the first block on their
  page; a command line without a parameter, whose first token is NULL.

### Bounds

`MaxPid` bounds the processes ever created.  Five pids (the kernel, init and
three more) are the fewest in which a grandchild survives its parent while a
sibling waits and another is destroyed; queue capacities are set to the number
of processes, or below it where the full queue is the subject.  Sleeps last two
ticks, so that an entry is counted down before it expires.  Three pages of
growth of the heap and three sizes reach every branch of the allocator.

Paging: three processes, each with a code and a stack page and a heap of up to
two, and 16 frames: enough for a program, two forks of it, and a copy of a page
that all three share, so that the copy and the fault of the last owner happen in
any order with exec, exit and destruction.  Heaps grow while there is one process
(`MaxGrow`) and are cloned afterwards.  A frame that is not cleared holds one value
(`Stale`); the proofs have any set of them.  `RefLimit` is 8 in that run, above what it
counts to; `kernel_write` has the real 256.

Terminal: a VGA screen of two by two characters and a VESA text area of the same
size with its margins; the shell reads lines of 2 and the program of 1 or 3, in a
buffer of 2, so a tab passes the end of either, a request that of the buffer, a line
wraps, and two lines scroll.  Files: three
archives (two with plain names, directories in one and two levels, an empty file
and a link; one in which a name is part of another), two processes with at most three
nodes open in one of them (`MaxOpen`) and in all (`MaxNodes`), their terminals included,
so that one has two files to close in either order; sizes that end within and at the end
of a request.  Machine: a vector of
each class (faults with and without error code, timer, keyboard, the master's and
slave's unused lines, system call, unused gate), three processes and the kernel,
two values for registers, and a heap of four pages with two in a table.  Library: lists of up to four nodes with two data and
queues of limits 1, 2 and none; all strings over two to four characters up to a
length of three to seven; doubles with 4 bits of exponent and a mantissa of 2 + 3
bits, so that every exponent is tried; two buses with two devices; pages of 16
bytes; blocks of 5, 3 and 4 places for names, lists and words of a command and room
for a few tokens, so that lines that fit and lines that do not are among the inputs.

Symmetry is used for processes, data and values of which one is as good as
another, and never with a liveness property.

### Fairness

`TimerSpec` says that a tick which stays deliverable is delivered: the timer is
hardware and keeps raising IRQ0.  `FiniteProgramsSpec` adds that a program that
keeps the CPU reaches its exit.  `Terminal!Spec` says that a process that polls
or is about to read does so, which is what `ReadyRuns` gives it while ticks come
(`preemption_stops` shows when they do not), and that the user presses Enter
again and again.  No other fairness is assumed; in particular no process is
assumed to make any call, and in `Terminal` no program to end.

### Refinements

`Paging` implements `PrivateMemory` with `memory[p][v]` read through the page
table of `p`: copy-on-write is invisible.  `Lists` implements `AbstractList` with
the items read by walking the nodes of the list: pointers, special cases for the
first and last node, and the length kept beside them amount to a sequence.  Both
are checked by TLC and proved.

## Proofs

All proofs hold for every value of the constants that satisfies the assumptions
of the module.  A theorem that needs more says so in its ASSUME:

| Hypothesis | Theorems | What it excludes |
|---|---|---|
| `Disciplined` | those of `SchedulerProof`, except `TypeCorrect` | kill and wait as the scheduler cannot survive them, ready queue too small |
| `FirstFitsPage` | those of `HeapProof` | a first request of all that does not fit the first page; it says nothing of later ones |
| `WithinLimits` | `PagingInvariant`, `FramesCounted`, `SharedFramesReadOnly` | no frame left for a page, a count that wraps |
| `Beyond = {}` | `PrivateMemoryImplemented` | that, and kernel writes to read-only pages |

Each hypothesis holds in a run, and each excludes something that the code does
wrong (see Runs).  The theorems of `MachineProof`, `TerminalProof`, `FilesProof` and
`LibraryProof` have none.

* `SchedulerProof!TypeCorrect`: `Spec => []TypeOK`, without any discipline.
* `SchedulerProof!SchedulerInvariant`, and from it `PlacementHolds`, `CrashFree`,
  `TreeHolds` and `WaitersAreFound`: `SchedulerInv` is inductive.  `Placement`
  alone is not: that a switch finds a process needs `KernelStays`; that
  destroying a process does not follow a freed one needs `DeadAwaitDestruction`
  (it is queued once, and is in no other place) and `TreeMatchesParents`; that
  the pid of a new process is unused needs `PidsInOrder`; that its waiters are
  napping needs `WaitedForExists` with `Placement`.  There is one lemma per
  action, and lemmas about what enqueue, dequeue and removal do to the set of
  elements and to their order (`QueuesProof`; `Keep` is a recursive function
  and its properties are proved by least elements instead of induction).
* `SchedulerProof!RoundRobin`: the action property `NoOvertaking`.  `InOrder` is shown
  for each piece (dequeue, enqueue of one that is not in the queue, the timekeeper,
  the waking of waiters) and composed along the handlers; that a process that is
  queued is not in the queue already is `Placement`.
* `HeapProof!HeapInvariant`, and from it `HeapExclusive` and `HeapNeverRefuses`:
  the headers tile the heap, blocks in use are exactly the ones callers hold and
  are at least as large as was asked for, and all lie below `end`.  `Exclusive`
  needs the tiling and the link between `held` and `present`; `NeverRefused` needs
  that the last block ends below `end`, and arithmetic on whole pages.
* `PagingProof!PagingInvariant`, and from it `FramesCounted` and
  `SharedFramesReadOnly`.  `Counted` is not inductive: a fault may copy into a frame
  that is a page table unless `StructuresApart` (the frames of directories and tables
  are counted, distinct, and mapped by nobody); the release of an address space
  leaves the counts of others right because a frame is mapped at most as often as
  it is counted (`MappingsCounted`), which is a fact about cardinalities of sets of
  mappings before and after, and which also makes the owner alone whose frame is counted
  once (`cow_own`); a page that the heap gains was not there before because of
  `PagesBounded`.  The lemmas are about what allocating, sharing and releasing do to
  the counts and to the set of free frames.
* `PagingProof!PrivateMemoryImplemented`: the refinement.  Every action maps to an
  action of `PrivateMemory` or to a stutter; a copied page has the contents of the one
  it was copied from, and no other process maps the frame that a store changes, by
  `PagingInv`.
* `MachineProof!MachineInvariant`, and from it `Acknowledgement`, `ContextKept`,
  `InterruptsFindTheirWay` and `KernelHeapShared`.  `BootOrder` relates the step of
  `kmain` to what is set up: that a gate is present whenever interrupts are enabled,
  that a list exists when its handler is installed, except at the two steps in between
  (which is `LostOnlyInInstall`), and that nobody but the kernel runs before the
  scheduler.  `KernelTicks` is what makes
  `OnlyTimerUnacknowledged` inductive: a switch to the kernel is acknowledged because
  only ticks leave it.  `TableShared` says that all directories have the table made at boot in common, whichever
  tables are made later.
* `TerminalProof!TerminalInvariant`, and from it `CursorStaysOnScreen`,
  `CursorErased` and `ReadsSucceed`.  A read succeeds because there is one reader at a
  time and the request in the terminal is its own (`OneReader`); on VESA the cursor
  stays on the screen because columns are multiples of a character (`Aligned`).
* `TerminalProof!InputIsShown`, from `TerminalInv` and `InputInv`: behind the index the
  buffer is empty, a request starts with an empty line, and an undisturbed line is
  echoed in text mode.  The lemmas follow the last typed characters through a
  character, a wrap, a scroll, a backspace and the four spaces of a tab.
* `FilesProof!BytesReadOnce`, from `FilesInv` (in that module): a FILE whose id still
  stands for what was opened has brought what lies between where its reads began and its
  index, whatever other files were closed.  The arithmetic of
  `read_node_tarfs` modulo a word is exact because indices are below half a word.  What
  a lookup finds does not matter to these proofs.
* `FilesProof!DevicesFound` and `BootNeverCrashes`, from `BootInv`: how many steps of
  `kmain` are done says what is mounted (nothing, the stub root, the root and `/dev`, at
  last the archive as root) and which devices there are; so every driver finds devfs, the
  mount the ramdisk, and only a call of a program on what it opened is left to crash.
* `FilesProof!PathsResolve`: `vfs_find_node` finds the entry with a path, in every
  archive with plain names.  The scan visits each header once and no other place,
  because `NextHeader` (sizes from octal digits, rounding up, the skipped block)
  agrees with the layout of tar; for plain names the substring search of
  `check_parse_filename` is exact, so that the entry found at each level is the one
  whose last name was asked for; and the levels of the path are an induction.
* `FilesProof!ListingsComplete`: `ls` is complete.  The entry `./` of the archive passes
  for an entry of every directory and is visited first, so that what
  `read_directory_tarfs` counts is one more than the entries (`KeepFirst`); what
  a FILE has seen is always a beginning of the listing, one entry further with each call
  (`SeenInv`), as long as the id of the FILE still is the directory.
* `LibraryProof!SequencesImplemented`: `Lists` implements `AbstractList`.  A structure is
  described by the sequence `w` of its nodes (`Whole`): head and tail are its ends,
  next and previous lead from each position to its neighbours, and no other node is
  allocated.  Two lemmas say that changing the pointers around one position puts a node
  into `w` or cuts one out; each function is then shown to change exactly those, in
  each of its special cases.  The loop of `queue_force_remove`, which frees nodes of the
  queue it walks, has the invariant `Turn`: the data kept so far, followed by the nodes
  not yet looked at.
* `LibraryProof!KernelFramesReserved`: the frame with an index is a page of the machine's
  memory, and `alloc_phys_addr_to_index` finds its index again although there is a hole
  between lower and upper memory; every page below the end of the table of counts is
  visited by one of the two loops that reserve.  `MemoryAssumption` says that lower
  memory ends at or below the hole, and the hole on a page.
* `LibraryProof!ImageIsLoaded`: after each program header the pages hold the segments so
  far and nothing else (`Image`); a later segment does not replace a page of an earlier
  one because they share none; the byte of an address is in the frame and at the
  place that division gives, also on the last, partly filled page; and a segment that is
  no larger in the file than in memory has a frame for each page that is read.

`Spec` of `Library` takes steps of `Lists` or of `Calls`, and the three theorems of
`LibraryProof` are about the specifications of these two, `ListsSpec` and `CallsSpec`.

Recursive functions are reasoned about by induction: each is shown to exist, and a set
of naturals that contains 0 and with each number the next contains all
(`QueuesProof!SetInduction`, from least elements).

Only model-checked:

* liveness: `ReadyRuns` and `GetsReturns`, out of the prover's reach;
* of `Library`: `Searches`, `ReadBack`, `CalcMeaning`, `MainGetsArguments`,
  `DisplayFound`, `CommandSplit`, `PsListed`, `ImageUpright` and `CellsShown`.  The functions they are
  about (and the references they are compared with) are RECURSIVE operators or folds,
  which the prover cannot unfold.

## Not modelled

* `ide.c` is commented out as a whole.  The tables of PCI vendors and devices
  (`pci_database_devices.h`) are data; the entries of the two displays stand for them.
* libm's series and iterations (sqrt, cbrt, sin, exp, log and so on): numerical
  approximation, out of TLC's reach; `ldexp` has no caller.  `getopt` is
  third-party code.
* `alloc_reallocate`, and the removal of timer routines and changes of their
  interval: nothing calls them.
* The window through which the kernel reaches frames of other address spaces: a
  step reads and writes frames directly.
* The pixels of glyphs and of the font, the port protocols of the serial line,
  keyboard and interrupt controllers, `boot.asm` and the segment descriptors:
  hardware set-up without choices.
* Wording and colours of messages; names of processes; what bmpview's main does besides
  loading and showing.

## Plan

1. (done) `Scheduler` with its proofs, `Heap` with its proofs, `Paging` checked
   against `PrivateMemory`.
2. (done) `Terminal`, `Files` with `Tarfs`, `Machine`, and `Library` with `Lists`
   against `AbstractList` and the functions against their references.
3. (done) Proofs of the safety properties of `Paging` with its refinement, `Machine`,
   `Terminal`, and the open files of `Files`; of `NoOvertaking`.
4. (done) Proofs of the boot, lookups and listings of `Files`, of the refinement of
   `AbstractList`, and of `KernelReserved` and `ImageLoaded`.
5. Open: the string functions of `Text` as recursive functions, so that `Searches` can be
   proved; the composition of `Scheduler` and `Terminal`, so that `GetsReturns` rests
   on the timer alone.
