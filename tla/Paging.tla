------------------------------- MODULE Paging -------------------------------
(***************************************************************************)
(* Address spaces: the reference-counted frames of memory_phys.c, the page *)
(* structures and the copy-on-write fault of memory_paging.c (both under   *)
(* src/kernel/memory), and what proc_create, proc_clone, proc_destroy,     *)
(* loader_spawn, loader_exec and sysc_sbrk (src/kernel/process) do to them.*)
(*                                                                         *)
(* Handlers run with interrupts off, so each is one step.  A frame is named*)
(* by its index in the allocations map; frame 0, the first page of memory, *)
(* is reserved at boot, and its address is also what alloc_phys_page gives *)
(* when no frame is left.  A user page is <<table, index>>: the three page *)
(* tables a process has are those of its code, its stack and its heap.     *)
(***************************************************************************)
EXTENDS Queues, FiniteSets

CONSTANTS
    Procs,       \* proc_t structures; one that was freed is used again
    LastFrame,   \* the frames are 0..LastFrame
    CodeLen,     \* pages of the code of a program
    StackLen,    \* PROCESS_STACK_PAGES
    HeapMax,     \* bound: pages a heap grows to
    MaxGrow,     \* bound: the processes there may be when a heap grows
    MaxPid,      \* bound: the last pid proc_get_pid hands out
    Touched,     \* bound: the tables of the pages user programs write to
    Written,     \* what user programs write to a page
    Stale,       \* bound: what may be in a frame that is taken and not cleared
    RefLimit,    \* 2^8: palloc_t.refcount is a uint8_t
    Calls,       \* what user processes do
    Beyond       \* what goes beyond the limits: "frames" run out, a "refcount"
                 \* wraps, the kernel writes to "readonly" pages

ASSUME PagingAssumption ==
    /\ IsFiniteSet(Procs) /\ LastFrame \in Nat
    /\ CodeLen \in Nat \ {0} /\ StackLen \in Nat \ {0} /\ HeapMax \in Nat \ {0}
    /\ Touched \subseteq {"code", "stack", "heap"}
    /\ MaxGrow \in Nat /\ MaxPid \in Nat \ {0}
    /\ RefLimit \in Nat /\ RefLimit > 1
    /\ "none" \notin Written /\ Stale \subseteq {"zero", "loaded"} \cup Written
    /\ Calls \subseteq {"spawn", "fork", "execve", "sbrk", "store", "read", "exit"}
    /\ Beyond \subseteq {"frames", "refcount", "readonly"}

Frames == 0..LastFrame
Tables == {"code", "stack", "heap"}
StackPages == {"stack"} \X (1..StackLen)
HeapPages == {"heap"} \X (1..HeapMax)
Pages == ({"code"} \X (1..CodeLen)) \cup StackPages \cup HeapPages
Values == {"zero", "loaded"} \cup Written

VARIABLES
    refcount,    \* allocations[f].refcount
    contents,    \* what is in a frame
    pdir,        \* proc_pdir: the frame of the page directory
    tables,      \* the frames of the page tables; 0 if there is none
    pages,       \* page table entries: [present, rw, frame]
    ustack,      \* proc_ustack_phys
    heap_end,    \* pages of the heap
    proc_pid,    \* the last pid handed out
    status       \* "free": no process; "alive"; "dead": to be destroyed

vars == <<refcount, contents, pdir, tables, pages, ustack, heap_end,
          proc_pid, status>>

Absent == [present |-> FALSE, rw |-> FALSE, frame |-> 0]
NoPages == [v \in Pages |-> Absent]
NoTables == [t \in Tables |-> 0]
NoStack == [v \in StackPages |-> 0]

\* Boot has reserved the low frames and started no process.
Init ==
    /\ refcount = [f \in Frames |-> IF f = 0 THEN 1 ELSE 0]
    /\ contents = [f \in Frames |-> "zero"]
    /\ pdir = [p \in Procs |-> 0]
    /\ tables = [p \in Procs |-> NoTables]
    /\ pages = [p \in Procs |-> NoPages]
    /\ ustack = [p \in Procs |-> NoStack]
    /\ heap_end = [p \in Procs |-> 0]
    /\ proc_pid = 1
    /\ status = [p \in Procs |-> "free"]

-----------------------------------------------------------------------------
(* memory_phys.c: each takes the reference counts it starts from.          *)

\* The free frames, in the order in which they are handed out: the map is
\* searched from its start.  (The free_list in front of it stays empty, as
\* alloc_phys_free enters frames in a copy of its entries.)
FreeList(rc) ==
    Keep([i \in 1..(LastFrame + 1) |-> i - 1], {f \in Frames : rc[f] = 0})

\* There are frames for n more calls of alloc_phys_page.
Enough(rc, n) == Len(FreeList(rc)) >= n

alloc_phys_page(rc) == IF Enough(rc, 1) THEN Head(FreeList(rc)) ELSE 0

\* The counts after n frames were handed out.
Taken(rc, n) ==
    LET free == FreeList(rc)
    IN  [f \in Frames |-> IF \E i \in DOMAIN free : i <= n /\ free[i] = f
                          THEN 1 ELSE rc[f]]

\* A count after n calls of alloc_phys_increase_refcount: a free frame stays
\* free, and one whose count runs over becomes free.
alloc_phys_increase_refcount(c, n) == IF c = 0 \/ c + n >= RefLimit THEN 0 ELSE c + n

\* A count after n calls of alloc_phys_decrease_refcount, or of
\* alloc_phys_free when the count is one.
alloc_phys_decrease_refcount(c, n) == IF c > n THEN c - n ELSE 0

-----------------------------------------------------------------------------
(* Address spaces.                                                         *)

\* The pages of p that map frame f.
Maps(p, f) == {v \in Pages : pages[p][v].present /\ pages[p][v].frame = f}

\* Mutant: the frames are freed whoever else has them.
Released_all(p) ==
    [f \in Frames |-> IF Maps(p, f) # {} \/ \E t \in Tables : tables[p][t] = f /\ f # 0
                      THEN 0 ELSE refcount[f]]

\* remove_address_space: a mapping less for each frame; the frames of the
\* page tables are free.
Released(p) ==
    [f \in Frames |-> IF \E t \in Tables : tables[p][t] = f /\ f # 0 THEN 0
                      ELSE alloc_phys_decrease_refcount(refcount[f],
                                                        Cardinality(Maps(p, f)))]

Entry(f) == [present |-> TRUE, rw |-> TRUE, frame |-> f]

\* What a free frame holds is of no interest: whoever takes it without clearing
\* it finds any value there.
Forgotten(rc) == [f \in Frames |-> IF rc[f] = 0 THEN "zero" ELSE contents[f]]

\* The pages a program starts with and what it finds there: its code, a heap
\* page with its arguments, which is not cleared and so holds some value x, and
\* a cleared stack with words on the last page.
ImagePages == {v \in Pages : v[1] = "heap" => v[2] = 1}
NoPage == "none"
Image(x) == [v \in Pages |-> IF v \notin ImagePages THEN NoPage
                             ELSE IF v[1] = "stack" /\ v[2] < StackLen THEN "zero"
                             ELSE IF v[1] = "heap" THEN x
                             ELSE "loaded"]
Images == {Image(x) : x \in Stale}

\* A program takes its frames region by region, and in each the frame of the
\* page table (index 0) right after that of the first page.
Rank(i) == IF i = 0 THEN 2 ELSE IF i = 1 THEN 1 ELSE i + 1

\* Where each region starts: proc_create takes a page directory and the stack,
\* the loader the code and then a heap page for the arguments.
SpawnBase == [stack |-> 1, code |-> StackLen + 2, heap |-> StackLen + CodeLen + 3]

\* loader_exec keeps the directory and loads the code before the stack.
ExecBase == [code |-> 0, stack |-> CodeLen + 1, heap |-> StackLen + CodeLen + 2]

\* The frames of a directory, three tables and the pages of a program.
SpawnFrames == StackLen + CodeLen + 5

\* Process p gets a program, on frames free in rc.  All pages are writable; x
\* is what its heap page holds.
Loaded(p, rc, base, count, x) ==
    LET free     == FreeList(rc)
        At(t, i) == free[base[t] + Rank(i)]
    IN  /\ refcount' = Taken(rc, count)
        /\ tables' = [tables EXCEPT ![p] = [t \in Tables |-> At(t, 0)]]
        /\ pages' = [pages EXCEPT ![p] =
              [v \in Pages |-> IF v \in ImagePages THEN Entry(At(v[1], v[2]))
                               ELSE Absent]]
        /\ contents' = [f \in Frames |->
              LET vs == {v \in ImagePages : At(v[1], v[2]) = f}
              IN  IF vs = {} THEN Forgotten(rc)[f] ELSE Image(x)[CHOOSE v \in vs : TRUE]]
        /\ ustack' = [ustack EXCEPT ![p] = [v \in StackPages |-> At(v[1], v[2])]]
        /\ heap_end' = [heap_end EXCEPT ![p] = 1]

-----------------------------------------------------------------------------
(* Operations.  Frames for page directories and tables are always there    *)
(* when they are asked for: a bound of the model.                          *)

Alive(p) == status[p] = "alive"

\* proc_get_pid.
Started(c) ==
    /\ status[c] = "free" /\ proc_pid < MaxPid
    /\ proc_pid' = proc_pid + 1
    /\ status' = [status EXCEPT ![c] = "alive"]

\* loader_spawn and proc_create, called by kmain or by a process.
loader_spawn(c, x) ==
    /\ "spawn" \in Calls /\ Started(c)
    /\ proc_pid = 1 \/ \E p \in Procs : Alive(p)
    /\ Enough(refcount, SpawnFrames)
    /\ pdir' = [pdir EXCEPT ![c] = alloc_phys_page(refcount)]
    /\ Loaded(c, refcount, SpawnBase, SpawnFrames, x)

\* sysc_execve of a binary that exists.
loader_exec(p, x) ==
    /\ "execve" \in Calls /\ Alive(p)
    /\ Enough(Released(p), SpawnFrames - 1)
    /\ Loaded(p, Released(p), ExecBase, SpawnFrames - 1, x)
    /\ UNCHANGED <<pdir, proc_pid, status>>

\* A mapping more for the frames that the pages of table t map.
Shared(p, rc, t) ==
    [f \in Frames |-> alloc_phys_increase_refcount(rc[f],
                          Cardinality({v \in Maps(p, f) : v[1] = t}))]

\* A table is copied: it takes a frame, and then its pages are shared.
Copied(p, rc, t) == Shared(p, Taken(rc, 1), t)

\* The counts clone_page_structures goes through: it takes a page directory and
\* copies the tables in the order they have in that of the parent.
Cloned(p) ==
    LET dir   == Taken(refcount, 1)
        code  == Copied(p, dir, "code")
        stack == Copied(p, code, "stack")
    IN  [dir |-> dir, code |-> code, stack |-> stack, heap |-> Copied(p, stack, "heap")]

\* The table of t is a frame that was free when those before it were copied.
ClonedTables(p) == [code  |-> alloc_phys_page(Cloned(p).dir),
                    stack |-> alloc_phys_page(Cloned(p).code),
                    heap  |-> alloc_phys_page(Cloned(p).stack)]

\* Mutant: the entries of the parent stay writable.
ReadOnly_child(p, c) ==
    pages' = [pages EXCEPT ![c] =
                [v \in Pages |-> [pages[p][v] EXCEPT !.rw = FALSE]]]

\* Parent and child have the same entries, none of them writable.
ReadOnly(p, c) ==
    LET ro == [v \in Pages |-> [pages[p][v] EXCEPT !.rw = FALSE]]
    IN  pages' = [pages EXCEPT ![p] = ro, ![c] = ro]

\* proc_clone counts the stack frames once more.
StackCounted(p, rc) ==
    [f \in Frames |-> alloc_phys_increase_refcount(rc[f],
                          Cardinality({v \in StackPages : ustack[p][v] = f}))]

\* No count reaches the limit when the pages and the stack of p are counted once
\* more; a frame handed out for it has been counted once.
Countable(p) ==
    \A f \in Frames : (IF refcount[f] = 0 THEN 1 ELSE refcount[f]) + Cardinality(Maps(p, f))
                        + Cardinality({v \in StackPages : ustack[p][v] = f}) < RefLimit

\* sysc_fork: proc_clone with clone_page_structures.
proc_clone(p, c) ==
    /\ "fork" \in Calls /\ Alive(p) /\ Started(c)
    /\ Enough(refcount, 4)
    /\ "refcount" \in Beyond \/ Countable(p)
    /\ pdir' = [pdir EXCEPT ![c] = alloc_phys_page(refcount)]
    /\ tables' = [tables EXCEPT ![c] = ClonedTables(p)]
    /\ ReadOnly(p, c)
    /\ refcount' = StackCounted(p, Cloned(p).heap)
    /\ ustack' = [ustack EXCEPT ![c] = ustack[p]]
    /\ heap_end' = [heap_end EXCEPT ![c] = heap_end[p]]
    /\ UNCHANGED contents

\* Mutant: the process that faults takes the frame whoever else maps it.
cow_copy_not(p, v) ==
    LET f == pages[p][v].frame
    IN  /\ refcount[f] > 1
        /\ pages' = [pages EXCEPT ![p][v] = Entry(f)]
        /\ UNCHANGED <<refcount, contents>>

\* page_fault_handler: a frame that others may map too is copied.  Out of
\* frames, the copy goes to frame 0.
cow_copy(p, v) ==
    LET old == pages[p][v].frame
        rc  == [refcount EXCEPT ![old] = @ - 1]
        new == alloc_phys_page(rc)
    IN  /\ refcount[old] > 1
        /\ "frames" \in Beyond \/ Enough(rc, 1)
        /\ refcount' = Taken(rc, 1)
        /\ contents' = [contents EXCEPT ![new] = contents[old]]
        /\ pages' = [pages EXCEPT ![p][v] = Entry(new)]

\* A frame that is mapped once is made writable again.
cow_own(p, v) ==
    /\ refcount[pages[p][v].frame] = 1
    /\ pages' = [pages EXCEPT ![p][v] = Entry(pages[p][v].frame)]
    /\ UNCHANGED <<refcount, contents>>

\* A process writes to a page it has and may not write to.
page_fault_handler(p, v) ==
    /\ "store" \in Calls /\ Alive(p)
    /\ pages[p][v].present /\ ~pages[p][v].rw
    /\ cow_copy(p, v) \/ cow_own(p, v)
    /\ UNCHANGED <<pdir, tables, ustack, heap_end, proc_pid, status>>

\* A process writes to a page it may write to.
store(p, v, x) ==
    /\ "store" \in Calls /\ Alive(p)
    /\ pages[p][v].present /\ pages[p][v].rw
    /\ contents' = [contents EXCEPT ![pages[p][v].frame] = x]
    /\ UNCHANGED <<refcount, pdir, tables, pages, ustack, heap_end, proc_pid, status>>

\* sysc_read writes to the buffer of its caller in kernel mode, where the CPU
\* does not look at the writable bit (boot.asm leaves CR0.WP clear).
sysc_read(p, v, x) ==
    /\ "read" \in Calls /\ Alive(p)
    /\ pages[p][v].present
    /\ "readonly" \in Beyond \/ pages[p][v].rw
    /\ contents' = [contents EXCEPT ![pages[p][v].frame] = x]
    /\ UNCHANGED <<refcount, pdir, tables, pages, ustack, heap_end, proc_pid, status>>

\* sysc_sbrk, for one page.  The page is not cleared: it holds some value x.
sysc_sbrk(p, x) ==
    LET v   == <<"heap", heap_end[p] + 1>>
        new == alloc_phys_page(refcount)
    IN  /\ "sbrk" \in Calls /\ Alive(p)
        /\ heap_end[p] < HeapMax /\ Cardinality({q \in Procs : status[q] # "free"}) <= MaxGrow
        /\ "frames" \in Beyond \/ Enough(refcount, 1)
        /\ pages' = [pages EXCEPT ![p][v] = Entry(new)]
        /\ contents' = IF Enough(refcount, 1) THEN [contents EXCEPT ![new] = x] ELSE contents
        /\ refcount' = Taken(refcount, 1)
        /\ heap_end' = [heap_end EXCEPT ![p] = @ + 1]
        /\ UNCHANGED <<pdir, tables, ustack, proc_pid, status>>

\* A process exits or is killed; it keeps its memory until it is destroyed.
exit(p) ==
    /\ "exit" \in Calls /\ Alive(p)
    /\ status' = [status EXCEPT ![p] = "dead"]
    /\ UNCHANGED <<refcount, contents, pdir, tables, pages, ustack, heap_end, proc_pid>>

\* proc_destroy with nuke_page_directory.
proc_destroy(p) ==
    /\ status[p] = "dead"
    /\ refcount' = [Released(p) EXCEPT ![pdir[p]] = 0]
    /\ pdir' = [pdir EXCEPT ![p] = 0]
    /\ tables' = [tables EXCEPT ![p] = NoTables]
    /\ pages' = [pages EXCEPT ![p] = NoPages]
    /\ ustack' = [ustack EXCEPT ![p] = NoStack]
    /\ heap_end' = [heap_end EXCEPT ![p] = 0]
    /\ status' = [status EXCEPT ![p] = "free"]
    /\ contents' = Forgotten(refcount')
    /\ UNCHANGED proc_pid

Next ==
    \E p \in Procs :
        \/ \E x \in Stale : loader_spawn(p, x) \/ loader_exec(p, x) \/ sysc_sbrk(p, x)
        \/ exit(p) \/ proc_destroy(p)
        \/ \E c \in Procs : proc_clone(p, c)
        \/ \E v \in Pages :
              /\ v[1] \in Touched
              /\ \/ page_fault_handler(p, v)
                 \/ \E x \in Written : store(p, v, x) \/ sysc_read(p, v, x)

Spec == Init /\ [][Next]_vars

-----------------------------------------------------------------------------
(* Correctness.                                                            *)

\* Page table entries and reference counts hold values of their C types.
TypeOK ==
    /\ refcount \in [Frames -> 0..(RefLimit - 1)]
    /\ contents \in [Frames -> Values]
    /\ pdir \in [Procs -> Frames]
    /\ tables \in [Procs -> [Tables -> Frames]]
    /\ pages \in [Procs -> [Pages -> [present : BOOLEAN, rw : BOOLEAN, frame : Frames]]]
    /\ ustack \in [Procs -> [StackPages -> Frames]]
    /\ heap_end \in [Procs -> 0..HeapMax]
    /\ proc_pid \in 1..MaxPid
    /\ status \in [Procs -> {"free", "alive", "dead"}]

Mappings(f) == {pv \in Procs \X Pages : /\ pages[pv[1]][pv[2]].present
                                        /\ pages[pv[1]][pv[2]].frame = f}
Structures(f) ==
    {ps \in Procs \X (Tables \cup {"pdir"}) :
        /\ status[ps[1]] # "free"
        /\ f = IF ps[2] = "pdir" THEN pdir[ps[1]] ELSE tables[ps[1]][ps[2]]}

\* No frame is used more often than it is counted: a frame somebody still maps
\* is not handed out, and one that holds a page directory or a page table is
\* used for nothing else.  Nobody maps the reserved frame.
Counted ==
    /\ Mappings(0) = {}
    /\ \A f \in Frames :
          /\ Cardinality(Mappings(f)) <= refcount[f]
          /\ Structures(f) # {} => /\ Cardinality(Structures(f)) = 1
                                   /\ Mappings(f) = {} /\ refcount[f] >= 1

\* A frame that two pages map is writable in neither.
SharedReadOnly ==
    \A f \in Frames : \A m, n \in Mappings(f) :
        m # n => ~pages[m[1]][m[2]].rw

\* Copy-on-write is invisible: processes have private memory.
View ==
    [p \in Procs |-> [v \in Pages |-> IF pages[p][v].present
                                      THEN contents[pages[p][v].frame] ELSE NoPage]]
Private == INSTANCE PrivateMemory WITH memory <- View
PrivateSpec == Private!Spec

-----------------------------------------------------------------------------
(* The inductive invariant, for what stays within the limits.              *)

WithinLimits == "frames" \notin Beyond /\ "refcount" \notin Beyond

\* The frame of a structure of process p: its page directory or a page table.
Structure(p, s) == IF s = "pdir" THEN pdir[p] ELSE tables[p][s]
StructureNames == Tables \cup {"pdir"}

\* A structure has a frame of its own, which is counted and nobody maps.
StructuresApart ==
    \A p \in Procs : \A s \in StructureNames : status[p] # "free" =>
        /\ Structure(p, s) # 0
        /\ refcount[Structure(p, s)] >= 1
        /\ Mappings(Structure(p, s)) = {}
        /\ \A q \in Procs : \A t \in StructureNames :
              status[q] # "free" /\ Structure(q, t) = Structure(p, s) => q = p /\ t = s

\* The mappings are counted, and the reserved frame has none.
MappingsCounted ==
    /\ Mappings(0) = {} /\ refcount[0] >= 1
    /\ \A f \in Frames : Cardinality(Mappings(f)) <= refcount[f]

\* Who is no process has no pages, and no heap page lies beyond its end.
PagesBounded ==
    \A p \in Procs : \A v \in Pages : pages[p][v].present =>
        /\ status[p] # "free"
        /\ v[1] = "heap" => v[2] <= heap_end[p]

PagingInv == TypeOK /\ StructuresApart /\ MappingsCounted /\ SharedReadOnly /\ PagesBounded
=============================================================================
