------------------------------- MODULE Loader -------------------------------
(***************************************************************************)
(* The start of a program: the arguments that loader.c leaves on the first *)
(* page of the heap and on the stack, and how bootstrap.c and the first    *)
(* calls of the allocator (alloc.c) make the arguments of main from them.  *)
(*                                                                         *)
(* A page has PageSize bytes and the header of an allocation HeaderSize.   *)
(* A pointer takes one byte here.                                          *)
(***************************************************************************)
EXTENDS Text, Elf

CONSTANT HeaderSize

-----------------------------------------------------------------------------
(* The arguments.                                                          *)

\* Mutant: the name of the program is not counted.
argv_total_length_args(name, argv) == FoldLeft(LAMBDA n, s : n + Len(s) + 1, 0, argv)

argv_total_length(name, argv) == FoldLeft(LAMBDA n, s : n + Len(s) + 1, Len(name) + 1, argv)

\* The page of the arguments, the name first; its frame held old bytes.
ArgumentPage(name, argv, old) ==
    LET text == FlattenSeq([i \in 1..(Len(argv) + 1) |-> (<<name>> \o argv)[i] \o <<NUL>>])
    IN  [i \in 1..PageSize |-> IF i \in DOMAIN text THEN text[i] ELSE old]

\* The four words the loader pushes for the program that starts.
StartWords(name, argv) ==
    [magic |-> "BOOTSTRAP_MAGIC", heap_end |-> PageSize,
     argv_total_length |-> argv_total_length(name, argv), argc |-> Len(argv) + 1]

-----------------------------------------------------------------------------
(* The program's first steps.  The heap starts at address 1, as ByteAt of  *)
(* Text's memory does; a write behind the mapped pages is a page fault.    *)

alloc_initialise(used, end) == [start |-> 1 + used, end |-> end, last |-> 0, size |-> 0]

\* sbrk: whole pages.
alloc_increase_memory(h, bytes) == [h EXCEPT !.end = @ + CeilPages(bytes) * PageSize]

\* alloc_allocate while nothing has been freed: the first block is placed
\* without a look at the end of the heap, a later one behind the last.
alloc_allocate(h, size) ==
    LET total  == 8 * CHOOSE n \in 0..(size + 7) : 8 * n >= size /\ 8 * (n - 1) < size
        hsaddr == h.last + HeaderSize + h.size
        room(g) == hsaddr + total + HeaderSize < 1 + g.end
        grown  == IF room(h) THEN h ELSE alloc_increase_memory(h, total + HeaderSize)
    IN  IF h.last = 0 THEN [h EXCEPT !.last = h.start, !.size = size]
        ELSE [grown EXCEPT !.last = hsaddr, !.size = size]

\* The block just allocated: its header is written and its bytes are zeroed.
Occupied(m, h) ==
    [i \in DOMAIN m |->
        IF i \in h.last..(h.last + HeaderSize - 1) THEN "header"
        ELSE IF i \in (h.last + HeaderSize)..(h.last + HeaderSize + h.size - 1) THEN NUL ELSE m[i]]

\* bootstrap: the arguments main gets, and whether every write was mapped.
bootstrap(page, w) ==
    LET mem  == [i \in 1..(8 * PageSize) |-> IF i <= PageSize THEN page[i] ELSE NUL]
        Mapped(h) == h.last + HeaderSize + h.size <= 1 + h.end
        h0   == alloc_allocate(alloc_initialise(w.argv_total_length, w.heap_end), w.argc)
        Step(st, i) ==
            LET arg == StringAt(st.mem, st.str)
                h   == alloc_allocate(st.heap, Len(arg) + 1)
            IN  [mem  |-> strncpy(Occupied(st.mem, h), h.last + HeaderSize, arg, Len(arg)),
                 heap |-> h, str |-> st.str + Len(arg) + 1,
                 at   |-> Append(st.at, h.last + HeaderSize), ok |-> st.ok /\ Mapped(h)]
        end  == FoldLeft(Step, [mem |-> Occupied(mem, h0), heap |-> h0, str |-> 1, at |-> << >>,
                                ok |-> Mapped(h0)], [i \in 1..w.argc |-> i])
    IN  [main |-> [i \in DOMAIN end.at |-> StringAt(end.mem, end.at[i])], ok |-> end.ok]
=============================================================================
