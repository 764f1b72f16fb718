-------------------------------- MODULE Heap --------------------------------
(***************************************************************************)
(* The first-fit allocator: kern_malloc and kern_free of                   *)
(* src/kernel/memory/memory_heap.c and, line for line the same algorithm,  *)
(* alloc_allocate and alloc_free of src/libraries/alloc.c (malloc and free *)
(* of the C library), whose increase_heap is the sbrk system call.         *)
(*                                                                         *)
(* The heap is a singly linked list of headers, each followed by its       *)
(* block.  A header is named by its address.  Sizes are below 2^31, where  *)
(* the code's signed comparison agrees with the unsigned one.              *)
(***************************************************************************)
EXTENDS Integers

CONSTANTS
    Start,       \* address of the first header
    InitEnd,     \* end of the memory the heap has at first
    Page,        \* PAGE_BYTE_LEN
    Header,      \* sizeof(kalloc_t)
    FirstSizes,  \* the sizes the first caller may ask for
    Sizes,       \* the sizes callers ask for
    MaxEnd       \* bound: the heap is not grown beyond this address

NULL == 0

ASSUME HeapAssumption ==
    /\ Start \in Nat \ {0}
    /\ InitEnd \in Nat /\ InitEnd > Start
    /\ Page \in Nat \ {0}
    /\ Header \in Nat \ {0}
    /\ FirstSizes \subseteq Nat /\ Sizes \subseteq Nat
    /\ MaxEnd \in Nat

VARIABLES
    items,     \* header at each address: [size, next, present]
    end,       \* heap.end: the memory below it is mapped
    held,      \* size the caller asked for, for each block a caller has
    faulted,   \* the allocator touched memory beyond heap.end
    refused    \* a caller was given NULL

vars == <<items, end, held, faulted, refused>>

Init ==
    /\ items = [a \in {} |-> NULL]      \* heap.head = NULL
    /\ end = InitEnd
    /\ held = [a \in {} |-> NULL]
    /\ faulted = FALSE
    /\ refused = FALSE

-----------------------------------------------------------------------------
Items == DOMAIN items

\* Where the block of a header ends, and the next header begins.
After(a) == a + Header + items[a].size

Aligned(size) == ((size + 7) \div 8) * 8

\* Mutant: the header is forgotten.
total_size_bare(size) == Aligned(size)

\* The room a block of that size takes, with its header.
total_size(size) == Aligned(size) + Header

\* Mutant: whole pages only.
Pages_down(bytes) == bytes \div Page

\* increase_heap and sysc_sbrk: enough whole pages for that many bytes.
Pages(bytes) == (bytes + Page - 1) \div Page

Give(a, size) ==
    held' = [b \in DOMAIN held \cup {a} |-> IF b = a THEN size ELSE held[b]]

-----------------------------------------------------------------------------
(* kern_malloc: the three places a block can come from.                     *)

\* An empty heap: the first block is taken without a look at heap.end, and
\* the memory is cleared at once.
malloc_first(size) ==
    /\ ~faulted /\ Items = {}
    /\ items' = [a \in {Start} |-> [size |-> size, next |-> NULL, present |-> TRUE]]
    /\ faulted' = (Start + Header + size > end)
    /\ Give(Start, size)
    /\ UNCHANGED <<end, refused>>

\* Mutant: the size of the free block is not compared.
Fits_any(a, size) == items[a].next # NULL /\ ~items[a].present

\* The walk stops at a free block that is large enough.  It leaves the loop at
\* the last block without looking at it.
Fits(a, size) ==
    items[a].next # NULL /\ items[a].size >= size /\ ~items[a].present

\* Headers are linked in the order of their addresses.
FirstFit(a, size) ==
    Fits(a, size) /\ \A b \in Items : Fits(b, size) => a <= b

\* What is left of the block becomes a free block of its own.
Split(a, size) ==
    LET sibling == a + Header + size
    IN  items' = [b \in Items \cup {sibling} |->
                    IF b = a THEN [size |-> size, next |-> sibling, present |-> TRUE]
                    ELSE IF b = sibling
                    THEN [size |-> items[a].size - size - Header,
                          next |-> items[a].next, present |-> FALSE]
                    ELSE items[b]]

\* A free block in the middle is reused, split if a header and a byte remain.
malloc_reuse(size) ==
    \E a \in Items :
        /\ ~faulted /\ FirstFit(a, size)
        /\ IF items[a].size - size >= Header + 1
           THEN Split(a, size)
           ELSE items' = [items EXCEPT ![a].present = TRUE]
        /\ Give(a, size)
        /\ UNCHANGED <<end, faulted, refused>>

\* heap.end once there is room for total_size more bytes at hsaddr.
Grown(hsaddr, size) ==
    IF hsaddr + total_size(size) < end THEN end
    ELSE end + Pages(total_size(size)) * Page

\* No block fits: a new one behind the last, or NULL if growing the heap did
\* not make room for it.
malloc_append(size) ==
    \E a \in Items :
        LET hsaddr == After(a)
        IN  /\ ~faulted /\ items[a].next = NULL
            /\ \A b \in Items : ~Fits(b, size)
            /\ Grown(hsaddr, size) <= MaxEnd
            /\ end' = Grown(hsaddr, size)
            /\ IF hsaddr + total_size(size) < end'
               THEN /\ items' = [b \in Items \cup {hsaddr} |->
                           IF b = hsaddr
                           THEN [size |-> size, next |-> NULL, present |-> TRUE]
                           ELSE IF b = a THEN [items[a] EXCEPT !.next = hsaddr]
                           ELSE items[b]]
                    /\ Give(hsaddr, size)
                    /\ UNCHANGED refused
               ELSE /\ refused' = TRUE
                    /\ UNCHANGED <<items, held>>
            /\ UNCHANGED faulted

\* The caller gives its block back: the header in front of it is marked.
kern_free(a) ==
    /\ ~faulted /\ a \in DOMAIN held
    /\ items' = [items EXCEPT ![a].present = FALSE]
    /\ held' = [b \in DOMAIN held \ {a} |-> held[b]]
    /\ UNCHANGED <<end, faulted, refused>>

Next ==
    \/ \E size \in FirstSizes : malloc_first(size)
    \/ \E size \in Sizes : malloc_reuse(size) \/ malloc_append(size)
    \/ \E a \in DOMAIN held : kern_free(a)

Spec == Init /\ [][Next]_vars

-----------------------------------------------------------------------------
(* Correctness.                                                            *)

Item == [size : Nat, next : Nat, present : BOOLEAN]

\* Headers and the blocks callers hold have values of their C types.
TypeOK ==
    /\ items \in [Items -> Item] /\ Items \subseteq Nat \ {0}
    /\ end \in Nat
    /\ held \in [DOMAIN held -> Nat] /\ DOMAIN held \subseteq Items
    /\ faulted \in BOOLEAN /\ refused \in BOOLEAN

\* The list of headers tiles the heap: every header but the last is followed
\* by the next at the end of its block, and no block reaches into another.
Tiled ==
    /\ \A a \in Items : items[a].next # NULL =>
          items[a].next = After(a) /\ After(a) \in Items
    /\ \A a, b \in Items : a < b => After(a) <= b /\ items[a].next # NULL

\* The bytes a caller may use.
Bytes(a) == (a + Header)..(a + Header + held[a] - 1)

\* Two callers never share a byte, a caller's bytes never hold a header, and
\* all of them are inside the memory the heap has.
Exclusive ==
    \A a \in DOMAIN held :
        /\ Bytes(a) \subseteq Start..(end - 1)
        /\ \A b \in DOMAIN held \ {a} : Bytes(a) \cap Bytes(b) = {}
        /\ \A b \in Items : Bytes(a) \cap (b..(b + Header - 1)) = {}

\* The blocks callers hold are the ones marked present.
HeldIsPresent ==
    \A a \in Items : items[a].present <=> a \in DOMAIN held

\* No memory beyond heap.end is touched.
NoFault == ~faulted

\* Growing the heap always makes room: malloc refuses nobody.
NeverRefused == ~refused

\* The first request is met from the memory the heap starts with: in the kernel
\* it is the copy of the boot parameters (initialise_memory), in a program the
\* array of the pointers to its arguments (bootstrap).  Later requests are free:
\* the stack of a process takes two pages (proc_create).
FirstFitsPage == \A size \in FirstSizes : Start + total_size(size) < InitEnd

\* The inductive invariant behind Exclusive and NeverRefused.
HeapInv ==
    /\ TypeOK
    /\ Tiled
    /\ HeldIsPresent
    /\ \A a \in DOMAIN held : held[a] <= items[a].size
    /\ \A a \in Items : Start <= a /\ After(a) < end
    /\ Items # {} => \E a \in Items : items[a].next = NULL
    /\ end >= InitEnd
    /\ NoFault /\ NeverRefused
=============================================================================
