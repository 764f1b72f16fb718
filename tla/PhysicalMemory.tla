--------------------------- MODULE PhysicalMemory ---------------------------
(***************************************************************************)
(* The frames of physical memory that the kernel keeps for itself at boot  *)
(* (memory_phys.c, memory_manager.c).  A machine has mem.lower bytes from  *)
(* 0 and mem.upper from UpperStart, with a hole between them.              *)
(***************************************************************************)
EXTENDS Integers, Calls

CONSTANTS
    Page,       \* PAGE_BYTE_LEN
    UpperStart  \* 0x00100000, where memory goes on behind the hole

\* The boot loader counts the lower memory up to the hole at most, and the hole
\* ends on a page.
ASSUME MemoryAssumption ==
    /\ Page \in Nat \ {0} /\ UpperStart \in Nat /\ UpperStart % Page = 0
    /\ \A a \in Inputs["memory"] :
         a[1].lower \in 0..UpperStart /\ a[1].upper \in Nat /\ a[2] \in Nat

align_page(a) == (a \div Page) * Page
lower_pages(mem) == mem.lower \div Page
total_usable_pages(mem) == lower_pages(mem) + mem.upper \div Page

alloc_phys_addr_to_index(mem, a) ==
    IF a < mem.lower THEN a \div Page
    ELSE IF a >= UpperStart THEN lower_pages(mem) + (a - UpperStart) \div Page
    ELSE -1
alloc_phys_index_to_addr(mem, i) ==
    IF i < lower_pages(mem) THEN i * Page ELSE UpperStart + (i - lower_pages(mem)) * Page

\* alloc_phys_addr of every page from a up to b.
Reserved(mem, a, b) ==
    {alloc_phys_addr_to_index(mem, align_page(x)) : x \in {y \in a..(b - 1) : (y - a) % Page = 0}} \ {-1}

\* Mutant: what lies below the table of counts is not kept.
initialise_memory_table(mem, last_mod_end) ==
    LET allocations == align_page(last_mod_end) + Page
    IN  Reserved(mem, allocations, allocations + total_usable_pages(mem))

\* init_phys_memory puts the table of counts, one byte for a page, behind the
\* modules; initialise_memory keeps it and all that is below.
initialise_memory(mem, last_mod_end) ==
    LET allocations == align_page(last_mod_end) + Page
    IN  Reserved(mem, allocations, allocations + total_usable_pages(mem)) \cup Reserved(mem, 0, allocations)

\* The frames alloc_phys_page can give out after boot.
FreeFrames(mem, last_mod_end) ==
    {alloc_phys_index_to_addr(mem, i) :
        i \in (0..(total_usable_pages(mem) - 1)) \ initialise_memory(mem, last_mod_end)}

-----------------------------------------------------------------------------
(* Correctness.                                                            *)

\* After boot no frame of the kernel, of the modules or of the table of counts
\* can be allocated, and every frame that can is memory the machine has.
KernelReserved ==
    job.fn = "memory" =>
        LET mem  == job.arg[1]
            end  == job.arg[2]
            kept == align_page(end) + Page + total_usable_pages(mem)
        IN  \A f \in FreeFrames(mem, end) :
                /\ f >= kept
                /\ f % Page = 0
                /\ f + Page <= IF f < UpperStart THEN mem.lower ELSE UpperStart + mem.upper
=============================================================================
