-------------------------------- MODULE Elf ---------------------------------
(***************************************************************************)
(* The image of a program: what elf.c puts into the pages of a new address *)
(* space.  A byte of a file is named by its offset; a page has PageSize    *)
(* bytes.                                                                  *)
(***************************************************************************)
EXTENDS Integers, Sequences, Functions, Calls

CONSTANT PageSize   \* PAGE_BYTE_LEN

\* The program headers of a file: words, and the type PT_LOAD or another.
ProgramHeader == [type : {"PT_LOAD", "PT_NOTE"}, vaddr : Nat, memsz : Nat, offset : Nat, filesz : Nat]

ASSUME ElfAssumption ==
    /\ PageSize \in Nat \ {0}
    /\ \A a \in Inputs["elf"] : a[2] \in Seq(ProgramHeader)

Zero == -1    \* a cleared byte; a byte of the file is its offset
Cleared == [b \in 0..(PageSize - 1) |-> Zero]
CeilPages(n) == (n + PageSize - 1) \div PageSize

\* validate_elf: the magic, a little-endian file for 32 bits and x86, and a
\* type that can be run.
validate_elf(hdr) ==
    /\ hdr.ident = "ELF32LE"
    /\ hdr.machine = "x86"
    /\ hdr.type \in {"ET_REL", "ET_EXEC"}

\* The read of a part of the file into a frame, from its first byte.
ReadInto(frame, from, len) ==
    [b \in DOMAIN frame |-> IF b < len THEN from + b ELSE frame[b]]

\* Mutant: only whole pages of the file are read.
SegmentFrames_whole(p) ==
    [i \in 0..(CeilPages(p.memsz) - 1) |->
        IF (i + 1) * PageSize <= p.filesz THEN ReadInto(Cleared, p.offset + i * PageSize, PageSize)
        ELSE Cleared]

\* The frames of a segment: cleared, then filled page by page.
SegmentFrames(p) ==
    [i \in 0..(CeilPages(p.memsz) - 1) |->
        LET left == p.filesz - i * PageSize
        IN  IF left > PageSize THEN ReadInto(Cleared, p.offset + i * PageSize, PageSize)
            ELSE ReadInto(Cleared, p.offset + i * PageSize, left)]

\* One program header: the page of vaddr + i * PageSize becomes frame i of the
\* segment, whatever was mapped there.
LoadSegment(pages, p) ==
    IF p.vaddr = 0 \/ p.type # "PT_LOAD" THEN pages
    ELSE LET frames == SegmentFrames(p)
             first  == p.vaddr \div PageSize
         IN  [v \in DOMAIN pages \cup {first + i : i \in DOMAIN frames} |->
                 IF v - first \in DOMAIN frames THEN frames[v - first] ELSE pages[v]]

\* elf_load_executable: the pages of the address space; a file that is not
\* valid leaves it as it is, and is not reported to the caller.
elf_load_executable(hdr, segments) ==
    LET F[i \in 0..Len(segments)] ==
            IF i = 0 THEN << >> ELSE LoadSegment(F[i - 1], segments[i])
    IN  IF validate_elf(hdr) THEN F[Len(segments)] ELSE << >>

\* The loop that reads the file goes by its size there and not by the pages of
\* memory: for a header whose bytes need more pages than its memory, it takes
\* frames from behind the array physicals, and writes to memory that is anyone's.
StraysFrom(p) == p.vaddr # 0 /\ p.type = "PT_LOAD" /\ CeilPages(p.filesz) > CeilPages(p.memsz)
Strays(hdr, segments) == validate_elf(hdr) /\ \E i \in DOMAIN segments : StraysFrom(segments[i])

\* The byte at an address.
ByteAt(pages, a) == pages[a \div PageSize][a % PageSize]

-----------------------------------------------------------------------------
(* Correctness.                                                            *)

\* The segments that are loaded, and the pages of a segment.
Loadable(segments) == {s \in Range(segments) : s.type = "PT_LOAD" /\ s.vaddr # 0}
PagesOf(s) == {s.vaddr \div PageSize + i : i \in 0..(CeilPages(s.memsz) - 1)}

\* The segments start on a page and share none.
Apart(segs) ==
    /\ \A s \in segs : s.vaddr % PageSize = 0
    /\ \A s, t \in segs : s # t => PagesOf(s) \cap PagesOf(t) = {}

\* No segment has more bytes in the file than in memory, as the format demands
\* and the code takes for granted (elf.c:77).
InMemory(segs) == \A s \in segs : s.filesz <= s.memsz

\* A program finds the bytes of its file where it was linked to be, and cleared
\* memory behind them, and no other frame is written to, for segments that start
\* on a page, share none (elf.c:58) and are no larger in the file than in memory;
\* a file that cannot be run leaves the address space empty.
ImageLoaded ==
    job.fn = "elf" =>
        LET hdr   == job.arg[1]
            segs  == Loadable(job.arg[2])
            pages == elf_load_executable(hdr, job.arg[2])
        IN  (Apart(segs) /\ InMemory(segs)) =>
                /\ ~Strays(hdr, job.arg[2])
                /\ DOMAIN pages = IF validate_elf(hdr) THEN UNION {PagesOf(s) : s \in segs} ELSE {}
                /\ validate_elf(hdr) =>
                     \A s \in segs : \A b \in 0..(s.memsz - 1) :
                         ByteAt(pages, s.vaddr + b) = IF b < s.filesz THEN s.offset + b ELSE Zero
=============================================================================
