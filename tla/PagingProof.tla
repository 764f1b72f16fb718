----------------------------- MODULE PagingProof -----------------------------
(***************************************************************************)
(* Frames are counted, shared read-only, and copy-on-write is invisible,   *)
(* for any number of processes, frames and pages, as long as frames and    *)
(* reference counts do not run out.                                        *)
(***************************************************************************)
EXTENDS Paging, QueuesProof

-----------------------------------------------------------------------------
(* memory_phys.c.                                                          *)

Counts == [Frames -> 0..(RefLimit - 1)]

\* The free list has each free frame once.
LEMMA FreeFrames ==
    ASSUME NEW rc
    PROVE  /\ FreeList(rc) \in Seq(Frames) /\ Len(FreeList(rc)) \in Nat
           /\ \A i \in 1..Len(FreeList(rc)) : FreeList(rc)[i] \in Frames /\ rc[FreeList(rc)[i]] = 0
           /\ \A i, j \in 1..Len(FreeList(rc)) : FreeList(rc)[i] = FreeList(rc)[j] => i = j
           /\ \A f \in Frames : rc[f] = 0 => \E i \in 1..Len(FreeList(rc)) : FreeList(rc)[i] = f
<1> DEFINE q == [i \in 1..(LastFrame + 1) |-> i - 1]
           S == {f \in Frames : rc[f] = 0}
           L == FreeList(rc)
<1>1. LastFrame \in Nat
  BY PagingAssumption
<1>2. q \in Seq(Frames) /\ DOMAIN q = 1..(LastFrame + 1)
  BY <1>1 DEF Frames
<1>3. Range(q) = Frames /\ IsInjective(q)
  <2>1. \A f \in Frames : f + 1 \in DOMAIN q /\ q[f + 1] = f
    BY <1>1 DEF Frames
  <2> QED
    BY <1>1, <2>1 DEF Range, IsInjective, Frames
<1>4. L = Keep(q, S)
  BY DEF FreeList
<1> HIDE DEF q, L
<1>5. L \in Seq(Frames) /\ Range(L) = Range(q) \cap S /\ (IsInjective(q) => IsInjective(L))
  BY <1>2, <1>4, KeepRange
<1>6. Range(L) = S /\ IsInjective(L) /\ DOMAIN L = 1..Len(L) /\ Len(L) \in Nat
  BY <1>3, <1>5
<1>7. \A i \in 1..Len(L) : L[i] \in Frames /\ rc[L[i]] = 0
  BY <1>6 DEF Range
<1>8. \A f \in Frames : rc[f] = 0 => \E i \in 1..Len(L) : L[i] = f
  BY <1>6 DEF Range
<1>9. \A i, j \in 1..Len(L) : L[i] = L[j] => i = j
  BY <1>6 DEF IsInjective
<1> QED
  BY <1>5, <1>6, <1>7, <1>8, <1>9 DEF L

\* Taking n frames counts those at the front of the free list once.
LEMMA TakenCounts ==
    ASSUME NEW rc \in Counts, NEW n \in Nat, Enough(rc, n)
    PROVE  /\ Taken(rc, n) \in Counts
           /\ n <= Len(FreeList(rc))
           /\ \A i \in 1..n : Taken(rc, n)[FreeList(rc)[i]] = 1
           /\ \A f \in Frames : (\A i \in 1..n : FreeList(rc)[i] # f) => Taken(rc, n)[f] = rc[f]
           /\ \A f \in Frames : rc[f] # 0 => Taken(rc, n)[f] = rc[f]
<1> DEFINE L == FreeList(rc)
<1>1. /\ DOMAIN L = 1..Len(L) /\ n <= Len(L) /\ Len(L) \in Nat
      /\ \A i \in 1..Len(L) : L[i] \in Frames /\ rc[L[i]] = 0
  BY FreeFrames DEF Enough
<1>2. Taken(rc, n) = [f \in Frames |-> IF \E i \in DOMAIN L : i <= n /\ L[i] = f THEN 1 ELSE rc[f]]
  BY DEF Taken
<1> HIDE DEF L
<1>3. 1 \in 0..(RefLimit - 1)
  BY PagingAssumption
<1>4. Taken(rc, n) \in Counts
  BY <1>2, <1>3 DEF Counts
<1>5. \A i \in 1..n : Taken(rc, n)[L[i]] = 1
  BY <1>1, <1>2
<1>6. \A f \in Frames : (\A i \in 1..n : L[i] # f) => Taken(rc, n)[f] = rc[f]
  BY <1>1, <1>2
<1>7. \A f \in Frames : rc[f] # 0 => Taken(rc, n)[f] = rc[f]
  BY <1>1, <1>2
<1> QED
  BY <1>1, <1>4, <1>5, <1>6, <1>7 DEF L

\* alloc_phys_page hands out a free frame while there is one.
LEMMA OneTaken ==
    ASSUME NEW rc \in Counts, NEW f \in Frames, rc[f] = 0
    PROVE  /\ Enough(rc, 1)
           /\ alloc_phys_page(rc) \in Frames /\ rc[alloc_phys_page(rc)] = 0
           /\ Taken(rc, 1) \in Counts
           /\ \A g \in Frames : Taken(rc, 1)[g] = IF g = alloc_phys_page(rc) THEN 1 ELSE rc[g]
<1> DEFINE L == FreeList(rc)
           T == Taken(rc, 1)
<1>1. Len(L) \in Nat /\ L \in Seq(Frames) /\ \E i \in 1..Len(L) : L[i] = f
  <2>1. /\ Len(L) \in Nat /\ L \in Seq(Frames)
        /\ \A g \in Frames : rc[g] = 0 => \E i \in 1..Len(L) : L[i] = g
    BY FreeFrames, Zenon
  <2> QED
    BY <2>1
<1>2. Enough(rc, 1) /\ Len(L) >= 1
  <2>1. Len(L) >= 1
    BY <1>1
  <2> QED
    BY <2>1 DEF Enough
<1>3. alloc_phys_page(rc) = L[1]
  <2>1. alloc_phys_page(rc) = Head(L)
    BY <1>2 DEF alloc_phys_page
  <2> HIDE DEF L
  <2> QED
    BY <1>1, <1>2, <2>1
<1>4. L[1] \in Frames /\ rc[L[1]] = 0
  BY <1>1, <1>2, FreeFrames
<1>5. /\ T \in Counts
      /\ \A i \in 1..1 : T[L[i]] = 1
      /\ \A g \in Frames : (\A i \in 1..1 : L[i] # g) => T[g] = rc[g]
  BY <1>2, TakenCounts
<1> HIDE DEF L, T
<1>6. T[L[1]] = 1 /\ \A g \in Frames : L[1] # g => T[g] = rc[g]
  BY <1>5
<1> QED
  BY <1>2, <1>3, <1>4, <1>5, <1>6 DEF T

LEMMA EnoughFree ==
    ASSUME NEW rc \in Counts, NEW n \in Nat, n >= 1, Enough(rc, n)
    PROVE  \E f \in Frames : rc[f] = 0
BY FreeFrames DEF Enough

-----------------------------------------------------------------------------
(* Mappings.                                                               *)

\* Mappings, of any page table entries.
Mapped(pg, f) == {m \in Procs \X Pages : pg[m[1]][m[2]].present /\ pg[m[1]][m[2]].frame = f}

LEMMA MappingsAreMapped ==
    ASSUME NEW f
    PROVE  Mappings(f) = Mapped(pages, f) /\ Mappings(f)' = Mapped(pages', f)
BY DEF Mappings, Mapped

LEMMA MappedIff ==
    ASSUME NEW pg, NEW f
    PROVE  /\ \A q \in Procs : \A v \in Pages :
                 <<q, v>> \in Mapped(pg, f) <=> pg[q][v].present /\ pg[q][v].frame = f
           /\ \A m \in Mapped(pg, f) : \E q \in Procs : \E v \in Pages : m = <<q, v>>
<1>1. \A q \in Procs : \A v \in Pages :
        <<q, v>> \in Procs \X Pages /\ <<q, v>>[1] = q /\ <<q, v>>[2] = v
  OBVIOUS
<1>2. \A m \in Procs \X Pages : \E q \in Procs : \E v \in Pages : m = <<q, v>>
  OBVIOUS
<1>3. \A m \in Mapped(pg, f) : m \in Procs \X Pages
  BY Zenon DEF Mapped
<1>4. \A q \in Procs : \A v \in Pages :
        <<q, v>> \in Mapped(pg, f) <=> pg[q][v].present /\ pg[q][v].frame = f
  BY <1>1, Zenon DEF Mapped
<1> QED
  BY <1>2, <1>3, <1>4, Zenon

LEMMA MappedAt ==
    ASSUME NEW f, NEW q \in Procs, NEW v \in Pages
    PROVE  /\ <<q, v>> \in Mapped(pages, f) <=> pages[q][v].present /\ pages[q][v].frame = f
           /\ <<q, v>> \in Mapped(pages', f) <=> pages'[q][v].present /\ pages'[q][v].frame = f
<1>1. <<q, v>> \in Procs \X Pages /\ <<q, v>>[1] = q /\ <<q, v>>[2] = v
  OBVIOUS
<1> QED
  BY <1>1, Zenon DEF Mapped

LEMMA PagesFinite == IsFiniteSet(Pages) /\ IsFiniteSet(Procs \X Pages)
<1>1. IsFiniteSet(1..CodeLen) /\ IsFiniteSet(1..StackLen) /\ IsFiniteSet(1..HeapMax)
  BY PagingAssumption, FS_Interval
<1>2. IsFiniteSet({"code"}) /\ IsFiniteSet({"stack"}) /\ IsFiniteSet({"heap"})
  BY FS_Singleton
<1>3. /\ IsFiniteSet({"code"} \X (1..CodeLen)) /\ IsFiniteSet({"stack"} \X (1..StackLen))
      /\ IsFiniteSet({"heap"} \X (1..HeapMax))
  BY <1>1, <1>2, FS_Product
<1>4. IsFiniteSet(Pages)
  BY <1>3, FS_Union DEF Pages, StackPages, HeapPages
<1> QED
  BY <1>4, PagingAssumption, FS_Product

LEMMA MappedFinite ==
    ASSUME NEW pg, NEW f
    PROVE  IsFiniteSet(Mapped(pg, f)) /\ Cardinality(Mapped(pg, f)) \in Nat
<1>1. Mapped(pg, f) \in SUBSET (Procs \X Pages)
  BY Zenon DEF Mapped
<1> QED
  BY <1>1, PagesFinite, FS_Subset, FS_CardinalityType

\* The mappings of one process: as many as it has pages that map the frame.
LEMMA OwnMappings ==
    ASSUME NEW p \in Procs, NEW f
    PROVE  /\ Cardinality(Maps(p, f)) \in Nat /\ IsFiniteSet(Maps(p, f))
           /\ \A q : IsFiniteSet({q} \X Maps(p, f))
           /\ \A q : Cardinality({q} \X Maps(p, f)) = Cardinality(Maps(p, f))
           /\ Cardinality(Mappings(f) \ ({p} \X Pages)) = Cardinality(Mappings(f)) - Cardinality(Maps(p, f))
           /\ Cardinality(Maps(p, f)) <= Cardinality(Mappings(f))
<1>1. Maps(p, f) \in SUBSET Pages
  BY Zenon DEF Maps
<1>2. IsFiniteSet(Maps(p, f)) /\ Cardinality(Maps(p, f)) \in Nat
  BY <1>1, PagesFinite, FS_Subset, FS_CardinalityType
<1>3. ASSUME NEW q PROVE IsFiniteSet({q} \X Maps(p, f)) /\ Cardinality({q} \X Maps(p, f)) = Cardinality(Maps(p, f))
  <2>1. IsFiniteSet({q}) /\ Cardinality({q}) = 1
    BY FS_Singleton
  <2>2. IsFiniteSet({q} \X Maps(p, f)) /\ Cardinality({q} \X Maps(p, f)) = Cardinality({q}) * Cardinality(Maps(p, f))
    BY <1>2, <2>1, FS_Product
  <2> QED
    BY <1>2, <2>1, <2>2
<1>4. Mappings(f) \cap ({p} \X Pages) = {p} \X Maps(p, f)
  <2>1. \A v \in Pages : <<p, v>> \in Mappings(f) <=> v \in Maps(p, f)
    <3>1. Mappings(f) = Mapped(pages, f)
      BY MappingsAreMapped
    <3>2. \A v \in Pages : <<p, v>> \in Mapped(pages, f) <=> pages[p][v].present /\ pages[p][v].frame = f
      BY MappedIff
    <3> QED
      BY <3>1, <3>2, Zenon DEF Maps
  <2>2. \A m \in {p} \X Pages : \E v \in Pages : m = <<p, v>>
    OBVIOUS
  <2>3. \A v \in Pages : v \in Maps(p, f) <=> <<p, v>> \in {p} \X Maps(p, f)
    OBVIOUS
  <2>4. \A v \in Pages : <<p, v>> \in {p} \X Pages
    OBVIOUS
  <2>5. \A m \in {p} \X Maps(p, f) : m \in {p} \X Pages
    BY <1>1
  <2> DEFINE A == {p} \X Pages
             B == {p} \X Maps(p, f)
  <2> HIDE DEF A, B
  <2>6. \A m \in Mappings(f) \cap A : m \in B
    BY <2>1, <2>2, <2>3 DEF A, B
  <2>7. \A m \in B : m \in A /\ m \in Mappings(f)
    BY <2>1, <2>2, <2>3, <2>5 DEF A, B
  <2>8. Mappings(f) \cap A = B
    BY <2>6, <2>7
  <2> QED
    BY <2>8 DEF A, B
<1> DEFINE M == Mappings(f)
           A == {p} \X Pages
           O == {p} \X Maps(p, f)
           n == Cardinality(Maps(p, f))
<1>5. IsFiniteSet(M) /\ Cardinality(M) \in Nat
  BY MappedFinite, MappingsAreMapped
<1>6. Cardinality(O) = n /\ M \cap A = O /\ n \in Nat
  BY <1>2, <1>3, <1>4
<1> HIDE DEF M, A, O, n
<1>7. Cardinality(M \ A) = Cardinality(M) - n
  BY <1>5, <1>6, FS_Difference
<1>8. Cardinality(M \ A) \in Nat
  BY <1>5, FS_Difference, FS_CardinalityType
<1>9. n <= Cardinality(M)
  BY <1>5, <1>6, <1>7, <1>8
<1> QED
  BY <1>2, <1>3, <1>7, <1>9 DEF M, A, n

-----------------------------------------------------------------------------
(* Counts from which process p has been taken away.                        *)

Clear(p, rc) ==
    /\ rc \in Counts /\ rc[0] >= 1
    /\ \A f \in Frames : Cardinality(Mappings(f) \ ({p} \X Pages)) <= rc[f]
    /\ \A q \in Procs \ {p} : \A s \in StructureNames : status[q] # "free" => rc[Structure(q, s)] >= 1

\* A frame free in such counts is used by nobody else.
LEMMA ClearUnused ==
    ASSUME NEW p \in Procs, NEW rc, Clear(p, rc), NEW f \in Frames, rc[f] = 0
    PROVE  /\ f # 0
           /\ \A q \in Procs \ {p} : \A v \in Pages : <<q, v>> \notin Mappings(f)
           /\ \A q \in Procs \ {p} : \A s \in StructureNames : status[q] # "free" => Structure(q, s) # f
<1> DEFINE M == Mappings(f) \ ({p} \X Pages)
<1>1. Cardinality(M) <= 0 /\ f # 0
  BY DEF Clear
<1>2. IsFiniteSet(M) /\ Cardinality(M) \in Nat
  <2>1. IsFiniteSet(Mappings(f))
    BY MappedFinite, MappingsAreMapped
  <2>2. IsFiniteSet(M)
    BY <2>1, FS_Difference
  <2> QED
    BY <2>2, FS_CardinalityType
<1>3. M = {}
  BY <1>1, <1>2, FS_EmptySet
<1>4. \A q \in Procs \ {p} : \A v \in Pages : <<q, v>> \notin {p} \X Pages
  OBVIOUS
<1> QED
  BY <1>1, <1>3, <1>4 DEF Clear

LEMMA StructureType ==
    ASSUME TypeOK
    PROVE  \A p \in Procs : \A s \in StructureNames : Structure(p, s) \in Frames
<1>1. \A s \in StructureNames : s = "pdir" \/ s \in Tables
  BY DEF StructureNames
<1>2. \A p \in Procs : pdir[p] \in Frames /\ \A t \in Tables : tables[p][t] \in Frames
  BY DEF TypeOK
<1> QED
  BY <1>1, <1>2 DEF Structure

LEMMA ClearFree ==
    ASSUME PagingInv, NEW p \in Procs, status[p] = "free"
    PROVE  Clear(p, refcount)
<1>1. refcount \in Counts /\ refcount[0] >= 1
  BY DEF PagingInv, TypeOK, Counts, MappingsCounted
<1>2. ASSUME NEW f \in Frames PROVE Cardinality(Mappings(f) \ ({p} \X Pages)) <= refcount[f]
  <2>1. Cardinality(Mappings(f)) <= refcount[f] /\ refcount[f] \in Int
    BY <1>1 DEF PagingInv, MappingsCounted, Counts
  <2>2. /\ Cardinality(Mappings(f) \ ({p} \X Pages)) = Cardinality(Mappings(f)) - Cardinality(Maps(p, f))
        /\ Cardinality(Maps(p, f)) \in Nat
    BY OwnMappings
  <2>3. Cardinality(Mappings(f)) \in Nat
    BY MappedFinite, MappingsAreMapped
  <2> QED
    BY <2>1, <2>2, <2>3
<1>3. \A q \in Procs \ {p} : \A s \in StructureNames : status[q] # "free" => refcount[Structure(q, s)] >= 1
  BY DEF PagingInv, StructuresApart
<1> QED
  BY <1>1, <1>2, <1>3 DEF Clear

\* remove_address_space takes nothing from the others.
LEMMA ClearReleased ==
    ASSUME PagingInv, NEW p \in Procs, status[p] # "free"
    PROVE  Clear(p, Released(p)) /\ Released(p)[pdir[p]] >= 1
<1> DEFINE T == {tables[p][t] : t \in Tables}
           n(f) == Cardinality(Maps(p, f))
<1>1. TypeOK /\ StructuresApart /\ MappingsCounted
  BY DEF PagingInv
<1>2. /\ refcount \in Counts /\ RefLimit \in Nat /\ 0 \in Frames
      /\ \A t \in Tables : tables[p][t] \in Frames /\ tables[p][t] # 0
  <2>1. \A t \in Tables : Structure(p, t) = tables[p][t] /\ t \in StructureNames
    BY DEF Structure, StructureNames, Tables
  <2>2. \A t \in Tables : tables[p][t] # 0
    BY <1>1, <2>1 DEF StructuresApart
  <2> QED
    BY <1>1, <2>2, PagingAssumption DEF TypeOK, Counts, Frames
<1>3. \A f \in Frames : Released(p)[f] = IF f \in T THEN 0
                                         ELSE IF refcount[f] > n(f) THEN refcount[f] - n(f) ELSE 0
  BY <1>2 DEF Released, alloc_phys_decrease_refcount
<1>4. ASSUME NEW f \in Frames
      PROVE  /\ n(f) \in Nat /\ refcount[f] \in 0..(RefLimit - 1) /\ n(f) <= Cardinality(Mappings(f))
             /\ Cardinality(Mappings(f)) \in Nat /\ Cardinality(Mappings(f)) <= refcount[f]
             /\ Cardinality(Mappings(f) \ ({p} \X Pages)) = Cardinality(Mappings(f)) - n(f)
  <2>1. /\ n(f) \in Nat /\ n(f) <= Cardinality(Mappings(f))
        /\ Cardinality(Mappings(f) \ ({p} \X Pages)) = Cardinality(Mappings(f)) - n(f)
    BY OwnMappings
  <2>2. Cardinality(Mappings(f)) \in Nat
    BY MappedFinite, MappingsAreMapped
  <2> QED
    BY <1>1, <1>2, <2>1, <2>2 DEF MappingsCounted, Counts
<1>5. \A f \in T : f \in Frames /\ f # 0 /\ Mappings(f) = {}
  <2>1. \A t \in Tables : Structure(p, t) = tables[p][t] /\ t \in StructureNames
    BY DEF Structure, StructureNames, Tables
  <2> QED
    BY <1>1, <1>2, <2>1 DEF StructuresApart
<1>6. Cardinality({}) = 0
  BY FS_EmptySet
<1>7. Released(p) = [f \in Frames |-> Released(p)[f]]
  BY DEF Released
<1> HIDE DEF n, T
<1>8. Released(p) \in Counts
  <2>1. \A f \in Frames : Released(p)[f] \in 0..(RefLimit - 1)
    <3> SUFFICES ASSUME NEW f \in Frames PROVE Released(p)[f] \in 0..(RefLimit - 1)
      OBVIOUS
    <3> DEFINE c == refcount[f]
               k == n(f)
    <3>1. /\ c \in 0..(RefLimit - 1) /\ k \in Nat /\ RefLimit \in Nat /\ RefLimit > 1
          /\ Released(p)[f] = 0 \/ (c > k /\ Released(p)[f] = c - k)
      BY <1>2, <1>3, <1>4, PagingAssumption
    <3> HIDE DEF c, k
    <3> QED
      BY <3>1
  <2> QED
    BY <1>7, <2>1 DEF Counts
<1>9. ASSUME NEW f \in Frames PROVE Cardinality(Mappings(f) \ ({p} \X Pages)) <= Released(p)[f]
  <2>1. CASE f \in T
    <3>1. Cardinality(Mappings(f)) = 0
      BY <1>5, <1>6, <2>1
    <3>2. n(f) = 0 /\ Released(p)[f] = 0 /\ Cardinality(Mappings(f) \ ({p} \X Pages)) = 0 - n(f)
      BY <1>3, <1>4, <2>1, <3>1
    <3> QED
      BY <3>2
  <2>2. CASE f \notin T
    <3> DEFINE c == refcount[f]
               k == n(f)
               m == Cardinality(Mappings(f))
               rest == Cardinality(Mappings(f) \ ({p} \X Pages))
    <3>1. Released(p)[f] = IF c > k THEN c - k ELSE 0
      BY <1>3, <2>2
    <3>2. /\ c \in 0..(RefLimit - 1) /\ RefLimit \in Nat /\ k \in Nat /\ m \in Nat
          /\ k <= m /\ m <= c /\ rest = m - k
      BY <1>4, PagingAssumption
    <3> HIDE DEF c, k, m, rest
    <3>3. rest <= IF c > k THEN c - k ELSE 0
      BY <3>2
    <3>4. rest <= Released(p)[f]
      BY <3>1, <3>3
    <3> QED
      BY <3>4 DEF rest
  <2> QED
    BY <2>1, <2>2
\* A frame that nobody maps and that is none of the tables keeps its count.
<1>10. ASSUME NEW f \in Frames, f \notin T, Mappings(f) = {} PROVE Released(p)[f] = refcount[f]
  BY <1>3, <1>4, <1>6, <1>10
<1>11. Released(p)[0] >= 1
  BY <1>1, <1>2, <1>5, <1>10 DEF MappingsCounted
<1>12. ASSUME NEW q \in Procs, NEW s \in StructureNames, status[q] # "free", q # p \/ s = "pdir"
       PROVE  Released(p)[Structure(q, s)] >= 1
  <2>1. Structure(q, s) \in Frames
    BY <1>1, StructureType
  <2>2. Structure(q, s) \notin T
    <3> SUFFICES ASSUME NEW t \in Tables, Structure(q, s) = tables[p][t] PROVE FALSE
      BY DEF T
    <3>1. Structure(p, t) = tables[p][t] /\ t \in StructureNames /\ t # "pdir"
      BY DEF Structure, StructureNames, Tables
    <3> QED
      BY <1>1, <1>12, <3>1 DEF StructuresApart
  <2>3. Mappings(Structure(q, s)) = {} /\ refcount[Structure(q, s)] >= 1
    BY <1>1, <1>12 DEF StructuresApart
  <2> QED
    BY <1>10, <2>1, <2>2, <2>3
<1>13. Released(p)[pdir[p]] >= 1
  <2>1. "pdir" \in StructureNames /\ Structure(p, "pdir") = pdir[p]
    BY DEF StructureNames, Structure
  <2> QED
    BY <1>12, <2>1
<1> QED
  BY <1>8, <1>9, <1>11, <1>12, <1>13 DEF Clear

-----------------------------------------------------------------------------
(* The frames a program gets.                                              *)

\* The last page of a table in the image of a program, and where the frames of
\* its tables and pages are in the free list.
Last(t) == IF t = "code" THEN CodeLen ELSE IF t = "stack" THEN StackLen ELSE 1
Base(first) == IF first = 1 THEN SpawnBase ELSE ExecBase
At(rc, first, t, i) == FreeList(rc)[Base(first)[t] + Rank(i)]

LEMMA RankOneToOne ==
    ASSUME NEW n \in Nat, n >= 1
    PROVE  /\ \A i \in 0..n : Rank(i) \in 1..(n + 1)
           /\ \A i, j \in 0..n : Rank(i) = Rank(j) => i = j
BY DEF Rank

LEMMA ImagePlaces ==
    /\ \A v \in ImagePages : v \in Pages /\ v = <<v[1], v[2]>> /\ v[1] \in Tables /\ v[2] \in 1..Last(v[1])
    /\ \A t \in Tables : Last(t) \in Nat /\ Last(t) >= 1
BY PagingAssumption DEF ImagePages, Pages, StackPages, HeapPages, Tables, Last

\* No two structures or pages of a program get the same place.
LEMMA PlacesApart ==
    ASSUME NEW first \in {0, 1}, NEW t \in Tables, NEW u \in Tables, NEW i \in 0..Last(t), NEW j \in 0..Last(u)
    PROVE  /\ Base(first)[t] + Rank(i) \in (first + 1)..(SpawnFrames - 1 + first)
           /\ Base(first)[t] + Rank(i) = Base(first)[u] + Rank(j) => t = u /\ i = j
<1>1. CodeLen \in Nat /\ CodeLen >= 1 /\ StackLen \in Nat /\ StackLen >= 1
  BY PagingAssumption
<1>2. /\ Last(t) \in Nat /\ Last(t) >= 1 /\ Last(u) \in Nat /\ Last(u) >= 1
      /\ Rank(i) \in 1..(Last(t) + 1) /\ Rank(j) \in 1..(Last(u) + 1)
  BY ImagePlaces, RankOneToOne
<1>3. t = u /\ Rank(i) = Rank(j) => i = j
  BY <1>2, RankOneToOne
<1>4. /\ first = 0 => /\ Base(first)["code"] = 0 /\ Base(first)["stack"] = CodeLen + 1
                      /\ Base(first)["heap"] = StackLen + CodeLen + 2
      /\ first = 1 => /\ Base(first)["stack"] = 1 /\ Base(first)["code"] = StackLen + 2
                      /\ Base(first)["heap"] = StackLen + CodeLen + 3
  BY DEF Base, SpawnBase, ExecBase
<1>5. /\ Last("code") = CodeLen /\ Last("stack") = StackLen /\ Last("heap") = 1
      /\ SpawnFrames = StackLen + CodeLen + 5 /\ Tables = {"code", "stack", "heap"}
  BY DEF Last, SpawnFrames, Tables
<1> DEFINE ri == Rank(i)
           rj == Rank(j)
<1>6. ri \in 1..(Last(t) + 1) /\ rj \in 1..(Last(u) + 1) /\ (t = u /\ ri = rj => i = j)
  BY <1>2, <1>3
<1> HIDE DEF ri, rj
<1>7. ASSUME NEW x \in Tables, NEW r \in 1..(Last(x) + 1)
      PROVE  Base(first)[x] + r \in (first + 1)..(SpawnFrames - 1 + first)
  <2>1. CASE first = 0
    BY <1>1, <1>4, <1>5, <1>7, <2>1
  <2>2. CASE first = 1
    BY <1>1, <1>4, <1>5, <1>7, <2>2
  <2> QED
    BY <2>1, <2>2
<1>8. ASSUME NEW x \in Tables, NEW y \in Tables, x # y, NEW r \in 1..(Last(x) + 1), NEW z \in 1..(Last(y) + 1)
      PROVE  Base(first)[x] + r # Base(first)[y] + z
  <2>1. CASE first = 0
    BY <1>1, <1>4, <1>5, <1>8, <2>1
  <2>2. CASE first = 1
    BY <1>1, <1>4, <1>5, <1>8, <2>2
  <2> QED
    BY <2>1, <2>2
<1>9. Base(first)[t] \in Int
  BY <1>1, <1>4, <1>5
<1>10. Base(first)[t] + ri = Base(first)[u] + rj => t = u /\ i = j
  <2>1. CASE t = u
    BY <1>2, <1>6, <1>9, <2>1
  <2>2. CASE t # u
    BY <1>6, <1>8, <2>2
  <2> QED
    BY <2>1, <2>2
<1>11. Base(first)[t] + ri \in (first + 1)..(SpawnFrames - 1 + first)
  BY <1>6, <1>7
<1> QED
  BY <1>10, <1>11 DEF ri, rj

\* The frames of a program are free ones, each used once and counted once.
LEMMA ProgramFrames ==
    ASSUME NEW rc \in Counts, NEW first \in {0, 1}, Enough(rc, SpawnFrames - 1 + first)
    PROVE  /\ \A t \in Tables : \A i \in 0..Last(t) :
                 /\ At(rc, first, t, i) \in Frames /\ rc[At(rc, first, t, i)] = 0
                 /\ Taken(rc, SpawnFrames - 1 + first)[At(rc, first, t, i)] = 1
                 /\ first = 1 => At(rc, first, t, i) # alloc_phys_page(rc)
           /\ \A t, u \in Tables : \A i \in 0..Last(t) : \A j \in 0..Last(u) :
                 At(rc, first, t, i) = At(rc, first, u, j) => t = u /\ i = j
           /\ /\ alloc_phys_page(rc) \in Frames /\ rc[alloc_phys_page(rc)] = 0
              /\ Taken(rc, SpawnFrames - 1 + first)[alloc_phys_page(rc)] = 1
<1> DEFINE L == FreeList(rc)
           n == SpawnFrames - 1 + first
           k(t, i) == Base(first)[t] + Rank(i)
           T == Taken(rc, n)
<1>1. n \in Nat /\ n >= 4
  BY PagingAssumption DEF SpawnFrames
<1>2. /\ n <= Len(L) /\ Len(L) \in Nat
      /\ \A i \in 1..Len(L) : L[i] \in Frames /\ rc[L[i]] = 0
      /\ \A i, j \in 1..Len(L) : L[i] = L[j] => i = j
  BY FreeFrames DEF Enough
<1>3. \A i \in 1..n : T[L[i]] = 1
  BY <1>1, TakenCounts
<1>4. alloc_phys_page(rc) = L[1]
  <2>1. Enough(rc, 1)
    BY <1>1, <1>2 DEF Enough
  <2>2. L \in Seq(Frames)
    BY FreeFrames
  <2>3. alloc_phys_page(rc) = Head(L)
    BY <2>1 DEF alloc_phys_page
  <2> HIDE DEF L
  <2> QED
    BY <1>1, <1>2, <2>2, <2>3
<1>5. \A t, u \in Tables : \A i \in 0..Last(t) : \A j \in 0..Last(u) :
        k(t, i) \in (first + 1)..n /\ (k(t, i) = k(u, j) => t = u /\ i = j)
  BY PlacesApart
<1>6. \A t \in Tables : \A i \in 0..Last(t) : k(t, i) \in 1..n /\ k(t, i) \in 1..Len(L) /\ (first = 1 => k(t, i) # 1)
  <2> SUFFICES ASSUME NEW t \in Tables, NEW i \in 0..Last(t)
               PROVE  k(t, i) \in 1..n /\ k(t, i) \in 1..Len(L) /\ (first = 1 => k(t, i) # 1)
    OBVIOUS
  <2>1. k(t, i) \in (first + 1)..n
    BY <1>5
  <2> HIDE DEF k, n, L
  <2> QED
    BY <1>1, <1>2, <2>1
<1>7. \A t \in Tables : \A i \in 0..Last(t) : At(rc, first, t, i) = L[k(t, i)]
  BY DEF At
<1>8. alloc_phys_page(rc) \in Frames /\ rc[alloc_phys_page(rc)] = 0 /\ T[alloc_phys_page(rc)] = 1
      /\ 1 \in 1..Len(L)
  BY <1>1, <1>2, <1>3, <1>4
<1> HIDE DEF L, k, T, n
<1>9. \A t \in Tables : \A i \in 0..Last(t) :
        /\ At(rc, first, t, i) \in Frames /\ rc[At(rc, first, t, i)] = 0
        /\ T[At(rc, first, t, i)] = 1
        /\ first = 1 => At(rc, first, t, i) # alloc_phys_page(rc)
  BY <1>2, <1>3, <1>4, <1>6, <1>7, <1>8
<1>10. \A t, u \in Tables : \A i \in 0..Last(t) : \A j \in 0..Last(u) :
         At(rc, first, t, i) = At(rc, first, u, j) => t = u /\ i = j
  BY <1>2, <1>5, <1>6, <1>7
<1> QED
  BY <1>8, <1>9, <1>10 DEF T, n

-----------------------------------------------------------------------------
(* Loading a program.                                                      *)

\* SharedReadOnly, of any page table entries.
ReadOnlyShared(pg) ==
    \A f \in Frames : \A q, r \in Procs : \A v, w \in Pages :
        <<q, v>> \in Mapped(pg, f) /\ <<r, w>> \in Mapped(pg, f) /\ <<q, v>> # <<r, w>> => ~pg[q][v].rw

LEMMA SharedIff ==
    (SharedReadOnly <=> ReadOnlyShared(pages)) /\ (SharedReadOnly' <=> ReadOnlyShared(pages'))
<1>1. ASSUME NEW pg, NEW f
      PROVE  (\A m, n \in Mapped(pg, f) : m # n => ~pg[m[1]][m[2]].rw)
             <=> (\A q, r \in Procs : \A v, w \in Pages :
                    <<q, v>> \in Mapped(pg, f) /\ <<r, w>> \in Mapped(pg, f) /\ <<q, v>> # <<r, w>> => ~pg[q][v].rw)
  <2>1. \A m \in Mapped(pg, f) : \E q \in Procs : \E v \in Pages : m = <<q, v>>
    BY MappedIff
  <2>2. \A q, v : <<q, v>>[1] = q /\ <<q, v>>[2] = v
    OBVIOUS
  <2> DEFINE M == Mapped(pg, f)
             A == \A m, n \in M : m # n => ~pg[m[1]][m[2]].rw
             B == \A q, r \in Procs : \A v, w \in Pages :
                    <<q, v>> \in M /\ <<r, w>> \in M /\ <<q, v>> # <<r, w>> => ~pg[q][v].rw
  <2> HIDE DEF M
  <2>3. ASSUME A PROVE B
    BY <2>2, <2>3
  <2>4. ASSUME B, NEW m \in M, NEW k \in M, m # k PROVE ~pg[m[1]][m[2]].rw
    <3>1. PICK q \in Procs, v \in Pages : m = <<q, v>>
      BY <2>1 DEF M
    <3>2. PICK r \in Procs, w \in Pages : k = <<r, w>>
      BY <2>1 DEF M
    <3>3. m[1] = q /\ m[2] = v
      BY <2>2, <3>1
    <3> QED
      BY <2>4, <3>1, <3>2, <3>3
  <2> QED
    BY <2>3, <2>4 DEF M
<1>2. SharedReadOnly <=> \A f \in Frames : \A m, n \in Mapped(pages, f) : m # n => ~pages[m[1]][m[2]].rw
  BY Zenon DEF SharedReadOnly, Mappings, Mapped
<1>3. SharedReadOnly' <=> \A f \in Frames : \A m, n \in Mapped(pages', f) : m # n => ~pages'[m[1]][m[2]].rw
  BY Zenon DEF SharedReadOnly, Mappings, Mapped
<1>4. SharedReadOnly <=> ReadOnlyShared(pages)
  BY <1>1, <1>2 DEF ReadOnlyShared
<1>5. SharedReadOnly' <=> ReadOnlyShared(pages')
  BY <1>1, <1>3 DEF ReadOnlyShared
<1> QED
  BY <1>4, <1>5

Entries == [present : BOOLEAN, rw : BOOLEAN, frame : Frames]

LEMMA EntryType ==
    /\ \A f \in Frames : /\ Entry(f) \in Entries /\ Entry(f).present /\ Entry(f).rw
                         /\ Entry(f).frame = f
    /\ Absent \in Entries /\ ~Absent.present
BY PagingAssumption DEF Entry, Absent, Entries, Frames

LEMMA LoadStep ==
    ASSUME PagingInv, NEW p \in Procs, NEW rc, Clear(p, rc), NEW first \in {0, 1}, NEW n, n = SpawnFrames - 1 + first,
           Enough(rc, n), NEW x \in Values, Loaded(p, rc, Base(first), n, x),
           status' \in [Procs -> {"free", "alive", "dead"}], status'[p] # "free",
           \A q \in Procs \ {p} : status'[q] = status[q],
           pdir' \in [Procs -> Frames], \A q \in Procs \ {p} : pdir'[q] = pdir[q],
           first = 1 => pdir'[p] = alloc_phys_page(rc),
           first = 0 => pdir'[p] = pdir[p] /\ status[p] # "free" /\ rc[pdir[p]] >= 1,
           proc_pid' \in 1..MaxPid
    PROVE  PagingInv' /\ View' = [View EXCEPT ![p] = Image(x)]
<1> DEFINE a(t, i) == At(rc, first, t, i)
           T == Taken(rc, n)
<1>1. /\ TypeOK /\ StructuresApart /\ MappingsCounted /\ SharedReadOnly /\ PagesBounded
      /\ rc \in Counts /\ n \in Nat
  BY PagingAssumption DEF PagingInv, Clear, SpawnFrames
<1>2. /\ \A t \in Tables : \A i \in 0..Last(t) :
            /\ a(t, i) \in Frames /\ rc[a(t, i)] = 0 /\ T[a(t, i)] = 1
            /\ first = 1 => a(t, i) # alloc_phys_page(rc)
      /\ \A t, u \in Tables : \A i \in 0..Last(t) : \A j \in 0..Last(u) : a(t, i) = a(u, j) => t = u /\ i = j
      /\ alloc_phys_page(rc) \in Frames /\ rc[alloc_phys_page(rc)] = 0 /\ T[alloc_phys_page(rc)] = 1
  BY <1>1, ProgramFrames
<1>3. T \in Counts /\ \A f \in Frames : rc[f] # 0 => T[f] = rc[f]
  BY <1>1, TakenCounts
<1>4. /\ refcount' = T
      /\ tables' = [tables EXCEPT ![p] = [t \in Tables |-> a(t, 0)]]
      /\ pages' = [pages EXCEPT ![p] = [v \in Pages |-> IF v \in ImagePages THEN Entry(a(v[1], v[2])) ELSE Absent]]
      /\ contents' = [f \in Frames |->
              LET vs == {v \in ImagePages : a(v[1], v[2]) = f}
              IN  IF vs = {} THEN Forgotten(rc)[f] ELSE Image(x)[CHOOSE v \in vs : TRUE]]
      /\ ustack' = [ustack EXCEPT ![p] = [v \in StackPages |-> a(v[1], v[2])]]
      /\ heap_end' = [heap_end EXCEPT ![p] = 1]
  BY Zenon DEF Loaded, At
<1> HIDE DEF a, T
\* The frame of a page of the image, and that of a table.
<1> DEFINE g(v) == a(v[1], v[2])
<1>5. /\ \A v \in ImagePages : v \in Pages /\ g(v) \in Frames /\ rc[g(v)] = 0 /\ T[g(v)] = 1
      /\ \A v, w \in ImagePages : g(v) = g(w) => v = w
      /\ \A t \in Tables : /\ a(t, 0) \in Frames /\ rc[a(t, 0)] = 0 /\ T[a(t, 0)] = 1
                           /\ \A v \in ImagePages : g(v) # a(t, 0)
      /\ \A t, u \in Tables : a(t, 0) = a(u, 0) => t = u
  <2>1. \A v \in ImagePages : v \in Pages /\ v = <<v[1], v[2]>> /\ v[1] \in Tables /\ v[2] \in 1..Last(v[1])
    BY ImagePlaces
  <2>2. \A t \in Tables : Last(t) \in Nat /\ 0 \in 0..Last(t)
    BY ImagePlaces
  <2>3. \A v \in ImagePages : v[2] \in 0..Last(v[1]) /\ v[2] # 0
    BY <2>1, <2>2
  <2>4. \A v \in ImagePages : v \in Pages /\ g(v) \in Frames /\ rc[g(v)] = 0 /\ T[g(v)] = 1
    BY <1>2, <2>1, <2>3
  <2>5. ASSUME NEW v \in ImagePages, NEW w \in ImagePages, g(v) = g(w) PROVE v = w
    <3>1. v[1] = w[1] /\ v[2] = w[2]
      BY <1>2, <2>1, <2>3, <2>5
    <3> QED
      BY <2>1, <3>1
  <2>6. ASSUME NEW t \in Tables PROVE /\ a(t, 0) \in Frames /\ rc[a(t, 0)] = 0 /\ T[a(t, 0)] = 1
                                      /\ \A v \in ImagePages : g(v) # a(t, 0)
    BY <1>2, <2>1, <2>2, <2>3
  <2>7. \A t, u \in Tables : a(t, 0) = a(u, 0) => t = u
    BY <1>2, <2>2
  <2> QED
    BY <2>4, <2>5, <2>6, <2>7
<1> HIDE DEF g
<1>6. \A v \in Pages : pages'[p][v] = IF v \in ImagePages THEN Entry(g(v)) ELSE Absent
  BY <1>1, <1>4 DEF TypeOK, g
<1>7. /\ \A q \in Procs \ {p} : pages'[q] = pages[q] /\ tables'[q] = tables[q] /\ heap_end'[q] = heap_end[q]
      /\ \A t \in Tables : tables'[p][t] = a(t, 0)
      /\ heap_end'[p] = 1
  BY <1>1, <1>4 DEF TypeOK
\* What is mapped afterwards.
<1>8. ASSUME NEW f \in Frames, NEW v \in Pages
      PROVE  /\ <<p, v>> \in Mappings(f)' <=> v \in ImagePages /\ g(v) = f
             /\ \A q \in Procs \ {p} : <<q, v>> \in Mappings(f)' <=> <<q, v>> \in Mappings(f)
  <2>1. \A q \in Procs : /\ <<q, v>> \in Mappings(f)' <=> pages'[q][v].present /\ pages'[q][v].frame = f
                         /\ <<q, v>> \in Mappings(f) <=> pages[q][v].present /\ pages[q][v].frame = f
    BY MappedIff, MappingsAreMapped
  <2>2. <<p, v>> \in Mappings(f)' <=> v \in ImagePages /\ g(v) = f
    BY <1>5, <1>6, <2>1, EntryType
  <2> QED
    BY <1>7, <2>1, <2>2
<1>9. ASSUME NEW f \in Frames, rc[f] = 0
      PROVE  /\ f # 0 /\ \A q \in Procs \ {p} : \A v \in Pages : <<q, v>> \notin Mappings(f)
             /\ \A q \in Procs \ {p} : \A s \in StructureNames : status[q] # "free" => Structure(q, s) # f
  BY <1>9, ClearUnused
<1>10. \A f : \A m \in Mappings(f)' : \E q \in Procs : \E v \in Pages : m = <<q, v>>
  BY MappedIff, MappingsAreMapped
<1>11. \A f : \A m \in Mappings(f) : \E q \in Procs : \E v \in Pages : m = <<q, v>>
  BY MappedIff, MappingsAreMapped
\* A frame of the image is mapped there and nowhere else; other frames as before.
<1>12. ASSUME NEW v \in ImagePages PROVE Mappings(g(v))' = {<<p, v>>}
  <2>1. v \in Pages /\ g(v) \in Frames /\ rc[g(v)] = 0
    BY <1>5
  <2>2. <<p, v>> \in Mappings(g(v))'
    BY <1>8, <2>1
  <2>3. ASSUME NEW q \in Procs, NEW w \in Pages, <<q, w>> \in Mappings(g(v))' PROVE q = p /\ w = v
    <3> DEFINE f == g(v)
    <3>1. f \in Frames /\ rc[f] = 0 /\ <<q, w>> \in Mappings(f)'
      BY <2>1, <2>3
    <3> HIDE DEF f
    <3>2. CASE q = p
      <4>1. w \in ImagePages /\ g(w) = f
        BY <1>8, <3>1, <3>2
      <4> QED
        BY <1>5, <3>2, <4>1 DEF f
    <3>3. CASE q # p
      <4>1. q \in Procs \ {p}
        BY <3>3
      <4>2. <<q, w>> \in Mappings(f)
        BY <1>8, <3>1, <4>1
      <4>3. <<q, w>> \notin Mappings(f)
        BY <1>9, <3>1, <4>1
      <4> QED
        BY <4>2, <4>3
    <3> QED
      BY <3>2, <3>3
  <2> QED
    BY <1>10, <2>2, <2>3
<1>13. ASSUME NEW f \in Frames, \A v \in ImagePages : g(v) # f PROVE Mappings(f)' = Mappings(f) \ ({p} \X Pages)
  <2>1. \A q \in Procs : \A v \in Pages : <<q, v>> \in {p} \X Pages <=> q = p
    OBVIOUS
  <2>2. \A q \in Procs : \A v \in Pages :
          <<q, v>> \in Mappings(f)' <=> <<q, v>> \in Mappings(f) \ ({p} \X Pages)
    BY <1>8, <1>13, <2>1
  <2> QED
    BY <1>10, <1>11, <2>2
<1>14. MappingsCounted'
  <2>1. 0 \in Frames /\ rc[0] >= 1 /\ rc[0] # 0 /\ refcount'[0] >= 1
    <3>1. 0 \in Frames /\ rc[0] >= 1
      BY PagingAssumption DEF Clear, Frames
    <3> QED
      BY <1>3, <1>4, <3>1
  <2>2. Mappings(0)' = {}
    <3>1. \A v \in ImagePages : g(v) # 0
      BY <1>5, <2>1
    <3>2. Mappings(0)' = Mappings(0) \ ({p} \X Pages) /\ Mappings(0) = {}
      BY <1>1, <1>13, <2>1, <3>1 DEF MappingsCounted
    <3> QED
      BY <3>2
  <2>3. ASSUME NEW f \in Frames PROVE Cardinality(Mappings(f)') <= refcount'[f]
    <3>1. CASE \E v \in ImagePages : g(v) = f
      <4>1. PICK v \in ImagePages : g(v) = f
        BY <3>1
      <4>2. Mappings(f)' = {<<p, v>>} /\ refcount'[f] = 1
        BY <1>4, <1>5, <1>12, <4>1
      <4>3. Cardinality({<<p, v>>}) = 1
        BY FS_Singleton
      <4> QED
        BY <4>2, <4>3
    <3>2. CASE \A v \in ImagePages : g(v) # f
      <4>1. Mappings(f)' = Mappings(f) \ ({p} \X Pages)
        BY <1>13, <3>2
      <4>2. Cardinality(Mappings(f)') <= rc[f]
        BY <4>1 DEF Clear
      <4>3. IsFiniteSet(Mappings(f)') /\ Cardinality(Mappings(f)') \in Nat
        BY MappedFinite, MappingsAreMapped
      <4>4. T[f] \in Nat /\ rc[f] \in Nat /\ (rc[f] # 0 => T[f] = rc[f])
        BY <1>1, <1>3 DEF Counts
      <4> QED
        BY <1>4, <4>2, <4>3, <4>4
    <3> QED
      BY <3>1, <3>2
  <2> QED
    BY <2>1, <2>2, <2>3 DEF MappingsCounted
<1>15. SharedReadOnly'
  <2> SUFFICES ASSUME NEW f \in Frames, NEW q \in Procs, NEW r \in Procs, NEW v \in Pages, NEW w \in Pages,
                      <<q, v>> \in Mappings(f)', <<r, w>> \in Mappings(f)', <<q, v>> # <<r, w>>
               PROVE  ~pages'[q][v].rw
    BY SharedIff, MappingsAreMapped DEF ReadOnlyShared
  <2>1. \A z \in ImagePages : g(z) # f
    <3> SUFFICES ASSUME NEW z \in ImagePages, g(z) = f PROVE FALSE
      OBVIOUS
    <3>1. Mappings(f)' = {<<p, z>>}
      BY <1>12
    <3> QED
      BY <3>1
  <2>2. q # p /\ r # p
    BY <1>8, <2>1
  <2>3. <<q, v>> \in Mappings(f) /\ <<r, w>> \in Mappings(f)
    BY <1>8, <2>2
  <2>4. ~pages[q][v].rw
    BY <1>1, <2>3, SharedIff, MappingsAreMapped DEF ReadOnlyShared
  <2> QED
    BY <1>7, <2>2, <2>4
<1>16. PagesBounded'
  <2> SUFFICES ASSUME NEW q \in Procs, NEW v \in Pages, pages'[q][v].present
               PROVE  status'[q] # "free" /\ (v[1] = "heap" => v[2] <= heap_end'[q])
    BY DEF PagesBounded
  <2>1. CASE q = p
    <3>1. v \in ImagePages
      BY <1>6, <2>1, EntryType
    <3>2. v[1] = "heap" => v[2] = 1
      BY <3>1 DEF ImagePages
    <3> QED
      BY <1>7, <2>1, <3>2
  <2>2. CASE q # p
    <3>1. pages[q][v].present /\ status'[q] = status[q] /\ heap_end'[q] = heap_end[q]
      BY <1>7, <2>2
    <3> QED
      BY <1>1, <3>1 DEF PagesBounded
  <2> QED
    BY <2>1, <2>2
<1>17. StructuresApart'
  <2> DEFINE Z(q, s) == IF s = "pdir" THEN pdir'[q] ELSE tables'[q][s]
  <2>1. \A q \in Procs : \A s \in StructureNames : Structure(q, s)' = Z(q, s)
    BY DEF Structure
  <2>2. \A q \in Procs \ {p} : \A s \in StructureNames : Z(q, s) = Structure(q, s)
    BY <1>7 DEF Structure
  <2>3. \A s \in StructureNames : s = "pdir" \/ s \in Tables
    BY DEF StructureNames
  <2>4. "pdir" \notin Tables
    BY DEF Tables
  <2>5. \A t \in Tables : Z(p, t) = a(t, 0)
    BY <1>7, <2>4
  <2>6. pdir'[p] = Z(p, "pdir") /\ pdir[p] = Structure(p, "pdir") /\ "pdir" \in StructureNames
    BY DEF Structure, StructureNames
  <2> HIDE DEF Z
  \* The structures of p: fresh, but for a directory that p keeps.
  <2>7. ASSUME NEW s \in StructureNames
        PROVE  /\ Z(p, s) \in Frames /\ refcount'[Z(p, s)] >= 1 /\ \A v \in ImagePages : g(v) # Z(p, s)
               /\ rc[Z(p, s)] = 0 \/ (status[p] # "free" /\ Z(p, s) = Structure(p, "pdir"))
    <3>1. CASE s \in Tables
      BY <1>4, <1>5, <2>5, <3>1
    <3>2. CASE s = "pdir" /\ first = 1
      <4>1. Z(p, s) = alloc_phys_page(rc)
        BY <2>6, <3>2
      <4>2. \A v \in ImagePages : g(v) # alloc_phys_page(rc)
        <5>1. \A v \in ImagePages : v[1] \in Tables /\ v[2] \in 0..Last(v[1])
          BY ImagePlaces
        <5> QED
          BY <1>2, <3>2, <5>1 DEF g
      <4> QED
        BY <1>2, <1>4, <4>1, <4>2
    <3>3. CASE s = "pdir" /\ first = 0
      <4>1. Z(p, s) = pdir[p] /\ status[p] # "free" /\ rc[pdir[p]] >= 1 /\ Z(p, s) = Structure(p, "pdir")
        BY <2>6, <3>3
      <4>2. pdir[p] \in Frames
        BY <1>1 DEF TypeOK
      <4>3. rc[pdir[p]] # 0 /\ T[pdir[p]] >= 1
        BY <1>1, <1>3, <4>1, <4>2 DEF Counts
      <4> QED
        BY <1>4, <1>5, <4>1, <4>2, <4>3
    <3> QED
      BY <2>3, <3>1, <3>2, <3>3
  <2>8. ASSUME NEW s \in StructureNames
        PROVE  /\ Z(p, s) # 0 /\ Mapped(pages', Z(p, s)) = {}
               /\ \A q \in Procs \ {p} : \A t \in StructureNames : status'[q] # "free" => Z(q, t) # Z(p, s)
    <3> DEFINE f == Z(p, s)
    <3>1. /\ f \in Frames /\ \A v \in ImagePages : g(v) # f
          /\ rc[f] = 0 \/ (status[p] # "free" /\ f = Structure(p, "pdir"))
      BY <2>7
    <3> HIDE DEF f
    <3>2. /\ f # 0 /\ \A q \in Procs \ {p} : \A v \in Pages : <<q, v>> \notin Mappings(f)
          /\ \A q \in Procs \ {p} : \A t \in StructureNames : status[q] # "free" => Structure(q, t) # f
      <4>1. CASE rc[f] = 0
        BY <1>9, <3>1, <4>1
      <4>2. CASE status[p] # "free" /\ f = Structure(p, "pdir")
        BY <1>1, <2>6, <4>2 DEF StructuresApart
      <4> QED
        BY <3>1, <4>1, <4>2
    <3>3. \A q \in Procs : \A v \in Pages : <<q, v>> \notin Mapped(pages', f)
      <4> SUFFICES ASSUME NEW q \in Procs, NEW v \in Pages, <<q, v>> \in Mapped(pages', f) PROVE FALSE
        OBVIOUS
      <4>1. \A h \in Frames : \A w \in Pages :
              /\ <<p, w>> \in Mapped(pages', h) => w \in ImagePages /\ g(w) = h
              /\ \A r \in Procs \ {p} : <<r, w>> \in Mapped(pages', h) => <<r, w>> \in Mappings(h)
        BY <1>8, MappingsAreMapped
      <4> QED
        BY <3>1, <3>2, <4>1
    <3>4. Mapped(pages', f) = {}
      BY <3>3, MappedIff
    <3>5. \A q \in Procs \ {p} : \A t \in StructureNames : status'[q] # "free" => Z(q, t) # f
      BY <2>2, <3>2
    <3> QED
      BY <3>2, <3>4, <3>5 DEF f
  <2>9. ASSUME NEW s \in StructureNames, NEW t \in StructureNames, Z(p, s) = Z(p, t) PROVE s = t
    <3>1. \A z \in Tables : Z(p, z) # Z(p, "pdir")
      <4> SUFFICES ASSUME NEW z \in Tables, Z(p, z) = Z(p, "pdir") PROVE FALSE
        OBVIOUS
      <4>1. Z(p, z) = a(z, 0) /\ rc[a(z, 0)] = 0
        BY <1>5, <2>5
      <4>2. CASE first = 1
        <5>1. 0 \in 0..Last(z)
          BY ImagePlaces
        <5> QED
          BY <1>2, <2>6, <4>1, <4>2, <5>1
      <4>3. CASE first = 0
        BY <2>6, <4>1, <4>3
      <4> QED
        BY <4>2, <4>3
    <3>2. \A z, y \in Tables : Z(p, z) = Z(p, y) => z = y
      BY <1>5, <2>5
    <3> QED
      BY <2>3, <2>9, <3>1, <3>2
  <2>10. ASSUME NEW q \in Procs \ {p}, NEW s \in StructureNames, status'[q] # "free"
         PROVE  /\ Z(q, s) # 0 /\ refcount'[Z(q, s)] >= 1 /\ Mapped(pages', Z(q, s)) = {}
                /\ \A r \in Procs \ {p} : \A t \in StructureNames :
                     status'[r] # "free" /\ Z(r, t) = Z(q, s) => r = q /\ t = s
    <3> DEFINE f == Structure(q, s)
    <3>1. f = Z(q, s) /\ status[q] # "free" /\ f \in Frames
      BY <1>1, <2>2, <2>10, StructureType
    <3>2. /\ f # 0 /\ Mappings(f) = {}
          /\ \A r \in Procs : \A t \in StructureNames : status[r] # "free" /\ Structure(r, t) = f => r = q /\ t = s
      BY <1>1, <3>1 DEF StructuresApart
    <3>3. rc[f] >= 1 /\ rc[f] \in Nat
      BY <1>1, <3>1 DEF Clear, Counts
    <3>4. T[f] >= 1
      BY <1>3, <3>1, <3>3
    <3>5. \A v \in ImagePages : g(v) # f
      BY <1>5, <3>3
    <3> HIDE DEF f
    <3>6. Mapped(pages', f) = {}
      <4>1. \A h \in Frames : (\A v \in ImagePages : g(v) # h) => Mapped(pages', h) = Mappings(h) \ ({p} \X Pages)
        BY <1>13, MappingsAreMapped
      <4> QED
        BY <3>1, <3>2, <3>5, <4>1
    <3> QED
      BY <1>4, <2>2, <3>1, <3>2, <3>4, <3>6
  <2> QED
    <3> SUFFICES ASSUME NEW q \in Procs, NEW s \in StructureNames, status'[q] # "free"
                 PROVE  /\ Z(q, s) # 0 /\ refcount'[Z(q, s)] >= 1 /\ Mapped(pages', Z(q, s)) = {}
                        /\ \A r \in Procs : \A t \in StructureNames :
                             status'[r] # "free" /\ Z(r, t) = Z(q, s) => r = q /\ t = s
      BY <2>1 DEF StructuresApart, Mappings, Mapped
    <3>1. CASE q = p
      BY <2>7, <2>8, <2>9, <3>1
    <3>2. CASE q # p
      BY <2>8, <2>10, <3>2
    <3> QED
      BY <3>1, <3>2
\* What is in the frames.
<1>18. ASSUME NEW v \in ImagePages PROVE contents'[g(v)] = Image(x)[v]
  <2>1. {w \in ImagePages : g(w) = g(v)} = {v}
    BY <1>5
  <2>2. (CHOOSE w \in {v} : TRUE) = v
    OBVIOUS
  <2>3. contents'[g(v)] = LET vs == {w \in ImagePages : g(w) = g(v)}
                          IN  IF vs = {} THEN Forgotten(rc)[g(v)] ELSE Image(x)[CHOOSE w \in vs : TRUE]
    BY <1>4, <1>5 DEF g
  <2> QED
    BY <2>1, <2>2, <2>3
<1>19. ASSUME NEW f \in Frames, \A v \in ImagePages : g(v) # f PROVE contents'[f] = IF rc[f] = 0 THEN "zero" ELSE contents[f]
  <2>1. {w \in ImagePages : g(w) = f} = {}
    BY <1>19
  <2>2. contents'[f] = LET vs == {w \in ImagePages : g(w) = f}
                       IN  IF vs = {} THEN Forgotten(rc)[f] ELSE Image(x)[CHOOSE w \in vs : TRUE]
    BY <1>4 DEF g
  <2> QED
    BY <2>1, <2>2 DEF Forgotten
<1>20. TypeOK'
  <2>1. contents' \in [Frames -> Values]
    <3>1. \A v \in ImagePages : Image(x)[v] \in Values
      BY <1>5 DEF Image, Values
    <3>2. "zero" \in Values /\ contents \in [Frames -> Values]
      BY <1>1 DEF Values, TypeOK
    <3>3. \A f \in Frames : contents'[f] \in Values
      BY <1>18, <1>19, <3>1, <3>2
    <3>4. contents' = [f \in Frames |-> contents'[f]]
      BY <1>4
    <3> QED
      BY <3>3, <3>4
  <2>2. tables' \in [Procs -> [Tables -> Frames]]
    BY <1>1, <1>4, <1>5 DEF TypeOK
  <2>3. pages' \in [Procs -> [Pages -> Entries]]
    <3> DEFINE m == [v \in Pages |-> IF v \in ImagePages THEN Entry(g(v)) ELSE Absent]
    <3>1. m \in [Pages -> Entries]
      BY <1>5, EntryType
    <3>2. pages' = [pages EXCEPT ![p] = m] /\ pages \in [Procs -> [Pages -> Entries]]
      BY <1>1, <1>4 DEF TypeOK, Entries, g
    <3> HIDE DEF m
    <3> QED
      BY <3>1, <3>2
  <2>4. ustack' \in [Procs -> [StackPages -> Frames]]
    <3>1. \A v \in StackPages : v \in ImagePages
      BY DEF StackPages, ImagePages, Pages
    <3>2. \A v \in StackPages : g(v) \in Frames
      BY <1>5, <3>1
    <3>3. ustack' = [ustack EXCEPT ![p] = [v \in StackPages |-> g(v)]]
      BY <1>4 DEF g
    <3> QED
      BY <1>1, <3>2, <3>3 DEF TypeOK
  <2>5. heap_end' \in [Procs -> 0..HeapMax]
    BY <1>1, <1>4, PagingAssumption DEF TypeOK
  <2>6. refcount' \in [Frames -> 0..(RefLimit - 1)]
    BY <1>3, <1>4 DEF Counts
  <2> QED
    BY <2>1, <2>2, <2>3, <2>4, <2>5, <2>6 DEF TypeOK, Entries
<1>21. View' = [View EXCEPT ![p] = Image(x)]
  <2>1. \A v \in Pages : View'[p][v] = Image(x)[v]
    <3> SUFFICES ASSUME NEW v \in Pages PROVE View'[p][v] = Image(x)[v]
      OBVIOUS
    <3>1. View'[p][v] = IF pages'[p][v].present THEN contents'[pages'[p][v].frame] ELSE NoPage
      BY DEF View
    <3>2. CASE v \in ImagePages
      BY <1>5, <1>6, <1>18, <3>1, <3>2, EntryType
    <3>3. CASE v \notin ImagePages
      BY <1>6, <3>1, <3>3, EntryType DEF Image
    <3> QED
      BY <3>2, <3>3
  <2>2. ASSUME NEW q \in Procs \ {p}, NEW v \in Pages PROVE View'[q][v] = View[q][v]
    <3>1. /\ View'[q][v] = IF pages[q][v].present THEN contents'[pages[q][v].frame] ELSE NoPage
          /\ View[q][v] = IF pages[q][v].present THEN contents[pages[q][v].frame] ELSE NoPage
      BY <1>7 DEF View
    <3>2. CASE pages[q][v].present
      <4> DEFINE f == pages[q][v].frame
      <4>1. f \in Frames /\ <<q, v>> \in Mappings(f)
        BY <1>1, <3>2, MappedIff, MappingsAreMapped DEF TypeOK
      <4> HIDE DEF f
      <4>2. rc[f] # 0
        BY <1>9, <4>1
      <4>3. \A w \in ImagePages : g(w) # f
        BY <1>5, <4>2
      <4>4. contents'[f] = contents[f]
        BY <1>19, <4>1, <4>2, <4>3
      <4> QED
        BY <3>1, <4>4 DEF f
    <3> QED
      BY <3>1, <3>2
  <2>3. Image(x) = [v \in Pages |-> Image(x)[v]]
    BY DEF Image
  <2>4. /\ View = [q \in Procs |-> [v \in Pages |-> View[q][v]]]
        /\ View' = [q \in Procs |-> [v \in Pages |-> View'[q][v]]]
    BY DEF View
  <2> HIDE DEF View, Image
  <2>5. \A q \in Procs : View'[q] = IF q = p THEN Image(x) ELSE View[q]
    BY <2>1, <2>2, <2>3, <2>4
  <2> QED
    BY <2>4, <2>5
<1> QED
  BY <1>14, <1>15, <1>16, <1>17, <1>20, <1>21 DEF PagingInv

LEMMA StaleIsValue ==
    Stale \subseteq Values
BY PagingAssumption DEF Values

LEMMA SpawnStep ==
    ASSUME PagingInv, NEW p \in Procs, NEW x \in Stale, loader_spawn(p, x)
    PROVE  PagingInv' /\ View' = [View EXCEPT ![p] = Image(x)]
<1>1. TypeOK /\ status[p] = "free" /\ Clear(p, refcount)
  BY ClearFree DEF PagingInv, loader_spawn, Started
<1>2. SpawnFrames = SpawnFrames - 1 + 1 /\ Base(1) = SpawnBase /\ 1 \in {0, 1}
  BY PagingAssumption DEF SpawnFrames, Base
<1>3. /\ Enough(refcount, SpawnFrames) /\ Loaded(p, refcount, Base(1), SpawnFrames, x)
      /\ pdir' = [pdir EXCEPT ![p] = alloc_phys_page(refcount)]
      /\ status' = [status EXCEPT ![p] = "alive"] /\ proc_pid' = proc_pid + 1 /\ proc_pid < MaxPid
  BY <1>2 DEF loader_spawn, Started
<1>4. alloc_phys_page(refcount) \in Frames
  <2>1. refcount \in Counts /\ Enough(refcount, SpawnFrames - 1 + 1)
    BY <1>1, <1>2, <1>3 DEF Clear
  <2> QED
    BY <2>1, <1>2, ProgramFrames
<1>5. /\ status' \in [Procs -> {"free", "alive", "dead"}] /\ status'[p] # "free"
      /\ \A q \in Procs \ {p} : status'[q] = status[q]
      /\ pdir' \in [Procs -> Frames] /\ \A q \in Procs \ {p} : pdir'[q] = pdir[q]
      /\ pdir'[p] = alloc_phys_page(refcount)
  BY <1>1, <1>3, <1>4 DEF TypeOK
<1>6. proc_pid' \in 1..MaxPid
  BY <1>1, <1>3, PagingAssumption DEF TypeOK
<1>7. (1 = 1 => pdir'[p] = alloc_phys_page(refcount)) /\ 1 # 0
  BY <1>5
<1>8. x \in Values
  BY StaleIsValue
<1> QED
  BY ONLY PagingInv, p \in Procs, <1>8, <1>1, <1>2, <1>3, <1>5, <1>6, <1>7, LoadStep

LEMMA ExecStep ==
    ASSUME PagingInv, NEW p \in Procs, NEW x \in Stale, loader_exec(p, x)
    PROVE  PagingInv' /\ View' = [View EXCEPT ![p] = Image(x)]
<1>1. TypeOK /\ status[p] # "free"
  BY DEF PagingInv, loader_exec, Alive
<1>2. Clear(p, Released(p)) /\ Released(p)[pdir[p]] >= 1
  BY <1>1, ClearReleased
<1>3. SpawnFrames - 1 = SpawnFrames - 1 + 0 /\ Base(0) = ExecBase /\ 0 \in {0, 1}
  BY PagingAssumption DEF SpawnFrames, Base
<1>4. /\ Enough(Released(p), SpawnFrames - 1) /\ Loaded(p, Released(p), Base(0), SpawnFrames - 1, x)
      /\ UNCHANGED <<pdir, proc_pid, status>>
  BY <1>3 DEF loader_exec
<1>5. /\ status' \in [Procs -> {"free", "alive", "dead"}] /\ status'[p] # "free"
      /\ \A q \in Procs \ {p} : status'[q] = status[q]
      /\ pdir' \in [Procs -> Frames] /\ \A q \in Procs \ {p} : pdir'[q] = pdir[q]
      /\ pdir'[p] = pdir[p] /\ proc_pid' \in 1..MaxPid
  BY <1>1, <1>4 DEF TypeOK
<1>6. 0 # 1
  OBVIOUS
<1> DEFINE rc == Released(p)
<1>7. Clear(p, rc) /\ rc[pdir[p]] >= 1 /\ Enough(rc, SpawnFrames - 1) /\ Loaded(p, rc, Base(0), SpawnFrames - 1, x)
  BY <1>2, <1>4
<1>8. x \in Values
  BY StaleIsValue
<1> HIDE DEF rc
<1> QED
  BY ONLY PagingInv, p \in Procs, <1>8, <1>1, <1>3, <1>5, <1>6, <1>7, LoadStep

\* proc_destroy takes nothing from the others.
LEMMA DestroyStep ==
    ASSUME PagingInv, NEW p \in Procs, proc_destroy(p)
    PROVE  PagingInv' /\ View' = [View EXCEPT ![p] = [v \in Pages |-> NoPage]]
<1> DEFINE rc == [Released(p) EXCEPT ![pdir[p]] = 0]
<1>1. /\ TypeOK /\ StructuresApart /\ MappingsCounted /\ SharedReadOnly /\ PagesBounded /\ status[p] # "free"
      /\ refcount' = rc /\ pdir' = [pdir EXCEPT ![p] = 0] /\ tables' = [tables EXCEPT ![p] = NoTables]
      /\ pages' = [pages EXCEPT ![p] = NoPages] /\ ustack' = [ustack EXCEPT ![p] = NoStack]
      /\ heap_end' = [heap_end EXCEPT ![p] = 0] /\ status' = [status EXCEPT ![p] = "free"]
      /\ contents' = Forgotten(refcount') /\ proc_pid' = proc_pid
  BY DEF PagingInv, proc_destroy
<1>2. Clear(p, Released(p))
  BY <1>1, ClearReleased
<1>3. 0 \in Frames /\ 0 \in 0..(RefLimit - 1) /\ 0 \in 0..HeapMax /\ pdir[p] \in Frames
  BY <1>1, PagingAssumption DEF Frames, TypeOK
<1>4. /\ pdir[p] # 0 /\ Mappings(pdir[p]) = {}
      /\ \A q \in Procs \ {p} : \A s \in StructureNames : status[q] # "free" => Structure(q, s) # pdir[p]
  <2>1. "pdir" \in StructureNames /\ Structure(p, "pdir") = pdir[p]
    BY DEF StructureNames, Structure
  <2> QED
    BY <1>1, <2>1 DEF StructuresApart
\* The counts are clear of p, and so are the frames.
<1>5. Clear(p, rc)
  <2>1. rc \in Counts /\ \A f \in Frames : f # pdir[p] => rc[f] = Released(p)[f]
    BY <1>2, <1>3 DEF Clear, Counts
  <2>2. rc[0] >= 1
    BY <1>2, <1>3, <1>4, <2>1 DEF Clear
  <2>3. rc[pdir[p]] = 0
    BY <1>2, <1>3 DEF Clear, Counts
  <2> HIDE DEF rc
  <2>4. ASSUME NEW f \in Frames PROVE Cardinality(Mappings(f) \ ({p} \X Pages)) <= rc[f]
    <3>1. CASE f = pdir[p]
      <4>1. Mappings(f) \ ({p} \X Pages) = {} /\ Cardinality({}) = 0
        BY <1>4, <3>1, FS_EmptySet
      <4> QED
        BY <2>3, <3>1, <4>1
    <3>2. CASE f # pdir[p]
      BY <1>2, <2>1, <3>2 DEF Clear
    <3> QED
      BY <3>1, <3>2
  <2>5. ASSUME NEW q \in Procs \ {p}, NEW s \in StructureNames, status[q] # "free" PROVE rc[Structure(q, s)] >= 1
    <3>1. Structure(q, s) \in Frames /\ Structure(q, s) # pdir[p] /\ Released(p)[Structure(q, s)] >= 1
      BY <1>1, <1>2, <1>4, <2>5, StructureType DEF Clear
    <3> QED
      BY <2>1, <3>1
  <2> QED
    BY <2>1, <2>2, <2>4, <2>5 DEF Clear
<1> HIDE DEF rc
<1>6. rc \in Counts
  BY <1>5 DEF Clear
<1>7. /\ \A q \in Procs \ {p} : /\ pages'[q] = pages[q] /\ tables'[q] = tables[q] /\ heap_end'[q] = heap_end[q]
                                /\ pdir'[q] = pdir[q] /\ status'[q] = status[q]
      /\ status'[p] = "free" /\ pages'[p] = NoPages
  BY <1>1 DEF TypeOK
<1>8. \A v \in Pages : ~pages'[p][v].present
  BY <1>7, EntryType DEF NoPages
<1>9. ASSUME NEW f PROVE Mapped(pages', f) = Mapped(pages, f) \ ({p} \X Pages)
  <2>2. \A q \in Procs : \A v \in Pages : <<q, v>> \in {p} \X Pages <=> q = p
    OBVIOUS
  <2>3. ASSUME NEW q \in Procs, NEW v \in Pages
        PROVE  <<q, v>> \in Mapped(pages', f) <=> <<q, v>> \in Mapped(pages, f) \ ({p} \X Pages)
    <3>0. /\ <<q, v>> \in Mapped(pages', f) <=> pages'[q][v].present /\ pages'[q][v].frame = f
          /\ <<q, v>> \in Mapped(pages, f) <=> pages[q][v].present /\ pages[q][v].frame = f
      BY MappedIff
    <3>1. CASE q = p
      BY <1>8, <3>0, <2>2, <3>1
    <3>2. CASE q # p
      <4>1. pages'[q] = pages[q]
        BY <1>7, <3>2
      <4>2. <<q, v>> \in Mapped(pages', f) <=> <<q, v>> \in Mapped(pages, f)
        BY <3>0, <4>1
      <4> QED
        BY <2>2, <3>2, <4>2
    <3> QED
      BY <3>1, <3>2
  <2>4. /\ \A m \in Mapped(pages', f) : \E q \in Procs : \E v \in Pages : m = <<q, v>>
        /\ \A m \in Mapped(pages, f) : \E q \in Procs : \E v \in Pages : m = <<q, v>>
    BY MappedIff
  <2> QED
    BY <2>3, <2>4
<1>10. \A f : Mappings(f) = Mapped(pages, f)
  BY MappingsAreMapped
<1>11. \A f \in Frames : contents'[f] = IF rc[f] = 0 THEN "zero" ELSE contents[f]
  BY <1>1 DEF Forgotten
<1>12. TypeOK'
  <2>1. contents' \in [Frames -> Values]
    BY <1>1, <1>11 DEF TypeOK, Forgotten, Values
  <2>2. refcount' \in [Frames -> 0..(RefLimit - 1)]
    BY <1>1, <1>6 DEF Counts
  <2>3. pages' \in [Procs -> [Pages -> Entries]]
    BY <1>1, EntryType DEF TypeOK, NoPages, Entries
  <2>4. tables' \in [Procs -> [Tables -> Frames]] /\ ustack' \in [Procs -> [StackPages -> Frames]]
    BY <1>1, <1>3 DEF TypeOK, NoTables, NoStack
  <2> QED
    BY <1>1, <1>3, <2>1, <2>2, <2>3, <2>4 DEF TypeOK, Entries
<1>13. MappingsCounted'
  <2>1. Mappings(0)' = {} /\ refcount'[0] >= 1
    BY <1>1, <1>5, <1>9, <1>10, MappingsAreMapped DEF MappingsCounted, Clear
  <2>2. \A f \in Frames : Cardinality(Mapped(pages', f)) <= refcount'[f]
    BY <1>1, <1>5, <1>9, <1>10 DEF Clear
  <2>3. \A f \in Frames : Mappings(f)' = Mapped(pages', f)
    BY MappingsAreMapped
  <2> QED
    BY <2>1, <2>2, <2>3 DEF MappingsCounted
<1>14. SharedReadOnly'
  <2>1. ReadOnlyShared(pages)
    BY <1>1, SharedIff
  <2>2. \A q \in Procs : \A v \in Pages : <<q, v>> \in {p} \X Pages <=> q = p
    OBVIOUS
  <2>3. ReadOnlyShared(pages')
    BY <1>7, <1>9, <2>1, <2>2 DEF ReadOnlyShared
  <2> QED
    BY <2>3, SharedIff
<1>15. PagesBounded'
  BY <1>1, <1>7, <1>8 DEF PagesBounded
<1>16. StructuresApart'
  <2>1. \A q \in Procs \ {p} : \A s \in StructureNames : Structure(q, s)' = Structure(q, s)
    BY <1>7 DEF Structure
  <2>2. ASSUME NEW q \in Procs, NEW s \in StructureNames, status'[q] # "free"
        PROVE  /\ q # p /\ Structure(q, s) # 0 /\ refcount'[Structure(q, s)] >= 1
               /\ Mapped(pages', Structure(q, s)) = {}
               /\ \A r \in Procs \ {p} : \A t \in StructureNames :
                     status'[r] # "free" /\ Structure(r, t) = Structure(q, s) => r = q /\ t = s
    <3>1. q # p /\ status[q] # "free"
      BY <1>7, <2>2
    <3>2. /\ Structure(q, s) # 0 /\ Mapped(pages, Structure(q, s)) = {}
          /\ \A r \in Procs : \A t \in StructureNames :
               status[r] # "free" /\ Structure(r, t) = Structure(q, s) => r = q /\ t = s
      BY <1>1, <1>10, <3>1 DEF StructuresApart
    <3>3. rc[Structure(q, s)] >= 1
      BY <1>5, <3>1 DEF Clear
    <3> QED
      BY <1>1, <1>7, <1>9, <3>1, <3>2, <3>3
  <2>3. \A q \in Procs : \A s \in StructureNames : Mappings(Structure(q, s))' = Mapped(pages', Structure(q, s)')
    BY DEF Mappings, Mapped
  <2> QED
    <3> SUFFICES ASSUME NEW q \in Procs, NEW s \in StructureNames, status'[q] # "free"
                 PROVE  /\ Structure(q, s)' # 0 /\ refcount'[Structure(q, s)'] >= 1
                        /\ Mappings(Structure(q, s))' = {}
                        /\ \A r \in Procs : \A t \in StructureNames :
                              status'[r] # "free" /\ Structure(r, t)' = Structure(q, s)' => r = q /\ t = s
      BY DEF StructuresApart
    <3> QED
      BY <2>1, <2>2, <2>3, <1>7
<1>17. View' = [View EXCEPT ![p] = [v \in Pages |-> NoPage]]
  <2>1. \A v \in Pages : View'[p][v] = NoPage
    BY <1>8 DEF View
  <2>2. ASSUME NEW q \in Procs \ {p}, NEW v \in Pages PROVE View'[q][v] = View[q][v]
    <3>1. /\ View'[q][v] = IF pages[q][v].present THEN contents'[pages[q][v].frame] ELSE NoPage
          /\ View[q][v] = IF pages[q][v].present THEN contents[pages[q][v].frame] ELSE NoPage
      BY <1>7 DEF View
    <3>2. CASE pages[q][v].present
      <4> DEFINE f == pages[q][v].frame
      <4>1. f \in Frames /\ <<q, v>> \in Mappings(f)
        BY <1>1, <3>2, MappedIff, MappingsAreMapped DEF TypeOK
      <4> HIDE DEF f
      <4>2. rc[f] # 0
        BY <1>5, <4>1, ClearUnused
      <4>3. contents'[f] = contents[f]
        BY <1>11, <4>1, <4>2
      <4> QED
        BY <3>1, <4>3 DEF f
    <3> QED
      BY <3>1, <3>2
  <2>3. /\ View = [q \in Procs |-> [v \in Pages |-> View[q][v]]]
        /\ View' = [q \in Procs |-> [v \in Pages |-> View'[q][v]]]
    BY DEF View
  <2> HIDE DEF View
  <2>4. \A q \in Procs : View'[q] = IF q = p THEN [v \in Pages |-> NoPage] ELSE View[q]
    BY <2>1, <2>2, <2>3
  <2> QED
    BY <2>3, <2>4
<1> QED
  BY <1>12, <1>13, <1>14, <1>15, <1>16, <1>17 DEF PagingInv

-----------------------------------------------------------------------------
(* Writing, growing and forking.                                           *)

\* Structures stay apart when no frame of theirs comes to be mapped or uncounted.
LEMMA StructuresKept ==
    ASSUME TypeOK, StructuresApart, UNCHANGED <<pdir, tables, status>>,
           \A q \in Procs : \A s \in StructureNames : status[q] # "free" =>
              refcount'[Structure(q, s)] >= 1 /\ Mapped(pages', Structure(q, s)) = {}
    PROVE  StructuresApart'
<1>1. \A q \in Procs : \A s \in StructureNames : Structure(q, s)' = Structure(q, s)
  BY DEF Structure
<1>2. \A q \in Procs : \A s \in StructureNames : Mappings(Structure(q, s))' = Mapped(pages', Structure(q, s)')
  BY DEF Mappings, Mapped
<1> SUFFICES ASSUME NEW q \in Procs, NEW s \in StructureNames, status'[q] # "free"
             PROVE  /\ Structure(q, s)' # 0 /\ refcount'[Structure(q, s)'] >= 1
                    /\ Mappings(Structure(q, s))' = {}
                    /\ \A r \in Procs : \A t \in StructureNames :
                          status'[r] # "free" /\ Structure(r, t)' = Structure(q, s)' => r = q /\ t = s
  BY DEF StructuresApart
<1> QED
  BY <1>1, <1>2 DEF StructuresApart

\* Page v of p comes to map the frame new, free in rc, with x in it.
FreshMap(p, v, rc, new, x) ==
    /\ status[p] # "free" /\ rc \in Counts /\ rc[0] >= 1
    /\ \A f \in Frames : Cardinality(Mappings(f) \ {<<p, v>>}) <= rc[f]
    /\ \A q \in Procs : \A s \in StructureNames : status[q] # "free" => rc[Structure(q, s)] >= 1
    /\ new \in Frames /\ rc[new] = 0
    /\ refcount' \in Counts /\ \A f \in Frames : refcount'[f] = IF f = new THEN 1 ELSE rc[f]
    /\ contents' = [contents EXCEPT ![new] = x]
    /\ pages' = [pages EXCEPT ![p] = [pages[p] EXCEPT ![v] = Entry(new)]]
    /\ heap_end' \in [Procs -> 0..HeapMax] /\ \A q \in Procs : heap_end'[q] >= heap_end[q]
    /\ v[1] = "heap" => v[2] <= heap_end'[p]
    /\ UNCHANGED <<pdir, tables, ustack, proc_pid, status>>

\* Nothing else maps it.
LEMMA MapFresh ==
    ASSUME PagingInv, NEW p \in Procs, NEW v \in Pages, NEW rc, NEW new, NEW x \in Values,
           FreshMap(p, v, rc, new, x)
    PROVE  PagingInv' /\ View' = [View EXCEPT ![p] = [View[p] EXCEPT ![v] = x]]
<1>0. /\ status[p] # "free" /\ rc \in Counts /\ rc[0] >= 1
      /\ \A f \in Frames : Cardinality(Mappings(f) \ {<<p, v>>}) <= rc[f]
      /\ \A q \in Procs : \A s \in StructureNames : status[q] # "free" => rc[Structure(q, s)] >= 1
      /\ new \in Frames /\ rc[new] = 0
      /\ refcount' \in Counts /\ \A f \in Frames : refcount'[f] = IF f = new THEN 1 ELSE rc[f]
      /\ contents' = [contents EXCEPT ![new] = x]
      /\ pages' = [pages EXCEPT ![p] = [pages[p] EXCEPT ![v] = Entry(new)]]
      /\ heap_end' \in [Procs -> 0..HeapMax] /\ \A q \in Procs : heap_end'[q] >= heap_end[q]
      /\ v[1] = "heap" => v[2] <= heap_end'[p]
      /\ UNCHANGED <<pdir, tables, ustack, proc_pid, status>>
  BY DEF FreshMap
<1> USE <1>0
<1>1. TypeOK /\ StructuresApart /\ MappingsCounted /\ SharedReadOnly /\ PagesBounded
  BY DEF PagingInv
<1>2. /\ \A q \in Procs : \A w \in Pages : <<q, w>> # <<p, v>> => pages'[q][w] = pages[q][w]
      /\ pages'[p][v] = Entry(new)
  BY <1>1 DEF TypeOK
<1>3. Mappings(new) \ {<<p, v>>} = {}
  <2> DEFINE M == Mappings(new) \ {<<p, v>>}
  <2>1. Cardinality(M) <= 0
    OBVIOUS
  <2>2. IsFiniteSet(Mappings(new))
    BY MappedFinite, MappingsAreMapped
  <2>3. IsFiniteSet(M)
    BY <2>2, FS_RemoveElement
  <2>4. Cardinality(M) \in Nat
    BY <2>3, FS_CardinalityType
  <2> HIDE DEF M
  <2>5. M = {}
    BY <2>1, <2>3, <2>4, FS_EmptySet
  <2> QED
    BY <2>5 DEF M
<1>4. new # 0 /\ \A q \in Procs : \A s \in StructureNames : status[q] # "free" => Structure(q, s) # new
  OBVIOUS
<1>5. ASSUME NEW f \in Frames PROVE Mapped(pages', f) = IF f = new THEN {<<p, v>>} ELSE Mapped(pages, f) \ {<<p, v>>}
  <2>1. ASSUME NEW q \in Procs, NEW w \in Pages
        PROVE  <<q, w>> \in Mapped(pages', f) <=> IF f = new THEN <<q, w>> = <<p, v>>
                                                  ELSE <<q, w>> \in Mapped(pages, f) /\ <<q, w>> # <<p, v>>
    <3>1. <<q, w>> \in Mapped(pages', f) <=> pages'[q][w].present /\ pages'[q][w].frame = f
      BY ONLY MappedAt, q \in Procs, w \in Pages
    <3>2. <<q, w>> \in Mapped(pages, f) <=> pages[q][w].present /\ pages[q][w].frame = f
      BY ONLY MappedAt, q \in Procs, w \in Pages
    <3>3. CASE <<q, w>> = <<p, v>>
      <4>1. q = p /\ w = v
        BY <3>3
      <4> QED
        BY <1>2, <3>1, <3>3, <4>1, EntryType
    <3>4. CASE <<q, w>> # <<p, v>>
      <4>1. pages'[q][w] = pages[q][w]
        BY <1>2, <3>4
      <4>2. f = new => <<q, w>> \notin Mapped(pages, f)
        BY <1>3, <3>4, MappingsAreMapped
      <4> QED
        BY <3>1, <3>2, <3>4, <4>1, <4>2
    <3> QED
      BY <3>3, <3>4
  <2>2. /\ \A m \in Mapped(pages', f) : \E q \in Procs : \E w \in Pages : m = <<q, w>>
        /\ \A m \in Mapped(pages, f) : \E q \in Procs : \E w \in Pages : m = <<q, w>>
    BY MappedIff
  <2>3. CASE f = new
    <3>1. \A m \in Mapped(pages', f) : m = <<p, v>>
      BY ONLY <2>1, <2>2, <2>3
    <3>2. <<p, v>> \in Mapped(pages', f)
      BY ONLY <2>1, <2>3, p \in Procs, v \in Pages
    <3> QED
      BY ONLY <2>3, <3>1, <3>2
  <2>4. CASE f # new
    <3>1. \A m \in Mapped(pages', f) : m \in Mapped(pages, f) \ {<<p, v>>}
      BY ONLY <2>1, <2>2, <2>4
    <3>2. \A m \in Mapped(pages, f) : m # <<p, v>> => m \in Mapped(pages', f)
      BY ONLY <2>1, <2>2, <2>4
    <3> QED
      BY ONLY <2>4, <3>1, <3>2
  <2> QED
    BY <2>3, <2>4
<1>6. /\ \A f : Mappings(f) = Mapped(pages, f)
      /\ \A f \in Frames : Mappings(f)' = Mapped(pages', f)
  BY MappingsAreMapped
<1>7. TypeOK'
  <2>1. Entry(new) \in Entries
    BY EntryType
  <2>2. pages' \in [Procs -> [Pages -> Entries]]
    <3>1. pages \in [Procs -> [Pages -> Entries]]
      BY <1>1 DEF TypeOK, Entries
    <3> QED
      BY <2>1, <3>1
  <2>3. contents' \in [Frames -> Values]
    BY <1>1 DEF TypeOK
  <2> QED
    BY <1>1, <2>2, <2>3 DEF TypeOK, Entries, Counts
<1>8. MappingsCounted'
  <2>1. 0 \in Frames
    BY PagingAssumption DEF Frames
  <2>2. Mappings(0)' = {} /\ refcount'[0] >= 1
    BY <1>1, <1>4, <1>5, <1>6, <2>1 DEF MappingsCounted
  <2>3. ASSUME NEW f \in Frames PROVE Cardinality(Mapped(pages', f)) <= refcount'[f]
    <3>1. CASE f = new
      <4>1. Cardinality({<<p, v>>}) = 1
        BY FS_Singleton
      <4>2. Mapped(pages', f) = {<<p, v>>} /\ refcount'[f] = 1
        BY <1>5, <3>1
      <4> QED
        BY ONLY <4>1, <4>2
    <3>2. CASE f # new
      BY <1>5, <1>6, <3>2
    <3> QED
      BY <3>1, <3>2
  <2> QED
    BY <1>6, <2>2, <2>3 DEF MappingsCounted
<1>9. SharedReadOnly'
  <2>1. ReadOnlyShared(pages)
    BY <1>1, SharedIff
  <2>2. ASSUME NEW f \in Frames, NEW q \in Procs, NEW r \in Procs, NEW w \in Pages, NEW u \in Pages,
               <<q, w>> \in Mapped(pages', f), <<r, u>> \in Mapped(pages', f), <<q, w>> # <<r, u>>
        PROVE  ~pages'[q][w].rw
    <3>1. f # new
      BY <1>5, <2>2
    <3>2. <<q, w>> \in Mapped(pages, f) /\ <<r, u>> \in Mapped(pages, f) /\ <<q, w>> # <<p, v>>
      BY <1>5, <2>2, <3>1
    <3>3. ~pages[q][w].rw
      BY <2>1, <2>2, <3>2 DEF ReadOnlyShared
    <3> QED
      BY <1>2, <3>2, <3>3
  <2>3. ReadOnlyShared(pages')
    BY <2>2 DEF ReadOnlyShared
  <2> QED
    BY <2>3, SharedIff
<1>10. PagesBounded'
  <2> SUFFICES ASSUME NEW q \in Procs, NEW w \in Pages, pages'[q][w].present
               PROVE  status'[q] # "free" /\ (w[1] = "heap" => w[2] <= heap_end'[q])
    BY DEF PagesBounded
  <2>1. CASE q = p /\ w = v
    BY <2>1
  <2>2. CASE ~(q = p /\ w = v)
    <3>1. pages[q][w].present
      BY <1>2, <2>2
    <3>2. status[q] # "free" /\ (w[1] = "heap" => w[2] <= heap_end[q])
      BY <1>1, <3>1 DEF PagesBounded
    <3>3. heap_end[q] \in Int /\ heap_end'[q] \in Int /\ heap_end[q] <= heap_end'[q]
      BY <1>1 DEF TypeOK
    <3>4. w[1] = "heap" => w[2] \in Int
      BY DEF Pages, StackPages, HeapPages
    <3> QED
      BY <3>2, <3>3, <3>4
  <2> QED
    BY <2>1, <2>2
<1>11. StructuresApart'
  <2>1. \A q \in Procs : \A s \in StructureNames : Structure(q, s) \in Frames
    BY <1>1, StructureType
  <2>2. ASSUME NEW q \in Procs, NEW s \in StructureNames, status[q] # "free"
        PROVE  refcount'[Structure(q, s)] >= 1 /\ Mapped(pages', Structure(q, s)) = {}
    <3>1. Structure(q, s) \in Frames /\ Structure(q, s) # new /\ Mapped(pages, Structure(q, s)) = {}
      BY <1>1, <1>4, <1>6, <2>1, <2>2 DEF StructuresApart
    <3> QED
      BY <1>5, <2>2, <3>1
  <2> QED
    BY <1>1, <2>2, StructuresKept
<1>12. View' = [View EXCEPT ![p] = [View[p] EXCEPT ![v] = x]]
  <2>1. View'[p][v] = x
    <3>1. View'[p][v] = contents'[new]
      BY <1>2, EntryType DEF View
    <3> QED
      BY <1>1, <3>1 DEF TypeOK
  <2>2. ASSUME NEW q \in Procs, NEW w \in Pages, <<q, w>> # <<p, v>> PROVE View'[q][w] = View[q][w]
    <3>1. /\ View'[q][w] = IF pages[q][w].present THEN contents'[pages[q][w].frame] ELSE NoPage
          /\ View[q][w] = IF pages[q][w].present THEN contents[pages[q][w].frame] ELSE NoPage
      BY <1>2, <2>2 DEF View
    <3>2. CASE pages[q][w].present
      <4> DEFINE f == pages[q][w].frame
      <4>1. f \in Frames /\ <<q, w>> \in Mappings(f)
        BY <1>1, <3>2, MappedIff, MappingsAreMapped DEF TypeOK
      <4> HIDE DEF f
      <4>2. f # new
        BY <1>3, <2>2, <4>1
      <4>3. contents'[f] = contents[f]
        BY <1>1, <4>1, <4>2 DEF TypeOK
      <4> QED
        BY <3>1, <4>3 DEF f
    <3> QED
      BY <3>1, <3>2
  <2>3. /\ View = [q \in Procs |-> [w \in Pages |-> View[q][w]]]
        /\ View' = [q \in Procs |-> [w \in Pages |-> View'[q][w]]]
    BY DEF View
  <2> HIDE DEF View
  <2>4. View'[p] = [View[p] EXCEPT ![v] = x]
    BY <2>1, <2>2, <2>3
  <2>5. \A q \in Procs : q # p => View'[q] = View[q]
    BY <2>2, <2>3
  <2> QED
    BY <2>3, <2>4, <2>5
<1> QED
  BY <1>7, <1>8, <1>9, <1>10, <1>11, <1>12 DEF PagingInv

LEMMA SbrkStep ==
    ASSUME PagingInv, WithinLimits, NEW p \in Procs, NEW x \in Stale, sysc_sbrk(p, x)
    PROVE  /\ PagingInv'
           /\ \E v \in Pages : View[p][v] = NoPage /\ View' = [View EXCEPT ![p] = [View[p] EXCEPT ![v] = x]]
<1> DEFINE v == <<"heap", heap_end[p] + 1>>
           new == alloc_phys_page(refcount)
<1>1. /\ TypeOK /\ MappingsCounted /\ StructuresApart /\ PagesBounded /\ status[p] # "free"
      /\ heap_end[p] < HeapMax /\ Enough(refcount, 1) /\ refcount' = Taken(refcount, 1)
      /\ contents' = [contents EXCEPT ![new] = x] /\ heap_end' = [heap_end EXCEPT ![p] = @ + 1]
      /\ pages' = [pages EXCEPT ![p] = [pages[p] EXCEPT ![v] = Entry(new)]]
      /\ UNCHANGED <<pdir, tables, ustack, proc_pid, status>>
  BY DEF PagingInv, WithinLimits, sysc_sbrk, Alive
<1>2. refcount \in Counts /\ refcount[0] >= 1
  BY <1>1 DEF TypeOK, Counts, MappingsCounted
<1>3. /\ new \in Frames /\ refcount[new] = 0 /\ refcount' \in Counts
      /\ \A f \in Frames : refcount'[f] = IF f = new THEN 1 ELSE refcount[f]
  <2>1. \E f \in Frames : refcount[f] = 0
    BY <1>1, <1>2, EnoughFree
  <2> QED
    BY <1>1, <1>2, <2>1, OneTaken
<1>4. heap_end[p] \in 0..HeapMax /\ heap_end[p] + 1 \in 1..HeapMax
  BY <1>1, PagingAssumption DEF TypeOK
<1>5. v \in Pages /\ v[1] = "heap" /\ v[2] = heap_end[p] + 1
  BY <1>4 DEF Pages, HeapPages
<1>6. /\ heap_end' \in [Procs -> 0..HeapMax] /\ v[2] <= heap_end'[p]
      /\ \A q \in Procs : heap_end'[q] >= heap_end[q]
  BY <1>1, <1>4, <1>5 DEF TypeOK
<1> HIDE DEF v, new
<1>7. ASSUME NEW f \in Frames PROVE Cardinality(Mappings(f) \ {<<p, v>>}) <= refcount[f]
  <2> DEFINE c == Cardinality(Mappings(f))
             d == Cardinality(Mappings(f) \ {<<p, v>>})
  <2>1. IsFiniteSet(Mappings(f)) /\ c \in Nat
    BY MappedFinite, MappingsAreMapped
  <2>2. c <= refcount[f] /\ refcount[f] \in Int
    BY <1>1, <1>2 DEF MappingsCounted, Counts
  <2>3. d = IF <<p, v>> \in Mappings(f) THEN c - 1 ELSE c
    BY <2>1, FS_RemoveElement
  <2> HIDE DEF c, d
  <2>4. d <= refcount[f]
    BY <2>1, <2>2, <2>3
  <2> QED
    BY <2>4 DEF d
<1>8. \A q \in Procs : \A s \in StructureNames : status[q] # "free" => refcount[Structure(q, s)] >= 1
  BY <1>1 DEF StructuresApart
<1>9. ~pages[p][v].present
  BY <1>1, <1>4, <1>5 DEF PagesBounded
<1>10. View[p][v] = NoPage
  BY <1>5, <1>9 DEF View
<1>11. PagingInv' /\ View' = [View EXCEPT ![p] = [View[p] EXCEPT ![v] = x]]
  <2>1. v[1] = "heap" => v[2] <= heap_end'[p]
    BY <1>6
  <2> QED
    <3>1. FreshMap(p, v, refcount, new, x)
      BY ONLY <1>1, <1>2, <1>3, <1>6, <1>7, <1>8, <2>1 DEF FreshMap
    <3>2. x \in Values
      BY StaleIsValue
    <3> QED
      BY <1>5, <3>1, <3>2, MapFresh
<1> QED
  BY <1>5, <1>10, <1>11

\* page_fault_handler copies a frame that is counted more than once.
LEMMA CopyStep ==
    ASSUME PagingInv, WithinLimits, NEW p \in Procs, NEW v \in Pages, page_fault_handler(p, v), cow_copy(p, v)
    PROVE  PagingInv' /\ View' = View
<1> DEFINE old == pages[p][v].frame
           rc == [refcount EXCEPT ![old] = @ - 1]
           new == alloc_phys_page(rc)
           x == contents[old]
<1>1. /\ TypeOK /\ MappingsCounted /\ StructuresApart /\ PagesBounded /\ status[p] # "free"
      /\ pages[p][v].present /\ refcount[old] > 1 /\ Enough(rc, 1) /\ refcount' = Taken(rc, 1)
      /\ contents' = [contents EXCEPT ![new] = x]
      /\ pages' = [pages EXCEPT ![p] = [pages[p] EXCEPT ![v] = Entry(new)]]
      /\ UNCHANGED <<pdir, tables, ustack, heap_end, proc_pid, status>>
  <2>1. TypeOK /\ MappingsCounted /\ StructuresApart /\ PagesBounded
    BY DEF PagingInv
  <2>2. /\ status[p] # "free" /\ pages[p][v].present
        /\ UNCHANGED <<pdir, tables, ustack, heap_end, proc_pid, status>>
    BY DEF page_fault_handler, Alive
  <2>3. /\ refcount[old] > 1 /\ Enough(rc, 1) /\ refcount' = Taken(rc, 1)
        /\ contents' = [contents EXCEPT ![new] = x]
    BY Zenon DEF WithinLimits, cow_copy
  <2>4. pages' = [pages EXCEPT ![p] = [pages[p] EXCEPT ![v] = Entry(new)]]
    BY DEF cow_copy
  <2> QED
    BY ONLY <2>1, <2>2, <2>3, <2>4
<1>2. old \in Frames /\ x \in Values /\ refcount \in Counts
  BY <1>1 DEF TypeOK, Counts
<1>3. <<p, v>> \in Mappings(old)
  <2>1. pages[p][v].present /\ pages[p][v].frame = old
    BY ONLY <1>1, Zenon
  <2> HIDE DEF old
  <2>2. <<p, v>> \in Mapped(pages, old)
    BY ONLY <2>1, p \in Procs, v \in Pages, MappedAt, Zenon
  <2>3. Mappings(old) = Mapped(pages, old)
    BY ONLY MappingsAreMapped, Zenon
  <2> QED
    BY ONLY <2>2, <2>3, Zenon
<1>4. old # 0 /\ \A q \in Procs : \A s \in StructureNames : status[q] # "free" => Structure(q, s) # old
  BY <1>1, <1>3 DEF MappingsCounted, StructuresApart
<1> HIDE DEF old, x
<1>5. rc \in Counts /\ rc[old] = refcount[old] - 1 /\ \A f \in Frames : f # old => rc[f] = refcount[f]
  <2>1. refcount[old] - 1 \in 0..(RefLimit - 1)
    BY <1>1, <1>2, PagingAssumption DEF Counts
  <2> QED
    BY <1>2, <2>1 DEF Counts
<1> HIDE DEF rc
<1>6. /\ new \in Frames /\ rc[new] = 0 /\ refcount' \in Counts
      /\ \A f \in Frames : refcount'[f] = IF f = new THEN 1 ELSE rc[f]
  <2>1. \E f \in Frames : rc[f] = 0
    BY <1>1, <1>5, EnoughFree
  <2> QED
    BY <1>1, <1>5, <2>1, OneTaken
<1> HIDE DEF new
<1>7. rc[0] >= 1
  <2>1. 0 \in Frames
    BY PagingAssumption DEF Frames
  <2> QED
    BY <1>1, <1>4, <1>5, <2>1 DEF MappingsCounted
<1>8. ASSUME NEW f \in Frames PROVE Cardinality(Mappings(f) \ {<<p, v>>}) <= rc[f]
  <2> DEFINE c == Cardinality(Mappings(f))
             d == Cardinality(Mappings(f) \ {<<p, v>>})
  <2>1. IsFiniteSet(Mappings(f)) /\ c \in Nat
    BY MappedFinite, MappingsAreMapped
  <2>2. c <= refcount[f] /\ refcount[f] \in Int
    BY <1>1, <1>2 DEF MappingsCounted, Counts
  <2>3. d = IF <<p, v>> \in Mappings(f) THEN c - 1 ELSE c
    BY <2>1, FS_RemoveElement
  <2>4. f = old => <<p, v>> \in Mappings(f)
    BY <1>3
  <2> HIDE DEF c, d
  <2>5. d <= rc[f]
    <3>1. CASE f = old
      BY <1>5, <2>1, <2>2, <2>3, <2>4, <3>1
    <3>2. CASE f # old
      <4>1. rc[f] = refcount[f]
        BY <1>5, <3>2
      <4>2. d <= c
        BY <2>1, <2>3
      <4>3. d \in Int
        BY <2>1, <2>3
      <4> QED
        BY <2>1, <2>2, <4>1, <4>2, <4>3
    <3> QED
      BY <3>1, <3>2
  <2> QED
    BY <2>5 DEF d
<1>9. \A q \in Procs : \A s \in StructureNames : status[q] # "free" => rc[Structure(q, s)] >= 1
  <2>1. \A q \in Procs : \A s \in StructureNames : Structure(q, s) \in Frames
    BY <1>1, StructureType
  <2> QED
    BY <1>1, <1>4, <1>5, <2>1 DEF StructuresApart
<1>10. /\ heap_end' \in [Procs -> 0..HeapMax] /\ (v[1] = "heap" => v[2] <= heap_end'[p])
       /\ \A q \in Procs : heap_end'[q] >= heap_end[q]
  BY <1>1 DEF TypeOK, PagesBounded
<1>11. PagingInv' /\ View' = [View EXCEPT ![p] = [View[p] EXCEPT ![v] = x]]
  <2>1. UNCHANGED <<pdir, tables, ustack, proc_pid, status>>
    BY <1>1
  <2> QED
    <3>1. FreshMap(p, v, rc, new, x)
      BY ONLY <1>1, <1>5, <1>6, <1>7, <1>8, <1>9, <1>10, <2>1 DEF FreshMap
    <3> QED
      BY <1>2, <3>1, MapFresh
<1>12. View[p][v] = x
  BY <1>1 DEF View, x, old
<1>13. View = [q \in Procs |-> [w \in Pages |-> View[q][w]]]
  BY DEF View
<1> HIDE DEF View
<1>14. [View[p] EXCEPT ![v] = x] = View[p]
  BY ONLY <1>12, <1>13, p \in Procs
<1>15. [View EXCEPT ![p] = View[p]] = View
  BY ONLY <1>13
<1> QED
  BY <1>11, <1>14, <1>15

\* page_fault_handler makes a frame that is counted once writable: nobody else maps it.
LEMMA OwnStep ==
    ASSUME PagingInv, NEW p \in Procs, NEW v \in Pages, page_fault_handler(p, v), cow_own(p, v)
    PROVE  PagingInv' /\ View' = View
<1> DEFINE old == pages[p][v].frame
<1>1. /\ TypeOK /\ MappingsCounted /\ StructuresApart /\ PagesBounded /\ SharedReadOnly
      /\ pages[p][v].present /\ refcount[old] = 1
      /\ pages' = [pages EXCEPT ![p] = [pages[p] EXCEPT ![v] = Entry(old)]]
      /\ UNCHANGED <<refcount, contents, pdir, tables, ustack, heap_end, proc_pid, status>>
  BY DEF PagingInv, page_fault_handler, cow_own
<1>2. old \in Frames /\ pages \in [Procs -> [Pages -> Entries]]
  BY <1>1 DEF TypeOK, Entries
<1>3. <<p, v>> \in Mappings(old)
  BY <1>1, MappedAt, MappingsAreMapped
<1>4. Mappings(old) = {<<p, v>>}
  <2>1. IsFiniteSet(Mappings(old)) /\ Cardinality(Mappings(old)) \in Nat
    BY MappedFinite, MappingsAreMapped
  <2>2. Cardinality(Mappings(old)) <= 1
    BY <1>1, <1>2 DEF MappingsCounted
  <2>3. Cardinality(Mappings(old)) # 0
    BY <1>3, <2>1, FS_EmptySet
  <2>4. Cardinality(Mappings(old)) = 1
    BY <2>1, <2>2, <2>3
  <2>5. \E m : Mappings(old) = {m}
    BY <2>1, <2>4, FS_Singleton
  <2> QED
    BY <1>3, <2>5
<1>5. Entry(old) \in Entries /\ Entry(old).present /\ Entry(old).frame = old
  BY <1>2, EntryType
<1>6. /\ \A q \in Procs : \A w \in Pages : <<q, w>> # <<p, v>> => pages'[q][w] = pages[q][w]
      /\ pages'[p][v] = Entry(old)
  BY <1>1, <1>2
<1>7. \A q \in Procs : \A w \in Pages : /\ pages'[q][w].present <=> pages[q][w].present
                                        /\ pages'[q][w].frame = pages[q][w].frame
  <2> SUFFICES ASSUME NEW q \in Procs, NEW w \in Pages
               PROVE  /\ pages'[q][w].present <=> pages[q][w].present
                      /\ pages'[q][w].frame = pages[q][w].frame
    OBVIOUS
  <2>1. CASE q = p /\ w = v
    BY <1>1, <1>5, <1>6, <2>1
  <2>2. CASE ~(q = p /\ w = v)
    BY <1>6, <2>2
  <2> QED
    BY <2>1, <2>2
<1>8. TypeOK'
  <2>1. pages' \in [Procs -> [Pages -> Entries]]
    BY <1>1, <1>2, <1>5
  <2> QED
    BY <1>1, <2>1 DEF TypeOK, Entries, Values
<1>9. \A f : Mapped(pages', f) = Mapped(pages, f)
  BY <1>7 DEF Mapped
<1>10. /\ \A f : Mappings(f) = Mapped(pages, f)
       /\ \A f \in Frames : Mappings(f)' = Mapped(pages', f)
  BY MappingsAreMapped
<1>11. MappingsCounted'
  <2>1. 0 \in Frames
    BY PagingAssumption DEF Frames
  <2> QED
    BY <1>1, <1>9, <1>10, <2>1 DEF MappingsCounted
<1>12. SharedReadOnly'
  <2>1. ReadOnlyShared(pages)
    BY <1>1, SharedIff
  <2>2. ASSUME NEW f \in Frames, NEW q \in Procs, NEW r \in Procs, NEW w \in Pages, NEW u \in Pages,
               <<q, w>> \in Mapped(pages', f), <<r, u>> \in Mapped(pages', f), <<q, w>> # <<r, u>>
        PROVE  ~pages'[q][w].rw
    <3>1. <<q, w>> \in Mapped(pages, f) /\ <<r, u>> \in Mapped(pages, f)
      BY <1>9, <2>2
    <3>2. <<q, w>> # <<p, v>>
      <4> SUFFICES ASSUME <<q, w>> = <<p, v>> PROVE FALSE
        OBVIOUS
      <4>1. q = p /\ w = v
        OBVIOUS
      <4>2. f = old
        BY <3>1, <4>1, MappedAt
      <4>3. <<r, u>> = <<p, v>>
        BY <1>4, <1>10, <3>1, <4>2
      <4> QED
        BY <2>2, <4>3
    <3>3. ~pages[q][w].rw
      BY <2>1, <2>2, <3>1 DEF ReadOnlyShared
    <3> QED
      BY <1>6, <3>2, <3>3
  <2>3. ReadOnlyShared(pages')
    BY <2>2 DEF ReadOnlyShared
  <2> QED
    BY <2>3, SharedIff
<1>13. PagesBounded'
  BY <1>1, <1>7 DEF PagesBounded
<1>14. StructuresApart'
  <2>1. \A q \in Procs : \A s \in StructureNames : status[q] # "free" =>
          refcount'[Structure(q, s)] >= 1 /\ Mapped(pages', Structure(q, s)) = {}
    BY <1>1, <1>9, <1>10 DEF StructuresApart
  <2> QED
    BY <1>1, <2>1, StructuresKept
<1>15. View' = View
  BY <1>1, <1>7 DEF View
<1> QED
  BY <1>8, <1>11, <1>12, <1>13, <1>14, <1>15 DEF PagingInv

\* A step that only changes what frames hold, or that ends a process.
LEMMA QuietStep ==
    ASSUME PagingInv, UNCHANGED <<refcount, pdir, tables, pages, ustack, heap_end, proc_pid>>,
           contents' \in [Frames -> Values], status' \in [Procs -> {"free", "alive", "dead"}],
           \A q \in Procs : status'[q] = "free" <=> status[q] = "free"
    PROVE  PagingInv'
<1>1. TypeOK /\ StructuresApart /\ MappingsCounted /\ SharedReadOnly /\ PagesBounded
  BY DEF PagingInv
<1>2. TypeOK'
  BY <1>1 DEF TypeOK
<1>3. MappingsCounted'
  BY <1>1 DEF MappingsCounted, Mappings
<1>4. SharedReadOnly'
  BY <1>1, SharedIff
<1>5. PagesBounded'
  BY <1>1 DEF PagesBounded
<1>6. StructuresApart'
  <2>1. \A q \in Procs : \A s \in StructureNames :
          Structure(q, s)' = Structure(q, s) /\ Mappings(Structure(q, s))' = Mappings(Structure(q, s))
    BY DEF Structure, Mappings
  <2> QED
    BY <1>1, <2>1 DEF StructuresApart
<1> QED
  BY <1>2, <1>3, <1>4, <1>5, <1>6 DEF PagingInv

LEMMA ExitStep ==
    ASSUME PagingInv, NEW p \in Procs, exit(p)
    PROVE  PagingInv' /\ View' = View
<1>1. TypeOK /\ status[p] = "alive" /\ status' = [status EXCEPT ![p] = "dead"]
      /\ UNCHANGED <<refcount, contents, pdir, tables, pages, ustack, heap_end, proc_pid>>
  BY DEF PagingInv, exit, Alive
<1>2. /\ status' \in [Procs -> {"free", "alive", "dead"}] /\ contents' \in [Frames -> Values]
      /\ \A q \in Procs : status'[q] = "free" <=> status[q] = "free"
  BY <1>1 DEF TypeOK
<1>3. PagingInv'
  BY <1>1, <1>2, QuietStep
<1> QED
  BY <1>1, <1>3 DEF View

\* Something is written to the frame of a page; nobody else reads it if the page is writable.
LEMMA WriteStep ==
    ASSUME PagingInv, NEW p \in Procs, NEW v \in Pages, NEW x \in Written, pages[p][v].present,
           contents' = [contents EXCEPT ![pages[p][v].frame] = x],
           UNCHANGED <<refcount, pdir, tables, pages, ustack, heap_end, proc_pid, status>>
    PROVE  /\ PagingInv'
           /\ pages[p][v].rw => View[p][v] # NoPage /\ View' = [View EXCEPT ![p] = [View[p] EXCEPT ![v] = x]]
<1> DEFINE f == pages[p][v].frame
<1>1. TypeOK /\ SharedReadOnly /\ f \in Frames /\ x \in Values
  BY DEF PagingInv, TypeOK, Values
<1>2. contents' \in [Frames -> Values] /\ contents'[f] = x /\ \A g \in Frames : g # f => contents'[g] = contents[g]
  BY <1>1 DEF TypeOK
<1>3. PagingInv'
  <2>1. status' \in [Procs -> {"free", "alive", "dead"}] /\ \A q \in Procs : status'[q] = "free" <=> status[q] = "free"
    BY <1>1 DEF TypeOK
  <2> QED
    BY <1>2, <2>1, QuietStep
<1>4. ASSUME pages[p][v].rw PROVE View[p][v] # NoPage /\ View' = [View EXCEPT ![p] = [View[p] EXCEPT ![v] = x]]
  <2>1. View[p][v] # NoPage
    <3>1. View[p][v] = contents[f] /\ contents[f] \in Values
      BY <1>1 DEF View, TypeOK
    <3>2. "none" \notin Values
      BY PagingAssumption DEF Values
    <3> QED
      BY <3>1, <3>2 DEF NoPage
  <2>2. View'[p][v] = x
    BY <1>2 DEF View
  <2>3. ASSUME NEW q \in Procs, NEW w \in Pages, <<q, w>> # <<p, v>> PROVE View'[q][w] = View[q][w]
    <3>1. /\ View'[q][w] = IF pages[q][w].present THEN contents'[pages[q][w].frame] ELSE NoPage
          /\ View[q][w] = IF pages[q][w].present THEN contents[pages[q][w].frame] ELSE NoPage
      BY DEF View
    <3>2. CASE pages[q][w].present
      <4> DEFINE g == pages[q][w].frame
      <4>1. g \in Frames
        BY <1>1 DEF TypeOK
      <4>2. <<q, w>> \in Mapped(pages, g) /\ <<p, v>> \in Mapped(pages, f)
        BY <3>2, MappedAt
      <4>3. ReadOnlyShared(pages)
        BY <1>1, SharedIff
      <4>4. g # f
        BY <1>1, <1>4, <2>3, <4>2, <4>3 DEF ReadOnlyShared
      <4> QED
        BY <1>2, <3>1, <4>1, <4>4
    <3> QED
      BY <3>1, <3>2
  <2>4. /\ View = [q \in Procs |-> [w \in Pages |-> View[q][w]]]
        /\ View' = [q \in Procs |-> [w \in Pages |-> View'[q][w]]]
    BY DEF View
  <2> HIDE DEF View
  <2>5. View'[p] = [View[p] EXCEPT ![v] = x]
    BY ONLY <2>2, <2>3, <2>4, p \in Procs, v \in Pages
  <2>6. \A q \in Procs : q # p => View'[q] = View[q]
    BY ONLY <2>3, <2>4, p \in Procs, v \in Pages
  <2> QED
    BY ONLY <2>1, <2>4, <2>5, <2>6, p \in Procs
<1> QED
  BY <1>3, <1>4

-----------------------------------------------------------------------------
(* Forking.                                                                *)

LEMMA DisjointUnion ==
    ASSUME NEW A, NEW B, IsFiniteSet(A), IsFiniteSet(B), A \cap B = {}
    PROVE  /\ IsFiniteSet(A \cup B) /\ Cardinality(A \cup B) = Cardinality(A) + Cardinality(B)
           /\ Cardinality(A) \in Nat /\ Cardinality(B) \in Nat
<1>1. Cardinality({}) = 0 /\ Cardinality(A) \in Nat /\ Cardinality(B) \in Nat
  BY FS_EmptySet, FS_CardinalityType
<1>2. IsFiniteSet(A \cup B) /\ Cardinality(A \cup B) = Cardinality(A) + Cardinality(B) - Cardinality(A \cap B)
  BY FS_Union
<1>3. Cardinality(A \cap B) = 0
  BY <1>1
<1> DEFINE a == Cardinality(A)
           b == Cardinality(B)
           c == Cardinality(A \cup B)
<1>4. a \in Nat /\ b \in Nat /\ c = a + b - 0
  BY <1>1, <1>2, <1>3
<1> HIDE DEF a, b, c
<1>5. c = a + b
  BY <1>4
<1> QED
  BY <1>1, <1>2, <1>5 DEF a, b, c

\* The pages of p that map f, table by table.
Part(p, f, t) == Cardinality({v \in Maps(p, f) : v[1] = t})

LEMMA MapsByTable ==
    ASSUME NEW p \in Procs, NEW f
    PROVE  /\ Part(p, f, "code") \in Nat /\ Part(p, f, "stack") \in Nat /\ Part(p, f, "heap") \in Nat
           /\ Cardinality(Maps(p, f)) = Part(p, f, "code") + Part(p, f, "stack") + Part(p, f, "heap")
<1> DEFINE M == Maps(p, f)
           B(t) == {v \in M : v[1] = t}
<1>1. IsFiniteSet(M)
  BY OwnMappings
<1>2. \A v \in M : v[1] \in Tables
  BY DEF Maps, Pages, StackPages, HeapPages, Tables
<1> HIDE DEF M
<1>3. \A t : IsFiniteSet(B(t)) /\ Cardinality(B(t)) \in Nat
  <2>1. \A t : B(t) \in SUBSET M
    OBVIOUS
  <2> QED
    BY <1>1, <2>1, FS_Subset, FS_CardinalityType
<1>4. B("code") \cap B("stack") = {} /\ (B("code") \cup B("stack")) \cap B("heap") = {}
  OBVIOUS
<1>5. M = (B("code") \cup B("stack")) \cup B("heap")
  BY <1>2 DEF Tables
<1>6. \A t : Part(p, f, t) = Cardinality(B(t))
  BY DEF Part, M
<1> HIDE DEF B
<1>7. /\ IsFiniteSet(B("code") \cup B("stack"))
      /\ Cardinality(B("code") \cup B("stack")) = Cardinality(B("code")) + Cardinality(B("stack"))
  BY <1>3, <1>4, DisjointUnion
<1>8. Cardinality((B("code") \cup B("stack")) \cup B("heap"))
        = Cardinality(B("code") \cup B("stack")) + Cardinality(B("heap"))
  BY <1>3, <1>4, <1>7, DisjointUnion
<1> QED
  BY <1>3, <1>5, <1>6, <1>7, <1>8 DEF M

\* A table is copied: its frame is counted, and so are the mappings in it.
LEMMA CopyTable ==
    ASSUME NEW p \in Procs, NEW rc \in Counts, NEW t, \E f \in Frames : rc[f] = 0,
           \A f \in Frames : /\ Part(p, f, t) \in Nat /\ rc[f] + Part(p, f, t) < RefLimit
                             /\ rc[f] = 0 => Part(p, f, t) = 0
    PROVE  /\ Copied(p, rc, t) \in Counts /\ alloc_phys_page(rc) \in Frames /\ rc[alloc_phys_page(rc)] = 0
           /\ \A f \in Frames : Copied(p, rc, t)[f] = IF f = alloc_phys_page(rc) THEN 1 ELSE rc[f] + Part(p, f, t)
<1> DEFINE T == Taken(rc, 1)
           new == alloc_phys_page(rc)
<1>1. /\ T \in Counts /\ new \in Frames /\ rc[new] = 0
      /\ \A f \in Frames : T[f] = IF f = new THEN 1 ELSE rc[f]
  BY OneTaken
<1>2. Copied(p, rc, t) = [f \in Frames |-> alloc_phys_increase_refcount(T[f], Part(p, f, t))]
  BY DEF Copied, Shared, Part
<1> HIDE DEF T, new
<1>3. ASSUME NEW f \in Frames
      PROVE  /\ Copied(p, rc, t)[f] = IF f = new THEN 1 ELSE rc[f] + Part(p, f, t)
             /\ Copied(p, rc, t)[f] \in 0..(RefLimit - 1)
  <2> DEFINE k == Part(p, f, t)
             c == T[f]
             r == rc[f]
  <2>1. k \in Nat /\ r \in Nat /\ r + k < RefLimit /\ (r = 0 => k = 0) /\ RefLimit \in Nat /\ RefLimit > 1
    BY PagingAssumption DEF Counts
  <2>2. (f = new => r = 0) /\ c = IF f = new THEN 1 ELSE r
    BY <1>1
  <2>3. Copied(p, rc, t)[f] = IF c = 0 \/ c + k >= RefLimit THEN 0 ELSE c + k
    BY <1>2 DEF alloc_phys_increase_refcount
  <2> HIDE DEF k, c, r
  <2>4. /\ Copied(p, rc, t)[f] = IF f = new THEN 1 ELSE r + k
        /\ Copied(p, rc, t)[f] \in 0..(RefLimit - 1)
    BY ONLY <2>1, <2>2, <2>3
  <2> QED
    BY <2>4 DEF k, r
<1>4. Copied(p, rc, t) \in Counts
  BY <1>2, <1>3 DEF Counts
<1> QED
  BY <1>1, <1>3, <1>4 DEF new

\* The frames a clone of p takes: a directory and three tables, all of them new,
\* with the counts clone_page_structures leaves.
CloneFrames(p, n0, n1, n2, n3) ==
    /\ n0 = alloc_phys_page(refcount)
    /\ ClonedTables(p) = [code |-> n1, stack |-> n2, heap |-> n3]
    /\ n0 # n1 /\ n0 # n2 /\ n0 # n3 /\ n1 # n2 /\ n1 # n3 /\ n2 # n3
    /\ refcount[n0] = 0 /\ refcount[n1] = 0 /\ refcount[n2] = 0 /\ refcount[n3] = 0
    /\ Cloned(p).heap \in Counts
    /\ \A f \in Frames : Cloned(p).heap[f] = IF f \in {n0, n1, n2, n3} THEN 1
                                             ELSE refcount[f] + Cardinality(Maps(p, f))

\* clone_page_structures takes four frames of its own and counts each mapping once more.
LEMMA CloneCounts ==
    ASSUME PagingInv, NEW p \in Procs, Enough(refcount, 4), Countable(p)
    PROVE  \E n0, n1, n2, n3 \in Frames : CloneFrames(p, n0, n1, n2, n3)
<1> DEFINE rc0 == Cloned(p).dir
           rc1 == Cloned(p).code
           rc2 == Cloned(p).stack
           rc3 == Cloned(p).heap
           n0 == alloc_phys_page(refcount)
           n1 == alloc_phys_page(rc0)
           n2 == alloc_phys_page(rc1)
           n3 == alloc_phys_page(rc2)
           k(f, t) == Part(p, f, t)
           m(f) == Cardinality(Maps(p, f))
<1>1. /\ rc0 = Taken(refcount, 1) /\ rc1 = Copied(p, rc0, "code") /\ rc2 = Copied(p, rc1, "stack")
      /\ rc3 = Copied(p, rc2, "heap")
      /\ ClonedTables(p) = [code |-> n1, stack |-> n2, heap |-> n3]
  BY DEF Cloned, ClonedTables
<1>2. refcount \in Counts /\ RefLimit \in Nat /\ RefLimit > 1
  BY PagingAssumption DEF PagingInv, TypeOK, Counts
\* Four free frames.
<1>3. PICK f1, f2, f3, f4 \in Frames :
        /\ refcount[f1] = 0 /\ refcount[f2] = 0 /\ refcount[f3] = 0 /\ refcount[f4] = 0
        /\ f1 # f2 /\ f1 # f3 /\ f1 # f4 /\ f2 # f3 /\ f2 # f4 /\ f3 # f4
  <2> DEFINE L == FreeList(refcount)
  <2>1. /\ \A i \in 1..Len(L) : L[i] \in Frames /\ refcount[L[i]] = 0
        /\ \A i, j \in 1..Len(L) : L[i] = L[j] => i = j
        /\ Len(L) \in Nat /\ Len(L) >= 4
    BY FreeFrames DEF Enough
  <2> HIDE DEF L
  <2>2. 1 \in 1..Len(L) /\ 2 \in 1..Len(L) /\ 3 \in 1..Len(L) /\ 4 \in 1..Len(L)
    BY <2>1
  <2>3. /\ L[1] \in Frames /\ L[2] \in Frames /\ L[3] \in Frames /\ L[4] \in Frames
        /\ refcount[L[1]] = 0 /\ refcount[L[2]] = 0 /\ refcount[L[3]] = 0 /\ refcount[L[4]] = 0
    BY <2>1, <2>2
  <2>4. /\ L[1] # L[2] /\ L[1] # L[3] /\ L[1] # L[4] /\ L[2] # L[3] /\ L[2] # L[4] /\ L[3] # L[4]
    BY <2>1, <2>2
  <2> QED
    BY <2>3, <2>4
\* A frame of the parent is counted, and can be counted as often as it is mapped.
<1>4. ASSUME NEW f \in Frames
      PROVE  /\ k(f, "code") \in Nat /\ k(f, "stack") \in Nat /\ k(f, "heap") \in Nat /\ refcount[f] \in Nat
             /\ m(f) = k(f, "code") + k(f, "stack") + k(f, "heap")
             /\ refcount[f] + k(f, "code") + k(f, "stack") + k(f, "heap") < RefLimit
             /\ refcount[f] = 0 => k(f, "code") = 0 /\ k(f, "stack") = 0 /\ k(f, "heap") = 0
  <2>1. /\ k(f, "code") \in Nat /\ k(f, "stack") \in Nat /\ k(f, "heap") \in Nat
        /\ m(f) = k(f, "code") + k(f, "stack") + k(f, "heap")
    BY MapsByTable
  <2>2. m(f) <= Cardinality(Mappings(f)) /\ m(f) \in Nat
    BY OwnMappings
  <2>3. Cardinality(Mappings(f)) <= refcount[f] /\ Cardinality(Mappings(f)) \in Nat /\ refcount[f] \in Nat
    BY <1>2, MappedFinite, MappingsAreMapped DEF PagingInv, MappingsCounted, Counts
  <2> DEFINE u == Cardinality({v \in StackPages : ustack[p][v] = f})
             r == refcount[f]
  <2>4. u \in Nat
    <3>1. {v \in StackPages : ustack[p][v] = f} \in SUBSET Pages
      BY DEF Pages
    <3> QED
      BY <3>1, PagesFinite, FS_Subset, FS_CardinalityType
  <2>5. (IF r = 0 THEN 1 ELSE r) + m(f) + u < RefLimit
    BY DEF Countable
  <2>6. r \in Nat
    BY <2>3
  <2> DEFINE a == k(f, "code")
             b == k(f, "stack")
             c == k(f, "heap")
             d == m(f)
             e == Cardinality(Mappings(f))
  <2>7. a \in Nat /\ b \in Nat /\ c \in Nat /\ d = a + b + c /\ d <= e /\ e \in Nat /\ e <= r
        /\ (IF r = 0 THEN 1 ELSE r) + d + u < RefLimit
    BY <2>1, <2>2, <2>3, <2>5
  <2> HIDE DEF a, b, c, d, e, u, r, m, k
  <2>8. r + a + b + c < RefLimit /\ (r = 0 => a = 0 /\ b = 0 /\ c = 0)
    BY ONLY <1>2, <2>4, <2>6, <2>7
  <2> QED
    BY <2>6, <2>7, <2>8 DEF r, a, b, c, d
<1>5. /\ n0 \in Frames /\ refcount[n0] = 0 /\ rc0 \in Counts
      /\ \A f \in Frames : rc0[f] = IF f = n0 THEN 1 ELSE refcount[f]
  BY <1>1, <1>2, <1>3, OneTaken
<1> HIDE DEF rc0, rc1, rc2, rc3, n0, k, m
<1>6. /\ rc1 \in Counts /\ n1 \in Frames /\ rc0[n1] = 0
      /\ \A f \in Frames : rc1[f] = IF f = n1 THEN 1 ELSE rc0[f] + k(f, "code")
  <2>1. \E f \in Frames : rc0[f] = 0
    BY <1>3, <1>5
  <2>2. ASSUME NEW f \in Frames PROVE rc0[f] + k(f, "code") < RefLimit /\ (rc0[f] = 0 => k(f, "code") = 0)
    <3> DEFINE a == k(f, "code")
               b == k(f, "stack")
               c == k(f, "heap")
               r == refcount[f]
               z == rc0[f]
    <3>1. /\ a \in Nat /\ b \in Nat /\ c \in Nat /\ r \in Nat /\ r + a + b + c < RefLimit
          /\ r = 0 => a = 0 /\ b = 0 /\ c = 0
      BY <1>4
    <3>2. z = IF f = n0 THEN 1 ELSE r
      BY <1>5
    <3>3. f = n0 => r = 0
      BY <1>5
    <3> HIDE DEF a, b, c, r, z
    <3>4. z + a < RefLimit /\ (z = 0 => a = 0)
      BY ONLY <1>2, <3>1, <3>2, <3>3
    <3> QED
      BY <3>4 DEF z, a
  <2>3. \A f \in Frames : Part(p, f, "code") \in Nat /\ rc0[f] + Part(p, f, "code") < RefLimit
                          /\ (rc0[f] = 0 => Part(p, f, "code") = 0)
    BY <1>4, <2>2 DEF k
  <2> QED
    BY ONLY <1>1, <1>5, <2>1, <2>3, CopyTable, p \in Procs DEF k, n1
<1> HIDE DEF n1
<1>7. n1 # n0 /\ refcount[n1] = 0
  BY <1>5, <1>6
<1>8. /\ \A f \in Frames : /\ rc1[f] \in Nat /\ (rc1[f] = 0 => k(f, "stack") = 0 /\ k(f, "heap") = 0)
                           /\ rc1[f] + k(f, "stack") + k(f, "heap") < RefLimit
                           /\ refcount[f] = 0 /\ f # n0 /\ f # n1 => rc1[f] = 0
                           /\ rc1[f] = 0 => refcount[f] = 0 /\ f # n0 /\ f # n1
                           /\ rc1[f] = IF f = n0 \/ f = n1 THEN 1 ELSE refcount[f] + k(f, "code")
  <2> SUFFICES ASSUME NEW f \in Frames
               PROVE  /\ rc1[f] \in Nat /\ (rc1[f] = 0 => k(f, "stack") = 0 /\ k(f, "heap") = 0)
                      /\ rc1[f] + k(f, "stack") + k(f, "heap") < RefLimit
                      /\ refcount[f] = 0 /\ f # n0 /\ f # n1 => rc1[f] = 0
                      /\ rc1[f] = 0 => refcount[f] = 0 /\ f # n0 /\ f # n1
                      /\ rc1[f] = IF f = n0 \/ f = n1 THEN 1 ELSE refcount[f] + k(f, "code")
    OBVIOUS
  <2>1. /\ k(f, "code") \in Nat /\ k(f, "stack") \in Nat /\ k(f, "heap") \in Nat /\ refcount[f] \in Nat
        /\ refcount[f] + k(f, "code") + k(f, "stack") + k(f, "heap") < RefLimit
        /\ refcount[f] = 0 => k(f, "code") = 0 /\ k(f, "stack") = 0 /\ k(f, "heap") = 0
    BY <1>4
  <2>2. rc1[f] = IF f = n0 \/ f = n1 THEN 1 ELSE refcount[f] + k(f, "code")
    BY <1>5, <1>6, <1>7, <2>1
  <2>3. f = n0 \/ f = n1 => refcount[f] = 0
    BY <1>5, <1>7
  <2> QED
    BY ONLY <1>2, <2>1, <2>2, <2>3
<1>9. /\ rc2 \in Counts /\ n2 \in Frames /\ rc1[n2] = 0
      /\ \A f \in Frames : rc2[f] = IF f = n2 THEN 1 ELSE rc1[f] + k(f, "stack")
  <2>1. \E f \in Frames : rc1[f] = 0
    BY <1>3, <1>8
  <2>2. ASSUME NEW f \in Frames PROVE rc1[f] + k(f, "stack") < RefLimit /\ (rc1[f] = 0 => k(f, "stack") = 0)
    BY <1>2, <1>4, <1>8
  <2>3. \A f \in Frames : Part(p, f, "stack") \in Nat /\ rc1[f] + Part(p, f, "stack") < RefLimit
                          /\ (rc1[f] = 0 => Part(p, f, "stack") = 0)
    BY <1>4, <2>2 DEF k
  <2> QED
    BY ONLY <1>1, <1>6, <2>1, <2>3, CopyTable, p \in Procs DEF k, n2
<1> HIDE DEF n2
<1>10. n2 # n0 /\ n2 # n1 /\ refcount[n2] = 0
  BY <1>8, <1>9
<1>11. \A f \in Frames : /\ rc2[f] \in Nat /\ (rc2[f] = 0 => k(f, "heap") = 0)
                         /\ rc2[f] + k(f, "heap") < RefLimit
                         /\ refcount[f] = 0 /\ f # n0 /\ f # n1 /\ f # n2 => rc2[f] = 0
                         /\ rc2[f] = 0 => refcount[f] = 0 /\ f # n0 /\ f # n1 /\ f # n2
                         /\ rc2[f] = IF f = n0 \/ f = n1 \/ f = n2 THEN 1 ELSE refcount[f] + k(f, "code") + k(f, "stack")
  <2> SUFFICES ASSUME NEW f \in Frames
               PROVE  /\ rc2[f] \in Nat /\ (rc2[f] = 0 => k(f, "heap") = 0)
                      /\ rc2[f] + k(f, "heap") < RefLimit
                      /\ refcount[f] = 0 /\ f # n0 /\ f # n1 /\ f # n2 => rc2[f] = 0
                      /\ rc2[f] = 0 => refcount[f] = 0 /\ f # n0 /\ f # n1 /\ f # n2
                      /\ rc2[f] = IF f = n0 \/ f = n1 \/ f = n2 THEN 1 ELSE refcount[f] + k(f, "code") + k(f, "stack")
    OBVIOUS
  <2>1. /\ k(f, "code") \in Nat /\ k(f, "stack") \in Nat /\ k(f, "heap") \in Nat /\ refcount[f] \in Nat
        /\ refcount[f] + k(f, "code") + k(f, "stack") + k(f, "heap") < RefLimit
        /\ refcount[f] = 0 => k(f, "code") = 0 /\ k(f, "stack") = 0 /\ k(f, "heap") = 0
    BY <1>4
  <2>2. f = n0 \/ f = n1 \/ f = n2 => refcount[f] = 0
    BY <1>5, <1>7, <1>10
  <2>3. rc2[f] = IF f = n0 \/ f = n1 \/ f = n2 THEN 1 ELSE refcount[f] + k(f, "code") + k(f, "stack")
    BY <1>8, <1>9, <2>1, <2>2
  <2> QED
    BY ONLY <1>2, <2>1, <2>2, <2>3
<1>12. /\ rc3 \in Counts /\ n3 \in Frames /\ rc2[n3] = 0
       /\ \A f \in Frames : rc3[f] = IF f = n3 THEN 1 ELSE rc2[f] + k(f, "heap")
  <2>1. \E f \in Frames : rc2[f] = 0
    BY <1>3, <1>11
  <2> QED
    <3>1. \A f \in Frames : Part(p, f, "heap") \in Nat /\ rc2[f] + Part(p, f, "heap") < RefLimit
                            /\ (rc2[f] = 0 => Part(p, f, "heap") = 0)
      BY <1>4, <1>11 DEF k
    <3> QED
      BY ONLY <1>1, <1>9, <2>1, <3>1, CopyTable, p \in Procs DEF k, n3
<1> HIDE DEF n3
<1>13. n3 # n0 /\ n3 # n1 /\ n3 # n2 /\ refcount[n3] = 0
  BY <1>11, <1>12
<1>14. ASSUME NEW f \in Frames
       PROVE  rc3[f] = IF f \in {n0, n1, n2, n3} THEN 1 ELSE refcount[f] + m(f)
  <2>1. f = n0 \/ f = n1 \/ f = n2 \/ f = n3 => refcount[f] = 0
    BY <1>5, <1>7, <1>10, <1>13
  <2>2. /\ k(f, "code") \in Nat /\ k(f, "stack") \in Nat /\ k(f, "heap") \in Nat /\ refcount[f] \in Nat
        /\ refcount[f] = 0 => k(f, "heap") = 0
        /\ m(f) = k(f, "code") + k(f, "stack") + k(f, "heap")
    BY <1>4
  <2>3. rc3[f] = IF f = n3 THEN 1 ELSE rc2[f] + k(f, "heap")
    BY <1>12
  <2>4. rc2[f] = IF f = n0 \/ f = n1 \/ f = n2 THEN 1 ELSE refcount[f] + k(f, "code") + k(f, "stack")
    BY <1>11
  <2> QED
    BY ONLY <2>1, <2>2, <2>3, <2>4
<1> QED
  <2>1. /\ n0 \in Frames /\ n1 \in Frames /\ n2 \in Frames /\ n3 \in Frames
        /\ n0 # n1 /\ n0 # n2 /\ n0 # n3 /\ n1 # n2 /\ n1 # n3 /\ n2 # n3
        /\ refcount[n0] = 0 /\ refcount[n1] = 0 /\ refcount[n2] = 0 /\ refcount[n3] = 0
    BY <1>5, <1>6, <1>7, <1>9, <1>10, <1>12, <1>13
  <2>2. /\ n0 = alloc_phys_page(refcount) /\ ClonedTables(p) = [code |-> n1, stack |-> n2, heap |-> n3]
        /\ Cloned(p).heap \in Counts
        /\ \A f \in Frames : Cloned(p).heap[f] = IF f \in {n0, n1, n2, n3} THEN 1
                                                 ELSE refcount[f] + Cardinality(Maps(p, f))
    BY <1>1, <1>12, <1>14 DEF n0, rc3, m
  <2>3. CloneFrames(p, n0, n1, n2, n3)
    BY ONLY <2>1, <2>2 DEF CloneFrames
  <2> QED
    BY <2>1, <2>3, Zenon

\* proc_clone counts the stack once more: no count runs over.
LEMMA StackCounts ==
    ASSUME PagingInv, NEW p \in Procs, Countable(p),
           NEW n0 \in Frames, NEW n1 \in Frames, NEW n2 \in Frames, NEW n3 \in Frames, CloneFrames(p, n0, n1, n2, n3)
    PROVE  /\ StackCounted(p, Cloned(p).heap) \in Counts
           /\ \A f \in Frames : StackCounted(p, Cloned(p).heap)[f] >= Cloned(p).heap[f]
<1> DEFINE rc == Cloned(p).heap
           S == StackCounted(p, rc)
           u(f) == Cardinality({v \in StackPages : ustack[p][v] = f})
<1>1. /\ rc \in Counts /\ RefLimit \in Nat /\ RefLimit > 1
      /\ refcount[n0] = 0 /\ refcount[n1] = 0 /\ refcount[n2] = 0 /\ refcount[n3] = 0
      /\ \A f \in Frames : rc[f] = IF f \in {n0, n1, n2, n3} THEN 1 ELSE refcount[f] + Cardinality(Maps(p, f))
  BY PagingAssumption DEF CloneFrames
<1>2. S = [f \in Frames |-> IF rc[f] = 0 \/ rc[f] + u(f) >= RefLimit THEN 0 ELSE rc[f] + u(f)]
  BY DEF StackCounted, alloc_phys_increase_refcount
<1>3. ASSUME NEW f \in Frames PROVE S[f] \in 0..(RefLimit - 1) /\ S[f] >= rc[f]
  <2> DEFINE b == u(f)
             d == Cardinality(Maps(p, f))
             r == refcount[f]
             z == rc[f]
  <2>1. b \in Nat
    <3>1. {v \in StackPages : ustack[p][v] = f} \in SUBSET Pages
      BY DEF Pages
    <3> QED
      BY <3>1, PagesFinite, FS_Subset, FS_CardinalityType
  <2>2. d \in Nat /\ r \in Nat /\ z \in Nat
    <3>1. refcount \in Counts
      BY DEF PagingInv, TypeOK, Counts
    <3>2. d \in Nat
      BY OwnMappings
    <3> HIDE DEF d, rc
    <3> QED
      BY <1>1, <3>1, <3>2 DEF Counts
  <2>3. (IF r = 0 THEN 1 ELSE r) + d + b < RefLimit
    BY DEF Countable
  <2>4. z = r + d \/ (z = 1 /\ r = 0)
    BY <1>1
  <2>5. S[f] = IF z = 0 \/ z + b >= RefLimit THEN 0 ELSE z + b
    BY <1>2
  <2> HIDE DEF b, d, r, z, S
  <2>6. S[f] \in 0..(RefLimit - 1) /\ S[f] >= z
    BY ONLY <1>1, <2>1, <2>2, <2>3, <2>4, <2>5
  <2> QED
    BY <2>6 DEF z
<1>4. S \in Counts
  BY <1>2, <1>3 DEF Counts
<1> QED
  BY <1>3, <1>4

\* sysc_fork: what the parent maps is counted and mapped once more, by the child, and is read-only.
LEMMA ForkStep ==
    ASSUME PagingInv, WithinLimits, NEW p \in Procs, NEW c \in Procs, proc_clone(p, c)
    PROVE  PagingInv' /\ View[c] = [v \in Pages |-> NoPage] /\ View' = [View EXCEPT ![c] = View[p]]
<1> DEFINE ro == [v \in Pages |-> [pages[p][v] EXCEPT !.rw = FALSE]]
           m(f) == Cardinality(Maps(p, f))
<1>1. /\ TypeOK /\ StructuresApart /\ MappingsCounted /\ SharedReadOnly /\ PagesBounded
      /\ status[p] = "alive" /\ status[c] = "free" /\ proc_pid < MaxPid /\ proc_pid' = proc_pid + 1
      /\ status' = [status EXCEPT ![c] = "alive"] /\ Enough(refcount, 4) /\ Countable(p)
      /\ pdir' = [pdir EXCEPT ![c] = alloc_phys_page(refcount)]
      /\ tables' = [tables EXCEPT ![c] = ClonedTables(p)]
      /\ pages' = [pages EXCEPT ![p] = ro, ![c] = ro]
      /\ refcount' = StackCounted(p, Cloned(p).heap)
      /\ ustack' = [ustack EXCEPT ![c] = ustack[p]] /\ heap_end' = [heap_end EXCEPT ![c] = heap_end[p]]
      /\ contents' = contents
  BY DEF PagingInv, WithinLimits, proc_clone, Started, Alive, ReadOnly
<1>2. p # c /\ pages \in [Procs -> [Pages -> Entries]]
  BY <1>1 DEF TypeOK, Entries
<1>3. PICK n0, n1, n2, n3 \in Frames : CloneFrames(p, n0, n1, n2, n3)
  BY <1>1, CloneCounts
<1> DEFINE N == {n0, n1, n2, n3}
<1>4. /\ pdir'[c] = n0 /\ tables'[c] = [code |-> n1, stack |-> n2, heap |-> n3]
      /\ \A f \in N : f \in Frames /\ refcount[f] = 0
      /\ n0 # n1 /\ n0 # n2 /\ n0 # n3 /\ n1 # n2 /\ n1 # n3 /\ n2 # n3
  BY <1>1, <1>3 DEF CloneFrames, TypeOK
<1>5. /\ refcount' \in Counts
      /\ \A f \in Frames : IF f \in N THEN refcount'[f] >= 1 ELSE refcount'[f] >= refcount[f] + m(f)
  <2>1. /\ refcount' \in Counts
        /\ \A f \in Frames : refcount'[f] >= Cloned(p).heap[f]
    BY <1>1, <1>3, StackCounts
  <2>2. \A f \in Frames : Cloned(p).heap[f] = IF f \in N THEN 1 ELSE refcount[f] + m(f)
    BY <1>3 DEF CloneFrames
  <2> HIDE DEF N, m
  <2> QED
    BY <2>1, <2>2
\* The entries.
<1>6. ASSUME NEW v \in Pages
      PROVE  /\ ro[v] \in Entries /\ ~ro[v].rw /\ (ro[v].present <=> pages[p][v].present) /\ ro[v].frame = pages[p][v].frame
             /\ ~pages[c][v].present
  <2>1. pages[p][v] \in Entries
    BY <1>2
  <2>2. ~pages[c][v].present
    BY <1>1 DEF PagesBounded
  <2> QED
    BY <2>1, <2>2 DEF Entries
<1>7. ro \in [Pages -> Entries]
  BY <1>6
<1> HIDE DEF ro
<1>8. /\ pages' \in [Procs -> [Pages -> Entries]] /\ pages'[p] = ro /\ pages'[c] = ro
      /\ \A q \in Procs : q # p /\ q # c => pages'[q] = pages[q]
  BY <1>1, <1>2, <1>7
<1>9. \A q \in Procs \ {c} : /\ pdir'[q] = pdir[q] /\ tables'[q] = tables[q] /\ heap_end'[q] = heap_end[q]
                             /\ status'[q] = status[q]
  BY <1>1 DEF TypeOK
<1>10. heap_end'[c] = heap_end[p] /\ status'[c] = "alive"
  BY <1>1 DEF TypeOK
\* What is mapped afterwards.
<1>11. ASSUME NEW f, NEW q \in Procs, NEW w \in Pages
       PROVE  /\ <<q, w>> \in Mapped(pages', f) <=> IF q = c THEN <<p, w>> \in Mapped(pages, f)
                                                    ELSE <<q, w>> \in Mapped(pages, f)
              /\ <<c, w>> \notin Mapped(pages, f)
  <2>1. <<q, w>> \in Mapped(pages', f) <=> pages'[q][w].present /\ pages'[q][w].frame = f
    BY ONLY MappedAt, q \in Procs, w \in Pages
  <2>2. <<q, w>> \in Mapped(pages, f) <=> pages[q][w].present /\ pages[q][w].frame = f
    BY ONLY MappedAt, q \in Procs, w \in Pages
  <2>3. <<p, w>> \in Mapped(pages, f) <=> pages[p][w].present /\ pages[p][w].frame = f
    BY ONLY MappedAt, p \in Procs, w \in Pages
  <2>4. <<c, w>> \in Mapped(pages, f) <=> pages[c][w].present /\ pages[c][w].frame = f
    BY ONLY MappedAt, c \in Procs, w \in Pages
  <2>5. ~pages[c][w].present /\ (ro[w].present <=> pages[p][w].present) /\ ro[w].frame = pages[p][w].frame
    BY <1>6
  <2>6. CASE q = c
    BY ONLY <1>8, <2>1, <2>3, <2>4, <2>5, <2>6
  <2>7. CASE q = p
    BY ONLY <1>2, <1>8, <2>1, <2>3, <2>4, <2>5, <2>7
  <2>8. CASE q # p /\ q # c
    <3>1. pages'[q] = pages[q]
      BY <1>8, <2>8
    <3> QED
      BY ONLY <3>1, <2>1, <2>2, <2>4, <2>5, <2>8
  <2> QED
    BY <2>6, <2>7, <2>8
<1>12. ASSUME NEW f
       PROVE  /\ Mapped(pages', f) = Mapped(pages, f) \cup ({c} \X Maps(p, f))
              /\ Mapped(pages, f) \cap ({c} \X Maps(p, f)) = {}
  <2>1. ASSUME NEW w PROVE w \in Maps(p, f) <=> w \in Pages /\ <<p, w>> \in Mapped(pages, f)
    <3>1. w \in Maps(p, f) <=> w \in Pages /\ pages[p][w].present /\ pages[p][w].frame = f
      BY Zenon DEF Maps
    <3>2. w \in Pages => (<<p, w>> \in Mapped(pages, f) <=> pages[p][w].present /\ pages[p][w].frame = f)
      BY ONLY MappedAt, p \in Procs
    <3> QED
      BY ONLY <3>1, <3>2
  <2>2. \A q, w : <<q, w>> \in {c} \X Maps(p, f) <=> q = c /\ w \in Maps(p, f)
    OBVIOUS
  <2>3. /\ \A k \in Mapped(pages', f) : \E q \in Procs : \E w \in Pages : k = <<q, w>>
        /\ \A k \in Mapped(pages, f) : \E q \in Procs : \E w \in Pages : k = <<q, w>>
    BY MappedIff
  <2>4. \A k \in {c} \X Maps(p, f) : \E w \in Maps(p, f) : k = <<c, w>>
    OBVIOUS
  <2> DEFINE C == {c} \X Maps(p, f)
             A == Mapped(pages, f)
             B == Mapped(pages', f)
             P == Maps(p, f)
  <2>5. /\ \A q \in Procs : \A w \in Pages : /\ <<q, w>> \in B <=> IF q = c THEN <<p, w>> \in A ELSE <<q, w>> \in A
                                             /\ <<c, w>> \notin A
        /\ \A w : w \in P <=> w \in Pages /\ <<p, w>> \in A
    BY <1>11, <2>1
  <2> HIDE DEF C, A, B, P
  <2>6. /\ \A q, w : <<q, w>> \in C <=> q = c /\ w \in P
        /\ \A k \in B : \E q \in Procs : \E w \in Pages : k = <<q, w>>
        /\ \A k \in A : \E q \in Procs : \E w \in Pages : k = <<q, w>>
        /\ \A k \in C : \E w \in P : k = <<c, w>>
    BY <2>2, <2>3, <2>4 DEF C, A, B, P
  <2>7. ASSUME NEW k \in B PROVE k \in A \cup C
    <3>1. PICK q \in Procs, w \in Pages : k = <<q, w>>
      BY <2>6
    <3>2. CASE q = c
      <4>1. w \in P
        BY <2>5, <3>1, <3>2
      <4> QED
        BY <2>6, <3>1, <3>2, <4>1
    <3>3. CASE q # c
      BY <2>5, <3>1, <3>3
    <3> QED
      BY <3>2, <3>3
  <2>8. ASSUME NEW k \in A PROVE k \in B /\ k \notin C
    <3>1. PICK q \in Procs, w \in Pages : k = <<q, w>>
      BY <2>6
    <3>2. q # c
      BY <2>5, <3>1
    <3> QED
      BY <2>5, <2>6, <3>1, <3>2
  <2>9. ASSUME NEW k \in C PROVE k \in B
    <3>1. PICK w \in P : k = <<c, w>>
      BY <2>6, <2>9
    <3>2. w \in Pages /\ <<p, w>> \in A
      BY <2>5, <3>1
    <3>3. <<c, w>> \in B
      BY ONLY <2>5, <3>2, c \in Procs
    <3> QED
      BY <3>1, <3>3
  <2>10. B = A \cup C /\ A \cap C = {}
    BY ONLY <2>7, <2>8, <2>9
  <2> QED
    BY <2>10 DEF A, B, C
<1>13. /\ \A f : Mappings(f) = Mapped(pages, f)
       /\ \A f \in Frames : Mappings(f)' = Mapped(pages', f)
  BY MappingsAreMapped
\* The frames handed out are used by nobody.
<1>14. ASSUME NEW f \in Frames, refcount[f] = 0
       PROVE  /\ f # 0 /\ Mapped(pages, f) = {} /\ Mapped(pages', f) = {}
              /\ \A q \in Procs : \A s \in StructureNames : status[q] # "free" => Structure(q, s) # f
  <2>1. /\ f # 0 /\ \A q \in Procs \ {c} : \A s \in StructureNames : status[q] # "free" => Structure(q, s) # f
        /\ \A q \in Procs \ {c} : \A v \in Pages : <<q, v>> \notin Mappings(f)
    BY <1>1, <1>14, ClearFree, ClearUnused
  <2>2. \A q \in Procs : \A v \in Pages : <<q, v>> \notin Mapped(pages, f)
    BY <1>11, <1>13, <2>1
  <2>3. \A q \in Procs : \A v \in Pages : <<q, v>> \notin Mapped(pages', f)
    BY <1>11, <2>2
  <2>4. Mapped(pages, f) = {} /\ Mapped(pages', f) = {}
    <3>1. /\ \A k \in Mapped(pages', f) : \E q \in Procs : \E w \in Pages : k = <<q, w>>
          /\ \A k \in Mapped(pages, f) : \E q \in Procs : \E w \in Pages : k = <<q, w>>
      BY MappedIff
    <3> QED
      BY ONLY <2>2, <2>3, <3>1
  <2> QED
    BY <1>1, <2>1, <2>4
<1>15. TypeOK'
  <2>1. proc_pid' \in 1..MaxPid
    BY <1>1, PagingAssumption DEF TypeOK
  <2>2. pdir' \in [Procs -> Frames] /\ status' \in [Procs -> {"free", "alive", "dead"}]
    BY <1>1, <1>3 DEF TypeOK, CloneFrames
  <2>3. tables' \in [Procs -> [Tables -> Frames]]
    <3>1. [code |-> n1, stack |-> n2, heap |-> n3] \in [Tables -> Frames]
      BY DEF Tables
    <3> QED
      BY <1>1, <1>3, <3>1 DEF TypeOK, CloneFrames
  <2>4. ustack' \in [Procs -> [StackPages -> Frames]] /\ heap_end' \in [Procs -> 0..HeapMax]
    BY <1>1 DEF TypeOK
  <2>5. contents' \in [Frames -> Values]
    BY <1>1 DEF TypeOK
  <2> QED
    BY <1>5, <1>8, <2>1, <2>2, <2>3, <2>4, <2>5 DEF TypeOK, Entries, Counts
<1>16. MappingsCounted'
  <2>1. ASSUME NEW f \in Frames PROVE Cardinality(Mapped(pages', f)) <= refcount'[f]
    <3>1. CASE f \in N
      <4>1. Mapped(pages', f) = {} /\ Cardinality({}) = 0 /\ refcount'[f] >= 1
        BY <1>4, <1>5, <1>14, <3>1, FS_EmptySet
      <4>2. refcount'[f] \in Nat
        BY <1>5 DEF Counts
      <4> QED
        BY <4>1, <4>2
    <3>2. CASE f \notin N
      <4> DEFINE A == Mapped(pages, f)
                 C == {c} \X Maps(p, f)
                 a == Cardinality(A)
                 b == Cardinality(C)
                 d == Cardinality(Mapped(pages', f))
      <4>1. IsFiniteSet(A) /\ IsFiniteSet(C) /\ b = m(f)
        BY MappedFinite, OwnMappings
      <4>2. d = a + b /\ a \in Nat /\ b \in Nat
        <5>1. A \cap C = {} /\ Mapped(pages', f) = A \cup C
          BY <1>12
        <5> HIDE DEF A, C
        <5> QED
          BY <4>1, <5>1, DisjointUnion
      <4>3. a <= refcount[f] /\ refcount[f] \in Nat
        BY <1>1, <1>13 DEF MappingsCounted, TypeOK
      <4>4. refcount'[f] >= refcount[f] + m(f) /\ refcount'[f] \in Nat
        BY <1>5, <3>2 DEF Counts
      <4> HIDE DEF a, b, d, m
      <4>5. d <= refcount'[f]
        BY ONLY <4>1, <4>2, <4>3, <4>4
      <4> QED
        BY <4>5 DEF d
    <3> QED
      BY <3>1, <3>2
  <2>2. 0 \in Frames /\ Mapped(pages, 0) = {} /\ refcount[0] >= 1 /\ refcount[0] \in Nat
    BY <1>1, <1>13, PagingAssumption DEF MappingsCounted, Frames, TypeOK
  <2>3. Mapped(pages', 0) = {}
    <3>1. \A q \in Procs : \A w \in Pages : <<q, w>> \notin Mapped(pages', 0)
      BY <1>11, <2>2
    <3> QED
      BY <3>1, MappedIff
  <2>4. refcount'[0] >= 1
    <3>1. 0 \notin N
      BY <1>4, <2>2
    <3>2. m(0) \in Nat
      BY OwnMappings
    <3>3. refcount'[0] >= refcount[0] + m(0) /\ refcount'[0] \in Nat
      BY <1>5, <2>2, <3>1 DEF Counts
    <3> HIDE DEF m
    <3> QED
      BY <2>2, <3>2, <3>3
  <2> QED
    BY <1>13, <2>1, <2>2, <2>3, <2>4 DEF MappingsCounted
<1>17. SharedReadOnly'
  <2>1. ReadOnlyShared(pages)
    BY <1>1, SharedIff
  <2>2. ASSUME NEW f \in Frames, NEW q \in Procs, NEW r \in Procs, NEW w \in Pages, NEW u \in Pages,
               <<q, w>> \in Mapped(pages', f), <<r, u>> \in Mapped(pages', f), <<q, w>> # <<r, u>>
        PROVE  ~pages'[q][w].rw
    <3>1. CASE q = p \/ q = c
      BY <1>6, <1>8, <3>1
    <3>2. CASE q # p /\ q # c
      <4>1. <<q, w>> \in Mapped(pages, f) /\ pages'[q] = pages[q]
        BY <1>8, <1>11, <2>2, <3>2
      <4>2. CASE r = c
        <5>1. <<p, u>> \in Mapped(pages, f) /\ <<q, w>> # <<p, u>>
          BY <1>11, <2>2, <3>2, <4>2
        <5> QED
          BY <2>1, <4>1, <5>1 DEF ReadOnlyShared
      <4>3. CASE r # c
        <5>1. <<r, u>> \in Mapped(pages, f)
          BY <1>11, <2>2, <4>3
        <5> QED
          BY <2>1, <2>2, <4>1, <5>1 DEF ReadOnlyShared
      <4> QED
        BY <4>2, <4>3
    <3> QED
      BY <3>1, <3>2
  <2>3. ReadOnlyShared(pages')
    BY <2>2 DEF ReadOnlyShared
  <2> QED
    BY <2>3, SharedIff
<1>18. PagesBounded'
  <2> SUFFICES ASSUME NEW q \in Procs, NEW w \in Pages, pages'[q][w].present
               PROVE  status'[q] # "free" /\ (w[1] = "heap" => w[2] <= heap_end'[q])
    BY DEF PagesBounded
  <2>1. CASE q = c \/ q = p
    <3>1. pages[p][w].present
      BY <1>6, <1>8, <2>1
    <3> QED
      BY <1>1, <1>2, <1>9, <1>10, <2>1, <3>1 DEF PagesBounded
  <2>2. CASE q # c /\ q # p
    BY <1>1, <1>8, <1>9, <2>2 DEF PagesBounded
  <2> QED
    BY <2>1, <2>2
<1>19. StructuresApart'
  <2> DEFINE Z(q, s) == IF s = "pdir" THEN pdir'[q] ELSE tables'[q][s]
  <2>1. \A q \in Procs : \A s \in StructureNames : Structure(q, s)' = Z(q, s)
    BY DEF Structure
  <2>2. \A q \in Procs \ {c} : \A s \in StructureNames : Z(q, s) = Structure(q, s) /\ status'[q] = status[q]
    BY <1>9 DEF Structure
  <2>3. /\ Z(c, "pdir") = n0 /\ Z(c, "code") = n1 /\ Z(c, "stack") = n2 /\ Z(c, "heap") = n3
        /\ StructureNames = {"pdir", "code", "stack", "heap"}
    BY <1>4 DEF StructureNames, Tables
  <2> HIDE DEF Z
  <2>4. \A s \in StructureNames : Z(c, s) \in N /\ \A t \in StructureNames : Z(c, s) = Z(c, t) => s = t
    BY <1>4, <2>3
  <2>5. ASSUME NEW q \in Procs \ {c}, NEW s \in StructureNames, status[q] # "free"
        PROVE  /\ Z(q, s) # 0 /\ refcount'[Z(q, s)] >= 1 /\ Mapped(pages', Z(q, s)) = {} /\ Z(q, s) \notin N
               /\ \A r \in Procs \ {c} : \A t \in StructureNames :
                    status[r] # "free" /\ Z(r, t) = Z(q, s) => r = q /\ t = s
    <3> DEFINE f == Structure(q, s)
    <3>1. f = Z(q, s) /\ f \in Frames
      BY <1>1, <2>2, StructureType
    <3>2. /\ f # 0 /\ Mapped(pages, f) = {} /\ refcount[f] >= 1
          /\ \A r \in Procs : \A t \in StructureNames : status[r] # "free" /\ Structure(r, t) = f => r = q /\ t = s
      BY <1>1, <1>13, <2>5 DEF StructuresApart
    <3>3. f \notin N
      BY <1>4, <1>14, <2>5
    <3> HIDE DEF f
    <3>4. Mapped(pages', f) = {}
      <4>1. \A k \in Procs : \A w \in Pages : <<k, w>> \notin Mapped(pages', f)
        BY <1>11, <3>2
      <4> QED
        BY <4>1, MappedIff
    <3>5. refcount'[f] >= 1
      <4>1. m(f) \in Nat
        BY OwnMappings
      <4>2. refcount'[f] >= refcount[f] + m(f) /\ refcount'[f] \in Nat /\ refcount[f] \in Nat
        BY <1>1, <1>5, <3>1, <3>3 DEF Counts, TypeOK
      <4> HIDE DEF m
      <4> QED
        BY <3>2, <4>1, <4>2
    <3> QED
      BY <2>2, <3>1, <3>2, <3>3, <3>4, <3>5
  <2>6. ASSUME NEW s \in StructureNames
        PROVE  Z(c, s) # 0 /\ refcount'[Z(c, s)] >= 1 /\ Mapped(pages', Z(c, s)) = {}
    BY <1>4, <1>5, <1>14, <2>4
  <2>7. \A q \in Procs : \A s \in StructureNames : Mappings(Structure(q, s))' = Mapped(pages', Structure(q, s)')
    BY DEF Mappings, Mapped
  <2> QED
    <3> SUFFICES ASSUME NEW q \in Procs, NEW s \in StructureNames, status'[q] # "free"
                 PROVE  /\ Structure(q, s)' # 0 /\ refcount'[Structure(q, s)'] >= 1
                        /\ Mappings(Structure(q, s))' = {}
                        /\ \A r \in Procs : \A t \in StructureNames :
                              status'[r] # "free" /\ Structure(r, t)' = Structure(q, s)' => r = q /\ t = s
      BY DEF StructuresApart
    <3>1. Structure(q, s)' = Z(q, s) /\ Mappings(Structure(q, s))' = Mapped(pages', Z(q, s))
      BY <2>1, <2>7
    <3>2. Z(q, s) # 0 /\ refcount'[Z(q, s)] >= 1 /\ Mapped(pages', Z(q, s)) = {}
      <4>1. CASE q = c
        BY <2>6, <4>1
      <4>2. CASE q # c
        BY <2>2, <2>5, <4>2
      <4> QED
        BY <4>1, <4>2
    <3>3. ASSUME NEW r \in Procs, NEW t \in StructureNames, status'[r] # "free", Z(r, t) = Z(q, s)
          PROVE  r = q /\ t = s
      <4>1. CASE q = c
        BY <2>2, <2>4, <2>5, <3>3, <4>1
      <4>2. CASE q # c
        BY <2>2, <2>4, <2>5, <3>3, <4>2
      <4> QED
        BY <4>1, <4>2
    <3> QED
      BY <2>1, <3>1, <3>2, <3>3
<1>20. View[c] = [v \in Pages |-> NoPage]
  BY <1>6 DEF View
<1>21. View' = [View EXCEPT ![c] = View[p]]
  <2>1. ASSUME NEW q \in Procs, NEW w \in Pages PROVE View'[q][w] = IF q = c THEN View[p][w] ELSE View[q][w]
    <3>1. /\ View'[q][w] = IF pages'[q][w].present THEN contents[pages'[q][w].frame] ELSE NoPage
          /\ View[q][w] = IF pages[q][w].present THEN contents[pages[q][w].frame] ELSE NoPage
          /\ View[p][w] = IF pages[p][w].present THEN contents[pages[p][w].frame] ELSE NoPage
      BY <1>1 DEF View
    <3>2. CASE q = c \/ q = p
      BY <1>2, <1>6, <1>8, <3>1, <3>2
    <3>3. CASE q # c /\ q # p
      BY <1>8, <3>1, <3>3
    <3> QED
      BY <3>2, <3>3
  <2>2. /\ View = [q \in Procs |-> [w \in Pages |-> View[q][w]]]
        /\ View' = [q \in Procs |-> [w \in Pages |-> View'[q][w]]]
    BY DEF View
  <2> HIDE DEF View
  <2>3. \A q \in Procs : View'[q] = IF q = c THEN View[p] ELSE View[q]
    BY ONLY <2>1, <2>2, p \in Procs
  <2> QED
    BY ONLY <2>2, <2>3, c \in Procs
<1> QED
  BY <1>15, <1>16, <1>17, <1>18, <1>19, <1>20, <1>21 DEF PagingInv

-----------------------------------------------------------------------------
(* The theorems.                                                           *)

LEMMA InitInv == Init => PagingInv
<1> SUFFICES ASSUME Init PROVE PagingInv
  OBVIOUS
<1>1. 0 \in Frames /\ 0 \in 0..(RefLimit - 1) /\ 1 \in 0..(RefLimit - 1) /\ 0 \in 0..HeapMax /\ 1 \in 1..MaxPid
  BY PagingAssumption DEF Frames
<1>2. TypeOK
  <2>1. pages \in [Procs -> [Pages -> Entries]]
    BY EntryType DEF Init, NoPages
  <2>2. tables \in [Procs -> [Tables -> Frames]] /\ ustack \in [Procs -> [StackPages -> Frames]]
    BY <1>1 DEF Init, NoTables, NoStack
  <2> QED
    BY <1>1, <2>1, <2>2 DEF Init, TypeOK, Entries, Values
<1>3. \A q \in Procs : \A v \in Pages : ~pages[q][v].present
  BY EntryType DEF Init, NoPages
<1>4. \A f : Mappings(f) = {}
  BY <1>3 DEF Mappings
<1>5. MappingsCounted
  <2>1. Cardinality({}) = 0
    BY FS_EmptySet
  <2>2. refcount[0] = 1 /\ \A f \in Frames : refcount[f] \in Nat
    BY <1>1 DEF Init
  <2> QED
    BY <1>4, <2>1, <2>2 DEF MappingsCounted
<1>6. SharedReadOnly
  BY <1>4 DEF SharedReadOnly
<1>7. PagesBounded
  BY <1>3 DEF PagesBounded
<1>8. StructuresApart
  BY DEF Init, StructuresApart
<1> QED
  BY <1>2, <1>5, <1>6, <1>7, <1>8 DEF PagingInv

LEMMA InvStep ==
    ASSUME WithinLimits, PagingInv, [Next]_vars
    PROVE  PagingInv'
<1>1. CASE UNCHANGED vars
  <2>1. UNCHANGED <<refcount, contents, pdir, tables, pages, ustack, heap_end, proc_pid, status>>
    BY <1>1 DEF vars
  <2>2. contents' \in [Frames -> Values] /\ status' \in [Procs -> {"free", "alive", "dead"}]
    BY <2>1 DEF PagingInv, TypeOK
  <2> QED
    BY <2>1, <2>2, QuietStep
<1>2. ASSUME NEW p \in Procs, NEW x \in Stale, loader_spawn(p, x) PROVE PagingInv'
  BY <1>2, SpawnStep
<1>3. ASSUME NEW p \in Procs, NEW x \in Stale, loader_exec(p, x) PROVE PagingInv'
  BY <1>3, ExecStep
<1>4. ASSUME NEW p \in Procs, NEW x \in Stale, sysc_sbrk(p, x) PROVE PagingInv'
  BY <1>4, SbrkStep
<1>5. ASSUME NEW p \in Procs, exit(p) PROVE PagingInv'
  BY <1>5, ExitStep
<1>6. ASSUME NEW p \in Procs, proc_destroy(p) PROVE PagingInv'
  BY <1>6, DestroyStep
<1>7. ASSUME NEW p \in Procs, NEW c \in Procs, proc_clone(p, c) PROVE PagingInv'
  BY <1>7, ForkStep
<1>8. ASSUME NEW p \in Procs, NEW v \in Pages, page_fault_handler(p, v) PROVE PagingInv'
  <2>1. cow_copy(p, v) \/ cow_own(p, v)
    BY <1>8 DEF page_fault_handler
  <2> QED
    BY <1>8, <2>1, CopyStep, OwnStep
<1>9. ASSUME NEW p \in Procs, NEW v \in Pages, NEW x \in Written, store(p, v, x) \/ sysc_read(p, v, x) PROVE PagingInv'
  <2>1. /\ pages[p][v].present /\ contents' = [contents EXCEPT ![pages[p][v].frame] = x]
        /\ UNCHANGED <<refcount, pdir, tables, pages, ustack, heap_end, proc_pid, status>>
    BY <1>9 DEF store, sysc_read
  <2> QED
    BY <2>1, WriteStep
<1> QED
  BY <1>1, <1>2, <1>3, <1>4, <1>5, <1>6, <1>7, <1>8, <1>9 DEF Next

\* Within the limits of frames and reference counts, no frame is used more often
\* than it is counted by memory_phys.c, page directories and page tables lie
\* apart from each other and from user pages, and copy-on-write frames are
\* read-only: what every handler that touches an address space preserves.
THEOREM PagingInvariant ==
    ASSUME WithinLimits
    PROVE  Spec => []PagingInv
<1>1. Init => PagingInv
  BY InitInv
<1>2. PagingInv /\ [Next]_vars => PagingInv'
  BY InvStep
<1> QED
  BY <1>1, <1>2, PTL DEF Spec

LEMMA InvCounted ==
    ASSUME PagingInv
    PROVE  Counted
<1>1. TypeOK /\ StructuresApart /\ MappingsCounted
  BY DEF PagingInv
<1>2. ASSUME NEW f \in Frames, Structures(f) # {}
      PROVE  Cardinality(Structures(f)) = 1 /\ Mappings(f) = {} /\ refcount[f] >= 1
  <2>1. \A ps \in Structures(f) : \E p \in Procs : \E s \in StructureNames :
          ps = <<p, s>> /\ status[p] # "free" /\ Structure(p, s) = f
    <3> SUFFICES ASSUME NEW ps \in Structures(f)
                 PROVE  \E p \in Procs : \E s \in StructureNames :
                          ps = <<p, s>> /\ status[p] # "free" /\ Structure(p, s) = f
      OBVIOUS
    <3>1. PICK p \in Procs, s \in StructureNames : ps = <<p, s>>
      BY DEF Structures, StructureNames
    <3>2. ps[1] = p /\ ps[2] = s
      BY <3>1
    <3>3. status[ps[1]] # "free" /\ f = IF ps[2] = "pdir" THEN pdir[ps[1]] ELSE tables[ps[1]][ps[2]]
      BY Zenon DEF Structures
    <3>4. status[p] # "free" /\ Structure(p, s) = f
      BY <3>2, <3>3 DEF Structure
    <3> QED
      BY <3>1, <3>4
  <2>2. PICK p \in Procs, s \in StructureNames :
          <<p, s>> \in Structures(f) /\ status[p] # "free" /\ Structure(p, s) = f
    BY <1>2, <2>1
  <2>3. Mappings(f) = {} /\ refcount[f] >= 1
    BY <1>1, <2>2 DEF StructuresApart
  <2>4. \A ps \in Structures(f) : ps = <<p, s>>
    BY <1>1, <2>1, <2>2 DEF StructuresApart
  <2>5. Structures(f) = {<<p, s>>}
    BY <2>2, <2>4
  <2>6. Cardinality({<<p, s>>}) = 1
    BY FS_Singleton
  <2> QED
    BY <2>3, <2>5, <2>6
<1> QED
  BY <1>1, <1>2 DEF Counted, MappingsCounted

\* A frame that is mapped is not handed out again, and the frame of a page
\* directory or a page table serves nothing else (alloc_phys_page,
\* clone_page_structures, nuke_page_directory).
THEOREM FramesCounted ==
    ASSUME WithinLimits
    PROVE  Spec => []Counted
<1>1. PagingInv => Counted
  BY InvCounted
<1>2. Spec => []PagingInv
  BY PagingInvariant
<1> QED
  BY <1>1, <1>2, PTL

\* What a fork shares is writable on neither side until page_fault_handler has
\* copied it or finds it mapped once.
THEOREM SharedFramesReadOnly ==
    ASSUME WithinLimits
    PROVE  Spec => []SharedReadOnly
<1>1. PagingInv => SharedReadOnly
  BY DEF PagingInv
<1>2. Spec => []PagingInv
  BY PagingInvariant
<1> QED
  BY <1>1, <1>2, PTL

LEMMA PrivateStep ==
    ASSUME Beyond = {}, PagingInv, [Next]_vars
    PROVE  [Private!Next]_View
<1>1. WithinLimits
  BY DEF WithinLimits
<1>2. Private!Nothing = [v \in Pages |-> NoPage]
  BY DEF Private!Nothing
<1>3. CASE UNCHANGED vars
  BY <1>3 DEF vars, View
<1>4. ASSUME NEW p \in Procs, NEW x \in Stale, loader_spawn(p, x) \/ loader_exec(p, x) PROVE Private!Next
  <2>1. View' = [View EXCEPT ![p] = Image(x)]
    BY <1>4, SpawnStep, ExecStep
  <2>2. Image(x) \in Images
    BY DEF Images
  <2>3. Private!Load(p)
    BY <2>1, <2>2 DEF Private!Load, Private!Becomes
  <2> QED
    BY <2>3 DEF Private!Next
<1>5. ASSUME NEW p \in Procs, NEW x \in Stale, sysc_sbrk(p, x) PROVE Private!Next
  <2>1. PICK v \in Pages : View[p][v] = NoPage /\ View' = [View EXCEPT ![p] = [View[p] EXCEPT ![v] = x]]
    BY <1>1, <1>5, SbrkStep
  <2>2. Private!Grow(p, v, x) /\ x \in Values
    BY <2>1, StaleIsValue DEF Private!Grow, Private!Becomes
  <2> QED
    BY <2>2 DEF Private!Next
<1>6. ASSUME NEW p \in Procs, exit(p) PROVE UNCHANGED View
  BY <1>6, ExitStep
<1>7. ASSUME NEW p \in Procs, proc_destroy(p) PROVE Private!Next
  <2>1. View' = [View EXCEPT ![p] = [v \in Pages |-> NoPage]]
    BY <1>7, DestroyStep
  <2>2. Private!End(p)
    BY <1>2, <2>1 DEF Private!End, Private!Becomes
  <2> QED
    BY <2>2 DEF Private!Next
<1>8. ASSUME NEW p \in Procs, NEW c \in Procs, proc_clone(p, c) PROVE Private!Next
  <2>1. View[c] = [v \in Pages |-> NoPage] /\ View' = [View EXCEPT ![c] = View[p]]
    BY <1>1, <1>8, ForkStep
  <2>2. Private!Fork(p, c)
    BY <1>2, <2>1 DEF Private!Fork, Private!Becomes
  <2> QED
    BY <2>2 DEF Private!Next
<1>9. ASSUME NEW p \in Procs, NEW v \in Pages, page_fault_handler(p, v) PROVE UNCHANGED View
  <2>1. cow_copy(p, v) \/ cow_own(p, v)
    BY <1>9 DEF page_fault_handler
  <2> QED
    BY <1>1, <1>9, <2>1, CopyStep, OwnStep
<1>10. ASSUME NEW p \in Procs, NEW v \in Pages, NEW x \in Written, store(p, v, x) \/ sysc_read(p, v, x) PROVE Private!Next
  <2>1. /\ pages[p][v].present /\ contents' = [contents EXCEPT ![pages[p][v].frame] = x] /\ pages[p][v].rw
        /\ UNCHANGED <<refcount, pdir, tables, pages, ustack, heap_end, proc_pid, status>>
    BY <1>10 DEF store, sysc_read
  <2>2. View[p][v] # NoPage /\ View' = [View EXCEPT ![p] = [View[p] EXCEPT ![v] = x]]
    BY <2>1, WriteStep
  <2>3. Private!Write(p, v, x) /\ x \in Values
    BY <2>2 DEF Private!Write, Private!Becomes, Values
  <2> QED
    BY <2>3 DEF Private!Next
<1> QED
  BY <1>3, <1>4, <1>5, <1>6, <1>7, <1>8, <1>9, <1>10 DEF Next

\* Copy-on-write is invisible: while the kernel writes to writable pages only and
\* nothing runs out, loading, forking, faulting, growing and destroying give each
\* process the private memory that PrivateMemory promises.
THEOREM PrivateMemoryImplemented ==
    ASSUME Beyond = {}
    PROVE  Spec => PrivateSpec
<1>1. WithinLimits
  BY DEF WithinLimits
<1>2. Spec => []PagingInv
  BY <1>1, PagingInvariant
<1>3. Init => Private!Init
  <2> SUFFICES ASSUME Init PROVE Private!Init
    OBVIOUS
  <2>1. \A q \in Procs : \A v \in Pages : ~pages[q][v].present
    BY EntryType DEF Init, NoPages
  <2> QED
    BY <2>1 DEF View, Private!Init, Private!Nothing
<1>4. PagingInv /\ [Next]_vars => [Private!Next]_View
  BY PrivateStep
<1> QED
  BY <1>2, <1>3, <1>4, PTL DEF Spec, PrivateSpec, Private!Spec
=============================================================================
