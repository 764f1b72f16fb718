------------------------------ MODULE HeapProof ------------------------------
(***************************************************************************)
(* The allocator of Heap keeps its list a tiling of the heap, so that no   *)
(* two callers share memory, and refuses nobody, if the first request fits *)
(* the memory the heap starts with.                                        *)
(***************************************************************************)
EXTENDS Heap, TLAPS

\* The assumptions on the constants, named once.
LEMMA HeapConstants ==
    /\ Start \in Nat /\ Start > 0 /\ InitEnd \in Nat /\ InitEnd > Start
    /\ Page \in Nat /\ Page > 0 /\ Header \in Nat /\ Header > 0
    /\ Sizes \subseteq Nat /\ MaxEnd \in Nat
BY HeapAssumption

\* Rounding a size up to eight loses nothing.
LEMMA AlignedFacts ==
    ASSUME NEW size \in Nat
    PROVE  /\ Aligned(size) \in Nat /\ Aligned(size) >= size
           /\ total_size(size) \in Nat /\ total_size(size) >= size + Header
           /\ total_size(size) > 0
<1>1. Aligned(size) \in Nat /\ Aligned(size) >= size
  BY DEF Aligned
<1> QED
  BY <1>1, HeapConstants DEF total_size

\* increase_heap adds at least the bytes it is asked for.
LEMMA PagesFacts ==
    ASSUME NEW bytes \in Nat
    PROVE  Pages(bytes) * Page \in Nat /\ Pages(bytes) * Page >= bytes
<1> DEFINE n == bytes + Page - 1
           q == n \div Page
<1>1. n \in Nat /\ Page \in Nat /\ Page > 0
  BY HeapConstants
<1>2. q \in Nat /\ n = Page * q + (n % Page) /\ n % Page \in 0..(Page - 1)
  BY <1>1
<1> HIDE DEF q
<1>3. Page * q \in Nat /\ q * Page = Page * q
  BY <1>1, <1>2
<1>4. Page * q >= bytes
  BY <1>1, <1>2, <1>3
<1> QED
  BY <1>3, <1>4 DEF Pages, q

-----------------------------------------------------------------------------
(* The invariant, with items[a] read once: TypeOK and the facts of a block.*)

\* What HeapInv says of one header.
LEMMA ItemFacts ==
    ASSUME HeapInv, NEW a \in Items
    PROVE  /\ a \in Nat /\ a > 0 /\ Start <= a
           /\ items[a].size \in Nat /\ items[a].next \in Nat
           /\ items[a].present \in BOOLEAN
           /\ items[a] = [size |-> items[a].size, next |-> items[a].next,
                          present |-> items[a].present]
           /\ After(a) = a + Header + items[a].size
           /\ After(a) \in Nat /\ After(a) < end /\ end \in Nat
<1>1. items[a] \in Item /\ a \in Nat /\ a > 0
  BY DEF HeapInv, TypeOK
<1>2. /\ items[a].size \in Nat /\ items[a].next \in Nat
      /\ items[a].present \in BOOLEAN
      /\ items[a] = [size |-> items[a].size, next |-> items[a].next,
                     present |-> items[a].present]
  BY <1>1 DEF Item
<1>3. After(a) = a + Header + items[a].size /\ After(a) \in Nat
  BY <1>1, <1>2, HeapConstants DEF After
<1> QED
  BY <1>1, <1>2, <1>3 DEF HeapInv, TypeOK

\* The headers it are at the addresses I and have these sizes, successors and
\* marks.
Shape(it, I, sz, nx, pr) ==
    it = [a \in I |-> [size |-> sz[a], next |-> nx[a], present |-> pr[a]]]

\* What HeapInv asks of each header, if callers hold H and the heap ends at e.
BlocksOK(I, H, e, sz, nx, pr) ==
    \A a \in I : /\ sz[a] \in Nat /\ nx[a] \in Nat /\ pr[a] \in BOOLEAN
                 /\ Start <= a /\ a + Header + sz[a] < e
                 /\ nx[a] # NULL => nx[a] = a + Header + sz[a] /\ nx[a] \in I
                 /\ pr[a] <=> a \in H

\* What it asks of two headers.
InOrder(I, sz, nx) ==
    \A a, b \in I : a < b => a + Header + sz[a] <= b /\ nx[a] # NULL

\* What it asks of the callers: each has a block as large as it asked for.
HeldOK(h, H, sz) == h \in [H -> Nat] /\ \A a \in H : h[a] <= sz[a]

\* HeapInv of the next state, from what an action does to each header.
LEMMA InvFrom ==
    ASSUME NEW I, NEW H, NEW sz, NEW nx, NEW pr, NEW last \in I,
           I \subseteq Nat \ {0}, H \subseteq I,
           Shape(items', I, sz, nx, pr),
           BlocksOK(I, H, end', sz, nx, pr),
           InOrder(I, sz, nx),
           HeldOK(held', H, sz),
           nx[last] = NULL,
           end' \in Nat, end' >= InitEnd, ~faulted', faulted' \in BOOLEAN,
           ~refused', refused' \in BOOLEAN
    PROVE  HeapInv'
<1>1. DOMAIN items' = I /\ DOMAIN held' = H /\ Items' = I
  BY DEF Items, Shape, HeldOK
<1>2. \A a \in I : /\ items'[a].size = sz[a] /\ items'[a].next = nx[a]
                   /\ items'[a].present = pr[a] /\ After(a)' = a + Header + sz[a]
                   /\ items'[a] \in Item
  BY DEF After, Item, Shape, BlocksOK
<1>3. TypeOK'
  <2>1. items' \in [I -> Item]
    BY <1>2 DEF Shape
  <2> QED
    BY <1>1, <2>1 DEF TypeOK, HeldOK
<1>4. Tiled'
  BY <1>1, <1>2 DEF Tiled, BlocksOK, InOrder
<1>5. HeldIsPresent'
  BY <1>1, <1>2 DEF HeldIsPresent, BlocksOK
<1>6. /\ \A a \in DOMAIN held' : held'[a] <= items'[a].size
      /\ \A a \in Items' : Start <= a /\ After(a)' < end'
      /\ \E a \in Items' : items'[a].next = NULL
      /\ end' >= InitEnd
  BY <1>1, <1>2 DEF HeldOK, BlocksOK
<1>7. NoFault' /\ NeverRefused'
  BY DEF NoFault, NeverRefused
<1> QED
  BY <1>3, <1>4, <1>5, <1>6, <1>7 DEF HeapInv

\* HeapInv of this state, in the same terms.
LEMMA InvTo ==
    ASSUME HeapInv, NEW sz, NEW nx, NEW pr,
           sz = [a \in Items |-> items[a].size],
           nx = [a \in Items |-> items[a].next],
           pr = [a \in Items |-> items[a].present]
    PROVE  /\ Items \subseteq Nat \ {0} /\ DOMAIN held \subseteq Items
           /\ Shape(items, Items, sz, nx, pr)
           /\ BlocksOK(Items, DOMAIN held, end, sz, nx, pr)
           /\ InOrder(Items, sz, nx)
           /\ HeldOK(held, DOMAIN held, sz)
           /\ Items # {} => \E a \in Items : nx[a] = NULL
           /\ end \in Nat /\ end >= InitEnd /\ ~faulted /\ faulted \in BOOLEAN
           /\ ~refused /\ refused \in BOOLEAN
<1>1. \A a \in Items : items[a] = [size |-> sz[a], next |-> nx[a], present |-> pr[a]]
  BY ItemFacts
<1>2. Shape(items, Items, sz, nx, pr)
  <2>1. items \in [Items -> Item]
    BY DEF HeapInv, TypeOK
  <2> QED
    BY <1>1, <2>1 DEF Shape
<1>3. BlocksOK(Items, DOMAIN held, end, sz, nx, pr)
  <2> SUFFICES ASSUME NEW a \in Items
               PROVE  /\ sz[a] \in Nat /\ nx[a] \in Nat /\ pr[a] \in BOOLEAN
                      /\ Start <= a /\ a + Header + sz[a] < end
                      /\ nx[a] # NULL => nx[a] = a + Header + sz[a] /\ nx[a] \in Items
                      /\ pr[a] <=> a \in DOMAIN held
    BY DEF BlocksOK
  <2>1. /\ items[a].next # NULL => items[a].next = After(a) /\ After(a) \in Items
        /\ items[a].present <=> a \in DOMAIN held
    BY DEF HeapInv, Tiled, HeldIsPresent
  <2> QED
    BY <2>1, ItemFacts
<1>4. InOrder(Items, sz, nx)
  BY ItemFacts DEF HeapInv, Tiled, InOrder
<1>5. HeldOK(held, DOMAIN held, sz)
  BY DEF HeapInv, TypeOK, HeldOK
<1>6. Items # {} => \E a \in Items : nx[a] = NULL
  BY DEF HeapInv
<1>7. /\ Items \subseteq Nat \ {0} /\ DOMAIN held \subseteq Items
      /\ end \in Nat /\ end >= InitEnd
      /\ ~faulted /\ faulted \in BOOLEAN /\ ~refused /\ refused \in BOOLEAN
  BY DEF HeapInv, TypeOK, NoFault, NeverRefused
<1> QED
  BY <1>2, <1>3, <1>4, <1>5, <1>6, <1>7

\* Marking a header changes nothing else of it.
LEMMA Marked ==
    ASSUME NEW r \in Item, NEW v
    PROVE  [r EXCEPT !.present = v] = [size |-> r.size, next |-> r.next, present |-> v]
BY DEF Item

\* Marking one header changes no other.
LEMMA MarkedPresent ==
    ASSUME NEW a \in Items, items \in [Items -> Item],
           items' = [items EXCEPT ![a].present = TRUE]
    PROVE  items' = [b \in Items |-> [size |-> items[b].size, next |-> items[b].next,
                                      present |-> IF b = a THEN TRUE ELSE items[b].present]]
<1>1. PICK r \in Item : r = items[a]
  OBVIOUS
<1>2. items' = [items EXCEPT ![a] = [r EXCEPT !.present = TRUE]]
  BY <1>1
<1>3. [r EXCEPT !.present = TRUE] = [size |-> items[a].size, next |-> items[a].next, present |-> TRUE]
  BY <1>1, Marked
<1>4. \A b \in Items : items[b] = [size |-> items[b].size, next |-> items[b].next,
                                  present |-> items[b].present]
  BY DEF Item
<1>5. \A b \in Items :
         items'[b] = [size |-> items[b].size, next |-> items[b].next,
                      present |-> IF b = a THEN TRUE ELSE items[b].present]
  <2> SUFFICES ASSUME NEW b \in Items
               PROVE  items'[b] = [size |-> items[b].size, next |-> items[b].next,
                                   present |-> IF b = a THEN TRUE ELSE items[b].present]
    OBVIOUS
  <2>1. CASE b = a
    <3>1. items'[b] = [r EXCEPT !.present = TRUE]
      BY <2>1, <1>2
    <3> QED
      BY <2>1, <3>1, <1>3
  <2>2. CASE b # a
    <3>1. items'[b] = items[b]
      BY <2>2, <1>2
    <3> QED
      BY <2>2, <3>1, <1>4
  <2> QED
    BY <2>1, <2>2
<1>6. items' = [b \in Items |-> items'[b]]
  BY <1>2
<1> QED
  BY <1>5, <1>6

\* Nor does marking one free.
LEMMA MarkedFree ==
    ASSUME NEW a \in Items, items \in [Items -> Item],
           items' = [items EXCEPT ![a].present = FALSE]
    PROVE  items' = [b \in Items |-> [size |-> items[b].size, next |-> items[b].next,
                                      present |-> IF b = a THEN FALSE ELSE items[b].present]]
<1>1. PICK r \in Item : r = items[a]
  OBVIOUS
<1>2. items' = [items EXCEPT ![a] = [r EXCEPT !.present = FALSE]]
  BY <1>1
<1>3. [r EXCEPT !.present = FALSE] = [size |-> items[a].size, next |-> items[a].next, present |-> FALSE]
  BY <1>1, Marked
<1>4. \A b \in Items : items[b] = [size |-> items[b].size, next |-> items[b].next,
                                  present |-> items[b].present]
  BY DEF Item
<1>5. \A b \in Items :
         items'[b] = [size |-> items[b].size, next |-> items[b].next,
                      present |-> IF b = a THEN FALSE ELSE items[b].present]
  <2> SUFFICES ASSUME NEW b \in Items
               PROVE  items'[b] = [size |-> items[b].size, next |-> items[b].next,
                                   present |-> IF b = a THEN FALSE ELSE items[b].present]
    OBVIOUS
  <2>1. CASE b = a
    <3>1. items'[b] = [r EXCEPT !.present = FALSE]
      BY <2>1, <1>2
    <3> QED
      BY <2>1, <3>1, <1>3
  <2>2. CASE b # a
    <3>1. items'[b] = items[b]
      BY <2>2, <1>2
    <3> QED
      BY <2>2, <3>1, <1>4
  <2> QED
    BY <2>1, <2>2
<1>6. items' = [b \in Items |-> items'[b]]
  BY <1>2
<1> QED
  BY <1>5, <1>6

\* Nothing is allocated at first.
LEMMA HeapInit == Init => HeapInv
<1> SUFFICES ASSUME Init PROVE HeapInv
  OBVIOUS
<1>1. /\ Items = {} /\ DOMAIN held = {} /\ end = InitEnd /\ end \in Nat
      /\ faulted = FALSE /\ refused = FALSE
  BY HeapConstants DEF Init, Items
<1>2. items \in [Items -> Item]
  BY <1>1 DEF Init, Items
<1>3. held \in [DOMAIN held -> Nat]
  BY <1>1 DEF Init
<1>4. TypeOK
  BY <1>1, <1>2, <1>3 DEF TypeOK
<1>5. Tiled /\ HeldIsPresent /\ NoFault /\ NeverRefused
  BY <1>1 DEF Tiled, HeldIsPresent, NoFault, NeverRefused
<1> QED
  BY <1>1, <1>4, <1>5, HeapConstants DEF HeapInv

\* The first block.
LEMMA FirstInv ==
    ASSUME HeapInv, FirstFitsPage, NEW size \in FirstSizes, malloc_first(size)
    PROVE  HeapInv'
<1> DEFINE I == {Start}
           sz == [a \in I |-> size]
           nx == [a \in I |-> NULL]
           pr == [a \in I |-> TRUE]
<1>1. size \in Nat /\ Start + Header + size < InitEnd
  BY AlignedFacts, HeapConstants, HeapAssumption DEF FirstFitsPage
<1>2. /\ end \in Nat /\ end >= InitEnd /\ DOMAIN held = {}
      /\ ~refused /\ refused \in BOOLEAN
  BY DEF HeapInv, TypeOK, malloc_first, NeverRefused
<1>3. /\ items' = [a \in {Start} |-> [size |-> size, next |-> NULL, present |-> TRUE]]
      /\ held' = [b \in {Start} |-> size] /\ end' = end /\ refused' = refused
      /\ faulted' = (Start + Header + size > end)
  BY <1>2 DEF malloc_first, Give
<1>4. ~(Start + Header + size > end)
  BY <1>1, <1>2, HeapConstants
<1>5. ~faulted' /\ faulted' \in BOOLEAN
  <2>1. (Start + Header + size > end) = FALSE
    BY <1>4
  <2>2. faulted' = FALSE
    BY <1>3, <2>1, Zenon
  <2> QED
    BY <2>2
<1>6. ~refused' /\ refused' \in BOOLEAN
  BY <1>2, <1>3
<1>7. Shape(items', I, sz, nx, pr)
  BY <1>3 DEF Shape
<1>8. HeldOK(held', I, sz)
  BY <1>1, <1>3 DEF HeldOK
<1>9. BlocksOK(I, I, end', sz, nx, pr)
  BY <1>1, <1>2, <1>3, HeapConstants DEF NULL, BlocksOK
<1>10. InOrder(I, sz, nx)
  BY HeapConstants DEF InOrder
<1>11. /\ nx[Start] = NULL /\ Start \in I /\ I \subseteq Nat \ {0} /\ I \subseteq I
       /\ end' \in Nat /\ end' >= InitEnd
  BY <1>2, <1>3, HeapConstants
<1> HIDE DEF I, sz, nx, pr
<1> QED
  BY <1>5, <1>6, <1>7, <1>8, <1>9, <1>10, <1>11, InvFrom

\* A caller gives its block back.
LEMMA FreeInv ==
    ASSUME HeapInv, NEW a \in DOMAIN held, kern_free(a)
    PROVE  HeapInv'
<1> DEFINE H == DOMAIN held \ {a}
           sz == [b \in Items |-> items[b].size]
           nx == [b \in Items |-> items[b].next]
           pr == [b \in Items |-> items[b].present]
           np == [b \in Items |-> IF b = a THEN FALSE ELSE items[b].present]
<1>1. /\ Items \subseteq Nat \ {0} /\ DOMAIN held \subseteq Items
      /\ Shape(items, Items, sz, nx, pr)
      /\ BlocksOK(Items, DOMAIN held, end, sz, nx, pr)
      /\ InOrder(Items, sz, nx)
      /\ HeldOK(held, DOMAIN held, sz)
      /\ Items # {} => \E b \in Items : nx[b] = NULL
      /\ end \in Nat /\ end >= InitEnd /\ ~faulted /\ faulted \in BOOLEAN
      /\ ~refused /\ refused \in BOOLEAN
  BY InvTo
<1>2. PICK last \in Items : nx[last] = NULL
  BY <1>1
<1>3. /\ items' = [items EXCEPT ![a].present = FALSE]
      /\ held' = [b \in H |-> held[b]]
      /\ end' = end /\ faulted' = faulted /\ refused' = refused
  BY DEF kern_free
<1>4. Shape(items', Items, sz, nx, np)
  <2>1. items \in [Items -> Item]
    BY DEF HeapInv, TypeOK
  <2>2. items' = [b \in Items |-> [size |-> items[b].size, next |-> items[b].next,
                                   present |-> IF b = a THEN FALSE ELSE items[b].present]]
    BY <1>1, <1>3, <2>1, MarkedFree
  <2> QED
    BY <2>2 DEF Shape
<1>5. HeldOK(held', H, sz)
  BY <1>1, <1>3 DEF HeldOK
<1>6. BlocksOK(Items, H, end', sz, nx, np)
  BY <1>1, <1>3 DEF BlocksOK
<1>7. H \subseteq Items
  BY <1>1
<1> HIDE DEF H, sz, nx, pr, np
<1> QED
  BY <1>1, <1>2, <1>3, <1>4, <1>5, <1>6, <1>7, InvFrom

\* A block from the middle of the list, taken whole.
LEMMA ReuseWhole ==
    ASSUME HeapInv, NEW size \in Nat, NEW a \in Items, Fits(a, size),
           items' = [items EXCEPT ![a].present = TRUE],
           Give(a, size), UNCHANGED <<end, faulted, refused>>
    PROVE  HeapInv'
<1> DEFINE H == DOMAIN held \cup {a}
           sz == [b \in Items |-> items[b].size]
           nx == [b \in Items |-> items[b].next]
           pr == [b \in Items |-> items[b].present]
           np == [b \in Items |-> IF b = a THEN TRUE ELSE items[b].present]
<1>1. /\ Items \subseteq Nat \ {0} /\ DOMAIN held \subseteq Items
      /\ BlocksOK(Items, DOMAIN held, end, sz, nx, pr)
      /\ InOrder(Items, sz, nx)
      /\ HeldOK(held, DOMAIN held, sz)
      /\ Items # {} => \E b \in Items : nx[b] = NULL
      /\ end \in Nat /\ end >= InitEnd /\ ~faulted /\ faulted \in BOOLEAN
      /\ ~refused /\ refused \in BOOLEAN
  BY InvTo
<1>2. PICK last \in Items : nx[last] = NULL
  BY <1>1
<1>3. /\ held' = [b \in H |-> IF b = a THEN size ELSE held[b]]
      /\ end' = end /\ faulted' = faulted /\ refused' = refused
  BY DEF Give
<1>4. Shape(items', Items, sz, nx, np)
  <2>1. items \in [Items -> Item]
    BY DEF HeapInv, TypeOK
  <2>2. items' = [b \in Items |-> [size |-> items[b].size, next |-> items[b].next,
                                   present |-> IF b = a THEN TRUE ELSE items[b].present]]
    BY <2>1, MarkedPresent
  <2> QED
    BY <2>2 DEF Shape
<1>5. HeldOK(held', H, sz)
  <2>1. sz[a] >= size
    BY DEF Fits
  <2>2. held' \in [H -> Nat]
    BY <1>1, <1>3 DEF HeldOK
  <2> QED
    BY <1>1, <1>3, <2>1, <2>2 DEF HeldOK, BlocksOK
<1>6. BlocksOK(Items, H, end', sz, nx, np)
  <2> SUFFICES ASSUME NEW b \in Items
               PROVE  /\ sz[b] \in Nat /\ nx[b] \in Nat /\ np[b] \in BOOLEAN
                      /\ Start <= b /\ b + Header + sz[b] < end'
                      /\ nx[b] # NULL => nx[b] = b + Header + sz[b] /\ nx[b] \in Items
                      /\ np[b] <=> b \in H
    BY DEF BlocksOK
  <2>1. /\ sz[b] \in Nat /\ nx[b] \in Nat /\ pr[b] \in BOOLEAN
        /\ Start <= b /\ b + Header + sz[b] < end
        /\ nx[b] # NULL => nx[b] = b + Header + sz[b] /\ nx[b] \in Items
        /\ pr[b] <=> b \in DOMAIN held
    BY <1>1 DEF BlocksOK
  <2>2. np[b] \in BOOLEAN /\ (np[b] <=> b \in H)
    BY <2>1
  <2> QED
    BY <1>3, <2>1, <2>2
<1>7. H \subseteq Items
  BY <1>1
<1> HIDE DEF H, sz, nx, pr, np
<1> QED
  BY ONLY <1>1, <1>2, <1>3, <1>4, <1>5, <1>6, <1>7, InvFrom

\* The first part of a block from the middle of the list.
LEMMA ReuseSplit ==
    ASSUME HeapInv, NEW size \in Nat, NEW a \in Items, Fits(a, size),
           items[a].size - size >= Header + 1, Split(a, size),
           Give(a, size), UNCHANGED <<end, faulted, refused>>
    PROVE  HeapInv'
<1> DEFINE H == DOMAIN held \cup {a}
           sz == [b \in Items |-> items[b].size]
           nx == [b \in Items |-> items[b].next]
           pr == [b \in Items |-> items[b].present]
           sib == a + Header + size
           left == items[a].size - size - Header
           I == Items \cup {sib}
           ns == [b \in I |-> IF b = a THEN size ELSE IF b = sib THEN left
                              ELSE items[b].size]
           nn == [b \in I |-> IF b = a THEN sib ELSE IF b = sib THEN items[a].next
                              ELSE items[b].next]
           np == [b \in I |-> IF b = a THEN TRUE ELSE IF b = sib THEN FALSE
                              ELSE items[b].present]
<1>1. /\ Items \subseteq Nat \ {0} /\ DOMAIN held \subseteq Items
      /\ Shape(items, Items, sz, nx, pr)
      /\ BlocksOK(Items, DOMAIN held, end, sz, nx, pr)
      /\ InOrder(Items, sz, nx)
      /\ HeldOK(held, DOMAIN held, sz)
      /\ Items # {} => \E b \in Items : nx[b] = NULL
      /\ end \in Nat /\ end >= InitEnd /\ ~faulted /\ faulted \in BOOLEAN
      /\ ~refused /\ refused \in BOOLEAN
  BY InvTo
<1>2. PICK last \in Items : nx[last] = NULL
  BY <1>1
<1>3. /\ held' = [b \in H |-> IF b = a THEN size ELSE held[b]]
      /\ end' = end /\ faulted' = faulted /\ refused' = refused
  BY DEF Give
<1>4. /\ items[a].next = a + Header + items[a].size /\ items[a].next \in Items
      /\ items[a].next # NULL /\ items[a].size \in Nat /\ items[a].size >= size
      /\ a \in Nat /\ Header \in Nat /\ Header > 0 /\ Start \in Nat /\ Start <= a
      /\ a + Header + items[a].size < end /\ a # 0
  BY <1>1, HeapConstants DEF Fits, BlocksOK
<1>5. /\ sib \in Nat /\ a < sib /\ sib < items[a].next /\ Start <= sib /\ sib # 0
      /\ left \in Nat /\ sib + Header + left = items[a].next
      /\ sib + Header + left < end
  BY <1>4
<1>6. sib \notin Items /\ a # sib /\ \A b \in Items : b < sib <=> b <= a
  BY <1>1, <1>4, <1>5 DEF InOrder
<1>7. Shape(items', I, ns, nn, np)
  <2>1. \A b \in Items : items[b] = [size |-> sz[b], next |-> nx[b], present |-> pr[b]]
    BY <1>1 DEF Shape
  <2>2. items' = [b \in I |->
                    IF b = a THEN [size |-> size, next |-> sib, present |-> TRUE]
                    ELSE IF b = sib
                    THEN [size |-> left, next |-> items[a].next, present |-> FALSE]
                    ELSE items[b]]
    BY DEF Split
  <2> QED
    BY <2>1, <2>2, <1>6 DEF Shape
<1>8. /\ ns[a] = size /\ nn[a] = sib /\ np[a] = TRUE
      /\ ns[sib] = left /\ nn[sib] = items[a].next /\ np[sib] = FALSE
      /\ \A b \in Items \ {a} : ns[b] = sz[b] /\ nn[b] = nx[b] /\ np[b] = pr[b]
      /\ sz[a] = items[a].size
  BY <1>6
<1>9. /\ I = Items \cup {sib} /\ I \subseteq Nat \ {0} /\ H \subseteq I
      /\ last \in I /\ last # a /\ sib = a + Header + size
      /\ H = DOMAIN held \cup {a}
  BY <1>1, <1>2, <1>4, <1>5
<1> HIDE DEF sz, nx, pr, ns, nn, np, I, sib, left, H
<1>10. BlocksOK(I, H, end', ns, nn, np)
  <2> SUFFICES ASSUME NEW b \in I
               PROVE  /\ ns[b] \in Nat /\ nn[b] \in Nat /\ np[b] \in BOOLEAN
                      /\ Start <= b /\ b + Header + ns[b] < end'
                      /\ nn[b] # NULL => nn[b] = b + Header + ns[b] /\ nn[b] \in I
                      /\ np[b] <=> b \in H
    BY DEF BlocksOK
  <2>1. CASE b = a
    <3>1. ns[b] = size /\ nn[b] = sib /\ np[b] = TRUE
      BY <2>1, <1>8
    <3>2. np[b] \in BOOLEAN /\ (np[b] <=> b \in H)
      BY <2>1, <3>1, <1>9
    <3>3. Start <= b /\ b + Header + ns[b] < end' /\ nn[b] = b + Header + ns[b]
      BY <2>1, <3>1, <1>3, <1>4, <1>5, <1>9, <1>1
    <3>4. ns[b] \in Nat /\ nn[b] \in Nat /\ nn[b] \in I
      BY <3>1, <1>5, <1>9
    <3> QED
      BY <3>2, <3>3, <3>4
  <2>2. CASE b = sib
    <3>1. ns[b] = left /\ nn[b] = items[a].next /\ np[b] = FALSE
      BY <2>2, <1>8
    <3>2. np[b] \in BOOLEAN /\ (np[b] <=> b \in H)
      BY <2>2, <3>1, <1>1, <1>6, <1>9
    <3>3. Start <= b /\ b + Header + ns[b] < end' /\ nn[b] = b + Header + ns[b]
      BY <2>2, <3>1, <1>3, <1>5
    <3>4. ns[b] \in Nat /\ nn[b] \in Nat /\ nn[b] \in I
      BY <3>1, <1>1, <1>4, <1>5, <1>9
    <3> QED
      BY <3>2, <3>3, <3>4
  <2>3. CASE b \in Items \ {a}
    BY <2>3, <1>1, <1>3, <1>8, <1>9 DEF BlocksOK
  <2> QED
    BY <2>1, <2>2, <2>3, <1>9
<1>11. InOrder(I, ns, nn)
  <2> SUFFICES ASSUME NEW b \in I, NEW c \in I, b < c
               PROVE  b + Header + ns[b] <= c /\ nn[b] # NULL
    BY DEF InOrder
  <2>1. CASE b = a
    <3>1. c = sib \/ (c \in Items /\ a + Header + items[a].size <= c)
      BY <2>1, <1>1, <1>8, <1>9 DEF InOrder
    <3>2. sib <= c
      BY <3>1, <1>1, <1>4, <1>5, <1>9
    <3> QED
      BY <2>1, <3>2, <1>5, <1>8, <1>9 DEF NULL
  <2>2. CASE b = sib
    <3>0. c \in Nat /\ c # sib
      BY <2>2, <1>5, <1>9
    <3>1. c \in Items /\ a < c
      BY <2>2, <3>0, <1>4, <1>5, <1>9
    <3>2. items[a].next <= c
      BY <3>1, <1>1, <1>4, <1>8 DEF InOrder
    <3> QED
      BY <2>2, <3>2, <1>4, <1>5, <1>8
  <2>3. CASE b \in Items \ {a} /\ c \in Items
    BY <2>3, <1>1, <1>8 DEF InOrder
  <2>4. CASE b \in Items \ {a} /\ c = sib
    <3>1. b < a
      BY <2>4, <1>1, <1>4, <1>6
    <3>2. b + Header + sz[b] <= a /\ nx[b] # NULL
      BY <2>4, <3>1, <1>1 DEF InOrder
    <3>3. sz[b] \in Nat /\ b \in Nat
      BY <2>4, <1>1 DEF BlocksOK
    <3> QED
      BY <2>4, <3>2, <3>3, <1>4, <1>5, <1>8
  <2> QED
    BY <2>1, <2>2, <2>3, <2>4, <1>9
<1>12. HeldOK(held', H, ns)
  <2>1. held' \in [H -> Nat]
    BY <1>1, <1>3 DEF HeldOK, H
  <2>2. ASSUME NEW b \in H PROVE held'[b] <= ns[b]
    <3>1. CASE b = a
      BY <3>1, <1>3, <1>8
    <3>2. CASE b # a
      BY <3>2, <1>1, <1>3, <1>8, <1>9 DEF HeldOK
    <3> QED
      BY <3>1, <3>2
  <2> QED
    BY <2>1, <2>2 DEF HeldOK
<1>13. nn[last] = NULL
  BY <1>2, <1>8, <1>9
<1> QED
  BY ONLY <1>1, <1>3, <1>7, <1>9, <1>10, <1>11, <1>12, <1>13, InvFrom

\* A block from the middle of the list.
LEMMA ReuseInv ==
    ASSUME HeapInv, NEW size \in Sizes, malloc_reuse(size)
    PROVE  HeapInv'
<1>1. size \in Nat
  BY HeapConstants
<1>2. PICK a \in Items :
        /\ FirstFit(a, size)
        /\ IF items[a].size - size >= Header + 1
           THEN Split(a, size)
           ELSE items' = [items EXCEPT ![a].present = TRUE]
        /\ Give(a, size)
        /\ UNCHANGED <<end, faulted, refused>>
  BY DEF malloc_reuse
<1>3. Fits(a, size)
  BY <1>2 DEF FirstFit
<1> QED
  BY <1>1, <1>2, <1>3, ReuseWhole, ReuseSplit

\* Growing the heap makes room for the block.
LEMMA GrownFacts ==
    ASSUME NEW hsaddr \in Nat, NEW size \in Nat, end \in Nat, hsaddr < end
    PROVE  /\ Grown(hsaddr, size) \in Nat /\ Grown(hsaddr, size) >= end
           /\ hsaddr + total_size(size) < Grown(hsaddr, size)
<1>1. total_size(size) \in Nat
  BY AlignedFacts
<1>2. /\ Pages(total_size(size)) * Page \in Nat
      /\ Pages(total_size(size)) * Page >= total_size(size)
  BY <1>1, PagesFacts
<1> QED
  BY <1>1, <1>2 DEF Grown

\* A block behind the last one.
LEMMA AppendInv ==
    ASSUME HeapInv, NEW size \in Sizes, malloc_append(size)
    PROVE  HeapInv'
<1>1. PICK a \in Items :
        /\ items[a].next = NULL
        /\ end' = Grown(After(a), size)
        /\ IF After(a) + total_size(size) < end'
           THEN /\ items' = [b \in Items \cup {After(a)} |->
                       IF b = After(a)
                       THEN [size |-> size, next |-> NULL, present |-> TRUE]
                       ELSE IF b = a THEN [items[a] EXCEPT !.next = After(a)]
                       ELSE items[b]]
                /\ Give(After(a), size)
                /\ UNCHANGED refused
           ELSE refused' = TRUE /\ UNCHANGED <<items, held>>
        /\ UNCHANGED faulted
  BY DEF malloc_append
<1> DEFINE new == After(a)
           H == DOMAIN held \cup {new}
           I == Items \cup {new}
           sz == [b \in Items |-> items[b].size]
           nx == [b \in Items |-> items[b].next]
           pr == [b \in Items |-> items[b].present]
           ns == [b \in I |-> IF b = new THEN size ELSE items[b].size]
           nn == [b \in I |-> IF b = new THEN NULL ELSE IF b = a THEN new
                              ELSE items[b].next]
           np == [b \in I |-> IF b = new THEN TRUE ELSE items[b].present]
<1>2. /\ Items \subseteq Nat \ {0} /\ DOMAIN held \subseteq Items
      /\ Shape(items, Items, sz, nx, pr)
      /\ BlocksOK(Items, DOMAIN held, end, sz, nx, pr)
      /\ InOrder(Items, sz, nx)
      /\ HeldOK(held, DOMAIN held, sz)
      /\ end \in Nat /\ end >= InitEnd /\ ~faulted /\ faulted \in BOOLEAN
      /\ ~refused /\ refused \in BOOLEAN
  BY InvTo
<1>3. /\ size \in Nat /\ a \in Nat /\ a > 0 /\ Start <= a /\ items[a].size \in Nat
      /\ new = a + Header + items[a].size /\ new \in Nat /\ new < end
      /\ Header \in Nat /\ Header > 0 /\ Start \in Nat /\ InitEnd \in Nat
  BY ItemFacts, HeapConstants
<1>4. /\ end' \in Nat /\ end' >= end /\ new + Header + size < end'
      /\ new + total_size(size) < end'
  BY <1>1, <1>2, <1>3, GrownFacts, AlignedFacts
<1>5. /\ items' = [b \in I |-> IF b = new
                               THEN [size |-> size, next |-> NULL, present |-> TRUE]
                               ELSE IF b = a THEN [items[a] EXCEPT !.next = new]
                               ELSE items[b]]
      /\ held' = [b \in H |-> IF b = new THEN size ELSE held[b]]
      /\ refused' = refused /\ faulted' = faulted
  BY <1>1, <1>4 DEF Give
<1>6. \A b \in Items : b <= a
  BY <1>1, <1>2, <1>3 DEF InOrder
<1>7. new \notin Items /\ a # new /\ new > a
  BY <1>3, <1>6
<1>8. Shape(items', I, ns, nn, np)
  <2>1. \A b \in Items : items[b] = [size |-> sz[b], next |-> nx[b], present |-> pr[b]]
    BY <1>2 DEF Shape
  <2>2. [items[a] EXCEPT !.next = new]
          = [size |-> items[a].size, next |-> new, present |-> items[a].present]
    <3>1. PICK r : r = items[a]
      OBVIOUS
    <3>2. r = [size |-> r.size, next |-> r.next, present |-> r.present]
      BY <2>1, <3>1
    <3>3. [r EXCEPT !.next = new] = [size |-> r.size, next |-> new, present |-> r.present]
      BY <3>2
    <3> QED
      BY <3>1, <3>3
  <2> QED
    BY <2>1, <2>2, <1>5, <1>7 DEF Shape
<1>9. /\ ns[new] = size /\ nn[new] = NULL /\ np[new] = TRUE
      /\ ns[a] = sz[a] /\ nn[a] = new /\ np[a] = pr[a]
      /\ \A b \in Items \ {a} : ns[b] = sz[b] /\ nn[b] = nx[b] /\ np[b] = pr[b]
      /\ sz[a] = items[a].size
  BY <1>7
<1>10. /\ I = Items \cup {new} /\ I \subseteq Nat \ {0} /\ H \subseteq I
       /\ new \in I /\ H = DOMAIN held \cup {new} /\ end' >= InitEnd
  <2>1. end' >= InitEnd
    BY <1>2, <1>3, <1>4
  <2>2. new \in Nat \ {0}
    BY <1>3
  <2> HIDE DEF new
  <2> QED
    BY <1>2, <2>1, <2>2
<1> HIDE DEF sz, nx, pr, ns, nn, np, I, new, H
<1>11. BlocksOK(I, H, end', ns, nn, np)
  <2> SUFFICES ASSUME NEW b \in I
               PROVE  /\ ns[b] \in Nat /\ nn[b] \in Nat /\ np[b] \in BOOLEAN
                      /\ Start <= b /\ b + Header + ns[b] < end'
                      /\ nn[b] # NULL => nn[b] = b + Header + ns[b] /\ nn[b] \in I
                      /\ np[b] <=> b \in H
    BY DEF BlocksOK
  <2>1. CASE b = new
    <3>1. ns[b] = size /\ nn[b] = NULL /\ np[b] = TRUE
      BY <2>1, <1>9
    <3>2. np[b] \in BOOLEAN /\ (np[b] <=> b \in H)
      BY <2>1, <3>1, <1>10
    <3> QED
      BY <2>1, <3>1, <3>2, <1>3, <1>4, <1>7 DEF NULL
  <2>2. CASE b \in Items
    <3>1. /\ sz[b] \in Nat /\ nx[b] \in Nat /\ pr[b] \in BOOLEAN
          /\ Start <= b /\ b + Header + sz[b] < end
          /\ nx[b] # NULL => nx[b] = b + Header + sz[b] /\ nx[b] \in Items
          /\ pr[b] <=> b \in DOMAIN held
      BY <2>2, <1>2 DEF BlocksOK
    <3>2. ns[b] = sz[b] /\ np[b] = pr[b] /\ b # new
      BY <2>2, <1>7, <1>9
    <3>3. np[b] \in BOOLEAN /\ (np[b] <=> b \in H)
      BY <3>1, <3>2, <1>10
    <3>4. /\ nn[b] \in Nat
          /\ nn[b] # NULL => nn[b] = b + Header + ns[b] /\ nn[b] \in I
      BY <2>2, <3>1, <3>2, <1>3, <1>9, <1>10
    <3>5. Start <= b /\ b + Header + ns[b] < end'
      BY <2>2, <3>1, <3>2, <1>2, <1>3, <1>4
    <3> QED
      BY <3>1, <3>2, <3>3, <3>4, <3>5
  <2> QED
    BY <2>1, <2>2, <1>10
<1>12. InOrder(I, ns, nn)
  <2> SUFFICES ASSUME NEW b \in I, NEW c \in I, b < c
               PROVE  b + Header + ns[b] <= c /\ nn[b] # NULL
    BY DEF InOrder
  <2>1. b \in Items
    BY <1>3, <1>6, <1>7, <1>10
  <2>2. sz[b] \in Nat /\ b \in Nat /\ ns[b] = sz[b]
    BY <2>1, <1>2, <1>9 DEF BlocksOK
  <2>3. CASE c \in Items
    BY <2>1, <2>2, <2>3, <1>2, <1>3, <1>7, <1>9 DEF InOrder, NULL
  <2>4. CASE c = new /\ b = a
    BY <2>4, <1>3, <1>9 DEF NULL
  <2>5. CASE c = new /\ b # a
    <3>1. b < a
      BY <2>1, <2>2, <2>5, <1>3, <1>6
    <3>2. b + Header + sz[b] <= a /\ nx[b] # NULL
      BY <2>1, <3>1, <1>2 DEF InOrder
    <3> QED
      BY <2>1, <2>2, <2>5, <3>2, <1>3, <1>7, <1>9
  <2> QED
    BY <2>3, <2>4, <2>5, <1>10
<1>13. HeldOK(held', H, ns)
  <2>1. held' \in [H -> Nat]
    BY <1>2, <1>3, <1>5, <1>10 DEF HeldOK
  <2>2. ASSUME NEW b \in H PROVE held'[b] <= ns[b]
    <3>1. CASE b = new
      BY <3>1, <1>3, <1>5, <1>9
    <3>2. CASE b # new
      BY <3>2, <1>2, <1>5, <1>9, <1>10 DEF HeldOK
    <3> QED
      BY <3>1, <3>2
  <2> QED
    BY <2>1, <2>2 DEF HeldOK
<1> QED
  BY ONLY <1>2, <1>4, <1>5, <1>8, <1>9, <1>10, <1>11, <1>12, <1>13, InvFrom

-----------------------------------------------------------------------------
\* Every call of the allocator keeps the invariant.
LEMMA HeapNext ==
    ASSUME FirstFitsPage, HeapInv, [Next]_vars
    PROVE  HeapInv'
<1>1. CASE UNCHANGED vars
  BY <1>1 DEF vars, HeapInv, TypeOK, Tiled, HeldIsPresent, NoFault, NeverRefused,
              Items, After
<1>2. CASE Next
  BY <1>2, FirstInv, ReuseInv, AppendInv, FreeInv DEF Next
<1> QED
  BY <1>1, <1>2

\* kern_malloc and kern_free keep the list of headers a tiling of the heap in
\* which the blocks marked present are the ones callers hold, for every page
\* and header size and requests of any size, of several pages too, if the first
\* one fits the memory the heap starts with.
THEOREM HeapInvariant ==
    ASSUME FirstFitsPage
    PROVE  Spec => []HeapInv
<1>1. Init => HeapInv
  BY HeapInit
<1>2. HeapInv /\ [Next]_vars => HeapInv'
  BY HeapNext
<1> QED
  BY <1>1, <1>2, PTL DEF Spec

\* No two callers of kern_malloc are given a common byte, nor a byte of a
\* header, nor one beyond the end of the heap.
THEOREM HeapExclusive ==
    ASSUME FirstFitsPage
    PROVE  Spec => []Exclusive
<1>1. HeapInv => Exclusive
  <2> SUFFICES ASSUME HeapInv, NEW a \in DOMAIN held
               PROVE  /\ Bytes(a) \subseteq Start..(end - 1)
                      /\ \A b \in DOMAIN held \ {a} : Bytes(a) \cap Bytes(b) = {}
                      /\ \A b \in Items : Bytes(a) \cap (b..(b + Header - 1)) = {}
    BY DEF Exclusive
  <2>1. \A b \in DOMAIN held : /\ b \in Items /\ held[b] \in Nat
                               /\ b + Header + held[b] <= After(b)
    <3>1. \A b \in DOMAIN held : b \in Items /\ held[b] \in Nat /\ held[b] <= items[b].size
      BY DEF HeapInv, TypeOK
    <3>2. ASSUME NEW b \in DOMAIN held PROVE b + Header + held[b] <= After(b)
      <4>1. /\ b \in Nat /\ items[b].size \in Nat
            /\ After(b) = b + Header + items[b].size
        BY <3>1, ItemFacts
      <4> QED
        BY <3>1, <4>1, HeapConstants
    <3> QED
      BY <3>1, <3>2
  <2>2. \A b \in Items : /\ b \in Nat /\ After(b) \in Nat /\ After(b) < end /\ Start <= b
                         /\ b + Header <= After(b)
    <3> SUFFICES ASSUME NEW b \in Items
                 PROVE  /\ b \in Nat /\ After(b) \in Nat /\ After(b) < end
                        /\ Start <= b /\ b + Header <= After(b)
      OBVIOUS
    <3>1. /\ b \in Nat /\ items[b].size \in Nat /\ Start <= b
          /\ After(b) = b + Header + items[b].size /\ After(b) \in Nat /\ After(b) < end
      BY ItemFacts
    <3> QED
      BY <3>1, HeapConstants
  <2>3. \A b, c \in Items : b < c => After(b) <= c
    BY DEF HeapInv, Tiled
  <2>4. end \in Nat /\ Header \in Nat /\ Header > 0 /\ Start \in Nat
    BY HeapConstants DEF HeapInv, TypeOK
  <2>5. Bytes(a) \subseteq Start..(end - 1)
    BY <2>1, <2>2, <2>4 DEF Bytes
  <2>6. ASSUME NEW b \in DOMAIN held \ {a} PROVE Bytes(a) \cap Bytes(b) = {}
    <3>1. After(a) <= b \/ After(b) <= a
      BY <2>1, <2>2, <2>3
    <3> QED
      BY <3>1, <2>1, <2>2, <2>4 DEF Bytes
  <2>7. ASSUME NEW b \in Items PROVE Bytes(a) \cap (b..(b + Header - 1)) = {}
    <3>1. b = a \/ After(a) <= b \/ After(b) <= a
      BY <2>1, <2>2, <2>3
    <3> QED
      BY <3>1, <2>1, <2>2, <2>4 DEF Bytes
  <2> QED
    BY <2>5, <2>6, <2>7
<1> QED
  BY <1>1, HeapInvariant, PTL

\* Growing the heap always makes room: kern_malloc never returns NULL.
THEOREM HeapNeverRefuses ==
    ASSUME FirstFitsPage
    PROVE  Spec => []NeverRefused
<1>1. HeapInv => NeverRefused
  BY DEF HeapInv
<1> QED
  BY <1>1, HeapInvariant, PTL
==============================================================================
