---------------------------- MODULE LibraryProof ----------------------------
(***************************************************************************)
(* Three parts of Library, for every size.                                 *)
(*                                                                         *)
(* The pointers of lists and queues implement sequences: Lists implements  *)
(* AbstractList, for every number of nodes, every data and every limit.    *)
(* A structure is described by the sequence w of its nodes.  Two lemmas    *)
(* say what is linked when the pointers around one position are changed,   *)
(* for a node that is put in and for one that is taken out; the rest shows *)
(* which pointers each function of linked_list.c and queue.c changes.      *)
(*                                                                         *)
(* The frames that PhysicalMemory leaves free at boot are not the kernel's.*)
(*                                                                         *)
(* Elf loads the bytes of a file to the addresses they are linked for.     *)
(***************************************************************************)
EXTENDS Lists, PhysicalMemory, Elf, SequenceTheorems, FiniteSetTheorems, TLAPS

Q == INSTANCE QueuesProof

-----------------------------------------------------------------------------
(* Sequences with one element more or less.                                *)

Put(w, k, n) == [i \in 1..(Len(w) + 1) |-> IF i < k THEN w[i] ELSE IF i = k THEN n ELSE w[i - 1]]
Cut(w, k) == [i \in 1..(Len(w) - 1) |-> IF i < k THEN w[i] ELSE w[i + 1]]

LEMMA SeqIs ==
    ASSUME NEW S, NEW w \in Seq(S)
    PROVE  /\ Len(w) \in Nat /\ DOMAIN w = 1..Len(w)
           /\ w = [i \in 1..Len(w) |-> w[i]]
           /\ \A i \in 1..Len(w) : w[i] \in S
OBVIOUS

LEMMA PutSeq ==
    ASSUME NEW S, NEW w \in Seq(S), NEW k \in 1..(Len(w) + 1), NEW n \in S
    PROVE  /\ Put(w, k, n) \in Seq(S) /\ Len(Put(w, k, n)) = Len(w) + 1
           /\ \A i \in 1..(Len(w) + 1) :
                Put(w, k, n)[i] = IF i < k THEN w[i] ELSE IF i = k THEN n ELSE w[i - 1]
<1>1. Len(w) \in Nat /\ \A i \in 1..Len(w) : w[i] \in S
  BY SeqIs
<1>2. \A i \in 1..(Len(w) + 1) : (IF i < k THEN w[i] ELSE IF i = k THEN n ELSE w[i - 1]) \in S
  <2>1. SUFFICES ASSUME NEW i \in 1..(Len(w) + 1)
                 PROVE  (IF i < k THEN w[i] ELSE IF i = k THEN n ELSE w[i - 1]) \in S
    OBVIOUS
  <2>2. i < k => i \in 1..Len(w)
    BY <1>1
  <2>3. i > k => i - 1 \in 1..Len(w)
    BY <1>1
  <2> QED
    BY <1>1, <2>2, <2>3
<1> DEFINE m == Len(w) + 1
<1>3. m \in Nat
  BY <1>1
<1>4. Put(w, k, n) \in [1..m -> S]
  BY <1>2 DEF Put
<1> HIDE DEF m
<1>5. Put(w, k, n) \in Seq(S) /\ Len(Put(w, k, n)) = m
  BY <1>3, <1>4
<1> QED
  BY <1>5 DEF Put, m

LEMMA CutSeq ==
    ASSUME NEW S, NEW w \in Seq(S), NEW k \in 1..Len(w)
    PROVE  /\ Cut(w, k) \in Seq(S) /\ Len(Cut(w, k)) = Len(w) - 1
           /\ \A i \in 1..(Len(w) - 1) : Cut(w, k)[i] = IF i < k THEN w[i] ELSE w[i + 1]
<1>1. Len(w) \in Nat /\ \A i \in 1..Len(w) : w[i] \in S
  BY SeqIs
<1>2. \A i \in 1..(Len(w) - 1) : (IF i < k THEN w[i] ELSE w[i + 1]) \in S
  <2>1. \A i \in 1..(Len(w) - 1) : i \in 1..Len(w) /\ i + 1 \in 1..Len(w)
    BY <1>1
  <2> QED
    BY <1>1, <2>1
<1> DEFINE m == Len(w) - 1
<1>3. m \in Nat
  BY <1>1
<1>4. Cut(w, k) \in [1..m -> S]
  BY <1>2 DEF Cut
<1> HIDE DEF m
<1>5. Cut(w, k) \in Seq(S) /\ Len(Cut(w, k)) = m
  BY <1>3, <1>4
<1> QED
  BY <1>5 DEF Cut, m

LEMMA InsertAtIs ==
    ASSUME NEW S, NEW w \in Seq(S), NEW k \in 1..(Len(w) + 1), NEW n \in S
    PROVE  InsertAt(w, k, n) = Put(w, k, n)
<1> DEFINE m == Len(w)
           a == SubSeq(w, 1, k - 1)
           b == SubSeq(w, k, m)
           c == a \o <<n>>
           t == c \o b
<1>1. m \in Nat /\ k \in Nat /\ k >= 1 /\ k <= m + 1 /\ \A i \in 1..m : w[i] \in S
  BY SeqIs
<1>2. a \in Seq(S) /\ Len(a) = k - 1 /\ \A i \in 1..(k - 1) : a[i] = w[i]
  <2>1. 1 \in Int /\ k - 1 \in Int /\ \A i \in 1..(k - 1) : w[i] \in S
    BY <1>1
  <2> HIDE DEF m
  <2>2. /\ SubSeq(w, 1, k - 1) \in Seq(S)
        /\ Len(SubSeq(w, 1, k - 1)) = IF 1 <= k - 1 THEN (k - 1) - 1 + 1 ELSE 0
        /\ \A i \in 1..((k - 1) - 1 + 1) : SubSeq(w, 1, k - 1)[i] = w[1 + i - 1]
    BY <2>1, SubSeqProperties
  <2>3. (k - 1) - 1 + 1 = k - 1 /\ \A i \in 1..(k - 1) : 1 + i - 1 = i
    BY <1>1
  <2> QED
    BY <1>1, <2>2, <2>3
<1>3. b \in Seq(S) /\ Len(b) = m - k + 1 /\ \A i \in 1..(m - k + 1) : b[i] = w[k + i - 1]
  <2>1. k \in Int /\ m \in Int /\ \A i \in k..m : w[i] \in S
    BY <1>1
  <2> HIDE DEF m
  <2>2. /\ SubSeq(w, k, m) \in Seq(S)
        /\ Len(SubSeq(w, k, m)) = IF k <= m THEN m - k + 1 ELSE 0
        /\ \A i \in 1..(m - k + 1) : SubSeq(w, k, m)[i] = w[k + i - 1]
    BY <2>1, SubSeqProperties
  <2> QED
    BY <1>1, <2>2
<1> HIDE DEF a, b, m
<1>4. <<n>> \in Seq(S) /\ Len(<<n>>) = 1 /\ <<n>>[1] = n
  OBVIOUS
<1>5. c \in Seq(S) /\ Len(c) = k /\ (\A i \in 1..(k - 1) : c[i] = w[i]) /\ c[k] = n
  <2> DEFINE e == <<n>>
  <2> HIDE DEF e
  <2>1. /\ a \o e \in Seq(S) /\ Len(a \o e) = Len(a) + Len(e)
        /\ \A i \in 1..(Len(a) + Len(e)) : (a \o e)[i] = IF i <= Len(a) THEN a[i] ELSE e[i - Len(a)]
    BY <1>2, <1>4, ConcatProperties DEF e
  <2>2. c = a \o e /\ Len(e) = 1 /\ e[1] = n
    BY <1>4 DEF e
  <2> HIDE DEF c
  <2>3. Len(a) + Len(e) = k /\ (\A i \in 1..(k - 1) : i <= Len(a) /\ i \in 1..k) /\ ~(k <= Len(a)) /\ k - Len(a) = 1
    BY <1>1, <1>2, <2>2
  <2> QED
    BY <1>1, <1>2, <2>1, <2>2, <2>3
<1> HIDE DEF c
<1>6. /\ t \in Seq(S) /\ Len(t) = m + 1
      /\ \A i \in 1..(m + 1) : t[i] = IF i <= k THEN c[i] ELSE b[i - k]
  <2>1. /\ c \o b \in Seq(S) /\ Len(c \o b) = Len(c) + Len(b)
        /\ \A i \in 1..(Len(c) + Len(b)) : (c \o b)[i] = IF i <= Len(c) THEN c[i] ELSE b[i - Len(c)]
    BY <1>3, <1>5, ConcatProperties
  <2>2. Len(c) + Len(b) = m + 1 /\ Len(c) = k
    BY <1>1, <1>3, <1>5
  <2> QED
    BY <2>1, <2>2
<1> HIDE DEF t
<1>7. /\ Put(w, k, n) \in Seq(S) /\ Len(Put(w, k, n)) = m + 1
      /\ \A i \in 1..(m + 1) :
           Put(w, k, n)[i] = IF i < k THEN w[i] ELSE IF i = k THEN n ELSE w[i - 1]
  BY PutSeq DEF m
<1>8. ASSUME NEW i \in 1..(m + 1) PROVE t[i] = Put(w, k, n)[i]
  <2>1. CASE i < k
    BY <1>1, <1>5, <1>6, <1>7, <2>1
  <2>2. CASE i = k
    BY <1>1, <1>5, <1>6, <1>7, <2>2
  <2>3. CASE i > k
    <3>1. i - k \in 1..(m - k + 1) /\ k + (i - k) - 1 = i - 1
      BY <1>1, <2>3
    <3>2. b[i - k] = w[k + (i - k) - 1]
      BY <1>3, <3>1
    <3> QED
      BY <1>1, <1>6, <1>7, <2>3, <3>1, <3>2
  <2>4. i < k \/ i = k \/ i > k
    BY <1>1
  <2> QED
    BY <2>1, <2>2, <2>3, <2>4
<1>9. t = Put(w, k, n)
  BY <1>6, <1>7, <1>8, SeqEqual
<1> QED
  BY <1>9 DEF InsertAt, a, b, c, m, t

LEMMA AppendIs ==
    ASSUME NEW S, NEW w \in Seq(S), NEW n \in S
    PROVE  Append(w, n) = Put(w, Len(w) + 1, n)
<1>1. Len(w) \in Nat /\ Len(w) + 1 \in 1..(Len(w) + 1)
  BY SeqIs
<1> DEFINE k == Len(w) + 1
<1> HIDE DEF k
<1>a. k \in 1..(Len(w) + 1)
  BY <1>1 DEF k
<1>b. /\ Put(w, k, n) \in Seq(S) /\ Len(Put(w, k, n)) = Len(w) + 1
      /\ \A i \in 1..(Len(w) + 1) :
           Put(w, k, n)[i] = IF i < k THEN w[i] ELSE IF i = k THEN n ELSE w[i - 1]
  BY <1>a, PutSeq
<1>2. /\ Put(w, Len(w) + 1, n) \in Seq(S) /\ Len(Put(w, Len(w) + 1, n)) = Len(w) + 1
      /\ \A i \in 1..(Len(w) + 1) :
           Put(w, Len(w) + 1, n)[i] = IF i < Len(w) + 1 THEN w[i] ELSE IF i = Len(w) + 1 THEN n ELSE w[i - 1]
  BY <1>b DEF k
<1>3. /\ Append(w, n) \in Seq(S) /\ Len(Append(w, n)) = Len(w) + 1
      /\ \A i \in 1..Len(w) : Append(w, n)[i] = w[i]
      /\ Append(w, n)[Len(w) + 1] = n
  BY AppendProperties
<1>4. \A i \in 1..(Len(w) + 1) : Append(w, n)[i] = Put(w, Len(w) + 1, n)[i]
  BY <1>1, <1>2, <1>3
<1> QED
  BY <1>2, <1>3, <1>4, SeqEqual

LEMMA RemoveAtIs ==
    ASSUME NEW S, NEW w \in Seq(S), NEW k \in 1..Len(w)
    PROVE  RemoveAt(w, k) = Cut(w, k)
<1> DEFINE m == Len(w)
           a == SubSeq(w, 1, k - 1)
           b == SubSeq(w, k + 1, m)
           t == a \o b
<1>1. m \in Nat /\ k \in Nat /\ k >= 1 /\ k <= m /\ \A i \in 1..m : w[i] \in S
  BY SeqIs
<1>2. a \in Seq(S) /\ Len(a) = k - 1 /\ \A i \in 1..(k - 1) : a[i] = w[i]
  <2>1. 1 \in Int /\ k - 1 \in Int /\ \A i \in 1..(k - 1) : w[i] \in S
    BY <1>1
  <2> HIDE DEF m
  <2>2. /\ SubSeq(w, 1, k - 1) \in Seq(S)
        /\ Len(SubSeq(w, 1, k - 1)) = IF 1 <= k - 1 THEN (k - 1) - 1 + 1 ELSE 0
        /\ \A i \in 1..((k - 1) - 1 + 1) : SubSeq(w, 1, k - 1)[i] = w[1 + i - 1]
    BY <2>1, SubSeqProperties
  <2>3. (k - 1) - 1 + 1 = k - 1 /\ \A i \in 1..(k - 1) : 1 + i - 1 = i
    BY <1>1
  <2> QED
    BY <1>1, <2>2, <2>3
<1>3. b \in Seq(S) /\ Len(b) = m - k /\ \A i \in 1..(m - k) : b[i] = w[k + i]
  <2>1. k + 1 \in Int /\ m \in Int /\ \A i \in (k + 1)..m : w[i] \in S
    BY <1>1
  <2> HIDE DEF m
  <2>2. /\ SubSeq(w, k + 1, m) \in Seq(S)
        /\ Len(SubSeq(w, k + 1, m)) = IF k + 1 <= m THEN m - (k + 1) + 1 ELSE 0
        /\ \A i \in 1..(m - (k + 1) + 1) : SubSeq(w, k + 1, m)[i] = w[(k + 1) + i - 1]
    BY <2>1, SubSeqProperties
  <2>3. m - (k + 1) + 1 = m - k /\ \A i \in 1..(m - k) : (k + 1) + i - 1 = k + i
    BY <1>1
  <2> QED
    BY <1>1, <2>2, <2>3
<1> HIDE DEF a, b, m
<1>4. /\ t \in Seq(S) /\ Len(t) = m - 1
      /\ \A i \in 1..(m - 1) : t[i] = IF i <= k - 1 THEN a[i] ELSE b[i - (k - 1)]
  BY <1>1, <1>2, <1>3, ConcatProperties
<1> HIDE DEF t
<1>5. /\ Cut(w, k) \in Seq(S) /\ Len(Cut(w, k)) = m - 1
      /\ \A i \in 1..(m - 1) : Cut(w, k)[i] = IF i < k THEN w[i] ELSE w[i + 1]
  BY CutSeq DEF m
<1>6. ASSUME NEW i \in 1..(m - 1) PROVE t[i] = Cut(w, k)[i]
  <2>1. CASE i < k
    BY <1>1, <1>2, <1>4, <1>5, <2>1
  <2>2. CASE i >= k
    <3>1. i - (k - 1) \in 1..(m - k) /\ k + (i - (k - 1)) = i + 1
      BY <1>1, <2>2
    <3>2. b[i - (k - 1)] = w[k + (i - (k - 1))]
      BY <1>3, <3>1
    <3> QED
      BY <1>1, <1>4, <1>5, <2>2, <3>1, <3>2
  <2>3. i < k \/ i >= k
    BY <1>1
  <2> QED
    BY <2>1, <2>2, <2>3
<1>7. t = Cut(w, k)
  BY <1>4, <1>5, <1>6, SeqEqual
<1> QED
  BY <1>7 DEF RemoveAt, a, b, m, t

-----------------------------------------------------------------------------
(* Following pointers.                                                     *)

Ptr == Nodes \cup {Null}

\* Different nodes, in order.
Distinct(w) == w \in Seq(Nodes) /\ \A i, j \in 1..Len(w) : w[i] = w[j] => i = j

LEMMA DistinctLen ==
    ASSUME NEW w, Distinct(w)
    PROVE  /\ Len(w) \in Nat /\ Cardinality(Nodes) \in Nat
           /\ Len(w) <= Cardinality(Nodes)
<1>1. /\ Len(w) \in Nat /\ DOMAIN w = 1..Len(w) /\ w \in [1..Len(w) -> Nodes]
  BY DEF Distinct
<1>2. IsInjective(w)
  BY <1>1 DEF Distinct, IsInjective
<1>3. w \in Injection(1..Len(w), Nodes)
  BY <1>1, <1>2, Zenon DEF Injection
<1>4. IsFiniteSet(Nodes)
  BY ListsAssumption DEF ListsAssumption
<1>5. Cardinality(1..Len(w)) <= Cardinality(Nodes)
  BY <1>3, <1>4, FS_Injection
<1>6. Cardinality(1..Len(w)) = Len(w)
  BY <1>1, FS_Interval, SMTT(30)
<1>7. Cardinality(Nodes) \in Nat
  BY <1>4, FS_CardinalityType
<1> QED
  BY <1>1, <1>5, <1>6, <1>7

ChainStep(n, step, F, k) ==
    IF k = 0 THEN <<n>>
    ELSE IF Last(F[k - 1]) = Null THEN F[k - 1] ELSE Append(F[k - 1], step[Last(F[k - 1])])

\* The first k nodes of w, and Null behind the last.
Upto(w, k) == [i \in 1..k |-> IF i <= Len(w) THEN w[i] ELSE Null]

\* Following the pointers brings the nodes they link.
LEMMA ChainIs ==
    ASSUME NEW w, Distinct(w), NEW n, NEW step,
           n = IF Len(w) = 0 THEN Null ELSE w[1],
           \A i \in 1..Len(w) : step[w[i]] = IF i < Len(w) THEN w[i + 1] ELSE Null
    PROVE  Chain(n, step) = w
<1> DEFINE N == Cardinality(Nodes)
           L == Len(w)
           Ks(k) == IF k < L THEN k + 1 ELSE L + 1
<1>1. L \in Nat /\ N \in Nat /\ L <= N /\ Null \notin Nodes /\ \A i \in 1..L : w[i] \in Nodes
  BY DistinctLen, ListsAssumption, SeqIs DEF Distinct, ListsAssumption
<1> HIDE DEF N, L
<1>2. ASSUME NEW k \in 1..(L + 1)
      PROVE  /\ Upto(w, k) \in Seq(Ptr) /\ Len(Upto(w, k)) = k
             /\ \A i \in 1..k : Upto(w, k)[i] = IF i <= L THEN w[i] ELSE Null
             /\ Last(Upto(w, k)) = IF k <= L THEN w[k] ELSE Null
  <2>1. \A i \in 1..k : (IF i <= L THEN w[i] ELSE Null) \in Ptr
    BY <1>1 DEF Ptr
  <2>2. Upto(w, k) \in [1..k -> Ptr] /\ k \in Nat
    BY <1>1, <2>1 DEF Upto, L
  <2>3. Upto(w, k) \in Seq(Ptr) /\ Len(Upto(w, k)) = k
    BY <2>2
  <2>4. \A i \in 1..k : Upto(w, k)[i] = IF i <= L THEN w[i] ELSE Null
    BY DEF Upto, L
  <2>5. Last(Upto(w, k)) = Upto(w, k)[k]
    BY <2>3 DEF Last
  <2> QED
    BY <2>2, <2>3, <2>4, <2>5
<1>3. ASSUME NEW F, NEW k \in 1..N, F[k - 1] = Upto(w, Ks(k - 1))
      PROVE  ChainStep(n, step, F, k) = Upto(w, Ks(k))
  <2>1. k # 0
    BY <1>1
  <2>2. CASE k - 1 < L
    <3>1. Ks(k - 1) = k /\ Ks(k) = k + 1 /\ k \in 1..L /\ k \in 1..(L + 1) /\ k + 1 \in 1..(L + 1)
      BY <1>1, <2>2
    <3> HIDE DEF Ks
    <3>2. F[k - 1] = Upto(w, k) /\ Last(F[k - 1]) = w[k] /\ w[k] # Null
      BY <1>1, <1>2, <1>3, <3>1
    <3>3. ChainStep(n, step, F, k) = Append(Upto(w, k), step[w[k]])
      BY <2>1, <3>2 DEF ChainStep
    <3>4. step[w[k]] = IF k < L THEN w[k + 1] ELSE Null
      BY <3>1 DEF L
    <3>5. step[w[k]] = IF k + 1 <= L THEN w[k + 1] ELSE Null
      BY <1>1, <3>1, <3>4
    <3>6. step[w[k]] \in Ptr
      BY <1>1, <3>1, <3>5 DEF Ptr
    <3> DEFINE u == Upto(w, k)
               x == step[w[k]]
               v == Upto(w, k + 1)
    <3>7. /\ u \in Seq(Ptr) /\ Len(u) = k /\ x \in Ptr
          /\ v \in Seq(Ptr) /\ Len(v) = k + 1
          /\ \A i \in 1..k : u[i] = v[i]
          /\ v[k + 1] = x
      <4>1. /\ u \in Seq(Ptr) /\ Len(u) = k
            /\ \A i \in 1..k : u[i] = IF i <= L THEN w[i] ELSE Null
        BY <1>2, <3>1
      <4>2. /\ v \in Seq(Ptr) /\ Len(v) = k + 1
            /\ \A i \in 1..(k + 1) : v[i] = IF i <= L THEN w[i] ELSE Null
        BY <1>2, <3>1
      <4>3. x = IF k + 1 <= L THEN w[k + 1] ELSE Null
        BY <3>5
      <4>4. x \in Ptr
        BY <3>6
      <4> HIDE DEF u, v, x
      <4>5. k + 1 \in 1..(k + 1) /\ \A i \in 1..k : i \in 1..(k + 1)
        BY <3>1
      <4>6. v[k + 1] = x
        BY <4>2, <4>3, <4>5
      <4>7. \A i \in 1..k : u[i] = v[i]
        BY <4>1, <4>2, <4>5
      <4> QED
        BY <4>1, <4>2, <4>4, <4>6, <4>7
    <3> HIDE DEF u, v, x
    <3>8. Append(u, x) \in Seq(Ptr) /\ Len(Append(u, x)) = k + 1
          /\ (\A i \in 1..k : Append(u, x)[i] = u[i]) /\ Append(u, x)[k + 1] = x
      BY <3>7, AppendProperties
    <3>9. \A i \in 1..(k + 1) : Append(u, x)[i] = v[i]
      BY <3>7, <3>8
    <3>10. Append(u, x) = v
      BY <3>7, <3>8, <3>9, SeqEqual
    <3> QED
      BY <3>1, <3>3, <3>10 DEF u, x, v
  <2>3. CASE k - 1 >= L
    <3>1. Ks(k - 1) = L + 1 /\ Ks(k) = L + 1 /\ L + 1 \in 1..(L + 1) /\ ~(L + 1 <= L)
      BY <1>1, <2>3
    <3> HIDE DEF Ks
    <3>2. F[k - 1] = Upto(w, L + 1) /\ Last(F[k - 1]) = Null
      BY <1>2, <1>3, <3>1
    <3> QED
      BY <2>1, <3>1, <3>2 DEF ChainStep
  <2> QED
    BY <1>1, <2>2, <2>3
<1>4. \A F : ChainStep(n, step, F, 0) = Upto(w, Ks(0))
  <2>1. Ks(0) = 1 /\ 1 \in 1..(L + 1)
    BY <1>1
  <2>2. /\ Upto(w, 1) \in Seq(Ptr) /\ Len(Upto(w, 1)) = 1
        /\ Upto(w, 1)[1] = IF 1 <= L THEN w[1] ELSE Null
    <3>1. /\ Upto(w, 1) \in Seq(Ptr) /\ Len(Upto(w, 1)) = 1
          /\ \A i \in 1..1 : Upto(w, 1)[i] = IF i <= L THEN w[i] ELSE Null
      BY <1>2, <2>1
    <3>2. 1 \in 1..1
      OBVIOUS
    <3> QED
      BY <3>1, <3>2
  <2>3. n = Upto(w, 1)[1]
    BY <1>1, <2>2 DEF L
  <2>4. Upto(w, 1) = <<n>>
    BY <2>2, <2>3
  <2> QED
    BY <2>1, <2>4 DEF ChainStep
<1> DEFINE E == [k \in 0..N |-> Upto(w, Ks(k))]
<1>5. E = [k \in 0..N |-> ChainStep(n, step, E, k)]
  <2>1. ASSUME NEW k \in 0..N PROVE ChainStep(n, step, E, k) = Upto(w, Ks(k))
    <3>1. CASE k = 0
      BY <1>4, <3>1
    <3>2. CASE k # 0
      <4>1. k \in 1..N /\ k - 1 \in 0..N
        BY <1>1, <3>2
      <4>2. E[k - 1] = Upto(w, Ks(k - 1))
        BY <4>1
      <4> HIDE DEF E, Ks
      <4> QED
        BY <1>3, <4>1, <4>2
    <3> QED
      BY <3>1, <3>2
  <2> HIDE DEF Ks
  <2> QED
    BY <2>1, Zenon
<1> DEFINE F == CHOOSE F : F = [k \in 0..N |-> ChainStep(n, step, F, k)]
<1>6. F = [k \in 0..N |-> ChainStep(n, step, F, k)]
  <2> HIDE DEF E
  <2> QED
    BY <1>5, Zenon
<1>7. Chain(n, step) = Front(F[N])
  BY DEF Chain, ChainStep, N
<1> HIDE DEF F, E
<1> DEFINE G == {k \in 0..N : F[k] = Upto(w, Ks(k))}
<1>8. 0 \in G
  <2>1. 0 \in 0..N /\ F[0] = ChainStep(n, step, F, 0)
    BY <1>1, <1>6
  <2> HIDE DEF Ks
  <2> QED
    BY <1>4, <2>1
<1>9. ASSUME NEW k \in 0..(N - 1), k \in G PROVE k + 1 \in G
  <2>1. k + 1 \in 1..N /\ k + 1 \in 0..N /\ (k + 1) - 1 = k
    BY <1>1
  <2>2. F[k + 1] = ChainStep(n, step, F, k + 1)
    BY <1>6, <2>1
  <2> HIDE DEF Ks
  <2>3. F[(k + 1) - 1] = Upto(w, Ks((k + 1) - 1))
    BY <1>9, <2>1
  <2>4. ChainStep(n, step, F, k + 1) = Upto(w, Ks(k + 1))
    BY <1>3, <2>1, <2>3
  <2> QED
    BY <2>1, <2>2, <2>4
<1>10. N \in G
  <2> HIDE DEF G
  <2>1. \A k \in 0..N : k \in G
    BY <1>1, <1>8, <1>9, Q!SetInduction
  <2> QED
    BY <1>1, <2>1
<1>11. F[N] = Upto(w, L + 1)
  BY <1>1, <1>10
<1>12. Front(Upto(w, L + 1)) = w
  <2> DEFINE u == Upto(w, L + 1)
  <2>1. L + 1 \in 1..(L + 1)
    BY <1>1
  <2>2. /\ u \in Seq(Ptr) /\ Len(u) = L + 1 /\ \A i \in 1..L : u[i] = w[i]
    BY <1>1, <1>2, <2>1
  <2> HIDE DEF u
  <2>3. 1 \in Int /\ L \in Int /\ \A i \in 1..L : u[i] \in Ptr
    BY <1>1, <2>2
  <2>4. /\ SubSeq(u, 1, L) \in Seq(Ptr)
        /\ Len(SubSeq(u, 1, L)) = IF 1 <= L THEN L - 1 + 1 ELSE 0
        /\ \A i \in 1..(L - 1 + 1) : SubSeq(u, 1, L)[i] = u[1 + i - 1]
    BY <2>2, <2>3, SubSeqProperties
  <2>5. Len(SubSeq(u, 1, L)) = L /\ \A i \in 1..L : SubSeq(u, 1, L)[i] = w[i]
    BY <1>1, <2>2, <2>4
  <2>6. w \in Seq(Ptr) /\ Len(w) = L
    BY DEF Distinct, Ptr, L
  <2>7. SubSeq(u, 1, L) = w
    BY <2>4, <2>5, <2>6, SeqEqual
  <2>8. Front(u) = SubSeq(u, 1, L)
    BY <1>1, <2>2 DEF Front
  <2> QED
    BY <2>7, <2>8 DEF u
<1> QED
  BY <1>7, <1>11, <1>12

-----------------------------------------------------------------------------
(* Structures and the sequences of their nodes.                            *)

NodeRec == [previous : Ptr, next : Ptr, data : Data]
ListRec == [head : Ptr, tail : Ptr, length : Int, limit : Int]

Shape(s) ==
    /\ DOMAIN s = {"l", "n"}
    /\ s.l \in ListRec
    /\ DOMAIN s.n \subseteq Nodes
    /\ s.n \in [DOMAIN s.n -> NodeRec]

\* The end points and the pointers of s link the nodes of w; other nodes may be allocated.
Ends(s, w) ==
    /\ s.l.length = Len(w)
    /\ s.l.head = IF Len(w) = 0 THEN Null ELSE w[1]
    /\ s.l.tail = IF Len(w) = 0 THEN Null ELSE w[Len(w)]
Links(s, w) ==
    \A i \in 1..Len(w) :
        /\ s.n[w[i]].next = IF i < Len(w) THEN w[i + 1] ELSE Null
        /\ s.n[w[i]].previous = IF i > 1 THEN w[i - 1] ELSE Null
Linked(s, w) ==
    /\ Shape(s) /\ Distinct(w) /\ Ends(s, w) /\ Links(s, w)
    /\ \A i \in 1..Len(w) : w[i] \in DOMAIN s.n

\* No other node is allocated.
Whole(s, w) ==
    Linked(s, w) /\ \A m \in DOMAIN s.n : \E i \in 1..Len(w) : m = w[i]

\* The data of the nodes w.
Values(s, w) == [i \in 1..Len(w) |-> s.n[w[i]].data]

LEMMA LinkedFacts ==
    ASSUME NEW s, NEW w, Linked(s, w)
    PROVE  /\ w \in Seq(Nodes) /\ Len(w) \in Nat /\ DOMAIN w = 1..Len(w)
           /\ \A i \in 1..Len(w) : w[i] \in Nodes /\ w[i] # Null /\ w[i] \in DOMAIN s.n
           /\ \A i, j \in 1..Len(w) : w[i] = w[j] => i = j
           /\ Null \notin Nodes /\ DOMAIN s.n \subseteq Nodes
           /\ \A m \in DOMAIN s.n : s.n[m] \in NodeRec
           /\ s.l \in ListRec
<1>1. w \in Seq(Nodes) /\ \A i, j \in 1..Len(w) : w[i] = w[j] => i = j
  BY DEF Linked, Distinct
<1>2. Len(w) \in Nat /\ DOMAIN w = 1..Len(w) /\ \A i \in 1..Len(w) : w[i] \in Nodes
  BY <1>1, SeqIs
<1>3. Null \notin Nodes
  BY ListsAssumption DEF ListsAssumption
<1>4. /\ DOMAIN s.n \subseteq Nodes /\ s.l \in ListRec /\ s.n \in [DOMAIN s.n -> NodeRec]
      /\ \A i \in 1..Len(w) : w[i] \in DOMAIN s.n
  BY DEF Linked, Shape
<1>5. \A m \in DOMAIN s.n : s.n[m] \in NodeRec
  BY <1>4
<1> QED
  BY <1>1, <1>2, <1>3, <1>4, <1>5

\* linked_list_each visits the nodes in order, linked_list_each_rev backwards.
LEMMA WalkIs ==
    ASSUME NEW s, NEW w, Linked(s, w)
    PROVE  Walk(s, s.l.head) = w
<1> DEFINE step == [m \in DOMAIN s.n |-> s.n[m].next]
<1>1. \A i \in 1..Len(w) : step[w[i]] = IF i < Len(w) THEN w[i + 1] ELSE Null
  <2>1. \A i \in 1..Len(w) : step[w[i]] = s.n[w[i]].next
    BY LinkedFacts
  <2> QED
    BY <2>1 DEF Linked, Links
<1>2. Distinct(w) /\ s.l.head = IF Len(w) = 0 THEN Null ELSE w[1]
  BY DEF Linked, Ends
<1> HIDE DEF step
<1>3. Chain(s.l.head, step) = w
  BY <1>1, <1>2, ChainIs
<1> QED
  BY <1>3 DEF Walk, step

LEMMA WalkBackIs ==
    ASSUME NEW s, NEW w, Linked(s, w)
    PROVE  WalkBack(s, s.l.tail) = Reverse(w)
<1> DEFINE step == [m \in DOMAIN s.n |-> s.n[m].previous]
           L == Len(w)
           v == Reverse(w)
<1>1. /\ L \in Nat /\ w \in Seq(Nodes) /\ (\A i \in 1..L : w[i] \in Nodes /\ w[i] \in DOMAIN s.n)
      /\ (\A i, j \in 1..L : w[i] = w[j] => i = j)
  BY LinkedFacts
<1> HIDE DEF L
<1>2. \A i \in 1..L : (L - i) + 1 \in 1..L
  BY <1>1
<1>3. v = [i \in 1..L |-> w[(L - i) + 1]]
  BY DEF Reverse, L
<1> HIDE DEF v
<1>4. v \in [1..L -> Nodes] /\ \A i \in 1..L : v[i] = w[(L - i) + 1]
  BY <1>1, <1>2, <1>3
<1>5. v \in Seq(Nodes) /\ Len(v) = L
  <2>1. v \in [1..L -> Nodes] /\ L \in Nat
    BY <1>1, <1>4
  <2> QED
    BY <2>1
<1>6. Distinct(v)
  <2>1. ASSUME NEW i \in 1..L, NEW j \in 1..L, v[i] = v[j] PROVE i = j
    <3>1. (L - i) + 1 = (L - j) + 1
      BY <1>1, <1>2, <1>4, <2>1
    <3> QED
      BY <1>1, <3>1
  <2> QED
    BY <1>5, <2>1 DEF Distinct
<1>7. ASSUME NEW i \in 1..Len(v) PROVE step[v[i]] = IF i < Len(v) THEN v[i + 1] ELSE Null
  <2> DEFINE j == (L - i) + 1
  <2>1. i \in 1..L /\ j \in 1..L /\ v[i] = w[j] /\ w[j] \in DOMAIN s.n
    BY <1>1, <1>2, <1>4, <1>5
  <2>2. s.n[w[j]].previous = IF j > 1 THEN w[j - 1] ELSE Null
    BY <2>1 DEF Linked, Links, L
  <2>3. step[v[i]] = s.n[w[j]].previous
    BY <2>1
  <2>4. CASE i < L
    <3>1. j > 1 /\ i + 1 \in 1..L /\ (L - (i + 1)) + 1 = j - 1
      BY <1>1, <2>1, <2>4
    <3>2. v[i + 1] = w[j - 1]
      BY <1>4, <3>1
    <3> QED
      BY <1>5, <2>2, <2>3, <2>4, <3>1, <3>2
  <2>5. CASE ~(i < L)
    <3>1. ~(j > 1)
      BY <1>1, <2>1, <2>5
    <3> QED
      BY <1>5, <2>2, <2>3, <2>5, <3>1
  <2> QED
    BY <2>4, <2>5
<1>8. s.l.tail = IF Len(v) = 0 THEN Null ELSE v[1]
  <2>1. s.l.tail = IF L = 0 THEN Null ELSE w[L]
    BY DEF Linked, Ends, L
  <2>2. L # 0 => v[1] = w[L]
    <3>1. L # 0 => 1 \in 1..L /\ (L - 1) + 1 = L
      BY <1>1
    <3> QED
      BY <1>4, <3>1
  <2> QED
    BY <1>5, <2>1, <2>2
<1> HIDE DEF step
<1>9. Chain(s.l.tail, step) = v
  BY <1>6, <1>7, <1>8, ChainIs
<1> QED
  BY <1>9 DEF WalkBack, step, v

\* What the pointers become when node n is put into position k of w.
PutAt(s, r, w, k, n) ==
    /\ Shape(r) /\ DOMAIN r.n = DOMAIN s.n
    /\ r.l.limit = s.l.limit
    /\ r.l.length = s.l.length + 1
    /\ r.l.head = IF k = 1 THEN n ELSE s.l.head
    /\ r.l.tail = IF k = Len(w) + 1 THEN n ELSE s.l.tail
    /\ r.n[n].next = (IF k <= Len(w) THEN w[k] ELSE Null)
    /\ r.n[n].previous = (IF k > 1 THEN w[k - 1] ELSE Null)
    /\ \A m \in DOMAIN s.n \ {n} :
         /\ r.n[m].next = IF k > 1 /\ m = w[k - 1] THEN n ELSE s.n[m].next
         /\ r.n[m].previous = IF k <= Len(w) /\ m = w[k] THEN n ELSE s.n[m].previous
    /\ \A m \in DOMAIN s.n : r.n[m].data = s.n[m].data

LEMMA PutLinks ==
    ASSUME NEW s, NEW r, NEW w, NEW k \in 1..(Len(w) + 1), NEW n \in DOMAIN s.n,
           Linked(s, w), \A i \in 1..Len(w) : w[i] # n, PutAt(s, r, w, k, n)
    PROVE  Linked(r, Put(w, k, n))
<1> DEFINE L == Len(w)
           v == Put(w, k, n)
<1>1. /\ L \in Nat /\ w \in Seq(Nodes) /\ Null \notin Nodes /\ n \in Nodes
      /\ (\A i \in 1..L : w[i] \in Nodes /\ w[i] \in DOMAIN s.n /\ w[i] # n)
      /\ (\A i, j \in 1..L : w[i] = w[j] => i = j)
      /\ k \in Nat /\ k >= 1 /\ k <= L + 1
  BY LinkedFacts
<1>2. /\ v \in Seq(Nodes) /\ Len(v) = L + 1
      /\ \A i \in 1..(L + 1) : v[i] = IF i < k THEN w[i] ELSE IF i = k THEN n ELSE w[i - 1]
  BY <1>1, PutSeq
<1>3. /\ s.l.length = L
      /\ s.l.head = IF L = 0 THEN Null ELSE w[1]
      /\ s.l.tail = IF L = 0 THEN Null ELSE w[L]
  BY DEF Linked, Ends
<1>4. \A i \in 1..L : /\ s.n[w[i]].next = IF i < L THEN w[i + 1] ELSE Null
                      /\ s.n[w[i]].previous = IF i > 1 THEN w[i - 1] ELSE Null
  BY DEF Linked, Links
<1>5. PutAt(s, r, w, k, n) /\ k \in 1..(L + 1)
  OBVIOUS
<1> HIDE DEF v
<1>6. /\ Shape(r) /\ DOMAIN r.n = DOMAIN s.n
      /\ r.l.length = L + 1
      /\ r.l.head = IF k = 1 THEN n ELSE s.l.head
      /\ r.l.tail = IF k = L + 1 THEN n ELSE s.l.tail
      /\ r.n[n].next = (IF k <= L THEN w[k] ELSE Null)
      /\ r.n[n].previous = (IF k > 1 THEN w[k - 1] ELSE Null)
      /\ \A m \in DOMAIN s.n \ {n} :
           /\ r.n[m].next = IF k > 1 /\ m = w[k - 1] THEN n ELSE s.n[m].next
           /\ r.n[m].previous = IF k <= L /\ m = w[k] THEN n ELSE s.n[m].previous
  BY <1>3 DEF PutAt
<1> HIDE DEF L
\* The nodes of w keep their order; only the neighbours of n get new pointers.
<1>7. /\ (\A i \in 1..L : r.n[w[i]].next = IF i = k - 1 THEN n ELSE IF i < L THEN w[i + 1] ELSE Null)
      /\ (\A i \in 1..L : r.n[w[i]].previous = IF i = k THEN n ELSE IF i > 1 THEN w[i - 1] ELSE Null)
  <2>1. ASSUME NEW i \in 1..L
        PROVE  /\ r.n[w[i]].next = IF i = k - 1 THEN n ELSE IF i < L THEN w[i + 1] ELSE Null
               /\ r.n[w[i]].previous = IF i = k THEN n ELSE IF i > 1 THEN w[i - 1] ELSE Null
    <3>1. w[i] \in DOMAIN s.n \ {n}
      BY <1>1
    <3>2. k > 1 /\ w[i] = w[k - 1] <=> i = k - 1
      <4>1. k > 1 => k - 1 \in 1..L
        BY <1>1
      <4>2. i = k - 1 => k > 1
        BY <1>1
      <4> QED
        BY <1>1, <4>1, <4>2
    <3>3. k <= L /\ w[i] = w[k] <=> i = k
      <4>1. k <= L => k \in 1..L
        BY <1>1
      <4>2. i = k => k <= L
        BY <1>1
      <4> QED
        BY <1>1, <4>1, <4>2
    <3> QED
      BY <1>4, <1>6, <3>1, <3>2, <3>3
  <2> QED
    BY <2>1
<1>8. Distinct(v)
  <2>1. ASSUME NEW i \in 1..(L + 1), NEW j \in 1..(L + 1), v[i] = v[j] PROVE i = j
    <3>1. \A h \in 1..(L + 1) : h < k => h \in 1..L
      BY <1>1
    <3>2. \A h \in 1..(L + 1) : h > k => h - 1 \in 1..L
      BY <1>1
    <3>3. \A h \in 1..(L + 1) : v[h] = n <=> h = k
      BY <1>1, <1>2, <3>1, <3>2
    <3>4. CASE i = k \/ j = k
      BY <2>1, <3>3, <3>4
    <3>5. CASE i < k /\ j < k
      BY <1>1, <1>2, <2>1, <3>1, <3>5
    <3>6. CASE i > k /\ j > k
      <4>1. w[i - 1] = w[j - 1] /\ i - 1 \in 1..L /\ j - 1 \in 1..L
        BY <1>1, <1>2, <2>1, <3>2, <3>6
      <4> QED
        BY <1>1, <4>1
    <3>7. CASE i < k /\ j > k
      <4>1. w[i] = w[j - 1] /\ i \in 1..L /\ j - 1 \in 1..L
        BY <1>1, <1>2, <2>1, <3>1, <3>2, <3>7
      <4> QED
        BY <1>1, <3>7, <4>1
    <3>8. CASE i > k /\ j < k
      <4>1. w[i - 1] = w[j] /\ i - 1 \in 1..L /\ j \in 1..L
        BY <1>1, <1>2, <2>1, <3>1, <3>2, <3>8
      <4> QED
        BY <1>1, <3>8, <4>1
    <3> QED
      BY <1>1, <3>4, <3>5, <3>6, <3>7, <3>8
  <2> QED
    BY <1>2, <2>1 DEF Distinct
<1>9. Ends(r, v)
  <2>1. r.l.head = v[1]
    BY <1>1, <1>2, <1>3, <1>6
  <2>2. r.l.tail = v[L + 1]
    BY <1>1, <1>2, <1>3, <1>6
  <2> QED
    BY <1>1, <1>2, <1>6, <2>1, <2>2 DEF Ends
<1>10. ASSUME NEW i \in 1..(L + 1)
       PROVE  /\ v[i] \in DOMAIN r.n
              /\ r.n[v[i]].next = IF i < L + 1 THEN v[i + 1] ELSE Null
              /\ r.n[v[i]].previous = IF i > 1 THEN v[i - 1] ELSE Null
  <2>1. CASE i < k
    <3>1. i \in 1..L /\ v[i] = w[i] /\ i + 1 \in 1..(L + 1) /\ (i > 1 => i - 1 \in 1..(L + 1))
      BY <1>1, <1>2, <2>1
    <3>2. i = k - 1 => v[i + 1] = n
      BY <1>1, <1>2, <3>1
    <3>3. i # k - 1 => v[i + 1] = w[i + 1] /\ i < L
      BY <1>1, <1>2, <2>1, <3>1
    <3>4. i > 1 => v[i - 1] = w[i - 1]
      BY <1>1, <1>2, <2>1, <3>1
    <3>5. i < L + 1 /\ i # k
      BY <1>1, <2>1, <3>1
    <3> QED
      BY <1>1, <1>6, <1>7, <3>1, <3>2, <3>3, <3>4, <3>5
  <2>2. CASE i = k
    <3>1. v[i] = n
      BY <1>2, <2>2
    <3>2. k <= L => v[i + 1] = w[k]
      BY <1>1, <1>2, <2>2
    <3>3. k > 1 => v[i - 1] = w[k - 1]
      BY <1>1, <1>2, <2>2
    <3>4. k <= L <=> i < L + 1
      BY <1>1, <2>2
    <3> QED
      BY <1>1, <1>6, <2>2, <3>1, <3>2, <3>3, <3>4
  <2>3. CASE i > k
    <3>1. i - 1 \in 1..L /\ v[i] = w[i - 1] /\ i > 1 /\ i - 1 # k - 1 /\ (i - 1) + 1 = i
      BY <1>1, <1>2, <2>3
    <3>2. i < L + 1 => v[i + 1] = w[i] /\ i - 1 < L
      BY <1>1, <1>2, <2>3
    <3>3. i - 1 = k => v[i - 1] = n
      BY <1>1, <1>2, <2>3
    <3>4. i - 1 # k => v[i - 1] = w[(i - 1) - 1] /\ i - 1 > 1
      BY <1>1, <1>2, <2>3, <3>1
    <3>5. ~(i < L + 1) => ~(i - 1 < L)
      BY <1>1, <3>1
    <3>6. r.n[v[i]].next = IF i - 1 < L THEN w[i] ELSE Null
      BY <1>7, <3>1
    <3>7. r.n[v[i]].previous = IF i - 1 = k THEN n ELSE IF i - 1 > 1 THEN w[(i - 1) - 1] ELSE Null
      BY <1>7, <3>1
    <3> QED
      BY <1>1, <1>6, <3>1, <3>2, <3>3, <3>4, <3>5, <3>6, <3>7
  <2> QED
    BY <1>1, <2>1, <2>2, <2>3
<1> QED
  BY <1>2, <1>6, <1>8, <1>9, <1>10 DEF Linked, Links, v

\* What the pointers become when the node in position k of w is taken out.
CutAt(s, r, w, k) ==
    /\ Shape(r) /\ DOMAIN r.n = DOMAIN s.n \ {w[k]}
    /\ r.l.limit = s.l.limit
    /\ r.l.length = s.l.length - 1
    /\ r.l.head = (IF k > 1 THEN s.l.head ELSE IF Len(w) > 1 THEN w[2] ELSE Null)
    /\ r.l.tail = (IF k < Len(w) THEN s.l.tail ELSE IF Len(w) > 1 THEN w[Len(w) - 1] ELSE Null)
    /\ \A m \in DOMAIN r.n :
         /\ r.n[m].next = IF k > 1 /\ m = w[k - 1] THEN s.n[w[k]].next ELSE s.n[m].next
         /\ r.n[m].previous = IF k < Len(w) /\ m = w[k + 1] THEN s.n[w[k]].previous ELSE s.n[m].previous
         /\ r.n[m].data = s.n[m].data

LEMMA CutLinks ==
    ASSUME NEW s, NEW r, NEW w, NEW k \in 1..Len(w), Linked(s, w), CutAt(s, r, w, k)
    PROVE  Linked(r, Cut(w, k))
<1> DEFINE L == Len(w)
           v == Cut(w, k)
<1>1. /\ L \in Nat /\ w \in Seq(Nodes) /\ Null \notin Nodes
      /\ (\A i \in 1..L : w[i] \in Nodes /\ w[i] \in DOMAIN s.n)
      /\ (\A i, j \in 1..L : w[i] = w[j] => i = j)
      /\ k \in Nat /\ k >= 1 /\ k <= L /\ k \in 1..L
  BY LinkedFacts
<1>2. /\ v \in Seq(Nodes) /\ Len(v) = L - 1
      /\ \A i \in 1..(L - 1) : v[i] = IF i < k THEN w[i] ELSE w[i + 1]
  BY <1>1, CutSeq
<1>3. /\ s.l.length = L
      /\ s.l.head = IF L = 0 THEN Null ELSE w[1]
      /\ s.l.tail = IF L = 0 THEN Null ELSE w[L]
  BY DEF Linked, Ends
<1>4. \A i \in 1..L : /\ s.n[w[i]].next = IF i < L THEN w[i + 1] ELSE Null
                      /\ s.n[w[i]].previous = IF i > 1 THEN w[i - 1] ELSE Null
  BY DEF Linked, Links
<1> HIDE DEF v
<1>5. /\ Shape(r) /\ DOMAIN r.n = DOMAIN s.n \ {w[k]}
      /\ r.l.length = L - 1
      /\ r.l.head = (IF k > 1 THEN s.l.head ELSE IF L > 1 THEN w[2] ELSE Null)
      /\ r.l.tail = (IF k < L THEN s.l.tail ELSE IF L > 1 THEN w[L - 1] ELSE Null)
      /\ \A m \in DOMAIN r.n :
           /\ r.n[m].next = IF k > 1 /\ m = w[k - 1] THEN s.n[w[k]].next ELSE s.n[m].next
           /\ r.n[m].previous = IF k < L /\ m = w[k + 1] THEN s.n[w[k]].previous ELSE s.n[m].previous
  BY <1>3 DEF CutAt
<1> HIDE DEF L
<1>6. ASSUME NEW i \in 1..L, i # k
      PROVE  /\ w[i] \in DOMAIN r.n
             /\ r.n[w[i]].next = IF i = k - 1 THEN (IF k < L THEN w[k + 1] ELSE Null)
                                 ELSE IF i < L THEN w[i + 1] ELSE Null
             /\ r.n[w[i]].previous = IF i = k + 1 THEN (IF k > 1 THEN w[k - 1] ELSE Null)
                                     ELSE IF i > 1 THEN w[i - 1] ELSE Null
  <2>1. w[i] \in DOMAIN r.n
    BY <1>1, <1>5, <1>6
  <2>2. k > 1 /\ w[i] = w[k - 1] <=> i = k - 1
    <3>1. k > 1 => k - 1 \in 1..L
      BY <1>1
    <3>2. i = k - 1 => k > 1
      BY <1>1
    <3> QED
      BY <1>1, <3>1, <3>2
  <2>3. k < L /\ w[i] = w[k + 1] <=> i = k + 1
    <3>1. k < L => k + 1 \in 1..L
      BY <1>1
    <3>2. i = k + 1 => k < L
      BY <1>1
    <3> QED
      BY <1>1, <3>1, <3>2
  <2>4. /\ s.n[w[k]].next = IF k < L THEN w[k + 1] ELSE Null
        /\ s.n[w[k]].previous = IF k > 1 THEN w[k - 1] ELSE Null
    BY <1>1, <1>4
  <2>5. /\ s.n[w[i]].next = IF i < L THEN w[i + 1] ELSE Null
        /\ s.n[w[i]].previous = IF i > 1 THEN w[i - 1] ELSE Null
    BY <1>4
  <2> QED
    BY <1>5, <2>1, <2>2, <2>3, <2>4, <2>5
<1>7. Distinct(v)
  <2>1. ASSUME NEW i \in 1..(L - 1), NEW j \in 1..(L - 1), v[i] = v[j] PROVE i = j
    <3>1. \A h \in 1..(L - 1) : h \in 1..L /\ h + 1 \in 1..L
      BY <1>1
    <3>2. CASE i < k /\ j < k
      BY <1>1, <1>2, <2>1, <3>1, <3>2
    <3>3. CASE ~(i < k) /\ ~(j < k)
      <4>1. w[i + 1] = w[j + 1] /\ i + 1 \in 1..L /\ j + 1 \in 1..L
        BY <1>2, <2>1, <3>1, <3>3
      <4>2. i + 1 = j + 1
        BY <1>1, <4>1
      <4> QED
        BY <4>2
    <3>4. CASE i < k /\ ~(j < k)
      <4>1. w[i] = w[j + 1] /\ i \in 1..L /\ j + 1 \in 1..L
        BY <1>2, <2>1, <3>1, <3>4
      <4>2. i = j + 1
        BY <1>1, <4>1
      <4> QED
        BY <1>1, <3>4, <4>2
    <3>5. CASE ~(i < k) /\ j < k
      <4>1. w[i + 1] = w[j] /\ i + 1 \in 1..L /\ j \in 1..L
        BY <1>2, <2>1, <3>1, <3>5
      <4>2. i + 1 = j
        BY <1>1, <4>1
      <4> QED
        BY <1>1, <3>5, <4>2
    <3> QED
      BY <3>2, <3>3, <3>4, <3>5
  <2> QED
    BY <1>2, <2>1 DEF Distinct
<1>8. Ends(r, v)
  <2>1. L - 1 # 0 => r.l.head = v[1]
    <3>1. ASSUME L - 1 # 0 PROVE 1 \in 1..(L - 1) /\ L > 1 /\ L # 0
      BY <1>1, <3>1
    <3>2. ASSUME L - 1 # 0, k > 1 PROVE r.l.head = v[1]
      BY <1>1, <1>2, <1>3, <1>5, <3>1, <3>2
    <3>3. ASSUME L - 1 # 0, k = 1 PROVE r.l.head = v[1]
      <4>1. v[1] = w[1 + 1] /\ 1 + 1 = 2
        BY <1>2, <3>1, <3>3
      <4> QED
        BY <1>5, <3>1, <3>3, <4>1
    <3> QED
      BY <1>1, <3>2, <3>3
  <2>2. L - 1 # 0 => r.l.tail = v[L - 1]
    <3>1. ASSUME L - 1 # 0 PROVE L - 1 \in 1..(L - 1) /\ L > 1 /\ L # 0 /\ (L - 1) + 1 = L
      BY <1>1, <3>1
    <3>2. ASSUME L - 1 # 0, k < L PROVE r.l.tail = v[L - 1]
      <4>1. ~(L - 1 < k)
        BY <1>1, <3>2
      <4>2. v[L - 1] = w[L]
        BY <1>2, <3>1, <3>2, <4>1
      <4> QED
        BY <1>3, <1>5, <3>1, <3>2, <4>2
    <3>3. ASSUME L - 1 # 0, k = L PROVE r.l.tail = v[L - 1]
      <4>1. L - 1 < k /\ ~(k < L)
        BY <1>1, <3>3
      <4>2. v[L - 1] = w[L - 1]
        BY <1>2, <3>1, <3>3, <4>1
      <4> QED
        BY <1>5, <3>1, <3>3, <4>1, <4>2
    <3> QED
      BY <1>1, <3>2, <3>3
  <2>3. L - 1 = 0 => r.l.head = Null /\ r.l.tail = Null
    BY <1>1, <1>5
  <2> QED
    BY <1>2, <1>5, <2>1, <2>2, <2>3 DEF Ends
<1>9. ASSUME NEW i \in 1..(L - 1)
      PROVE  /\ v[i] \in DOMAIN r.n
             /\ r.n[v[i]].next = IF i < L - 1 THEN v[i + 1] ELSE Null
             /\ r.n[v[i]].previous = IF i > 1 THEN v[i - 1] ELSE Null
  <2>1. CASE i < k
    <3>1. i \in 1..L /\ i # k /\ i # k + 1 /\ v[i] = w[i]
      BY <1>1, <1>2, <2>1
    <3>2. /\ w[i] \in DOMAIN r.n
          /\ r.n[w[i]].next = IF i = k - 1 THEN (IF k < L THEN w[k + 1] ELSE Null)
                              ELSE IF i < L THEN w[i + 1] ELSE Null
          /\ r.n[w[i]].previous = IF i > 1 THEN w[i - 1] ELSE Null
      BY <1>6, <3>1
    <3>3. i > 1 => v[i - 1] = w[i - 1]
      <4>1. i > 1 => i - 1 \in 1..(L - 1) /\ i - 1 < k
        BY <1>1, <2>1
      <4> QED
        BY <1>2, <4>1
    <3>4. i = k - 1 => (k < L <=> i < L - 1) /\ (i < L - 1 => v[i + 1] = w[k + 1])
      <4>1. i = k - 1 => (k < L <=> i < L - 1) /\ ~(i + 1 < k) /\ (i + 1) + 1 = k + 1
        BY <1>1
      <4>2. i < L - 1 => i + 1 \in 1..(L - 1)
        BY <1>1
      <4> QED
        BY <1>2, <4>1, <4>2
    <3>5. i # k - 1 => i < L /\ i < L - 1 /\ v[i + 1] = w[i + 1]
      <4>1. i # k - 1 => i < L /\ i < L - 1 /\ i + 1 < k /\ i + 1 \in 1..(L - 1)
        BY <1>1, <2>1
      <4> QED
        BY <1>2, <4>1
    <3> QED
      BY <3>1, <3>2, <3>3, <3>4, <3>5
  <2>2. CASE ~(i < k)
    <3>1. i + 1 \in 1..L /\ i + 1 # k /\ i + 1 # k - 1 /\ v[i] = w[i + 1]
      BY <1>1, <1>2, <2>2
    <3>2. /\ w[i + 1] \in DOMAIN r.n
          /\ r.n[w[i + 1]].next = IF i + 1 < L THEN w[(i + 1) + 1] ELSE Null
          /\ r.n[w[i + 1]].previous = IF i + 1 = k + 1 THEN (IF k > 1 THEN w[k - 1] ELSE Null)
                                      ELSE IF i + 1 > 1 THEN w[(i + 1) - 1] ELSE Null
      BY <1>6, <3>1
    <3>3. (i + 1 < L <=> i < L - 1) /\ (i < L - 1 => v[i + 1] = w[(i + 1) + 1])
      <4>1. (i + 1 < L <=> i < L - 1) /\ ~(i + 1 < k) /\ (i < L - 1 => i + 1 \in 1..(L - 1))
        BY <1>1, <2>2
      <4> QED
        BY <1>2, <4>1
    <3>4. i = k => (k > 1 => v[i - 1] = w[k - 1])
      <4>1. i = k /\ k > 1 => i - 1 \in 1..(L - 1) /\ i - 1 < k
        BY <1>1
      <4> QED
        BY <1>2, <4>1
    <3>5. i # k => i > 1 /\ v[i - 1] = w[i]
      <4>1. i # k => i > 1 /\ i - 1 \in 1..(L - 1) /\ ~(i - 1 < k) /\ (i - 1) + 1 = i
        BY <1>1, <2>2
      <4> QED
        BY <1>2, <4>1
    <3>6. (i + 1 = k + 1 <=> i = k) /\ i + 1 > 1 /\ (i + 1) - 1 = i
      BY <1>1
    <3> QED
      BY <3>1, <3>2, <3>3, <3>4, <3>5, <3>6
  <2> QED
    BY <2>1, <2>2
<1> QED
  BY <1>2, <1>5, <1>7, <1>8, <1>9 DEF Linked, Links, v

-----------------------------------------------------------------------------
(* Which pointers the functions change.                                    *)

\* A node that has just been created.
Fresh(s, n) == n \in DOMAIN s.n /\ s.n[n].next = Null /\ s.n[n].previous = Null

\* The node pointers after one next and one previous pointer are set.
Relink(f, a, x, b, y) == [f EXCEPT ![a].next = x, ![b].previous = y]

Relinks(g, f, D, a, x, b, y) ==
    /\ DOMAIN g = D /\ g \in [D -> NodeRec]
    /\ \A m \in D : /\ g[m].next = IF m = a THEN x ELSE f[m].next
                    /\ g[m].previous = IF m = b THEN y ELSE f[m].previous
                    /\ g[m].data = f[m].data

LEMMA Relinked ==
    ASSUME NEW D, NEW f \in [D -> NodeRec], NEW a \in D, NEW x \in Ptr, NEW b \in D, NEW y \in Ptr
    PROVE  Relinks(Relink(f, a, x, b, y), f, D, a, x, b, y)
<1> DEFINE e == [f EXCEPT ![a].next = x]
           g == Relink(f, a, x, b, y)
<1>1. /\ DOMAIN e = D /\ e \in [D -> NodeRec]
      /\ \A m \in D : /\ e[m].next = IF m = a THEN x ELSE f[m].next
                      /\ e[m].previous = f[m].previous
                      /\ e[m].data = f[m].data
  BY DEF NodeRec
<1>2. g = [e EXCEPT ![b].previous = y]
  BY DEF Relink
<1> HIDE DEF e, g
<1>3. /\ DOMAIN g = D /\ g \in [D -> NodeRec]
      /\ \A m \in D : /\ g[m].next = e[m].next
                      /\ g[m].previous = IF m = b THEN y ELSE e[m].previous
                      /\ g[m].data = e[m].data
  BY <1>1, <1>2 DEF NodeRec
<1>4. Relinks(g, f, D, a, x, b, y)
  BY <1>1, <1>3 DEF Relinks
<1> QED
  BY <1>4 DEF g

\* The end points after they and the length are set.
Resize(l, h, t, c) == [l EXCEPT !.head = h, !.tail = t, !.length = c]

LEMMA Resized ==
    ASSUME NEW l \in ListRec, NEW h \in Ptr, NEW t \in Ptr, NEW c, c \in Int,
           NEW r, r = Resize(l, h, t, c)
    PROVE  r \in ListRec /\ r.head = h /\ r.tail = t /\ r.length = c /\ r.limit = l.limit
BY DEF ListRec, Resize

\* The node n behind the tail.
Behind(s, r, n) ==
    /\ DOMAIN r = {"l", "n"}
    /\ r.l = Resize(s.l, s.l.head, n, s.l.length + 1)
    /\ r.n = Relink(s.n, s.l.tail, n, n, s.l.tail)

LEMMA BehindTail ==
    ASSUME NEW s, NEW n, Shape(s),
           NEW r, r = [s EXCEPT !.n[s.l.tail].next = n, !.n[n].previous = s.l.tail, !.l.tail = n,
                                !.l.length = @ + 1]
    PROVE  Behind(s, r, n)
<1>1. DOMAIN s = {"l", "n"} /\ s.l \in ListRec
  BY DEF Shape
<1>2. DOMAIN r = {"l", "n"}
  BY <1>1
<1>3. r.l = Resize(s.l, s.l.head, n, s.l.length + 1)
  BY <1>1 DEF Resize, ListRec
<1>4. r.n = Relink(s.n, s.l.tail, n, n, s.l.tail)
  BY <1>1 DEF Relink
<1> QED
  BY <1>2, <1>3, <1>4 DEF Behind

LEMMA BehindHead ==
    ASSUME NEW s, NEW n, Shape(s), s.l.head = s.l.tail,
           NEW r, r = [s EXCEPT !.l.tail = n, !.n[s.l.head].next = n, !.n[n].previous = s.l.head,
                                !.l.length = @ + 1]
    PROVE  Behind(s, r, n)
<1>1. DOMAIN s = {"l", "n"} /\ s.l \in ListRec
  BY DEF Shape
<1>2. DOMAIN r = {"l", "n"}
  BY <1>1
<1>3. r.l = Resize(s.l, s.l.head, n, s.l.length + 1)
  BY <1>1 DEF Resize, ListRec
<1>4. r.n = Relink(s.n, s.l.head, n, n, s.l.head)
  BY <1>1 DEF Relink
<1> QED
  BY <1>2, <1>3, <1>4 DEF Behind

LEMMA BehindIs ==
    ASSUME NEW s, NEW r, NEW w, NEW n, Linked(s, w), Len(w) >= 1, Fresh(s, n),
           \A i \in 1..Len(w) : w[i] # n, Behind(s, r, n)
    PROVE  PutAt(s, r, w, Len(w) + 1, n)
<1> DEFINE t == s.l.tail
           c == s.l.length + 1
<1>1. /\ Len(w) \in Nat /\ Len(w) \in 1..Len(w) /\ t = w[Len(w)]
      /\ t \in DOMAIN s.n /\ t # n /\ n \in DOMAIN s.n /\ n \in Nodes /\ t \in Nodes
      /\ n \in Ptr /\ t \in Ptr
  <2>1. Len(w) \in Nat /\ Len(w) \in 1..Len(w)
    BY LinkedFacts
  <2>2. t = w[Len(w)]
    BY <2>1 DEF Linked, Ends
  <2> QED
    BY <2>1, <2>2, LinkedFacts DEF Fresh, Ptr
<1>2. /\ DOMAIN s = {"l", "n"} /\ s.l \in ListRec /\ DOMAIN s.n \subseteq Nodes
      /\ s.n \in [DOMAIN s.n -> NodeRec]
  BY DEF Linked, Shape
<1>3. c \in Int /\ s.l.head \in Ptr
  BY <1>2 DEF ListRec
<1>4. c = s.l.length + 1 /\ r.l = Resize(s.l, s.l.head, n, c)
  BY DEF Behind
<1>5. DOMAIN r = {"l", "n"} /\ r.n = Relink(s.n, t, n, n, t)
  BY DEF Behind
<1> HIDE DEF t, c
<1>6. /\ r.l \in ListRec /\ r.l.limit = s.l.limit /\ r.l.length = c
      /\ r.l.head = s.l.head /\ r.l.tail = n
  BY <1>1, <1>2, <1>3, <1>4, Resized, SMTT(30)
<1>7. /\ DOMAIN r.n = DOMAIN s.n /\ r.n \in [DOMAIN s.n -> NodeRec]
      /\ \A m \in DOMAIN s.n : /\ r.n[m].next = IF m = t THEN n ELSE s.n[m].next
                               /\ r.n[m].previous = IF m = n THEN t ELSE s.n[m].previous
                               /\ r.n[m].data = s.n[m].data
  <2>1. Relinks(r.n, s.n, DOMAIN s.n, t, n, n, t)
    BY <1>1, <1>2, <1>5, Relinked
  <2> QED
    BY <2>1 DEF Relinks
<1>8. Shape(r)
  BY <1>2, <1>5, <1>6, <1>7 DEF Shape
<1> QED
  BY <1>1, <1>4, <1>6, <1>7, <1>8 DEF PutAt, Fresh

\* The node n at the front of a list that is not empty.
Before(s, n) ==
    [s EXCEPT !.n[n].next = s.l.head, !.n[s.l.head].previous = n, !.l.head = n, !.l.length = @ + 1]

LEMMA BeforeIs ==
    ASSUME NEW s, NEW w, NEW n, Linked(s, w), Len(w) >= 1, Fresh(s, n),
           \A i \in 1..Len(w) : w[i] # n
    PROVE  PutAt(s, Before(s, n), w, 1, n)
<1> DEFINE h == s.l.head
           r == Before(s, n)
           c == s.l.length + 1
<1>1. /\ Len(w) \in Nat /\ 1 \in 1..Len(w) /\ h = w[1] /\ 1 # Len(w) + 1 /\ 1 <= Len(w)
      /\ h \in DOMAIN s.n /\ h # n /\ n \in DOMAIN s.n /\ n \in Nodes /\ h \in Nodes
      /\ n \in Ptr /\ h \in Ptr
  <2>1. Len(w) \in Nat /\ 1 \in 1..Len(w) /\ 1 # Len(w) + 1 /\ 1 <= Len(w)
    BY LinkedFacts
  <2>2. h = w[1]
    BY <2>1 DEF Linked, Ends
  <2> QED
    BY <2>1, <2>2, LinkedFacts DEF Fresh, Ptr
<1>2. /\ DOMAIN s = {"l", "n"} /\ s.l \in ListRec /\ DOMAIN s.n \subseteq Nodes
      /\ s.n \in [DOMAIN s.n -> NodeRec]
  BY DEF Linked, Shape
<1>3. c \in Int /\ s.l.tail \in Ptr
  BY <1>2 DEF ListRec
<1> HIDE DEF h
<1>4. r.l = Resize(s.l, n, s.l.tail, c)
  BY <1>1, <1>2 DEF Before, h, ListRec, Resize
<1>5. r.n = Relink(s.n, n, h, h, n)
  BY <1>1, <1>2 DEF Before, h, Relink
<1>6. DOMAIN r = {"l", "n"}
  BY <1>2 DEF Before
<1>7. c = s.l.length + 1
  OBVIOUS
<1> HIDE DEF r, c
<1>8. /\ r.l \in ListRec /\ r.l.limit = s.l.limit /\ r.l.length = c
      /\ r.l.head = n /\ r.l.tail = s.l.tail
  BY <1>1, <1>2, <1>3, <1>4, Resized
<1>9. /\ DOMAIN r.n = DOMAIN s.n /\ r.n \in [DOMAIN s.n -> NodeRec]
      /\ \A m \in DOMAIN s.n : /\ r.n[m].next = IF m = n THEN h ELSE s.n[m].next
                               /\ r.n[m].previous = IF m = h THEN n ELSE s.n[m].previous
                               /\ r.n[m].data = s.n[m].data
  <2>1. Relinks(r.n, s.n, DOMAIN s.n, n, h, h, n)
    BY <1>1, <1>2, <1>5, Relinked
  <2> QED
    BY <2>1 DEF Relinks
<1>10. Shape(r)
  BY <1>2, <1>6, <1>8, <1>9 DEF Shape
<1> QED
  BY <1>1, <1>7, <1>8, <1>9, <1>10 DEF PutAt, Fresh, r

\* The node n between the node at and the one before it.
Between(s, n, at) ==
    [s EXCEPT !.n[s.n[at].previous].next = n, !.n[n].previous = s.n[at].previous,
              !.n[n].next = at, !.n[at].previous = n, !.l.length = @ + 1]

LEMMA BetweenIs ==
    ASSUME NEW s, NEW w, NEW n, Linked(s, w), Fresh(s, n), NEW k \in 2..Len(w),
           \A i \in 1..Len(w) : w[i] # n
    PROVE  PutAt(s, Between(s, n, w[k]), w, k, n)
<1> DEFINE at == w[k]
           p == s.n[at].previous
           r == Between(s, n, at)
           c == s.l.length + 1
           f == Relink(s.n, p, n, n, p)
<1>1. /\ Len(w) \in Nat /\ k \in Nat /\ k \in 1..Len(w) /\ k - 1 \in 1..Len(w) /\ k > 1 /\ k <= Len(w)
      /\ k # 1 /\ k # Len(w) + 1 /\ k - 1 # k
  BY LinkedFacts
<1>2. p = w[k - 1]
  BY <1>1 DEF Linked, Links
<1>3. /\ p \in DOMAIN s.n /\ p # n /\ n \in DOMAIN s.n /\ at \in DOMAIN s.n /\ at # n /\ at # p
      /\ n \in Ptr /\ p \in Ptr /\ at \in Ptr
  <2> HIDE DEF p
  <2> QED
    BY <1>1, <1>2, LinkedFacts DEF Fresh, Ptr
<1>4. /\ DOMAIN s = {"l", "n"} /\ s.l \in ListRec /\ DOMAIN s.n \subseteq Nodes
      /\ s.n \in [DOMAIN s.n -> NodeRec]
  BY DEF Linked, Shape
<1>5. c \in Int /\ s.l.tail \in Ptr /\ s.l.head \in Ptr
  BY <1>4 DEF ListRec
<1> HIDE DEF p, at
<1>6. r.l = Resize(s.l, s.l.head, s.l.tail, c)
  BY <1>3, <1>4 DEF Between, p, ListRec, Resize
<1>7. r.n = Relink(f, n, at, at, n)
  BY <1>3, <1>4 DEF Between, p, Relink
<1>8. DOMAIN r = {"l", "n"}
  BY <1>4 DEF Between
<1>9. c = s.l.length + 1 /\ f = Relink(s.n, p, n, n, p)
  OBVIOUS
<1> HIDE DEF r, c, f
<1>10. /\ r.l \in ListRec /\ r.l.limit = s.l.limit /\ r.l.length = c
       /\ r.l.head = s.l.head /\ r.l.tail = s.l.tail
  BY <1>3, <1>4, <1>5, <1>6, Resized
<1>11. /\ DOMAIN f = DOMAIN s.n /\ f \in [DOMAIN s.n -> NodeRec]
       /\ \A m \in DOMAIN s.n : /\ f[m].next = IF m = p THEN n ELSE s.n[m].next
                                /\ f[m].previous = IF m = n THEN p ELSE s.n[m].previous
                                /\ f[m].data = s.n[m].data
  <2>1. Relinks(f, s.n, DOMAIN s.n, p, n, n, p)
    BY <1>3, <1>4, <1>9, Relinked
  <2> QED
    BY <2>1 DEF Relinks
<1>12. /\ DOMAIN r.n = DOMAIN s.n /\ r.n \in [DOMAIN s.n -> NodeRec]
       /\ \A m \in DOMAIN s.n : /\ r.n[m].next = IF m = n THEN at ELSE f[m].next
                                /\ r.n[m].previous = IF m = at THEN n ELSE f[m].previous
                                /\ r.n[m].data = f[m].data
  <2>1. Relinks(r.n, f, DOMAIN s.n, n, at, at, n)
    BY <1>3, <1>7, <1>11, Relinked
  <2> QED
    BY <2>1 DEF Relinks
<1>13. Shape(r)
  BY <1>4, <1>8, <1>10, <1>12 DEF Shape
<1>14. /\ r.n[n].next = at /\ r.n[n].previous = p
       /\ \A m \in DOMAIN s.n \ {n} : /\ r.n[m].next = IF m = p THEN n ELSE s.n[m].next
                                      /\ r.n[m].previous = IF m = at THEN n ELSE s.n[m].previous
       /\ \A m \in DOMAIN s.n : r.n[m].data = s.n[m].data
  BY <1>3, <1>11, <1>12
<1>15. PutAt(s, r, w, k, n)
  BY <1>1, <1>2, <1>9, <1>10, <1>12, <1>13, <1>14 DEF PutAt, at
<1> QED
  BY <1>15 DEF r, at

\* The node n alone in the list.
Alone(s, r, n) ==
    DOMAIN r = {"l", "n"} /\ r.l = Resize(s.l, n, n, 1) /\ r.n = s.n

LEMMA AloneIs ==
    ASSUME NEW s, NEW r, NEW w, NEW n, Linked(s, w), Len(w) = 0, Fresh(s, n), Alone(s, r, n)
    PROVE  PutAt(s, r, w, 1, n)
<1>1. n \in DOMAIN s.n /\ n \in Ptr /\ s.l.length = 0
  BY LinkedFacts DEF Fresh, Ptr, Linked, Ends
<1>2. /\ DOMAIN s = {"l", "n"} /\ s.l \in ListRec /\ DOMAIN s.n \subseteq Nodes
      /\ s.n \in [DOMAIN s.n -> NodeRec]
  BY DEF Linked, Shape
<1>3. r.l = Resize(s.l, n, n, 1) /\ r.n = s.n /\ DOMAIN r = {"l", "n"}
  BY DEF Alone
<1>4. 1 \in Int
  OBVIOUS
<1>5. /\ r.l \in ListRec /\ r.l.limit = s.l.limit /\ r.l.length = 1
      /\ r.l.head = n /\ r.l.tail = n
  BY <1>1, <1>2, <1>3, <1>4, Resized
<1>6. Shape(r)
  BY <1>2, <1>3, <1>5 DEF Shape
<1> QED
  BY <1>1, <1>3, <1>5, <1>6 DEF PutAt, Fresh

\* create_node leaves the list alone and gives a node that is linked to none.
LEMMA CreateIs ==
    ASSUME NEW s, NEW w, NEW n \in Nodes, NEW d \in Data, Whole(s, w), n \notin DOMAIN s.n
    PROVE  LET t == create_node(s, n, d) IN
           /\ Linked(t, w) /\ Fresh(t, n) /\ t.l = s.l
           /\ DOMAIN t.n = DOMAIN s.n \cup {n} /\ t.n[n].data = d
           /\ \A m \in DOMAIN s.n : t.n[m] = s.n[m]
           /\ \A i \in 1..Len(w) : w[i] # n
<1> DEFINE t == create_node(s, n, d)
<1>1. Linked(s, w)
  BY DEF Whole
<1>2. /\ DOMAIN s = {"l", "n"} /\ s.l \in ListRec /\ DOMAIN s.n \subseteq Nodes
      /\ s.n \in [DOMAIN s.n -> NodeRec]
  BY <1>1 DEF Linked, Shape
<1>3. /\ t.l = s.l /\ DOMAIN t = {"l", "n"}
      /\ t.n = [m \in DOMAIN s.n \cup {n} |->
                  IF m = n THEN [previous |-> Null, next |-> Null, data |-> d] ELSE s.n[m]]
  BY <1>2 DEF create_node
<1> HIDE DEF t
<1>4. /\ DOMAIN t.n = DOMAIN s.n \cup {n}
      /\ t.n[n] = [previous |-> Null, next |-> Null, data |-> d]
      /\ \A m \in DOMAIN s.n : t.n[m] = s.n[m]
  BY <1>3
<1>5. /\ t.n[n].previous = Null /\ t.n[n].next = Null /\ t.n[n].data = d /\ t.n[n] \in NodeRec
  BY <1>4 DEF NodeRec, Ptr
<1>6. t.n \in [DOMAIN t.n -> NodeRec]
  BY <1>2, <1>3, <1>4, <1>5
<1>7. Shape(t)
  BY <1>2, <1>3, <1>4, <1>6 DEF Shape
<1>8. \A i \in 1..Len(w) : w[i] \in DOMAIN s.n
  BY <1>1 DEF Linked
<1>9. Linked(t, w)
  BY <1>1, <1>3, <1>4, <1>7, <1>8 DEF Linked, Ends, Links
<1>10. Fresh(t, n)
  BY <1>4, <1>5 DEF Fresh
<1> QED
  BY <1>3, <1>4, <1>5, <1>8, <1>9, <1>10 DEF t

\* The whole chain and its data after node n with data d is put into position k.
Grown(s, r, w, k, n, d) ==
    /\ Whole(r, Put(w, k, n)) /\ r.l.limit = s.l.limit
    /\ Values(r, Put(w, k, n)) = Put(Values(s, w), k, d)

LEMMA GrownIs ==
    ASSUME NEW s, NEW r, NEW w, NEW n \in Nodes, NEW d \in Data, Whole(s, w), n \notin DOMAIN s.n,
           NEW k \in 1..(Len(w) + 1), PutAt(create_node(s, n, d), r, w, k, n)
    PROVE  Grown(s, r, w, k, n, d)
<1> DEFINE t == create_node(s, n, d)
           v == Put(w, k, n)
           L == Len(w)
<1>1. /\ Linked(t, w) /\ Fresh(t, n) /\ t.l = s.l
      /\ DOMAIN t.n = DOMAIN s.n \cup {n} /\ t.n[n].data = d
      /\ \A m \in DOMAIN s.n : t.n[m] = s.n[m]
      /\ \A i \in 1..L : w[i] # n
  BY CreateIs
<1>2. PutAt(t, r, w, k, n)
  OBVIOUS
<1> HIDE DEF t, L
<1>3. n \in DOMAIN t.n
  BY <1>1
<1>4. Linked(r, v)
  BY <1>1, <1>2, <1>3, PutLinks DEF L
<1>5. DOMAIN r.n = DOMAIN t.n /\ r.l.limit = s.l.limit /\ \A m \in DOMAIN t.n : r.n[m].data = t.n[m].data
  BY <1>1, <1>2 DEF PutAt
<1>6. /\ L \in Nat /\ w \in Seq(Nodes) /\ Linked(s, w)
      /\ \A i \in 1..L : w[i] \in DOMAIN s.n
      /\ \A m \in DOMAIN s.n : \E i \in 1..L : m = w[i]
  BY LinkedFacts DEF Whole, L
<1>7. /\ v \in Seq(Nodes) /\ Len(v) = L + 1 /\ k \in Nat /\ k >= 1 /\ k <= L + 1
      /\ \A i \in 1..(L + 1) : v[i] = IF i < k THEN w[i] ELSE IF i = k THEN n ELSE w[i - 1]
  BY <1>6, PutSeq DEF L
<1> HIDE DEF v
<1>8. ASSUME NEW m \in DOMAIN r.n PROVE \E i \in 1..Len(v) : m = v[i]
  <2>1. CASE m = n
    <3>1. k \in 1..Len(v) /\ v[k] = n
      BY <1>6, <1>7
    <3> QED
      BY <2>1, <3>1
  <2>2. CASE m # n
    <3>1. m \in DOMAIN s.n
      BY <1>1, <1>5, <2>2
    <3>2. PICK i \in 1..L : m = w[i]
      BY <1>6, <3>1
    <3>3. CASE i < k
      <4>1. i \in 1..Len(v) /\ v[i] = w[i]
        BY <1>6, <1>7, <3>3
      <4> QED
        BY <3>2, <4>1
    <3>4. CASE ~(i < k)
      <4>1. i + 1 \in 1..(L + 1) /\ ~(i + 1 < k) /\ i + 1 # k /\ (i + 1) - 1 = i
        BY <1>6, <1>7, <3>4
      <4>2. i + 1 \in 1..Len(v) /\ v[i + 1] = w[i]
        BY <1>7, <4>1
      <4> QED
        BY <3>2, <4>2
    <3> QED
      BY <3>3, <3>4
  <2> QED
    BY <2>1, <2>2
<1>9. Whole(r, v)
  BY <1>4, <1>8 DEF Whole
<1> DEFINE a == Values(r, v)
           b == Values(s, w)
           c == Put(b, k, d)
<1>10. b = [i \in 1..L |-> s.n[w[i]].data] /\ \A i \in 1..L : s.n[w[i]].data \in Data
  BY <1>6, LinkedFacts DEF Values, L, NodeRec
<1>11. b \in [1..L -> Data] /\ \A i \in 1..L : b[i] = s.n[w[i]].data
  <2> HIDE DEF b
  <2> QED
    BY <1>10
<1>12. b \in Seq(Data) /\ Len(b) = L
  <2> HIDE DEF b
  <2> QED
    BY <1>6, <1>11
<1>13. a = [i \in 1..(L + 1) |-> r.n[v[i]].data]
  BY <1>7 DEF Values
<1>14. c = [i \in 1..(L + 1) |-> IF i < k THEN b[i] ELSE IF i = k THEN d ELSE b[i - 1]]
  <2> HIDE DEF b
  <2> QED
    BY <1>12 DEF Put
<1>15. ASSUME NEW i \in 1..(L + 1)
       PROVE  r.n[v[i]].data = IF i < k THEN b[i] ELSE IF i = k THEN d ELSE b[i - 1]
  <2> HIDE DEF b
  <2>0. ASSUME NEW j \in 1..L PROVE r.n[w[j]].data = b[j]
    <3>1. w[j] \in DOMAIN s.n /\ w[j] \in DOMAIN t.n /\ t.n[w[j]] = s.n[w[j]]
      BY <1>1, <1>6
    <3>2. r.n[w[j]].data = s.n[w[j]].data
      BY <1>5, <3>1
    <3>3. b[j] = s.n[w[j]].data
      BY <1>11
    <3> QED
      BY <3>2, <3>3
  <2>1. CASE i < k
    <3>1. v[i] = w[i] /\ i \in 1..L
      BY <1>6, <1>7, <2>1
    <3> QED
      BY <2>0, <2>1, <3>1
  <2>2. CASE i = k
    <3>1. v[i] = n /\ ~(i < k)
      BY <1>7, <2>2
    <3> QED
      BY <1>1, <1>3, <1>5, <2>2, <3>1
  <2>3. CASE i > k
    <3>1. i - 1 \in 1..L /\ ~(i < k) /\ i # k
      BY <1>6, <2>3
    <3>2. v[i] = w[i - 1]
      BY <1>7, <3>1
    <3> QED
      BY <2>0, <3>1, <3>2
  <2> QED
    BY <1>7, <2>1, <2>2, <2>3
<1>16. a = c
  <2> HIDE DEF a, b, c
  <2> QED
    BY <1>13, <1>14, <1>15
<1> QED
  BY <1>5, <1>9, <1>16 DEF Grown, v

\* The whole chain and its data after the node in position k is taken out.
Shrunk(s, r, w, k) ==
    /\ Whole(r, Cut(w, k)) /\ r.l.limit = s.l.limit
    /\ Values(r, Cut(w, k)) = Cut(Values(s, w), k)
    /\ \A i \in 1..Len(w) : i # k => r.n[w[i]].data = s.n[w[i]].data

LEMMA ShrunkIs ==
    ASSUME NEW s, NEW r, NEW w, Whole(s, w), NEW k \in 1..Len(w), CutAt(s, r, w, k)
    PROVE  Shrunk(s, r, w, k)
<1> DEFINE v == Cut(w, k)
           L == Len(w)
<1>1. /\ L \in Nat /\ w \in Seq(Nodes) /\ Linked(s, w) /\ k \in Nat /\ k >= 1 /\ k <= L
      /\ \A i \in 1..L : w[i] \in DOMAIN s.n
      /\ \A i, j \in 1..L : w[i] = w[j] => i = j
      /\ \A m \in DOMAIN s.n : \E i \in 1..L : m = w[i]
  BY LinkedFacts DEF Whole
<1>2. Linked(r, v)
  BY <1>1, CutLinks
<1>3. DOMAIN r.n = DOMAIN s.n \ {w[k]} /\ r.l.limit = s.l.limit
      /\ \A m \in DOMAIN r.n : r.n[m].data = s.n[m].data
  BY DEF CutAt
<1>4. /\ v \in Seq(Nodes) /\ Len(v) = L - 1
      /\ \A i \in 1..(L - 1) : v[i] = IF i < k THEN w[i] ELSE w[i + 1]
  <2>1. w \in Seq(Nodes)
    BY <1>1
  <2>2. /\ Cut(w, k) \in Seq(Nodes) /\ Len(Cut(w, k)) = Len(w) - 1
        /\ \A i \in 1..(Len(w) - 1) : Cut(w, k)[i] = IF i < k THEN w[i] ELSE w[i + 1]
    BY ONLY <2>1, k \in 1..Len(w), CutSeq, Zenon
  <2> QED
    BY ONLY <2>2, Zenon
<1> HIDE DEF L, v
<1>a. k \in 1..L
  BY <1>1
<1>5. ASSUME NEW m \in DOMAIN r.n PROVE \E i \in 1..Len(v) : m = v[i]
  <2>1. m \in DOMAIN s.n /\ m # w[k]
    BY <1>3
  <2>2. PICK i \in 1..L : m = w[i]
    BY <1>1, <2>1
  <2>3. CASE i < k
    <3>1. i \in 1..(L - 1) /\ i \in 1..Len(v)
      BY <1>1, <1>4, <2>3
    <3>2. v[i] = w[i]
      BY <1>4, <2>3, <3>1
    <3> QED
      BY <2>2, <3>1, <3>2
  <2>4. CASE ~(i < k)
    <3>0. i # k
      BY <2>1, <2>2
    <3>1. i - 1 \in 1..(L - 1) /\ i - 1 \in 1..Len(v) /\ ~(i - 1 < k) /\ (i - 1) + 1 = i
      BY <1>1, <1>4, <2>4, <3>0
    <3>2. v[i - 1] = w[i]
      BY <1>4, <3>1
    <3> QED
      BY <2>2, <3>1, <3>2
  <2> QED
    BY <2>3, <2>4
<1>6. Whole(r, v)
  BY <1>2, <1>5 DEF Whole
<1>7. ASSUME NEW i \in 1..L, i # k PROVE r.n[w[i]].data = s.n[w[i]].data
  <2>1. w[i] # w[k]
    BY <1>1, <1>7, <1>a
  <2> QED
    BY <1>1, <1>3, <2>1
<1> DEFINE a == Values(r, v)
           b == Values(s, w)
           c == Cut(b, k)
<1>8. b = [i \in 1..L |-> s.n[w[i]].data]
  BY DEF Values, L
<1>9. Len(b) = L
  <2> HIDE DEF b
  <2> QED
    BY <1>1, <1>8
<1>10. a = [i \in 1..(L - 1) |-> r.n[v[i]].data]
  BY <1>4 DEF Values
<1>11. c = [i \in 1..(L - 1) |-> IF i < k THEN b[i] ELSE b[i + 1]]
  <2> HIDE DEF b
  <2> QED
    BY <1>9 DEF Cut
<1>12. ASSUME NEW i \in 1..(L - 1)
       PROVE  r.n[v[i]].data = IF i < k THEN b[i] ELSE b[i + 1]
  <2> HIDE DEF b
  <2>1. i \in 1..L /\ i + 1 \in 1..L /\ (i < k => i # k) /\ (~(i < k) => i + 1 # k)
    BY <1>1
  <2>2. b[i] = s.n[w[i]].data /\ b[i + 1] = s.n[w[i + 1]].data
    BY <1>8, <2>1
  <2> QED
    BY <1>4, <1>7, <2>1, <2>2
<1>13. a = c
  <2> HIDE DEF a, b, c
  <2> QED
    BY <1>10, <1>11, <1>12
<1> QED
  BY <1>3, <1>6, <1>7, <1>13 DEF Shrunk, v, L

\* kern_free of a node that has been unlinked, and the length one less.
Unlinked(u, n) == [Freed(u, n) EXCEPT !.l.length = @ - 1]

Unlinks(r, s, n, h, t, a, x, b, y) ==
    /\ Shape(r) /\ DOMAIN r.n = DOMAIN s.n \ {n}
    /\ r.l.limit = s.l.limit /\ r.l.length = s.l.length - 1 /\ r.l.head = h /\ r.l.tail = t
    /\ \A m \in DOMAIN r.n : /\ r.n[m].next = IF m = a THEN x ELSE s.n[m].next
                             /\ r.n[m].previous = IF m = b THEN y ELSE s.n[m].previous
                             /\ r.n[m].data = s.n[m].data

LEMMA UnlinkedIs ==
    ASSUME NEW s, Shape(s), NEW n, NEW u, NEW h \in Ptr, NEW t \in Ptr, DOMAIN u = {"l", "n"},
           u.l = Resize(s.l, h, t, s.l.length),
           NEW a, NEW x, NEW b, NEW y, Relinks(u.n, s.n, DOMAIN s.n, a, x, b, y)
    PROVE  Unlinks(Unlinked(u, n), s, n, h, t, a, x, b, y)
<1> DEFINE r == Unlinked(u, n)
           c == s.l.length - 1
           D == DOMAIN s.n
<1>1. s.l \in ListRec /\ D \subseteq Nodes /\ s.n \in [D -> NodeRec]
  BY DEF Shape
<1>2. s.l.length \in Int /\ c \in Int
  BY <1>1 DEF ListRec
<1>3. u.l \in ListRec /\ u.l.limit = s.l.limit /\ u.l.head = h /\ u.l.tail = t /\ u.l.length = s.l.length
  BY <1>1, <1>2, Resized
<1>4. /\ DOMAIN u.n = D /\ u.n \in [D -> NodeRec]
      /\ \A m \in D : /\ u.n[m].next = IF m = a THEN x ELSE s.n[m].next
                      /\ u.n[m].previous = IF m = b THEN y ELSE s.n[m].previous
                      /\ u.n[m].data = s.n[m].data
  BY DEF Relinks
<1>5. DOMAIN r = {"l", "n"} /\ r.n = [m \in D \ {n} |-> u.n[m]]
  BY <1>4 DEF Unlinked, Freed
<1>6. r.l = [u.l EXCEPT !.length = u.l.length - 1]
  BY DEF Unlinked, Freed
<1>7. r.l = Resize(u.l, h, t, c)
  BY <1>3, <1>6 DEF Resize, ListRec
<1>8. c = s.l.length - 1
  OBVIOUS
<1> HIDE DEF r, c, D
<1>9. r.l \in ListRec /\ r.l.limit = s.l.limit /\ r.l.head = h /\ r.l.tail = t /\ r.l.length = c
  <2>1. r.l \in ListRec /\ r.l.limit = u.l.limit /\ r.l.head = h /\ r.l.tail = t /\ r.l.length = c
    BY <1>2, <1>3, <1>7, Resized
  <2> QED
    BY <1>3, <2>1
<1>10. DOMAIN r.n = D \ {n} /\ r.n \in [D \ {n} -> NodeRec] /\ \A m \in D \ {n} : r.n[m] = u.n[m]
  BY <1>4, <1>5
<1>11. Shape(r)
  BY <1>1, <1>5, <1>9, <1>10 DEF Shape
<1>12. Unlinks(r, s, n, h, t, a, x, b, y)
  BY <1>4, <1>8, <1>9, <1>10, <1>11 DEF Unlinks, D
<1> QED
  BY <1>12 DEF r

\* linked_list_remove unlinks a node at any position.
LEMMA RemovedIs ==
    ASSUME NEW s, NEW w, Linked(s, w), NEW k \in 1..Len(w)
    PROVE  CutAt(s, Removed(s, w[k]), w, k)
<1> DEFINE n == w[k]
           p == s.n[n].previous
           q == s.n[n].next
           L == Len(w)
           r == Removed(s, n)
<1>1. /\ L \in Nat /\ k \in Nat /\ k >= 1 /\ k <= L /\ k \in 1..L
      /\ (\A i \in 1..L : w[i] \in Nodes /\ w[i] # Null /\ w[i] \in DOMAIN s.n /\ w[i] \in Ptr)
      /\ (\A i, j \in 1..L : w[i] = w[j] => i = j)
      /\ Null \in Ptr
  BY LinkedFacts DEF Ptr
<1>2. /\ Shape(s) /\ DOMAIN s = {"l", "n"} /\ s.l \in ListRec /\ DOMAIN s.n \subseteq Nodes
      /\ s.n \in [DOMAIN s.n -> NodeRec]
  BY DEF Linked, Shape
<1>3. /\ q = IF k < L THEN w[k + 1] ELSE Null
      /\ p = IF k > 1 THEN w[k - 1] ELSE Null
  BY <1>1 DEF Linked, Links
<1>4. L # 0 /\ s.l.head = w[1] /\ s.l.tail = w[L] /\ 1 \in 1..L /\ L \in 1..L
  BY <1>1 DEF Linked, Ends
<1>5. s.l.head \in Ptr /\ s.l.tail \in Ptr /\ s.l.length \in Int
  BY <1>2 DEF ListRec
<1>6. (n = s.l.head <=> k = 1) /\ (n = s.l.tail <=> k = L)
  BY <1>1, <1>4
<1>7. /\ (k < L => k + 1 \in 1..L /\ q = w[k + 1] /\ q \in DOMAIN s.n /\ q # Null /\ q # n /\ q \in Ptr)
      /\ (~(k < L) => q = Null /\ q \in Ptr)
  <2>1. k < L => k + 1 \in 1..L /\ k + 1 # k
    BY <1>1
  <2> HIDE DEF q
  <2> QED
    BY <1>1, <1>3, <2>1
<1>8. /\ (k > 1 => k - 1 \in 1..L /\ p = w[k - 1] /\ p \in DOMAIN s.n /\ p # Null /\ p # n /\ p \in Ptr)
      /\ (~(k > 1) => p = Null /\ p \in Ptr)
  <2>1. k > 1 => k - 1 \in 1..L /\ k - 1 # k
    BY <1>1
  <2> HIDE DEF p
  <2> QED
    BY <1>1, <1>3, <2>1
<1>9. CASE k = 1 /\ L > 1
  <2> DEFINE u == [s EXCEPT !.l.head = q, !.n[q].previous = Null]
  <2>1. k < L /\ 1 + 1 = 2 /\ ~(k > 1)
    BY <1>9
  <2>2. r = Unlinked(u, n)
    BY <1>6, <1>7, <1>9, <2>1 DEF Removed, Unlinked
  <2> HIDE DEF q, n
  <2>3. u.l = Resize(s.l, q, s.l.tail, s.l.length) /\ DOMAIN u = {"l", "n"}
    BY <1>2 DEF Resize, ListRec
  <2>4. u.n = [s.n EXCEPT ![q].previous = Null]
    BY <1>2
  <2> HIDE DEF u
  <2>5. Relinks(u.n, s.n, DOMAIN s.n, q, s.n[q].next, q, Null)
    BY <1>1, <1>2, <1>7, <2>1, <2>4 DEF Relinks, NodeRec
  <2>6. /\ Shape(r) /\ DOMAIN r.n = DOMAIN s.n \ {n}
        /\ r.l.limit = s.l.limit /\ r.l.length = s.l.length - 1 /\ r.l.head = q /\ r.l.tail = s.l.tail
        /\ \A m \in DOMAIN r.n : /\ r.n[m].next = IF m = q THEN s.n[q].next ELSE s.n[m].next
                                 /\ r.n[m].previous = IF m = q THEN Null ELSE s.n[m].previous
                                 /\ r.n[m].data = s.n[m].data
    <3> HIDE DEF r
    <3>1. Unlinks(r, s, n, q, s.l.tail, q, s.n[q].next, q, Null)
      BY <1>2, <1>5, <1>7, <2>1, <2>2, <2>3, <2>5, UnlinkedIs
    <3> QED
      BY <3>1 DEF Unlinks
  <2> HIDE DEF r
  <2>7. q = w[2] /\ q = w[k + 1] /\ s.n[n].previous = Null
    BY <1>7, <1>8, <1>9, <2>1 DEF n, p
  <2>8. CutAt(s, r, w, k)
    BY <1>9, <2>1, <2>6, <2>7 DEF CutAt, n
  <2> QED
    BY <2>8 DEF r, n
<1>10. CASE k = 1 /\ L = 1
  <2> DEFINE u == [s EXCEPT !.l.head = Null, !.l.tail = Null]
  <2>1. ~(k < L) /\ ~(k > 1) /\ ~(L > 1)
    BY <1>10
  <2>2. r = Unlinked(u, n)
    BY <1>6, <1>7, <1>10, <2>1 DEF Removed, Unlinked
  <2> HIDE DEF q, n
  <2>3. u.l = Resize(s.l, Null, Null, s.l.length) /\ DOMAIN u = {"l", "n"} /\ u.n = s.n
    BY <1>2 DEF Resize, ListRec
  <2> HIDE DEF u
  <2>5. Relinks(u.n, s.n, DOMAIN s.n, n, s.n[n].next, n, s.n[n].previous)
    BY <1>2, <2>3 DEF Relinks
  <2>6. /\ Shape(r) /\ DOMAIN r.n = DOMAIN s.n \ {n}
        /\ r.l.limit = s.l.limit /\ r.l.length = s.l.length - 1 /\ r.l.head = Null /\ r.l.tail = Null
        /\ \A m \in DOMAIN r.n : /\ r.n[m].next = IF m = n THEN s.n[n].next ELSE s.n[m].next
                                 /\ r.n[m].previous = IF m = n THEN s.n[n].previous ELSE s.n[m].previous
                                 /\ r.n[m].data = s.n[m].data
    <3> HIDE DEF r
    <3>1. Unlinks(r, s, n, Null, Null, n, s.n[n].next, n, s.n[n].previous)
      BY <1>1, <1>2, <2>2, <2>3, <2>5, UnlinkedIs
    <3> QED
      BY <3>1 DEF Unlinks
  <2> HIDE DEF r
  <2>8. CutAt(s, r, w, k)
    BY <1>10, <2>1, <2>6 DEF CutAt, n
  <2> QED
    BY <2>8 DEF r, n
<1>11. CASE k > 1 /\ k = L
  <2> DEFINE u == [s EXCEPT !.l.tail = p, !.n[p].next = Null]
  <2>1. ~(k < L) /\ k # 1 /\ L > 1
    BY <1>11
  <2>2. r = Unlinked(u, n)
    BY <1>6, <1>11, <2>1 DEF Removed, Unlinked
  <2> HIDE DEF p, n
  <2>3. u.l = Resize(s.l, s.l.head, p, s.l.length) /\ DOMAIN u = {"l", "n"}
    BY <1>2 DEF Resize, ListRec
  <2>4. u.n = [s.n EXCEPT ![p].next = Null]
    BY <1>2
  <2> HIDE DEF u
  <2>5. Relinks(u.n, s.n, DOMAIN s.n, p, Null, p, s.n[p].previous)
    BY <1>1, <1>2, <1>8, <1>11, <2>4 DEF Relinks, NodeRec
  <2>6. /\ Shape(r) /\ DOMAIN r.n = DOMAIN s.n \ {n}
        /\ r.l.limit = s.l.limit /\ r.l.length = s.l.length - 1 /\ r.l.head = s.l.head /\ r.l.tail = p
        /\ \A m \in DOMAIN r.n : /\ r.n[m].next = IF m = p THEN Null ELSE s.n[m].next
                                 /\ r.n[m].previous = IF m = p THEN s.n[p].previous ELSE s.n[m].previous
                                 /\ r.n[m].data = s.n[m].data
    <3> HIDE DEF r
    <3>1. Unlinks(r, s, n, s.l.head, p, p, Null, p, s.n[p].previous)
      BY <1>2, <1>5, <1>8, <1>11, <2>2, <2>3, <2>5, UnlinkedIs
    <3> QED
      BY <3>1 DEF Unlinks
  <2> HIDE DEF r
  <2>7. p = w[k - 1] /\ p = w[L - 1] /\ s.n[n].next = Null
    BY <1>7, <1>8, <1>11, <2>1 DEF n, q
  <2>8. CutAt(s, r, w, k)
    BY <1>11, <2>1, <2>6, <2>7 DEF CutAt, n
  <2> QED
    BY <2>8 DEF r, n
<1>12. CASE k > 1 /\ k < L
  <2> DEFINE u == [s EXCEPT !.n[p].next = q, !.n[q].previous = p]
  <2>1. k # L /\ k # 1
    BY <1>1, <1>12
  <2>2. r = Unlinked(u, n)
    BY <1>6, <2>1 DEF Removed, Unlinked
  <2> HIDE DEF p, q, n
  <2>3. u.l = Resize(s.l, s.l.head, s.l.tail, s.l.length) /\ DOMAIN u = {"l", "n"}
    BY <1>2 DEF Resize, ListRec
  <2>4. u.n = Relink(s.n, p, q, q, p)
    BY <1>2, <1>7, <1>8, <1>12 DEF Relink
  <2> HIDE DEF u
  <2>5. Relinks(u.n, s.n, DOMAIN s.n, p, q, q, p)
    BY <1>2, <1>7, <1>8, <1>12, <2>4, Relinked
  <2>6. /\ Shape(r) /\ DOMAIN r.n = DOMAIN s.n \ {n}
        /\ r.l.limit = s.l.limit /\ r.l.length = s.l.length - 1 /\ r.l.head = s.l.head /\ r.l.tail = s.l.tail
        /\ \A m \in DOMAIN r.n : /\ r.n[m].next = IF m = p THEN q ELSE s.n[m].next
                                 /\ r.n[m].previous = IF m = q THEN p ELSE s.n[m].previous
                                 /\ r.n[m].data = s.n[m].data
    <3> HIDE DEF r
    <3>1. Unlinks(r, s, n, s.l.head, s.l.tail, p, q, q, p)
      BY <1>2, <1>5, <2>2, <2>3, <2>5, UnlinkedIs
    <3> QED
      BY <3>1 DEF Unlinks
  <2> HIDE DEF r
  <2>7. p = w[k - 1] /\ q = w[k + 1] /\ s.n[n].next = q /\ s.n[n].previous = p
    BY <1>7, <1>8, <1>12 DEF n, q, p
  <2>8. CutAt(s, r, w, k)
    BY <1>12, <2>1, <2>6, <2>7 DEF CutAt, n
  <2> QED
    BY <2>8 DEF r, n
<1>13. (k = 1 /\ L > 1) \/ (k = 1 /\ L = 1) \/ (k > 1 /\ k = L) \/ (k > 1 /\ k < L)
  <2>1. L \in Nat /\ k \in Nat /\ k >= 1 /\ k <= L
    BY <1>1
  <2> HIDE DEF L
  <2> QED
    BY <2>1
<1> QED
  BY <1>9, <1>10, <1>11, <1>12, <1>13, Zenon

\* linked_list_append adds a node behind the last.
LEMMA AppendedIs ==
    ASSUME NEW s, NEW w, NEW n \in Nodes, NEW d \in Data, Whole(s, w), n \notin DOMAIN s.n
    PROVE  Grown(s, Appended(create_node(s, n, d), n), w, Len(w) + 1, n, d)
<1> DEFINE t == create_node(s, n, d)
           r == Appended(t, n)
           k == Len(w) + 1
<1>1. /\ Linked(t, w) /\ Fresh(t, n) /\ \A i \in 1..Len(w) : w[i] # n
  BY CreateIs
<1> HIDE DEF t
<1>2. Len(w) \in Nat /\ t.l.length = Len(w) /\ DOMAIN t = {"l", "n"} /\ t.l \in ListRec
      /\ k \in 1..(Len(w) + 1)
  BY <1>1, LinkedFacts DEF Linked, Ends, Shape
<1>3. CASE Len(w) = 0
  <2>1. r = [t EXCEPT !.l.head = n, !.l.tail = n, !.l.length = @ + 1]
    BY <1>1, <1>2, <1>3 DEF Appended, Linked, Ends
  <2>2. Alone(t, r, n)
    BY <1>2, <1>3, <2>1 DEF Alone, Resize, ListRec
  <2> HIDE DEF r
  <2>3. PutAt(t, r, w, k, n)
    BY <1>1, <1>3, <2>2, AloneIs
  <2> QED
    BY <1>2, <2>3, GrownIs DEF t, r
<1>4. CASE Len(w) # 0
  <2>1. /\ Len(w) >= 1 /\ ~(t.l.length = 0 /\ t.l.head = Null)
    BY <1>2, <1>4
  <2>2. Behind(t, r, n)
    <3>1. CASE t.l.head = t.l.tail
      <4>1. r = [t EXCEPT !.l.tail = n, !.n[t.l.head].next = n, !.n[n].previous = t.l.head,
                          !.l.length = @ + 1]
        BY <2>1, <3>1 DEF Appended
      <4> QED
        BY <1>1, <3>1, <4>1, BehindHead DEF Linked
    <3>2. CASE t.l.head # t.l.tail
      <4>1. r = [t EXCEPT !.n[t.l.tail].next = n, !.n[n].previous = t.l.tail, !.l.tail = n,
                          !.l.length = @ + 1]
        BY <2>1, <3>2 DEF Appended
      <4> QED
        BY <1>1, <4>1, BehindTail DEF Linked
    <3> QED
      BY <3>1, <3>2
  <2> HIDE DEF r
  <2>3. PutAt(t, r, w, k, n)
    BY <1>1, <2>1, <2>2, BehindIs
  <2> QED
    BY <1>2, <2>3, GrownIs DEF t, r
<1> QED
  BY <1>3, <1>4

\* linked_list_insert_at_index puts a node into any position.
LEMMA InsertedIs ==
    ASSUME NEW s, NEW w, NEW n \in Nodes, NEW d \in Data, Whole(s, w), n \notin DOMAIN s.n,
           NEW i \in Nat, i = 0 \/ Len(w) > 0
    PROVE  Grown(s, Inserted(create_node(s, n, d), n, i), w,
                 IF i < Len(w) THEN i + 1 ELSE Len(w) + 1, n, d)
<1> DEFINE t == create_node(s, n, d)
           r == Inserted(t, n, i)
           k == IF i < Len(w) THEN i + 1 ELSE Len(w) + 1
<1>1. /\ Linked(t, w) /\ Fresh(t, n) /\ \A j \in 1..Len(w) : w[j] # n
  BY CreateIs
<1> HIDE DEF t
<1>2. /\ Len(w) \in Nat /\ t.l.length = Len(w) /\ DOMAIN t = {"l", "n"} /\ t.l \in ListRec
      /\ Walk(t, t.l.head) = w
  BY <1>1, LinkedFacts, WalkIs DEF Linked, Ends, Shape
<1>3. k \in 1..(Len(w) + 1)
  BY <1>2
<1>4. CASE i = 0 /\ Len(w) = 0
  <2>1. r = [t EXCEPT !.l.head = n, !.l.tail = n, !.l.length = 1] /\ k = 1
    BY <1>2, <1>4 DEF Inserted
  <2>2. Alone(t, r, n)
    BY <1>2, <2>1 DEF Alone, Resize, ListRec
  <2> HIDE DEF r
  <2>3. PutAt(t, r, w, 1, n)
    BY <1>1, <1>4, <2>2, AloneIs
  <2>4. PutAt(t, r, w, k, n)
    BY <2>1, <2>3
  <2> QED
    BY <1>3, <2>4, GrownIs DEF t, r
<1>5. CASE i = 0 /\ Len(w) # 0
  <2>1. r = Before(t, n) /\ k = 1 /\ Len(w) >= 1
    BY <1>2, <1>5 DEF Inserted, Before
  <2> HIDE DEF r
  <2>2. PutAt(t, r, w, 1, n)
    BY <1>1, <2>1, BeforeIs
  <2>3. PutAt(t, r, w, k, n)
    BY <2>1, <2>2
  <2> QED
    BY <1>3, <2>3, GrownIs DEF t, r
<1>6. CASE i # 0 /\ i >= Len(w)
  <2>1. r = [t EXCEPT !.n[t.l.tail].next = n, !.n[n].previous = t.l.tail, !.l.tail = n,
                      !.l.length = @ + 1]
    BY <1>2, <1>6 DEF Inserted
  <2>2. Behind(t, r, n)
    BY <1>1, <2>1, BehindTail DEF Linked
  <2>3. k = Len(w) + 1 /\ Len(w) >= 1
    BY <1>2, <1>6
  <2> HIDE DEF r
  <2>4. PutAt(t, r, w, Len(w) + 1, n)
    BY <1>1, <2>2, <2>3, BehindIs
  <2>5. PutAt(t, r, w, k, n)
    BY <2>3, <2>4
  <2> QED
    BY <1>3, <2>5, GrownIs DEF t, r
<1>7. CASE i # 0 /\ i < Len(w)
  <2> DEFINE at == Walk(t, t.l.head)[i + 1]
  <2>0. /\ ~(i = 0) /\ ~(i >= t.l.length) /\ at = w[i + 1]
    BY <1>2, <1>7
  <2>a. r = Between(t, n, at)
    BY <2>0, Zenon DEF Inserted, Between
  <2>1. r = Between(t, n, w[i + 1])
    BY <2>0, <2>a, Zenon
  <2>2. k = i + 1 /\ i + 1 \in 2..Len(w)
    BY <1>2, <1>7
  <2> HIDE DEF r, k
  <2>3. k \in 2..Len(w) /\ r = Between(t, n, w[k])
    BY <2>1, <2>2
  <2>4. PutAt(t, r, w, k, n)
    BY <1>1, <2>3, BetweenIs
  <2> QED
    BY <1>3, <2>4, GrownIs DEF t, r, k
<1>8. (i = 0 /\ Len(w) = 0) \/ (i = 0 /\ Len(w) # 0) \/ (i # 0 /\ i >= Len(w)) \/ (i # 0 /\ i < Len(w))
  <2> HIDE DEF r, k
  <2> QED
    BY <1>2
<1> QED
  BY <1>4, <1>5, <1>6, <1>7, <1>8, Zenon

\* queue_enqueue adds behind the last while there is room, and otherwise frees
\* the node.
LEMMA EnqueuedIs ==
    ASSUME NEW s, NEW w, NEW n \in Nodes, NEW d \in Data, Whole(s, w), n \notin DOMAIN s.n
    PROVE  LET r == Enqueued(create_node(s, n, d), n) IN
           IF Len(w) < s.l.limit \/ s.l.limit = -1 THEN Grown(s, r, w, Len(w) + 1, n, d)
           ELSE r.l = s.l /\ r.n = s.n
<1> DEFINE t == create_node(s, n, d)
           r == Enqueued(t, n)
           k == Len(w) + 1
<1>1. /\ Linked(t, w) /\ Fresh(t, n) /\ \A i \in 1..Len(w) : w[i] # n
      /\ t.l = s.l /\ DOMAIN t.n = DOMAIN s.n \cup {n} /\ \A m \in DOMAIN s.n : t.n[m] = s.n[m]
  BY CreateIs
<1> HIDE DEF t
<1>2. Len(w) \in Nat /\ t.l.length = Len(w) /\ DOMAIN t = {"l", "n"} /\ t.l \in ListRec
      /\ k \in 1..(Len(w) + 1)
  BY <1>1, LinkedFacts DEF Linked, Ends, Shape
<1>3. /\ Len(w) = 0 => t.l.head = Null /\ t.l.tail = Null
      /\ Len(w) # 0 => t.l.head # Null
  <2>1. Len(w) # 0 => 1 \in 1..Len(w)
    BY <1>2
  <2> QED
    BY <1>1, <2>1, LinkedFacts DEF Linked, Ends
<1>4. CASE Len(w) < s.l.limit \/ s.l.limit = -1
  <2>1. CASE Len(w) = 0
    <3>1. r = [t EXCEPT !.l.head = n, !.l.tail = n, !.l.length = @ + 1]
      BY <1>1, <1>2, <1>3, <1>4, <2>1 DEF Enqueued
    <3>2. Alone(t, r, n)
      BY <1>2, <2>1, <3>1 DEF Alone, Resize, ListRec
    <3> HIDE DEF r
    <3>3. PutAt(t, r, w, k, n)
      BY <1>1, <2>1, <3>2, AloneIs
    <3>4. Grown(s, r, w, k, n, d)
      BY <1>2, <3>3, GrownIs DEF t
    <3> QED
      BY <1>4, <3>4 DEF r, t
  <2>2. CASE Len(w) # 0
    <3>1. r = [t EXCEPT !.n[t.l.tail].next = n, !.n[n].previous = t.l.tail,
                        !.l.tail = n, !.l.length = @ + 1]
      BY <1>1, <1>2, <1>3, <1>4, <2>2 DEF Enqueued
    <3>2. Behind(t, r, n)
      BY <1>1, <3>1, BehindTail DEF Linked
    <3> HIDE DEF r
    <3>3. PutAt(t, r, w, k, n)
      <4>1. Len(w) >= 1
        BY <1>2, <2>2
      <4> QED
        BY <1>1, <3>2, <4>1, BehindIs
    <3>4. Grown(s, r, w, k, n, d)
      BY <1>2, <3>3, GrownIs DEF t
    <3> QED
      BY <1>4, <3>4 DEF r, t
  <2> QED
    BY <2>1, <2>2
<1>5. CASE ~(Len(w) < s.l.limit \/ s.l.limit = -1)
  <2>1. r = Freed(t, n)
    BY <1>1, <1>2, <1>5 DEF Enqueued
  <2>2. r.l = t.l /\ r.n = [m \in DOMAIN t.n \ {n} |-> t.n[m]]
    BY <1>2, <2>1 DEF Freed
  <2> HIDE DEF r
  <2>3. DOMAIN t.n \ {n} = DOMAIN s.n
    BY <1>1
  <2>4. s.n = [m \in DOMAIN s.n |-> s.n[m]]
    BY DEF Whole, Linked, Shape
  <2>5. r.n = s.n
    BY <1>1, <2>2, <2>3, <2>4
  <2> QED
    BY <1>1, <1>5, <2>2, <2>5 DEF r, t
<1> QED
  BY <1>4, <1>5

\* The head of a queue leaves it as it would leave a list.
LEMMA DequeuedIs ==
    ASSUME NEW s, NEW w, Linked(s, w), Len(w) >= 1, NEW u,
           u = IF s.l.head = s.l.tail /\ s.l.length = 1
               THEN [s EXCEPT !.l.head = Null, !.l.tail = Null]
               ELSE [s EXCEPT !.l.head = s.n[s.l.head].next, !.n[s.n[s.l.head].next].previous = Null]
    PROVE  CutAt(s, Unlinked(u, s.l.head), w, 1)
<1> DEFINE h == s.l.head
           q == s.n[h].next
<1>1. Len(w) \in Nat /\ 1 \in 1..Len(w) /\ Len(w) \in 1..Len(w) /\ Len(w) # 0
  BY LinkedFacts
<1>2. h = w[1] /\ s.l.tail = w[Len(w)] /\ s.l.length = Len(w)
  BY <1>1 DEF Linked, Ends
<1>3. q = IF 1 < Len(w) THEN w[1 + 1] ELSE Null
  BY <1>1, <1>2 DEF Linked, Links
<1>4. 1 < Len(w) => 1 + 1 \in 1..Len(w)
  BY <1>1
<1> HIDE DEF q, h
<1>5. q # Null <=> 1 < Len(w)
  BY <1>1, <1>3, <1>4, LinkedFacts
<1>6. q # Null <=> ~(h = s.l.tail /\ s.l.length = 1)
  <2>1. 1 < Len(w) <=> Len(w) # 1
    <3>1. \A L \in Nat : L # 0 => (1 < L <=> L # 1)
      OBVIOUS
    <3> QED
      BY <1>1, <3>1, Zenon
  <2>2. Len(w) = 1 => h = s.l.tail
    BY <1>2
  <2> QED
    BY <1>2, <1>5, <2>1, <2>2, Zenon
<1>7. Removed(s, h) = Unlinked(u, h)
  <2>1. CASE q # Null
    <3>1. u = [s EXCEPT !.l.head = q, !.n[q].previous = Null]
      BY <1>6, <2>1 DEF q, h
    <3> QED
      BY <2>1, <3>1 DEF Removed, Unlinked, q, h
  <2>2. CASE q = Null
    <3>1. u = [s EXCEPT !.l.head = Null, !.l.tail = Null]
      BY <1>6, <2>2 DEF q, h
    <3> QED
      BY <2>2, <3>1 DEF Removed, Unlinked, q, h
  <2> QED
    BY <2>1, <2>2
<1>8. CutAt(s, Removed(s, w[1]), w, 1)
  BY <1>1, RemovedIs
<1> QED
  BY <1>2, <1>7, <1>8 DEF h

\* One turn of queue_force_remove takes out the node it looks at.
LEMMA ForceRemovedIs ==
    ASSUME NEW s, NEW w, Linked(s, w), NEW k \in 1..Len(w), NEW d, s.n[w[k]].data = d
    PROVE  CutAt(s, ForceRemoved(s, w[k], d), w, k)
<1>1. Len(w) \in Nat /\ s.l.length = Len(w)
  BY LinkedFacts DEF Linked, Ends
<1>2. CASE Len(w) # 1
  <2>1. ForceRemoved(s, w[k], d) = Removed(s, w[k])
    BY <1>1, <1>2 DEF ForceRemoved
  <2> QED
    BY <2>1, RemovedIs
<1>3. CASE Len(w) = 1
  <2> DEFINE r == ForceRemoved(s, w[k], d)
  <2>1. r = [Freed(s, w[k]) EXCEPT !.l.head = Null, !.l.tail = Null, !.l.length = 0]
    BY <1>1, <1>3 DEF ForceRemoved
  <2>2. /\ DOMAIN s = {"l", "n"} /\ s.l \in ListRec /\ DOMAIN s.n \subseteq Nodes
        /\ s.n \in [DOMAIN s.n -> NodeRec]
    BY DEF Linked, Shape
  <2>3. k = 1 /\ ~(k > 1) /\ ~(k < Len(w)) /\ ~(Len(w) > 1)
    BY <1>3
  <2> HIDE DEF r
  <2>4. /\ DOMAIN r = {"l", "n"} /\ r.l = Resize(s.l, Null, Null, 0)
        /\ r.n = [m \in DOMAIN s.n \ {w[k]} |-> s.n[m]]
    BY <2>1, <2>2 DEF Freed, Resize
  <2>5. Null \in Ptr /\ 0 \in Int
    BY DEF Ptr
  <2>6. r.l \in ListRec /\ r.l.head = Null /\ r.l.tail = Null /\ r.l.length = 0 /\ r.l.limit = s.l.limit
    BY <2>2, <2>4, <2>5, Resized
  <2>7. DOMAIN r.n = DOMAIN s.n \ {w[k]} /\ r.n \in [DOMAIN r.n -> NodeRec]
        /\ \A m \in DOMAIN r.n : r.n[m] = s.n[m]
    BY <2>2, <2>4
  <2>8. Shape(r)
    BY <2>2, <2>4, <2>6, <2>7 DEF Shape
  <2>9. s.l.length - 1 = 0
    BY <1>1, <1>3
  <2>10. CutAt(s, r, w, k)
    BY <2>3, <2>6, <2>7, <2>8, <2>9 DEF CutAt
  <2> QED
    BY <2>10 DEF r
<1> QED
  BY <1>2, <1>3

ForceStep(s, w, d, F, i) == IF i = 0 THEN s ELSE ForceRemoved(F[i - 1], w[i], d)
OthersStep(q, d, F, i) ==
    IF i = 0 THEN << >> ELSE IF q[i] = d THEN F[i - 1] ELSE Append(F[i - 1], q[i])

Forces(s, w, d, L, F) == F = [i \in 0..L |-> ForceStep(s, w, d, F, i)]

\* The recursive functions of queue_force_remove and of Others exist.
LEMMA ForceExists ==
    ASSUME NEW s, NEW w, NEW d, NEW L \in Nat
    PROVE  \E F : Forces(s, w, d, L, F)
<1> DEFINE P(n) == \E F : F = [i \in 0..n |-> ForceStep(s, w, d, F, i)]
           G == {n \in Nat : P(n)}
<1>1. 0 \in G
  <2> DEFINE E == [i \in 0..0 |-> s]
  <2>1. E = [i \in 0..0 |-> ForceStep(s, w, d, E, i)]
    BY DEF ForceStep
  <2> QED
    BY <2>1
<1>2. ASSUME NEW n \in 0..(L - 1), n \in G PROVE n + 1 \in G
  <2>1. PICK F : F = [i \in 0..n |-> ForceStep(s, w, d, F, i)]
    BY <1>2
  <2> DEFINE H == [i \in 0..(n + 1) |-> IF i <= n THEN F[i] ELSE ForceStep(s, w, d, F, n + 1)]
  <2>2. ASSUME NEW i \in 0..(n + 1) PROVE H[i] = ForceStep(s, w, d, H, i)
    <3>1. CASE i <= n
      <4>1. H[i] = ForceStep(s, w, d, F, i)
        BY <2>1, <3>1
      <4>2. i # 0 => H[i - 1] = F[i - 1]
        BY <3>1
      <4> QED
        BY <4>1, <4>2 DEF ForceStep
    <3>2. CASE i = n + 1
      <4>1. H[i - 1] = F[i - 1]
        BY <3>2
      <4> QED
        BY <4>1, <3>2 DEF ForceStep
    <3> QED
      BY <3>1, <3>2
  <2>3. H = [i \in 0..(n + 1) |-> ForceStep(s, w, d, H, i)]
    BY <2>2
  <2>4. P(n + 1)
    BY <2>3
  <2> QED
    BY <2>4
<1> HIDE DEF G
<1>3. \A i \in 0..L : i \in G
  BY <1>1, <1>2, Q!SetInduction
<1>4. L \in G
  BY <1>3
<1> QED
  BY <1>4 DEF G, Forces

LEMMA OthersExists ==
    ASSUME NEW q, NEW d, NEW L \in Nat
    PROVE  \E F : F = [i \in 0..L |-> OthersStep(q, d, F, i)]
<1> DEFINE P(n) == \E F : F = [i \in 0..n |-> OthersStep(q, d, F, i)]
           G == {n \in Nat : P(n)}
<1>1. 0 \in G
  <2> DEFINE E == [i \in 0..0 |-> << >>]
  <2>1. E = [i \in 0..0 |-> OthersStep(q, d, E, i)]
    BY DEF OthersStep
  <2> QED
    BY <2>1
<1>2. ASSUME NEW n \in 0..(L - 1), n \in G PROVE n + 1 \in G
  <2>1. PICK F : F = [i \in 0..n |-> OthersStep(q, d, F, i)]
    BY <1>2
  <2> DEFINE H == [i \in 0..(n + 1) |-> IF i <= n THEN F[i] ELSE OthersStep(q, d, F, n + 1)]
  <2>2. ASSUME NEW i \in 0..(n + 1) PROVE H[i] = OthersStep(q, d, H, i)
    <3>1. CASE i <= n
      <4>1. H[i] = OthersStep(q, d, F, i)
        BY <2>1, <3>1
      <4>2. i # 0 => H[i - 1] = F[i - 1]
        BY <3>1
      <4> QED
        BY <4>1, <4>2 DEF OthersStep
    <3>2. CASE i = n + 1
      <4>1. H[i - 1] = F[i - 1]
        BY <3>2
      <4> QED
        BY <4>1, <3>2 DEF OthersStep
    <3> QED
      BY <3>1, <3>2
  <2>3. H = [i \in 0..(n + 1) |-> OthersStep(q, d, H, i)]
    BY <2>2
  <2>4. P(n + 1)
    BY <2>3
  <2> QED
    BY <2>4
<1> HIDE DEF G
<1>3. \A i \in 0..L : i \in G
  BY <1>1, <1>2, Q!SetInduction
<1>4. L \in G
  BY <1>3
<1> QED
  BY <1>4 DEF G

\* The queue after i turns of queue_force_remove: the data o that were kept,
\* then the nodes that the loop has not looked at.
Turn(s, w, i, r, o, c) ==
    /\ Whole(r, c) /\ r.l.limit = s.l.limit
    /\ o \in Seq(Data) /\ Len(o) <= i /\ Len(c) = (Len(w) - i) + Len(o)
    /\ \A j \in 1..Len(o) : r.n[c[j]].data = o[j]
    /\ \A j \in 1..(Len(w) - i) : c[j + Len(o)] = w[j + i]
    /\ \A j \in 1..(Len(w) - i) : r.n[w[j + i]].data = s.n[w[j + i]].data

LEMMA TurnStep ==
    ASSUME NEW s, NEW w, Whole(s, w), NEW d, NEW i \in 0..(Len(w) - 1), NEW r, NEW o, NEW c,
           Turn(s, w, i, r, o, c), NEW x, x = s.n[w[i + 1]].data, NEW o2,
           o2 = IF x = d THEN o ELSE Append(o, x)
    PROVE  \E c2 : Turn(s, w, i + 1, ForceRemoved(r, w[i + 1], d), o2, c2)
<1> DEFINE L == Len(w)
           e == Len(o)
           k == e + 1
           M == Len(c)
<1>1. /\ Whole(r, c) /\ r.l.limit = s.l.limit /\ o \in Seq(Data)
      /\ e <= i /\ M = (L - i) + e
      /\ \A j \in 1..e : r.n[c[j]].data = o[j]
      /\ \A j \in 1..(L - i) : c[j + e] = w[j + i]
      /\ \A j \in 1..(L - i) : r.n[w[j + i]].data = s.n[w[j + i]].data
  BY DEF Turn
<1>2. L \in Nat /\ i \in Nat /\ i < L /\ Linked(s, w)
  BY LinkedFacts DEF Whole
<1>3. e \in Nat /\ \A j \in 1..e : o[j] \in Data
  BY <1>1, SeqIs
<1>a. M \in Nat /\ c \in Seq(Nodes) /\ Linked(r, c)
  BY <1>1, LinkedFacts DEF Whole
<1> HIDE DEF L, e, M
<1>4. /\ 1 \in 1..(L - i) /\ 1 + e = k /\ 1 + i = i + 1 /\ k \in 1..M /\ k \in Nat
      /\ \A j \in 1..(L - (i + 1)) : /\ j + 1 \in 1..(L - i) /\ (j + 1) + e = j + (e + 1) /\ (j + 1) + i = j + (i + 1)
                                     /\ (j + e) + 1 = (j + 1) + e /\ j + e \in 1..(M - 1) /\ ~(j + e < k)
                                     /\ (j + 1) + e \in 1..M /\ (j + 1) + e # k
      /\ \A j \in 1..e : j < k /\ j \in 1..(M - 1) /\ j \in 1..M /\ j # k
  BY <1>1, <1>2, <1>3
<1>5. c[k] = w[i + 1] /\ r.n[w[i + 1]].data = x
  <2>1. c[1 + e] = w[1 + i] /\ r.n[w[1 + i]].data = s.n[w[1 + i]].data
    BY <1>1, <1>4
  <2> QED
    BY <1>4, <2>1
<1>6. ASSUME NEW j \in 1..(L - (i + 1))
      PROVE  c[(j + 1) + e] = w[j + (i + 1)] /\ r.n[w[j + (i + 1)]].data = s.n[w[j + (i + 1)]].data
  <2>1. j + 1 \in 1..(L - i) /\ (j + 1) + i = j + (i + 1)
    BY <1>4
  <2>2. c[(j + 1) + e] = w[(j + 1) + i] /\ r.n[w[(j + 1) + i]].data = s.n[w[(j + 1) + i]].data
    BY <1>1, <2>1
  <2> QED
    BY <2>1, <2>2
<1>7. x \in Data
  <2>1. i + 1 \in 1..L
    BY <1>2
  <2>2. s.n[w[i + 1]] \in NodeRec
    BY <1>2, <2>1, LinkedFacts DEF L
  <2> QED
    BY <2>2 DEF NodeRec
<1>8. CASE x # d
  <2>1. ForceRemoved(r, w[i + 1], d) = r /\ o2 = Append(o, x)
    BY <1>5, <1>8 DEF ForceRemoved
  <2>2. /\ o2 \in Seq(Data) /\ Len(o2) = e + 1 /\ (\A j \in 1..e : o2[j] = o[j]) /\ o2[e + 1] = x
    BY <1>1, <1>7, <2>1, AppendProperties DEF e
  <2>3. e + 1 <= i + 1 /\ M = (L - (i + 1)) + (e + 1)
    BY <1>1, <1>2, <1>3
  <2>4. ASSUME NEW j \in 1..(e + 1) PROVE r.n[c[j]].data = o2[j]
    <3>1. CASE j \in 1..e
      BY <1>1, <2>2, <3>1
    <3>2. CASE j = e + 1
      BY <1>5, <2>2, <3>2
    <3>3. j \in 1..e \/ j = e + 1
      BY <1>3
    <3> QED
      BY <3>1, <3>2, <3>3
  <2>5. ASSUME NEW j \in 1..(L - (i + 1)) PROVE c[j + (e + 1)] = w[j + (i + 1)]
    BY <1>4, <1>6
  <2>6. \A j \in 1..(L - (i + 1)) : r.n[w[j + (i + 1)]].data = s.n[w[j + (i + 1)]].data
    BY <1>6
  <2>7. Turn(s, w, i + 1, r, o2, c)
    <3>1. /\ Len(o2) <= i + 1 /\ Len(c) = (Len(w) - (i + 1)) + Len(o2)
      BY <2>2, <2>3 DEF L, M
    <3>2. \A j \in 1..Len(o2) : r.n[c[j]].data = o2[j]
      BY <2>2, <2>4
    <3>3. \A j \in 1..(Len(w) - (i + 1)) : c[j + Len(o2)] = w[j + (i + 1)]
      BY <2>2, <2>5 DEF L
    <3>4. \A j \in 1..(Len(w) - (i + 1)) : r.n[w[j + (i + 1)]].data = s.n[w[j + (i + 1)]].data
      BY <2>6 DEF L
    <3> QED
      BY <1>1, <2>2, <3>1, <3>2, <3>3, <3>4 DEF Turn
  <2> QED
    BY <2>1, <2>7
<1>9. CASE x = d
  <2> DEFINE q == ForceRemoved(r, w[i + 1], d)
             c2 == Cut(c, k)
  <2>1. CutAt(r, q, c, k)
    <3>1. CutAt(r, ForceRemoved(r, c[k], d), c, k)
      <4>1. k \in 1..Len(c) /\ r.n[c[k]].data = d
        BY <1>4, <1>5, <1>9 DEF M
      <4> HIDE DEF k
      <4> QED
        BY <1>a, <4>1, ForceRemovedIs
    <3> QED
      BY <1>5, <3>1
  <2> HIDE DEF q
  <2>2. Shrunk(r, q, c, k)
    <3>1. k \in 1..Len(c)
      BY <1>4 DEF M
    <3> HIDE DEF k
    <3> QED
      BY <1>1, <2>1, <3>1, ShrunkIs
  <2>3. /\ Whole(q, c2) /\ q.l.limit = s.l.limit
        /\ \A j \in 1..M : j # k => q.n[c[j]].data = r.n[c[j]].data
    BY <1>1, <2>2 DEF Shrunk, M
  <2>4. /\ Len(c2) = M - 1 /\ \A j \in 1..(M - 1) : c2[j] = IF j < k THEN c[j] ELSE c[j + 1]
    <3>1. k \in 1..Len(c)
      BY <1>4 DEF M
    <3> HIDE DEF k
    <3> QED
      BY <1>a, <3>1, CutSeq DEF M
  <2> HIDE DEF c2, k
  <2>5. e <= i + 1 /\ M - 1 = (L - (i + 1)) + e
    BY <1>1, <1>2, <1>3
  <2>6. ASSUME NEW j \in 1..e PROVE q.n[c2[j]].data = o[j]
    BY <1>1, <1>4, <2>3, <2>4
  <2>7. ASSUME NEW j \in 1..(L - (i + 1))
        PROVE  c2[j + e] = w[j + (i + 1)] /\ q.n[w[j + (i + 1)]].data = s.n[w[j + (i + 1)]].data
    <3> DEFINE a == (j + 1) + e
    <3>1. (j + e) + 1 = a /\ j + e \in 1..(M - 1) /\ ~(j + e < k) /\ a \in 1..M /\ a # k
      BY <1>4
    <3>2. c[a] = w[j + (i + 1)] /\ r.n[w[j + (i + 1)]].data = s.n[w[j + (i + 1)]].data
      BY <1>6
    <3> HIDE DEF a
    <3>3. c2[j + e] = c[a]
      BY <2>4, <3>1
    <3>4. q.n[c[a]].data = r.n[c[a]].data
      BY <2>3, <3>1
    <3> QED
      BY <3>2, <3>3, <3>4
  <2>8. Turn(s, w, i + 1, q, o, c2)
    <3>1. /\ Len(o) <= i + 1 /\ Len(c2) = (Len(w) - (i + 1)) + Len(o)
      BY <2>4, <2>5 DEF L, e
    <3>2. \A j \in 1..Len(o) : q.n[c2[j]].data = o[j]
      BY <2>6 DEF e
    <3>3. \A j \in 1..(Len(w) - (i + 1)) : c2[j + Len(o)] = w[j + (i + 1)]
      BY <2>7 DEF L, e
    <3>4. \A j \in 1..(Len(w) - (i + 1)) : q.n[w[j + (i + 1)]].data = s.n[w[j + (i + 1)]].data
      BY <2>7 DEF L
    <3> QED
      BY <1>1, <2>3, <3>1, <3>2, <3>3, <3>4 DEF Turn
  <2>9. o2 = o
    BY <1>9
  <2> QED
    BY <2>8, <2>9 DEF q
<1> QED
  BY <1>8, <1>9

LEMMA ValuesIs ==
    ASSUME NEW s, NEW w, Linked(s, w)
    PROVE  /\ Values(s, w) \in Seq(Data) /\ Len(Values(s, w)) = Len(w)
           /\ \A i \in 1..Len(w) : Values(s, w)[i] = s.n[w[i]].data /\ s.n[w[i]].data \in Data
<1> DEFINE v == Values(s, w)
           L == Len(w)
<1>1. L \in Nat /\ \A i \in 1..L : s.n[w[i]].data \in Data
  BY LinkedFacts DEF NodeRec
<1>2. v = [i \in 1..L |-> s.n[w[i]].data]
  BY DEF Values
<1> HIDE DEF v, L
<1>3. v \in [1..L -> Data] /\ \A i \in 1..L : v[i] = s.n[w[i]].data
  BY <1>1, <1>2
<1>4. v \in Seq(Data) /\ Len(v) = L
  BY <1>1, <1>3
<1> QED
  BY <1>1, <1>3, <1>4 DEF v, L

\* queue_force_remove leaves the queue of the other data, in their order.
LEMMA ForceLoop ==
    ASSUME NEW s, NEW w, Whole(s, w), NEW d, NEW F, NEW O,
           F = [i \in 0..Len(w) |-> ForceStep(s, w, d, F, i)],
           O = [i \in 0..Len(w) |-> OthersStep(Values(s, w), d, O, i)]
    PROVE  \E c : /\ Whole(F[Len(w)], c) /\ Values(F[Len(w)], c) = O[Len(w)]
                  /\ F[Len(w)].l.limit = s.l.limit
<1> DEFINE L == Len(w)
           v == Values(s, w)
           P(i) == \E c : Turn(s, w, i, F[i], O[i], c)
           G == {i \in 0..L : P(i)}
<1>1. L \in Nat /\ Linked(s, w)
  BY LinkedFacts DEF Whole
<1>2. v \in Seq(Data) /\ Len(v) = L /\ \A i \in 1..L : v[i] = s.n[w[i]].data
  BY <1>1, ValuesIs
<1>3. /\ \A i \in 0..L : F[i] = ForceStep(s, w, d, F, i)
      /\ \A i \in 0..L : O[i] = OthersStep(v, d, O, i)
  <2> HIDE DEF v, P
  <2>1. F = [i \in 0..L |-> ForceStep(s, w, d, F, i)]
    OBVIOUS
  <2>2. O = [i \in 0..L |-> OthersStep(v, d, O, i)]
    BY DEF v
  <2> HIDE DEF L
  <2>3. \A i \in 0..L : F[i] = ForceStep(s, w, d, F, i)
    BY <2>1
  <2>4. \A i \in 0..L : O[i] = OthersStep(v, d, O, i)
    BY <2>2
  <2> QED
    BY <2>3, <2>4
<1> HIDE DEF L, v
<1>4. 0 \in G
  <2>1. 0 \in 0..L
    BY <1>1
  <2>2. F[0] = s /\ O[0] = << >>
    BY <1>3, <2>1 DEF ForceStep, OthersStep
  <2>3. << >> \in Seq(Data) /\ Len(<< >>) = 0
    OBVIOUS
  <2>4. L - 0 = L /\ L + 0 = L /\ \A j \in 1..L : j + 0 = j
    BY <1>1
  <2>5. Turn(s, w, 0, s, << >>, w)
    <3>1. Len(<< >>) <= 0 /\ Len(w) = (Len(w) - 0) + Len(<< >>)
      BY <2>3, <2>4 DEF L
    <3>2. \A j \in 1..Len(<< >>) : s.n[w[j]].data = << >>[j]
      BY <2>3
    <3>3. \A j \in 1..(Len(w) - 0) : w[j + Len(<< >>)] = w[j + 0]
      BY <2>3, <2>4 DEF L
    <3> QED
      BY <2>3, <3>1, <3>2, <3>3 DEF Turn
  <2> QED
    BY <2>1, <2>2, <2>5
<1>5. ASSUME NEW i \in 0..(L - 1), i \in G PROVE i + 1 \in G
  <2>1. i \in Nat /\ i + 1 \in 0..L /\ i + 1 # 0 /\ (i + 1) - 1 = i /\ i + 1 \in 1..L
    BY <1>1
  <2>2. PICK c : Turn(s, w, i, F[i], O[i], c)
    BY <1>5
  <2> DEFINE x == s.n[w[i + 1]].data
  <2>3. F[i + 1] = ForceRemoved(F[i], w[i + 1], d)
    BY <1>3, <2>1 DEF ForceStep
  <2>4. v[i + 1] = x
    BY <1>2, <2>1
  <2>5. O[i + 1] = IF x = d THEN O[i] ELSE Append(O[i], x)
    <3>1. O[i + 1] = OthersStep(v, d, O, i + 1)
      BY <1>3, <2>1
    <3> HIDE DEF x
    <3> QED
      BY <2>1, <2>4, <3>1 DEF OthersStep
  <2>6. i \in 0..(Len(w) - 1) /\ x = s.n[w[i + 1]].data
    BY DEF L
  <2> HIDE DEF x
  <2>7. \E c2 : Turn(s, w, i + 1, ForceRemoved(F[i], w[i + 1], d), O[i + 1], c2)
    BY <2>2, <2>5, <2>6, TurnStep
  <2>8. P(i + 1)
    BY <2>3, <2>7
  <2> HIDE DEF P
  <2> QED
    BY <2>1, <2>8
<1>6. L \in G
  <2> HIDE DEF G
  <2>1. \A i \in 0..L : i \in G
    BY <1>1, <1>4, <1>5, Q!SetInduction
  <2> QED
    BY <1>1, <2>1
<1>7. PICK c : Turn(s, w, L, F[L], O[L], c)
  BY <1>6
<1> DEFINE r == F[L]
           o == O[L]
<1>8. /\ Whole(r, c) /\ r.l.limit = s.l.limit /\ o \in Seq(Data) /\ Len(c) = (L - L) + Len(o)
      /\ \A j \in 1..Len(o) : r.n[c[j]].data = o[j]
  BY <1>7 DEF Turn, L
<1> HIDE DEF r, o
<1>9. Len(o) \in Nat /\ Len(c) = Len(o)
  BY <1>1, <1>8
<1>10. /\ Values(r, c) \in Seq(Data) /\ Len(Values(r, c)) = Len(c)
       /\ \A i \in 1..Len(c) : Values(r, c)[i] = r.n[c[i]].data
  BY <1>8, ValuesIs DEF Whole
<1>11. \A i \in 1..Len(o) : Values(r, c)[i] = o[i]
  BY <1>8, <1>9, <1>10
<1>12. Values(r, c) = o
  BY <1>8, <1>9, <1>10, <1>11, SeqEqual
<1> QED
  BY <1>8, <1>12 DEF r, o, L

\* A structure is described by its fields.
LEMMA SameFields ==
    ASSUME NEW r, NEW q, NEW w, Whole(r, w), DOMAIN q = {"l", "n"}, q.l = r.l, q.n = r.n
    PROVE  Whole(q, w) /\ Values(q, w) = Values(r, w)
BY DEF Whole, Linked, Shape, Ends, Links, Values

\* A chain is the walk from its head.
LEMMA WholeChain ==
    ASSUME NEW s, NEW w, Whole(s, w)
    PROVE  /\ Walk(s, s.l.head) = w /\ WalkBack(s, s.l.tail) = Reverse(w)
           /\ Len(w) = s.l.length /\ Range(w) = DOMAIN s.n
<1>1. Linked(s, w)
  BY DEF Whole
<1>2. Len(w) = s.l.length
  BY <1>1 DEF Linked, Ends
<1>3. DOMAIN w = 1..Len(w)
  BY <1>1, LinkedFacts
<1>4. Range(w) = DOMAIN s.n
  BY <1>1, <1>3 DEF Range, Whole, Linked
<1> QED
  BY <1>1, <1>2, <1>4, WalkIs, WalkBackIs

-----------------------------------------------------------------------------
(* The invariant: the structure is one chain, and only queues have limits. *)

ListInv ==
    /\ Whole(Struct, Walk(Struct, list.head))
    /\ kind # "queue" => list.limit = -1

LEMMA StructIs ==
    Struct.l = list /\ Struct.n = node /\ DOMAIN Struct = {"l", "n"}
BY DEF Struct

\* The position of a node of the chain, and of NULL.
LEMMA IndexIs ==
    ASSUME NEW s, NEW w, Whole(s, w)
    PROVE  /\ IndexOf(w, Null) = 0
           /\ \A i \in 1..Len(w) : IndexOf(w, w[i]) = i
           /\ \A n : n \in Range(w) => IndexOf(w, n) \in 1..Len(w) /\ w[IndexOf(w, n)] = n
           /\ \A n : n \notin Range(w) => IndexOf(w, n) = 0
<1>1. /\ DOMAIN w = 1..Len(w) /\ (\A i \in 1..Len(w) : w[i] # Null)
      /\ \A i, j \in 1..Len(w) : w[i] = w[j] => i = j
  BY LinkedFacts DEF Whole
<1>2. \A n : n \in Range(w) <=> \E i \in 1..Len(w) : w[i] = n
  BY <1>1 DEF Range
<1>3. Null \notin Range(w)
  BY <1>1, <1>2
<1>4. \A n : n \notin Range(w) => IndexOf(w, n) = 0
  BY DEF IndexOf
<1>5. ASSUME NEW n, n \in Range(w) PROVE IndexOf(w, n) \in 1..Len(w) /\ w[IndexOf(w, n)] = n
  <2>1. IndexOf(w, n) = CHOOSE i \in 1..Len(w) : w[i] = n
    BY <1>1, <1>5 DEF IndexOf
  <2>2. \E i \in 1..Len(w) : w[i] = n
    BY <1>2, <1>5
  <2> QED
    BY <2>1, <2>2
<1>6. ASSUME NEW i \in 1..Len(w) PROVE IndexOf(w, w[i]) = i
  <2>1. w[i] \in Range(w)
    BY <1>2
  <2>2. IndexOf(w, w[i]) \in 1..Len(w) /\ w[IndexOf(w, w[i])] = w[i]
    BY <1>5, <2>1
  <2> QED
    BY <1>1, <2>2
<1> QED
  BY <1>3, <1>4, <1>5, <1>6

\* What a state is: its items are the data of the chain.
LEMMA NowIs ==
    ASSUME ListInv
    PROVE  LET w == Walk(Struct, list.head) IN
           /\ Whole(Struct, w) /\ Linked(Struct, w) /\ Items = Values(Struct, w)
           /\ Items \in Seq(Data) /\ Len(Items) = Len(w) /\ list.length = Len(w)
           /\ Len(w) \in Nat /\ Cardinality(Nodes) \in Nat /\ Len(w) <= Cardinality(Nodes)
           /\ \A i \in 1..Len(w) : Items[i] = node[w[i]].data
<1> DEFINE w == Walk(Struct, list.head)
<1>1. Whole(Struct, w) /\ Linked(Struct, w)
  BY DEF ListInv, Whole
<1>2. Items = [i \in DOMAIN w |-> node[w[i]].data]
  BY DEF Items
<1> HIDE DEF w
<1>3. DOMAIN w = 1..Len(w) /\ Len(w) \in Nat
  BY <1>1, LinkedFacts
<1>4. Items = Values(Struct, w)
  BY <1>2, <1>3, StructIs DEF Values
<1>5. /\ Items \in Seq(Data) /\ Len(Items) = Len(w)
      /\ \A i \in 1..Len(w) : Items[i] = node[w[i]].data
  <2>1. /\ Values(Struct, w) \in Seq(Data) /\ Len(Values(Struct, w)) = Len(w)
        /\ \A i \in 1..Len(w) : Values(Struct, w)[i] = Struct.n[w[i]].data
    BY <1>1, ValuesIs
  <2> QED
    BY <1>4, <2>1, StructIs
<1>6. Struct.l.length = Len(w)
  BY <1>1 DEF Linked, Ends
<1>7. Cardinality(Nodes) \in Nat /\ Len(w) <= Cardinality(Nodes)
  BY <1>1, DistinctLen DEF Linked
<1> QED
  BY <1>1, <1>3, <1>4, <1>5, <1>6, <1>7, StructIs DEF w

\* A call that leaves the chain v has the data of v as its items.
LEMMA CommitIs ==
    ASSUME ListInv, NEW r, NEW v, Whole(r, v), r.l.limit = list.limit, NEW c, Commit(r, c)
    PROVE  /\ ListInv' /\ Items' = Values(r, v) /\ Position(found)' = 0
           /\ list'.limit = list.limit /\ call' = c
<1>1. list' = r.l /\ node' = r.n /\ found' = Null /\ call' = c /\ kind' = kind
  BY DEF Commit
<1>2. Struct'.l = r.l /\ Struct'.n = r.n /\ DOMAIN Struct' = {"l", "n"}
  BY <1>1 DEF Struct
<1>3. Whole(Struct', v) /\ Values(Struct', v) = Values(r, v)
  BY <1>2, SameFields
<1>4. Walk(Struct', list'.head) = v /\ DOMAIN v = 1..Len(v)
  <2>1. Walk(Struct', Struct'.l.head) = v
    BY <1>3, WholeChain
  <2>2. DOMAIN v = 1..Len(v)
    BY LinkedFacts DEF Whole
  <2> QED
    BY <1>1, <1>2, <2>1, <2>2
<1>5. ListInv'
  BY <1>1, <1>3, <1>4 DEF ListInv
<1>6. Items' = [i \in 1..Len(v) |-> node'[v[i]].data]
  BY <1>4 DEF Items
<1>7. Items' = Values(r, v)
  BY <1>1, <1>6 DEF Values
<1>8. Position(found)' = IndexOf(v, Null)
  BY <1>1, <1>4 DEF Position
<1>9. IndexOf(v, Null) = 0
  BY IndexIs
<1> QED
  BY <1>1, <1>5, <1>7, <1>8, <1>9

-----------------------------------------------------------------------------
(* Each call does to the items what AbstractList says.                     *)

\* The helpers of AbstractList are the same operators.
LEMMA SameHelpers ==
    /\ \A q, k, d : Sequence!InsertAt(q, k, d) = InsertAt(q, k, d)
    /\ \A q, k : Sequence!RemoveAt(q, k) = RemoveAt(q, k)
    /\ \A q : Sequence!Range(q) = Range(q)
BY DEF Sequence!InsertAt, InsertAt, Sequence!RemoveAt, RemoveAt, Sequence!Range, Range

LEMMA AppendStep ==
    ASSUME ListInv, NEW n \in Nodes, NEW d \in Data, linked_list_append(n, d)
    PROVE  ListInv' /\ Sequence!Add(d)
<1> DEFINE w == Walk(Struct, list.head)
           r == Appended(create_node(Struct, n, d), n)
           v == Put(w, Len(w) + 1, n)
<1>1. /\ Whole(Struct, w) /\ Items = Values(Struct, w) /\ Items \in Seq(Data) /\ Len(Items) = Len(w)
  BY NowIs
<1>2. kind = "list" /\ n \notin DOMAIN node /\ Commit(r, <<"add", d>>)
  BY DEF linked_list_append
<1>3. list.limit = -1
  BY <1>2 DEF ListInv
<1> HIDE DEF w
<1>4. Grown(Struct, r, w, Len(w) + 1, n, d)
  BY <1>1, <1>2, AppendedIs, StructIs
<1> HIDE DEF r
<1>5. Whole(r, v) /\ r.l.limit = list.limit /\ Values(r, v) = Put(Items, Len(Items) + 1, d)
  BY <1>1, <1>4, StructIs DEF Grown
<1>6. Put(Items, Len(Items) + 1, d) = Append(Items, d)
  BY <1>1, AppendIs
<1> HIDE DEF v
<1>7. /\ ListInv' /\ Items' = Append(Items, d) /\ Position(found)' = 0
      /\ list'.limit = list.limit /\ call' = <<"add", d>>
  <2>1. /\ ListInv' /\ Items' = Values(r, v) /\ Position(found)' = 0
        /\ list'.limit = list.limit /\ call' = <<"add", d>>
    BY <1>2, <1>5, CommitIs
  <2> QED
    BY <1>5, <1>6, <2>1
<1>8. Sequence!Changed(IF list.limit = -1 \/ Len(Items) < list.limit THEN Append(Items, d) ELSE Items)
  BY <1>3, <1>7 DEF Sequence!Changed
<1> QED
  BY <1>7, <1>8 DEF Sequence!Add

LEMMA EnqueueStep ==
    ASSUME ListInv, NEW n \in Nodes, NEW d \in Data, queue_enqueue(n, d)
    PROVE  ListInv' /\ Sequence!Add(d)
<1> DEFINE w == Walk(Struct, list.head)
           r == Enqueued(create_node(Struct, n, d), n)
           v == Put(w, Len(w) + 1, n)
           room == Len(w) < list.limit \/ list.limit = -1
<1>1. /\ Whole(Struct, w) /\ Items = Values(Struct, w) /\ Items \in Seq(Data) /\ Len(Items) = Len(w)
  BY NowIs
<1>2. n \notin DOMAIN node /\ Commit(r, <<"add", d>>)
  BY DEF queue_enqueue
<1> HIDE DEF w
<1>3. IF room THEN Grown(Struct, r, w, Len(w) + 1, n, d) ELSE r.l = list /\ r.n = node
  <2>1. n \notin DOMAIN Struct.n
    BY <1>2, StructIs
  <2>2. IF Len(w) < Struct.l.limit \/ Struct.l.limit = -1 THEN Grown(Struct, r, w, Len(w) + 1, n, d)
        ELSE r.l = Struct.l /\ r.n = Struct.n
    BY <1>1, <2>1, EnqueuedIs
  <2> HIDE DEF r
  <2> QED
    BY <2>2, StructIs
<1> HIDE DEF r
<1>4. CASE room
  <2>1. Whole(r, v) /\ r.l.limit = list.limit /\ Values(r, v) = Put(Items, Len(Items) + 1, d)
    BY <1>1, <1>3, <1>4, StructIs DEF Grown
  <2>2. Put(Items, Len(Items) + 1, d) = Append(Items, d)
    BY <1>1, AppendIs
  <2> HIDE DEF v
  <2>3. /\ ListInv' /\ Items' = Values(r, v) /\ Position(found)' = 0
        /\ list'.limit = list.limit /\ call' = <<"add", d>>
    BY <1>2, <2>1, CommitIs
  <2>4. Sequence!Changed(IF list.limit = -1 \/ Len(Items) < list.limit THEN Append(Items, d) ELSE Items)
    BY <1>1, <1>4, <2>1, <2>2, <2>3 DEF Sequence!Changed
  <2> QED
    BY <2>3, <2>4 DEF Sequence!Add
<1>5. CASE ~room
  <2>1. Commit(Struct, <<"add", d>>)
    BY <1>2, <1>3, <1>5, StructIs DEF Commit
  <2>2. /\ ListInv' /\ Items' = Values(Struct, w) /\ Position(found)' = 0
        /\ list'.limit = list.limit /\ call' = <<"add", d>>
    BY <1>1, <2>1, CommitIs, StructIs
  <2>3. Sequence!Changed(IF list.limit = -1 \/ Len(Items) < list.limit THEN Append(Items, d) ELSE Items)
    BY <1>1, <1>5, <2>2 DEF Sequence!Changed
  <2> QED
    BY <2>2, <2>3 DEF Sequence!Add
<1> QED
  BY <1>4, <1>5

LEMMA InsertStep ==
    ASSUME ListInv, NEW n \in Nodes, NEW d \in Data, NEW i \in 0..Cardinality(Nodes),
           linked_list_insert_at_index(n, d, i)
    PROVE  ListInv' /\ Sequence!Insert(d, i)
<1> DEFINE w == Walk(Struct, list.head)
           r == Inserted(create_node(Struct, n, d), n, i)
           k == IF i < Len(w) THEN i + 1 ELSE Len(w) + 1
           v == Put(w, k, n)
<1>1. /\ Whole(Struct, w) /\ Items = Values(Struct, w) /\ Items \in Seq(Data) /\ Len(Items) = Len(w)
      /\ Len(w) \in Nat /\ list.length = Len(w)
  BY NowIs
<1>2. /\ n \notin DOMAIN node /\ Commit(r, <<"insert", d, i>>) /\ (i = 0 \/ list.length > 0)
  BY DEF linked_list_insert_at_index
<1>3. i \in Nat
  BY NowIs
<1> HIDE DEF w
<1>4. Grown(Struct, r, w, k, n, d)
  BY <1>1, <1>2, <1>3, InsertedIs, StructIs
<1>5. k \in 1..(Len(w) + 1) /\ k = (IF i < Len(Items) THEN i + 1 ELSE Len(Items) + 1)
  BY <1>1, <1>3
<1> HIDE DEF r, k
<1>6. Whole(r, v) /\ r.l.limit = list.limit /\ Values(r, v) = Put(Items, k, d)
  BY <1>1, <1>4, StructIs DEF Grown
<1>7. Put(Items, k, d) = InsertAt(Items, k, d)
  BY <1>1, <1>5, InsertAtIs
<1> HIDE DEF v
<1>8. /\ ListInv' /\ Items' = Values(r, v) /\ Position(found)' = 0
      /\ list'.limit = list.limit /\ call' = <<"insert", d, i>>
  BY <1>2, <1>6, CommitIs
<1>9. Items' = InsertAt(Items, IF i < Len(Items) THEN i + 1 ELSE Len(Items) + 1, d)
  BY <1>5, <1>6, <1>7, <1>8
<1>10. Sequence!Changed(Sequence!InsertAt(Items, IF i < Len(Items) THEN i + 1 ELSE Len(Items) + 1, d))
  BY <1>8, <1>9, SameHelpers DEF Sequence!Changed
<1> QED
  BY <1>8, <1>10 DEF Sequence!Insert

\* The node in position i + 1 leaves the chain.
LEMMA TakeOne ==
    ASSUME ListInv, NEW r, NEW i, NEW w, w = Walk(Struct, list.head), i + 1 \in 1..Len(w), i \in Nat,
           CutAt(Struct, r, w, i + 1), Commit(r, <<"take", i>>)
    PROVE  ListInv' /\ Sequence!Take(i)
<1>1. /\ Whole(Struct, w) /\ Items = Values(Struct, w) /\ Items \in Seq(Data) /\ Len(Items) = Len(w)
      /\ Len(w) \in Nat
  BY NowIs
<1> DEFINE k == i + 1
           v == Cut(w, k)
<1>2. k \in 1..Len(w) /\ i < Len(Items)
  BY <1>1
<1>3. CutAt(Struct, r, w, k)
  OBVIOUS
<1> HIDE DEF k
<1>4. Shrunk(Struct, r, w, k)
  BY <1>1, <1>2, <1>3, ShrunkIs
<1>5. Whole(r, v) /\ r.l.limit = list.limit /\ Values(r, v) = Cut(Items, k)
  BY <1>1, <1>4, StructIs DEF Shrunk
<1>6. Cut(Items, k) = RemoveAt(Items, k)
  BY <1>1, <1>2, RemoveAtIs
<1> HIDE DEF v
<1>7. /\ ListInv' /\ Items' = Values(r, v) /\ Position(found)' = 0
      /\ list'.limit = list.limit /\ call' = <<"take", i>>
  BY <1>5, CommitIs
<1>8. Sequence!Changed(IF i < Len(Items) THEN Sequence!RemoveAt(Items, i + 1) ELSE Items)
  BY <1>2, <1>5, <1>6, <1>7, SameHelpers DEF Sequence!Changed, k
<1> QED
  BY <1>7, <1>8 DEF Sequence!Take

\* A call that finds no node to take.
LEMMA TakeNone ==
    ASSUME ListInv, NEW i, ~(i < Len(Items)), Commit(Struct, <<"take", i>>)
    PROVE  ListInv' /\ Sequence!Take(i)
<1> DEFINE w == Walk(Struct, list.head)
<1>1. Whole(Struct, w) /\ Items = Values(Struct, w)
  BY NowIs
<1> HIDE DEF w
<1>2. /\ ListInv' /\ Items' = Values(Struct, w) /\ Position(found)' = 0
      /\ list'.limit = list.limit /\ call' = <<"take", i>>
  BY <1>1, CommitIs, StructIs
<1>3. Sequence!Changed(IF i < Len(Items) THEN Sequence!RemoveAt(Items, i + 1) ELSE Items)
  BY <1>1, <1>2 DEF Sequence!Changed
<1> QED
  BY <1>2, <1>3 DEF Sequence!Take

LEMMA RemoveStep ==
    ASSUME ListInv, NEW n \in Nodes, linked_list_remove(n)
    PROVE  ListInv' /\ \E i \in 0..Cardinality(Nodes) : Sequence!Take(i)
<1> DEFINE w == Walk(Struct, list.head)
           at == IndexOf(w, n)
           N == Cardinality(Nodes)
<1>1. /\ Whole(Struct, w) /\ Linked(Struct, w) /\ Len(Items) = Len(w) /\ list.length = Len(w)
      /\ Len(w) \in Nat /\ N \in Nat /\ Len(w) <= N
  BY NowIs
<1>2. Commit(IF at > 0 THEN Removed(Struct, n) ELSE Struct,
             <<"take", IF at > 0 THEN at - 1 ELSE list.length>>)
  BY DEF linked_list_remove
<1>3. w = Walk(Struct, list.head)
  OBVIOUS
<1> HIDE DEF w, N
<1>4. CASE n \in Range(w)
  <2> DEFINE i == at - 1
             r == Removed(Struct, n)
  <2>1. at \in 1..Len(w) /\ w[at] = n
    BY <1>1, <1>4, IndexIs
  <2> HIDE DEF at
  <2>2. i + 1 = at /\ at > 0 /\ i \in Nat /\ i \in 0..N
    BY <1>1, <2>1
  <2>3. CutAt(Struct, r, w, at)
    BY <1>1, <2>1, RemovedIs
  <2>4. Commit(r, <<"take", i>>)
    BY <1>2, <2>2
  <2> HIDE DEF i, r
  <2>5. i + 1 \in 1..Len(w) /\ CutAt(Struct, r, w, i + 1)
    BY <2>1, <2>2, <2>3
  <2>6. ListInv' /\ Sequence!Take(i)
    BY <1>3, <2>2, <2>4, <2>5, TakeOne
  <2> QED
    BY <2>2, <2>6 DEF N
<1>5. CASE n \notin Range(w)
  <2>1. at = 0
    BY <1>1, <1>5, IndexIs
  <2> HIDE DEF at
  <2>2. Commit(Struct, <<"take", Len(w)>>)
    BY <1>1, <1>2, <2>1
  <2>3. ~(Len(w) < Len(Items)) /\ Len(w) \in 0..N
    BY <1>1
  <2>4. ListInv' /\ Sequence!Take(Len(w))
    BY <2>2, <2>3, TakeNone
  <2> QED
    BY <2>3, <2>4 DEF N
<1> QED
  BY <1>4, <1>5

LEMMA RemoveAtStep ==
    ASSUME ListInv, NEW j \in 0..Cardinality(Nodes), linked_list_remove_at_index(j - 1)
    PROVE  ListInv' /\ \E i \in 0..Cardinality(Nodes) : Sequence!Take(i)
<1> DEFINE w == Walk(Struct, list.head)
           N == Cardinality(Nodes)
           i == IF j - 1 < 0 THEN 0 ELSE j - 1
           r == Removed(Struct, w[i + 1])
<1>1. /\ Whole(Struct, w) /\ Linked(Struct, w) /\ Len(Items) = Len(w) /\ list.length = Len(w)
      /\ Len(w) \in Nat /\ N \in Nat /\ Len(w) <= N
  BY NowIs
<1>2. Commit(IF j - 1 < list.length /\ list.head # Null THEN r ELSE Struct, <<"take", i>>)
  BY DEF linked_list_remove_at_index
<1>3. w = Walk(Struct, list.head)
  OBVIOUS
<1>4. j \in Nat /\ j <= N
  BY <1>1
<1> HIDE DEF w, N
<1>5. list.head # Null <=> Len(w) # 0
  <2>1. list.head = IF Len(w) = 0 THEN Null ELSE w[1]
    BY <1>1, StructIs DEF Linked, Ends
  <2>2. Len(w) # 0 => 1 \in 1..Len(w)
    BY <1>1
  <2> QED
    BY <1>1, <2>1, <2>2, LinkedFacts
<1>6. /\ i \in Nat /\ i \in 0..N
      /\ j - 1 < list.length /\ list.head # Null <=> i < Len(w)
  <2>1. i \in Nat /\ i \in 0..N
    BY <1>1, <1>4
  <2>2. j - 1 < Len(w) /\ Len(w) # 0 <=> i < Len(w)
    <3>1. \A L \in Nat : j - 1 < L /\ L # 0 <=> i < L
      BY <1>4
    <3> QED
      BY <1>1, <3>1, Zenon
  <2> QED
    BY <1>1, <1>5, <2>1, <2>2, Zenon
<1> HIDE DEF i
<1>7. CASE i < Len(w)
  <2>1. Commit(r, <<"take", i>>)
    BY <1>2, <1>6, <1>7
  <2>2. i + 1 \in 1..Len(w)
    BY <1>1, <1>6, <1>7
  <2>3. CutAt(Struct, r, w, i + 1)
    <3> DEFINE k == i + 1
    <3>1. k \in 1..Len(w)
      BY <2>2
    <3> HIDE DEF k
    <3>2. CutAt(Struct, Removed(Struct, w[k]), w, k)
      BY <1>1, <3>1, RemovedIs
    <3> QED
      BY <3>2 DEF k
  <2> HIDE DEF r
  <2>4. ListInv' /\ Sequence!Take(i)
    BY <1>3, <1>6, <2>1, <2>2, <2>3, TakeOne
  <2> QED
    BY <1>6, <2>4 DEF N
<1>8. CASE ~(i < Len(w))
  <2>1. Commit(Struct, <<"take", i>>)
    BY <1>2, <1>6, <1>8
  <2>2. ListInv' /\ Sequence!Take(i)
    BY <1>1, <1>8, <2>1, TakeNone
  <2> QED
    BY <1>6, <2>2 DEF N
<1> QED
  BY <1>7, <1>8

LEMMA DequeueStep ==
    ASSUME ListInv, queue_dequeue
    PROVE  ListInv' /\ \E i \in 0..Cardinality(Nodes) : Sequence!Take(i)
<1> DEFINE w == Walk(Struct, list.head)
           N == Cardinality(Nodes)
           s == Struct
           u == IF list.head = list.tail /\ list.length = 1
                THEN [s EXCEPT !.l.head = Null, !.l.tail = Null]
                ELSE [s EXCEPT !.l.head = node[list.head].next, !.n[node[list.head].next].previous = Null]
<1>1. /\ Whole(s, w) /\ Linked(s, w) /\ Len(w) \in Nat /\ N \in Nat /\ Len(w) <= N
  BY NowIs
<1>2. list.head # Null /\ Commit(Unlinked(u, list.head), <<"take", 0>>)
  BY DEF queue_dequeue, Unlinked
<1>3. w = Walk(Struct, list.head) /\ s = Struct
  OBVIOUS
<1>a. s.l = list /\ s.n = node
  BY StructIs
<1> HIDE DEF w, N, s
<1>4. Len(w) >= 1
  <2>1. list.head = IF Len(w) = 0 THEN Null ELSE w[1]
    BY <1>1, <1>a DEF Linked, Ends
  <2> QED
    BY <1>1, <1>2, <2>1
<1>5. u = IF s.l.head = s.l.tail /\ s.l.length = 1
          THEN [s EXCEPT !.l.head = Null, !.l.tail = Null]
          ELSE [s EXCEPT !.l.head = s.n[s.l.head].next, !.n[s.n[s.l.head].next].previous = Null]
  BY <1>a
<1> HIDE DEF u
<1>6. CutAt(s, Unlinked(u, list.head), w, 1)
  <2>1. CutAt(s, Unlinked(u, s.l.head), w, 1)
    BY <1>1, <1>4, <1>5, DequeuedIs
  <2> QED
    BY <1>a, <2>1
<1>7. 0 + 1 = 1 /\ 0 + 1 \in 1..Len(w) /\ 0 \in Nat /\ 0 \in 0..N
  BY <1>1, <1>4
<1> DEFINE r == Unlinked(u, list.head)
           z == 0
<1>8. Commit(r, <<"take", z>>) /\ z + 1 \in 1..Len(w) /\ z \in Nat /\ z \in 0..N /\ CutAt(Struct, r, w, z + 1)
  BY <1>2, <1>3, <1>6, <1>7
<1> HIDE DEF r, z
<1>9. ListInv' /\ Sequence!Take(z)
  BY <1>3, <1>8, TakeOne
<1> QED
  BY <1>8, <1>9 DEF N

LEMMA ForceRemoveStep ==
    ASSUME ListInv, NEW d \in Data, queue_force_remove(d)
    PROVE  ListInv' /\ Sequence!TakeEvery(d)
<1> DEFINE w == Walk(Struct, list.head)
           L == Len(w)
           F == CHOOSE F : F = [i \in 0..L |-> ForceStep(Struct, w, d, F, i)]
           O == CHOOSE O : O = [i \in 0..Len(Items) |-> OthersStep(Items, d, O, i)]
<1>1. /\ Whole(Struct, w) /\ Items = Values(Struct, w) /\ Len(Items) = L /\ L \in Nat
  BY NowIs
<1>2. Commit(F[L], <<"take every", d>>)
  BY Zenon DEF queue_force_remove, ForceStep
<1>3. Sequence!Others(d) = O[Len(Items)]
  BY Zenon DEF Sequence!Others, OthersStep
<1> HIDE DEF w, L
<1>4. F = [i \in 0..L |-> ForceStep(Struct, w, d, F, i)]
  <2>1. L \in Nat
    BY <1>1
  <2>2. \E E : Forces(Struct, w, d, L, E)
    BY <2>1, ForceExists
  <2>3. \E E : E = [i \in 0..L |-> ForceStep(Struct, w, d, E, i)]
    BY <2>2, Zenon DEF Forces
  <2> QED
    BY <2>3, Zenon
<1>5. O = [i \in 0..Len(Items) |-> OthersStep(Items, d, O, i)]
  <2>1. Len(Items) \in Nat
    BY <1>1
  <2> QED
    BY <2>1, OthersExists, Zenon
<1> HIDE DEF F, O
<1>6. PICK c : Whole(F[L], c) /\ Values(F[L], c) = O[L] /\ F[L].l.limit = list.limit
  <2>1. F = [i \in 0..Len(w) |-> ForceStep(Struct, w, d, F, i)]
    BY <1>4 DEF L
  <2>2. O = [i \in 0..Len(w) |-> OthersStep(Values(Struct, w), d, O, i)]
    BY <1>1, <1>5 DEF L
  <2>3. \E c : /\ Whole(F[Len(w)], c) /\ Values(F[Len(w)], c) = O[Len(w)]
               /\ F[Len(w)].l.limit = Struct.l.limit
    BY <1>1, <2>1, <2>2, ForceLoop, SMTT(30)
  <2> QED
    BY <2>3, StructIs DEF L
<1> DEFINE r == F[L]
<1>7. Whole(r, c) /\ r.l.limit = list.limit /\ Commit(r, <<"take every", d>>) /\ Values(r, c) = O[L]
  BY <1>2, <1>6
<1> HIDE DEF r
<1>8. /\ ListInv' /\ Items' = Values(r, c) /\ Position(found)' = 0
      /\ list'.limit = list.limit /\ call' = <<"take every", d>>
  BY <1>7, CommitIs
<1>9. Items' = Sequence!Others(d)
  BY <1>1, <1>3, <1>7, <1>8
<1>10. Sequence!Changed(Sequence!Others(d))
  BY <1>8, <1>9 DEF Sequence!Changed
<1> QED
  BY <1>8, <1>10 DEF Sequence!TakeEvery

\* A structure without nodes.
LEMMA EmptyIs ==
    ASSUME NEW s, DOMAIN s = {"l", "n"}, s.l \in ListRec, s.l.head = Null, s.l.tail = Null,
           s.l.length = 0, s.n \in [{} -> NodeRec]
    PROVE  Whole(s, << >>) /\ Values(s, << >>) = << >>
<1>1. << >> \in Seq(Nodes) /\ Len(<< >>) = 0 /\ << >> \in Seq(Data)
  OBVIOUS
<1> DEFINE e == << >>
<1>2. e \in Seq(Nodes) /\ Len(e) = 0 /\ e \in Seq(Data)
  BY <1>1
<1> HIDE DEF e
<1>3. DOMAIN s.n = {}
  OBVIOUS
<1>4. Shape(s)
  BY <1>3 DEF Shape
<1>5. \A i : i \notin 1..Len(e)
  BY <1>2
<1>6. Linked(s, e)
  BY <1>2, <1>4, <1>5 DEF Linked, Distinct, Ends, Links
<1>7. Whole(s, e)
  BY <1>3, <1>6 DEF Whole
<1>8. Values(s, e) \in Seq(Data) /\ Len(Values(s, e)) = 0
  BY <1>2, <1>6, ValuesIs
<1>9. Values(s, e) = e
  BY <1>2, <1>5, <1>8, SeqEqual
<1> QED
  BY <1>7, <1>9 DEF e

LEMMA DestroyStep ==
    ASSUME ListInv, linked_list_destroy
    PROVE  ListInv' /\ Sequence!Destroy
<1> DEFINE w == Walk(Struct, list.head)
           r == [l |-> [list EXCEPT !.head = Null, !.tail = Null, !.length = 0],
                 n |-> [m \in DOMAIN node \ Range(w) |-> node[m]]]
<1>1. Whole(Struct, w) /\ Linked(Struct, w)
  BY NowIs
<1>2. Commit(r, <<"destroy">>)
  BY DEF linked_list_destroy
<1> HIDE DEF w
<1>3. Range(w) = DOMAIN node
  BY <1>1, WholeChain, StructIs
<1>4. list \in ListRec /\ Null \in Ptr /\ 0 \in Int
  BY <1>1, LinkedFacts, StructIs DEF Ptr
<1>5. DOMAIN r = {"l", "n"} /\ r.l = Resize(list, Null, Null, 0)
  BY DEF Resize
<1>6. r.n = [m \in {} |-> node[m]]
  BY <1>3
<1> HIDE DEF r
<1>7. r.l \in ListRec /\ r.l.head = Null /\ r.l.tail = Null /\ r.l.length = 0 /\ r.l.limit = list.limit
  BY <1>4, <1>5, Resized
<1>8. r.n \in [{} -> NodeRec]
  BY <1>6
<1>9. Whole(r, << >>) /\ Values(r, << >>) = << >>
  BY <1>5, <1>7, <1>8, EmptyIs
<1>10. /\ ListInv' /\ Items' = Values(r, << >>) /\ Position(found)' = 0
       /\ list'.limit = list.limit /\ call' = <<"destroy">>
  BY <1>2, <1>7, <1>9, CommitIs
<1>11. Sequence!Changed(<< >>)
  BY <1>9, <1>10 DEF Sequence!Changed
<1> QED
  BY <1>10, <1>11 DEF Sequence!Destroy

\* A search leaves the chain alone and returns a position in it.
LEMMA SearchIs ==
    ASSUME ListInv, NEW n, NEW c, Search(n, c), NEW i,
           i = IndexOf(Walk(Struct, list.head), n)
    PROVE  ListInv' /\ Sequence!Returned(i) /\ call' = c
<1>1. found' = n /\ call' = c /\ kind' = kind /\ list' = list /\ node' = node
  BY DEF Search
<1>2. Struct' = Struct
  BY <1>1 DEF Struct
<1>3. Walk(Struct', list'.head) = Walk(Struct, list.head)
  BY <1>1, <1>2
<1>4. ListInv'
  BY <1>1, <1>2, <1>3 DEF ListInv
<1>5. Items' = Items
  BY <1>1, <1>3 DEF Items
<1>6. Position(found)' = i
  BY <1>1, <1>3 DEF Position
<1>7. Sequence!Returned(i)
  BY <1>1, <1>5, <1>6 DEF Sequence!Returned
<1> QED
  BY <1>1, <1>4, <1>7

\* The first node with data d is in the first position at which d is stored.
LEMMA FirstIs ==
    ASSUME ListInv, NEW d
    PROVE  IndexOf(Walk(Struct, list.head), FirstNode({n \in DOMAIN node : node[n].data = d}))
             = Sequence!FirstOf(d)
<1> DEFINE w == Walk(Struct, list.head)
           S == {n \in DOMAIN node : node[n].data = d}
           H == {i \in DOMAIN w : w[i] \in S}
           T == {i \in 1..Len(w) : Items[i] = d}
           best == CHOOSE i \in H : \A j \in H : i <= j
<1>1. /\ Whole(Struct, w) /\ Linked(Struct, w) /\ Len(w) \in Nat
      /\ Items \in Seq(Data) /\ Len(Items) = Len(w)
      /\ \A i \in 1..Len(w) : Items[i] = node[w[i]].data
  BY NowIs
<1>2. FirstNode(S) = IF H = {} THEN Null ELSE w[best]
  BY DEF FirstNode
<1> HIDE DEF w
<1>3. DOMAIN w = 1..Len(w) /\ (\A i \in 1..Len(w) : w[i] \in DOMAIN node) /\ DOMAIN Items = 1..Len(w)
  BY <1>1, LinkedFacts, StructIs, SeqIs
<1>4. H = T
  BY <1>1, <1>3
<1>5. Sequence!Range(Items) = {Items[i] : i \in 1..Len(w)}
  BY <1>3 DEF Sequence!Range
<1>6. d \in Sequence!Range(Items) <=> T # {}
  BY <1>5
<1> HIDE DEF S, H, best
<1>7. CASE T = {}
  <2>1. Sequence!FirstOf(d) = 0
    BY <1>6, <1>7 DEF Sequence!FirstOf
  <2>2. FirstNode(S) = Null
    BY <1>2, <1>4, <1>7
  <2> QED
    BY <1>1, <2>1, <2>2, IndexIs DEF w, S
<1>8. CASE T # {}
  <2> DEFINE G(i) == Items[i] = d /\ \A j \in 1..(i - 1) : Items[j] # d
             f == CHOOSE i \in DOMAIN Items : G(i)
  <2>1. T \in SUBSET Nat
    BY <1>1
  <2>2. PICK x \in T : \A y \in T : x <= y
    <3> HIDE DEF T
    <3> QED
      BY <1>8, <2>1, Q!LeastElement
  <2>3. best \in T /\ \A j \in T : best <= j
    <3> HIDE DEF T
    <3>1. best = CHOOSE i \in T : \A j \in T : i <= j
      BY <1>4 DEF best
    <3> QED
      BY <2>2, <3>1
  <2>4. Sequence!FirstOf(d) = f
    BY <1>6, <1>8 DEF Sequence!FirstOf
  <2>5. best \in 1..Len(w) /\ Items[best] = d /\ best \in Nat
    BY <1>1, <2>3
  <2>6. G(best)
    <3>1. ASSUME NEW j \in 1..(best - 1), Items[j] = d PROVE FALSE
      <4>1. j \in T /\ ~(best <= j)
        BY <1>1, <2>5, <3>1
      <4> QED
        BY <2>3, <4>1
    <3> QED
      BY <2>5, <3>1
  <2>7. f \in 1..Len(w) /\ G(f)
    <3> HIDE DEF G
    <3> QED
      BY <1>3, <2>5, <2>6
  <2> HIDE DEF f
  <2>8. f \in T
    BY <2>7
  <2>9. best <= f
    BY <2>3, <2>8
  <2>10. ~(best < f)
    <3>1. ASSUME best < f PROVE FALSE
      <4>1. best \in 1..(f - 1)
        BY <1>1, <2>5, <2>7, <3>1
      <4> QED
        BY <2>5, <2>7, <4>1
    <3> QED
      BY <3>1
  <2>11. best = f
    BY <1>1, <2>5, <2>7, <2>9, <2>10
  <2>12. FirstNode(S) = w[best]
    BY <1>2, <1>4, <1>8
  <2>13. IndexOf(w, w[best]) = best
    BY <1>1, <2>5, IndexIs
  <2> QED
    BY <2>4, <2>11, <2>12, <2>13 DEF w, S
<1> QED
  BY <1>7, <1>8

LEMMA FindStep ==
    ASSUME ListInv, NEW d \in Data, linked_list_find(d)
    PROVE  ListInv' /\ Sequence!Search(d)
<1>1. Search(FirstNode({n \in DOMAIN node : node[n].data = d}), <<"search", d>>)
  BY DEF linked_list_find
<1>2. IndexOf(Walk(Struct, list.head), FirstNode({n \in DOMAIN node : node[n].data = d}))
        = Sequence!FirstOf(d)
  BY FirstIs
<1> DEFINE f == FirstNode({n \in DOMAIN node : node[n].data = d})
<1>3. Search(f, <<"search", d>>) /\ Sequence!FirstOf(d) = IndexOf(Walk(Struct, list.head), f)
  BY <1>1, <1>2
<1> HIDE DEF f
<1>4. ListInv' /\ Sequence!Returned(Sequence!FirstOf(d)) /\ call' = <<"search", d>>
  BY <1>3, SearchIs
<1> QED
  BY <1>4 DEF Sequence!Search

LEMMA IndexOfStep ==
    ASSUME ListInv, NEW n \in Nodes, linked_list_index_of(n)
    PROVE  ListInv' /\ \E d \in Data : Sequence!Search(d)
<1> DEFINE d == node[n].data
           S == {m \in DOMAIN node : node[m].data = d}
           f == FirstNode(S)
<1>1. n \in DOMAIN node
      /\ Search(FirstNode({m \in DOMAIN node : m = n \/ node[m].data = node[n].data}),
                <<"search", node[n].data>>)
  BY DEF linked_list_index_of
<1>2. {m \in DOMAIN node : m = n \/ node[m].data = node[n].data} = S
  OBVIOUS
<1>3. Search(f, <<"search", d>>)
  BY <1>1, <1>2
<1>4. node[n] \in NodeRec
  <2>1. \A m \in DOMAIN Struct.n : Struct.n[m] \in NodeRec
    BY NowIs, LinkedFacts
  <2> QED
    BY <1>1, <2>1, StructIs
<1>5. d \in Data
  BY <1>4 DEF NodeRec
<1> HIDE DEF d
<1>6. Sequence!FirstOf(d) = IndexOf(Walk(Struct, list.head), f)
  BY FirstIs
<1> HIDE DEF f, S
<1>7. ListInv' /\ Sequence!Returned(Sequence!FirstOf(d)) /\ call' = <<"search", d>>
  BY <1>3, <1>6, SearchIs
<1>8. Sequence!Search(d)
  BY <1>7 DEF Sequence!Search
<1> QED
  BY <1>5, <1>7, <1>8

LEMMA GetStep ==
    ASSUME ListInv, NEW i \in 0..Cardinality(Nodes), linked_list_get_at(i)
    PROVE  ListInv' /\ Sequence!Fetch(i)
<1> DEFINE w == Walk(Struct, list.head)
           n == IF i < Len(w) THEN w[i + 1] ELSE Null
           p == IF i < Len(Items) THEN i + 1 ELSE 0
<1>1. /\ Whole(Struct, w) /\ Len(w) \in Nat /\ Len(Items) = Len(w) /\ i \in Nat
  BY NowIs
<1>2. Search(n, <<"fetch", i>>)
  BY DEF linked_list_get_at
<1>3. w = Walk(Struct, list.head)
  OBVIOUS
<1> HIDE DEF w
<1>4. p = IndexOf(w, n)
  <2>1. i < Len(w) => i + 1 \in 1..Len(w)
    BY <1>1
  <2>2. /\ IndexOf(w, Null) = 0 /\ \A j \in 1..Len(w) : IndexOf(w, w[j]) = j
    BY <1>1, IndexIs
  <2> QED
    BY <1>1, <2>1, <2>2
<1> HIDE DEF n, p
<1>5. ListInv' /\ Sequence!Returned(p) /\ call' = <<"fetch", i>>
  BY <1>2, <1>3, <1>4, SearchIs
<1> QED
  BY <1>5 DEF Sequence!Fetch, p

-----------------------------------------------------------------------------
LEMMA InitIs ==
    ListsInit => ListInv /\ Sequence!Init
<1> SUFFICES ASSUME ListsInit PROVE ListInv /\ Sequence!Init
  OBVIOUS
<1>1. PICK m \in Limits \cup {-1} :
        /\ list = [head |-> Null, tail |-> Null, length |-> 0, limit |-> m]
        /\ kind # "queue" => m = -1
  BY DEF ListsInit
<1>2. node = << >> /\ call = << >> /\ found = Null
  BY DEF ListsInit
<1>3. m \in Int /\ Null \in Ptr
  BY ListsAssumption DEF ListsAssumption, Ptr
<1>4. list \in ListRec /\ list.head = Null /\ list.tail = Null /\ list.length = 0 /\ list.limit = m
  BY <1>1, <1>3 DEF ListRec
<1>5. node \in [{} -> NodeRec]
  BY <1>2
<1>6. Whole(Struct, << >>) /\ Values(Struct, << >>) = << >>
  BY <1>4, <1>5, StructIs, EmptyIs
<1>7. Walk(Struct, list.head) = << >>
  BY <1>6, WholeChain, StructIs
<1>8. ListInv
  BY <1>1, <1>4, <1>6, <1>7 DEF ListInv
<1>9. Items = << >>
  BY <1>6, <1>7, <1>8, NowIs
<1>10. Position(found) = 0
  BY <1>2, <1>6, <1>7, IndexIs DEF Position
<1> QED
  BY <1>1, <1>2, <1>4, <1>8, <1>9, <1>10 DEF Sequence!Init

LEMMA NextIs ==
    ListInv /\ [ListsNext]_lvars
      => ListInv' /\ [Sequence!Next]_<<Items, list.limit, call, Position(found)>>
<1> DEFINE Good == ListInv' /\ [Sequence!Next]_<<Items, list.limit, call, Position(found)>>
<1> SUFFICES ASSUME ListInv, [ListsNext]_lvars PROVE Good
  OBVIOUS
<1>1. ASSUME NEW n \in Nodes, NEW d \in Data, linked_list_append(n, d) \/ queue_enqueue(n, d) PROVE Good
  BY <1>1, AppendStep, EnqueueStep DEF Sequence!Next
<1>2. ASSUME NEW n \in Nodes, NEW d \in Data, NEW i \in 0..Cardinality(Nodes),
             linked_list_insert_at_index(n, d, i)
      PROVE  Good
  BY <1>2, InsertStep DEF Sequence!Next
<1>3. ASSUME NEW n \in Nodes, linked_list_remove(n) \/ linked_list_index_of(n) PROVE Good
  BY <1>3, RemoveStep, IndexOfStep DEF Sequence!Next
<1>4. ASSUME NEW i \in 0..Cardinality(Nodes), linked_list_remove_at_index(i - 1) \/ linked_list_get_at(i)
      PROVE  Good
  BY <1>4, RemoveAtStep, GetStep DEF Sequence!Next
<1>5. ASSUME NEW d \in Data, linked_list_find(d) \/ queue_force_remove(d) PROVE Good
  BY <1>5, FindStep, ForceRemoveStep DEF Sequence!Next
<1>6. ASSUME linked_list_destroy \/ queue_dequeue PROVE Good
  BY <1>6, DestroyStep, DequeueStep DEF Sequence!Next
<1>7. ASSUME UNCHANGED lvars PROVE Good
  <2>1. Struct' = Struct /\ list' = list /\ node' = node /\ kind' = kind /\ call' = call /\ found' = found
    BY <1>7 DEF lvars, Struct
  <2>2. Walk(Struct', list'.head) = Walk(Struct, list.head)
    BY <2>1
  <2>3. ListInv'
    BY <2>1, <2>2 DEF ListInv
  <2>4. Items' = Items /\ Position(found)' = Position(found)
    BY <2>1, <2>2 DEF Items, Position
  <2> QED
    BY <2>1, <2>3, <2>4
<1> HIDE DEF Good
<1> QED
  BY <1>1, <1>2, <1>3, <1>4, <1>5, <1>6, <1>7, Zenon DEF ListsNext

LEMMA InvChained ==
    ListInv => Chained
<1> SUFFICES ASSUME ListInv PROVE Chained
  OBVIOUS
<1> DEFINE w == Walk(Struct, list.head)
<1>1. Whole(Struct, w)
  BY DEF ListInv
<1>2. /\ WalkBack(Struct, list.tail) = Reverse(w) /\ Len(w) = list.length /\ Range(w) = DOMAIN node
  <2> HIDE DEF w
  <2> QED
    BY <1>1, WholeChain, StructIs
<1> QED
  BY <1>2 DEF Chained

\* Lists and queues behave as sequences: whatever the number of nodes, the
\* data and the limits, every call of linked_list.c, liblist.c and queue.c does
\* to the data, and every search returns, what AbstractList says, and the nodes
\* always form one chain in both directions, with as many nodes as the length
\* says and none leaked or freed twice.
THEOREM SequencesImplemented == ListsSpec => SequenceSpec
<1>1. ListsInit => ListInv /\ Sequence!Init
  BY InitIs
<1>2. ListInv /\ [ListsNext]_lvars
        => ListInv' /\ [Sequence!Next]_<<Items, list.limit, call, Position(found)>>
  BY NextIs
<1>3. ListInv => Chained
  BY InvChained
<1> QED
  BY <1>1, <1>2, <1>3, PTL DEF ListsSpec, SequenceSpec, Sequence!Spec

-----------------------------------------------------------------------------
(* Physical memory.                                                        *)

\* The multiples of a page.
LEMMA MultipleIs ==
    ASSUME NEW p \in Nat \ {0}, NEW k \in Nat
    PROVE  p * k \in Nat /\ (p * k) \div p = k /\ (p * k) % p = 0
<1>1. p * k + 0 = p * k /\ p * k \in Nat
  OBVIOUS
<1>2. 0 \in Nat /\ 0 < p
  OBVIOUS
<1>3. (p * k + 0) \div p = k /\ (p * k + 0) % p = 0
  BY <1>2, Q!DivMod
<1> QED
  BY <1>1, <1>3

LEMMA Divided ==
    ASSUME NEW p \in Nat \ {0}, NEW a \in Nat
    PROVE  /\ a \div p \in Nat /\ p * (a \div p) \in Nat /\ p * (a \div p) <= a
           /\ a % p \in 0..(p - 1) /\ a = p * (a \div p) + (a % p)
<1> DEFINE d == a \div p
           m == a % p
<1>1. d \in Nat /\ m \in 0..(p - 1) /\ a = p * d + m
  OBVIOUS
<1> HIDE DEF d, m
<1>2. \A x, y \in Nat : x * y \in Nat
  OBVIOUS
<1>3. p * d \in Nat
  BY <1>1, <1>2
<1>4. p * d <= a
  <2> DEFINE e == p * d
  <2>1. e \in Nat /\ a = e + m /\ m \in Nat
    BY <1>1, <1>3
  <2> HIDE DEF e
  <2>2. e <= a
    BY <2>1
  <2> QED
    BY <2>2 DEF e
<1>5. d \in Nat /\ p * d \in Nat /\ p * d <= a /\ m \in 0..(p - 1) /\ a = p * d + m
  BY <1>1, <1>3, <1>4, Zenon
<1> QED
  BY ONLY <1>5 DEF d, m

LEMMA TimesMonotone ==
    ASSUME NEW p \in Nat \ {0}, NEW j \in Nat, NEW k \in Nat, j < k
    PROVE  p * j + p <= p * k /\ p * j \in Nat /\ p * k \in Nat
<1>1. PICK d \in Nat : k = j + 1 + d
  <2>1. k - j - 1 \in Nat /\ k = j + 1 + (k - j - 1)
    OBVIOUS
  <2> QED
    BY <2>1
<1>2. p * k = p * j + p + p * d /\ p * j \in Nat /\ p * d \in Nat
  BY <1>1
<1> QED
  BY <1>2

\* The frame with an index is a page of the memory the machine has, and
\* alloc_phys_addr_to_index finds its index again.
FrameIs(mem, i, f, c) ==
    /\ c \in Nat /\ f = Page * c
    /\ alloc_phys_addr_to_index(mem, f) = i
    /\ f + Page <= IF f < UpperStart THEN mem.lower ELSE UpperStart + mem.upper

LEMMA FrameOfIndex ==
    ASSUME NEW mem, mem.lower \in 0..UpperStart, mem.upper \in Nat,
           NEW i \in 0..(total_usable_pages(mem) - 1)
    PROVE  \E c : FrameIs(mem, i, alloc_phys_index_to_addr(mem, i), c)
<1> DEFINE l == mem.lower
           u == mem.upper
           m == l \div Page
           n == u \div Page
           f == alloc_phys_index_to_addr(mem, i)
<1>1. /\ Page \in Nat \ {0} /\ UpperStart \in Nat /\ l \in Nat /\ l <= UpperStart /\ u \in Nat
  BY MemoryAssumption
<1>2. m \in Nat /\ Page * m \in Nat /\ Page * m <= l /\ n \in Nat /\ Page * n \in Nat /\ Page * n <= u
  BY <1>1, Divided
<1>3. PICK h \in Nat : UpperStart = Page * h
  <2>1. UpperStart = Page * (UpperStart \div Page) + (UpperStart % Page) /\ UpperStart \div Page \in Nat
    BY <1>1, Divided
  <2>2. UpperStart = Page * (UpperStart \div Page)
    BY <1>1, <2>1, MemoryAssumption
  <2> QED
    BY <2>1, <2>2
<1>4. i \in Nat /\ i < m + n
  BY <1>2 DEF total_usable_pages, lower_pages
<1>5. f = IF i < m THEN i * Page ELSE UpperStart + (i - m) * Page
  BY DEF alloc_phys_index_to_addr, lower_pages
<1>6. \A a : alloc_phys_addr_to_index(mem, a) =
                 IF a < l THEN a \div Page ELSE IF a >= UpperStart THEN m + (a - UpperStart) \div Page ELSE -1
  BY DEF alloc_phys_addr_to_index, lower_pages
<1> HIDE DEF l, u, m, n, f
<1>7. CASE i < m
  <2>1. f = Page * i /\ (Page * i) \div Page = i
    BY <1>1, <1>4, <1>5, <1>7, MultipleIs
  <2>2. Page * i + Page <= Page * m /\ Page * i \in Nat
    BY <1>1, <1>2, <1>4, <1>7, TimesMonotone
  <2>3. f < l /\ f + Page <= l /\ f < UpperStart
    BY <1>1, <1>2, <2>1, <2>2
  <2>4. alloc_phys_addr_to_index(mem, f) = i
    BY <1>6, <2>1, <2>3
  <2>5. FrameIs(mem, i, f, i)
    BY <1>4, <2>1, <2>3, <2>4 DEF FrameIs, l
  <2> QED
    BY <2>5 DEF f
<1>8. CASE i >= m
  <2> DEFINE j == i - m
  <2>1. j \in Nat /\ j < n /\ m + j = i /\ ~(i < m)
    BY <1>2, <1>4, <1>8
  <2> HIDE DEF j
  <2>2. f = UpperStart + Page * j
    BY <1>1, <1>5, <2>1 DEF j
  <2>3. (Page * j) \div Page = j /\ Page * j + Page <= Page * n /\ Page * j \in Nat
    BY <1>1, <1>2, <2>1, MultipleIs, TimesMonotone
  <2>4. /\ ~(f < l) /\ f >= UpperStart /\ ~(f < UpperStart) /\ f - UpperStart = Page * j
        /\ f + Page <= UpperStart + u
    BY <1>1, <1>2, <2>2, <2>3
  <2>5. alloc_phys_addr_to_index(mem, f) = i
    BY <1>6, <2>1, <2>3, <2>4
  <2>6. f = Page * (h + j) /\ h + j \in Nat
    BY <1>1, <1>3, <2>1, <2>2
  <2>7. FrameIs(mem, i, f, h + j)
    BY <2>4, <2>5, <2>6 DEF FrameIs, u
  <2> QED
    BY <2>7 DEF f
<1> QED
  BY <1>2, <1>4, <1>7, <1>8

\* A page below what the kernel keeps is reserved.
LEMMA KeptIs ==
    ASSUME NEW mem, mem.lower \in 0..UpperStart, mem.upper \in Nat, NEW end \in Nat,
           NEW i, NEW f, NEW c, FrameIs(mem, i, f, c), i # -1,
           f < align_page(end) + Page + total_usable_pages(mem)
    PROVE  i \in initialise_memory(mem, end)
<1> DEFINE A == align_page(end) + Page
           T == total_usable_pages(mem)
<1>1. Page \in Nat \ {0} /\ UpperStart \in Nat /\ mem.lower \in Nat
  BY MemoryAssumption
<1>2. T \in Nat
  <2>1. mem.lower \div Page \in Nat /\ mem.upper \div Page \in Nat
    BY <1>1, Divided
  <2> QED
    BY <2>1 DEF total_usable_pages, lower_pages
<1>3. PICK e \in Nat : A = Page * e
  <2>1. end \div Page \in Nat /\ (end \div Page) * Page = Page * (end \div Page)
    BY <1>1, Divided
  <2>2. A = Page * (end \div Page + 1)
    BY <1>1, <2>1 DEF align_page
  <2> QED
    BY <2>1, <2>2
<1>4. /\ c \in Nat /\ f = Page * c /\ alloc_phys_addr_to_index(mem, f) = i /\ f < A + T
  BY DEF FrameIs
<1>5. align_page(f) = f
  <2>1. (Page * c) \div Page = c /\ c * Page = Page * c
    BY <1>1, <1>4, MultipleIs
  <2> QED
    BY <1>4, <2>1 DEF align_page
<1>6. Reserved(mem, A, A + T) \cup Reserved(mem, 0, A) = initialise_memory(mem, end)
  BY DEF initialise_memory
<1> HIDE DEF A, T
<1>7. A \in Nat /\ f \in Nat
  BY <1>1, <1>3, <1>4
<1>8. \A a, b : (f \in {y \in a..(b - 1) : (y - a) % Page = 0}) => i \in Reserved(mem, a, b)
  BY <1>4, <1>5 DEF Reserved
<1>9. CASE f < A
  <2>1. f \in 0..(A - 1) /\ (f - 0) % Page = 0
    BY <1>1, <1>4, <1>7, <1>9, MultipleIs
  <2> QED
    BY <1>6, <1>8, <2>1
<1>10. CASE f >= A
  <2>1. c >= e
    <3>1. SUFFICES ASSUME c < e PROVE FALSE
      BY <1>3, <1>4
    <3>2. Page * c + Page <= Page * e
      BY <1>1, <1>3, <1>4, <3>1, TimesMonotone
    <3> QED
      BY <1>1, <1>3, <1>4, <1>7, <1>10, <3>2
  <2>2. c - e \in Nat /\ f - A = Page * (c - e)
    BY <1>1, <1>3, <1>4, <2>1
  <2>3. (f - A) % Page = 0
    BY <1>1, <2>2, MultipleIs
  <2>4. f \in A..((A + T) - 1)
    BY <1>2, <1>4, <1>7, <1>10
  <2>5. f \in {y \in A..((A + T) - 1) : (y - A) % Page = 0}
    BY <2>3, <2>4
  <2>6. i \in Reserved(mem, A, A + T)
    BY <1>8, <2>5
  <2> QED
    BY <1>6, <2>6
<1> QED
  BY <1>7, <1>9, <1>10

\* The function that was called has one of its inputs.
Reached == job = Idle \/ \E f \in DOMAIN Inputs : \E a \in Inputs[f] : job = [fn |-> f, arg |-> a]

LEMMA CallsReach == CallsSpec => []Reached
<1>1. CallsInit => Reached
  BY DEF CallsInit, Reached
<1>2. Reached /\ [CallsNext]_job => Reached'
  BY DEF CallsNext, Call, Idle, Reached
<1> QED
  BY <1>1, <1>2, PTL DEF CallsSpec

LEMMA ReachedArg ==
    ASSUME Reached, NEW g, job.fn = g, g # "idle"
    PROVE  job.arg \in Inputs[g]
<1>1. job # Idle
  BY DEF Idle
<1>2. PICK f \in DOMAIN Inputs : \E a \in Inputs[f] : job = [fn |-> f, arg |-> a]
  BY <1>1 DEF Reached
<1>3. f = g /\ job.arg \in Inputs[f]
  BY <1>2
<1> QED
  BY <1>3

\* On a machine with any amount of memory, for a kernel with modules that end
\* anywhere, no frame that can be allocated after boot (memory_manager.c)
\* belongs to the kernel, the modules or the table of counts, and each is whole
\* and lies in memory that the machine has.
THEOREM KernelFramesReserved == CallsSpec => []KernelReserved
<1>1. Reached => KernelReserved
  <2>1. SUFFICES ASSUME Reached, job.fn = "memory",
                        NEW f \in FreeFrames(job.arg[1], job.arg[2])
                 PROVE  /\ f >= align_page(job.arg[2]) + Page + total_usable_pages(job.arg[1])
                        /\ f % Page = 0
                        /\ f + Page <= IF f < UpperStart THEN job.arg[1].lower ELSE UpperStart + job.arg[1].upper
    BY Zenon DEF KernelReserved
  <2> DEFINE mem == job.arg[1]
             end == job.arg[2]
             kept == align_page(end) + Page + total_usable_pages(mem)
  <2>2. job.arg \in Inputs["memory"]
    BY <2>1, ReachedArg
  <2>3. mem.lower \in 0..UpperStart /\ mem.upper \in Nat /\ end \in Nat
    BY <2>2, MemoryAssumption
  <2>4. PICK i \in (0..(total_usable_pages(mem) - 1)) \ initialise_memory(mem, end) :
            f = alloc_phys_index_to_addr(mem, i)
    BY <2>1 DEF FreeFrames
  <2> HIDE DEF mem, end
  <2>5. PICK c : FrameIs(mem, i, f, c)
    BY <2>3, <2>4, FrameOfIndex
  <2>6. ~(f < kept)
    BY <2>3, <2>4, <2>5, KeptIs
  <2>7. /\ Page \in Nat \ {0} /\ c \in Nat /\ f = Page * c
        /\ f + Page <= IF f < UpperStart THEN mem.lower ELSE UpperStart + mem.upper
    BY <2>5, MemoryAssumption DEF FrameIs
  <2>8. f \in Nat /\ f % Page = 0
    BY <2>7, MultipleIs
  <2>9. kept \in Nat
    <3>0. mem.lower \in Nat
      BY <2>3, MemoryAssumption
    <3>1. /\ end \div Page \in Nat /\ mem.lower \div Page \in Nat /\ mem.upper \div Page \in Nat
      BY <2>3, <2>7, <3>0, Divided
    <3> QED
      BY <2>7, <3>1 DEF align_page, total_usable_pages, lower_pages
  <2>10. f >= kept
    BY <2>6, <2>8, <2>9
  <2> QED
    BY <2>7, <2>8, <2>10 DEF mem, end
<1> QED
  BY <1>1, CallsReach, PTL

-----------------------------------------------------------------------------
(* The image of a program.                                                 *)

LoadStep(segments, F, i) == IF i = 0 THEN << >> ELSE LoadSegment(F[i - 1], segments[i])
Loads(segments, L, F) == F = [i \in 0..L |-> LoadStep(segments, F, i)]

\* The recursive function of elf_load_executable exists.
LEMMA LoadExists ==
    ASSUME NEW segments, NEW L \in Nat
    PROVE  \E F : Loads(segments, L, F)
<1> DEFINE P(n) == \E F : F = [i \in 0..n |-> LoadStep(segments, F, i)]
           G == {n \in Nat : P(n)}
<1>1. 0 \in G
  <2> DEFINE E == [i \in 0..0 |-> << >>]
  <2>1. E = [i \in 0..0 |-> LoadStep(segments, E, i)]
    BY DEF LoadStep
  <2> QED
    BY <2>1
<1>2. ASSUME NEW n \in 0..(L - 1), n \in G PROVE n + 1 \in G
  <2>1. PICK F : F = [i \in 0..n |-> LoadStep(segments, F, i)]
    BY <1>2
  <2> DEFINE H == [i \in 0..(n + 1) |-> IF i <= n THEN F[i] ELSE LoadStep(segments, F, n + 1)]
  <2>2. ASSUME NEW i \in 0..(n + 1) PROVE H[i] = LoadStep(segments, H, i)
    <3>1. CASE i <= n
      <4>1. H[i] = LoadStep(segments, F, i)
        BY <2>1, <3>1
      <4>2. i # 0 => H[i - 1] = F[i - 1]
        BY <3>1
      <4> QED
        BY <4>1, <4>2 DEF LoadStep
    <3>2. CASE i = n + 1
      <4>1. H[i - 1] = F[i - 1]
        BY <3>2
      <4> QED
        BY <4>1, <3>2 DEF LoadStep
    <3> QED
      BY <3>1, <3>2
  <2>3. H = [i \in 0..(n + 1) |-> LoadStep(segments, H, i)]
    BY <2>2
  <2>4. P(n + 1)
    BY <2>3
  <2> QED
    BY <2>4
<1> HIDE DEF G
<1>3. \A i \in 0..L : i \in G
  BY <1>1, <1>2, Q!SetInduction
<1>4. L \in G
  BY <1>3
<1> QED
  BY <1>4 DEF G, Loads

First(s) == s.vaddr \div PageSize
Frames(s) == 0..(CeilPages(s.memsz) - 1)

\* The pages hold the segments S and nothing else.
Image(pages, S) ==
    /\ DOMAIN pages = UNION {PagesOf(s) : s \in S}
    /\ \A s \in S : \A i \in Frames(s) : pages[First(s) + i] = SegmentFrames(s)[i]

LEMMA SegmentIs ==
    ASSUME NEW s \in ProgramHeader
    PROVE  /\ PageSize \in Nat \ {0} /\ First(s) \in Nat /\ Frames(s) \subseteq Nat
           /\ DOMAIN SegmentFrames(s) = Frames(s)
           /\ PagesOf(s) = {First(s) + i : i \in Frames(s)} /\ PagesOf(s) \subseteq Nat
<1>1. PageSize \in Nat \ {0} /\ s.vaddr \in Nat
  BY ElfAssumption DEF ProgramHeader
<1>2. First(s) \in Nat
  BY <1>1, Divided DEF First
<1>3. Frames(s) \subseteq Nat
  BY DEF Frames
<1>4. DOMAIN SegmentFrames(s) = Frames(s)
  BY DEF SegmentFrames, Frames
<1>5. PagesOf(s) = {First(s) + i : i \in Frames(s)}
  BY DEF PagesOf, First, Frames
<1>6. PagesOf(s) \subseteq Nat
  BY <1>2, <1>3, <1>5
<1> QED
  BY <1>1, <1>2, <1>3, <1>4, <1>5, <1>6

\* One more segment, whose pages no other one has.
LEMMA SegmentLoaded ==
    ASSUME NEW pages, NEW S \in SUBSET ProgramHeader, NEW p \in ProgramHeader, Image(pages, S),
           p.type = "PT_LOAD", p.vaddr # 0,
           \A s \in S : s # p => PagesOf(s) \cap PagesOf(p) = {}
    PROVE  Image(LoadSegment(pages, p), S \cup {p})
<1> DEFINE r == LoadSegment(pages, p)
           Taken == {First(p) + i : i \in Frames(p)}
<1>1. /\ First(p) \in Nat /\ Frames(p) \subseteq Nat /\ DOMAIN SegmentFrames(p) = Frames(p)
      /\ PagesOf(p) = Taken
  BY SegmentIs
<1>2. r = [v \in DOMAIN pages \cup Taken |->
              IF v - First(p) \in Frames(p) THEN SegmentFrames(p)[v - First(p)] ELSE pages[v]]
  <2>1. r = [v \in DOMAIN pages \cup {First(p) + i : i \in DOMAIN SegmentFrames(p)} |->
              IF v - First(p) \in DOMAIN SegmentFrames(p) THEN SegmentFrames(p)[v - First(p)] ELSE pages[v]]
    BY DEF LoadSegment, First
  <2> QED
    BY <1>1, <2>1
<1> HIDE DEF r
<1>3. DOMAIN r = UNION {PagesOf(s) : s \in S \cup {p}}
  <2>1. DOMAIN r = (UNION {PagesOf(s) : s \in S}) \cup PagesOf(p)
    BY <1>1, <1>2 DEF Image
  <2>2. UNION {PagesOf(s) : s \in S \cup {p}} = (UNION {PagesOf(s) : s \in S}) \cup PagesOf(p)
    OBVIOUS
  <2> QED
    BY <2>1, <2>2
<1>4. ASSUME NEW s \in S \cup {p}, NEW i \in Frames(s) PROVE r[First(s) + i] = SegmentFrames(s)[i]
  <2> DEFINE v == First(s) + i
  <2>1. First(s) \in Nat /\ i \in Nat /\ v \in PagesOf(s)
    BY <1>4, SegmentIs
  <2>2. CASE s = p
    <3>1. v \in Taken /\ v - First(p) = i
      BY <1>1, <2>1, <2>2
    <3> HIDE DEF v
    <3>2. i \in Frames(p)
      BY <2>2
    <3>3. v \in DOMAIN pages \cup Taken /\ v - First(p) \in Frames(p)
      BY <3>1, <3>2
    <3>4. r[v] = SegmentFrames(p)[v - First(p)]
      BY <1>2, <3>3
    <3> QED
      BY <2>2, <3>1, <3>4 DEF v
  <2>3. CASE s # p
    <3>1. s \in S /\ PagesOf(s) \cap PagesOf(p) = {}
      BY <2>3
    <3>2. v \in DOMAIN pages /\ pages[v] = SegmentFrames(s)[i]
      BY <2>1, <3>1 DEF Image
    <3>3. v \notin Taken
      BY <1>1, <2>1, <3>1
    <3>4. v - First(p) \notin Frames(p)
      <4>1. v \in Int /\ v = First(p) + (v - First(p))
        BY <1>1, <2>1
      <4> HIDE DEF v
      <4> QED
        BY <3>3, <4>1
    <3> HIDE DEF v
    <3>5. r[v] = pages[v]
      BY <1>2, <3>2, <3>4
    <3> QED
      BY <3>2, <3>5 DEF v
  <2> QED
    BY <2>2, <2>3
<1>5. Image(r, S \cup {p})
  BY <1>3, <1>4 DEF Image
<1> QED
  BY <1>5 DEF r

\* The loadable ones of the first k program headers.
Among(segments, k) == {s \in {segments[j] : j \in 1..k} : s.type = "PT_LOAD" /\ s.vaddr # 0}

LEMMA AmongIs ==
    ASSUME NEW segments \in Seq(ProgramHeader), NEW k \in 0..(Len(segments) - 1)
    PROVE  LET p == segments[k + 1]
           IN  /\ p \in ProgramHeader
               /\ Among(segments, k + 1) =
                    IF p.type = "PT_LOAD" /\ p.vaddr # 0 THEN Among(segments, k) \cup {p} ELSE Among(segments, k)
<1> DEFINE p == segments[k + 1]
           T == {segments[j] : j \in 1..k}
<1>1. Len(segments) \in Nat /\ \A j \in 1..Len(segments) : segments[j] \in ProgramHeader
  BY SeqIs
<1>2. k \in Nat /\ 1..(k + 1) = 1..k \cup {k + 1} /\ k + 1 \in 1..Len(segments)
  BY <1>1
<1>3. p \in ProgramHeader
  BY <1>1, <1>2
<1>4. {segments[j] : j \in 1..(k + 1)} = T \cup {p}
  BY <1>2
<1>5. /\ Among(segments, k + 1) = {s \in T \cup {p} : s.type = "PT_LOAD" /\ s.vaddr # 0}
      /\ Among(segments, k) = {s \in T : s.type = "PT_LOAD" /\ s.vaddr # 0}
  BY <1>4 DEF Among
<1> HIDE DEF p, T
<1>6. Among(segments, k + 1) = IF p.type = "PT_LOAD" /\ p.vaddr # 0 THEN Among(segments, k) \cup {p} ELSE Among(segments, k)
  BY <1>5
<1> QED
  BY <1>3, <1>6 DEF p

LEMMA AmongAll ==
    ASSUME NEW segments \in Seq(ProgramHeader)
    PROVE  /\ Among(segments, 0) = {} /\ Among(segments, Len(segments)) = Loadable(segments)
           /\ \A k \in 0..Len(segments) : Among(segments, k) \subseteq Loadable(segments)
           /\ Loadable(segments) \subseteq ProgramHeader
<1>1. Len(segments) \in Nat /\ DOMAIN segments = 1..Len(segments)
      /\ \A j \in 1..Len(segments) : segments[j] \in ProgramHeader
  BY SeqIs
<1>2. Range(segments) = {segments[j] : j \in 1..Len(segments)}
  BY <1>1 DEF Range
<1>3. Among(segments, 0) = {}
  BY DEF Among
<1>4. Among(segments, Len(segments)) = Loadable(segments)
  BY <1>2 DEF Among, Loadable
<1>5. \A k \in 0..Len(segments) : Among(segments, k) \subseteq Loadable(segments)
  <2> SUFFICES ASSUME NEW k \in 0..Len(segments), NEW s \in Among(segments, k) PROVE s \in Loadable(segments)
    OBVIOUS
  <2>1. PICK j \in 1..k : s = segments[j]
    BY DEF Among
  <2>2. j \in 1..Len(segments) /\ s.type = "PT_LOAD" /\ s.vaddr # 0
    BY <1>1 DEF Among
  <2> QED
    BY <1>2, <2>1, <2>2 DEF Loadable
<1>6. Loadable(segments) \subseteq ProgramHeader
  BY <1>1, <1>2 DEF Loadable
<1> QED
  BY <1>3, <1>4, <1>5, <1>6

\* All program headers, one after the other.
LEMMA SegmentsLoaded ==
    ASSUME NEW segments \in Seq(ProgramHeader), Apart(Loadable(segments)),
           NEW F, Loads(segments, Len(segments), F)
    PROVE  Image(F[Len(segments)], Loadable(segments))
<1> DEFINE L == Len(segments)
           G == {k \in 0..L : Image(F[k], Among(segments, k))}
<1>1. L \in Nat /\ \A k \in 0..L : F[k] = LoadStep(segments, F, k)
  <2>1. L \in Nat
    BY SeqIs
  <2>2. F = [i \in 0..L |-> LoadStep(segments, F, i)]
    BY DEF Loads
  <2> HIDE DEF L
  <2> QED
    BY <2>1, <2>2
<1>2. 0 \in G
  <2>1. F[0] = << >>
    BY <1>1 DEF LoadStep
  <2>2. Among(segments, 0) = {} /\ DOMAIN << >> = {}
    BY AmongAll
  <2>3. Image(<< >>, {})
    BY <2>2 DEF Image
  <2>4. Image(F[0], Among(segments, 0))
    BY <2>1, <2>2, <2>3
  <2> QED
    BY <1>1, <2>4
<1>3. ASSUME NEW k \in 0..(L - 1), k \in G PROVE k + 1 \in G
  <2> DEFINE p == segments[k + 1]
             S == Among(segments, k)
  <2>1. k + 1 \in 0..L /\ k + 1 # 0 /\ (k + 1) - 1 = k /\ k \in 0..L /\ Image(F[k], S)
    BY <1>1, <1>3
  <2>2. F[k + 1] = LoadSegment(F[k], p)
    BY <1>1, <2>1 DEF LoadStep
  <2>3. /\ p \in ProgramHeader
        /\ Among(segments, k + 1) = IF p.type = "PT_LOAD" /\ p.vaddr # 0 THEN S \cup {p} ELSE S
    BY <1>3, AmongIs
  <2>4. /\ S \subseteq Loadable(segments) /\ Among(segments, k + 1) \subseteq Loadable(segments)
        /\ Loadable(segments) \subseteq ProgramHeader
    BY <2>1, AmongAll
  <2> HIDE DEF p, S
  <2>5. CASE p.type = "PT_LOAD" /\ p.vaddr # 0
    <3>1. p \in Loadable(segments)
      BY <2>3, <2>4, <2>5
    <3>2. \A s \in S : s # p => PagesOf(s) \cap PagesOf(p) = {}
      BY <2>4, <3>1 DEF Apart
    <3>3. Image(LoadSegment(F[k], p), S \cup {p})
      BY <2>1, <2>3, <2>4, <2>5, <3>2, SegmentLoaded
    <3>4. Image(F[k + 1], Among(segments, k + 1))
      BY <2>2, <2>3, <2>5, <3>3
    <3> QED
      BY <2>1, <3>4
  <2>6. CASE ~(p.type = "PT_LOAD" /\ p.vaddr # 0)
    <3>1. LoadSegment(F[k], p) = F[k]
      BY <2>6 DEF LoadSegment
    <3>2. Image(F[k + 1], Among(segments, k + 1))
      BY <2>1, <2>2, <2>3, <2>6, <3>1
    <3> QED
      BY <2>1, <3>2
  <2> QED
    BY <2>5, <2>6
<1>4. \A k \in 0..L : k \in G
  <2> HIDE DEF G, L
  <2> QED
    BY <1>1, <1>2, <1>3, Q!SetInduction
<1>5. Image(F[L], Among(segments, L))
  BY <1>1, <1>4
<1> QED
  BY <1>5, AmongAll

\* A byte of a segment, in the frame that has it.
LEMMA ByteOfFrame ==
    ASSUME NEW s \in ProgramHeader, s.vaddr % PageSize = 0, NEW b \in 0..(s.memsz - 1)
    PROVE  LET i == b \div PageSize
               j == b % PageSize
           IN  /\ i \in Frames(s)
               /\ (s.vaddr + b) \div PageSize = First(s) + i /\ (s.vaddr + b) % PageSize = j
               /\ SegmentFrames(s)[i][j] = IF b < s.filesz THEN s.offset + b ELSE Zero
<1> DEFINE P == PageSize
           i == b \div P
           j == b % P
           v == s.vaddr
           m == s.memsz
           z == s.filesz
           o == s.offset
           c == v \div P
<1>1. P \in Nat \ {0} /\ v \in Nat /\ m \in Nat /\ z \in Nat /\ o \in Nat /\ b \in Nat /\ b < m
  BY ElfAssumption DEF ProgramHeader
<1>2. i \in Nat /\ j \in 0..(P - 1) /\ b = P * i + j /\ P * i \in Nat
  BY <1>1, Divided
<1>3. v = P * c /\ c \in Nat
  <2>1. v = P * c + (v % P) /\ c \in Nat /\ P * c \in Nat
    BY <1>1, Divided
  <2>2. v % P = 0
    OBVIOUS
  <2> HIDE DEF c
  <2> QED
    BY <2>1, <2>2
<1> HIDE DEF i, j, c, P
<1>4. (v + b) \div P = c + i /\ (v + b) % P = j
  <2>1. v + b = P * (c + i) + j /\ c + i \in Nat /\ j \in Nat /\ j < P
    BY <1>1, <1>2, <1>3
  <2>2. (P * (c + i) + j) \div P = c + i /\ (P * (c + i) + j) % P = j
    BY <1>1, <2>1, Q!DivMod
  <2> QED
    BY <2>1, <2>2
<1>5. i < (m + P - 1) \div P
  <2> DEFINE n == m + P - 1
             d == n \div P
  <2>1. n \in Nat /\ n >= P * i + P
    BY <1>1, <1>2
  <2>2. d \in Nat /\ n % P \in 0..(P - 1) /\ n = P * d + (n % P) /\ P * d \in Nat
    BY <1>1, <2>1, Divided
  <2> HIDE DEF n, d
  <2>3. SUFFICES ASSUME ~(i < d) PROVE FALSE
    BY DEF n, d
  <2>4. d < i + 1 /\ i + 1 \in Nat
    BY <1>2, <2>2, <2>3
  <2>5. P * d + P <= P * (i + 1) /\ P * (i + 1) = P * i + P
    BY <1>1, <1>2, <2>2, <2>4, TimesMonotone
  <2> QED
    BY <1>1, <1>2, <2>1, <2>2, <2>5
<1>6. i \in Frames(s)
  <2>1. (m + P - 1) \div P \in Nat
    <3>1. m + P - 1 \in Nat
      BY <1>1
    <3> QED
      BY <1>1, <3>1, Divided
  <2>2. i \in 0..((m + P - 1) \div P - 1)
    BY <1>2, <1>5, <2>1
  <2> QED
    BY <2>2 DEF Frames, CeilPages, P
<1>7. SegmentFrames(s)[i] =
        IF z - i * P > P THEN ReadInto(Cleared, o + i * P, P) ELSE ReadInto(Cleared, o + i * P, z - i * P)
  BY <1>6 DEF SegmentFrames, Frames, P
<1>8. \A from, len : ReadInto(Cleared, from, len)[j] = IF j < len THEN from + j ELSE Zero
  BY <1>2 DEF ReadInto, Cleared, P
<1>9. i * P = P * i /\ j \in Nat /\ j < P
  BY <1>1, <1>2
<1>10. SegmentFrames(s)[i][j] = IF b < z THEN o + b ELSE Zero
  <2> DEFINE e == P * i
  <2>1. e \in Nat /\ b = e + j /\ i * P = e
    BY <1>2, <1>9
  <2> HIDE DEF e, o, z
  <2>2. SegmentFrames(s)[i] = IF z - e > P THEN ReadInto(Cleared, o + e, P) ELSE ReadInto(Cleared, o + e, z - e)
    BY <1>7, <2>1
  <2>3. CASE z - e > P
    <3>1. SegmentFrames(s)[i][j] = IF j < P THEN (o + e) + j ELSE Zero
      BY <1>8, <2>2, <2>3
    <3>2. j < P /\ b < z /\ (o + e) + j = o + b
      BY <1>1, <1>9, <2>1, <2>3
    <3> QED
      BY <3>1, <3>2
  <2>4. CASE ~(z - e > P)
    <3>1. SegmentFrames(s)[i][j] = IF j < z - e THEN (o + e) + j ELSE Zero
      BY <1>8, <2>2, <2>4
    <3>2. (j < z - e <=> b < z) /\ (o + e) + j = o + b
      BY <1>1, <1>9, <2>1
    <3> QED
      BY <3>1, <3>2
  <2> QED
    BY <2>3, <2>4
<1> QED
  BY <1>4, <1>6, <1>10 DEF i, j, c, P, First

LEMMA ElfLoads ==
    ASSUME NEW hdr, NEW segments \in Seq(ProgramHeader), Apart(Loadable(segments))
    PROVE  LET pages == elf_load_executable(hdr, segments)
           IN  IF validate_elf(hdr) THEN Image(pages, Loadable(segments)) ELSE pages = << >>
<1>1. Len(segments) \in Nat
  BY SeqIs
<1> DEFINE F == CHOOSE f : f = [i \in 0..Len(segments) |-> LoadStep(segments, f, i)]
<1>2. Loads(segments, Len(segments), F)
  BY <1>1, LoadExists, Zenon DEF Loads
<1>3. elf_load_executable(hdr, segments) = IF validate_elf(hdr) THEN F[Len(segments)] ELSE << >>
  BY Zenon DEF elf_load_executable, LoadStep
<1> HIDE DEF F
<1>4. Image(F[Len(segments)], Loadable(segments))
  BY <1>2, SegmentsLoaded
<1> QED
  BY <1>3, <1>4

\* A segment that is no larger in the file than in memory has a frame for all
\* its bytes.
LEMMA FramesSuffice ==
    ASSUME NEW s \in ProgramHeader, s.filesz <= s.memsz
    PROVE  CeilPages(s.filesz) <= CeilPages(s.memsz)
<1> DEFINE P == PageSize
           a == s.filesz + P - 1
           b == s.memsz + P - 1
           c == a \div P
           d == b \div P
<1>1. P \in Nat \ {0} /\ s.filesz \in Nat /\ s.memsz \in Nat
  BY ElfAssumption DEF ProgramHeader
<1>2. a \in Nat /\ b \in Nat /\ a <= b
  BY <1>1
<1> HIDE DEF a, b
<1>3. c \in Nat /\ P * c \in Nat /\ a % P \in 0..(P - 1) /\ a = P * c + (a % P)
  BY <1>1, <1>2, Divided
<1>4. d \in Nat /\ P * d \in Nat /\ b % P \in 0..(P - 1) /\ b = P * d + (b % P)
  BY <1>1, <1>2, Divided
<1> HIDE DEF c, d
<1>5. c <= d
  <2>1. SUFFICES ASSUME d < c PROVE FALSE
    BY <1>3, <1>4
  <2>2. P * d + P <= P * c
    BY <1>1, <1>3, <1>4, <2>1, TimesMonotone
  <2> QED
    BY <1>1, <1>2, <1>3, <1>4, <2>2
<1> QED
  BY <1>5 DEF a, b, c, d, CeilPages

\* So the loader reads no byte to another frame.
LEMMA NoneStrays ==
    ASSUME NEW hdr, NEW segments \in Seq(ProgramHeader), InMemory(Loadable(segments))
    PROVE  ~Strays(hdr, segments)
<1> SUFFICES ASSUME NEW i \in DOMAIN segments, StraysFrom(segments[i]) PROVE FALSE
  BY DEF Strays
<1> DEFINE s == segments[i]
<1>1. s \in ProgramHeader
  BY SeqIs
<1>2. s \in Loadable(segments)
  BY DEF Loadable, StraysFrom, Range
<1>3. s.filesz <= s.memsz
  BY <1>2 DEF InMemory
<1>4. CeilPages(s.filesz) <= CeilPages(s.memsz)
  BY <1>1, <1>3, FramesSuffice
<1>5. CeilPages(s.filesz) \in Nat /\ CeilPages(s.memsz) \in Nat
  <2> DEFINE a == s.filesz
             b == s.memsz
  <2>a. a \in Nat /\ b \in Nat
    BY <1>1 DEF ProgramHeader
  <2>b. PageSize \in Nat \ {0}
    BY ElfAssumption
  <2> HIDE DEF a, b
  <2>c. a + PageSize - 1 \in Nat /\ b + PageSize - 1 \in Nat
    BY <2>a, <2>b
  <2>1. PageSize \in Nat \ {0} /\ s.filesz + PageSize - 1 \in Nat /\ s.memsz + PageSize - 1 \in Nat
    BY <2>b, <2>c DEF a, b
  <2> QED
    BY <2>1, Divided DEF CeilPages
<1> QED
  BY <1>4, <1>5 DEF StraysFrom

\* For any page size and any program headers that start on a page, share none and
\* are no larger in the file than in memory, a program finds every byte of its file
\* at the address it was linked for and cleared memory behind, on exactly the pages
\* of its segments, and no other frame is written; a file that validate_elf refuses
\* leaves nothing mapped (elf_load_executable).
THEOREM ImageIsLoaded == CallsSpec => []ImageLoaded
<1>1. Reached => ImageLoaded
  <2>1. SUFFICES ASSUME Reached, job.fn = "elf", Apart(Loadable(job.arg[2])), InMemory(Loadable(job.arg[2]))
                 PROVE  LET hdr   == job.arg[1]
                            segs  == Loadable(job.arg[2])
                            pages == elf_load_executable(hdr, job.arg[2])
                        IN  /\ ~Strays(hdr, job.arg[2])
                            /\ DOMAIN pages = IF validate_elf(hdr) THEN UNION {PagesOf(s) : s \in segs} ELSE {}
                            /\ validate_elf(hdr) =>
                                 \A s \in segs : \A b \in 0..(s.memsz - 1) :
                                     ByteAt(pages, s.vaddr + b) = IF b < s.filesz THEN s.offset + b ELSE Zero
    BY Zenon DEF ImageLoaded
  <2> DEFINE hdr == job.arg[1]
             segments == job.arg[2]
             segs == Loadable(segments)
             pages == elf_load_executable(hdr, segments)
  <2>2. segments \in Seq(ProgramHeader)
    <3>1. job.arg \in Inputs["elf"]
      BY <2>1, ReachedArg, Zenon
    <3> QED
      BY <3>1, ElfAssumption
  <2>3. IF validate_elf(hdr) THEN Image(pages, segs) ELSE pages = << >>
    BY <2>1, <2>2, ElfLoads
  <2>4. segs \subseteq ProgramHeader
    BY <2>2, AmongAll
  <2>5. (\A s \in segs : s.vaddr % PageSize = 0) /\ ~Strays(hdr, segments)
    BY <2>1, <2>2, NoneStrays DEF Apart
  <2> HIDE DEF hdr, segments, segs, pages
  <2>6. CASE ~validate_elf(hdr)
    <3>1. DOMAIN pages = {}
      BY <2>3, <2>6
    <3> QED
      BY <2>5, <2>6, <3>1 DEF hdr, segments, segs, pages
  <2>7. CASE validate_elf(hdr)
    <3>1. Image(pages, segs)
      BY <2>3, <2>7
    <3>2. DOMAIN pages = UNION {PagesOf(s) : s \in segs}
      BY <3>1 DEF Image
    <3>3. ASSUME NEW s \in segs, NEW b \in 0..(s.memsz - 1)
          PROVE  ByteAt(pages, s.vaddr + b) = IF b < s.filesz THEN s.offset + b ELSE Zero
      <4> DEFINE i == b \div PageSize
                 j == b % PageSize
      <4>1. s \in ProgramHeader /\ s.vaddr % PageSize = 0
        BY <2>4, <2>5
      <4>2. /\ i \in Frames(s)
            /\ (s.vaddr + b) \div PageSize = First(s) + i /\ (s.vaddr + b) % PageSize = j
            /\ SegmentFrames(s)[i][j] = IF b < s.filesz THEN s.offset + b ELSE Zero
        BY <3>3, <4>1, ByteOfFrame
      <4> HIDE DEF i, j
      <4>3. pages[First(s) + i] = SegmentFrames(s)[i]
        BY <3>1, <4>2 DEF Image
      <4> QED
        BY <4>2, <4>3 DEF ByteAt
    <3>4. \A s \in segs : \A b \in 0..(s.memsz - 1) :
              ByteAt(pages, s.vaddr + b) = IF b < s.filesz THEN s.offset + b ELSE Zero
      BY <3>3
    <3> QED
      BY <2>5, <2>7, <3>2, <3>4, Zenon DEF hdr, segments, segs, pages
  <2> QED
    BY <2>6, <2>7
<1> QED
  BY <1>1, CallsReach, PTL
=============================================================================
