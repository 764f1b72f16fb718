----------------------------- MODULE QueuesProof -----------------------------
(***************************************************************************)
(* What the queue operators of module Queues return, for every sequence.   *)
(* Keep is a recursive function; the facts about it are proved by          *)
(* induction, from the principle that a non-empty set of naturals has a    *)
(* least element.                                                          *)
(***************************************************************************)
EXTENDS Queues, TLAPS, WellFoundedInduction, FiniteSetTheorems

\* A non-empty set of naturals has a least element.
LEMMA LeastElement ==
    ASSUME NEW T \in SUBSET Nat, T # {}
    PROVE  \E x \in T : \A y \in T : x <= y
<1>1. IsWellFoundedOn(OpToRel(<, Nat), Nat)
  BY NatLessThanWellFounded
<1>2. PICK x \in T : \A y \in T : ~ (<<y, x>> \in OpToRel(<, Nat))
  BY <1>1, WFMin, Zenon
<1>3. \A y \in T : ~ (y < x)
  BY <1>2 DEF OpToRel
<1>4. \A y \in T : x <= y
  BY <1>3
<1> QED
  BY <1>4

\* Induction up to n, for a set of naturals.
LEMMA SetInduction ==
    ASSUME NEW n \in Nat, NEW G, 0 \in G,
           \A i \in 0..(n-1) : i \in G => i + 1 \in G
    PROVE  \A i \in 0..n : i \in G
<1> SUFFICES ASSUME NEW k \in 0..n, k \notin G PROVE FALSE
  OBVIOUS
<1> DEFINE B == {i \in 0..n : i \notin G}
<1>1. B \in SUBSET Nat /\ B # {}
  OBVIOUS
<1>2. PICK x \in B : \A y \in B : x <= y
  BY <1>1, LeastElement
<1>3. x # 0 /\ x - 1 \in 0..(n-1) /\ x - 1 \notin B
  BY <1>2
<1> QED
  BY <1>2, <1>3

-----------------------------------------------------------------------------
KeepStep(q, S, F, i) ==
    IF i = 0 THEN << >>
    ELSE IF q[i] \in S THEN Append(F[i-1], q[i]) ELSE F[i-1]

\* The recursive function inside Keep exists.
LEMMA KeepExists ==
    ASSUME NEW T, NEW q \in Seq(T), NEW S
    PROVE  \E F : F = [i \in 0..Len(q) |-> KeepStep(q, S, F, i)]
<1> DEFINE P(n) == \E F : F = [i \in 0..n |-> KeepStep(q, S, F, i)]
           G == {n \in Nat : P(n)}
<1>1. 0 \in G
  <2> DEFINE F0 == [i \in 0..0 |-> << >>]
  <2>1. F0 = [i \in 0..0 |-> KeepStep(q, S, F0, i)]
    BY DEF KeepStep
  <2> QED
    BY <2>1
<1>2. ASSUME NEW n \in 0..(Len(q)-1), n \in G PROVE n + 1 \in G
  <2>1. PICK F : F = [i \in 0..n |-> KeepStep(q, S, F, i)]
    BY <1>2
  <2> DEFINE H == [i \in 0..(n+1) |-> IF i <= n THEN F[i] ELSE KeepStep(q, S, F, n+1)]
  <2>2. ASSUME NEW i \in 0..(n+1) PROVE H[i] = KeepStep(q, S, H, i)
    <3>1. CASE i <= n
      <4>1. H[i] = KeepStep(q, S, F, i)
        BY <2>1, <3>1
      <4>2. i # 0 => H[i-1] = F[i-1]
        BY <3>1
      <4> QED
        BY <4>1, <4>2 DEF KeepStep
    <3>2. CASE i = n + 1
      <4>1. H[i-1] = F[i-1]
        BY <3>2
      <4> QED
        BY <4>1, <3>2 DEF KeepStep
    <3> QED
      BY <3>1, <3>2
  <2>3. H = [i \in 0..(n+1) |-> KeepStep(q, S, H, i)]
    BY <2>2
  <2>4. P(n+1)
    BY <2>3
  <2> QED
    BY <2>4
<1>3. Len(q) \in Nat
  OBVIOUS
<1> HIDE DEF G
<1>4. \A i \in 0..Len(q) : i \in G
  BY <1>1, <1>2, <1>3, SetInduction
<1>5. Len(q) \in G
  BY <1>3, <1>4
<1> QED
  BY <1>5 DEF G

\* e embeds k into the first n elements of q, in order, and meets exactly the
\* elements that lie in S.
Embeds(e, k, q, n, S) ==
    /\ e \in [1..Len(k) -> 1..n]
    /\ \A a, b \in 1..Len(k) : a < b => e[a] < e[b]
    /\ \A a \in 1..Len(k) : k[a] = q[e[a]] /\ k[a] \in S
    /\ \A i \in 1..n : q[i] \in S => \E a \in 1..Len(k) : e[a] = i

\* Keep returns a subsequence: it keeps the order and exactly the elements in S.
LEMMA KeepEmbeds ==
    ASSUME NEW T, NEW q \in Seq(T), NEW S
    PROVE  /\ Keep(q, S) \in Seq(T)
           /\ Len(Keep(q, S)) <= Len(q)
           /\ \E e : Embeds(e, Keep(q, S), q, Len(q), S)
<1> DEFINE F == CHOOSE F : F = [i \in 0..Len(q) |-> KeepStep(q, S, F, i)]
<1>1. F = [i \in 0..Len(q) |-> KeepStep(q, S, F, i)]
  BY KeepExists
<1>2. Keep(q, S) = F[Len(q)]
  BY DEF Keep, KeepStep
<1> HIDE DEF F
<1> DEFINE P(i) == /\ F[i] \in Seq(T)
                   /\ Len(F[i]) <= i
                   /\ \E e : Embeds(e, F[i], q, i, S)
           G == {i \in 0..Len(q) : P(i)}
<1>3. 0 \in G
  <2>1. F[0] = << >>
    BY <1>1 DEF KeepStep
  <2>2. << >> \in Seq(T) /\ Len(<< >>) = 0
    OBVIOUS
  <2>3. << >> \in [1..0 -> 1..0]
    OBVIOUS
  <2>4. Embeds(<< >>, << >>, q, 0, S)
    BY <2>2, <2>3 DEF Embeds
  <2>5. P(0)
    BY <2>1, <2>2, <2>4
  <2> QED
    BY <2>5
<1>4. ASSUME NEW i \in 0..(Len(q)-1), i \in G PROVE i + 1 \in G
  <2>s. i + 1 \in 0..Len(q) /\ i + 1 # 0 /\ (i + 1) - 1 = i
    OBVIOUS
  <2>t. F[i+1] = KeepStep(q, S, F, i+1)
    BY <1>1, <2>s
  <2>1. F[i+1] = IF q[i+1] \in S THEN Append(F[i], q[i+1]) ELSE F[i]
    BY <2>s, <2>t DEF KeepStep
  <2>2. PICK e : Embeds(e, F[i], q, i, S)
    BY <1>4
  <2>3. /\ F[i] \in Seq(T) /\ Len(F[i]) <= i /\ q[i+1] \in T
        /\ Len(F[i]) \in Nat /\ i \in Nat
    BY <1>4
  <2>e. /\ e \in [1..Len(F[i]) -> 1..i]
        /\ \A a, b \in 1..Len(F[i]) : a < b => e[a] < e[b]
        /\ \A a \in 1..Len(F[i]) : F[i][a] = q[e[a]] /\ F[i][a] \in S
        /\ \A j \in 1..i : q[j] \in S => \E a \in 1..Len(F[i]) : e[a] = j
    BY <2>2 DEF Embeds
  <2>4. CASE q[i+1] \in S
    <3> DEFINE k == Append(F[i], q[i+1])
               m == Len(F[i])
               d == [a \in 1..(m+1) |-> IF a <= m THEN e[a] ELSE i + 1]
    <3>1. k \in Seq(T) /\ Len(k) = m + 1 /\ m \in Nat
      BY <2>3
    <3>2. k[m+1] = q[i+1] /\ \A a \in 1..m : k[a] = F[i][a]
      BY <2>3
    <3> HIDE DEF k, m
    <3>a. \A a \in 1..m : e[a] \in 1..i
      BY <2>e DEF m
    <3>3. d \in [1..(m+1) -> 1..(i+1)]
      BY <3>a, <2>3, <3>1
    <3>b. d[m+1] = i + 1 /\ \A a \in 1..m : d[a] = e[a]
      BY <3>1
    <3> HIDE DEF d
    <3>4. \A a, b \in 1..(m+1) : a < b => d[a] < d[b]
      <4> SUFFICES ASSUME NEW a \in 1..(m+1), NEW b \in 1..(m+1), a < b
                   PROVE  d[a] < d[b]
        OBVIOUS
      <4>1. CASE b = m + 1
        BY <4>1, <3>a, <3>b, <3>1, <2>3
      <4>2. CASE b <= m
        <5>1. a \in 1..m /\ b \in 1..m
          BY <4>2, <3>1
        <5>2. e[a] < e[b]
          BY <5>1, <2>e DEF m
        <5> QED
          BY <5>1, <5>2, <3>b
      <4> QED
        BY <4>1, <4>2, <3>1
    <3>5. \A a \in 1..(m+1) : k[a] = q[d[a]] /\ k[a] \in S
      <4> SUFFICES ASSUME NEW a \in 1..(m+1) PROVE k[a] = q[d[a]] /\ k[a] \in S
        OBVIOUS
      <4>1. CASE a = m + 1
        BY <4>1, <3>2, <3>b, <2>4
      <4>2. CASE a <= m
        <5>1. a \in 1..m
          BY <4>2, <3>1
        <5> QED
          BY <5>1, <3>2, <3>b, <2>e DEF m
      <4> QED
        BY <4>1, <4>2, <3>1
    <3>6. \A j \in 1..(i+1) : q[j] \in S => \E a \in 1..(m+1) : d[a] = j
      <4> SUFFICES ASSUME NEW j \in 1..(i+1), q[j] \in S
                   PROVE  \E a \in 1..(m+1) : d[a] = j
        OBVIOUS
      <4>1. CASE j = i + 1
        BY <4>1, <3>1, <3>b
      <4>2. CASE j <= i
        <5>1. PICK a \in 1..m : e[a] = j
          BY <4>2, <2>e DEF m
        <5>2. a \in 1..(m+1) /\ d[a] = j
          BY <5>1, <3>1, <3>b
        <5> QED
          BY <5>2
      <4> QED
        BY <4>1, <4>2, <2>3
    <3>7. Embeds(d, k, q, i+1, S)
      BY <3>1, <3>3, <3>4, <3>5, <3>6 DEF Embeds
    <3>8. F[i+1] = k /\ Len(k) <= i + 1
      BY <2>1, <2>4, <2>3, <3>1 DEF k, m
    <3>9. P(i+1)
      BY <3>1, <3>7, <3>8
    <3> QED
      BY <3>9
  <2>5. CASE q[i+1] \notin S
    <3>a. e \in [1..Len(F[i]) -> 1..(i+1)]
      BY <2>e, <2>3
    <3>b. \A j \in 1..(i+1) : q[j] \in S => \E a \in 1..Len(F[i]) : e[a] = j
      <4> SUFFICES ASSUME NEW j \in 1..(i+1), q[j] \in S
                   PROVE  \E a \in 1..Len(F[i]) : e[a] = j
        OBVIOUS
      <4>1. j \in 1..i
        BY <2>5, <2>3
      <4> QED
        BY <4>1, <2>e
    <3>1. Embeds(e, F[i], q, i+1, S)
      BY <3>a, <3>b, <2>e DEF Embeds
    <3>2. F[i+1] = F[i]
      BY <2>1, <2>5
    <3>3. P(i+1)
      BY <3>1, <3>2, <2>3
    <3> QED
      BY <3>3
  <2> QED
    BY <2>4, <2>5
<1>5. Len(q) \in Nat
  OBVIOUS
<1> HIDE DEF G
<1>6. \A i \in 0..Len(q) : i \in G
  BY <1>3, <1>4, <1>5, SetInduction
<1>7. Len(q) \in G
  BY <1>5, <1>6
<1> QED
  BY <1>2, <1>7 DEF G

\* The elements of Keep(q, S) are those of q in S; none is repeated if none
\* is repeated in q.
LEMMA KeepRange ==
    ASSUME NEW T, NEW q \in Seq(T), NEW S
    PROVE  /\ Keep(q, S) \in Seq(T)
           /\ Len(Keep(q, S)) <= Len(q)
           /\ Range(Keep(q, S)) = Range(q) \cap S
           /\ IsInjective(q) => IsInjective(Keep(q, S))
<1> DEFINE k == Keep(q, S)
<1>1. k \in Seq(T) /\ Len(k) <= Len(q) /\ Len(k) \in Nat /\ Len(q) \in Nat
  BY KeepEmbeds
<1>2. PICK e : Embeds(e, k, q, Len(q), S)
  BY KeepEmbeds
<1> HIDE DEF k
<1>3. DOMAIN k = 1..Len(k) /\ DOMAIN q = 1..Len(q)
  BY <1>1
<1>4. Range(k) \subseteq Range(q) \cap S
  BY <1>2, <1>3 DEF Embeds, Range
<1>5. ASSUME NEW x \in Range(q), x \in S PROVE x \in Range(k)
  <2>1. PICK i \in 1..Len(q) : q[i] = x
    BY <1>3 DEF Range
  <2>2. PICK a \in 1..Len(k) : e[a] = i
    BY <2>1, <1>2, <1>5 DEF Embeds
  <2>3. k[a] = x
    BY <2>1, <2>2, <1>2 DEF Embeds
  <2> QED
    BY <2>3, <1>3 DEF Range
<1>6. ASSUME IsInjective(q) PROVE IsInjective(k)
  <2> SUFFICES ASSUME NEW a \in 1..Len(k), NEW b \in 1..Len(k), k[a] = k[b]
               PROVE  a = b
    BY <1>3 DEF IsInjective
  <2>1. e[a] \in 1..Len(q) /\ e[b] \in 1..Len(q) /\ q[e[a]] = q[e[b]]
    BY <1>2 DEF Embeds
  <2>2. e[a] = e[b]
    BY <2>1, <1>6, <1>3 DEF IsInjective
  <2>3. ~(a < b) /\ ~(b < a)
    BY <2>1, <2>2, <1>2 DEF Embeds
  <2> QED
    BY <2>3, <1>1
<1> QED
  BY <1>1, <1>4, <1>5, <1>6 DEF k

\* queue_force_remove and its form for several processes.
LEMMA WithoutRange ==
    ASSUME NEW T, NEW q \in Seq(T), NEW S
    PROVE  /\ Keep(q, Range(q) \ S) \in Seq(T)
           /\ Len(Keep(q, Range(q) \ S)) <= Len(q)
           /\ Range(Keep(q, Range(q) \ S)) = Range(q) \ S
           /\ IsInjective(q) => IsInjective(Keep(q, Range(q) \ S))
<1> DEFINE R == Range(q) \ S
<1>1. Range(q) \cap R = Range(q) \ S
  OBVIOUS
<1> HIDE DEF R
<1>2. /\ Keep(q, R) \in Seq(T) /\ Len(Keep(q, R)) <= Len(q)
      /\ Range(Keep(q, R)) = Range(q) \cap R
      /\ IsInjective(q) => IsInjective(Keep(q, R))
  BY KeepRange
<1> QED
  BY <1>1, <1>2 DEF R

-----------------------------------------------------------------------------
(* Elements and repetitions of the sequences the queue operations build.   *)

\* Appending adds the new element and nothing else.
LEMMA AppendRange ==
    ASSUME NEW T, NEW q \in Seq(T), NEW x \in T
    PROVE  /\ Append(q, x) \in Seq(T)
           /\ Range(Append(q, x)) = Range(q) \cup {x}
           /\ IsInjective(q) /\ x \notin Range(q) => IsInjective(Append(q, x))
<1> DEFINE k == Append(q, x)
<1>1. /\ k \in Seq(T) /\ Len(k) = Len(q) + 1 /\ Len(q) \in Nat
      /\ DOMAIN k = 1..(Len(q) + 1) /\ DOMAIN q = 1..Len(q)
      /\ \A i \in 1..Len(q) : k[i] = q[i]
      /\ k[Len(q) + 1] = x
  OBVIOUS
<1> HIDE DEF k
<1>2. Range(k) \subseteq Range(q) \cup {x}
  BY <1>1 DEF Range
<1>3. Range(q) \subseteq Range(k)
  <2> SUFFICES ASSUME NEW i \in 1..Len(q) PROVE q[i] \in Range(k)
    BY <1>1 DEF Range
  <2>1. i \in DOMAIN k /\ k[i] = q[i]
    BY <1>1
  <2> QED
    BY <2>1 DEF Range
<1>4. x \in Range(k)
  <2>1. Len(q) + 1 \in DOMAIN k
    BY <1>1
  <2> QED
    BY <2>1, <1>1 DEF Range
<1>5. IsInjective(q) /\ x \notin Range(q) => IsInjective(k)
  <2> SUFFICES ASSUME IsInjective(q), x \notin Range(q),
                      NEW a \in DOMAIN k, NEW b \in DOMAIN k, k[a] = k[b]
               PROVE  a = b
    BY DEF IsInjective
  <2>1. CASE a \in 1..Len(q) /\ b \in 1..Len(q)
    BY <2>1, <1>1 DEF IsInjective
  <2>2. CASE a \in 1..Len(q) /\ b = Len(q) + 1
    BY <2>2, <1>1 DEF Range
  <2>3. CASE a = Len(q) + 1 /\ b \in 1..Len(q)
    BY <2>3, <1>1 DEF Range
  <2> QED
    BY <2>1, <2>2, <2>3, <1>1
<1> QED
  BY <1>1, <1>2, <1>3, <1>4, <1>5 DEF k

\* Dequeuing splits a queue into its head and what is left.
LEMMA HeadTailRange ==
    ASSUME NEW T, NEW q \in Seq(T), q # << >>
    PROVE  /\ Head(q) \in T /\ Head(q) \in Range(q)
           /\ Tail(q) \in Seq(T) /\ Len(Tail(q)) = Len(q) - 1
           /\ Range(Tail(q)) \subseteq Range(q)
           /\ Range(q) = Range(Tail(q)) \cup {Head(q)}
           /\ IsInjective(q) => IsInjective(Tail(q)) /\ Head(q) \notin Range(Tail(q))
<1> DEFINE k == Tail(q)
           h == Head(q)
<1>1. /\ k \in Seq(T) /\ Len(k) = Len(q) - 1 /\ Len(q) \in Nat /\ Len(q) >= 1
      /\ DOMAIN k = 1..(Len(q) - 1) /\ DOMAIN q = 1..Len(q)
      /\ \A i \in 1..(Len(q)-1) : k[i] = q[i+1]
      /\ h = q[1] /\ h \in T
  OBVIOUS
<1> HIDE DEF k, h
<1>2. h \in Range(q)
  BY <1>1 DEF Range
<1>3. Range(k) \subseteq Range(q)
  BY <1>1 DEF Range
<1>4. ASSUME NEW i \in 1..Len(q) PROVE q[i] = h \/ q[i] \in Range(k)
  <2>1. CASE i = 1
    BY <2>1, <1>1
  <2>2. CASE i > 1
    <3>1. i - 1 \in DOMAIN k /\ k[i-1] = q[i]
      BY <2>2, <1>1
    <3> QED
      BY <3>1 DEF Range
  <2> QED
    BY <2>1, <2>2
<1>5. Range(q) \subseteq Range(k) \cup {h}
  BY <1>4, <1>1 DEF Range
<1>6. ASSUME IsInjective(q) PROVE IsInjective(k) /\ h \notin Range(k)
  <2>1. ASSUME NEW a \in DOMAIN k, NEW b \in DOMAIN k, k[a] = k[b] PROVE a = b
    <3>1. a + 1 \in DOMAIN q /\ b + 1 \in DOMAIN q /\ q[a+1] = q[b+1]
      BY <1>1, <2>1
    <3>2. a + 1 = b + 1
      BY <3>1, <1>6 DEF IsInjective
    <3> QED
      BY <3>2, <1>1
  <2>2. ASSUME NEW a \in DOMAIN k, k[a] = h PROVE FALSE
    <3>1. a + 1 \in DOMAIN q /\ 1 \in DOMAIN q /\ q[a+1] = q[1] /\ a + 1 # 1
      BY <1>1, <2>2
    <3> QED
      BY <3>1, <1>6 DEF IsInjective
  <2> QED
    BY <2>1, <2>2 DEF IsInjective, Range
<1> QED
  BY <1>1, <1>2, <1>3, <1>5, <1>6 DEF k, h

\* Concatenation holds the elements of both parts.
LEMMA ConcatRange ==
    ASSUME NEW T, NEW q \in Seq(T), NEW r \in Seq(T)
    PROVE  /\ q \o r \in Seq(T) /\ Len(q \o r) = Len(q) + Len(r)
           /\ Range(q \o r) = Range(q) \cup Range(r)
           /\ IsInjective(q) /\ IsInjective(r) /\ Range(q) \cap Range(r) = {}
                => IsInjective(q \o r)
<1> DEFINE k == q \o r
           m == Len(q)
           n == Len(r)
<1>1. /\ k \in Seq(T) /\ Len(k) = m + n /\ m \in Nat /\ n \in Nat
      /\ DOMAIN k = 1..(m + n) /\ DOMAIN q = 1..m /\ DOMAIN r = 1..n
      /\ \A i \in 1..m : k[i] = q[i]
      /\ \A i \in (m+1)..(m+n) : k[i] = r[i-m]
  OBVIOUS
<1> HIDE DEF k, m, n
<1>2. Range(k) \subseteq Range(q) \cup Range(r)
  <2> SUFFICES ASSUME NEW i \in 1..(m+n) PROVE k[i] \in Range(q) \cup Range(r)
    BY <1>1 DEF Range
  <2>1. CASE i <= m
    <3>1. i \in 1..m
      BY <2>1, <1>1
    <3>2. i \in DOMAIN q /\ k[i] = q[i]
      BY <3>1, <1>1
    <3>3. k[i] \in Range(q)
      BY <3>2 DEF Range
    <3> QED
      BY <3>3
  <2>2. CASE i > m
    <3>1. i - m \in 1..n /\ k[i] = r[i-m]
      BY <2>2, <1>1
    <3> QED
      BY <3>1, <1>1 DEF Range
  <2> QED
    BY <2>1, <2>2, <1>1
<1>3. Range(q) \subseteq Range(k)
  BY <1>1 DEF Range
<1>4. ASSUME NEW i \in 1..n PROVE r[i] \in Range(k)
  <2>1. m + i \in DOMAIN k /\ k[m+i] = r[i]
    BY <1>1
  <2> QED
    BY <2>1 DEF Range
<1>5. Range(r) \subseteq Range(k)
  BY <1>1, <1>4 DEF Range
<1>6. ASSUME IsInjective(q), IsInjective(r), Range(q) \cap Range(r) = {},
             NEW a \in DOMAIN k, NEW b \in DOMAIN k, k[a] = k[b]
      PROVE  a = b
  <2>1. CASE a <= m /\ b <= m
    BY <2>1, <1>1, <1>6 DEF IsInjective
  <2>2. CASE a > m /\ b > m
    <3>1. a - m \in 1..n /\ b - m \in 1..n /\ r[a-m] = r[b-m]
      BY <2>2, <1>1, <1>6
    <3> QED
      BY <3>1, <1>1, <1>6 DEF IsInjective
  <2>3. CASE a <= m /\ b > m
    <3>1. k[a] \in Range(q)
      BY <2>3, <1>1 DEF Range
    <3>2. b - m \in 1..n /\ k[b] = r[b-m]
      BY <2>3, <1>1
    <3>3. k[b] \in Range(r)
      BY <3>2, <1>1 DEF Range
    <3> QED
      BY <3>1, <3>3, <1>6
  <2>4. CASE a > m /\ b <= m
    <3>1. k[b] \in Range(q)
      BY <2>4, <1>1 DEF Range
    <3>2. a - m \in 1..n /\ k[a] = r[a-m]
      BY <2>4, <1>1
    <3>3. k[a] \in Range(r)
      BY <3>2, <1>1 DEF Range
    <3> QED
      BY <3>1, <3>3, <1>6
  <2> QED
    BY <2>1, <2>2, <2>3, <2>4, <1>1
<1>7. IsInjective(q) /\ IsInjective(r) /\ Range(q) \cap Range(r) = {}
        => IsInjective(k)
  BY <1>6 DEF IsInjective
<1> QED
  BY <1>1, <1>2, <1>3, <1>5, <1>7 DEF k, m, n

\* A sequence of distinct numbers from 1..n has at most n elements: a queue
\* that never holds a process twice cannot outgrow the number of processes.
LEMMA InjectiveLen ==
    ASSUME NEW n \in Nat, NEW q \in Seq(1..n), IsInjective(q)
    PROVE  Len(q) <= n
<1>1. Len(q) \in Nat /\ q \in [1..Len(q) -> 1..n]
  OBVIOUS
<1>2. IsFiniteSet(1..n) /\ Cardinality(1..n) = n
  BY FS_Interval
<1>3. IsFiniteSet(1..Len(q)) /\ Cardinality(1..Len(q)) = Len(q)
  <2> DEFINE m == Len(q)
  <2>1. m \in Nat
    BY <1>1
  <2> HIDE DEF m
  <2>2. IsFiniteSet(1..m) /\ Cardinality(1..m) = m
    BY <2>1, FS_Interval
  <2> QED
    BY <2>2 DEF m
<1>4. q \in Injection(1..Len(q), 1..n)
  BY <1>1 DEF Injection, IsInjective
<1>5. Cardinality(1..Len(q)) <= Cardinality(1..n)
  BY <1>2, <1>4, FS_Injection DEF ExistsInjection
<1> QED
  BY <1>2, <1>3, <1>5

\* queue_enqueue when the result repeats nothing: the capacity is not met.
LEMMA EnqueueFits ==
    ASSUME NEW n \in Nat, NEW limit \in Nat, n <= limit,
           NEW q \in Seq(1..n), NEW x \in 1..n,
           IsInjective(q), x \notin Range(q)
    PROVE  queue_enqueue(q, x, limit) = Append(q, x)
<1>1. Append(q, x) \in Seq(1..n) /\ IsInjective(Append(q, x))
  BY AppendRange
<1>2. Len(Append(q, x)) = Len(q) + 1 /\ Len(q) \in Nat
  OBVIOUS
<1>3. Len(q) + 1 <= n
  BY <1>1, <1>2, InjectiveLen
<1> QED
  BY <1>2, <1>3 DEF queue_enqueue

\* Within the capacity every item is enqueued, at the end and in order.
LEMMA EnqueueAllFits ==
    ASSUME NEW n \in Nat, NEW limit \in Nat, n <= limit,
           NEW q \in Seq(1..n), NEW r \in Seq(1..n),
           IsInjective(q), IsInjective(r), Range(q) \cap Range(r) = {}
    PROVE  EnqueueAll(q, r, limit) = q \o r
<1>1. /\ q \o r \in Seq(1..n) /\ Len(q \o r) = Len(q) + Len(r)
      /\ IsInjective(q \o r)
  BY ConcatRange
<1>2. Len(q \o r) <= n
  BY <1>1, InjectiveLen
<1> QED
  BY <1>1, <1>2 DEF EnqueueAll

\* Whatever is enqueued, a queue keeps its type and its capacity.
LEMMA EnqueueType ==
    ASSUME NEW T, NEW q \in Seq(T), NEW x \in T, NEW limit \in Nat,
           Len(q) <= limit
    PROVE  /\ queue_enqueue(q, x, limit) \in Seq(T)
           /\ Len(queue_enqueue(q, x, limit)) <= limit
BY DEF queue_enqueue

\* Enqueuing keeps the element type and the capacity.
LEMMA EnqueueAllType ==
    ASSUME NEW T, NEW q \in Seq(T), NEW r \in Seq(T), NEW limit \in Nat,
           Len(q) <= limit
    PROVE  /\ EnqueueAll(q, r, limit) \in Seq(T)
           /\ Len(EnqueueAll(q, r, limit)) <= limit
<1>1. CASE Len(q) + Len(r) <= limit
  BY <1>1, ConcatRange DEF EnqueueAll
<1>2. CASE Len(q) + Len(r) > limit /\ Len(q) < limit
  <2> DEFINE s == SubSeq(r, 1, limit - Len(q))
  <2>1. s \in Seq(T) /\ Len(s) = limit - Len(q)
    BY <1>2
  <2> HIDE DEF s
  <2>2. q \o s \in Seq(T) /\ Len(q \o s) = limit
    BY <2>1
  <2>3. EnqueueAll(q, r, limit) = q \o s
    BY <1>2 DEF EnqueueAll, s
  <2> QED
    BY <2>2, <2>3
<1>3. CASE Len(q) + Len(r) > limit /\ Len(q) >= limit
  BY <1>3 DEF EnqueueAll
<1> QED
  BY <1>1, <1>2, <1>3

-----------------------------------------------------------------------------
(* Division of natural numbers.                                            *)

\* Quotient and remainder are the ones that fit.
LEMMA DivMod ==
  ASSUME NEW b \in Nat \ {0}, NEW k \in Nat, NEW r \in Nat, r < b
  PROVE  (b * k + r) \div b = k /\ (b * k + r) % b = r
<1> DEFINE n == b * k + r
           d == n \div b
           m == n % b
<1>1. n \in Nat /\ b * k \in Nat
  OBVIOUS
<1> HIDE DEF n
<1>2. d \in Nat /\ m \in 0..(b - 1) /\ n = b * d + m
  BY <1>1
<1> HIDE DEF d, m
<1>3. b * d + m = b * k + r
  BY <1>2 DEF n
<1>4. ~(d < k)
  <2>1. SUFFICES ASSUME d < k PROVE FALSE
    OBVIOUS
  <2>2. PICK j \in Nat : k = d + 1 + j
    <3>1. k - d - 1 \in Nat /\ k = d + 1 + (k - d - 1)
      BY <1>2, <2>1
    <3>2. QED
      BY <3>1
  <2>3. b * k = b * d + b + b * j /\ b * j \in Nat /\ b * d \in Nat
    BY <1>2, <2>2
  <2>4. QED
    BY <1>2, <1>3, <2>3
<1>5. ~(k < d)
  <2>1. SUFFICES ASSUME k < d PROVE FALSE
    OBVIOUS
  <2>2. PICK j \in Nat : d = k + 1 + j
    <3>1. d - k - 1 \in Nat /\ d = k + 1 + (d - k - 1)
      BY <1>2, <2>1
    <3>2. QED
      BY <3>1
  <2>3. b * d = b * k + b + b * j /\ b * j \in Nat /\ b * k \in Nat
    BY <1>2, <2>2
  <2>4. QED
    BY <1>2, <1>3, <2>3
<1>6. d = k
  BY <1>2, <1>4, <1>5
<1>7. m = r
  BY <1>1, <1>2, <1>3, <1>6
<1>8. QED
  BY <1>6, <1>7 DEF d, m, n
=============================================================================
