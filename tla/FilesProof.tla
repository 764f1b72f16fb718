---------------------------- MODULE FilesProof ----------------------------
(***************************************************************************)
(* Proofs about open files, the boot, lookups and listings.                *)
(* A process has a list of nodes in the kernel and its FILEs in its        *)
(* memory; an id in a FILE is a position in the list, which a close        *)
(* shifts. What holds of a FILE therefore holds for as long as its reads   *)
(* have reached the node it was opened for: they have brought every byte   *)
(* between where they began and where they are, once.                      *)
(* The boot mounts the root and the device file system and nothing else.   *)
(* The scan of an archive visits every header tar has written, once and in *)
(* order; where no name is part of another, what passes                    *)
(* check_parse_filename is then exactly a directory and its entries, so    *)
(* that paths lead to their own files and listings are complete.           *)
(***************************************************************************)
EXTENDS Files, QueuesProof, SequenceTheorems

-----------------------------------------------------------------------------
(* Lists of anything.                                                      *)

IsList(s) == s \in Seq(Range(s))

LEMMA ListOf ==
  ASSUME NEW S, NEW s \in Seq(S)
  PROVE  IsList(s)
<1>1. s = [i \in 1..Len(s) |-> s[i]] /\ Len(s) \in Nat /\ DOMAIN s = 1..Len(s)
  OBVIOUS
<1>2. \A i \in 1..Len(s) : s[i] \in Range(s)
  BY <1>1 DEF Range
<1>3. QED
  BY <1>1, <1>2 DEF IsList

LEMMA ListFacts ==
  ASSUME NEW s, IsList(s)
  PROVE  Len(s) \in Nat /\ DOMAIN s = 1..Len(s)
BY DEF IsList

LEMMA ListAppend ==
  ASSUME NEW s, NEW e, IsList(s)
  PROVE  /\ IsList(Append(s, e)) /\ Len(Append(s, e)) = Len(s) + 1
         /\ \A i \in 1..Len(s) : Append(s, e)[i] = s[i]
         /\ Append(s, e)[Len(s) + 1] = e
<1> DEFINE S == Range(s) \cup {e}
<1>1. s \in Seq(S) /\ e \in S
  BY DEF IsList
<1> HIDE DEF S
<1>2. Append(s, e) \in Seq(S)
  BY <1>1
<1>3. IsList(Append(s, e))
  BY <1>2, ListOf
<1>4. QED
  BY <1>1, <1>3

LEMMA ListRemove ==
  ASSUME NEW s, IsList(s), NEW k \in 1..Len(s)
  PROVE  /\ IsList(RemoveAt(s, k))
         /\ \A i \in 1..Len(RemoveAt(s, k)) : \E j \in 1..Len(s) : RemoveAt(s, k)[i] = s[j]
<1> DEFINE S == Range(s)
           n == Len(s)
           a == SubSeq(s, 1, k - 1)
           b == SubSeq(s, k + 1, n)
           t == RemoveAt(s, k)
<1>1. s \in Seq(S) /\ n \in Nat
  BY DEF IsList
<1>2. t = a \o b
  BY DEF RemoveAt
<1> HIDE DEF S
<1>3. a \in Seq(S)
  <2>1. \A i \in 1..(k - 1) : s[i] \in S
    BY <1>1
  <2>2. QED
    BY <1>1, <2>1, SubSeqProperties
<1>4. b \in Seq(S)
  <2>1. \A i \in (k + 1)..n : s[i] \in S
    BY <1>1
  <2>2. QED
    BY <1>1, <2>1, SubSeqProperties
<1> HIDE DEF a, b, t
<1>5. t \in Seq(S)
  BY <1>2, <1>3, <1>4
<1>6. ASSUME NEW i \in 1..Len(t) PROVE \E j \in 1..Len(s) : t[i] = s[j]
  <2>1. t[i] \in S
    BY <1>5
  <2>2. DOMAIN s = 1..Len(s)
    BY <1>1
  <2>3. QED
    BY <2>1, <2>2 DEF S, Range
<1>7. QED
  BY <1>5, <1>6, ListOf DEF t

LEMMA ListChange ==
  ASSUME NEW s, IsList(s), NEW k \in 1..Len(s), NEW e
  PROVE  LET t == [s EXCEPT ![k] = e] IN
         /\ IsList(t) /\ Len(t) = Len(s) /\ t[k] = e
         /\ \A i \in 1..Len(s) : i # k => t[i] = s[i]
<1> DEFINE S == Range(s) \cup {e}
           t == [s EXCEPT ![k] = e]
<1>1. s \in Seq(S) /\ e \in S
  BY DEF IsList
<1> HIDE DEF S
<1>2. t \in Seq(S) /\ Len(t) = Len(s) /\ t[k] = e /\ \A i \in 1..Len(s) : i # k => t[i] = s[i]
  BY <1>1
<1>3. IsList(t)
  BY <1>2, ListOf
<1>4. QED
  BY <1>2, <1>3

LEMMA ShortLists ==
  /\ IsList(<<>>) /\ Len(<<>>) = 0
  /\ \A e : IsList(<<e>>) /\ Len(<<e>>) = 1
<1>1. IsList(<<>>)
  <2>1. <<>> \in Seq({})
    OBVIOUS
  <2>2. QED
    BY <2>1, ListOf
<1>2. ASSUME NEW e PROVE IsList(<<e>>)
  <2>1. <<e>> \in Seq({e})
    OBVIOUS
  <2>2. QED
    BY <2>1, ListOf
<1>3. QED
  BY <1>1, <1>2

-----------------------------------------------------------------------------
(* The list of nodes of a process and its FILEs.                           *)

\* What is read of a node whose size is a word, from base to the seek index.
Brought(f) ==
  LET end == IF f.seek_index < f.opened.size THEN f.seek_index ELSE f.opened.size
  IN  IF end > f.base THEN end - f.base ELSE 0

Sized(f) == InArchive(f.opened) /\ f.opened.size \in 0 .. WORD - 1

Fields == {"id", "seek_index", "opened", "base", "got", "seen", "ended", "own"}

FileOK(f) ==
  /\ DOMAIN f = Fields
  /\ f.id \in Nat
  /\ f.seek_index \in 0 .. MaxSeek /\ f.base \in Nat /\ f.base <= f.seek_index
  /\ f.opened # Nil
  /\ f.own \in BOOLEAN
  /\ f.own = TRUE /\ Sized(f) => f.got = Brought(f)

Table(n, f) ==
  /\ IsList(n) /\ IsList(f)
  /\ \A k \in 1..Len(f) : FileOK(f[k])

FilesInv ==
  /\ alive \subseteq Procs
  /\ nodes = [p \in Procs |-> nodes[p]] /\ files = [p \in Procs |-> files[p]]
  /\ \A p \in Procs : Table(nodes[p], files[p])

LEMMA TableEmpty ==
  ASSUME NEW n, IsList(n)
  PROVE  Table(n, <<>>)
BY ListFacts, ShortLists DEF Table

LEMMA TableOpen ==
  ASSUME NEW n, NEW f, NEW e, NEW x, Table(n, f), FileOK(e)
  PROVE  Table(Append(n, x), Append(f, e))
<1> DEFINE m == Append(n, x)
           g == Append(f, e)
<1>1. IsList(n) /\ IsList(f) /\ Len(f) \in Nat
  BY ListFacts DEF Table
<1>2. IsList(m)
  BY <1>1, ListAppend
<1>3. /\ IsList(g) /\ Len(g) = Len(f) + 1 /\ g[Len(f) + 1] = e
      /\ \A i \in 1..Len(f) : g[i] = f[i]
  BY <1>1, ListAppend
<1> HIDE DEF m, g
<1>4. ASSUME NEW k \in 1..Len(g) PROVE FileOK(g[k])
  <2>1. CASE k = Len(f) + 1
    BY <1>1, <1>3, <2>1
  <2>2. CASE k # Len(f) + 1
    <3>1. k \in 1..Len(f) /\ g[k] = f[k]
      BY <1>1, <1>3, <2>2
    <3>2. QED
      BY <3>1 DEF Table
  <2>3. QED
    BY <2>1, <2>2
<1>5. QED
  BY <1>2, <1>3, <1>4 DEF Table, m, g

\* Whatever node and whatever FILE goes, the others stay as they are.
LEMMA TableClose ==
  ASSUME NEW n, NEW m, NEW f, Table(n, f), IsList(m), NEW k \in 1..Len(f)
  PROVE  Table(m, RemoveAt(f, k))
<1> DEFINE g == RemoveAt(f, k)
<1>1. IsList(f)
  BY DEF Table
<1>2. IsList(g) /\ \A i \in 1..Len(g) : \E j \in 1..Len(f) : g[i] = f[j]
  BY <1>1, ListRemove
<1> HIDE DEF g
<1>3. ASSUME NEW i \in 1..Len(g) PROVE FileOK(g[i])
  <2>1. PICK j \in 1..Len(f) : g[i] = f[j]
    BY <1>2
  <2>2. QED
    BY <2>1 DEF Table
<1>4. QED
  BY <1>2, <1>3 DEF Table, g

\* A read, a seek or a listing changes one FILE.
LEMMA TableChange ==
  ASSUME NEW n, NEW f, Table(n, f), NEW k \in 1..Len(f), NEW e, FileOK(e)
  PROVE  Table(n, [f EXCEPT ![k] = e])
<1> DEFINE g == [f EXCEPT ![k] = e]
<1>1. IsList(n) /\ IsList(f)
  BY DEF Table
<1>2. IsList(g) /\ Len(g) = Len(f) /\ g[k] = e /\ \A i \in 1..Len(f) : i # k => g[i] = f[i]
  BY <1>1, ListChange
<1> HIDE DEF g
<1>3. ASSUME NEW i \in 1..Len(g) PROVE FileOK(g[i])
  <2>1. CASE i = k
    BY <1>2, <2>1
  <2>2. CASE i # k
    BY <1>2, <2>2 DEF Table
  <2>3. QED
    BY <2>1, <2>2
<1>4. QED
  BY <1>1, <1>2, <1>3 DEF Table, g

-----------------------------------------------------------------------------
(* Reads.                                                                  *)

\* How many bytes a read brings: those asked for that the file still has.
LEMMA ReadBrings ==
  ASSUME NEW node, NEW s \in Nat, NEW n \in Nat, s + n <= MaxSeek,
         InArchive(node), node.size \in 0 .. WORD - 1, NEW ret \in node_read(node, s, n)
  PROVE  LET all == node.size - s IN
         /\ ret \in Int
         /\ (IF ret > 0 THEN ret ELSE 0) = IF all <= 0 THEN 0 ELSE IF n < all THEN n ELSE all
<1> DEFINE z == node.size
           w == WORD
           h == WORD \div 2
           all == z - s
<1>0. w \in Nat /\ z \in Nat /\ z < w /\ h \in Int /\ MaxSeek < h /\ MaxSeek \in Nat /\ h <= w
  BY FilesAssumption DEF FilesAssumption
<1>1. CASE node.fs = "tar"
  <2>1. ret = read_node_tarfs(node, s, n)
    BY <1>1 DEF node_read
  <2>2. ret = IF s >= z \/ s >= h THEN -1
              ELSE IF (s + n) % w > (z - 1) % w THEN (z - s) % w ELSE n
    BY <1>1, <2>1 DEF read_node_tarfs, InArchive
  <2> HIDE DEF z, w, h
  <2>3. s < h /\ s + n < w
    BY <1>0
  <2>4. CASE s >= z
    BY <1>0, <2>2, <2>4 DEF z
  <2>5. CASE ~(s >= z)
    <3>1. /\ s + n \in 0 .. (w - 1) /\ z - 1 \in 0 .. (w - 1) /\ z - s \in 0 .. (w - 1)
      BY <1>0, <2>3, <2>5
    <3>2. ASSUME NEW a \in 0 .. (w - 1) PROVE a % w = a
      BY <1>0
    <3>3. (s + n) % w = s + n /\ (z - 1) % w = z - 1 /\ (z - s) % w = z - s
      BY <3>1, <3>2
    <3>4. ret = IF s + n > z - 1 THEN z - s ELSE n
      BY <1>0, <2>2, <2>3, <2>5, <3>3
    <3>5. QED
      BY <1>0, <2>5, <3>4 DEF z
  <2>6. QED
    BY <2>4, <2>5 DEF z
<1>2. CASE node.fs # "tar"
  <2>0. node.fs = "dev" /\ node.name = Ramdisk
    BY <1>2 DEF InArchive
  <2>1. ret = initrd_dev_read(node, s, n)
    BY <2>0 DEF node_read, Ramdisk, Vga, Vesa, Ser, Kbd, Gtty
  <2>2. ret = IF s > z THEN -1 ELSE IF s + n > z THEN z - s ELSE n
    BY <2>1 DEF initrd_dev_read
  <2> HIDE DEF z
  <2>3. QED
    BY <1>0, <2>2 DEF z
<1>3. QED
  BY <1>1, <1>2

\* The FILE after a read: the index moves by what was asked for, and what has
\* been brought is still what lies between base and the index.
LEMMA FileRead ==
  ASSUME NEW f, FileOK(f), NEW n \in Nat, NEW node, f.seek_index + n <= MaxSeek, NEW ret,
         node = f.opened => ret \in node_read(node, f.seek_index, n)
  PROVE  FileOK([f EXCEPT !.seek_index = @ + n,
                          !.got = IF ret > 0 /\ node = f.opened THEN @ + ret ELSE @,
                          !.own = @ /\ node = f.opened])
<1> DEFINE same == node = f.opened
           new == IF ret > 0 /\ same THEN f.got + ret ELSE f.got
           own == f.own /\ same
           g == [f EXCEPT !.seek_index = @ + n,
                          !.got = IF ret > 0 /\ node = f.opened THEN @ + ret ELSE @,
                          !.own = @ /\ node = f.opened]
           s == f.seek_index
           b == f.base
           z == f.opened.size
<1>0. s \in Nat /\ b \in Nat /\ b <= s /\ MaxSeek \in Nat
  BY FilesAssumption DEF FileOK, FilesAssumption
<1>1. DOMAIN f = Fields /\ f.opened # Nil /\ f.id \in Nat
  BY DEF FileOK
<1>2. /\ DOMAIN g = Fields
      /\ g.seek_index = s + n /\ g.base = b /\ g.opened = f.opened /\ g.got = new /\ g.id = f.id
  BY <1>1 DEF Fields
<1>3. g.own = own
  <2>1. "own" \in DOMAIN f
    BY <1>1 DEF Fields
  <2>2. QED
    BY <2>1, Zenon
<1>4. own \in BOOLEAN /\ (own = TRUE => f.own = TRUE /\ same)
  BY Zenon DEF FileOK
<1> HIDE DEF own
<1>5. ASSUME g.own = TRUE, Sized(g) PROVE g.got = Brought(g)
  <2>0. f.own = TRUE /\ same
    BY <1>3, <1>4, <1>5
  <2>1. InArchive(node) /\ z \in 0 .. WORD - 1 /\ Sized(f)
    BY <1>2, <1>5, <2>0 DEF Sized
  <2>2. /\ ret \in Int
        /\ (IF ret > 0 THEN ret ELSE 0) = IF z - s <= 0 THEN 0 ELSE IF n < z - s THEN n ELSE z - s
    BY <1>0, <2>0, <2>1, ReadBrings
  <2>3. f.got = IF (IF s < z THEN s ELSE z) > b THEN (IF s < z THEN s ELSE z) - b ELSE 0
    BY <2>0, <2>1 DEF FileOK, Brought
  <2>4. z \in Nat
    BY <2>1, FilesAssumption DEF FilesAssumption
  <2>5. Brought(g) = IF (IF s + n < z THEN s + n ELSE z) > b
                     THEN (IF s + n < z THEN s + n ELSE z) - b ELSE 0
    BY <1>2 DEF Brought
  <2>6. new = IF ret > 0 THEN f.got + ret ELSE f.got
    BY <2>0
  <2> HIDE DEF z, s, b, new
  <2>7. new = IF (IF s + n < z THEN s + n ELSE z) > b
              THEN (IF s + n < z THEN s + n ELSE z) - b ELSE 0
    <3>1. CASE z <= s
      BY <1>0, <2>2, <2>3, <2>4, <2>6, <3>1
    <3>2. CASE s < z /\ s + n < z
      BY <1>0, <2>2, <2>3, <2>4, <2>6, <3>2
    <3>3. CASE s < z /\ ~(s + n < z)
      BY <1>0, <2>2, <2>3, <2>4, <2>6, <3>3
    <3>4. QED
      BY <1>0, <2>4, <3>1, <3>2, <3>3
  <2>8. QED
    BY <1>2, <2>5, <2>7
<1> HIDE DEF g, s, b
<1>6. g.seek_index \in 0 .. MaxSeek /\ g.base \in Nat /\ g.base <= g.seek_index
  BY <1>0, <1>2 DEF s
<1>7. FileOK(g)
  BY <1>1, <1>2, <1>3, <1>4, <1>5, <1>6 DEF FileOK
<1>8. QED
  BY <1>7 DEF g

\* A seek starts the count anew, wherever it goes.
LEMMA FileSeek ==
  ASSUME NEW f, FileOK(f), NEW to \in 0 .. MaxSeek
  PROVE  FileOK([f EXCEPT !.seek_index = to, !.base = to, !.got = 0])
<1> DEFINE g == [f EXCEPT !.seek_index = to, !.base = to, !.got = 0]
<1>1. /\ DOMAIN g = Fields
      /\ g.seek_index = to /\ g.base = to /\ g.got = 0 /\ g.opened = f.opened /\ f.opened # Nil
      /\ g.id = f.id /\ f.id \in Nat /\ g.own = f.own /\ f.own \in BOOLEAN
  BY DEF FileOK, Fields
<1> HIDE DEF g
<1>2. ASSUME Sized(g) PROVE Brought(g) = 0
  <2>1. g.opened.size \in Nat
    BY <1>2, FilesAssumption DEF Sized, FilesAssumption
  <2>2. QED
    BY <1>1, <2>1, FilesAssumption DEF Brought, FilesAssumption
<1>3. FileOK(g)
  BY <1>1, <1>2, FilesAssumption DEF FileOK, FilesAssumption
<1>4. QED
  BY <1>3 DEF g

\* A listing changes what was seen.
LEMMA FileList ==
  ASSUME NEW f, FileOK(f), NEW a, NEW b, NEW same \in BOOLEAN
  PROVE  FileOK([f EXCEPT !.seen = a, !.ended = b, !.own = @ /\ same])
<1> DEFINE own == f.own /\ same
           g == [f EXCEPT !.seen = a, !.ended = b, !.own = @ /\ same]
<1>0. DOMAIN f = Fields /\ f.opened # Nil /\ f.id \in Nat
  BY DEF FileOK
<1>1. /\ DOMAIN g = Fields
      /\ g.seek_index = f.seek_index /\ g.base = f.base /\ g.got = f.got
      /\ g.opened = f.opened /\ g.id = f.id
  BY <1>0 DEF Fields
<1>2. g.own = own
  <2>1. "own" \in DOMAIN f
    BY <1>0 DEF Fields
  <2>2. QED
    BY <2>1, Zenon
<1>3. own \in BOOLEAN /\ (own = TRUE => f.own = TRUE)
  BY Zenon DEF FileOK
<1> HIDE DEF g, own
<1>4. (Sized(g) => Sized(f)) /\ Brought(g) = Brought(f)
  BY <1>1 DEF Sized, Brought
<1>5. FileOK(g)
  BY <1>0, <1>1, <1>2, <1>3, <1>4 DEF FileOK
<1>6. QED
  BY <1>5 DEF g

-----------------------------------------------------------------------------
(* The steps.                                                              *)

\* A step that changes the list and the FILEs of one process.
LEMMA OneProcess ==
  ASSUME FilesInv, NEW p \in Procs, NEW n, NEW f, Table(n, f), alive' \subseteq Procs,
         nodes' = [nodes EXCEPT ![p] = n], files' = [files EXCEPT ![p] = f]
  PROVE  FilesInv'
<1>1. /\ nodes' = [q \in Procs |-> nodes'[q]] /\ files' = [q \in Procs |-> files'[q]]
  BY DEF FilesInv
<1>2. ASSUME NEW q \in Procs PROVE Table(nodes'[q], files'[q])
  <2>1. CASE q = p
    <3>1. nodes'[q] = n /\ files'[q] = f
      BY <2>1 DEF FilesInv
    <3>2. QED
      BY <3>1
  <2>2. CASE q # p
    <3>1. nodes'[q] = nodes[q] /\ files'[q] = files[q]
      BY <2>2 DEF FilesInv
    <3>2. QED
      BY <3>1 DEF FilesInv
  <2>3. QED
    BY <2>1, <2>2
<1>3. QED
  BY <1>1, <1>2 DEF FilesInv, Table, IsList, FileOK, Sized, Brought, InArchive

\* A step of the boot, or one that only prints.
LEMMA NoProcess ==
  ASSUME FilesInv, UNCHANGED <<alive, nodes, files>>
  PROVE  FilesInv'
BY DEF FilesInv

\* A step that changes one FILE.
LEMMA OneFile ==
  ASSUME FilesInv, NEW p \in Procs, NEW k \in DOMAIN files[p], NEW e, FileOK(e),
         UNCHANGED <<alive, nodes>>, files' = [files EXCEPT ![p][k] = e]
  PROVE  FilesInv'
<1> DEFINE f == [files[p] EXCEPT ![k] = e]
<1>1. Table(nodes[p], files[p]) /\ alive' \subseteq Procs
  BY DEF FilesInv
<1>2. k \in 1..Len(files[p])
  BY <1>1, ListFacts DEF Table
<1>3. Table(nodes[p], f)
  BY <1>1, <1>2, TableChange
<1>4. nodes' = [nodes EXCEPT ![p] = nodes[p]] /\ files' = [files EXCEPT ![p] = f]
  BY DEF FilesInv
<1> HIDE DEF f
<1>5. QED
  BY <1>1, <1>3, <1>4, OneProcess

LEMMA SpawnStep ==
  ASSUME FilesInv, NEW p \in Procs, NEW path, loader_spawn(p, path)
  PROVE  FilesInv'
<1> DEFINE n == <<vfs_find_node(Abs(<<Dev, Gtty>>))>>
<1>1. /\ nodes' = [nodes EXCEPT ![p] = n] /\ files' = [files EXCEPT ![p] = <<>>]
      /\ alive' = alive \union {p}
  BY DEF loader_spawn
<1>2. IsList(n)
  BY ShortLists
<1> HIDE DEF n
<1>3. Table(n, <<>>)
  BY <1>2, TableEmpty
<1>4. alive' \subseteq Procs
  BY <1>1 DEF FilesInv
<1>5. QED
  BY <1>1, <1>3, <1>4, OneProcess

LEMMA ForkStep ==
  ASSUME FilesInv, NEW p \in Procs, NEW c \in Procs, sysc_fork(p, c)
  PROVE  FilesInv'
<1>1. /\ nodes' = [nodes EXCEPT ![c] = nodes[p]] /\ files' = [files EXCEPT ![c] = files[p]]
      /\ alive' = alive \union {c}
  BY DEF sysc_fork
<1>2. Table(nodes[p], files[p])
  BY DEF FilesInv
<1>3. alive' \subseteq Procs
  BY <1>1 DEF FilesInv
<1>4. QED
  BY <1>1, <1>2, <1>3, OneProcess

\* The list is kept and the FILEs go, or both go.
LEMMA ExecStep ==
  ASSUME FilesInv, NEW p \in Procs, NEW path, sysc_execve(p, path)
  PROVE  FilesInv'
<1> DEFINE n == IF p \in alive' THEN nodes[p] ELSE <<>>
<1>1. files' = [files EXCEPT ![p] = <<>>] /\ alive' \subseteq alive
  BY DEF sysc_execve
<1>2. nodes' = [nodes EXCEPT ![p] = n]
  BY DEF sysc_execve, FilesInv
<1>3. IsList(n)
  BY ShortLists DEF FilesInv, Table
<1>4. alive' \subseteq Procs
  BY <1>1 DEF FilesInv
<1> HIDE DEF n
<1>5. Table(n, <<>>)
  BY <1>3, TableEmpty
<1>6. QED
  BY <1>1, <1>2, <1>4, <1>5, OneProcess

LEMMA ExitStep ==
  ASSUME FilesInv, NEW p \in Procs, sysc_exit(p)
  PROVE  FilesInv'
<1>1. /\ nodes' = [nodes EXCEPT ![p] = <<>>] /\ files' = [files EXCEPT ![p] = <<>>]
      /\ alive' = alive \ {p}
  BY DEF sysc_exit
<1>2. Table(<<>>, <<>>)
  BY ShortLists, TableEmpty
<1>3. alive' \subseteq Procs
  BY <1>1 DEF FilesInv
<1>4. QED
  BY <1>1, <1>2, <1>3, OneProcess

\* The new FILE has read nothing.
LEMMA OpenStep ==
  ASSUME FilesInv, NEW p \in Procs, NEW path, fopen(p, path)
  PROVE  FilesInv'
<1> DEFINE x == vfs_find_node(path)
           e == [id |-> Len(nodes[p]), seek_index |-> 0, opened |-> x, base |-> 0, got |-> 0,
                 seen |-> <<>>, ended |-> FALSE, own |-> TRUE]
           n == Append(nodes[p], x)
           f == Append(files[p], e)
<1>1. Table(nodes[p], files[p]) /\ DOMAIN nodes = Procs /\ DOMAIN files = Procs
  BY DEF FilesInv
<1>2. /\ x # Nil /\ UNCHANGED alive
      /\ nodes' = [nodes EXCEPT ![p] = n] /\ files' = [files EXCEPT ![p] = f]
  BY <1>1 DEF fopen
<1>3. /\ e.id = Len(nodes[p]) /\ e.opened = x /\ e.seek_index = 0 /\ e.base = 0 /\ e.got = 0
      /\ DOMAIN e = Fields /\ e.own = TRUE
  BY DEF Fields
<1>3a. Len(nodes[p]) \in Nat
  BY <1>1, ListFacts DEF Table
<1> HIDE DEF x, e
<1>4. Sized(e) => Brought(e) = 0
  <2>1. ASSUME Sized(e) PROVE e.opened.size \in Nat
    BY <2>1, FilesAssumption DEF Sized, FilesAssumption
  <2>2. QED
    BY <1>3, <2>1 DEF Brought
<1>5. FileOK(e)
  <2>1. e.own \in BOOLEAN /\ e.id \in Nat /\ DOMAIN e = Fields /\ e.opened # Nil
    BY <1>2, <1>3, <1>3a
  <2>2. e.seek_index \in 0 .. MaxSeek /\ e.base \in Nat /\ e.base <= e.seek_index
    BY <1>3, FilesAssumption DEF FilesAssumption
  <2>3. QED
    BY <1>3, <1>4, <2>1, <2>2 DEF FileOK
<1>6. Table(n, f)
  BY <1>1, <1>5, TableOpen
<1>7. alive' \subseteq Procs
  BY <1>2 DEF FilesInv
<1> HIDE DEF n, f
<1>8. QED
  BY <1>2, <1>6, <1>7, OneProcess

\* Any FILE is closed; the node at its id goes, or any node, or none.
LEMMA CloseStep ==
  ASSUME FilesInv, NEW p \in Procs, NEW k, fclose(p, k)
  PROVE  FilesInv'
<1> DEFINE f == RemoveAt(files[p], k)
           id == files[p][k].id
<1>1. Table(nodes[p], files[p]) /\ DOMAIN nodes = Procs /\ DOMAIN files = Procs
  BY DEF FilesInv
<1>2. k \in DOMAIN files[p] /\ UNCHANGED alive /\ files' = [files EXCEPT ![p] = f]
  BY <1>1 DEF fclose
<1>3. k \in 1..Len(files[p]) /\ IsList(nodes[p]) /\ DOMAIN nodes[p] = 1..Len(nodes[p])
      /\ Len(nodes[p]) \in Nat
  BY <1>1, <1>2, ListFacts DEF Table
<1>4. id \in Nat
  BY <1>1, <1>3 DEF Table, FileOK
<1>5. PICK n \in Closed(nodes[p], id) : nodes' = [nodes EXCEPT ![p] = n]
  BY DEF fclose
<1>6. IsList(n)
  <2>1. n = nodes[p] \/ \E i \in 1..Len(nodes[p]) : n = RemoveAt(nodes[p], i)
    <3>1. CASE id < Len(nodes[p])
      <4>1. id + 1 \in 1..Len(nodes[p]) /\ n = RemoveAt(nodes[p], id + 1)
        BY <1>3, <1>4, <1>5, <3>1 DEF Closed
      <4>2. QED
        BY <4>1
    <3>2. CASE ~(id < Len(nodes[p]))
      BY <1>3, <1>5, <3>2 DEF Closed
    <3>3. QED
      BY <3>1, <3>2
  <2>2. QED
    BY <1>3, <2>1, ListRemove
<1>7. Table(n, f)
  BY <1>1, <1>3, <1>6, TableClose
<1>8. alive' \subseteq Procs
  BY <1>2 DEF FilesInv
<1> HIDE DEF f
<1>9. QED
  BY <1>2, <1>5, <1>7, <1>8, OneProcess

LEMMA OpenFile ==
  ASSUME FilesInv, NEW p \in Procs, NEW k \in DOMAIN files[p]
  PROVE  FileOK(files[p][k])
<1>1. Table(nodes[p], files[p])
  BY DEF FilesInv
<1>2. k \in 1..Len(files[p])
  BY <1>1, ListFacts DEF Table
<1>3. QED
  BY <1>1, <1>2 DEF Table

\* Either nothing is read, or one FILE moves by what was asked for.
LEMMA ReadStep ==
  ASSUME FilesInv, NEW p \in Procs, NEW k, NEW size \in Nat, fread(p, k, size)
  PROVE  FilesInv'
<1> DEFINE f == files[p][k]
           node == sysc_get_proc_node(p, f.id)
           After(ret) == [f EXCEPT !.seek_index = @ + size,
                                   !.got = IF ret > 0 /\ node = f.opened THEN @ + ret ELSE @,
                                   !.own = @ /\ node = f.opened]
<1>1. k \in DOMAIN files[p] /\ f.seek_index + size <= MaxSeek /\ UNCHANGED <<alive, nodes>>
  BY DEF fread, Call
<1>2. FileOK(f)
  BY <1>1, OpenFile
<1>3. \/ UNCHANGED files
      \/ \E ret \in IF node = Nil THEN {-1} ELSE node_read(node, f.seek_index, size) :
           files' = [files EXCEPT ![p][k] = After(ret)]
  BY Zenon DEF fread
<1>4. CASE UNCHANGED files
  BY <1>1, <1>4, NoProcess
<1>5. ASSUME NEW ret \in IF node = Nil THEN {-1} ELSE node_read(node, f.seek_index, size),
             files' = [files EXCEPT ![p][k] = After(ret)]
      PROVE  FilesInv'
  <2>1. node = f.opened => ret \in node_read(node, f.seek_index, size)
    BY <1>2, <1>5, Zenon DEF FileOK
  <2> DEFINE e == After(ret)
  <2>2. FileOK(e)
    <3> HIDE DEF node
    <3>1. QED
      BY <1>1, <1>2, <2>1, FileRead
  <2>3. files' = [files EXCEPT ![p][k] = e]
    BY <1>5
  <2> HIDE DEF e
  <2>4. QED
    BY <1>1, <2>2, <2>3, OneFile
<1>6. QED
  BY <1>3, <1>4, <1>5, Zenon

\* A write moves the index, and the reads begin anew.
LEMMA WriteStep ==
  ASSUME FilesInv, NEW p \in Procs, NEW k, NEW size \in Nat, fwrite(p, k, size)
  PROVE  FilesInv'
<1> DEFINE f == files[p][k]
           to == f.seek_index + size
           e == [f EXCEPT !.seek_index = to, !.base = to, !.got = 0]
<1>1. k \in DOMAIN files[p] /\ to <= MaxSeek /\ UNCHANGED <<alive, nodes>>
  BY DEF fwrite, Call
<1>2. FileOK(f)
  BY <1>1, OpenFile
<1>3. UNCHANGED files \/ files' = [files EXCEPT ![p][k] = e]
  BY Zenon DEF fwrite
<1>4. to \in 0 .. MaxSeek
  BY <1>1, <1>2, FilesAssumption DEF FileOK, FilesAssumption
<1> HIDE DEF to
<1>5. FileOK(e)
  BY <1>2, <1>4, FileSeek
<1> HIDE DEF e
<1>6. QED
  BY <1>1, <1>3, <1>5, OneFile, NoProcess

LEMMA SeekStep ==
  ASSUME FilesInv, NEW p \in Procs, NEW k, NEW offset \in Nat,
         NEW origin \in {"SEEK_SET", "SEEK_CUR", "SEEK_END"}, fseek(p, k, offset, origin)
  PROVE  FilesInv'
<1> DEFINE f == files[p][k]
           to == CASE origin = "SEEK_SET" -> offset
                   [] origin = "SEEK_CUR" -> f.seek_index + offset
                   [] origin = "SEEK_END" -> f.seek_index
           e == [f EXCEPT !.seek_index = to, !.base = to, !.got = 0]
<1>1. /\ k \in DOMAIN files[p] /\ to <= MaxSeek /\ UNCHANGED <<alive, nodes>>
      /\ files' = [files EXCEPT ![p][k] = e]
  BY DEF fseek
<1>2. FileOK(f)
  BY <1>1, OpenFile
<1>3. f.seek_index \in Nat /\ MaxSeek \in Nat
  BY <1>2, FilesAssumption DEF FileOK, FilesAssumption
<1>4. to \in Nat
  BY <1>3
<1> HIDE DEF to
<1>5. to \in 0 .. MaxSeek
  BY <1>1, <1>3, <1>4
<1>6. FileOK(e)
  BY <1>2, <1>5, FileSeek
<1> HIDE DEF e
<1>7. QED
  BY <1>1, <1>6, OneFile

LEMMA ListStep ==
  ASSUME FilesInv, NEW p \in Procs, NEW k, ls_main(p, k)
  PROVE  FilesInv'
<1> DEFINE f == files[p][k]
           found == sysc_list(p, f.id, Len(f.seen))
           seen == IF found = Nil THEN f.seen ELSE Append(f.seen, found.name)
           same == sysc_get_proc_node(p, f.id) = f.opened
           e == [f EXCEPT !.seen = seen, !.ended = found = Nil, !.own = @ /\ same]
<1>1. k \in DOMAIN files[p] /\ UNCHANGED <<alive, nodes>>
  BY DEF ls_main
<1>2. files' = [files EXCEPT ![p][k] = e]
  BY Zenon DEF ls_main
<1>3. FileOK(f) /\ same \in BOOLEAN
  BY <1>1, OpenFile
<1> HIDE DEF found, seen, same
<1>4. FileOK(e)
  BY <1>3, FileList
<1> HIDE DEF e
<1>5. QED
  BY <1>1, <1>2, <1>4, OneFile

-----------------------------------------------------------------------------
(* The theorems.                                                           *)

LEMMA FilesInvInit == Init => FilesInv
<1>1. SUFFICES ASSUME Init PROVE FilesInv
  OBVIOUS
<1>2. /\ alive = {} /\ nodes = [p \in Procs |-> <<>>] /\ files = [p \in Procs |-> <<>>]
  BY <1>1 DEF Init
<1>3. Table(<<>>, <<>>)
  BY ShortLists, TableEmpty
<1>4. QED
  BY <1>2, <1>3 DEF FilesInv

LEMMA FilesInvNext ==
  ASSUME FilesInv, [Next]_vars
  PROVE  FilesInv'
<1>1. CASE UNCHANGED vars
  BY <1>1, NoProcess DEF vars
<1>2. CASE \/ initialise_vfs_layer \/ initialise_devfs \/ init_device
           \/ create_tarfs_filesystem \/ kputchar
  <2>1. UNCHANGED <<alive, nodes, files>>
    BY <1>2 DEF initialise_vfs_layer, initialise_devfs, init_device, create_tarfs_filesystem,
                kputchar
  <2>2. QED
    BY <2>1, NoProcess
<1>3. ASSUME NEW p \in Procs, sysc_exit(p) PROVE FilesInv'
  BY <1>3, ExitStep
<1>4. ASSUME NEW p \in Procs, NEW path \in Paths,
             loader_spawn(p, path) \/ sysc_execve(p, path) \/ fopen(p, path)
      PROVE  FilesInv'
  BY <1>4, SpawnStep, ExecStep, OpenStep
<1>5. ASSUME NEW p \in Procs, NEW c \in Procs, sysc_fork(p, c) PROVE FilesInv'
  BY <1>5, ForkStep
<1>6. ASSUME NEW p \in Procs, NEW k \in 1 .. MaxOpen, fclose(p, k) \/ ls_main(p, k) \/ ioctl(p, k)
      PROVE  FilesInv'
  <2>1. CASE ioctl(p, k)
    BY <2>1, NoProcess DEF ioctl, Call
  <2>2. QED
    BY <1>6, <2>1, CloseStep, ListStep
<1>7. ASSUME NEW p \in Procs, NEW k \in 1 .. MaxOpen, NEW n \in Requests,
             \/ fread(p, k, n) \/ fwrite(p, k, n)
             \/ \E origin \in {"SEEK_SET", "SEEK_CUR", "SEEK_END"} : fseek(p, k, n, origin)
      PROVE  FilesInv'
  <2>1. n \in Nat
    BY FilesAssumption DEF FilesAssumption
  <2>2. QED
    BY <1>7, <2>1, ReadStep, WriteStep, SeekStep
<1>8. QED
  BY <1>1, <1>2, <1>3, <1>4, <1>5, <1>6, <1>7, Zenon DEF Next

\* The FILEs of every process whose id has not been shifted have brought what lies between
\* where they began and where they are.
LEMMA FilesInvariant == Spec => []FilesInv
<1>1. FilesInv /\ [Next]_vars => FilesInv'
  BY FilesInvNext
<1>2. QED
  BY <1>1, FilesInvInit, PTL DEF Spec

\* Reads of a file of the archive, or of the ramdisk, bring every byte once, up to the end
\* and no further, whatever sizes are asked for, wherever a seek went and whatever else the
\* process opens, closes, writes or clones, as long as the id of the FILE still stands for
\* the file (fread, fseek, read_node_tarfs, initrd_dev_read): the modular arithmetic of
\* read_node_tarfs is exact as long as the index stays below half a word.
THEOREM BytesReadOnce == Spec => []ReadsOnce
<1>1. FilesInv => ReadsOnce
  <2>1. SUFFICES ASSUME FilesInv, NEW p \in alive, NEW k \in DOMAIN files[p],
                        files[p][k].own, Sized(files[p][k])
                 PROVE  files[p][k].got = Brought(files[p][k])
    BY Zenon DEF ReadsOnce, Sized, Brought
  <2>2. p \in Procs
    BY <2>1 DEF FilesInv
  <2>3. FileOK(files[p][k])
    BY <2>1, <2>2, OpenFile
  <2>4. files[p][k].own = TRUE
    BY <2>1, <2>3, Zenon DEF FileOK
  <2>5. QED
    BY <2>1, <2>3, <2>4 DEF FileOK
<1>2. QED
  BY <1>1, FilesInvariant, PTL
-----------------------------------------------------------------------------
(* The boot.  The root and the device file system are the only mounts, and *)
(* the root is a stub until the archive takes its place.                   *)

Stubbed == [path |-> <<>>, node |-> Stub(Slash)]
Rooted(root) == <<[path |-> <<>>, node |-> root], [path |-> <<Dev>>, node |-> DevRoot]>>

\* A device made by the drivers that have run.
Made(d) == d.fs = "dev" /\ \E j \in 1..(boot - 2) : d.name = DeviceOrder[j]

DevicesOK ==
  /\ IsList(devices)
  /\ \A i \in 1..Len(devices) : Made(devices[i])
  /\ \A i, j \in 1..Len(devices) : devices[i].name = devices[j].name => i = j
  /\ boot >= 6 => \E i \in 1..Len(devices) : devices[i].name = Ramdisk

\* The inductive invariant of the boot.
BootInv ==
  /\ boot \in 0..9
  /\ boot = 0 => mounts = <<>>
  /\ boot = 1 => mounts = <<Stubbed>>
  /\ boot \in 2..8 => mounts = Rooted(Stub(Slash))
  /\ boot = 9 => \E size : mounts = Rooted(TarRoot(<<>>, size))
  /\ DevicesOK

LEMMA Largest ==
  ASSUME NEW n \in Int
  PROVE  Max({n}) = n /\ Min({n}) = n
<1>1. Max({n}) = n
  BY DEF Max
<1>2. Min({n}) = n
  BY DEF Min
<1>3. QED
  BY <1>1, <1>2

LEMMA MaxIs ==
  ASSUME NEW S, S \subseteq Int, NEW m \in S, \A x \in S : x <= m
  PROVE  Max(S) = m
<1>1. \A y \in S : (\A x \in S : y >= x) => y = m
  OBVIOUS
<1>2. m \in S /\ \A x \in S : m >= x
  OBVIOUS
<1>3. QED
  BY <1>1, <1>2, Zenon DEF Max

LEMMA MinIs ==
  ASSUME NEW S, S \subseteq Int, NEW m \in S, \A x \in S : m <= x
  PROVE  Min(S) = m
<1>1. \A y \in S : (\A x \in S : y <= x) => y = m
  OBVIOUS
<1>2. QED
  BY <1>1, Zenon DEF Min

\* Sequences of names with one or two of them.
LEMMA OneName ==
  ASSUME NEW a
  PROVE  /\ Len(<<a>>) = 1 /\ <<a>>[1] = a /\ <<a>> # <<>>
         /\ SubSeq(<<a>>, 1, 0) = <<>> /\ SubSeq(<<a>>, 1, 1) = <<a>> /\ SubSeq(<<a>>, 2, 1) = <<>>
         /\ Front(<<a>>) = <<>> /\ Last(<<a>>) = a
<1>1. <<a>> \in Seq({a})
  OBVIOUS
<1>2. /\ Len(<<a>>) = 1 /\ <<a>>[1] = a /\ <<a>> # <<>>
  OBVIOUS
<1>3. SubSeq(<<a>>, 1, 0) = <<>> /\ SubSeq(<<a>>, 2, 1) = <<>>
  BY <1>1, <1>2, EmptySeq
<1>4. SubSeq(<<a>>, 1, 1) = <<a>>
  BY <1>1, <1>2, SubSeqFull
<1>5. QED
  BY <1>2, <1>3, <1>4 DEF Front, Last

LEMMA TwoNames ==
  ASSUME NEW a, NEW b
  PROVE  /\ Len(<<a, b>>) = 2 /\ <<a, b>>[1] = a /\ <<a, b>>[2] = b /\ <<a, b>> # <<>>
         /\ SubSeq(<<a, b>>, 1, 0) = <<>> /\ SubSeq(<<a, b>>, 1, 1) = <<a>>
         /\ SubSeq(<<a, b>>, 2, 2) = <<b>>
<1>1. <<a, b>> \in Seq({a, b})
  OBVIOUS
<1>2. /\ Len(<<a, b>>) = 2 /\ <<a, b>>[1] = a /\ <<a, b>>[2] = b /\ <<a, b>> # <<>>
  OBVIOUS
<1>3. SubSeq(<<a, b>>, 1, 0) = <<>>
  BY <1>1, <1>2, EmptySeq
<1>4. ASSUME NEW i \in {1, 2} PROVE SubSeq(<<a, b>>, i, i) = <<(<<a, b>>[i])>>
  <2> DEFINE s == <<a, b>>
             t == SubSeq(s, i, i)
  <2>1. i \in Nat /\ i >= 1 /\ i <= Len(s) /\ i - 1 \in Nat
    BY <1>2
  <2>2. s \in Seq({a, b})
    BY <1>1
  <2> HIDE DEF s
  <2>3. SubSeq(s, i, i) = SubSeq(s, i, i - 1) \o <<s[i]>>
    BY <2>1, <2>2, SubSeqRecursiveSecond
  <2>4. SubSeq(s, i, i - 1) = <<>>
    BY <2>1, <2>2, SubSeqEmpty
  <2>5. <<>> \o <<s[i]>> = <<s[i]>>
    <3>1. <<s[i]>> \in Seq({s[i]})
      OBVIOUS
    <3>2. QED
      BY <3>1, ConcatEmptySeq
  <2>6. QED
    BY <2>3, <2>4, <2>5 DEF s
<1>5. QED
  <2>1. SubSeq(<<a, b>>, 1, 1) = <<(<<a, b>>[1])>> /\ SubSeq(<<a, b>>, 2, 2) = <<(<<a, b>>[2])>>
    BY <1>4
  <2>2. QED
    BY <1>2, <1>3, <2>1

LEMMA TwoListed ==
  ASSUME NEW a, NEW b
  PROVE  <<a>> \o <<b>> = <<a, b>>
<1>1. <<a>> \in Seq({a, b}) /\ <<b>> \in Seq({a, b}) /\ <<a, b>> \in Seq({a, b})
  OBVIOUS
<1>2. Len(<<a>>) = 1 /\ Len(<<b>>) = 1 /\ Len(<<a, b>>) = 2
  OBVIOUS
<1>3. /\ <<a>> \o <<b>> \in Seq({a, b}) /\ Len(<<a>> \o <<b>>) = 2
      /\ (<<a>> \o <<b>>)[1] = a /\ (<<a>> \o <<b>>)[2] = b
  BY <1>1, <1>2, ConcatProperties
<1>4. <<a, b>>[1] = a /\ <<a, b>>[2] = b
  OBVIOUS
<1>5. \A i \in 1..2 : i = 1 \/ i = 2
  OBVIOUS
<1>6. QED
  BY <1>1, <1>2, <1>3, <1>4, <1>5, SeqEqual

LEMMA DeviceNames ==
  /\ Len(DeviceOrder) = 6
  /\ \A i, j \in 1..6 : DeviceOrder[i] = DeviceOrder[j] => i = j
  /\ DeviceOrder[4] = Ramdisk
<1>1. \A i \in 1..6 : DeviceOrder[i] =
         CASE i = 1 -> Ser [] i = 2 -> Vga [] i = 3 -> Vesa
           [] i = 4 -> Ramdisk [] i = 5 -> Kbd [] i = 6 -> Gtty
  BY DEF DeviceOrder
<1>2. Len(DeviceOrder) = 6
  BY DEF DeviceOrder
<1>3. /\ Ser[1] = "ser" /\ Vga[1] = "vga" /\ Vesa[1] = "vesa" /\ Ramdisk[1] = "ramdisk"
      /\ Kbd[1] = "kbd" /\ Gtty[1] = "gtty"
  BY DEF Ser, Vga, Vesa, Ramdisk, Kbd, Gtty
<1>4. \A i, j \in 1..6 : DeviceOrder[i] = DeviceOrder[j] => i = j
  BY <1>1, <1>3
<1>5. QED
  BY <1>1, <1>2, <1>4

-----------------------------------------------------------------------------
(* What a lookup finds while these are the mounts.                         *)

\* With a root only, the root is found.
LEMMA RootAlone ==
  ASSUME mounts = <<Stubbed>>
  PROVE  /\ DOMAIN mounts = {1} /\ mounts[1] = Stubbed
         /\ vfs_find_node(Abs(<<>>)) = Stub(Slash)
<1>1. DOMAIN mounts = {1} /\ mounts[1] = Stubbed
  OBVIOUS
<1>2. IndexOf(mounts, <<>>) = 1
  BY <1>1 DEF IndexOf, Stubbed
<1>3. DataAt(mounts, <<>>) = Stub(Slash)
  BY <1>1, <1>2 DEF DataAt, Stubbed
<1>4. QED
  BY <1>1, <1>3 DEF vfs_find_node, Abs

LEMMA RootedFacts ==
  ASSUME NEW root, mounts = Rooted(root)
  PROVE  /\ DOMAIN mounts = {1, 2}
         /\ mounts[1] = [path |-> <<>>, node |-> root]
         /\ mounts[2] = [path |-> <<Dev>>, node |-> DevRoot]
         /\ DataAt(mounts, <<>>) = root
         /\ DataAt(mounts, <<Dev>>) = DevRoot
<1>1. /\ DOMAIN mounts = {1, 2}
      /\ mounts[1] = [path |-> <<>>, node |-> root]
      /\ mounts[2] = [path |-> <<Dev>>, node |-> DevRoot]
  BY DEF Rooted
<1>2. <<Dev>> # <<>>
  BY OneName
<1>3. IndexOf(mounts, <<>>) = 1 /\ IndexOf(mounts, <<Dev>>) = 2
  BY <1>1, <1>2 DEF IndexOf
<1>4. QED
  BY <1>1, <1>3 DEF DataAt

LEMMA RootedWalk ==
  ASSUME NEW root, mounts = Rooted(root)
  PROVE  /\ \A name : Descends(<<>>, name) <=> name = Dev
         /\ \A name : Moves(<<>>, name) <=> name = Dev
         /\ \A name : ~Descends(<<Dev>>, name) /\ ~Moves(<<Dev>>, name)
<1>1. /\ DOMAIN mounts = {1, 2} /\ mounts[1].path = <<>> /\ mounts[2].path = <<Dev>>
  <2>1. /\ DOMAIN mounts = {1, 2} /\ mounts[1] = [path |-> <<>>, node |-> root]
        /\ mounts[2] = [path |-> <<Dev>>, node |-> DevRoot]
    BY RootedFacts
  <2>2. QED
    BY <2>1
<1>2. <<Dev>> # <<>> /\ Front(<<Dev>>) = <<>> /\ Last(<<Dev>>) = Dev
  BY OneName
<1>3. SubTrees(mounts, <<>>) = {2} /\ SubTrees(mounts, <<Dev>>) = {}
  BY <1>1, <1>2 DEF SubTrees
<1>4. Max({2}) = 2
  BY Largest
<1>5. QED
  BY <1>1, <1>2, <1>3, <1>4, Zenon DEF Descends, Moves

\* With the device file system mounted, it is found, and below it what its own
\* directory has; everything else is looked up in the root.
LEMMA RootedFinds ==
  ASSUME NEW root, mounts = Rooted(root)
  PROVE  /\ vfs_find_node(Abs(<<>>)) = root
         /\ vfs_find_node(Abs(<<Dev>>)) = DevRoot
         /\ \A name : vfs_find_node(Abs(<<Dev, name>>)) = find_in_directory_devfs(devices, <<name>>)
<1>1. DataAt(mounts, <<>>) = root /\ DataAt(mounts, <<Dev>>) = DevRoot
  BY RootedFacts
<1>2. vfs_find_node(Abs(<<>>)) = root
  BY <1>1 DEF vfs_find_node, Abs
<1>3. vfs_find_node(Abs(<<Dev>>)) = DevRoot
  <2> DEFINE parts == <<Dev>>
             ks == {k \in 0..Len(parts) : \A j \in 1..k : Descends(SubSeq(parts, 1, j - 1), parts[j])}
  <2>1. Len(parts) = 1 /\ parts[1] = Dev /\ SubSeq(parts, 1, 0) = <<>>
    BY OneName
  <2>2. Descends(<<>>, Dev)
    BY RootedWalk
  <2>3. ks = 0..1
    <3> HIDE DEF parts
    <3>1. 1..0 = {} /\ 1..1 = {1} /\ 0..1 = {0, 1} /\ 1 - 1 = 0
      OBVIOUS
    <3>2. QED
      BY <2>1, <2>2, <3>1
  <2> HIDE DEF ks
  <2>4. Max(ks) = 1
    BY <2>3, MaxIs
  <2>5. Depth(parts) = 1
    BY <2>4 DEF Depth, ks
  <2>6. SubSeq(parts, 1 + 1, Len(parts)) = <<>> /\ SubSeq(parts, 1, 1) = <<Dev>> /\ parts # <<>>
    BY <2>1, OneName
  <2>7. Abs(parts).abs /\ Abs(parts).parts = parts
    BY DEF Abs
  <2> HIDE DEF parts
  <2>8. vfs_find_node(Abs(parts)) = DataAt(mounts, <<Dev>>)
    BY <2>5, <2>6, <2>7 DEF vfs_find_node
  <2>9. QED
    BY <1>1, <2>8 DEF parts
<1>4. ASSUME NEW name PROVE vfs_find_node(Abs(<<Dev, name>>)) = find_in_directory_devfs(devices, <<name>>)
  <2> DEFINE parts == <<Dev, name>>
             ks == {k \in 0..Len(parts) : \A j \in 1..k : Descends(SubSeq(parts, 1, j - 1), parts[j])}
  <2>1. /\ Len(parts) = 2 /\ parts[1] = Dev /\ parts[2] = name
        /\ SubSeq(parts, 1, 0) = <<>> /\ SubSeq(parts, 1, 1) = <<Dev>>
        /\ SubSeq(parts, 2, 2) = <<name>> /\ parts # <<>>
    BY TwoNames
  <2>2. Descends(<<>>, Dev) /\ ~Descends(<<Dev>>, name) /\ ~Moves(<<Dev>>, name)
    BY RootedWalk
  <2> HIDE DEF parts
  <2>3. ks = 0..1
    <3>1. 1..0 = {} /\ 1..1 = {1} /\ 1..2 = {1, 2} /\ 0..2 = {0, 1, 2} /\ 1 - 1 = 0 /\ 2 - 1 = 1
      OBVIOUS
    <3>2. 0 \in ks /\ 1 \in ks
      BY <2>1, <2>2, <3>1
    <3>3. 2 \notin ks
      BY <2>1, <2>2, <3>1, Zenon
    <3>4. ks \subseteq 0..2
      BY <2>1
    <3>5. QED
      BY <3>2, <3>3, <3>4
  <2> HIDE DEF ks
  <2>4. Max(ks) = 1
    BY <2>3, MaxIs
  <2>5. Depth(parts) = 1
    BY <2>4 DEF Depth, ks
  <2>6. Abs(parts).abs /\ Abs(parts).parts = parts
    BY DEF Abs
  <2>7. 1 + 1 = 2 /\ <<name>> # <<>>
    BY OneName
  <2>8. DataAt(mounts, SubSeq(parts, 1, 1)).type # "SDIR" /\ DataAt(mounts, SubSeq(parts, 1, 1)) = DevRoot
    <3>1. DevRoot.type # "SDIR"
      BY DEF DevRoot
    <3>2. QED
      BY <1>1, <2>1, <3>1
  <2>9. vfs_find_node(Abs(parts)) = dir_find(DevRoot, <<name>>)
    BY <2>1, <2>2, <2>5, <2>6, <2>7, <2>8, Zenon DEF vfs_find_node
  <2>10. DevRoot.fs # "tar"
    BY DEF DevRoot
  <2>11. QED
    BY <2>9, <2>10 DEF dir_find, parts
<1>5. QED
  BY <1>2, <1>3, <1>4

\* Devices with distinct names are found by their names.
LEMMA DeviceFound ==
  ASSUME DevicesOK, NEW i \in 1..Len(devices)
  PROVE  find_in_directory_devfs(devices, <<devices[i].name>>) = devices[i]
<1> DEFINE hits == {k \in DOMAIN devices : <<devices[i].name>> = <<devices[k].name>>}
<1>1. DOMAIN devices = 1..Len(devices) /\ Len(devices) \in Nat
  BY ListFacts DEF DevicesOK
<1>2. \A k \in 1..Len(devices) : <<devices[i].name>> = <<devices[k].name>> => k = i
  <2>1. \A a, b : <<a>> = <<b>> => a = b
    OBVIOUS
  <2>2. QED
    BY <2>1, Zenon DEF DevicesOK
<1>3. hits = {i}
  BY <1>1, <1>2
<1>4. Min({i}) = i /\ {i} # {}
  BY <1>1, Largest
<1>5. QED
  BY <1>3, <1>4 DEF find_in_directory_devfs

LEMMA RamdiskFound ==
  ASSUME DevicesOK, boot >= 6
  PROVE  find_in_directory_devfs(devices, <<Ramdisk>>) # Nil
<1>1. PICK i \in 1..Len(devices) : devices[i].name = Ramdisk
  BY DEF DevicesOK
<1>2. find_in_directory_devfs(devices, <<Ramdisk>>) = devices[i]
  BY <1>1, DeviceFound
<1>3. devices[i].fs = "dev" /\ Nil.fs = "none"
  BY DEF DevicesOK, Made, Nil
<1>4. QED
  BY <1>2, <1>3

-----------------------------------------------------------------------------
(* The steps of the boot.                                                  *)

LEMMA NoStubs ==
  ASSUME NEW tree, IsList(tree)
  PROVE  WithStubs(tree, <<>>) = tree
<1> DEFINE there == {k \in 0..Len(<<>>) :
                       k = 0 \/ \E i \in DOMAIN tree : tree[i].path = SubSeq(<<>>, 1, k)}
           stubs == [k \in 1..(Len(<<>>) - 0) |->
                       [path |-> SubSeq(<<>>, 1, 0 + k), node |-> Stub(<<>>[0 + k])]]
<1>1. there = {0} /\ Max({0}) = 0
  BY Largest
<1>2. stubs = <<>>
  OBVIOUS
<1>3. tree \o <<>> = tree
  BY ConcatEmptySeq DEF IsList
<1> HIDE DEF there, stubs
<1>4. WithStubs(tree, <<>>) = tree \o stubs
  BY <1>1, Zenon DEF WithStubs, there, stubs
<1>5. QED
  BY <1>2, <1>3, <1>4

LEMMA FirstMount ==
  ASSUME mounts = <<>>
  PROVE  mount_in_vfs(mounts, Stub(Slash), <<>>) = <<Stubbed>>
BY DEF mount_in_vfs, Stubbed

LEMMA DevMount ==
  ASSUME mounts = <<Stubbed>>
  PROVE  mount_in_vfs(mounts, DevRoot, <<Dev>>) = Rooted(Stub(Slash))
<1> DEFINE there == {k \in 0..Len(<<Dev>>) :
                       k = 0 \/ \E i \in DOMAIN mounts : mounts[i].path = SubSeq(<<Dev>>, 1, k)}
           stubs == [k \in 1..(Len(<<Dev>>) - 0) |->
                       [path |-> SubSeq(<<Dev>>, 1, 0 + k), node |-> Stub(<<Dev>>[0 + k])]]
           stub  == [path |-> <<Dev>>, node |-> Stub(Dev)]
           t     == <<Stubbed, stub>>
<1>1. /\ Len(<<Dev>>) = 1 /\ SubSeq(<<Dev>>, 1, 1) = <<Dev>> /\ <<Dev>> # <<>> /\ <<Dev>>[1] = Dev
  BY OneName
<1>2. DOMAIN mounts = {1} /\ mounts[1].path = <<>>
  BY DEF Stubbed
<1>3. there = {0} /\ Max({0}) = 0
  BY <1>1, <1>2, Largest
<1>4. stubs = <<stub>>
  <2>1. 1..(Len(<<Dev>>) - 0) = {1} /\ 0 + 1 = 1
    BY <1>1
  <2>2. stubs = [k \in {1} |-> stub]
    BY <1>1, <2>1
  <2> HIDE DEF stub
  <2>3. QED
    BY <2>2
<1> HIDE DEF there, stubs
<1>5. WithStubs(mounts, <<Dev>>) = mounts \o stubs
  BY <1>3, Zenon DEF WithStubs, there, stubs
<1>6. WithStubs(mounts, <<Dev>>) = t
  <2> HIDE DEF stub
  <2>1. <<Stubbed>> \o <<stub>> = <<Stubbed, stub>>
    BY TwoListed
  <2>2. QED
    BY <1>4, <1>5, <2>1
<1>7. DOMAIN t = {1, 2} /\ t[1] = Stubbed /\ t[2] = stub
  OBVIOUS
<1>8. t[1].path = <<>> /\ t[2].path = <<Dev>> /\ t[2].node = Stub(Dev)
  BY <1>7 DEF Stubbed
<1>9. IndexOf(t, <<Dev>>) = 2
  <2> HIDE DEF t
  <2>1. QED
    BY <1>1, <1>7, <1>8 DEF IndexOf
<1>10. Stub(Dev).type = "SDIR" /\ Stub(Dev).name = DevRoot.name
  BY DEF Stub, DevRoot
<1>11. [t EXCEPT ![2].node = DevRoot] = Rooted(Stub(Slash))
  <2>1. [stub EXCEPT !.node = DevRoot] = [path |-> <<Dev>>, node |-> DevRoot]
    OBVIOUS
  <2>2. [t EXCEPT ![2] = [path |-> <<Dev>>, node |-> DevRoot]]
          = <<Stubbed, [path |-> <<Dev>>, node |-> DevRoot]>>
    OBVIOUS
  <2>3. [t EXCEPT ![2].node = DevRoot] = [t EXCEPT ![2] = [t[2] EXCEPT !.node = DevRoot]]
    OBVIOUS
  <2>4. QED
    BY <1>7, <2>1, <2>2, <2>3 DEF Rooted, Stubbed
<1> HIDE DEF t
<1>12. QED
  BY <1>1, <1>6, <1>8, <1>9, <1>10, <1>11, Zenon DEF mount_in_vfs

LEMMA TarMount ==
  ASSUME NEW root, mounts = Rooted(Stub(Slash))
  PROVE  mount_in_vfs(mounts, root, <<>>) = Rooted(root)
<1> DEFINE dev == [path |-> <<Dev>>, node |-> DevRoot]
<1>1. /\ DOMAIN mounts = {1, 2} /\ mounts[1] = Stubbed /\ mounts[2] = dev
  BY RootedFacts DEF Stubbed
<1>2. mounts[1].path = <<>> /\ mounts[2].path = <<Dev>> /\ mounts[1].node = Stub(Slash) /\ <<Dev>> # <<>>
  BY <1>1, OneName DEF Stubbed
<1>3. IsList(mounts) /\ mounts = <<Stubbed, dev>> /\ mounts # <<>>
  <2>1. mounts = <<Stubbed, dev>>
    BY DEF Rooted, Stubbed
  <2> HIDE DEF dev
  <2>2. <<Stubbed, dev>> \in Seq({Stubbed, dev}) /\ <<Stubbed, dev>> # <<>>
    OBVIOUS
  <2>3. QED
    BY <2>1, <2>2, ListOf
<1>4. WithStubs(mounts, <<>>) = mounts
  BY <1>3, NoStubs
<1>5. IndexOf(mounts, <<>>) = 1
  BY <1>1, <1>2 DEF IndexOf
<1>6. Stub(Slash).type = "SDIR"
  BY DEF Stub
<1>7. [mounts EXCEPT ![1].node = root] = Rooted(root)
  <2>1. [Stubbed EXCEPT !.node = root] = [path |-> <<>>, node |-> root]
    BY DEF Stubbed
  <2>2. [mounts EXCEPT ![1].node = root] = [mounts EXCEPT ![1] = [mounts[1] EXCEPT !.node = root]]
    OBVIOUS
  <2>3. [<<Stubbed, dev>> EXCEPT ![1] = [path |-> <<>>, node |-> root]]
          = <<[path |-> <<>>, node |-> root], dev>>
    OBVIOUS
  <2>4. QED
    BY <1>1, <1>3, <2>1, <2>2, <2>3 DEF Rooted
<1>8. QED
  BY <1>2, <1>3, <1>4, <1>5, <1>6, <1>7, Zenon DEF mount_in_vfs

\* A driver adds at most its own device.
LEMMA DeviceAdded ==
  ASSUME DevicesOK, boot \in 2..7, boot' = boot + 1,
         \/ devices' = devices /\ boot # 5
         \/ \E d : devices' = Append(devices, d) /\ d.fs = "dev" /\ d.name = DeviceOrder[boot - 1]
  PROVE  DevicesOK'
<1>1. CASE devices' = devices /\ boot # 5
  <2>1. \A i \in 1..Len(devices) : Made(devices[i]) => Made(devices[i])'
    BY <1>1 DEF Made
  <2>2. boot' >= 6 => boot >= 6
    BY <1>1
  <2>3. QED
    BY <1>1, <2>1, <2>2 DEF DevicesOK
<1>2. CASE \E d : devices' = Append(devices, d) /\ d.fs = "dev" /\ d.name = DeviceOrder[boot - 1]
  <2>1. PICK d : devices' = Append(devices, d) /\ d.fs = "dev" /\ d.name = DeviceOrder[boot - 1]
    BY <1>2
  <2> DEFINE n == Len(devices)
  <2>2. n \in Nat /\ IsList(devices)
    BY ListFacts DEF DevicesOK
  <2>3. /\ IsList(devices') /\ Len(devices') = n + 1
        /\ \A i \in 1..n : devices'[i] = devices[i]
        /\ devices'[n + 1] = d
    BY <2>1, <2>2, ListAppend
  <2>4. ASSUME NEW i \in 1..n
        PROVE  /\ devices'[i].fs = "dev" /\ devices'[i].name # d.name
               /\ \E j \in 1..(boot' - 2) : devices'[i].name = DeviceOrder[j]
    <3>1. Made(devices[i])
      BY DEF DevicesOK
    <3>2. PICK j \in 1..(boot - 2) : devices[i].name = DeviceOrder[j]
      BY <3>1 DEF Made
    <3>3. j \in 1..6 /\ boot - 1 \in 1..6 /\ j # boot - 1 /\ j \in 1..(boot' - 2)
      OBVIOUS
    <3>4. DeviceOrder[j] # DeviceOrder[boot - 1]
      BY <3>3, DeviceNames
    <3>5. QED
      BY <2>1, <2>3, <3>1, <3>2, <3>3, <3>4 DEF Made
  <2>5. ASSUME NEW i \in 1..(n + 1) PROVE Made(devices[i])'
    <3>1. CASE i \in 1..n
      BY <3>1, <2>4 DEF Made
    <3>2. CASE i = n + 1
      <4>1. boot - 1 \in 1..(boot' - 2)
        OBVIOUS
      <4>2. QED
        BY <2>1, <2>3, <3>2, <4>1 DEF Made
    <3>3. QED
      BY <2>2, <3>1, <3>2
  <2>6. \A i, j \in 1..(n + 1) : devices'[i].name = devices'[j].name => i = j
    <3>1. \A i, j \in 1..n : devices'[i].name = devices'[j].name => i = j
      BY <2>3 DEF DevicesOK
    <3>2. \A i \in 1..(n + 1) : i \in 1..n \/ i = n + 1
      BY <2>2
    <3>3. QED
      BY <2>3, <2>4, <3>1, <3>2, Zenon
  <2>7. boot' >= 6 => \E i \in 1..(n + 1) : devices'[i].name = Ramdisk
    <3>1. CASE boot = 5
      <4>1. d.name = Ramdisk /\ n + 1 \in 1..(n + 1)
        BY <2>1, <2>2, <3>1, DeviceNames
      <4>2. QED
        BY <2>3, <4>1
    <3>2. CASE boot >= 6
      <4>1. PICK i \in 1..n : devices[i].name = Ramdisk
        BY <3>2 DEF DevicesOK
      <4>2. i \in 1..(n + 1)
        BY <2>2
      <4>3. QED
        BY <2>3, <4>1, <4>2
    <3>3. QED
      BY <3>1, <3>2
  <2> HIDE DEF n
  <2>8. QED
    BY <2>3, <2>5, <2>6, <2>7 DEF DevicesOK
<1>3. QED
  BY <1>1, <1>2

\* create_node_vfs on the device file system makes a device.
LEMMA NodeCreated ==
  ASSUME NEW name, NEW size, mounts = Rooted(Stub(Slash)), create_node_vfs(devfs, name, size)
  PROVE  /\ \E d : devices' = Append(devices, d) /\ d.fs = "dev" /\ d.name = name
         /\ ~crashed'
<1> DEFINE d == [fs |-> "dev", name |-> name, type |-> "CHRD", size |-> size, data |-> 0]
<1>1. devfs = DevRoot
  BY RootedFinds DEF devfs
<1>2. ~Missing(DevRoot, "node_create") /\ DevRoot # Nil
  BY DEF Missing, Functions_of, DevRoot, Nil
<1>3. devices' = Append(devices, d)
  BY <1>1, <1>2 DEF create_node_vfs
<1>4. d.fs = "dev" /\ d.name = name
  OBVIOUS
<1>5. ~crashed'
  BY <1>1, <1>2, Zenon DEF create_node_vfs
<1> HIDE DEF d
<1>6. QED
  BY <1>3, <1>4, <1>5, Zenon

LEMMA DriverStep ==
  ASSUME BootInv, init_device
  PROVE  /\ boot \in 2..7 /\ boot' = boot + 1
         /\ \/ devices' = devices /\ boot # 5
            \/ \E d : devices' = Append(devices, d) /\ d.fs = "dev" /\ d.name = DeviceOrder[boot - 1]
         /\ ~crashed => ~crashed'
<1> DEFINE name == DeviceOrder[boot - 1]
           Added == \E d : devices' = Append(devices, d) /\ d.fs = "dev" /\ d.name = name
           Quiet == ~crashed => ~crashed'
<1>1. boot \in 2..7 /\ boot' = boot + 1
  BY DeviceNames DEF init_device
<1>2. mounts = Rooted(Stub(Slash))
  BY <1>1 DEF BootInv
<1>3. \A x, size : create_node_vfs(devfs, x, size) /\ name = x => Added /\ Quiet
  BY <1>2, NodeCreated
<1>4. boot = 5 => name = Ramdisk
  BY DeviceNames
<1>5. name \in {Ser, Vga, Vesa, Kbd, Gtty} => name # Ramdisk
  <2>1. /\ Ser[1] = "ser" /\ Vga[1] = "vga" /\ Vesa[1] = "vesa" /\ Ramdisk[1] = "ramdisk"
        /\ Kbd[1] = "kbd" /\ Gtty[1] = "gtty"
    BY DEF Ser, Vga, Vesa, Ramdisk, Kbd, Gtty
  <2> HIDE DEF name
  <2>2. QED
    BY <2>1
<1>6. \/ name = Ser /\ initialise_serial
      \/ name = Vga /\ initialise_vga
      \/ name = Vesa /\ initialise_vesa
      \/ name = Ramdisk /\ initialise_initrd
      \/ name = Kbd /\ initialise_keyboard
      \/ name = Gtty /\ initialise_gtty
  BY Zenon DEF init_device
<1> HIDE DEF name, Added, Quiet
<1>7. ASSUME name = Ser /\ initialise_serial
      PROVE  Quiet /\ (Added \/ (devices' = devices /\ boot # 5))
  BY <1>3, <1>7, Zenon DEF initialise_serial
<1>8. ASSUME name = Vga /\ initialise_vga
      PROVE  Quiet /\ (Added \/ (devices' = devices /\ boot # 5))
  BY <1>3, <1>8, Zenon DEF initialise_vga
<1>9. ASSUME name = Vesa /\ initialise_vesa
      PROVE  Quiet /\ (Added \/ (devices' = devices /\ boot # 5))
  <2>1. (devices' = devices /\ crashed' = crashed) \/ create_node_vfs(devfs, Vesa, SCREEN)
    BY <1>9, Zenon DEF initialise_vesa
  <2>2. Quiet /\ (devices' = devices \/ Added)
    <3>1. CASE devices' = devices /\ crashed' = crashed
      BY <3>1 DEF Quiet
    <3>2. CASE create_node_vfs(devfs, Vesa, SCREEN)
      BY <1>3, <1>9, <3>2, Zenon
    <3>3. QED
      BY <2>1, <3>1, <3>2, Zenon
  <2>3. boot # 5
    BY <1>4, <1>5, <1>9
  <2>4. QED
    BY <2>2, <2>3, Zenon
<1>10. ASSUME name = Ramdisk /\ initialise_initrd
      PROVE  Quiet /\ (Added \/ (devices' = devices /\ boot # 5))
  BY <1>3, <1>10, Zenon DEF initialise_initrd
<1>11. ASSUME name = Kbd /\ initialise_keyboard
      PROVE  Quiet /\ (Added \/ (devices' = devices /\ boot # 5))
  BY <1>3, <1>11, Zenon DEF initialise_keyboard
<1>12. ASSUME name = Gtty /\ initialise_gtty
      PROVE  Quiet /\ (Added \/ (devices' = devices /\ boot # 5))
  <2>1. (devices' = devices /\ crashed' = crashed) \/ \E size : create_node_vfs(devfs, Gtty, size)
    BY <1>12, Zenon DEF initialise_gtty
  <2>2. Quiet /\ (devices' = devices \/ Added)
    <3>1. CASE devices' = devices /\ crashed' = crashed
      BY <3>1 DEF Quiet
    <3>2. CASE \E size : create_node_vfs(devfs, Gtty, size)
      BY <1>3, <1>12, <3>2, Zenon
    <3>3. QED
      BY <2>1, <3>1, <3>2, Zenon
  <2>3. boot # 5
    BY <1>4, <1>5, <1>12
  <2>4. QED
    BY <2>2, <2>3, Zenon
<1>13. Quiet /\ (Added \/ (devices' = devices /\ boot # 5))
  BY <1>6, <1>7, <1>8, <1>9, <1>10, <1>11, <1>12, Zenon
<1>14. Added \/ (devices' = devices /\ boot # 5) =>
         \/ devices' = devices /\ boot # 5
         \/ \E d : devices' = Append(devices, d) /\ d.fs = "dev" /\ d.name = DeviceOrder[boot - 1]
  BY Zenon DEF Added, name
<1>15. ~crashed => ~crashed'
  BY <1>13, Zenon DEF Quiet
<1>16. QED
  BY <1>1, <1>13, <1>14, <1>15, Zenon

\* Until the first driver has run there is no device.
LEMMA NoDevice ==
  ASSUME DevicesOK, boot \in 0..2
  PROVE  Len(devices) = 0 /\ IsList(devices)
<1>1. Len(devices) \in Nat /\ IsList(devices)
  BY ListFacts DEF DevicesOK
<1>2. SUFFICES ASSUME Len(devices) >= 1 PROVE FALSE
  BY <1>1
<1>3. 1 \in 1..Len(devices)
  BY <1>1, <1>2
<1>4. Made(devices[1])
  BY <1>3 DEF DevicesOK
<1>5. QED
  BY <1>4 DEF Made

LEMMA DevicesSame ==
  ASSUME DevicesOK, boot \in 0..9, devices' = devices,
         (boot' \in 0..2 /\ boot \in 0..2) \/ boot' = boot \/ (boot = 8 /\ boot' = 9)
  PROVE  DevicesOK'
<1>1. CASE boot' \in 0..2 /\ boot \in 0..2
  <2>1. Len(devices) = 0 /\ IsList(devices)
    BY <1>1, NoDevice
  <2>2. 1..Len(devices) = {} /\ ~(boot' >= 6)
    BY <1>1, <2>1
  <2>3. QED
    BY <2>1, <2>2 DEF DevicesOK
<1>2. CASE boot' = boot \/ (boot = 8 /\ boot' = 9)
  <2>1. \A i \in 1..Len(devices) : Made(devices[i]) => Made(devices[i])'
    BY <1>2 DEF Made
  <2>2. boot' >= 6 => boot >= 6
    BY <1>2
  <2>3. QED
    BY <2>1, <2>2 DEF DevicesOK
<1>3. QED
  BY <1>1, <1>2

LEMMA BootInvInit == Init => BootInv
<1>1. SUFFICES ASSUME Init PROVE BootInv
  OBVIOUS
<1>2. boot = 0 /\ mounts = <<>> /\ devices = <<>>
  BY <1>1 DEF Init
<1>3. IsList(<<>>) /\ Len(<<>>) = 0
  BY ShortLists
<1>4. DevicesOK
  BY <1>2, <1>3 DEF DevicesOK
<1>5. QED
  BY <1>2, <1>4 DEF BootInv

LEMMA BootSame ==
  ASSUME BootInv, UNCHANGED <<boot, mounts, devices>>
  PROVE  BootInv'
<1>1. DevicesOK'
  BY DevicesSame DEF BootInv
<1>2. QED
  BY <1>1 DEF BootInv

\* A process has called a function its node does not have.
Calls ==
  \E p \in Procs, function \in {"node_read", "node_write", "node_control"} :
    \E k \in DOMAIN files[p] :
      /\ p \in alive
      /\ Missing(sysc_get_proc_node(p, files[p][k].id), function)
      /\ UNCHANGED <<alive, nodes>>

LEMMA BootInvNext ==
  ASSUME BootInv, [Next]_vars
  PROVE  BootInv' /\ (crashed' => crashed \/ Calls)
<1> DEFINE Good == BootInv' /\ (crashed' => crashed \/ Calls)
<1>0. UNCHANGED <<boot, mounts, devices, crashed>> => Good
  BY BootSame
<1>1. ASSUME UNCHANGED vars PROVE Good
  BY <1>1, <1>0 DEF vars
<1>2. ASSUME initialise_vfs_layer PROVE Good
  <2>1. boot = 0 /\ boot' = 1 /\ devices' = devices /\ crashed' = crashed /\ mounts = <<>>
        /\ mounts' = mount_in_vfs(mounts, Stub(Slash), <<>>)
    BY <1>2 DEF initialise_vfs_layer, BootInv
  <2>2. mounts' = <<Stubbed>>
    BY <2>1, FirstMount
  <2>3. DevicesOK'
    BY <2>1, DevicesSame DEF BootInv
  <2>4. QED
    BY <2>1, <2>2, <2>3 DEF BootInv
<1>3. ASSUME initialise_devfs PROVE Good
  <2>1. boot = 1 /\ boot' = 2 /\ devices' = devices /\ crashed' = crashed /\ mounts = <<Stubbed>>
        /\ mounts' = mount_in_vfs(mounts, DevRoot, <<Dev>>)
    BY <1>3 DEF initialise_devfs, BootInv
  <2>2. mounts' = Rooted(Stub(Slash))
    BY <2>1, DevMount
  <2>3. DevicesOK'
    BY <2>1, DevicesSame DEF BootInv
  <2>4. QED
    BY <2>1, <2>2, <2>3 DEF BootInv
<1>4. ASSUME init_device PROVE Good
  <2>1. boot \in 2..7 /\ boot' = boot + 1 /\ mounts' = mounts
    BY <1>4, DriverStep DEF init_device
  <2>2. DevicesOK'
    BY <1>4, <2>1, DriverStep, DeviceAdded DEF BootInv
  <2>3. BootInv'
    BY <2>1, <2>2 DEF BootInv
  <2>4. crashed' => crashed
    BY <1>4, DriverStep, Zenon
  <2>5. QED
    BY <2>3, <2>4, Zenon
<1>5. ASSUME create_tarfs_filesystem PROVE Good
  <2> DEFINE device == vfs_find_node(Abs(<<Dev, Ramdisk>>))
  <2>1. boot = 8 /\ boot' = 9 /\ devices' = devices
    BY <1>5, DeviceNames DEF create_tarfs_filesystem
  <2>2. mounts = Rooted(Stub(Slash)) /\ DevicesOK
    BY <2>1 DEF BootInv
  <2>3. device # Nil
    BY <2>1, <2>2, RootedFinds, RamdiskFound
  <2>4. mounts' = mount_in_vfs(mounts, TarRoot(<<>>, device.size), <<>>) /\ crashed' = crashed
    BY <1>5, <2>3, Zenon DEF create_tarfs_filesystem
  <2> HIDE DEF device
  <2>5. mounts' = Rooted(TarRoot(<<>>, device.size))
    BY <2>2, <2>4, TarMount
  <2>6. DevicesOK'
    BY <2>1, <2>2, DevicesSame
  <2>7. QED
    BY <2>1, <2>2, <2>4, <2>5, <2>6 DEF BootInv
<1>6. ASSUME kputchar PROVE Good
  BY <1>6, <1>0 DEF kputchar
<1>7. ASSUME NEW p \in Procs, sysc_exit(p) PROVE Good
  BY <1>7, <1>0 DEF sysc_exit
<1>8. ASSUME NEW p \in Procs, NEW path \in Paths,
             loader_spawn(p, path) \/ sysc_execve(p, path) \/ fopen(p, path)
      PROVE  Good
  BY <1>8, <1>0, Zenon DEF loader_spawn, sysc_execve, fopen
<1>9. ASSUME NEW p \in Procs, NEW c \in Procs, sysc_fork(p, c) PROVE Good
  BY <1>9, <1>0 DEF sysc_fork
<1>10. ASSUME NEW p \in Procs, NEW k \in 1 .. MaxOpen, fclose(p, k) \/ ls_main(p, k)
       PROVE  Good
  BY <1>10, <1>0, Zenon DEF fclose, ls_main
<1>11. ASSUME NEW p \in Procs, NEW k \in DOMAIN files[p], p \in alive,
              NEW function \in {"node_read", "node_write", "node_control"},
              Call(sysc_get_proc_node(p, files[p][k].id), function)
       PROVE  Good
  <2>1. UNCHANGED <<boot, mounts, devices, alive, nodes>>
    BY <1>11 DEF Call
  <2>2. crashed' => Missing(sysc_get_proc_node(p, files[p][k].id), function)
    BY <1>11, Zenon DEF Call
  <2>3. BootInv'
    BY <2>1, BootSame
  <2>4. crashed' => Calls
    BY <1>11, <2>1, <2>2, Zenon DEF Calls
  <2>5. QED
    BY <2>3, <2>4, Zenon
<1>12. ASSUME NEW p \in Procs, NEW k \in 1 .. MaxOpen, ioctl(p, k) PROVE Good
  BY <1>11, <1>12, Zenon DEF ioctl
<1>13. ASSUME NEW p \in Procs, NEW k \in 1 .. MaxOpen, NEW n \in Requests,
              \/ fread(p, k, n) \/ fwrite(p, k, n)
              \/ \E origin \in {"SEEK_SET", "SEEK_CUR", "SEEK_END"} : fseek(p, k, n, origin)
       PROVE  Good
  <2>1. CASE fread(p, k, n)
    BY <1>11, <2>1, Zenon DEF fread
  <2>2. CASE fwrite(p, k, n)
    BY <1>11, <2>2, Zenon DEF fwrite
  <2>3. ASSUME NEW origin, fseek(p, k, n, origin) PROVE Good
    BY <1>0, <2>3, Zenon DEF fseek
  <2>4. QED
    BY <1>13, <2>1, <2>2, <2>3, Zenon
<1> HIDE DEF Good
<1>14. Good
  BY <1>1, <1>2, <1>3, <1>4, <1>5, <1>6, <1>7, <1>8, <1>9, <1>10, <1>12, <1>13, Zenon DEF Next
<1>15. QED
  BY <1>14, Zenon DEF Good

LEMMA BootInvariant == Spec => []BootInv
<1>1. BootInv /\ [Next]_vars => BootInv'
  BY BootInvNext
<1>2. QED
  BY <1>1, BootInvInit, PTL DEF Spec

LEMMA DevicesLookedUp ==
  ASSUME NEW root, mounts = Rooted(root), DevicesOK
  PROVE  MountsFound
<1>1. /\ DOMAIN mounts = {1, 2} /\ mounts[1] = [path |-> <<>>, node |-> root]
      /\ mounts[2] = [path |-> <<Dev>>, node |-> DevRoot]
  BY RootedFacts
<1>2. vfs_find_node(Abs(<<>>)) = root /\ vfs_find_node(Abs(<<Dev>>)) = DevRoot
  BY RootedFinds
<1>3. /\ mounts[1].path = <<>> /\ mounts[1].node = root
      /\ mounts[2].path = <<Dev>> /\ mounts[2].node = DevRoot
  BY <1>1
<1>4. \A i \in DOMAIN mounts : vfs_find_node(Abs(mounts[i].path)) = mounts[i].node
  BY <1>1, <1>2, <1>3
<1>5. DOMAIN devices = 1..Len(devices)
  BY ListFacts DEF DevicesOK
<1>6. \A i \in DOMAIN devices : vfs_find_node(Abs(<<Dev, devices[i].name>>)) = devices[i]
  BY <1>5, RootedFinds, DeviceFound
<1>7. QED
  BY <1>4, <1>6 DEF MountsFound

\* Whatever the archive and the display, and whatever programs do afterwards: at every step
\* of the boot each device is found under its path and each mounted node under its mount
\* point, also when the archive has replaced the stub the device file system was mounted
\* under (mount_in_vfs, vfs_find_node, create_node_devfs, init_devices).
THEOREM DevicesFound == Spec => []MountsFound
<1>1. BootInv => MountsFound
  <2>1. SUFFICES ASSUME BootInv PROVE MountsFound
    OBVIOUS
  <2>2. DevicesOK
    BY <2>1 DEF BootInv
  <2>3. CASE boot \in 0..1
    <3>1. DOMAIN devices = {}
      <4>1. Len(devices) = 0 /\ IsList(devices)
        BY <2>2, <2>3, NoDevice
      <4>2. QED
        BY <4>1, ListFacts
    <3>2. CASE boot = 0
      <4>1. DOMAIN mounts = {}
        BY <2>1, <3>2 DEF BootInv
      <4>2. QED
        BY <3>1, <4>1 DEF MountsFound
    <3>3. CASE boot = 1
      <4>1. mounts = <<Stubbed>>
        BY <2>1, <3>3 DEF BootInv
      <4>2. /\ DOMAIN mounts = {1} /\ mounts[1] = Stubbed
            /\ vfs_find_node(Abs(<<>>)) = Stub(Slash)
        BY <4>1, RootAlone
      <4>3. mounts[1].path = <<>> /\ mounts[1].node = Stub(Slash)
        BY <4>2 DEF Stubbed
      <4>4. QED
        BY <3>1, <4>2, <4>3 DEF MountsFound
    <3>4. QED
      BY <2>3, <3>2, <3>3
  <2>4. CASE boot \in 2..8
    BY <2>1, <2>2, <2>4, DevicesLookedUp DEF BootInv
  <2>5. CASE boot = 9
    BY <2>1, <2>2, <2>5, DevicesLookedUp DEF BootInv
  <2>6. QED
    BY <2>1, <2>3, <2>4, <2>5 DEF BootInv
<1>2. QED
  BY <1>1, BootInvariant, PTL

\* The drivers find devfs, and the archive is mounted through a ramdisk that is there: the
\* boot calls no function of a missing node, and afterwards only a process that has a node
\* open without a function it asks for can call a NULL one, whatever it and the others open
\* and close (create_node_vfs, create_tarfs_filesystem, sysc_read, sysc_write, sysc_ioctl).
THEOREM BootNeverCrashes == Spec => []OnlyCallsCrash
<1>1. Init => OnlyCallsCrash
  BY Zenon DEF Init, OnlyCallsCrash
<1>2. ASSUME FilesInv, BootInv, OnlyCallsCrash, [Next]_vars PROVE OnlyCallsCrash'
  <2>1. CASE UNCHANGED vars
    BY <1>2, <2>1, Zenon DEF vars, OnlyCallsCrash
  <2>2. CASE Next
    <3>1. SUFFICES ASSUME crashed' PROVE OnlyCallsCrash'
      BY Zenon DEF OnlyCallsCrash
    <3>2. Calls
      BY <1>2, <2>2, <3>1, BootInvNext, Zenon DEF Next
    <3>3. PICK p \in Procs, function \in {"node_read", "node_write", "node_control"} :
            \E k \in DOMAIN files[p] :
              /\ p \in alive
              /\ Missing(sysc_get_proc_node(p, files[p][k].id), function)
              /\ UNCHANGED <<alive, nodes>>
      BY <3>2, Zenon DEF Calls
    <3>4. PICK k \in DOMAIN files[p] :
            /\ p \in alive
            /\ Missing(sysc_get_proc_node(p, files[p][k].id), function)
            /\ UNCHANGED <<alive, nodes>>
      BY <3>3, Zenon
    <3> DEFINE id == files[p][k].id
    <3>5. id \in Nat
      BY <1>2, OpenFile DEF FileOK
    <3>6. IsList(nodes[p])
      BY <1>2 DEF FilesInv, Table
    <3>7. Len(nodes[p]) \in Nat /\ DOMAIN nodes[p] = 1..Len(nodes[p])
      BY <3>6, ListFacts
    <3> HIDE DEF id
    <3>8. id < Len(nodes[p]) /\ Missing(nodes[p][id + 1], function)
      BY <3>4, Zenon DEF Missing, sysc_get_proc_node, id
    <3>9. id + 1 \in DOMAIN nodes[p]
      BY <3>5, <3>7, <3>8
    <3>10. QED
      BY <3>3, <3>4, <3>8, <3>9, Zenon DEF OnlyCallsCrash
  <2>3. QED
    BY <1>2, <2>1, <2>2
<1>3. QED
  BY <1>1, <1>2, FilesInvariant, BootInvariant, PTL DEF Spec

-----------------------------------------------------------------------------
(* Names of an archive.                                                    *)

\* What the scan of an archive and the comparison of names rely on.
TarOK ==
  /\ \E n \in Nat \ {0} :
       /\ Visited(archive) \in [1..n -> DOMAIN archive]
       /\ IsInjective(Visited(archive)) /\ Range(Visited(archive)) = DOMAIN archive
       /\ Visited(archive)[1] = 0
  /\ 0 \in DOMAIN archive
  /\ \A x \in DOMAIN archive :
       /\ archive[x].path \in Seq(Seq(STRING))
       /\ archive[x].path = <<>> <=> x = 0
       /\ \A k \in 1..Len(archive[x].path) : archive[x].path[k] # <<>> /\ archive[x].path[k] # Slash
       /\ \A k \in 1..Len(archive[x].path) - 1 :
            \E y \in DOMAIN archive : archive[y].path = SubSeq(archive[x].path, 1, k)
  /\ \A x, y \in DOMAIN archive :
       IsStrictPrefix(archive[x].path, archive[y].path) => archive[x].flag = "DIRTYPE"

LEMMA PrefixIs ==
  ASSUME NEW S, NEW p \in Seq(S), NEW k \in 0..Len(p)
  PROVE  /\ SubSeq(p, 1, k) \in Seq(S) /\ Len(SubSeq(p, 1, k)) = k
         /\ \A i \in 1..k : SubSeq(p, 1, k)[i] = p[i]
OBVIOUS

LEMMA SameSeq ==
  ASSUME NEW S, NEW p \in Seq(S), NEW q \in Seq(S), Len(p) = Len(q),
         \A i \in 1..Len(p) : p[i] = q[i]
  PROVE  p = q
OBVIOUS

\* The prefix of a prefix, and the whole as a prefix.
LEMMA PrefixOf ==
  ASSUME NEW S, NEW p \in Seq(S), NEW k \in 0..Len(p), NEW j \in 0..k
  PROVE  SubSeq(SubSeq(p, 1, k), 1, j) = SubSeq(p, 1, j) /\ SubSeq(p, 1, Len(p)) = p
<1>1. /\ SubSeq(p, 1, k) \in Seq(S) /\ Len(SubSeq(p, 1, k)) = k
      /\ \A i \in 1..k : SubSeq(p, 1, k)[i] = p[i]
  BY PrefixIs
<1>2. /\ SubSeq(SubSeq(p, 1, k), 1, j) \in Seq(S) /\ Len(SubSeq(SubSeq(p, 1, k), 1, j)) = j
      /\ \A i \in 1..j : SubSeq(SubSeq(p, 1, k), 1, j)[i] = SubSeq(p, 1, k)[i]
  BY <1>1, PrefixIs
<1>3. j \in 0..Len(p) /\ \A i \in 1..j : i \in 1..k
  OBVIOUS
<1>4. /\ SubSeq(p, 1, j) \in Seq(S) /\ Len(SubSeq(p, 1, j)) = j
      /\ \A i \in 1..j : SubSeq(p, 1, j)[i] = p[i]
  BY <1>3, PrefixIs
<1>5. SubSeq(SubSeq(p, 1, k), 1, j) = SubSeq(p, 1, j)
  BY <1>1, <1>2, <1>3, <1>4, SameSeq
<1>6. SubSeq(p, 1, Len(p)) = p
  OBVIOUS
<1>7. QED
  BY <1>5, <1>6

\* strstr finds a name at the end of itself, and somewhere in what it begins.
LEMMA FirstEndSelf ==
  ASSUME NEW S, NEW c \in Seq(S), c # <<>>
  PROVE  FirstEnd(c, c) = Len(c) /\ Len(c) > 0
<1>1. Len(c) \in Nat /\ Len(c) > 0
  OBVIOUS
<1> DEFINE at == {i \in 1 .. Len(c) - Len(c) + 1 : SubSeq(c, i, i + Len(c) - 1) = c}
<1>2. SubSeq(c, 1, 1 + Len(c) - 1) = c
  BY <1>1
<1>3. at = {1}
  BY <1>1, <1>2
<1>4. (CHOOSE i \in {1} : \A j \in {1} : i <= j) = 1
  OBVIOUS
<1>5. FirstEnd(c, c) = 1 + Len(c) - 1
  BY <1>3, <1>4 DEF FirstEnd
<1>6. QED
  BY <1>1, <1>5

LEMMA FirstEndPrefix ==
  ASSUME NEW S, NEW c \in Seq(S), NEW n \in Seq(S), n # <<>>, IsPrefix(n, c)
  PROVE  FirstEnd(c, n) > 0
<1>1. Len(c) \in Nat /\ Len(n) \in Nat /\ Len(n) > 0 /\ Len(n) <= Len(c)
  BY DEF IsPrefix
<1> DEFINE at == {i \in 1 .. Len(c) - Len(n) + 1 : SubSeq(c, i, i + Len(n) - 1) = n}
<1>2. SubSeq(n, 1, Len(n)) = n
  OBVIOUS
<1>3. SubSeq(c, 1, 1 + Len(n) - 1) = n
  BY <1>1, <1>2 DEF IsPrefix
<1>4. 1 \in at /\ at \in SUBSET Nat /\ \A i \in at : i >= 1
  BY <1>1, <1>3
<1> DEFINE m == CHOOSE i \in at : \A j \in at : i <= j
<1>5. FirstEnd(c, n) = IF at = {} THEN 0 ELSE m + Len(n) - 1
  BY DEF FirstEnd
<1> HIDE DEF at
<1>6. \E i \in at : \A j \in at : i <= j
  BY <1>4, LeastElement
<1>7. m \in at
  BY <1>6
<1> HIDE DEF m
<1>8. m \in Nat /\ m >= 1 /\ at # {}
  BY <1>4, <1>7
<1>9. QED
  BY <1>1, <1>5, <1>8

\* Every component of a path is the name of an entry.
LEMMA Component ==
  ASSUME TarOK, NEW x \in DOMAIN archive, NEW k \in 1..Len(archive[x].path)
  PROVE  \E y \in DOMAIN archive :
           /\ y # 0 /\ archive[y].path = SubSeq(archive[x].path, 1, k)
           /\ Last(archive[y].path) = archive[x].path[k]
<1> DEFINE p == archive[x].path
<1>1. p \in Seq(Seq(STRING)) /\ Len(p) \in Nat
  BY DEF TarOK
<1>2. \E y \in DOMAIN archive : archive[y].path = SubSeq(p, 1, k)
  <2>1. CASE k = Len(p)
    BY <2>1, <1>1, PrefixOf
  <2>2. CASE k \in 1..Len(p) - 1
    BY <2>2 DEF TarOK
  <2>3. QED
    BY <1>1, <2>1, <2>2
<1>3. PICK y \in DOMAIN archive : archive[y].path = SubSeq(p, 1, k)
  BY <1>2
<1> HIDE DEF p
<1>4. Len(SubSeq(p, 1, k)) = k /\ SubSeq(p, 1, k)[k] = p[k]
  BY <1>1, PrefixIs DEF p
<1>5. SubSeq(p, 1, k) # <<>>
  BY <1>4 DEF p
<1>6. y # 0
  BY <1>3, <1>5 DEF TarOK
<1>7. Last(archive[y].path) = p[k]
  BY <1>3, <1>4 DEF Last
<1>8. QED
  BY <1>3, <1>6, <1>7 DEF p

LEMMA NameOf ==
  ASSUME TarOK, NEW x \in DOMAIN archive, x # 0
  PROVE  /\ archive[x].path \in Seq(Seq(STRING)) /\ Len(archive[x].path) \in Nat \ {0}
         /\ Last(archive[x].path) \in Seq(STRING) /\ Last(archive[x].path) # <<>>
         /\ Last(archive[x].path) # Slash
<1>1. archive[x].path \in Seq(Seq(STRING)) /\ archive[x].path # <<>>
  BY DEF TarOK
<1>2. Len(archive[x].path) \in Nat \ {0}
  BY <1>1
<1>3. Len(archive[x].path) \in 1..Len(archive[x].path)
  BY <1>2
<1>4. QED
  BY <1>1, <1>2, <1>3 DEF Last, TarOK

\* With plain names, strstr finds the name of an entry in a component only where that
\* component leads to the entry.
LEMMA ComponentIs ==
  ASSUME TarOK, Plain, NEW x \in DOMAIN archive, NEW y \in DOMAIN archive, y # 0,
         NEW k \in 1..Len(archive[x].path)
  PROVE  /\ FirstEnd(archive[x].path[k], Last(archive[y].path)) > 0
              => SubSeq(archive[x].path, 1, k) = archive[y].path
         /\ SubSeq(archive[x].path, 1, k) = archive[y].path
              => /\ archive[x].path[k] = Last(archive[y].path)
                 /\ FirstEnd(archive[x].path[k], Last(archive[y].path)) = Len(archive[x].path[k])
                 /\ Len(archive[x].path[k]) > 0
<1>1. PICK z \in DOMAIN archive :
           /\ z # 0 /\ archive[z].path = SubSeq(archive[x].path, 1, k)
           /\ Last(archive[z].path) = archive[x].path[k]
  BY Component
<1>2. archive[z].path # <<>> /\ archive[y].path # <<>>
  BY <1>1 DEF TarOK
<1>3. archive[z].path # archive[y].path => FirstEnd(Last(archive[z].path), Last(archive[y].path)) = 0
  BY <1>2 DEF Plain
<1>4. Last(archive[y].path) \in Seq(STRING) /\ Last(archive[y].path) # <<>>
  BY NameOf
<1>5. /\ FirstEnd(Last(archive[y].path), Last(archive[y].path)) = Len(Last(archive[y].path))
      /\ Len(Last(archive[y].path)) > 0
  BY <1>4, FirstEndSelf
<1>6. ASSUME FirstEnd(archive[x].path[k], Last(archive[y].path)) > 0
      PROVE  SubSeq(archive[x].path, 1, k) = archive[y].path
  <2>1. FirstEnd(Last(archive[z].path), Last(archive[y].path)) # 0
    BY <1>6, <1>1
  <2>2. QED
    BY <2>1, <1>1, <1>3
<1>7. ASSUME SubSeq(archive[x].path, 1, k) = archive[y].path
      PROVE  archive[x].path[k] = Last(archive[y].path)
  <2>1. archive[z].path = archive[y].path
    BY <1>1, <1>7
  <2>2. QED
    BY <2>1, <1>1
<1>8. QED
  BY <1>5, <1>6, <1>7

\* The name a directory has in its node: that of the root is "/".
DirName(y) == IF y = 0 THEN Slash ELSE Last(archive[y].path)

\* A path that is not empty: what is before its last component.
LEMMA FrontIs ==
  ASSUME NEW S, NEW p \in Seq(S), p # <<>>
  PROVE  /\ Len(p) \in Nat /\ Len(p) > 0 /\ Len(p) - 1 \in 0..Len(p)
         /\ Front(p) \in Seq(S) /\ Len(Front(p)) = Len(p) - 1
         /\ Front(p) = SubSeq(p, 1, Len(p) - 1)
         /\ Last(p) \in S /\ p = Append(Front(p), Last(p))
<1>1. Len(p) \in Nat /\ Len(p) > 0 /\ Len(p) - 1 \in 0..Len(p)
  OBVIOUS
<1>2. Front(p) = SubSeq(p, 1, Len(p) - 1)
  BY DEF Front
<1>3. /\ Front(p) \in Seq(S) /\ Len(Front(p)) = Len(p) - 1
      /\ \A i \in 1..Len(p) - 1 : Front(p)[i] = p[i]
  BY <1>1, <1>2, PrefixIs
<1>4. Last(p) \in S /\ Last(p) = p[Len(p)]
  BY <1>1 DEF Last
<1> DEFINE q == Append(Front(p), Last(p))
<1>5. q \in Seq(S) /\ Len(q) = Len(p)
  BY <1>1, <1>3, <1>4
<1>6. \A i \in 1..Len(p) : q[i] = p[i]
  BY <1>1, <1>3, <1>4
<1> HIDE DEF q
<1>7. q = p
  BY <1>5, <1>6, SameSeq
<1>8. QED
  BY <1>1, <1>2, <1>3, <1>4, <1>7 DEF q

\* What a name that the last component begins is: only the last component itself.
LEMMA LastBegins ==
  ASSUME TarOK, Plain, NEW x \in DOMAIN archive, x # 0, NEW k \in 1..Len(archive[x].path)
  PROVE  IsPrefix(Last(archive[x].path), archive[x].path[k]) <=> k = Len(archive[x].path)
<1>1. /\ archive[x].path \in Seq(Seq(STRING)) /\ Len(archive[x].path) \in Nat \ {0}
      /\ Last(archive[x].path) \in Seq(STRING) /\ Last(archive[x].path) # <<>>
  BY NameOf
<1>2. archive[x].path[k] \in Seq(STRING)
  BY <1>1
<1>3. ASSUME IsPrefix(Last(archive[x].path), archive[x].path[k])
      PROVE  k = Len(archive[x].path)
  <2>1. FirstEnd(archive[x].path[k], Last(archive[x].path)) > 0
    BY <1>1, <1>2, <1>3, FirstEndPrefix
  <2>2. SubSeq(archive[x].path, 1, k) = archive[x].path
    BY <2>1, ComponentIs
  <2>3. Len(SubSeq(archive[x].path, 1, k)) = k
    BY <1>1, PrefixIs
  <2>4. QED
    BY <2>2, <2>3
<1>4. ASSUME k = Len(archive[x].path)
      PROVE  IsPrefix(Last(archive[x].path), archive[x].path[k])
  <2>1. archive[x].path[k] = Last(archive[x].path)
    BY <1>4 DEF Last
  <2>2. Len(Last(archive[x].path)) \in Nat
    BY <1>1
  <2>3. QED
    BY <2>1, <2>2 DEF IsPrefix
<1>5. QED
  BY <1>3, <1>4

\* The components before those of a child: where the name of the directory y is found.
LEMMA AfterParentIs ==
  ASSUME TarOK, Plain, NEW x \in DOMAIN archive, x # 0, NEW y \in DOMAIN archive
  PROVE  \/ /\ AfterParent(archive[x].path, DirName(y)) = -1
            /\ \A k \in 0..Len(archive[x].path) : SubSeq(archive[x].path, 1, k) # archive[y].path
         \/ /\ AfterParent(archive[x].path, DirName(y)) \in 0..Len(archive[x].path)
            /\ SubSeq(archive[x].path, 1, AfterParent(archive[x].path, DirName(y))) = archive[y].path
<1> DEFINE p == archive[x].path
           n == DirName(y)
           hits == {i \in DOMAIN p : FirstEnd(p[i], n) > 0}
<1>1. p \in Seq(Seq(STRING)) /\ Len(p) \in Nat \ {0} /\ DOMAIN p = 1..Len(p)
  BY NameOf
<1>2. CASE y = 0
  <2>1. AfterParent(p, n) = 0
    BY <1>2 DEF AfterParent, DirName
  <2>2. archive[y].path = <<>>
    BY <1>2 DEF TarOK
  <2>3. SubSeq(p, 1, 0) = <<>>
    BY <1>1
  <2>4. QED
    BY <2>1, <2>2, <2>3, <1>1
<1>3. CASE y # 0
  <2>1. n = Last(archive[y].path) /\ n # Slash
    BY <1>3, NameOf DEF DirName
  <2>2. archive[y].path \in Seq(Seq(STRING)) /\ Len(archive[y].path) \in Nat \ {0}
    BY <1>3, NameOf
  <2>3. \A k \in 1..Len(p) :
          /\ FirstEnd(p[k], n) > 0 <=> SubSeq(p, 1, k) = archive[y].path
          /\ SubSeq(p, 1, k) = archive[y].path => FirstEnd(p[k], n) = Len(p[k])
    BY <1>3, <2>1, ComponentIs
  <2>4. AfterParent(p, n) = IF hits = {} THEN -1
                            ELSE LET i == CHOOSE k \in hits : \A l \in hits : k <= l
                                 IN  IF FirstEnd(p[i], n) = Len(p[i]) THEN i ELSE -1
    BY <2>1 DEF AfterParent
  <2>5. CASE hits = {}
    <3>1. \A k \in 1..Len(p) : SubSeq(p, 1, k) # archive[y].path
      BY <1>1, <2>3, <2>5
    <3>2. SubSeq(p, 1, 0) # archive[y].path
      <4>1. Len(SubSeq(p, 1, 0)) = 0
        BY <1>1, PrefixIs
      <4>2. QED
        BY <2>2, <4>1
    <3>3. QED
      BY <1>1, <2>4, <2>5, <3>1, <3>2
  <2>6. CASE hits # {}
    <3>1. PICK m \in hits : TRUE
      BY <2>6
    <3>2. \A k \in hits : k \in 1..Len(p) /\ SubSeq(p, 1, k) = archive[y].path
      BY <1>1, <2>3
    <3>3. \A k \in hits : k = Len(archive[y].path)
      BY <1>1, <3>2, PrefixIs
    <3>4. (CHOOSE k \in hits : \A l \in hits : k <= l) = m
      <4>1. hits = {m} /\ m \in Nat
        BY <1>1, <3>1, <3>2, <3>3
      <4>2. (CHOOSE k \in {m} : \A l \in {m} : k <= l) = m
        BY <4>1
      <4>3. QED
        BY <4>1, <4>2
    <3>5. AfterParent(p, n) = m
      <4>1. AfterParent(p, n) = IF FirstEnd(p[m], n) = Len(p[m]) THEN m ELSE -1
        BY <2>4, <2>6, <3>4, Zenon
      <4>2. FirstEnd(p[m], n) = Len(p[m])
        BY <2>3, <3>1, <3>2
      <4>3. QED
        BY <4>1, <4>2
    <3>6. QED
      BY <1>1, <3>1, <3>2, <3>5
  <2>7. QED
    BY <2>5, <2>6
<1>4. QED
  BY <1>2, <1>3

\* With plain names, the entries that pass check_parse_filename are "./" and the entries
\* of the directory.
LEMMA IsChild ==
  ASSUME TarOK, Plain, NEW x \in DOMAIN archive, NEW y \in DOMAIN archive
  PROVE  check_parse_filename(archive[x].path, DirName(y)) # -1
           <=> x = 0 \/ Front(archive[x].path) = archive[y].path
<1> DEFINE p == archive[x].path
           i == AfterParent(p, DirName(y))
<1>1. CASE x = 0
  <2>1. p = <<>>
    BY <1>1 DEF TarOK
  <2>2. QED
    BY <1>1, <2>1 DEF check_parse_filename, IsLeaf
<1>2. CASE x # 0
  <2>1. p \in Seq(Seq(STRING)) /\ Len(p) \in Nat \ {0} /\ p # <<>>
    BY <1>2, NameOf
  <2>2. check_parse_filename(p, DirName(y)) # -1
          <=> i >= 0 /\ i < Len(p) /\ IsPrefix(Last(p), p[i + 1])
    BY <2>1 DEF check_parse_filename, IsLeaf
  <2>3. Front(p) = SubSeq(p, 1, Len(p) - 1)
    BY DEF Front
  <2>4. CASE /\ i = -1
             /\ \A k \in 0..Len(p) : SubSeq(p, 1, k) # archive[y].path
    <3>1. Len(p) - 1 \in 0..Len(p)
      BY <2>1
    <3>2. Front(p) # archive[y].path
      BY <2>3, <2>4, <3>1
    <3>3. ~(i >= 0)
      BY <2>4
    <3>4. QED
      BY <1>2, <2>2, <3>2, <3>3
  <2>5. CASE i \in 0..Len(p) /\ SubSeq(p, 1, i) = archive[y].path
    <3>1. Len(archive[y].path) = i
      BY <2>1, <2>5, PrefixIs
    <3>2. Len(Front(p)) = Len(p) - 1
      BY <2>1, FrontIs
    <3>3. Front(p) = archive[y].path <=> i = Len(p) - 1
      BY <2>3, <2>5, <3>1, <3>2
    <3>4. i < Len(p) => i + 1 \in 1..Len(p)
      BY <2>1, <2>5
    <3>5. i < Len(p) => (IsPrefix(Last(p), p[i + 1]) <=> i + 1 = Len(p))
      BY <1>2, <3>4, LastBegins
    <3>6. i < Len(p) /\ i + 1 = Len(p) <=> i = Len(p) - 1
      BY <2>1, <2>5
    <3>7. i >= 0
      BY <2>5
    <3>8. i < Len(p) /\ IsPrefix(Last(p), p[i + 1]) <=> i = Len(p) - 1
      BY <3>5, <3>6
    <3> HIDE DEF p, i
    <3>9. check_parse_filename(p, DirName(y)) # -1 <=> Front(p) = archive[y].path
      BY <2>2, <3>3, <3>7, <3>8
    <3>10. QED
      BY <1>2, <3>9 DEF p
  <2>6. QED
    BY <1>2, <2>4, <2>5, AfterParentIs
<1>3. QED
  BY <1>1, <1>2

-----------------------------------------------------------------------------
(* What the scan of an archive finds.                                      *)

LEMMA BuildIs ==
  ASSUME NEW x
  PROVE  /\ build_node_tarfs(archive, x) # Nil
         /\ build_node_tarfs(archive, x).fs = "tar"
         /\ build_node_tarfs(archive, x).name = Last(archive[x].path)
         /\ build_node_tarfs(archive, x).type = "DIRE" <=> archive[x].flag = "DIRTYPE"
<1>1. /\ build_node_tarfs(archive, x).fs = "tar"
      /\ build_node_tarfs(archive, x).name = Last(archive[x].path)
      /\ build_node_tarfs(archive, x).type = get_type_flags(archive[x].flag)
  BY DEF build_node_tarfs
<1>2. Nil.fs = "none"
  BY DEF Nil
<1>3. get_type_flags(archive[x].flag) = "DIRE" <=> archive[x].flag = "DIRTYPE"
  BY DEF get_type_flags
<1>4. QED
  BY <1>1, <1>2, <1>3

LEMMA FamilyIs ==
  ASSUME TarOK, Plain, NEW y \in DOMAIN archive, NEW node,
         node.type = "DIRE", node.name = DirName(y)
  PROVE  /\ Family(archive, node) \in Seq(DOMAIN archive)
         /\ Range(Family(archive, node))
              = {x \in DOMAIN archive : x = 0 \/ Front(archive[x].path) = archive[y].path}
<1> DEFINE v == Visited(archive)
           S == {at \in DOMAIN archive : check_parse_filename(archive[at].path, node.name) # -1}
           C == {x \in DOMAIN archive : x = 0 \/ Front(archive[x].path) = archive[y].path}
<1>1. v \in Seq(DOMAIN archive) /\ Range(v) = DOMAIN archive
  BY DEF TarOK
<1>2. Family(archive, node) = Keep(v, S)
  BY DEF Family
<1>3. S = C
  BY IsChild
<1> HIDE DEF v, S, C
<1>4. Keep(v, C) \in Seq(DOMAIN archive) /\ Range(Keep(v, C)) = Range(v) \cap C
  BY <1>1, KeepRange
<1>5. C \subseteq DOMAIN archive
  BY DEF C
<1>6. Range(Keep(v, C)) = C
  BY <1>1, <1>4, <1>5
<1>7. QED
  BY <1>2, <1>3, <1>4, <1>6 DEF C

\* nd is what stands for the path q of the archive whose root node is root.
Stands(root, nd, q) ==
  \/ nd = Nil /\ \A x \in DOMAIN archive : archive[x].path # q
  \/ \E x \in DOMAIN archive :
       archive[x].path = q /\ nd = IF x = 0 THEN root ELSE build_node_tarfs(archive, x)

LEMMA AppendIs ==
  ASSUME NEW S, NEW q \in Seq(S), NEW e \in S
  PROVE  /\ Append(q, e) \in Seq(S) /\ Append(q, e) # <<>>
         /\ Front(Append(q, e)) = q /\ Last(Append(q, e)) = e
<1> DEFINE p == Append(q, e)
<1>1. p \in Seq(S) /\ Len(p) = Len(q) + 1 /\ Len(q) \in Nat /\ p[Len(p)] = e
      /\ \A i \in 1..Len(q) : p[i] = q[i]
  OBVIOUS
<1> HIDE DEF p
<1>2. p # <<>>
  BY <1>1
<1>3. Len(q) \in 0..Len(p) /\ Len(p) - 1 = Len(q)
  BY <1>1
<1>4. /\ SubSeq(p, 1, Len(q)) \in Seq(S) /\ Len(SubSeq(p, 1, Len(q))) = Len(q)
      /\ \A i \in 1..Len(q) : SubSeq(p, 1, Len(q))[i] = p[i]
  BY <1>1, <1>3, PrefixIs
<1>5. SubSeq(p, 1, Len(q)) = q
  BY <1>1, <1>4, SameSeq
<1>6. QED
  BY <1>1, <1>2, <1>3, <1>5 DEF p, Front, Last

\* The child of a directory that find_in_directory_tarfs_internal finds is the entry
\* with the path of the directory and that name.
LEMMA ChildIs ==
  ASSUME TarOK, Plain, NEW y \in DOMAIN archive, NEW node,
         node.type = "DIRE", node.name = DirName(y), NEW root, NEW name \in Seq(STRING)
  PROVE  Stands(root, Child(archive, node, name), Append(archive[y].path, name))
<1> DEFINE f == Family(archive, node)
           hits == {i \in DOMAIN f : /\ archive[f[i]].path # <<>>
                                     /\ Last(archive[f[i]].path) = name}
           q == Append(archive[y].path, name)
<1>1. f \in Seq(DOMAIN archive)
      /\ Range(f) = {x \in DOMAIN archive : x = 0 \/ Front(archive[x].path) = archive[y].path}
  BY FamilyIs
<1>2. Child(archive, node, name) = IF hits = {} THEN Nil ELSE build_node_tarfs(archive, f[Min(hits)])
  BY DEF Child, FirstNamed
<1>3. archive[y].path \in Seq(Seq(STRING))
  BY DEF TarOK
<1> HIDE DEF f, hits
<1>4. q # <<>> /\ Front(q) = archive[y].path /\ Last(q) = name
  <2>1. \A S : \A w \in Seq(S), e \in S :
          Append(w, e) # <<>> /\ Front(Append(w, e)) = w /\ Last(Append(w, e)) = e
    BY AppendIs
  <2>2. QED
    BY <1>3, <2>1, Zenon
<1> HIDE DEF q
<1> USE DEF hits
<1>5. DOMAIN f = 1..Len(f) /\ Len(f) \in Nat
  BY <1>1
<1>6. \A i \in DOMAIN f : f[i] \in DOMAIN archive /\ (f[i] # 0 => Front(archive[f[i]].path) = archive[y].path)
  BY <1>1 DEF Range
<1>7. \A i \in hits : f[i] \in DOMAIN archive /\ f[i] # 0 /\ archive[f[i]].path = q
  <2>1. SUFFICES ASSUME NEW i \in hits
                 PROVE  f[i] \in DOMAIN archive /\ f[i] # 0 /\ archive[f[i]].path = q
    OBVIOUS
  <2>2. f[i] \in DOMAIN archive /\ archive[f[i]].path # <<>> /\ Last(archive[f[i]].path) = name
    BY <1>6
  <2>3. f[i] # 0 /\ archive[f[i]].path \in Seq(Seq(STRING))
    BY <2>2 DEF TarOK
  <2>4. Front(archive[f[i]].path) = archive[y].path
    BY <1>6, <2>3
  <2>5. archive[f[i]].path = Append(Front(archive[f[i]].path), Last(archive[f[i]].path))
    BY <2>2, <2>3, FrontIs
  <2>6. QED
    BY <2>2, <2>3, <2>4, <2>5 DEF q
<1>8. CASE hits = {}
  <2>1. SUFFICES ASSUME NEW x \in DOMAIN archive, archive[x].path = q PROVE FALSE
    BY <1>2, <1>8 DEF Stands, q
  <2>2. x \in Range(f)
    BY <1>1, <1>4, <2>1
  <2>3. PICK i \in DOMAIN f : f[i] = x
    BY <2>2 DEF Range
  <2>4. QED
    BY <1>4, <1>8, <2>1, <2>3
<1>9. CASE hits # {}
  <2> DEFINE m == Min(hits)
  <2>1. hits \in SUBSET Nat
    BY <1>5
  <2> HIDE DEF hits
  <2>2. PICK i \in hits : \A j \in hits : i <= j
    BY <1>9, <2>1, LeastElement
  <2>3. hits \subseteq Int
    BY <2>1
  <2>4. Min(hits) = i
    BY <2>2, <2>3, MinIs
  <2>5. Child(archive, node, name) = build_node_tarfs(archive, f[i])
    BY <1>2, <1>9, <2>4
  <2>6. QED
    BY <1>7, <2>2, <2>5 DEF Stands, q
<1>10. QED
  BY <1>8, <1>9

LEMMA NoFamily ==
  ASSUME NEW node, node.type # "DIRE", NEW name
  PROVE  Child(archive, node, name) = Nil
<1>1. Family(archive, node) = <<>>
  BY DEF Family
<1>2. DOMAIN <<>> = {}
  OBVIOUS
<1>3. QED
  BY <1>1, <1>2 DEF Child, FirstNamed

\* One level of a lookup.
LEMMA LevelUp ==
  ASSUME TarOK, Plain, NEW root, root.type = "DIRE", root.name = Slash,
         root # Nil, NEW q \in Seq(Seq(STRING)), NEW name \in Seq(STRING), NEW nd, Stands(root, nd, q)
  PROVE  Stands(root, IF nd = Nil THEN Nil ELSE Child(archive, nd, name), Append(q, name))
<1> DEFINE r == Append(q, name)
<1>1. /\ r \in Seq(Seq(STRING)) /\ r # <<>> /\ Front(r) = q /\ Last(r) = name
  BY AppendIs
<1>2. Len(q) \in Nat /\ Len(r) = Len(q) + 1
  OBVIOUS
<1>3. SubSeq(r, 1, Len(q)) = q
  BY <1>1, <1>2 DEF Front
<1> HIDE DEF r
\* An entry with the longer path has its directory above it.
<1>4. \A x \in DOMAIN archive : archive[x].path = r => \E y \in DOMAIN archive : archive[y].path = q
  <2>1. SUFFICES ASSUME NEW x \in DOMAIN archive, archive[x].path = r
                 PROVE  \E y \in DOMAIN archive : archive[y].path = q
    OBVIOUS
  <2>2. CASE Len(q) = 0
    <3>1. q = <<>>
      BY <2>2
    <3>2. QED
      BY <3>1 DEF TarOK
  <2>3. CASE Len(q) # 0
    <3>1. Len(q) \in 1..Len(archive[x].path) - 1
      BY <1>2, <2>1, <2>3
    <3>2. \A k \in 1..Len(archive[x].path) - 1 :
            \E y \in DOMAIN archive : archive[y].path = SubSeq(archive[x].path, 1, k)
      BY DEF TarOK
    <3>3. \E y \in DOMAIN archive : archive[y].path = SubSeq(archive[x].path, 1, Len(q))
      BY <3>1, <3>2, Zenon
    <3>4. QED
      BY <1>3, <2>1, <3>3
  <2>4. QED
    BY <2>2, <2>3
<1>5. CASE nd = Nil /\ \A x \in DOMAIN archive : archive[x].path # q
  <2>1. \A x \in DOMAIN archive : archive[x].path # r
    BY <1>4, <1>5
  <2>2. QED
    BY <1>5, <2>1 DEF Stands, r
<1>6. ASSUME NEW y \in DOMAIN archive, archive[y].path = q,
             nd = IF y = 0 THEN root ELSE build_node_tarfs(archive, y)
      PROVE  Stands(root, IF nd = Nil THEN Nil ELSE Child(archive, nd, name), r)
  <2>1. CASE nd = Nil
    BY <1>6, <2>1, BuildIs
  <2>2. CASE nd # Nil /\ nd.type = "DIRE"
    <3>1. nd.name = DirName(y)
      BY <1>6, BuildIs DEF DirName
    <3>2. Stands(root, Child(archive, nd, name), Append(archive[y].path, name))
      BY <2>2, <3>1, ChildIs
    <3>3. QED
      BY <1>6, <2>2, <3>2 DEF r
  <2>3. CASE nd # Nil /\ nd.type # "DIRE"
    <3>1. y # 0
      BY <1>6, <2>3
    <3>2. archive[y].flag # "DIRTYPE"
      BY <1>6, <2>3, <3>1, BuildIs
    <3>3. IsStrictPrefix(q, r)
      <4>1. SubSeq(q, 1, Len(q)) = q
        OBVIOUS
      <4>2. QED
        BY <1>2, <1>3, <4>1 DEF IsStrictPrefix, IsPrefix
    <3>4. \A x \in DOMAIN archive : archive[x].path # r
      BY <1>6, <3>2, <3>3 DEF TarOK
    <3>5. Child(archive, nd, name) = Nil
      BY <2>3, NoFamily
    <3>6. QED
      BY <2>3, <3>4, <3>5 DEF Stands
  <2>4. QED
    BY <2>1, <2>2, <2>3
<1>7. QED
  BY <1>5, <1>6 DEF Stands, r

\* The levels of a lookup, one for each component of the path.
LevelStep(node, path, F, k) ==
  IF k = 0 THEN node
  ELSE IF F[k - 1] = Nil THEN Nil ELSE Child(archive, F[k - 1], path[k])

LEMMA LevelsExist ==
  ASSUME NEW node, NEW path, NEW n \in Nat
  PROVE  \E F : F = [k \in 0..n |-> LevelStep(node, path, F, k)]
<1> DEFINE P(m) == \E F : F = [k \in 0..m |-> LevelStep(node, path, F, k)]
           G == {m \in Nat : P(m)}
<1>1. 0 \in G
  <2> DEFINE F0 == [k \in 0..0 |-> node]
  <2>1. F0 = [k \in 0..0 |-> LevelStep(node, path, F0, k)]
    BY DEF LevelStep
  <2>2. QED
    BY <2>1
<1>2. ASSUME NEW m \in 0..(n - 1), m \in G PROVE m + 1 \in G
  <2>1. PICK F : F = [k \in 0..m |-> LevelStep(node, path, F, k)]
    BY <1>2
  <2> DEFINE H == [k \in 0..(m + 1) |-> IF k <= m THEN F[k] ELSE LevelStep(node, path, F, m + 1)]
  <2>2. ASSUME NEW k \in 0..(m + 1) PROVE H[k] = LevelStep(node, path, H, k)
    <3>1. CASE k <= m
      <4>1. H[k] = LevelStep(node, path, F, k)
        BY <2>1, <3>1
      <4>2. k # 0 => H[k - 1] = F[k - 1]
        BY <3>1
      <4>3. QED
        BY <4>1, <4>2 DEF LevelStep
    <3>2. CASE k = m + 1
      <4>1. H[k - 1] = F[k - 1]
        BY <3>2
      <4>2. QED
        BY <4>1, <3>2 DEF LevelStep
    <3>3. QED
      BY <3>1, <3>2
  <2>3. H = [k \in 0..(m + 1) |-> LevelStep(node, path, H, k)]
    BY <2>2
  <2>4. P(m + 1)
    BY <2>3
  <2>5. QED
    BY <2>4
<1> HIDE DEF G
<1>3. \A i \in 0..n : i \in G
  BY <1>1, <1>2, SetInduction
<1>4. n \in G
  BY <1>3
<1>5. QED
  BY <1>4 DEF G

\* At every level stands what the components so far lead to.
LEMMA LevelsStand ==
  ASSUME TarOK, Plain, NEW root, root.type = "DIRE", root.name = Slash, root # Nil,
         NEW path \in Seq(Seq(STRING)), NEW F,
         F = [k \in 0..Len(path) |-> LevelStep(root, path, F, k)]
  PROVE  \A k \in 0..Len(path) : Stands(root, F[k], SubSeq(path, 1, k))
<1> DEFINE G == {k \in 0..Len(path) : Stands(root, F[k], SubSeq(path, 1, k))}
<1>0. Len(path) \in Nat
  OBVIOUS
<1>1. 0 \in G
  <2>1. F[0] = root
    BY <1>0 DEF LevelStep
  <2>2. SubSeq(path, 1, 0) = <<>>
    OBVIOUS
  <2>3. archive[0].path = <<>> /\ 0 \in DOMAIN archive
    BY DEF TarOK
  <2>4. Stands(root, F[0], SubSeq(path, 1, 0))
    BY <2>1, <2>2, <2>3 DEF Stands
  <2>5. QED
    BY <1>0, <2>4
<1>2. ASSUME NEW k \in 0..(Len(path) - 1), k \in G PROVE k + 1 \in G
  <2>1. k + 1 \in 0..Len(path) /\ k + 1 # 0 /\ (k + 1) - 1 = k /\ k + 1 \in 1..Len(path) /\ k \in 0..Len(path)
    BY <1>0
  <2>2. F[k + 1] = IF F[k] = Nil THEN Nil ELSE Child(archive, F[k], path[k + 1])
    <3>1. F[k + 1] = LevelStep(root, path, F, k + 1)
      BY <2>1
    <3>2. QED
      BY <2>1, <3>1 DEF LevelStep
  <2>3. SubSeq(path, 1, k) \in Seq(Seq(STRING)) /\ path[k + 1] \in Seq(STRING)
    BY <2>1, PrefixIs
  <2>4. SubSeq(path, 1, k + 1) = Append(SubSeq(path, 1, k), path[k + 1])
    BY <1>0, <2>1
  <2>5. Stands(root, F[k], SubSeq(path, 1, k))
    BY <1>2
  <2>6. Stands(root, IF F[k] = Nil THEN Nil ELSE Child(archive, F[k], path[k + 1]),
               Append(SubSeq(path, 1, k), path[k + 1]))
    BY <2>3, <2>5, LevelUp
  <2>7. Stands(root, F[k + 1], SubSeq(path, 1, k + 1))
    BY <2>2, <2>4, <2>6, Zenon
  <2>8. QED
    BY <2>1, <2>7
<1> HIDE DEF G
<1>3. \A k \in 0..Len(path) : k \in G
  BY <1>0, <1>1, <1>2, SetInduction
<1>4. QED
  BY <1>3 DEF G

\* A path of an archive with plain names has no component twice, except one it does not
\* have: the lookup ends at the last component.
LEMMA LookupEnds ==
  ASSUME TarOK, Plain, NEW path \in Seq(Seq(STRING)), path # <<>>,
         IsInjective(path) \/ \E x \in DOMAIN archive : archive[x].path = path
  PROVE  Min({k \in 1..Len(path) : path[k] = Last(path)}) = Len(path)
<1> DEFINE ks == {k \in 1..Len(path) : path[k] = Last(path)}
<1>0. Len(path) \in Nat /\ Len(path) >= 1 /\ DOMAIN path = 1..Len(path) /\ Last(path) = path[Len(path)]
  BY DEF Last
<1>1. \A k \in ks : k = Len(path)
  <2>1. SUFFICES ASSUME NEW k \in 1..Len(path), path[k] = path[Len(path)] PROVE k = Len(path)
    BY <1>0
  <2>2. CASE IsInjective(path)
    <3>1. Len(path) \in DOMAIN path /\ k \in DOMAIN path
      BY <1>0
    <3>2. QED
      BY <2>1, <2>2, <3>1 DEF IsInjective
  <2>3. CASE \E x \in DOMAIN archive : archive[x].path = path
    <3>1. PICK x \in DOMAIN archive : archive[x].path = path
      BY <2>3
    <3>2. x # 0
      BY <3>1 DEF TarOK
    <3>3. Last(archive[x].path) \in Seq(STRING) /\ Last(archive[x].path) = path[k]
      BY <1>0, <2>1, <3>1, <3>2, NameOf
    <3>4. IsPrefix(Last(archive[x].path), path[k])
      BY <3>3 DEF IsPrefix
    <3>5. QED
      BY <3>1, <3>2, <3>4, LastBegins
  <2>4. QED
    BY <2>2, <2>3
<1>2. ks \subseteq Int /\ Len(path) \in ks /\ \A k \in ks : Len(path) <= k
  BY <1>0, <1>1
<1> HIDE DEF ks
<1>3. Min(ks) = Len(path)
  BY <1>2, MinIs
<1>4. QED
  BY <1>3 DEF ks

LEMMA FindIs ==
  ASSUME TarOK, Plain, NEW root, root.type = "DIRE", root.name = Slash, root # Nil,
         NEW path \in Seq(Seq(STRING)), path # <<>>,
         IsInjective(path) \/ \E x \in DOMAIN archive : archive[x].path = path
  PROVE  Stands(root, find_in_directory_tarfs(archive, root, path), path)
<1> DEFINE F == CHOOSE F : F = [k \in 0..Len(path) |-> LevelStep(root, path, F, k)]
<1>0. Len(path) \in Nat
  OBVIOUS
<1>1. F = [k \in 0..Len(path) |-> LevelStep(root, path, F, k)]
  BY <1>0, LevelsExist
<1>2. find_in_directory_tarfs(archive, root, path)
        = F[Min({k \in 1..Len(path) : path[k] = Last(path)})]
  BY Zenon DEF find_in_directory_tarfs, LevelStep
<1> HIDE DEF F
<1>3. Stands(root, F[Len(path)], SubSeq(path, 1, Len(path)))
  <2>1. Len(path) \in 0..Len(path)
    BY <1>0
  <2>2. QED
    BY <1>1, <2>1, LevelsStand
<1>4. SubSeq(path, 1, Len(path)) = path
  OBVIOUS
<1>5. Min({k \in 1..Len(path) : path[k] = Last(path)}) = Len(path)
  BY LookupEnds
<1>6. QED
  BY <1>2, <1>3, <1>4, <1>5, Zenon

\* After the boot a path that does not go through devfs is looked up in the archive.
LEMMA ArchiveSearched ==
  ASSUME NEW root, mounts = Rooted(root), root.type # "SDIR", root.fs = "tar",
         NEW path, path.abs, path.parts \in Seq(Seq(STRING)), path.parts # <<>>, path.parts[1] # Dev
  PROVE  vfs_find_node(path) = find_in_directory_tarfs(archive, root, path.parts)
<1> DEFINE parts == path.parts
           ks == {k \in 0..Len(parts) : \A j \in 1..k : Descends(SubSeq(parts, 1, j - 1), parts[j])}
<1>0. Len(parts) \in Nat /\ Len(parts) >= 1 /\ SubSeq(parts, 1, 0) = <<>>
      /\ SubSeq(parts, 1, Len(parts)) = parts
  OBVIOUS
<1>1. ~Descends(<<>>, parts[1]) /\ ~Moves(<<>>, parts[1])
  BY RootedWalk
<1>2. ks = {0}
  <2>1. 0 \in ks
    BY <1>0
  <2>2. ASSUME NEW k \in ks, k # 0 PROVE FALSE
    <3>1. k \in Nat /\ 1 \in 1..k /\ \A j \in 1..k : Descends(SubSeq(parts, 1, j - 1), parts[j])
      BY <1>0, <2>2
    <3>2. Descends(SubSeq(parts, 1, 1 - 1), parts[1])
      BY <3>1
    <3>3. SubSeq(parts, 1, 1 - 1) = <<>>
      BY <1>0
    <3>4. QED
      BY <1>1, <3>2, <3>3, Zenon
  <2>3. QED
    BY <2>1, <2>2
<1>3. Depth(parts) = 0
  BY <1>2, Largest DEF Depth
<1>4. DataAt(mounts, <<>>) = root
  BY RootedFacts
<1> DEFINE k == Depth(parts)
           left == SubSeq(parts, k + 1, Len(parts))
           at == IF left # <<>> /\ Moves(SubSeq(parts, 1, k), parts[k + 1]) THEN k + 1 ELSE k
           node == DataAt(mounts, SubSeq(parts, 1, at))
<1>5. left = parts
  BY <1>0, <1>3
<1>6. at = 0
  <2>1. SubSeq(parts, 1, k) = <<>> /\ parts[k + 1] = parts[1]
    BY <1>0, <1>3
  <2>2. ~Moves(SubSeq(parts, 1, k), parts[k + 1])
    BY <1>1, <2>1
  <2>3. QED
    BY <1>3, <2>2
<1>7. node = root
  BY <1>0, <1>4, <1>6
<1>8. vfs_find_node(path) = IF left = <<>> THEN node
                            ELSE IF node.type = "SDIR" THEN Nil ELSE dir_find(node, left)
  BY Zenon DEF vfs_find_node
<1>9. QED
  BY <1>5, <1>7, <1>8 DEF dir_find

LEMMA TarRootIs ==
  ASSUME NEW size
  PROVE  /\ TarRoot(<<>>, size).type = "DIRE" /\ TarRoot(<<>>, size).name = Slash
         /\ TarRoot(<<>>, size).fs = "tar" /\ TarRoot(<<>>, size) # Nil
<1>1. FlattenSeq(<<>>) = <<>>
  BY DEF FlattenSeq
<1>2. Slash \o <<>> = Slash
  BY DEF Slash
<1>3. Nil.fs = "none" /\ TarRoot(<<>>, size).fs = "tar"
  BY DEF Nil, TarRoot
<1>4. QED
  BY <1>1, <1>2, <1>3 DEF TarRoot

LEMMA ResolvesWhenBooted ==
  ASSUME BootInv, TarOK
  PROVE  Resolves
<1>1. SUFFICES ASSUME Booted, Plain, NEW path \in Lookups,
                      path.abs, path.parts # <<>>, path.parts[1] # Dev
               PROVE  LET parts == path.parts
                          at    == {a \in DOMAIN archive : archive[a].path = parts}
                          found == vfs_find_node(path)
                      IN  IF at # {} THEN \E a \in at : found = build_node_tarfs(archive, a)
                          ELSE IsInjective(parts) => found = Nil
  BY Zenon DEF Resolves
<1> DEFINE parts == path.parts
           at    == {a \in DOMAIN archive : archive[a].path = parts}
           found == vfs_find_node(path)
<1>2. parts \in Seq(Seq(STRING))
  BY PathsAssumption
<1>3. boot = 9
  BY <1>1 DEF Booted, DeviceOrder
<1>4. PICK size : mounts = Rooted(TarRoot(<<>>, size))
  BY <1>3 DEF BootInv
<1> DEFINE root == TarRoot(<<>>, size)
<1>5. root.type = "DIRE" /\ root.name = Slash /\ root.fs = "tar" /\ root # Nil
  BY TarRootIs
<1> HIDE DEF root
<1>6. found = find_in_directory_tarfs(archive, root, parts)
  BY <1>1, <1>2, <1>4, <1>5, ArchiveSearched DEF root
<1> HIDE DEF found
<1>7. ASSUME IsInjective(parts) \/ \E x \in DOMAIN archive : archive[x].path = parts
      PROVE  Stands(root, found, parts)
  BY <1>1, <1>2, <1>5, <1>6, <1>7, FindIs
<1>8. CASE at # {}
  <2>1. Stands(root, found, parts)
    BY <1>7, <1>8
  <2>2. PICK x \in DOMAIN archive :
          archive[x].path = parts /\ found = IF x = 0 THEN root ELSE build_node_tarfs(archive, x)
    BY <1>8, <2>1 DEF Stands
  <2>3. x # 0
    BY <1>1, <2>2 DEF TarOK
  <2>4. \E a \in at : found = build_node_tarfs(archive, a)
    BY <2>2, <2>3
  <2>5. QED
    BY <1>8, <2>4 DEF found
<1>9. CASE at = {}
  <2>1. IsInjective(parts) => found = Nil
    BY <1>7, <1>9 DEF Stands
  <2>2. QED
    BY <1>9, <2>1 DEF found
<1>10. QED
  BY <1>8, <1>9

-----------------------------------------------------------------------------
(* The scan of what tar has written.                                       *)

\* The scan goes from a header to where tar has put the next one.
LEMMA NextIs ==
  ASSUME NEW c \in Nat, NEW s \in Nat
  PROVE  \E t \in Nat : /\ (s + BLOCK - 1) \div BLOCK = t
                        /\ NextHeader(BLOCK * c, s) = BLOCK * c + BLOCK * (1 + t)
                        /\ BLOCK * c + BLOCK * (1 + t) = BLOCK * (c + 1 + t)
                        /\ BLOCK * (c + 1 + t) > BLOCK * c
<1> DEFINE b == BLOCK
<1>0. b \in Nat \ {0}
  BY FilesAssumption
<1> DEFINE q == s \div b
           r == s % b
<1>1. q \in Nat /\ r \in 0..(b - 1) /\ s = b * q + r
  BY <1>0
<1> HIDE DEF q, r
<1>2. b * c + b + s = b * (c + 1 + q) + r
  BY <1>0, <1>1
<1>3. c + 1 + q \in Nat /\ r \in Nat /\ r < b
  BY <1>0, <1>1
<1>4. (b * (c + 1 + q) + r) % b = r
  BY <1>0, <1>3, DivMod
<1>5. (b * c + b + s) % b = r
  BY <1>2, <1>4
<1>6. NextHeader(b * c, s) = IF r # 0 THEN b * c + b + s + b - r ELSE b * c + b + s
  BY <1>5 DEF NextHeader
<1>7. \A t \in Nat : /\ b * c + b * (1 + t) = b * (c + 1 + t)
                     /\ b * (c + 1 + t) > b * c
  <2>1. SUFFICES ASSUME NEW t \in Nat
                 PROVE  b * c + b * (1 + t) = b * (c + 1 + t) /\ b * (c + 1 + t) > b * c
    OBVIOUS
  <2>2. b * (c + 1 + t) = b * c + b + b * t /\ b * (1 + t) = b + b * t
        /\ b * t \in Nat /\ b * c \in Nat
    BY <1>0
  <2>3. QED
    BY <1>0, <2>2
<1>8. CASE r = 0
  <2>1. (b * q + (b - 1)) \div b = q
    BY <1>0, <1>1, DivMod
  <2>2. s + b - 1 = b * q + (b - 1)
    BY <1>0, <1>1, <1>8
  <2>3. NextHeader(b * c, s) = b * c + b * (1 + q)
    BY <1>0, <1>1, <1>6, <1>8
  <2>4. QED
    BY <1>1, <1>7, <2>1, <2>2, <2>3
<1>9. CASE r # 0
  <2>1. r - 1 \in Nat /\ r - 1 < b /\ q + 1 \in Nat
    BY <1>0, <1>1, <1>9
  <2>2. (b * (q + 1) + (r - 1)) \div b = q + 1
    BY <1>0, <2>1, DivMod
  <2>3. s + b - 1 = b * (q + 1) + (r - 1)
    BY <1>0, <1>1
  <2>4. NextHeader(b * c, s) = b * c + b * (1 + (q + 1))
    BY <1>0, <1>1, <1>6, <1>9
  <2>5. QED
    BY <1>7, <2>1, <2>2, <2>3, <2>4
<1>10. QED
  BY <1>1, <1>8, <1>9

SizeStep(digits, F, i) ==
  IF i = 0 THEN 0
  ELSE IF digits[i] = -1 THEN F[i - 1] ELSE (F[i - 1] * 8 + digits[i]) % WORD

LEMMA SizeExists ==
  ASSUME NEW digits, NEW n \in Nat
  PROVE  \E F : F = [i \in 0..n |-> SizeStep(digits, F, i)]
<1> DEFINE P(m) == \E F : F = [i \in 0..m |-> SizeStep(digits, F, i)]
           G == {m \in Nat : P(m)}
<1>1. 0 \in G
  <2> DEFINE F0 == [i \in 0..0 |-> 0]
  <2>1. F0 = [i \in 0..0 |-> SizeStep(digits, F0, i)]
    BY DEF SizeStep
  <2>2. QED
    BY <2>1
<1>2. ASSUME NEW m \in 0..(n - 1), m \in G PROVE m + 1 \in G
  <2>1. PICK F : F = [i \in 0..m |-> SizeStep(digits, F, i)]
    BY <1>2
  <2> DEFINE H == [i \in 0..(m + 1) |-> IF i <= m THEN F[i] ELSE SizeStep(digits, F, m + 1)]
  <2>2. ASSUME NEW i \in 0..(m + 1) PROVE H[i] = SizeStep(digits, H, i)
    <3>1. CASE i <= m
      <4>1. H[i] = SizeStep(digits, F, i)
        BY <2>1, <3>1
      <4>2. i # 0 => H[i - 1] = F[i - 1]
        BY <3>1
      <4>3. QED
        BY <4>1, <4>2 DEF SizeStep
    <3>2. CASE i = m + 1
      <4>1. H[i - 1] = F[i - 1]
        BY <3>2
      <4>2. QED
        BY <4>1, <3>2 DEF SizeStep
    <3>3. QED
      BY <3>1, <3>2
  <2>3. H = [i \in 0..(m + 1) |-> SizeStep(digits, H, i)]
    BY <2>2
  <2>4. P(m + 1)
    BY <2>3
  <2>5. QED
    BY <2>4
<1> HIDE DEF G
<1>3. \A i \in 0..n : i \in G
  BY <1>1, <1>2, SetInduction
<1>4. n \in G
  BY <1>3
<1>5. QED
  BY <1>4 DEF G

\* A size is a number, whatever its digits and blanks.
LEMMA SizeIs ==
  ASSUME NEW digits \in Seq(-1 .. 7)
  PROVE  get_file_size_tarfs(digits) \in Nat
<1> DEFINE F == CHOOSE F : F = [i \in 0..Len(digits) |-> SizeStep(digits, F, i)]
           G == {i \in 0..Len(digits) : F[i] \in Nat}
<1>0. Len(digits) \in Nat /\ WORD \in Nat /\ WORD > 0
  BY FilesAssumption
<1>1. F = [i \in 0..Len(digits) |-> SizeStep(digits, F, i)]
  BY <1>0, SizeExists
<1>2. get_file_size_tarfs(digits) = F[Len(digits)]
  BY Zenon DEF get_file_size_tarfs, SizeStep
<1> HIDE DEF F
<1>3. 0 \in G
  BY <1>0, <1>1 DEF SizeStep
<1>4. ASSUME NEW i \in 0..(Len(digits) - 1), i \in G PROVE i + 1 \in G
  <2>1. i + 1 \in 1..Len(digits) /\ (i + 1) - 1 = i /\ i + 1 # 0
    BY <1>0
  <2>2. F[i + 1] = SizeStep(digits, F, i + 1)
    BY <1>1, <2>1
  <2>3. F[i] \in Nat /\ digits[i + 1] \in -1 .. 7
    BY <1>4, <2>1
  <2>4. F[i + 1] = IF digits[i + 1] = -1 THEN F[i] ELSE (F[i] * 8 + digits[i + 1]) % WORD
    BY <2>1, <2>2 DEF SizeStep
  <2>5. digits[i + 1] # -1 => (F[i] * 8 + digits[i + 1]) % WORD \in Nat
    <3>1. digits[i + 1] # -1 => F[i] * 8 + digits[i + 1] \in Nat
      BY <2>3, SMTT(30)
    <3>2. \A a \in Nat : a % WORD \in Nat
      BY <1>0
    <3>3. QED
      BY <3>1, <3>2
  <2>6. QED
    BY <2>1, <2>3, <2>4, <2>5
<1> HIDE DEF G
<1>5. \A i \in 0..Len(digits) : i \in G
  BY <1>0, <1>3, <1>4, SetInduction
<1>6. Len(digits) \in G
  BY <1>0, <1>5
<1>7. QED
  BY <1>2, <1>6 DEF G

AddressStep(e, F, i) ==
  IF i = 0 THEN 0
  ELSE F[i - 1] + BLOCK * (1 + (get_file_size_tarfs(e[i].size) + BLOCK - 1) \div BLOCK)

LEMMA AddressesExist ==
  ASSUME NEW e, NEW n \in Nat
  PROVE  \E F : F = [i \in 0..n |-> AddressStep(e, F, i)]
<1> DEFINE P(m) == \E F : F = [i \in 0..m |-> AddressStep(e, F, i)]
           G == {m \in Nat : P(m)}
<1>1. 0 \in G
  <2> DEFINE F0 == [i \in 0..0 |-> 0]
  <2>1. F0 = [i \in 0..0 |-> AddressStep(e, F0, i)]
    BY DEF AddressStep
  <2>2. QED
    BY <2>1
<1>2. ASSUME NEW m \in 0..(n - 1), m \in G PROVE m + 1 \in G
  <2>1. PICK F : F = [i \in 0..m |-> AddressStep(e, F, i)]
    BY <1>2
  <2> DEFINE H == [i \in 0..(m + 1) |-> IF i <= m THEN F[i] ELSE AddressStep(e, F, m + 1)]
  <2>2. ASSUME NEW i \in 0..(m + 1) PROVE H[i] = AddressStep(e, H, i)
    <3>1. CASE i <= m
      <4>1. H[i] = AddressStep(e, F, i)
        BY <2>1, <3>1
      <4>2. i # 0 => H[i - 1] = F[i - 1]
        BY <3>1
      <4>3. QED
        BY <4>1, <4>2 DEF AddressStep
    <3>2. CASE i = m + 1
      <4>1. H[i - 1] = F[i - 1]
        BY <3>2
      <4>2. QED
        BY <4>1, <3>2 DEF AddressStep
    <3>3. QED
      BY <3>1, <3>2
  <2>3. H = [i \in 0..(m + 1) |-> AddressStep(e, H, i)]
    BY <2>2
  <2>4. P(m + 1)
    BY <2>3
  <2>5. QED
    BY <2>4
<1> HIDE DEF G
<1>3. \A i \in 0..n : i \in G
  BY <1>1, <1>2, SetInduction
<1>4. n \in G
  BY <1>3
<1>5. QED
  BY <1>4 DEF G

Header == [path : Seq(Seq(STRING)), flag : STRING, size : Seq(-1 .. 7)]

\* The headers are at increasing addresses, and the scan goes from each to the next.
LEMMA AddressesAre ==
  ASSUME NEW e \in Seq(Header)
  PROVE  /\ Addresses(e) \in [0..Len(e) -> Nat] /\ Addresses(e)[0] = 0
         /\ \A i \in 1..Len(e) :
              NextHeader(Addresses(e)[i - 1], get_file_size_tarfs(e[i].size)) = Addresses(e)[i]
         /\ \A i, j \in 0..Len(e) : i < j => Addresses(e)[i] < Addresses(e)[j]
<1> DEFINE F == CHOOSE F : F = [i \in 0..Len(e) |-> AddressStep(e, F, i)]
           n == Len(e)
           sz(i) == get_file_size_tarfs(e[i].size)
<1>0. n \in Nat /\ BLOCK \in Nat \ {0}
  BY FilesAssumption
<1>1. F = [i \in 0..n |-> AddressStep(e, F, i)]
  BY <1>0, AddressesExist
<1>2. Addresses(e) = F
  BY Zenon DEF Addresses, AddressStep
<1> HIDE DEF F, n
<1>3. F[0] = 0
  BY <1>0, <1>1 DEF AddressStep
<1>4. \A i \in 1..n : sz(i) \in Nat
  <2>1. SUFFICES ASSUME NEW i \in 1..n PROVE sz(i) \in Nat
    OBVIOUS
  <2>2. e[i] \in Header
    BY DEF n
  <2>3. e[i].size \in Seq(-1 .. 7)
    BY <2>2 DEF Header
  <2>4. QED
    BY <2>3, SizeIs
<1> HIDE DEF sz
<1>5. ASSUME NEW i \in 1..n, NEW c \in Nat, F[i - 1] = BLOCK * c
      PROVE  /\ \E d \in Nat : F[i] = BLOCK * d
             /\ NextHeader(F[i - 1], sz(i)) = F[i]
             /\ F[i - 1] < F[i]
  <2>1. PICK t \in Nat : /\ (sz(i) + BLOCK - 1) \div BLOCK = t
                         /\ NextHeader(BLOCK * c, sz(i)) = BLOCK * c + BLOCK * (1 + t)
                         /\ BLOCK * c + BLOCK * (1 + t) = BLOCK * (c + 1 + t)
                         /\ BLOCK * (c + 1 + t) > BLOCK * c
    BY <1>4, NextIs
  <2>2. F[i] = AddressStep(e, F, i) /\ i # 0
    BY <1>0, <1>1
  <2>3. F[i] = F[i - 1] + BLOCK * (1 + (sz(i) + BLOCK - 1) \div BLOCK)
    BY <2>2 DEF AddressStep, sz
  <2>4. F[i] = BLOCK * (c + 1 + t) /\ c + 1 + t \in Nat
    BY <1>5, <2>1, <2>3
  <2>5. BLOCK * c \in Nat /\ BLOCK * (c + 1 + t) \in Nat
    BY <1>0, <2>4
  <2>6. QED
    BY <1>5, <2>1, <2>4, <2>5
<1> DEFINE G == {i \in 0..n : \E c \in Nat : F[i] = BLOCK * c}
<1>6. 0 \in G
  <2>1. F[0] = BLOCK * 0
    BY <1>0, <1>3
  <2>2. QED
    BY <1>0, <2>1
<1>7. ASSUME NEW i \in 0..(n - 1), i \in G PROVE i + 1 \in G
  <2>1. i + 1 \in 1..n /\ (i + 1) - 1 = i
    BY <1>0
  <2>2. PICK c \in Nat : F[i] = BLOCK * c
    BY <1>7
  <2>3. \E d \in Nat : F[i + 1] = BLOCK * d
    BY <1>5, <2>1, <2>2
  <2>4. QED
    BY <2>1, <2>3
<1>8. \A i \in 0..n : i \in G
  <2> HIDE DEF G
  <2>1. QED
    BY <1>0, <1>6, <1>7, SetInduction
<1>9. \A i \in 0..n : F[i] \in Nat
  <2>1. \A c \in Nat : BLOCK * c \in Nat
    BY <1>0
  <2>2. QED
    BY <1>8, <2>1
<1>10. \A i \in 1..n : NextHeader(F[i - 1], sz(i)) = F[i] /\ F[i - 1] < F[i]
  <2>1. SUFFICES ASSUME NEW i \in 1..n PROVE NextHeader(F[i - 1], sz(i)) = F[i] /\ F[i - 1] < F[i]
    OBVIOUS
  <2>0. i - 1 \in 0..n
    BY <1>0
  <2>2. i - 1 \in G
    BY <1>8, <2>0
  <2>3. PICK c \in Nat : F[i - 1] = BLOCK * c
    BY <2>2
  <2>4. QED
    BY <1>5, <2>3
<1>11. \A j \in 0..n : \A i \in 0..n : i < j => F[i] < F[j]
  <2> DEFINE H == {j \in 0..n : \A i \in 0..n : i < j => F[i] < F[j]}
  <2>1. 0 \in H
    BY <1>0
  <2>2. ASSUME NEW j \in 0..(n - 1), j \in H PROVE j + 1 \in H
    <3>1. j + 1 \in 1..n /\ (j + 1) - 1 = j /\ j \in 0..n /\ j + 1 \in 0..n
      BY <1>0
    <3>2. F[j] < F[j + 1] /\ F[j] \in Nat /\ F[j + 1] \in Nat
      BY <1>9, <1>10, <3>1
    <3>3. ASSUME NEW i \in 0..n, i < j + 1 PROVE F[i] < F[j + 1]
      <4>1. CASE i = j
        BY <3>2, <4>1
      <4>2. CASE i < j
        <5>1. F[i] < F[j] /\ F[i] \in Nat
          BY <1>9, <2>2, <4>2
        <5>2. QED
          BY <3>2, <5>1
      <4>3. QED
        BY <3>3, <4>1, <4>2
    <3>4. QED
      BY <3>1, <3>3
  <2>3. \A j \in 0..n : j \in H
    <3> HIDE DEF H
    <3>1. QED
      BY <1>0, <2>1, <2>2, SetInduction
  <2>4. QED
    BY <2>3
<1>12. F \in [0..n -> Nat]
  <2>1. DOMAIN F = 0..n /\ F = [i \in 0..n |-> F[i]]
    BY <1>1
  <2>2. QED
    BY <1>9, <2>1
<1>13. QED
  BY <1>2, <1>3, <1>10, <1>11, <1>12 DEF n, sz

\* The archive has each header at its address, and nothing else.
LEMMA LayoutIs ==
  ASSUME NEW e \in Seq(Header)
  PROVE  /\ DOMAIN Layout(e) = {Addresses(e)[i - 1] : i \in 1..Len(e)}
         /\ \A i \in 1..Len(e) : Layout(e)[Addresses(e)[i - 1]] = e[i]
         /\ Addresses(e)[Len(e)] \notin DOMAIN Layout(e)
         /\ IsFiniteSet(DOMAIN Layout(e)) /\ Cardinality(DOMAIN Layout(e)) = Len(e)
<1> DEFINE at == Addresses(e)
           n == Len(e)
           D == {at[i - 1] : i \in 1..n}
<1>1. n \in Nat /\ DOMAIN e = 1..n
  OBVIOUS
<1>2. at \in [0..n -> Nat] /\ \A i, j \in 0..n : i < j => at[i] < at[j]
  BY AddressesAre
<1>3. Layout(e) = [a \in D |-> e[CHOOSE i \in 1..n : at[i - 1] = a]]
  BY <1>1 DEF Layout
<1> HIDE DEF at, n
<1>4. ASSUME NEW i \in 1..n, NEW j \in 1..n, at[i - 1] = at[j - 1] PROVE i = j
  <2>1. i - 1 \in 0..n /\ j - 1 \in 0..n
    BY <1>1
  <2>2. ~(i - 1 < j - 1) /\ ~(j - 1 < i - 1)
    BY <1>2, <1>4, <2>1
  <2>3. QED
    BY <1>1, <2>2
<1>5. \A i \in 1..n : Layout(e)[at[i - 1]] = e[i]
  <2>1. SUFFICES ASSUME NEW i \in 1..n PROVE Layout(e)[at[i - 1]] = e[i]
    OBVIOUS
  <2>2. (CHOOSE j \in 1..n : at[j - 1] = at[i - 1]) = i
    BY <1>4
  <2>3. at[i - 1] \in D
    OBVIOUS
  <2>4. QED
    BY <1>3, <2>2, <2>3, ZenonT(30)
<1>6. at[n] \notin D
  <2>1. SUFFICES ASSUME NEW i \in 1..n, at[i - 1] = at[n] PROVE FALSE
    OBVIOUS
  <2>2. i - 1 \in 0..n /\ n \in 0..n /\ i - 1 < n
    BY <1>1
  <2>3. at[i - 1] < at[n] /\ at[n] \in Nat
    BY <1>2, <2>2
  <2>4. QED
    BY <2>1, <2>3
<1>7. IsFiniteSet(D) /\ Cardinality(D) = n
  <2> DEFINE f == [i \in 1..n |-> at[i - 1]]
  <2>1. f \in Bijection(1..n, D)
    <3>1. f \in [1..n -> D]
      OBVIOUS
    <3>2. IsInjective(f)
      BY <1>4 DEF IsInjective
    <3>3. \A t \in D : \E i \in 1..n : f[i] = t
      OBVIOUS
    <3>4. QED
      BY <3>1, <3>2, <3>3 DEF Bijection, Injection, Surjection
  <2>2. ExistsBijection(1..n, D)
    BY <2>1 DEF ExistsBijection
  <2>3. IsFiniteSet(1..n) /\ Cardinality(1..n) = n
    BY <1>1, FS_Interval
  <2> HIDE DEF D
  <2>4. QED
    BY <2>2, <2>3, FS_Bijection
<1>8. QED
  BY <1>3, <1>5, <1>6, <1>7 DEF at, n

VisitNext(a, seen) ==
  LET next == NextHeader(Last(seen), get_file_size_tarfs(a[Last(seen)].size))
  IN  IF seen # <<>> /\ next \in DOMAIN a THEN Append(seen, next) ELSE seen

VisitFirst(a) == IF 0 \in DOMAIN a THEN <<0>> ELSE <<>>

VisitStep(a, F, k) == IF k = 0 THEN VisitFirst(a) ELSE VisitNext(a, F[k - 1])

LEMMA VisitExists ==
  ASSUME NEW a, NEW n \in Nat
  PROVE  \E F : F = [k \in 0..n |-> VisitStep(a, F, k)]
<1> DEFINE P(m) == \E F : F = [k \in 0..m |-> VisitStep(a, F, k)]
           G == {m \in Nat : P(m)}
<1>1. 0 \in G
  <2> DEFINE F0 == [k \in 0..0 |-> VisitFirst(a)]
  <2>1. F0 = [k \in 0..0 |-> VisitStep(a, F0, k)]
    BY DEF VisitStep
  <2>2. QED
    BY <2>1
<1>2. ASSUME NEW m \in 0..(n - 1), m \in G PROVE m + 1 \in G
  <2>1. PICK F : F = [k \in 0..m |-> VisitStep(a, F, k)]
    BY <1>2
  <2> DEFINE H == [k \in 0..(m + 1) |-> IF k <= m THEN F[k] ELSE VisitStep(a, F, m + 1)]
  <2>2. ASSUME NEW k \in 0..(m + 1) PROVE H[k] = VisitStep(a, H, k)
    <3>1. CASE k <= m
      <4>1. H[k] = VisitStep(a, F, k)
        BY <2>1, <3>1
      <4>2. k # 0 => H[k - 1] = F[k - 1]
        BY <3>1
      <4>3. QED
        BY <4>1, <4>2 DEF VisitStep
    <3>2. CASE k = m + 1
      <4>1. H[k - 1] = F[k - 1]
        BY <3>2
      <4>2. QED
        BY <4>1, <3>2 DEF VisitStep
    <3>3. QED
      BY <3>1, <3>2
  <2>3. H = [k \in 0..(m + 1) |-> VisitStep(a, H, k)]
    BY <2>2
  <2>4. P(m + 1)
    BY <2>3
  <2>5. QED
    BY <2>4
<1> HIDE DEF G
<1>3. \A i \in 0..n : i \in G
  BY <1>1, <1>2, SetInduction
<1>4. n \in G
  BY <1>3
<1>5. QED
  BY <1>4 DEF G

\* The first m addresses.
FirstOf(at, m) == [i \in 1..m |-> at[i - 1]]

LEMMA FirstOfIs ==
  ASSUME NEW n \in Nat, NEW at \in [0..n -> Nat], NEW m \in 1..n
  PROVE  /\ FirstOf(at, m) # <<>> /\ Last(FirstOf(at, m)) = at[m - 1]
         /\ Append(FirstOf(at, m), at[m]) = FirstOf(at, m + 1)
<1> DEFINE s == FirstOf(at, m)
<1>1. s \in Seq(Nat) /\ Len(s) = m /\ \A i \in 1..m : s[i] = at[i - 1]
  BY DEF FirstOf
<1>2. at[m] \in Nat
  OBVIOUS
<1>3. Append(s, at[m]) \in Seq(Nat) /\ Len(Append(s, at[m])) = m + 1
      /\ \A i \in 1..(m + 1) : Append(s, at[m])[i] = at[i - 1]
  BY <1>1, <1>2
<1>4. FirstOf(at, m + 1) \in Seq(Nat) /\ Len(FirstOf(at, m + 1)) = m + 1
      /\ \A i \in 1..(m + 1) : FirstOf(at, m + 1)[i] = at[i - 1]
  BY DEF FirstOf
<1> HIDE DEF s
<1>5. Append(s, at[m]) = FirstOf(at, m + 1)
  BY <1>3, <1>4, SameSeq
<1>6. s # <<>> /\ Last(s) = at[m - 1]
  BY <1>1 DEF Last
<1>7. QED
  BY <1>5, <1>6 DEF s

\* The scan visits every header, in the order of the archive, and then ends.
LEMMA VisitedIs ==
  ASSUME NEW e \in Seq(Header), e # <<>>
  PROVE  Visited(Layout(e)) = FirstOf(Addresses(e), Len(e))
<1> DEFINE n == Len(e)
           at == Addresses(e)
           a == Layout(e)
           F == CHOOSE F : F = [k \in 0..n |-> VisitStep(a, F, k)]
<1>0. n \in Nat /\ n >= 1
  OBVIOUS
<1>1. /\ at \in [0..n -> Nat] /\ at[0] = 0
      /\ \A i \in 1..n : NextHeader(at[i - 1], get_file_size_tarfs(e[i].size)) = at[i]
  BY AddressesAre
<1>2. /\ DOMAIN a = {at[i - 1] : i \in 1..n}
      /\ \A i \in 1..n : a[at[i - 1]] = e[i]
      /\ at[n] \notin DOMAIN a
      /\ Cardinality(DOMAIN a) = n
  BY LayoutIs
<1>3. F = [k \in 0..n |-> VisitStep(a, F, k)]
  BY <1>0, VisitExists
<1>4. Visited(a) = F[n]
  <2>1. Visited(a) = (CHOOSE G : G = [k \in 0..Cardinality(DOMAIN a) |-> VisitStep(a, G, k)])[Cardinality(DOMAIN a)]
    BY Zenon DEF Visited, VisitStep, VisitFirst, VisitNext
  <2>2. QED
    BY <1>2, <2>1, Zenon
<1> HIDE DEF F, n, at, a
<1> DEFINE m(k) == IF k < n THEN k + 1 ELSE n
           G == {k \in 0..n : F[k] = FirstOf(at, m(k))}
<1>5. 0 \in G
  <2>1. 0 \in DOMAIN a
    <3>1. 1 \in 1..n /\ at[1 - 1] = 0
      BY <1>0, <1>1
    <3>2. QED
      BY <1>2, <3>1
  <2>2. F[0] = <<0>>
    BY <1>0, <1>3, <2>1 DEF VisitStep, VisitFirst, VisitNext
  <2>3. FirstOf(at, 1) = <<0>>
    BY <1>1 DEF FirstOf
  <2>4. QED
    BY <1>0, <2>2, <2>3
<1>6. ASSUME NEW k \in 0..(n - 1), k \in G PROVE k + 1 \in G
  <2>1. /\ k + 1 \in 1..n /\ (k + 1) - 1 = k /\ k + 1 # 0 /\ k < n /\ k + 1 \in 0..n
    BY <1>0
  <2> DEFINE seen == F[k]
             next == NextHeader(Last(seen), get_file_size_tarfs(a[Last(seen)].size))
  <2>2. F[k + 1] = IF seen # <<>> /\ next \in DOMAIN a THEN Append(seen, next) ELSE seen
    <3>1. F[k + 1] = VisitStep(a, F, k + 1)
      BY <1>3, <2>1
    <3>2. QED
      BY <2>1, <3>1 DEF VisitStep, VisitFirst, VisitNext
  <2>3. seen = FirstOf(at, k + 1)
    BY <1>6, <2>1
  <2>4. /\ seen # <<>> /\ Last(seen) = at[k]
        /\ Append(seen, at[k + 1]) = FirstOf(at, k + 2)
    <3>1. /\ FirstOf(at, k + 1) # <<>> /\ Last(FirstOf(at, k + 1)) = at[(k + 1) - 1]
          /\ Append(FirstOf(at, k + 1), at[k + 1]) = FirstOf(at, (k + 1) + 1)
      BY <1>0, <1>1, <2>1, FirstOfIs
    <3>2. (k + 1) + 1 = k + 2
      BY <2>1
    <3>3. QED
      BY <2>1, <2>3, <3>1, <3>2
  <2>5. next = at[k + 1]
    <3>1. a[at[k]] = e[k + 1] /\ NextHeader(at[k], get_file_size_tarfs(e[k + 1].size)) = at[k + 1]
      BY <1>1, <1>2, <2>1
    <3>2. QED
      BY <2>4, <3>1
  <2> HIDE DEF seen, next
  <2>6. CASE k + 1 < n
    <3>1. k + 2 \in 1..n /\ (k + 2) - 1 = k + 1
      BY <1>0, <2>1, <2>6
    <3>2. at[k + 1] \in DOMAIN a
      BY <1>2, <3>1
    <3>3. F[k + 1] = FirstOf(at, k + 2) /\ m(k + 1) = k + 2
      BY <2>2, <2>4, <2>5, <2>6, <3>2
    <3>4. QED
      BY <2>1, <3>3
  <2>7. CASE k + 1 = n
    <3>1. at[k + 1] \notin DOMAIN a
      BY <1>2, <2>7
    <3>2. F[k + 1] = FirstOf(at, k + 1)
      BY <2>2, <2>3, <2>5, <3>1
    <3>3. m(k + 1) = k + 1
      BY <1>0, <2>7
    <3>4. QED
      BY <2>1, <3>2, <3>3
  <2>8. k + 1 < n \/ k + 1 = n
    BY <1>0, <2>1
  <2>9. QED
    BY <2>6, <2>7, <2>8
<1> HIDE DEF G
<1>7. \A k \in 0..n : k \in G
  BY <1>0, <1>5, <1>6, SetInduction
<1>8. n \in G
  BY <1>0, <1>7
<1>9. F[n] = FirstOf(at, n)
  BY <1>0, <1>8 DEF G
<1>10. QED
  BY <1>4, <1>9 DEF a, at, n

\* The archive is one that tar has made.
Written == archive \in {Layout(e) : e \in Contents}

LEMMA WrittenOK ==
  ASSUME Written
  PROVE  TarOK
<1>1. PICK e \in Contents : archive = Layout(e)
  BY DEF Written
<1> DEFINE n == Len(e)
           at == Addresses(e)
           v == Visited(archive)
<1>2. e \in Seq(Header) /\ e # <<>>
  BY ContentsAssumption DEF Header
<1>3. n \in Nat \ {0} /\ DOMAIN e = 1..n
  BY <1>2
<1>4. /\ at \in [0..n -> Nat] /\ at[0] = 0
      /\ \A i, j \in 0..n : i < j => at[i] < at[j]
  BY <1>2, AddressesAre
<1>5. /\ DOMAIN archive = {at[i - 1] : i \in 1..n}
      /\ \A i \in 1..n : archive[at[i - 1]] = e[i]
  BY <1>1, <1>2, LayoutIs
<1>6. v = FirstOf(at, n)
  BY <1>1, <1>2, VisitedIs
<1>7. \A i \in 1..n : e[i] \in Header
  BY <1>2
<1>8. /\ \A i \in 1..n :
           /\ e[i].path = <<>> <=> i = 1
           /\ \A k \in DOMAIN e[i].path : e[i].path[k] \notin {<<>>, Slash}
           /\ \A k \in 1 .. Len(e[i].path) - 1 : \E j \in 1..n : e[j].path = SubSeq(e[i].path, 1, k)
      /\ \A i, j \in 1..n : IsStrictPrefix(e[i].path, e[j].path) => e[i].flag = "DIRTYPE"
  <2>1. /\ \A i \in DOMAIN e :
              /\ e[i].path = <<>> <=> i = 1
              /\ \A k \in DOMAIN e[i].path : e[i].path[k] \notin {<<>>, Slash}
              /\ \A k \in 1 .. Len(e[i].path) - 1 : \E j \in DOMAIN e : e[j].path = SubSeq(e[i].path, 1, k)
        /\ \A i, j \in DOMAIN e : IsStrictPrefix(e[i].path, e[j].path) => e[i].flag = "DIRTYPE"
    BY <1>1, ContentsAssumption, Zenon
  <2> HIDE DEF n
  <2>2. QED
    BY <1>3, <2>1, ZenonT(30)
<1> HIDE DEF n, at, v
<1>9. \A i \in 1..n : i - 1 \in 0..n /\ at[i - 1] \in DOMAIN archive
  BY <1>3, <1>5
<1>10. at[1 - 1] = 0 /\ 1 \in 1..n
  BY <1>3, <1>4
<1>11. \A i, j \in 1..n : at[i - 1] = at[j - 1] => i = j
  <2>1. SUFFICES ASSUME NEW i \in 1..n, NEW j \in 1..n, at[i - 1] = at[j - 1] PROVE i = j
    OBVIOUS
  <2>2. ~(i - 1 < j - 1) /\ ~(j - 1 < i - 1)
    BY <1>4, <1>9, <2>1
  <2>3. QED
    BY <1>3, <2>2
<1>12. 0 \in DOMAIN archive
  BY <1>9, <1>10
<1>13. /\ v \in [1..n -> DOMAIN archive] /\ IsInjective(v) /\ v[1] = 0
       /\ Range(v) = DOMAIN archive
  <2>1. v = [i \in 1..n |-> at[i - 1]]
    BY <1>6 DEF FirstOf
  <2>2. v \in [1..n -> DOMAIN archive]
    BY <1>9, <2>1
  <2>3. IsInjective(v)
    BY <1>11, <2>1 DEF IsInjective
  <2>4. v[1] = 0
    BY <1>10, <2>1
  <2>5. Range(v) = {v[i] : i \in 1..n}
    BY <2>1 DEF Range
  <2>6. \A i \in 1..n : v[i] = at[i - 1]
    BY <2>1
  <2>7. QED
    BY <1>5, <2>2, <2>3, <2>4, <2>5, <2>6
<1>14. \A x \in DOMAIN archive :
       /\ archive[x].path \in Seq(Seq(STRING))
       /\ archive[x].path = <<>> <=> x = 0
       /\ \A k \in 1..Len(archive[x].path) : archive[x].path[k] # <<>> /\ archive[x].path[k] # Slash
       /\ \A k \in 1..Len(archive[x].path) - 1 :
            \E y \in DOMAIN archive : archive[y].path = SubSeq(archive[x].path, 1, k)
  <2> DEFINE Q(q, x) ==
               /\ q \in Seq(Seq(STRING))
               /\ q = <<>> <=> x = 0
               /\ \A k \in 1..Len(q) : q[k] # <<>> /\ q[k] # Slash
               /\ \A k \in 1..Len(q) - 1 : \E y \in DOMAIN archive : archive[y].path = SubSeq(q, 1, k)
  <2>1. SUFFICES ASSUME NEW i \in 1..n PROVE Q(e[i].path, at[i - 1])
    <3>1. \A i \in 1..n : Q(e[i].path, at[i - 1])
      BY <2>1
    <3>2. \A x \in DOMAIN archive : \E i \in 1..n : x = at[i - 1] /\ archive[x] = e[i]
      BY <1>5
    <3> HIDE DEF Q
    <3>3. \A x \in DOMAIN archive : Q(archive[x].path, x)
      BY <3>1, <3>2
    <3>4. QED
      BY <3>3 DEF Q
  <2>2. e[i].path \in Seq(Seq(STRING))
    BY <1>7 DEF Header
  <2>3. e[i].path = <<>> <=> at[i - 1] = 0
    BY <1>8, <1>10, <1>11
  <2>4. \A k \in 1..Len(e[i].path) : e[i].path[k] # <<>> /\ e[i].path[k] # Slash
    <3>1. DOMAIN e[i].path = 1..Len(e[i].path)
      BY <2>2
    <3>2. QED
      BY <1>8, <3>1
  <2>5. \A k \in 1..Len(e[i].path) - 1 :
          \E y \in DOMAIN archive : archive[y].path = SubSeq(e[i].path, 1, k)
    <3>1. SUFFICES ASSUME NEW k \in 1..Len(e[i].path) - 1
                   PROVE  \E y \in DOMAIN archive : archive[y].path = SubSeq(e[i].path, 1, k)
      OBVIOUS
    <3>2. PICK j \in 1..n : e[j].path = SubSeq(e[i].path, 1, k)
      BY <1>8
    <3>3. QED
      BY <1>5, <1>9, <3>2
  <2>6. QED
    BY <2>2, <2>3, <2>4, <2>5
<1>15. \A x, y \in DOMAIN archive :
       IsStrictPrefix(archive[x].path, archive[y].path) => archive[x].flag = "DIRTYPE"
  <2>1. \A x \in DOMAIN archive : \E i \in 1..n : archive[x] = e[i]
    BY <1>5
  <2>2. SUFFICES ASSUME NEW x \in DOMAIN archive, NEW y \in DOMAIN archive,
                        IsStrictPrefix(archive[x].path, archive[y].path)
                 PROVE  archive[x].flag = "DIRTYPE"
    OBVIOUS
  <2>3. PICK i \in 1..n : archive[x] = e[i]
    BY <2>1
  <2>4. PICK j \in 1..n : archive[y] = e[j]
    BY <2>1
  <2>5. IsStrictPrefix(e[i].path, e[j].path)
    BY <2>2, <2>3, <2>4
  <2>6. e[i].flag = "DIRTYPE"
    BY <1>8, <2>5
  <2>7. QED
    BY <2>3, <2>6
<1>16. QED
  BY <1>3, <1>12, <1>13, <1>14, <1>15 DEF TarOK, v

LEMMA ArchiveKept ==
  ASSUME [Next]_vars
  PROVE  archive' = archive
<1>1. CASE UNCHANGED vars
  BY <1>1 DEF vars
<1>2. CASE initialise_vfs_layer \/ initialise_devfs \/ create_tarfs_filesystem \/ kputchar
  BY <1>2 DEF initialise_vfs_layer, initialise_devfs, create_tarfs_filesystem, kputchar
<1>3. CASE init_device
  BY <1>3 DEF init_device
<1>4. ASSUME NEW p \in Procs, sysc_exit(p) PROVE archive' = archive
  BY <1>4 DEF sysc_exit
<1>5. ASSUME NEW p \in Procs, NEW path \in Paths,
             loader_spawn(p, path) \/ sysc_execve(p, path) \/ fopen(p, path)
      PROVE  archive' = archive
  BY <1>5 DEF loader_spawn, sysc_execve, fopen
<1>6. ASSUME NEW p \in Procs, NEW c \in Procs, sysc_fork(p, c) PROVE archive' = archive
  BY <1>6 DEF sysc_fork
<1>7. ASSUME NEW p \in Procs, NEW k \in 1..MaxOpen, fclose(p, k) \/ ls_main(p, k) \/ ioctl(p, k)
      PROVE  archive' = archive
  BY <1>7 DEF fclose, ls_main, ioctl, Call
<1>8. ASSUME NEW p \in Procs, NEW k \in 1..MaxOpen, NEW m \in Requests,
             fread(p, k, m) \/ fwrite(p, k, m)
      PROVE  archive' = archive
  BY <1>8 DEF fread, fwrite, Call
<1>9. ASSUME NEW p \in Procs, NEW k \in 1..MaxOpen, NEW m \in Requests,
             NEW origin \in {"SEEK_SET", "SEEK_CUR", "SEEK_END"}, fseek(p, k, m, origin)
      PROVE  archive' = archive
  BY <1>9 DEF fseek
<1>10. QED
  BY <1>1, <1>2, <1>3, <1>4, <1>5, <1>6, <1>7, <1>8, <1>9 DEF Next

LEMMA WrittenInvariant == Spec => []Written
<1>1. Init => Written
  BY DEF Init, Written
<1>2. Written /\ [Next]_vars => Written'
  BY ArchiveKept DEF Written
<1>3. QED
  BY <1>1, <1>2, PTL DEF Spec

\* For every archive that tar makes of files whose names do not collide, and every path:
\* a path of the archive leads to its own file, and one that is not there nowhere, although
\* the driver looks for the last parts of names only (find_in_directory_tarfs,
\* check_parse_filename), scans the whole archive for each (read_directory_tarfs) and
\* computes where the next header is from the octal size of each file.
THEOREM PathsResolve == Spec => []Resolves
<1>1. BootInv /\ Written => Resolves
  BY WrittenOK, ResolvesWhenBooted
<1>2. QED
  BY <1>1, BootInvariant, WrittenInvariant, PTL

-----------------------------------------------------------------------------
(* Listings.  "./" passes check_parse_filename for every directory and is  *)
(* visited first: what is found of a directory is "./" and its entries.    *)

LEMMA Prepended ==
  ASSUME NEW T, NEW a \in T, NEW g \in Seq(T), NEW b \in T
  PROVE  Append(<<a>> \o g, b) = <<a>> \o Append(g, b)
<1> DEFINE l == Append(<<a>> \o g, b)
           r == <<a>> \o Append(g, b)
<1>1. <<a>> \in Seq(T) /\ Len(<<a>>) = 1 /\ Len(g) \in Nat
  OBVIOUS
<1>2. l \in Seq(T) /\ Len(l) = Len(g) + 2
  OBVIOUS
<1>3. r \in Seq(T) /\ Len(r) = Len(g) + 2
  OBVIOUS
<1>4. \A i \in 1..(Len(g) + 2) : l[i] = r[i]
  OBVIOUS
<1> HIDE DEF l, r
<1>5. l = r
  BY <1>2, <1>3, <1>4, SameSeq
<1>6. QED
  BY <1>5 DEF l, r

\* A set whose first member is the head of a sequence.
LEMMA KeepFirst ==
  ASSUME NEW T, NEW q \in Seq(T), Len(q) >= 1, NEW S, NEW R, q[1] \in S, q[1] \notin R,
         \A i \in 2..Len(q) : q[i] \in S <=> q[i] \in R
  PROVE  Keep(q, S) = <<q[1]>> \o Keep(q, R)
<1> DEFINE n == Len(q)
           F == CHOOSE F : F = [i \in 0..Len(q) |-> KeepStep(q, S, F, i)]
           H == CHOOSE E : E = [i \in 0..Len(q) |-> KeepStep(q, R, E, i)]
<1>0. n \in Nat /\ n - 1 \in Nat
  OBVIOUS
<1>1. F = [i \in 0..n |-> KeepStep(q, S, F, i)]
  BY KeepExists, SMTT(30)
<1>2. H = [i \in 0..n |-> KeepStep(q, R, H, i)]
  BY KeepExists, SMTT(30)
<1>3. Keep(q, S) = F[n] /\ Keep(q, R) = H[n]
  BY Zenon DEF Keep, KeepStep
<1> HIDE DEF F, H
<1> DEFINE G == {i \in 0..(n - 1) : H[i + 1] \in Seq(T) /\ F[i + 1] = <<q[1]>> \o H[i + 1]}
<1>4. 0 \in G
  <2>1. F[0] = <<>> /\ H[0] = <<>>
    BY <1>0, <1>1, <1>2 DEF KeepStep
  <2>2. F[1] = KeepStep(q, S, F, 1) /\ H[1] = KeepStep(q, R, H, 1)
    <3>1. 1 \in 0..n
      BY <1>0
    <3>2. QED
      BY <1>1, <1>2, <3>1
  <2>3. F[1] = Append(<<>>, q[1]) /\ H[1] = <<>>
    <3>1. 1 - 1 = 0 /\ 1 # 0
      OBVIOUS
    <3>2. QED
      BY <2>1, <2>2, <3>1 DEF KeepStep
  <2>4. q[1] \in T /\ <<>> \in Seq(T) /\ Append(<<>>, q[1]) = <<q[1]>> \o <<>>
    <3>1. q[1] \in T
      BY <1>0
    <3>2. \A a : Append(<<>>, a) = <<a>> \o <<>>
      OBVIOUS
    <3>3. QED
      BY <3>1, <3>2
  <2>5. 0 \in 0..(n - 1) /\ 0 + 1 = 1
    BY <1>0
  <2>6. H[1] \in Seq(T) /\ F[1] = <<q[1]>> \o H[1]
    BY <2>3, <2>4
  <2>7. QED
    BY <2>5, <2>6
<1>5. ASSUME NEW i \in 0..((n - 1) - 1), i \in G PROVE i + 1 \in G
  <2> DEFINE k == i + 2
  <2>1. k \in 2..n /\ k \in 0..n /\ k # 0 /\ k - 1 = i + 1 /\ (i + 1) + 1 = k /\ i + 1 \in 0..(n - 1)
    BY <1>0
  <2> HIDE DEF k
  <2>2. F[k] = KeepStep(q, S, F, k) /\ H[k] = KeepStep(q, R, H, k)
    BY <1>1, <1>2, <2>1
  <2>3. F[k] = IF q[k] \in S THEN Append(F[i + 1], q[k]) ELSE F[i + 1]
    BY <2>1, <2>2 DEF KeepStep
  <2>4. H[k] = IF q[k] \in R THEN Append(H[i + 1], q[k]) ELSE H[i + 1]
    BY <2>1, <2>2 DEF KeepStep
  <2>5. q[k] \in S <=> q[k] \in R
    BY <2>1
  <2>6. H[i + 1] \in Seq(T) /\ F[i + 1] = <<q[1]>> \o H[i + 1]
    BY <1>5
  <2>7. q[1] \in T /\ q[k] \in T
    BY <1>0, <2>1
  <2>8. H[k] \in Seq(T)
    BY <2>4, <2>6, <2>7
  <2>9. F[k] = <<q[1]>> \o H[k]
    <3>1. Append(<<q[1]>> \o H[i + 1], q[k]) = <<q[1]>> \o Append(H[i + 1], q[k])
      BY <2>6, <2>7, Prepended, SMTT(30)
    <3>2. QED
      BY <2>3, <2>4, <2>5, <2>6, <3>1
  <2>10. QED
    BY <2>1, <2>8, <2>9
<1> HIDE DEF G
<1>6. \A i \in 0..(n - 1) : i \in G
  BY <1>0, <1>4, <1>5, SetInduction
<1>7. n - 1 \in G
  BY <1>0, <1>6
<1>8. (n - 1) + 1 = n
  BY <1>0
<1>9. QED
  BY <1>3, <1>7, <1>8 DEF G

\* The entries of a directory, as LsComplete wants them listed.
Kids(a, path) ==
  Keep(Visited(a), {x \in DOMAIN a : a[x].path # <<>> /\ Front(a[x].path) = path})

LEMMA FamilyKids ==
  ASSUME TarOK, Plain, NEW y \in DOMAIN archive, NEW node,
         node.type = "DIRE", node.name = DirName(y)
  PROVE  /\ Kids(archive, archive[y].path) \in Seq(DOMAIN archive \ {0})
         /\ Family(archive, node) = <<0>> \o Kids(archive, archive[y].path)
<1> DEFINE v == Visited(archive)
           S == {at \in DOMAIN archive : check_parse_filename(archive[at].path, node.name) # -1}
           R == {x \in DOMAIN archive : archive[x].path # <<>> /\ Front(archive[x].path) = archive[y].path}
           T == DOMAIN archive
<1>1. PICK n \in Nat \ {0} : v \in [1..n -> T] /\ IsInjective(v) /\ v[1] = 0
  BY DEF TarOK
<1>2. v \in Seq(T) /\ Len(v) = n /\ Len(v) >= 1
  BY <1>1
<1>3. Family(archive, node) = Keep(v, S) /\ Kids(archive, archive[y].path) = Keep(v, R)
  BY DEF Family, Kids
<1>4. \A x \in T : x \in S <=> x = 0 \/ Front(archive[x].path) = archive[y].path
  BY IsChild
<1>t. 0 \in T /\ \A x \in T : archive[x].path = <<>> <=> x = 0
  BY DEF TarOK
<1>5. /\ 0 \in S /\ 0 \notin R
      /\ \A x \in T \ {0} : x \in S <=> x \in R
  BY <1>4, <1>t
<1>6. \A i \in 2..Len(v) : v[i] \in T \ {0}
  BY <1>1, <1>2 DEF IsInjective
<1> HIDE DEF v, S
<1>7. Keep(v, R) \in Seq(T) /\ Range(Keep(v, R)) = Range(v) \cap R
  BY <1>2, KeepRange
<1> HIDE DEF R
<1>8. \A i \in 2..Len(v) : v[i] \in S <=> v[i] \in R
  BY <1>5, <1>6
<1>9. Keep(v, S) = <<v[1]>> \o Keep(v, R)
  BY <1>1, <1>2, <1>5, <1>8, KeepFirst
<1>10. Keep(v, R) \in Seq(T \ {0})
  BY <1>5, <1>7 DEF Range
<1>11. QED
  BY <1>1, <1>3, <1>9, <1>10

\* What a lookup finds: a directory of an archive has the name of an entry.
Known(a, nd) ==
  nd.fs = "tar" => \E y \in DOMAIN a : nd.name = IF y = 0 THEN Slash ELSE Last(a[y].path)

LEMMA NilKnown == Known(archive, Nil)
<1>1. Nil.fs # "tar"
  BY DEF Nil
<1>2. QED
  BY <1>1 DEF Known

LEMMA ChildKnown ==
  ASSUME TarOK, NEW node, NEW name
  PROVE  Known(archive, Child(archive, node, name))
<1> DEFINE f == Family(archive, node)
           S == {at \in DOMAIN archive : check_parse_filename(archive[at].path, node.name) # -1}
           hits == {i \in DOMAIN f : /\ archive[f[i]].path # <<>>
                                     /\ Last(archive[f[i]].path) = name}
<1>1. f \in Seq(DOMAIN archive)
  <2>1. Visited(archive) \in Seq(DOMAIN archive)
    BY DEF TarOK
  <2>2. Keep(Visited(archive), S) \in Seq(DOMAIN archive)
    BY <2>1, KeepRange
  <2>3. <<>> \in Seq(DOMAIN archive)
    OBVIOUS
  <2>4. f = <<>> \/ f = Keep(Visited(archive), S)
    BY DEF Family
  <2> HIDE DEF f, S
  <2>5. QED
    BY <2>2, <2>3, <2>4
<1>2. Child(archive, node, name) = IF hits = {} THEN Nil ELSE build_node_tarfs(archive, f[Min(hits)])
  BY DEF Child, FirstNamed
<1> HIDE DEF f
<1>3. CASE hits = {}
  BY <1>2, <1>3, NilKnown
<1>4. CASE hits # {}
  <2>1. hits \in SUBSET Nat
    BY <1>1
  <2>2. PICK i \in hits : \A j \in hits : i <= j
    BY <1>4, <2>1, LeastElement
  <2>3. f[i] \in DOMAIN archive /\ archive[f[i]].path # <<>>
    BY <1>1, <2>2
  <2> HIDE DEF hits
  <2>s. hits \subseteq Int
    BY <2>1
  <2>4. Min(hits) = i
    BY <2>2, <2>s, MinIs
  <2>5. f[i] # 0
    BY <2>3 DEF TarOK
  <2>6. build_node_tarfs(archive, f[i]).name = Last(archive[f[i]].path)
    BY BuildIs
  <2>7. Child(archive, node, name) = build_node_tarfs(archive, f[i])
    BY <1>2, <1>4, <2>4
  <2>8. QED
    BY <2>3, <2>5, <2>6, <2>7 DEF Known
<1>5. QED
  BY <1>3, <1>4

LEMMA FindKnown ==
  ASSUME TarOK, NEW root, root.name = Slash, NEW path \in Seq(Seq(STRING)), path # <<>>
  PROVE  Known(archive, find_in_directory_tarfs(archive, root, path))
<1> DEFINE F == CHOOSE F : F = [k \in 0..Len(path) |-> LevelStep(root, path, F, k)]
           ks == {k \in 1..Len(path) : path[k] = Last(path)}
<1>0. Len(path) \in Nat /\ Len(path) >= 1 /\ Last(path) = path[Len(path)]
  BY DEF Last
<1>1. F = [k \in 0..Len(path) |-> LevelStep(root, path, F, k)]
  BY <1>0, LevelsExist
<1>2. find_in_directory_tarfs(archive, root, path) = F[Min(ks)]
  BY Zenon DEF find_in_directory_tarfs, LevelStep
<1> HIDE DEF F
<1>3. ks \in SUBSET Nat /\ ks \subseteq Int
  BY <1>0
<1>n. Len(path) \in ks
  BY <1>0
<1>4. PICK k \in ks : \A j \in ks : k <= j
  BY <1>3, <1>n, LeastElement
<1>5. k \in 1..Len(path)
  BY <1>4
<1> HIDE DEF ks
<1>6. Min(ks) = k
  BY <1>3, <1>4, MinIs
<1>7. k \in 0..Len(path) /\ k # 0
  BY <1>0, <1>5
<1>8. F[k] = LevelStep(root, path, F, k)
  BY <1>1, <1>7
<1>9. F[k] = IF F[k - 1] = Nil THEN Nil ELSE Child(archive, F[k - 1], path[k])
  BY <1>7, <1>8 DEF LevelStep
<1>10. Known(archive, F[k])
  BY <1>9, NilKnown, ChildKnown
<1>11. QED
  BY <1>2, <1>6, <1>10

\* A path through devfs leads to it or to one of its devices.
LEMMA DevicesSearched ==
  ASSUME NEW root, mounts = Rooted(root), DevicesOK,
         NEW path, path.abs, path.parts \in Seq(Seq(STRING)), path.parts # <<>>, path.parts[1] = Dev
  PROVE  vfs_find_node(path).fs # "tar"
<1> DEFINE parts == path.parts
           ks == {k \in 0..Len(parts) : \A j \in 1..k : Descends(SubSeq(parts, 1, j - 1), parts[j])}
<1>0. Len(parts) \in Nat /\ Len(parts) >= 1 /\ SubSeq(parts, 1, 0) = <<>>
  OBVIOUS
<1>d. SubSeq(parts, 1, 1) = <<Dev>>
  <2> DEFINE s == SubSeq(parts, 1, 1)
  <2>1. 1 \in 0..Len(parts) /\ parts \in Seq(Seq(STRING)) /\ 1 \in 1..1
    BY <1>0
  <2>2. s \in Seq(Seq(STRING)) /\ Len(s) = 1 /\ s[1] = parts[1]
    BY <2>1, PrefixIs
  <2> HIDE DEF s, parts
  <2>3. s = <<s[1]>>
    BY <2>2
  <2>4. QED
    BY <2>2, <2>3 DEF s, parts
<1>1. Descends(<<>>, Dev) /\ \A name : ~Descends(<<Dev>>, name) /\ ~Moves(<<Dev>>, name)
  BY RootedWalk
<1> HIDE DEF parts
<1>2. 1 \in ks
  <2>1. \A j \in 1..1 : j = 1
    OBVIOUS
  <2>2. SubSeq(parts, 1, 1 - 1) = <<>> /\ parts[1] = Dev
    BY <1>0 DEF parts
  <2>3. Descends(SubSeq(parts, 1, 1 - 1), parts[1])
    BY <1>1, <2>2, Zenon
  <2>4. QED
    BY <1>0, <2>1, <2>3
<1>3. \A k \in ks : k <= 1
  <2>1. SUFFICES ASSUME NEW k \in ks, ~(k <= 1) PROVE FALSE
    OBVIOUS
  <2>2. k \in 0..Len(parts) /\ \A j \in 1..k : Descends(SubSeq(parts, 1, j - 1), parts[j])
    OBVIOUS
  <2>3. 2 \in 1..k /\ 2 - 1 = 1
    BY <1>0, <2>1, <2>2
  <2>4. Descends(SubSeq(parts, 1, 2 - 1), parts[2])
    BY <2>2, <2>3
  <2>5. Descends(<<Dev>>, parts[2])
    BY <1>d, <2>3, <2>4
  <2>6. QED
    BY <1>1, <2>5
<1>4. ks \subseteq Int
  BY <1>0
<1>5. Depth(parts) = 1
  <2> HIDE DEF ks
  <2>1. Max(ks) = 1
    BY <1>2, <1>3, <1>4, MaxIs
  <2>2. QED
    BY <2>1 DEF Depth, ks
<1>6. DataAt(mounts, <<Dev>>) = DevRoot /\ DevRoot.fs = "devfs" /\ DevRoot.type = "DIRE"
  BY RootedFacts DEF DevRoot
<1> DEFINE k == Depth(parts)
           left == SubSeq(parts, k + 1, Len(parts))
           at == IF left # <<>> /\ Moves(SubSeq(parts, 1, k), parts[k + 1]) THEN k + 1 ELSE k
           node == DataAt(mounts, SubSeq(parts, 1, at))
<1>7. at = 1
  <2>1. ~Moves(SubSeq(parts, 1, k), parts[k + 1])
    BY <1>1, <1>5, <1>d
  <2>2. QED
    BY <1>5, <2>1
<1>8. node = DevRoot
  BY <1>6, <1>7, <1>d
<1>9. vfs_find_node(path) = IF left = <<>> THEN node
                            ELSE IF node.type = "SDIR" THEN Nil ELSE dir_find(node, left)
  BY Zenon DEF vfs_find_node, parts
<1> HIDE DEF left
<1>10. vfs_find_node(path) = DevRoot \/ vfs_find_node(path) = find_in_directory_devfs(devices, left)
  <2>1. dir_find(DevRoot, left) = find_in_directory_devfs(devices, left)
    BY <1>6 DEF dir_find
  <2>2. QED
    BY <1>6, <1>8, <1>9, <2>1
<1>11. find_in_directory_devfs(devices, left).fs # "tar"
  <2> DEFINE hits == {i \in DOMAIN devices : left = <<devices[i].name>>}
  <2>1. DOMAIN devices = 1..Len(devices) /\ Len(devices) \in Nat
    BY ListFacts DEF DevicesOK
  <2>2. hits \in SUBSET Nat
    BY <2>1
  <2>3. find_in_directory_devfs(devices, left) = IF hits = {} THEN Nil ELSE devices[Min(hits)]
    BY DEF find_in_directory_devfs
  <2>4. CASE hits = {}
    BY <2>3, <2>4 DEF Nil
  <2>5. CASE hits # {}
    <3>1. PICK i \in hits : \A j \in hits : i <= j
      BY <2>2, <2>5, LeastElement
    <3>2. i \in 1..Len(devices)
      BY <2>1
    <3> HIDE DEF hits
    <3>s. hits \subseteq Int
      BY <2>2
    <3>3. Min(hits) = i
      BY <3>1, <3>s, MinIs
    <3>4. devices[i].fs = "dev"
      BY <3>2 DEF DevicesOK, Made
    <3>5. QED
      BY <2>3, <2>5, <3>3, <3>4
  <2>6. QED
    BY <2>4, <2>5
<1>12. QED
  BY <1>6, <1>10, <1>11

\* After the boot.
LEMMA FoundKnown ==
  ASSUME BootInv, TarOK, boot = 9, NEW path \in Paths
  PROVE  Known(archive, vfs_find_node(path))
<1>1. PICK size : mounts = Rooted(TarRoot(<<>>, size))
  BY DEF BootInv
<1> DEFINE root == TarRoot(<<>>, size)
           parts == path.parts
<1>2. root.type = "DIRE" /\ root.name = Slash /\ root.fs = "tar" /\ root # Nil
  BY TarRootIs
<1> HIDE DEF root
<1>3. parts \in Seq(Seq(STRING)) /\ path.abs \in BOOLEAN
  BY PathsAssumption DEF PathsAssumption
<1>4. CASE ~path.abs \/ parts = <<>>
  <2>1. DataAt(mounts, <<>>) = root
    BY <1>1, RootedFacts DEF root
  <2>2. vfs_find_node(path) = root
    BY <1>4, <2>1, Zenon DEF vfs_find_node
  <2>3. 0 \in DOMAIN archive
    BY DEF TarOK
  <2>4. QED
    BY <1>2, <2>2, <2>3 DEF Known
<1>5. CASE path.abs /\ parts # <<>> /\ parts[1] # Dev
  <2>1. vfs_find_node(path) = find_in_directory_tarfs(archive, root, parts)
    BY <1>1, <1>2, <1>3, <1>5, ArchiveSearched DEF root
  <2>2. Known(archive, find_in_directory_tarfs(archive, root, parts))
    BY <1>2, <1>3, <1>5, FindKnown
  <2>3. QED
    BY <2>1, <2>2
<1>6. CASE path.abs /\ parts # <<>> /\ parts[1] = Dev
  <2>1. vfs_find_node(path).fs # "tar"
    BY <1>1, <1>3, <1>6, DevicesSearched DEF BootInv
  <2>2. QED
    BY <2>1 DEF Known
<1>7. QED
  BY <1>4, <1>5, <1>6

\* What ls is to show of the directory y of an archive.
Listed(a, y) ==
  <<IF y = 0 THEN Slash ELSE Last(a[y].path)>>
    \o [i \in DOMAIN Kids(a, a[y].path) |-> Last(a[Kids(a, a[y].path)[i]].path)]

Headed(s, S, c, b) ==
  /\ s \in Seq(S) /\ Len(s) = Len(b) + 1 /\ s[1] = c
  /\ \A i \in 1..Len(b) : s[i + 1] = b[i]

LEMMA HeadedIs ==
  ASSUME NEW S, NEW c \in S, NEW b \in Seq(S)
  PROVE  Headed(<<c>> \o b, S, c, b)
<1>1. <<c>> \o b \in Seq(S) /\ Len(<<c>> \o b) = Len(b) + 1
  OBVIOUS
<1>2. (<<c>> \o b)[1] = c
  OBVIOUS
<1>3. \A i \in 1..Len(b) : (<<c>> \o b)[i + 1] = b[i]
  OBVIOUS
<1>4. QED
  BY <1>1, <1>2, <1>3 DEF Headed

\* One entry of a directory.
LEMMA EntryIs ==
  ASSUME TarOK, Plain, NEW y \in DOMAIN archive, NEW node, node.fs = "tar",
         node.type = "DIRE", node.name = DirName(y), NEW n \in Nat
  PROVE  /\ IsList(Listed(archive, y))
         /\ n < Len(Listed(archive, y)) =>
              /\ read_directory_tarfs(archive, node, n) # Nil
              /\ read_directory_tarfs(archive, node, n).name = Listed(archive, y)[n + 1]
         /\ n = Len(Listed(archive, y)) => read_directory_tarfs(archive, node, n) = Nil
<1> DEFINE kids == Kids(archive, archive[y].path)
           names == [i \in DOMAIN kids |-> Last(archive[kids[i]].path)]
           all == Listed(archive, y)
           family == Family(archive, node)
           T == Seq(STRING) \union {Slash}
<1>1. kids \in Seq(DOMAIN archive \ {0}) /\ family = <<0>> \o kids
  BY FamilyKids
<1> HIDE DEF kids, family
<1>2. /\ Len(kids) \in Nat /\ DOMAIN kids = 1..Len(kids)
      /\ Len(family) = Len(kids) + 1 /\ family[1] = 0
      /\ \A i \in 1..Len(kids) : family[i + 1] = kids[i]
  BY <1>1
<1>3. names \in Seq(Seq(STRING)) /\ Len(names) = Len(kids)
      /\ \A i \in 1..Len(kids) : names[i] = Last(archive[kids[i]].path)
  <2>1. \A i \in 1..Len(kids) : Last(archive[kids[i]].path) \in Seq(STRING)
    BY <1>1, NameOf
  <2>2. QED
    BY <1>2, <2>1
<1>4. DirName(y) \in T
  BY NameOf DEF DirName
<1>5. all = <<DirName(y)>> \o names
  BY DEF Listed, kids, DirName
<1> HIDE DEF all, names
<1>6. /\ IsList(all) /\ Len(all) = Len(kids) + 1 /\ all[1] = DirName(y)
      /\ \A i \in 1..Len(kids) : all[i + 1] = names[i]
  <2>1. /\ all \in Seq(T) /\ Len(all) = Len(names) + 1 /\ all[1] = DirName(y)
        /\ \A i \in 1..Len(names) : all[i + 1] = names[i]
    <3>1. names \in Seq(T)
      BY <1>3
    <3> HIDE DEF T
    <3>2. Headed(<<DirName(y)>> \o names, T, DirName(y), names)
      BY <1>4, <3>1, HeadedIs
    <3>3. QED
      BY <1>5, <3>2 DEF Headed
  <2>2. IsList(all)
    BY <2>1, ListOf
  <2>3. QED
    BY <1>3, <2>1, <2>2
<1>7. node # Nil
  BY DEF Nil
<1> DEFINE at == family[n + 1]
<1>8. read_directory_tarfs(archive, node, n)
        = IF n >= Len(family) THEN Nil
          ELSE IF archive[at].path # <<>> THEN build_node_tarfs(archive, at)
          ELSE IF n = 0 THEN node ELSE Nil
  BY DEF read_directory_tarfs, family
<1>9. CASE n = 0
  <2>1. at = 0 /\ ~(n >= Len(family))
    BY <1>2, <1>9
  <2>2. archive[0].path = <<>>
    BY DEF TarOK
  <2>3. read_directory_tarfs(archive, node, n) = node
    BY <1>8, <1>9, <2>1, <2>2
  <2>4. n + 1 = 1 /\ n # Len(all)
    BY <1>2, <1>6, <1>9
  <2>5. QED
    BY <1>6, <1>7, <2>3, <2>4 DEF all
<1>10. CASE n > 0 /\ n < Len(all)
  <2>1. n \in 1..Len(kids) /\ n + 1 \in Nat /\ ~(n >= Len(family)) /\ n # Len(all)
    BY <1>2, <1>6, <1>10
  <2>2. at = kids[n] /\ kids[n] \in DOMAIN archive \ {0} /\ all[n + 1] = Last(archive[kids[n]].path)
    BY <1>1, <1>2, <1>3, <1>6, <2>1
  <2>3. archive[kids[n]].path # <<>>
    BY <2>2 DEF TarOK
  <2>4. read_directory_tarfs(archive, node, n) = build_node_tarfs(archive, kids[n])
    BY <1>8, <2>1, <2>2, <2>3
  <2>5. build_node_tarfs(archive, kids[n]) # Nil
        /\ build_node_tarfs(archive, kids[n]).name = Last(archive[kids[n]].path)
    BY BuildIs
  <2>6. QED
    BY <1>6, <2>1, <2>2, <2>4, <2>5 DEF all
<1>11. CASE n >= Len(all)
  <2>1. n >= Len(family) /\ ~(n < Len(all))
    BY <1>2, <1>6, <1>11
  <2>2. QED
    BY <1>6, <1>8, <2>1 DEF all
<1>12. QED
  BY <1>2, <1>6, <1>9, <1>10, <1>11

\* How far a listing has come.
Progress(all, seen, ended) ==
  /\ IsList(all)
  /\ Len(seen) \in 0..Len(all)
  /\ seen = SubSeq(all, 1, Len(seen))
  /\ ended => Len(seen) = Len(all)

Seen(a, f) ==
  f.own = TRUE /\ f.opened.fs = "tar" /\ f.opened.type = "DIRE" =>
    \E y \in DOMAIN a : /\ f.opened.name = IF y = 0 THEN Slash ELSE Last(a[y].path)
                        /\ Progress(Listed(a, y), f.seen, f.ended)

SeenAll(a, fs) == \A k \in 1..Len(fs) : Seen(a, fs[k])

LEMMA ProgressStart ==
  ASSUME NEW all, IsList(all)
  PROVE  Progress(all, <<>>, FALSE)
<1>1. Len(all) \in Nat /\ Len(<<>>) = 0 /\ SubSeq(all, 1, 0) = <<>>
  BY DEF IsList
<1>2. QED
  BY <1>1 DEF Progress

LEMMA ProgressOne ==
  ASSUME NEW all, NEW seen, NEW ended, Progress(all, seen, ended), Len(seen) < Len(all)
  PROVE  Progress(all, Append(seen, all[Len(seen) + 1]), FALSE)
<1> DEFINE n == Len(seen)
           b == all[n + 1]
           s == SubSeq(all, 1, n)
<1>1. n \in Nat /\ Len(all) \in Nat /\ n + 1 \in 0..Len(all) /\ all \in Seq(Range(all)) /\ seen = s
      /\ n + 1 \in 1..Len(all)
  BY DEF Progress, IsList
<1> HIDE DEF n
<1>2. SubSeq(all, 1, n + 1) = Append(s, b)
  BY <1>1
<1>3. Len(SubSeq(all, 1, n + 1)) = n + 1
  BY <1>1
<1>4. Append(seen, b) = SubSeq(all, 1, n + 1) /\ Len(Append(seen, b)) = n + 1
  BY <1>1, <1>2, <1>3
<1>5. QED
  BY <1>1, <1>4 DEF Progress, n

\* Processes run only once the boot has ended.
UpInv == alive # {} => boot = 9

LEMMA UpInvNext ==
  ASSUME UpInv, [Next]_vars
  PROVE  UpInv'
<1>0. Len(DeviceOrder) = 6
  BY DEF DeviceOrder
<1>1. CASE UNCHANGED vars
  BY <1>1 DEF vars, UpInv
<1>2. CASE \/ initialise_vfs_layer \/ initialise_devfs \/ init_device
           \/ create_tarfs_filesystem \/ kputchar
  <2>1. alive' = alive /\ (boot = 9 => boot' = boot)
    BY <1>0, <1>2 DEF initialise_vfs_layer, initialise_devfs, init_device, create_tarfs_filesystem,
                      kputchar
  <2>2. QED
    BY <2>1 DEF UpInv
<1>3. ASSUME NEW p \in Procs, sysc_exit(p) PROVE UpInv'
  BY <1>3 DEF sysc_exit, UpInv
<1>4. ASSUME NEW p \in Procs, NEW path \in Paths, loader_spawn(p, path) PROVE UpInv'
  BY <1>0, <1>4 DEF loader_spawn, Booted, UpInv
<1>5. ASSUME NEW p \in Procs, NEW path \in Paths, sysc_execve(p, path) PROVE UpInv'
  <2>1. alive # {} /\ boot' = boot
    BY <1>5 DEF sysc_execve
  <2>2. QED
    BY <2>1 DEF UpInv
<1>6. ASSUME NEW p \in Procs, NEW path \in Paths, fopen(p, path) PROVE UpInv'
  BY <1>6 DEF fopen, UpInv
<1>7. ASSUME NEW p \in Procs, NEW c \in Procs, sysc_fork(p, c) PROVE UpInv'
  <2>1. alive # {} /\ boot' = boot
    BY <1>7 DEF sysc_fork
  <2>2. QED
    BY <2>1 DEF UpInv
<1>8. ASSUME NEW p \in Procs, NEW k \in 1..MaxOpen, fclose(p, k) \/ ls_main(p, k) \/ ioctl(p, k)
      PROVE  UpInv'
  BY <1>8 DEF fclose, ls_main, ioctl, Call, UpInv
<1>9. ASSUME NEW p \in Procs, NEW k \in 1..MaxOpen, NEW m \in Requests,
             fread(p, k, m) \/ fwrite(p, k, m)
      PROVE  UpInv'
  BY <1>9 DEF fread, fwrite, Call, UpInv
<1>10. ASSUME NEW p \in Procs, NEW k \in 1..MaxOpen, NEW m \in Requests,
              NEW origin \in {"SEEK_SET", "SEEK_CUR", "SEEK_END"}, fseek(p, k, m, origin)
       PROVE  UpInv'
  BY <1>10 DEF fseek, UpInv
<1>11. QED
  BY <1>1, <1>2, <1>3, <1>4, <1>5, <1>6, <1>7, <1>8, <1>9, <1>10 DEF Next

LEMMA UpInvariant == Spec => []UpInv
<1>1. Init => UpInv
  BY DEF Init, UpInv
<1>2. UpInv /\ [Next]_vars => UpInv'
  BY UpInvNext
<1>3. QED
  BY <1>1, <1>2, PTL DEF Spec

\* Every listing of a directory of the archive is at some entry of it.
SeenInv == Plain => \A p \in Procs : SeenAll(archive, files[p])

LEMMA SeenChange ==
  ASSUME NEW p \in Procs, NEW f, DOMAIN files = Procs, files' = [files EXCEPT ![p] = f],
         \A q \in Procs : SeenAll(archive, files[q]), SeenAll(archive, f)
  PROVE  \A q \in Procs : SeenAll(archive, files'[q])
<1>1. SUFFICES ASSUME NEW q \in Procs PROVE SeenAll(archive, files'[q])
  OBVIOUS
<1>2. files'[q] = f \/ files'[q] = files[q]
  OBVIOUS
<1>3. QED
  BY <1>2

LEMMA SeenFile ==
  ASSUME NEW p \in Procs, NEW k \in DOMAIN files[p], NEW e, FilesInv,
         files' = [files EXCEPT ![p][k] = e],
         \A q \in Procs : SeenAll(archive, files[q]), Seen(archive, e)
  PROVE  \A q \in Procs : SeenAll(archive, files'[q])
<1> DEFINE f == [files[p] EXCEPT ![k] = e]
<1>1. DOMAIN files = Procs /\ IsList(files[p])
  BY DEF FilesInv, Table
<1>2. Len(files[p]) \in Nat /\ DOMAIN files[p] = 1..Len(files[p])
  BY <1>1, ListFacts
<1>3. files' = [files EXCEPT ![p] = f]
  BY <1>1
<1>4. Len(f) = Len(files[p]) /\ \A i \in 1..Len(files[p]) : f[i] = e \/ f[i] = files[p][i]
  BY <1>1, <1>2, ListChange
<1> HIDE DEF f
<1>5. SeenAll(archive, f)
  BY <1>4 DEF SeenAll
<1>6. QED
  BY <1>1, <1>3, <1>5, SeenChange

\* A new FILE.
LEMMA SeenOpen ==
  ASSUME TarOK, Plain, FilesInv, BootInv, UpInv, NEW p \in Procs, NEW path \in Paths, fopen(p, path),
         \A q \in Procs : SeenAll(archive, files[q])
  PROVE  \A q \in Procs : SeenAll(archive, files'[q])
<1> DEFINE x == vfs_find_node(path)
           e == [id |-> Len(nodes[p]), seek_index |-> 0, opened |-> x, base |-> 0, got |-> 0,
                 seen |-> <<>>, ended |-> FALSE, own |-> TRUE]
           f == Append(files[p], e)
<1>1. DOMAIN files = Procs /\ IsList(files[p])
  BY DEF FilesInv, Table
<1>2. p \in alive /\ files' = [files EXCEPT ![p] = f]
  BY <1>1 DEF fopen
<1>3. boot = 9
  BY <1>2 DEF UpInv
<1>4. Known(archive, x)
  BY <1>3, FoundKnown
<1>5. e.opened = x /\ e.seen = <<>> /\ e.ended = FALSE
  OBVIOUS
<1> HIDE DEF x, e
<1>6. Seen(archive, e)
  <2>1. SUFFICES ASSUME x.fs = "tar", x.type = "DIRE"
                 PROVE  \E y \in DOMAIN archive :
                          /\ x.name = IF y = 0 THEN Slash ELSE Last(archive[y].path)
                          /\ Progress(Listed(archive, y), <<>>, FALSE)
    BY <1>5 DEF Seen
  <2>2. PICK y \in DOMAIN archive : x.name = IF y = 0 THEN Slash ELSE Last(archive[y].path)
    BY <1>4, <2>1 DEF Known
  <2>3. x.name = DirName(y)
    BY <2>2 DEF DirName
  <2>4. 0 \in Nat
    OBVIOUS
  <2>5. IsList(Listed(archive, y))
    BY <2>1, <2>3, <2>4, EntryIs
  <2>6. Progress(Listed(archive, y), <<>>, FALSE)
    BY <2>5, ProgressStart
  <2>7. QED
    BY <2>2, <2>6
<1>7. /\ Len(f) = Len(files[p]) + 1 /\ Len(files[p]) \in Nat
      /\ \A i \in 1..Len(files[p]) : f[i] = files[p][i]
      /\ f[Len(files[p]) + 1] = e
  BY <1>1, ListAppend, ListFacts
<1> HIDE DEF f
<1>8. SeenAll(archive, f)
  BY <1>6, <1>7 DEF SeenAll
<1>9. QED
  BY <1>1, <1>2, <1>8, SeenChange

\* Closing a FILE.
LEMMA SeenClose ==
  ASSUME FilesInv, NEW p \in Procs, NEW k, fclose(p, k),
         \A q \in Procs : SeenAll(archive, files[q])
  PROVE  \A q \in Procs : SeenAll(archive, files'[q])
<1> DEFINE f == RemoveAt(files[p], k)
<1>1. DOMAIN files = Procs /\ IsList(files[p])
  BY DEF FilesInv, Table
<1>2. k \in DOMAIN files[p] /\ files' = [files EXCEPT ![p] = f]
  BY <1>1 DEF fclose
<1>3. k \in 1..Len(files[p])
  BY <1>1, <1>2, ListFacts
<1>4. \A i \in 1..Len(f) : \E j \in 1..Len(files[p]) : f[i] = files[p][j]
  BY <1>1, <1>3, ListRemove
<1> HIDE DEF f
<1>5. SeenAll(archive, f)
  <2>1. SUFFICES ASSUME NEW i \in 1..Len(f) PROVE Seen(archive, f[i])
    BY DEF SeenAll
  <2>2. PICK j \in 1..Len(files[p]) : f[i] = files[p][j]
    BY <1>4
  <2>3. QED
    BY <2>2 DEF SeenAll
<1>6. QED
  BY <1>1, <1>2, <1>5, SeenChange

\* One turn of the loop of ls.
LEMMA SeenList ==
  ASSUME TarOK, Plain, FilesInv, NEW p \in Procs, NEW k, ls_main(p, k),
         \A q \in Procs : SeenAll(archive, files[q])
  PROVE  \A q \in Procs : SeenAll(archive, files'[q])
<1> DEFINE f == files[p][k]
           nd == f.opened
           n == Len(f.seen)
           found == sysc_list(p, f.id, n)
           seen == IF found = Nil THEN f.seen ELSE Append(f.seen, found.name)
           same == sysc_get_proc_node(p, f.id) = nd
           e == [f EXCEPT !.seen = seen, !.ended = found = Nil, !.own = @ /\ same]
<1>1. k \in DOMAIN files[p]
  BY DEF ls_main
<1>2. files' = [files EXCEPT ![p][k] = e]
  BY Zenon DEF ls_main
<1>3. FileOK(f)
  BY <1>1, OpenFile
<1>4. Seen(archive, f)
  <2>1. IsList(files[p])
    BY DEF FilesInv, Table
  <2>2. k \in 1..Len(files[p])
    BY <1>1, <2>1, ListFacts
  <2>3. QED
    BY <2>2 DEF SeenAll
<1>5. DOMAIN f = Fields /\ nd # Nil
  BY <1>3 DEF FileOK
<1>6. e.opened = nd /\ e.seen = seen
  BY <1>5 DEF Fields
<1>7. e.ended = (found = Nil) /\ e.own = (f.own /\ same)
  <2>1. "ended" \in DOMAIN f /\ "own" \in DOMAIN f
    BY <1>5 DEF Fields
  <2>2. QED
    BY <2>1, Zenon
<1>7a. e.own = TRUE => f.own = TRUE /\ same
  BY <1>3, <1>7, Zenon DEF FileOK
<1>8. same /\ nd.type = "DIRE" /\ nd.fs = "tar" => found = read_directory_tarfs(archive, nd, n)
  BY <1>5, Zenon DEF sysc_list, dir_read
<1> HIDE DEF e, found, seen, same
<1>9. Seen(archive, e)
  <2>1. SUFFICES ASSUME f.own = TRUE, same, nd.fs = "tar", nd.type = "DIRE"
                 PROVE  \E y \in DOMAIN archive :
                          /\ nd.name = IF y = 0 THEN Slash ELSE Last(archive[y].path)
                          /\ Progress(Listed(archive, y), seen, found = Nil)
    BY <1>6, <1>7, <1>7a, Zenon DEF Seen
  <2>2. PICK y \in DOMAIN archive :
          /\ nd.name = IF y = 0 THEN Slash ELSE Last(archive[y].path)
          /\ Progress(Listed(archive, y), f.seen, f.ended)
    BY <1>4, <2>1, Zenon DEF Seen
  <2> DEFINE all == Listed(archive, y)
  <2>3. nd.name = DirName(y)
    BY <2>2 DEF DirName
  <2>4. Progress(all, f.seen, f.ended)
    BY <2>2
  <2>5. n \in 0..Len(all) /\ IsList(all) /\ f.seen = SubSeq(all, 1, n)
    BY <2>4 DEF Progress
  <2>6. Len(all) \in Nat /\ n \in Nat
    BY <2>5, ListFacts
  <2>7. /\ n < Len(all) => found # Nil /\ found.name = all[n + 1]
        /\ n = Len(all) => found = Nil
    BY <1>8, <2>1, <2>3, <2>6, EntryIs
  <2> HIDE DEF all
  <2>8. CASE n < Len(all)
    <3>1. seen = Append(f.seen, all[n + 1]) /\ (found = Nil) = FALSE
      BY <2>7, <2>8 DEF seen
    <3> DEFINE en == f.ended
    <3> HIDE DEF en
    <3>2. Progress(all, f.seen, en) /\ Len(f.seen) < Len(all)
      BY <2>4, <2>8 DEF en
    <3>3. Progress(all, Append(f.seen, all[Len(f.seen) + 1]), FALSE)
      BY <3>2, ProgressOne
    <3>4. Progress(all, seen, found = Nil)
      BY <3>1, <3>3, Zenon
    <3>5. QED
      BY <2>2, <3>4, Zenon DEF all
  <2>9. CASE n = Len(all)
    <3>1. seen = f.seen
      BY <2>7, <2>9 DEF seen
    <3>2. Progress(all, seen, found = Nil)
      BY <2>5, <2>9, <3>1, Zenon DEF Progress
    <3>3. QED
      BY <2>2, <3>2, Zenon DEF all
  <2>10. QED
    BY <2>5, <2>6, <2>8, <2>9
<1>10. QED
  BY <1>1, <1>2, <1>9, SeenFile

\* Reading and seeking leave what was listed alone.
LEMMA SeenSame ==
  ASSUME NEW f, NEW e, Seen(archive, f), e.opened = f.opened, e.seen = f.seen, e.ended = f.ended,
         e.own = TRUE => f.own = TRUE
  PROVE  Seen(archive, e)
BY Zenon DEF Seen

LEMMA SeenRead ==
  ASSUME FilesInv, NEW p \in Procs, NEW k, NEW size, fread(p, k, size),
         \A q \in Procs : SeenAll(archive, files[q])
  PROVE  \A q \in Procs : SeenAll(archive, files'[q])
<1> DEFINE f == files[p][k]
           node == sysc_get_proc_node(p, f.id)
           same == node = f.opened
           After(ret) == [f EXCEPT !.seek_index = @ + size,
                                   !.got = IF ret > 0 /\ node = f.opened THEN @ + ret ELSE @,
                                   !.own = @ /\ same]
<1>1. k \in DOMAIN files[p]
  BY DEF fread
<1>2. UNCHANGED files \/ \E ret : files' = [files EXCEPT ![p][k] = After(ret)]
  BY Zenon DEF fread
<1>3. FileOK(f)
  BY <1>1, OpenFile
<1>4. DOMAIN f = Fields
  BY <1>3 DEF FileOK
<1>5. Seen(archive, f)
  <2>1. k \in 1..Len(files[p])
    BY <1>1, ListFacts DEF FilesInv, Table
  <2>2. QED
    BY <2>1 DEF SeenAll
<1>6. CASE UNCHANGED files
  BY <1>6
<1>7. ASSUME NEW ret, files' = [files EXCEPT ![p][k] = After(ret)]
      PROVE  \A q \in Procs : SeenAll(archive, files'[q])
  <2> DEFINE e == After(ret)
  <2>1. e.opened = f.opened /\ e.seen = f.seen
    BY <1>4 DEF Fields
  <2>2. e.ended = f.ended /\ e.own = (f.own /\ same)
    <3>1. "ended" \in DOMAIN f /\ "own" \in DOMAIN f
      BY <1>4 DEF Fields
    <3>2. QED
      BY <3>1, Zenon
  <2>3. e.own = TRUE => f.own = TRUE
    BY <1>3, <2>2, Zenon DEF FileOK
  <2>4. files' = [files EXCEPT ![p][k] = e]
    BY <1>7
  <2> HIDE DEF e
  <2>5. Seen(archive, e)
    BY <1>5, <2>1, <2>2, <2>3, SeenSame
  <2>6. QED
    BY <1>1, <2>4, <2>5, SeenFile
<1>8. QED
  BY <1>2, <1>6, <1>7, Zenon

\* A seek, or a write.
LEMMA SeenMoved ==
  ASSUME FilesInv, NEW p \in Procs, NEW k \in DOMAIN files[p], NEW to,
         files' = [files EXCEPT ![p][k] =
                     [files[p][k] EXCEPT !.seek_index = to, !.base = to, !.got = 0]],
         \A q \in Procs : SeenAll(archive, files[q])
  PROVE  \A q \in Procs : SeenAll(archive, files'[q])
<1> DEFINE f == files[p][k]
           e == [f EXCEPT !.seek_index = to, !.base = to, !.got = 0]
<1>1. DOMAIN f = Fields
  BY OpenFile DEF FileOK
<1>2. e.opened = f.opened /\ e.seen = f.seen
  BY <1>1 DEF Fields
<1>3. e.ended = f.ended /\ e.own = f.own
  BY <1>1 DEF Fields
<1>4. Seen(archive, f)
  <2>1. k \in 1..Len(files[p])
    BY ListFacts DEF FilesInv, Table
  <2>2. QED
    BY <2>1 DEF SeenAll
<1>5. files' = [files EXCEPT ![p][k] = e]
  OBVIOUS
<1> HIDE DEF e
<1>6. Seen(archive, e)
  BY <1>2, <1>3, <1>4, SeenSame
<1>7. QED
  BY <1>5, <1>6, SeenFile

LEMMA SeenNone ==
  ASSUME NEW a
  PROVE  SeenAll(a, <<>>)
BY DEF SeenAll

LEMMA SeenInvNext ==
  ASSUME TarOK, FilesInv, BootInv, UpInv, SeenInv, [Next]_vars
  PROVE  SeenInv'
<1>1. archive' = archive
  BY ArchiveKept
<1>2. Plain' <=> Plain
  BY <1>1 DEF Plain
<1>3. SUFFICES ASSUME Plain PROVE \A q \in Procs : SeenAll(archive, files'[q])
  BY <1>1, <1>2 DEF SeenInv
<1>4. \A q \in Procs : SeenAll(archive, files[q])
  BY <1>3 DEF SeenInv
<1>5. DOMAIN files = Procs
  BY DEF FilesInv
<1>6. SeenAll(archive, <<>>)
  BY SeenNone
<1>7. CASE UNCHANGED files
  BY <1>4, <1>7
<1>8. CASE \/ initialise_vfs_layer \/ initialise_devfs \/ init_device
           \/ create_tarfs_filesystem \/ kputchar
  <2>1. UNCHANGED files
    BY <1>8 DEF initialise_vfs_layer, initialise_devfs, init_device, create_tarfs_filesystem,
                kputchar
  <2>2. QED
    BY <1>7, <2>1
<1>9. ASSUME NEW p \in Procs, files' = [files EXCEPT ![p] = <<>>]
      PROVE  \A q \in Procs : SeenAll(archive, files'[q])
  BY <1>4, <1>5, <1>6, <1>9, SeenChange
<1>10. ASSUME NEW p \in Procs, sysc_exit(p) PROVE \A q \in Procs : SeenAll(archive, files'[q])
  BY <1>9, <1>10 DEF sysc_exit
<1>11. ASSUME NEW p \in Procs, NEW path \in Paths, loader_spawn(p, path) \/ sysc_execve(p, path)
       PROVE  \A q \in Procs : SeenAll(archive, files'[q])
  BY <1>9, <1>11 DEF loader_spawn, sysc_execve
<1>12. ASSUME NEW p \in Procs, NEW path \in Paths, fopen(p, path)
       PROVE  \A q \in Procs : SeenAll(archive, files'[q])
  BY <1>3, <1>4, <1>12, SeenOpen
<1>13. ASSUME NEW p \in Procs, NEW c \in Procs, sysc_fork(p, c)
       PROVE  \A q \in Procs : SeenAll(archive, files'[q])
  <2>1. files' = [files EXCEPT ![c] = files[p]] /\ SeenAll(archive, files[p])
    BY <1>4, <1>13 DEF sysc_fork
  <2>2. QED
    BY <1>4, <1>5, <2>1, SeenChange
<1>14. ASSUME NEW p \in Procs, NEW k \in 1..MaxOpen, fclose(p, k)
       PROVE  \A q \in Procs : SeenAll(archive, files'[q])
  BY <1>4, <1>14, SeenClose
<1>15. ASSUME NEW p \in Procs, NEW k \in 1..MaxOpen, ls_main(p, k)
       PROVE  \A q \in Procs : SeenAll(archive, files'[q])
  BY <1>3, <1>4, <1>15, SeenList
<1>16. ASSUME NEW p \in Procs, NEW k \in 1..MaxOpen, NEW m \in Requests, fread(p, k, m)
       PROVE  \A q \in Procs : SeenAll(archive, files'[q])
  BY <1>4, <1>16, SeenRead
<1>16a. ASSUME NEW p \in Procs, NEW k \in 1..MaxOpen, NEW m \in Requests, fwrite(p, k, m)
        PROVE  \A q \in Procs : SeenAll(archive, files'[q])
  <2> DEFINE to == files[p][k].seek_index + m
  <2>1. k \in DOMAIN files[p]
    BY <1>16a DEF fwrite
  <2>2. \/ UNCHANGED files
        \/ files' = [files EXCEPT ![p][k] =
                       [files[p][k] EXCEPT !.seek_index = to, !.base = to, !.got = 0]]
    BY <1>16a, Zenon DEF fwrite
  <2> HIDE DEF to
  <2>3. QED
    <3>1. CASE UNCHANGED files
      BY <1>7, <3>1
    <3>2. CASE files' = [files EXCEPT ![p][k] =
                           [files[p][k] EXCEPT !.seek_index = to, !.base = to, !.got = 0]]
      BY <1>4, <2>1, <3>2, SeenMoved
    <3>3. QED
      BY <2>2, <3>1, <3>2
<1>16b. ASSUME NEW p \in Procs, NEW k \in 1..MaxOpen, ioctl(p, k)
        PROVE  \A q \in Procs : SeenAll(archive, files'[q])
  BY <1>7, <1>16b DEF ioctl
<1>17. ASSUME NEW p \in Procs, NEW k \in 1..MaxOpen, NEW m \in Requests,
              NEW origin \in {"SEEK_SET", "SEEK_CUR", "SEEK_END"}, fseek(p, k, m, origin)
       PROVE  \A q \in Procs : SeenAll(archive, files'[q])
  <2> DEFINE to == CASE origin = "SEEK_SET" -> m
                    [] origin = "SEEK_CUR" -> files[p][k].seek_index + m
                    [] origin = "SEEK_END" -> files[p][k].seek_index
  <2>1. /\ k \in DOMAIN files[p]
        /\ files' = [files EXCEPT ![p][k] =
                       [files[p][k] EXCEPT !.seek_index = to, !.base = to, !.got = 0]]
    BY <1>17 DEF fseek
  <2> HIDE DEF to
  <2>2. QED
    BY <1>4, <2>1, SeenMoved
<1>18. CASE UNCHANGED vars
  BY <1>7, <1>18 DEF vars
<1>19. QED
  BY <1>8, <1>10, <1>11, <1>12, <1>13, <1>14, <1>15, <1>16, <1>16a, <1>16b, <1>17, <1>18, Zenon DEF Next

\* A listing that has ended has shown the whole directory.
LEMMA SeenWhole ==
  ASSUME TarOK, FilesInv, SeenInv
  PROVE  LsComplete
<1>1. SUFFICES ASSUME Plain, NEW p \in alive, NEW k \in DOMAIN files[p],
                      files[p][k].own, files[p][k].ended, files[p][k].opened.fs = "tar", files[p][k].opened.type = "DIRE"
               PROVE  LET f    == files[p][k]
                          dir  == f.opened
                          here == IF dir.name = Slash THEN <<>>
                                  ELSE archive[CHOOSE a \in DOMAIN archive :
                                                 archive[a].path # <<>> /\ Last(archive[a].path) = dir.name].path
                          kids == Keep(Visited(archive),
                                       {a \in DOMAIN archive : archive[a].path # <<>> /\ Front(archive[a].path) = here})
                      IN  f.seen = <<dir.name>> \o [i \in DOMAIN kids |-> Last(archive[kids[i]].path)]
  BY Zenon DEF LsComplete
<1> DEFINE f == files[p][k]
           dir == f.opened
           named == CHOOSE a \in DOMAIN archive : archive[a].path # <<>> /\ Last(archive[a].path) = dir.name
           here == IF dir.name = Slash THEN <<>> ELSE archive[named].path
           kids == Keep(Visited(archive),
                        {a \in DOMAIN archive : archive[a].path # <<>> /\ Front(archive[a].path) = here})
<1>2. p \in Procs
  BY DEF FilesInv
<1>3. k \in 1..Len(files[p])
  BY <1>2, ListFacts DEF FilesInv, Table
<1>4. Seen(archive, f)
  BY <1>1, <1>2, <1>3 DEF SeenInv, SeenAll
<1>4a. f.own = TRUE
  BY <1>1, <1>2, OpenFile, Zenon DEF FileOK
<1>5. PICK y \in DOMAIN archive :
        /\ dir.name = IF y = 0 THEN Slash ELSE Last(archive[y].path)
        /\ Progress(Listed(archive, y), f.seen, f.ended)
  BY <1>1, <1>4, <1>4a, Zenon DEF Seen
<1> DEFINE all == Listed(archive, y)
<1>6. Len(f.seen) = Len(all) /\ f.seen = SubSeq(all, 1, Len(f.seen)) /\ IsList(all)
  BY <1>1, <1>5, Zenon DEF Progress
<1>7. f.seen = all
  <2> HIDE DEF all, f
  <2>1. all \in Seq(Range(all))
    BY <1>6 DEF IsList
  <2>2. SubSeq(all, 1, Len(all)) = all
    BY <2>1
  <2>3. QED
    BY <1>6, <2>2
<1>8. here = archive[y].path
  <2>1. CASE y = 0
    BY <1>5, <2>1 DEF TarOK
  <2>2. CASE y # 0
    <3>1. archive[y].path # <<>> /\ Last(archive[y].path) # Slash
      BY <2>2, NameOf DEF TarOK
    <3>2. dir.name = Last(archive[y].path)
      BY <1>5, <2>2
    <3>3. /\ named \in DOMAIN archive
          /\ archive[named].path # <<>> /\ Last(archive[named].path) = Last(archive[y].path)
      BY <3>1, <3>2, Zenon
    <3> HIDE DEF named
    <3>4. archive[named].path = archive[y].path
      BY <1>1, <3>1, <3>3 DEF Plain
    <3>5. QED
      BY <3>1, <3>2, <3>4
  <2>3. QED
    BY <2>1, <2>2
<1>9. kids = Kids(archive, archive[y].path)
  <2> HIDE DEF here
  <2>1. QED
    BY <1>8 DEF Kids
<1>10. all = <<dir.name>> \o [i \in DOMAIN kids |-> Last(archive[kids[i]].path)]
  <2> HIDE DEF kids, dir
  <2>1. QED
    BY <1>5, <1>9 DEF Listed
<1>11. QED
  BY <1>7, <1>10, Zenon

\* For every archive that tar makes of files whose names do not collide, and every
\* number of programs that open, list and close directories in any order: a listing that has ended has
\* shown the directory and every entry of it, once and in the order of the archive, although
\* each entry is asked for with its own scan, as long as the id of the FILE still stood for
\* the directory each time (ls, sysc_list, read_directory_tarfs).
THEOREM ListingsComplete == Spec => []LsComplete
<1>1. Init => SeenInv
  <2>1. SUFFICES ASSUME Init PROVE SeenInv
    OBVIOUS
  <2>2. \A q \in Procs : files[q] = <<>>
    BY <2>1 DEF Init
  <2>3. QED
    BY <2>2, SeenNone DEF SeenInv
<1>2. /\ Written /\ FilesInv /\ BootInv /\ UpInv /\ SeenInv /\ [Next]_vars
      => SeenInv'
  BY WrittenOK, SeenInvNext
<1>3. Written /\ FilesInv /\ SeenInv => LsComplete
  BY WrittenOK, SeenWhole
<1>4. QED
  BY <1>1, <1>2, <1>3, WrittenInvariant, FilesInvariant, BootInvariant, UpInvariant, PTL DEF Spec
=============================================================================
