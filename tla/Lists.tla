------------------------------- MODULE Lists --------------------------------
(***************************************************************************)
(* The doubly linked list of linked_list.c (and of liblist.c, the same     *)
(* code for programs) and the queue of queue.c, at the level of nodes and  *)
(* pointers.  A behaviour works on one structure, of one of the two kinds. *)
(* kern_malloc gives any node that is not in use, cleared.                 *)
(***************************************************************************)
EXTENDS Integers, Sequences, SequencesExt, FiniteSets

CONSTANTS
    Nodes,   \* memory for nodes
    Null,    \* the null pointer
    Data,    \* what callers store
    Limits   \* limits of queues, besides -1 for none

ASSUME ListsAssumption ==
    IsFiniteSet(Nodes) /\ Null \notin Nodes /\ Limits \subseteq Int

VARIABLES
    kind,    \* "list", "queue", or "none" for a process that uses neither
    list,    \* [head, tail, length, limit]
    node,    \* the allocated nodes: [previous, next, data] of each
    call,    \* the last call and its argument
    found    \* the node the last search returned

lvars == <<kind, list, node, call, found>>

\* The pointers of a structure: its end points and its nodes.
Struct == [l |-> list, n |-> node]

\* The nodes reached from n through the pointers step, up to NULL.
Chain(n, step) ==
    LET F[k \in 0..Cardinality(Nodes)] ==
            IF k = 0 THEN <<n>>
            ELSE IF Last(F[k - 1]) = Null THEN F[k - 1] ELSE Append(F[k - 1], step[Last(F[k - 1])])
    IN  Front(F[Cardinality(Nodes)])

\* linked_list_each, linked_list_each_rev, and linked_list_traverse.
Walk(s, n) == Chain(n, [m \in DOMAIN s.n |-> s.n[m].next])
WalkBack(s, n) == Chain(n, [m \in DOMAIN s.n |-> s.n[m].previous])

\* The position of n in w, 0 if it is not there.
IndexOf(w, n) == IF n \in Range(w) THEN CHOOSE i \in DOMAIN w : w[i] = n ELSE 0

\* A node that kern_malloc has cleared and create_node has filled.
create_node(s, n, d) ==
    [s EXCEPT !.n = [m \in DOMAIN s.n \cup {n} |->
                       IF m = n THEN [previous |-> Null, next |-> Null, data |-> d] ELSE s.n[m]]]

\* kern_free of a node.
Freed(s, n) == [s EXCEPT !.n = [m \in DOMAIN s.n \ {n} |-> s.n[m]]]

Commit(s, c) == list' = s.l /\ node' = s.n /\ call' = c /\ found' = Null /\ UNCHANGED kind

-----------------------------------------------------------------------------
(* linked_list.c and liblist.c                                             *)

\* linked_list_append, with the special cases of none and of one node.
Appended(s, n) ==
    IF s.l.length = 0 /\ s.l.head = Null
    THEN [s EXCEPT !.l.head = n, !.l.tail = n, !.l.length = @ + 1]
    ELSE IF s.l.head = s.l.tail
    THEN [s EXCEPT !.l.tail = n, !.n[s.l.head].next = n, !.n[n].previous = s.l.head,
                   !.l.length = @ + 1]
    ELSE [s EXCEPT !.n[s.l.tail].next = n, !.n[n].previous = s.l.tail, !.l.tail = n,
                   !.l.length = @ + 1]

linked_list_append(n, d) ==
    /\ kind = "list" /\ n \notin DOMAIN node
    /\ Commit(Appended(create_node(Struct, n, d), n), <<"add", d>>)

\* Mutant: the node behind is not told.
Inserted_one_way(s, n, index) ==
    LET at == Walk(s, s.l.head)[index + 1]
    IN  IF index = 0 \/ index >= s.l.length THEN Appended(s, n)
        ELSE [s EXCEPT !.n[s.n[at].previous].next = n, !.n[n].previous = s.n[at].previous,
                       !.n[n].next = at, !.l.length = @ + 1]

\* linked_list_insert_at_index: at the head, behind the tail, or before the
\* node with that index.
Inserted(s, n, index) ==
    LET at == Walk(s, s.l.head)[index + 1]
    IN  IF index = 0
        THEN IF s.l.length = 0 THEN [s EXCEPT !.l.head = n, !.l.tail = n, !.l.length = 1]
             ELSE [s EXCEPT !.n[n].next = s.l.head, !.n[s.l.head].previous = n,
                            !.l.head = n, !.l.length = @ + 1]
        ELSE IF index >= s.l.length
        THEN [s EXCEPT !.n[s.l.tail].next = n, !.n[n].previous = s.l.tail, !.l.tail = n,
                       !.l.length = @ + 1]
        ELSE [s EXCEPT !.n[s.n[at].previous].next = n, !.n[n].previous = s.n[at].previous,
                       !.n[n].next = at, !.n[at].previous = n, !.l.length = @ + 1]

\* An index above zero in an empty list would follow list_tail, which is NULL.
linked_list_insert_at_index(n, d, index) ==
    /\ kind = "list" /\ n \notin DOMAIN node
    /\ index = 0 \/ list.length > 0
    /\ Commit(Inserted(create_node(Struct, n, d), n, index), <<"insert", d, index>>)

\* Unlinks node n of the list and frees it.
Removed(s, n) ==
    LET p == s.n[n].previous
        q == s.n[n].next
        u == IF n = s.l.head
             THEN IF q # Null THEN [s EXCEPT !.l.head = q, !.n[q].previous = Null]
                  ELSE [s EXCEPT !.l.head = Null, !.l.tail = Null]
             ELSE IF n = s.l.tail THEN [s EXCEPT !.l.tail = p, !.n[p].next = Null]
             ELSE [s EXCEPT !.n[p].next = q, !.n[q].previous = p]
    IN  [Freed(u, n) EXCEPT !.l.length = @ - 1]

\* linked_list_remove: a node that is not in the list is left alone.
linked_list_remove(n) ==
    LET at == IndexOf(Walk(Struct, list.head), n) IN
    /\ kind = "list"
    /\ Commit(IF at > 0 THEN Removed(Struct, n) ELSE Struct,
              <<"take", IF at > 0 THEN at - 1 ELSE list.length>>)

\* linked_list_remove_at_index: a negative index removes the head.
linked_list_remove_at_index(index) ==
    LET i == IF index < 0 THEN 0 ELSE index IN
    /\ kind = "list"
    /\ Commit(IF index < list.length /\ list.head # Null
              THEN Removed(Struct, Walk(Struct, list.head)[i + 1]) ELSE Struct, <<"take", i>>)

\* linked_list_destroy, and a new list.
linked_list_destroy ==
    /\ kind = "list"
    /\ Commit([l |-> [list EXCEPT !.head = Null, !.tail = Null, !.length = 0],
               n |-> [m \in DOMAIN node \ Range(Walk(Struct, list.head)) |-> node[m]]], <<"destroy">>)

\* The first node of S, where the loop of a search stops; NULL if there is none.
FirstNode(S) ==
    LET w == Walk(Struct, list.head)
        hits == {i \in DOMAIN w : w[i] \in S}
    IN  IF hits = {} THEN Null ELSE w[CHOOSE i \in hits : \A j \in hits : i <= j]

Search(n, c) == kind = "list" /\ found' = n /\ call' = c /\ UNCHANGED <<kind, list, node>>

linked_list_find(d) == Search(FirstNode({n \in DOMAIN node : node[n].data = d}), <<"search", d>>)

linked_list_get_at(index) ==
    LET w == Walk(Struct, list.head)
    IN  Search(IF index < Len(w) THEN w[index + 1] ELSE Null, <<"fetch", index>>)

\* linked_list_index_of: the node itself or an earlier one with the same data.
linked_list_index_of(n) ==
    /\ n \in DOMAIN node
    /\ Search(FirstNode({m \in DOMAIN node : m = n \/ node[m].data = node[n].data}), <<"search", node[n].data>>)

-----------------------------------------------------------------------------
(* queue.c                                                                 *)

\* queue_enqueue: a full queue frees the node again.
Enqueued(s, n) ==
    IF s.l.length < s.l.limit \/ s.l.limit = -1
    THEN IF s.l.head = Null /\ s.l.tail = Null
         THEN [s EXCEPT !.l.head = n, !.l.tail = n, !.l.length = @ + 1]
         ELSE [s EXCEPT !.n[s.l.tail].next = n, !.n[n].previous = s.l.tail,
                        !.l.tail = n, !.l.length = @ + 1]
    ELSE Freed(s, n)

queue_enqueue(n, d) ==
    /\ kind = "queue" /\ n \notin DOMAIN node
    /\ Commit(Enqueued(create_node(Struct, n, d), n), <<"add", d>>)

\* queue_dequeue: the head leaves the queue.
queue_dequeue ==
    LET s == Struct
        q == node[list.head].next
        u == IF list.head = list.tail /\ list.length = 1
             THEN [s EXCEPT !.l.head = Null, !.l.tail = Null]
             ELSE [s EXCEPT !.l.head = q, !.n[q].previous = Null]
    IN  /\ kind = "queue" /\ list.head # Null
        /\ Commit([Freed(u, list.head) EXCEPT !.l.length = @ - 1], <<"take", 0>>)

\* One turn of the loop of queue_force_remove.
ForceRemoved(s, n, d) ==
    IF s.n[n].data # d THEN s
    ELSE IF s.l.length = 1
    THEN [Freed(s, n) EXCEPT !.l.head = Null, !.l.tail = Null, !.l.length = 0]
    ELSE Removed(s, n)

\* queue_force_remove goes through the whole queue and removes every match.
queue_force_remove(d) ==
    LET w == Walk(Struct, list.head)
        F[i \in 0..Len(w)] == IF i = 0 THEN Struct ELSE ForceRemoved(F[i - 1], w[i], d)
    IN  kind = "queue" /\ Commit(F[Len(w)], <<"take every", d>>)

-----------------------------------------------------------------------------
\* linked_list_create and create_queue.
ListsInit ==
    /\ kind \in {"list", "queue", "none"}
    /\ \E m \in Limits \cup {-1} :
         /\ list = [head |-> Null, tail |-> Null, length |-> 0, limit |-> m]
         /\ kind # "queue" => m = -1
    /\ node = << >>
    /\ call = << >>
    /\ found = Null

ListsNext ==
    \/ \E n \in Nodes, d \in Data : linked_list_append(n, d) \/ queue_enqueue(n, d)
    \/ \E n \in Nodes, d \in Data, i \in 0..Cardinality(Nodes) : linked_list_insert_at_index(n, d, i)
    \/ \E n \in Nodes : linked_list_remove(n) \/ linked_list_index_of(n)
    \/ \E i \in 0..Cardinality(Nodes) : linked_list_remove_at_index(i - 1) \/ linked_list_get_at(i)
    \/ \E d \in Data : linked_list_find(d) \/ queue_force_remove(d)
    \/ linked_list_destroy \/ queue_dequeue

\* One caller that works on a list or a queue.
ListsSpec == ListsInit /\ [][ListsNext]_lvars

-----------------------------------------------------------------------------
(* Correctness.                                                            *)

\* The pointers always form one chain: following next from the head and
\* previous from the tail visits the same nodes in opposite order, as many as
\* the length says, and no node is allocated that is not in the chain.  It
\* must survive every order of the special cases (none, one, first, last).
Chained ==
    LET w == Walk(Struct, list.head) IN
    /\ WalkBack(Struct, list.tail) = Reverse(w)
    /\ Len(w) = list.length
    /\ Range(w) = DOMAIN node

\* The position of a node, 0 for NULL, and the data from first to last.
Position(n) == IndexOf(Walk(Struct, list.head), n)
Items == LET w == Walk(Struct, list.head) IN [i \in DOMAIN w |-> node[w[i]].data]
Sequence == INSTANCE AbstractList WITH items <- Items, limit <- list.limit,
                found <- Position(found), Indices <- 0..Cardinality(Nodes)

\* Lists and queues behave as a sequence of data, to which each call does and
\* of which each search returns what AbstractList says, and their nodes are
\* always one chain (linked_list.c, liblist.c, queue.c).
SequenceSpec == Sequence!Spec /\ []Chained
=============================================================================
