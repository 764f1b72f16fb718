------------------------------- MODULE Queues -------------------------------
(***************************************************************************)
(* The bounded FIFO queue of src/kernel/util/queue.c and the order-        *)
(* preserving removal both it and src/kernel/util/linked_list.c offer,     *)
(* as operators on sequences.  A queue node is one element of a sequence;  *)
(* the head of the queue is the head of the sequence.                      *)
(***************************************************************************)
EXTENDS Integers, Sequences, Functions

\* The elements of q that lie in S, in the order they have in q.
Keep(q, S) ==
    LET F[i \in 0..Len(q)] ==
          IF i = 0 THEN << >>
          ELSE IF q[i] \in S THEN Append(F[i-1], q[i]) ELSE F[i-1]
    IN  F[Len(q)]

\* Mutant: nothing is unlinked.
Without_nothing(q, S) == q

\* queue_force_remove, called once for each member of S.
Without(q, S) == Keep(q, Range(q) \ S)

\* q without its i-th node.
Drop(q, i) == [j \in 1..(Len(q) - 1) |-> IF j < i THEN q[j] ELSE q[j + 1]]

\* Mutant: the limit is not looked at.
queue_enqueue_unlimited(q, data, limit) == Append(q, data)

\* queue_enqueue refuses the node, and tells nobody, when the queue is full.
queue_enqueue(q, data, limit) == IF Len(q) < limit THEN Append(q, data) ELSE q

\* Mutant: the items are put at the front.
EnqueueAll_first(q, items, limit) ==
    IF Len(q) + Len(items) <= limit THEN items \o q ELSE q

\* One queue_enqueue for each element of items, in order.
EnqueueAll(q, items, limit) ==
    IF Len(q) + Len(items) <= limit THEN q \o items
    ELSE IF Len(q) < limit THEN q \o SubSeq(items, 1, limit - Len(q))
    ELSE q

=============================================================================
