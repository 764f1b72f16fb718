---------------------------- MODULE AbstractList ----------------------------
(***************************************************************************)
(* What linked_list.c, liblist.c and queue.c promise: a sequence of data   *)
(* that is added to, removed from and searched, without the nodes.         *)
(***************************************************************************)
EXTENDS Integers, Sequences, SequencesExt

CONSTANTS Data, Limits, Indices

VARIABLES
    items,  \* the data, first to last
    limit,  \* the most items the structure takes, -1 when there is no limit
    call,   \* the last call and its argument
    found   \* the position the last search returned, 0 for none

\* The first position of items at which d is stored, 0 if there is none.
FirstOf(d) ==
    IF d \in Range(items)
    THEN CHOOSE i \in DOMAIN items : items[i] = d /\ \A j \in 1..(i - 1) : items[j] # d
    ELSE 0

\* The items that are not d, in their order.
Others(d) ==
    LET F[i \in 0..Len(items)] ==
            IF i = 0 THEN << >> ELSE IF items[i] = d THEN F[i - 1] ELSE Append(F[i - 1], items[i])
    IN  F[Len(items)]

Init == items = << >> /\ limit \in Limits \cup {-1} /\ call = << >> /\ found = 0

Changed(new) == items' = new /\ found' = 0 /\ UNCHANGED limit
Returned(i) == found' = i /\ UNCHANGED <<items, limit>>

Add(d) ==
    /\ call' = <<"add", d>>
    /\ Changed(IF limit = -1 \/ Len(items) < limit THEN Append(items, d) ELSE items)
Insert(d, i) ==
    /\ call' = <<"insert", d, i>>
    /\ Changed(InsertAt(items, IF i < Len(items) THEN i + 1 ELSE Len(items) + 1, d))
Take(i) ==
    /\ call' = <<"take", i>>
    /\ Changed(IF i < Len(items) THEN RemoveAt(items, i + 1) ELSE items)
TakeEvery(d) ==
    /\ call' = <<"take every", d>>
    /\ Changed(Others(d))
Destroy == call' = <<"destroy">> /\ Changed(<< >>)
Search(d) == call' = <<"search", d>> /\ Returned(FirstOf(d))
Fetch(i) == call' = <<"fetch", i>> /\ Returned(IF i < Len(items) THEN i + 1 ELSE 0)

Next ==
    \/ \E d \in Data : Add(d) \/ TakeEvery(d) \/ Search(d)
    \/ \E d \in Data, i \in Indices : Insert(d, i)
    \/ \E i \in Indices : Take(i) \/ Fetch(i)
    \/ Destroy

Spec == Init /\ [][Next]_<<items, limit, call, found>>
=============================================================================
