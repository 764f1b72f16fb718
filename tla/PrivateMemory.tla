---------------------------- MODULE PrivateMemory ----------------------------
(***************************************************************************)
(* What the memory management of DBOS promises a user process: memory of   *)
(* its own.  Only the process itself changes what it reads; a fork starts  *)
(* with a copy of the memory of its parent, and keeps it.                  *)
(***************************************************************************)
CONSTANTS
    Procs,     \* processes
    Pages,     \* virtual pages a process may have
    Values,    \* contents of a page
    Images,    \* the memories a program that was just loaded may have
    NoPage     \* the content of a page a process does not have

VARIABLE memory    \* memory[p][v]: what process p reads at page v

Nothing == [v \in Pages |-> NoPage]

Init == memory = [p \in Procs |-> Nothing]

\* One process gets a new memory, the others keep theirs.
Becomes(p, m) == memory' = [memory EXCEPT ![p] = m]

\* A program is loaded, in a new process or over the old one.
Load(p) == \E m \in Images : Becomes(p, m)

Fork(p, c) == memory[c] = Nothing /\ Becomes(c, memory[p])

Write(p, v, x) ==
    memory[p][v] # NoPage /\ Becomes(p, [memory[p] EXCEPT ![v] = x])

\* The heap grows by a page.  What is in it is not promised.
Grow(p, v, x) ==
    memory[p][v] = NoPage /\ Becomes(p, [memory[p] EXCEPT ![v] = x])

End(p) == Becomes(p, Nothing)

Next ==
    \/ \E p \in Procs : Load(p) \/ End(p)
    \/ \E p, c \in Procs : Fork(p, c)
    \/ \E p \in Procs, v \in Pages, x \in Values : Write(p, v, x) \/ Grow(p, v, x)

Spec == Init /\ [][Next]_memory
==============================================================================
