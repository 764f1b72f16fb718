------------------------------- MODULE Calls --------------------------------
(***************************************************************************)
(* A caller of functions that hold no state: it calls one after the other, *)
(* each with an input from a set.                                          *)
(***************************************************************************)
CONSTANT Inputs   \* for each function, the set of its inputs

VARIABLE job      \* the function that has been called, and its input

Idle == [fn |-> "idle", arg |-> 0]

Call(f) == \E a \in Inputs[f] : job' = [fn |-> f, arg |-> a]

CallsInit == job = Idle

CallsNext ==
    \/ job = Idle /\ \E f \in DOMAIN Inputs : Call(f)
    \/ job.fn # "idle" /\ job' = Idle

CallsSpec == CallsInit /\ [][CallsNext]_job
=============================================================================
