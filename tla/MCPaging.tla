------------------------------ MODULE MCPaging ------------------------------
(* Small instances of Paging for TLC. *)
EXTENDS Paging, TLC

\* A proc_t is as good as another.
Symmetry == Permutations(Procs)
=============================================================================
