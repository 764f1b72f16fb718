------------------------------- MODULE MCHeap -------------------------------
(* Small instances of Heap for TLC: a page of 32 bytes, a header of 9 and requests of up to two pages. *)
EXTENDS Heap
=============================================================================
