------------------------------ MODULE MCMachine ------------------------------
EXTENDS Machine, TLC

Twins == Permutations(Procs)
=============================================================================
