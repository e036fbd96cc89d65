-------------------------- MODULE MCThreadSpecific --------------------------
(* Threads that come and go, with chunks of one, one and two elements.     *)
EXTENDS ThreadSpecific, TLC

CONSTANTS t1, t2, t3

Symmetry == Permutations(Thread)
=============================================================================
