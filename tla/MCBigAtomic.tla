---------------------------- MODULE MCBigAtomic -----------------------------
(***************************************************************************)
(* An instance of BigAtomic: values of two words, one lock.                *)
(***************************************************************************)
EXTENDS BigAtomic

CONSTANTS t1, t2, c1, l1

TwoWords == {1, 2}
Bits == {0, 1}
Zero == [w \in TwoWords |-> 0]
OneLock == [c \in Cell |-> l1]
=============================================================================
