------------------------------ MODULE MCEpoch -------------------------------
(***************************************************************************)
(* Instances of Epoch: a few threads, a few objects, short lists.          *)
(***************************************************************************)
EXTENDS Epoch

CONSTANT x1
=============================================================================
