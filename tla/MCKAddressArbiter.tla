-------------------------- MODULE MCKAddressArbiter --------------------------
(* The address arbiter for the model checker.                              *)
EXTENDS KAddressArbiter, TLC

Symmetry == Permutations(Threads \ Terminable)
=============================================================================
