------------------------- MODULE MCActivationConnector -------------------------
(* A small instance of ActivationConnector for TLC. *)
EXTENDS ActivationConnector, TLC

Symmetry == Permutations(Calls)
================================================================================
