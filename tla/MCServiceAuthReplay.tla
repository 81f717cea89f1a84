-------------------------- MODULE MCServiceAuthReplay --------------------------
(* A small instance of ServiceAuthReplay for TLC. *)
EXTENDS ServiceAuthReplay, TLC

Symmetry == Permutations(Deliveries) \cup Permutations(Messages) \cup Permutations(Nonces)
================================================================================
