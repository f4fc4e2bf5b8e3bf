-------------------------- MODULE MCCircuitBreaker --------------------------
(* CircuitBreaker on small instances. *)
EXTENDS CircuitBreaker, TLC

CONSTANTS c1, c2

Symmetry == Permutations(Connectors)
=============================================================================
