-------------------------- MODULE MCCircuitBreaker --------------------------
(* CircuitBreaker on small instances for TLC. *)
EXTENDS CircuitBreaker, TLC

\* Requests are interchangeable.
Symmetry == Permutations(Requests)
=============================================================================
