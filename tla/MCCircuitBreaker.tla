-------------------------- MODULE MCCircuitBreaker --------------------------
(* The instance of CircuitBreaker that TLC checks. *)
EXTENDS CircuitBreaker
=============================================================================
