-------------------------- MODULE MCCircuitBreaker --------------------------
(* Model values for CircuitBreaker: requests are interchangeable. *)
EXTENDS CircuitBreaker, TLC

CONSTANTS r1, r2, a1

MCRequests == {r1, r2}
MCAdmins == {a1}
=============================================================================
