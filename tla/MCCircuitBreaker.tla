-------------------------- MODULE MCCircuitBreaker --------------------------
(***************************************************************************)
(* Three callers of a circuit that opens after two failures.               *)
(***************************************************************************)
EXTENDS CircuitBreaker

CONSTANTS c1, c2, c3
=============================================================================
