-------------------------- MODULE MCCircuitBreaker --------------------------
(***************************************************************************)
(* A small instance of CircuitBreaker.  Liveness is checked with it, so    *)
(* the interchangeable callers are not identified by symmetry.             *)
(***************************************************************************)
EXTENDS CircuitBreaker
=============================================================================
