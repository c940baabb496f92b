-------------------------- MODULE MCCircuitBreaker --------------------------
(* One breaker with the code's own constants: 5 failures, 30 ticks of 1 s. *)
EXTENDS CircuitBreakerSpec
=============================================================================
