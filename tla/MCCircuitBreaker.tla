-------------------------- MODULE MCCircuitBreaker --------------------------
(* Three callers, a threshold of two and a cool-down of two ticks: two calls
   can trip the breaker while the third is still in flight.                  *)
EXTENDS CircuitBreaker

CONSTANTS c1, c2, c3

MCCalls == {c1, c2, c3}
=============================================================================
