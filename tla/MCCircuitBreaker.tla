-------------------------- MODULE MCCircuitBreaker --------------------------
(* CircuitBreaker on a small instance: two callers are enough for a result *)
(* to arrive late, after another one has moved the breaker; a cool-down of *)
(* two ticks can be interrupted half way; FailureCap lies above the        *)
(* threshold, so that an open breaker can be seen to count further.        *)
EXTENDS CircuitBreaker

CONSTANTS c1, c2

MCCallers == {c1, c2}
MCMaxFailures == 2
MCResetTimeout == 2
MCFailureCap == 3
MCMaxPending == 2
=============================================================================
