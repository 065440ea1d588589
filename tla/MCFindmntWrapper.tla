-------------------------- MODULE MCFindmntWrapper --------------------------
(* FindmntWrapper on small instances: two callers, one of which may be     *)
(* cancelled, a breaker that opens on the second failure, and two attempts *)
(* per call. FailureCap is the largest count LateFailuresBounded allows    *)
(* and one, so that no failure it is about goes uncounted; the counters of *)
(* the statistics have two values, so that they wrap around.               *)
EXTENDS FindmntWrapper

CONSTANTS c1, c2

MCCallers == {c1, c2}
MCCancellable == {c1}
MCMaxFailures == 2
MCFailureCap == MCMaxFailures + 2
MCMaxAttempts == 2
MCCounterModulus == 2
=============================================================================
