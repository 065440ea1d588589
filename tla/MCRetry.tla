------------------------------- MODULE MCRetry -------------------------------
(* Durations of eight bits. The configurations vary the delays under the   *)
(* default ShouldRetry, and ShouldRetry under one delay.                   *)
EXTENDS Retry

Fraction(n, d) == [num |-> n, den |-> d]

Delaying ==
    [maxAttempts : {4}, initialDelay : {-40, 0, 3, 50}, maxDelay : {-30, 20, 110, 127},
     multiplier : {Fraction(10, 1), Fraction(2, 1), Fraction(3, 2), Fraction(1, 2),
                   Fraction(-2, 1)},
     strategy : {"linear", "exponential", "fixed"}, shouldRetry : {"any"}]

Retrying ==
    [maxAttempts : -1 .. 3, initialDelay : {3}, maxDelay : {20},
     multiplier : {Fraction(2, 1)}, strategy : {"exponential"},
     shouldRetry : {"any", "listed", "transient"}]

MCConfigs == Delaying \cup Retrying

At(first, exact) == [first |-> first, exact |-> exact]

MCErrors ==
    [occurs : {{}, {At(TRUE, TRUE)}, {At(TRUE, FALSE)}, {At(FALSE, FALSE)},
               {At(TRUE, FALSE), At(FALSE, TRUE)}},
     timedOut : {FALSE}, listed : BOOLEAN]
    \cup [occurs : {{}}, timedOut : {TRUE}, listed : {FALSE}]
=============================================================================
