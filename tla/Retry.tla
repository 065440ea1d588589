-------------------------------- MODULE Retry --------------------------------
(***************************************************************************)
(* src/reliability/retry.go: one call of Do or DoWithValue, with the       *)
(* delays in the arithmetic of the code, which are products of floats that *)
(* are converted to int64, and its classification of errors.               *)
(*                                                                         *)
(* The value that a call of fn returns is the number of the call. Do is    *)
(* DoWithValue without the value.                                          *)
(***************************************************************************)
EXTENDS Integers

CONSTANTS
    Half,       \* half of the Durations there are, 2^63 in the code
    Configs,    \* the configurations to try
    Errors      \* the errors fn may return

\* The patterns of IsTransientError that a message has, in any case: each at the
\* start of the message or not, and each in lower case or not. A message may
\* say "timed out", as findmnt.go does, and be among the RetryableErrors.
Occurrence == [first : BOOLEAN, exact : BOOLEAN]

FnError == [occurs : SUBSET Occurrence, timedOut : BOOLEAN, listed : BOOLEAN]

MaxInt == Half - 1
MinInt == -Half

Duration == MinInt .. MaxInt

\* The multiplier is a fraction. NewRetry takes delays and multipliers below 0, too.
Config == [maxAttempts : Int, initialDelay : Duration, maxDelay : Duration,
           multiplier : [num : Int, den : Nat \ {0}],
           strategy : {"linear", "exponential", "fixed"},
           shouldRetry : {"any", "listed", "transient"}]

ASSUME RetryAssumption ==
    /\ Half \in Nat \ {0}
    /\ Errors \subseteq FnError
    /\ Configs \subseteq Config

VARIABLES
    config,     \* r.config
    at,         \* "loop", "waiting", "calling" or "returned"
    attempt,
    wait,       \* the delay with its jitter
    lastErr,    \* set of no error or of one
    result,     \* the value DoWithValue returns
    cancelled,  \* ctx is done
    outcome,    \* "none", or how Do returned
    calls       \* history: calls of fn

retryVars == <<config, at, attempt, wait, lastErr, result, cancelled, outcome, calls>>

-----------------------------------------------------------------------------
(* calculateDelay. *)

Wrap(x) == ((x - MinInt) % (2 * Half)) + MinInt

Truncated(n, d) == IF n >= 0 THEN n \div d ELSE -((-n) \div d)

\* The delay before it is made a Duration.
Product(k) ==
    IF config.strategy = "linear" THEN config.initialDelay * k
    ELSE IF config.strategy = "exponential"
    THEN Truncated(config.initialDelay * config.multiplier.num ^ (k - 1),
                   config.multiplier.den ^ (k - 1))
    ELSE config.initialDelay

\* What a conversion gives that does not fit depends on the processor: the
\* least integer, or the one nearest.
Converted(x) == IF x \in Duration THEN {x} ELSE {MinInt, MaxInt}

Least(x, y) == IF x < y THEN x ELSE y

\* Mutant: the exponential delay is not capped.
DelaysUncapped(k) ==
    {IF config.strategy = "exponential" THEN d ELSE Least(d, config.maxDelay) :
        d \in Converted(Product(k))}

Delays(k) == {Least(d, config.maxDelay) : d \in Converted(Product(k))}

\* A random tenth of the delay, of its sign.
Jitters(delay) ==
    IF delay >= 0 THEN 0 .. Truncated(delay, 10) ELSE Truncated(delay, 10) .. 0

-----------------------------------------------------------------------------
(* IsTransientError. contains compares the message and the pattern, and    *)
(* the first and the last bytes of the message, as they are; it compares   *)
(* without case from the second byte on.                                   *)

Contains(o) == o.exact \/ ~o.first

IsTransientError(e) == \E o \in e.occurs : Contains(o)

ShouldRetry(e) ==
    \/ config.shouldRetry = "any"
    \/ config.shouldRetry = "listed" /\ e.listed
    \/ config.shouldRetry = "transient" /\ IsTransientError(e)

-----------------------------------------------------------------------------
RetryInit ==
    /\ config \in Configs
    /\ at = "loop"
    /\ attempt = 0 /\ calls = 0
    /\ wait = 0
    /\ lastErr = {}
    /\ result = 0
    /\ cancelled \in BOOLEAN
    /\ outcome = "none"

Return(how) == at' = "returned" /\ outcome' = how

\* MaxAttempts is 0 or less: the error says that they were exceeded. The last
\* attempt of more does not come back here.
Exhausted ==
    /\ at = "loop"
    /\ attempt >= config.maxAttempts
    /\ Return("exceeded")
    /\ UNCHANGED <<config, attempt, wait, lastErr, result, cancelled, calls>>

FirstAttempt ==
    /\ at = "loop"
    /\ attempt = 0 /\ attempt < config.maxAttempts
    /\ at' = "calling"
    /\ UNCHANGED <<config, attempt, wait, lastErr, result, cancelled, outcome, calls>>

BackOff ==
    /\ at = "loop"
    /\ attempt > 0 /\ attempt < config.maxAttempts
    /\ \E delay \in Delays(attempt) : \E jitter \in Jitters(delay) :
          wait' = Wrap(delay + jitter)
    /\ at' = "waiting"
    /\ UNCHANGED <<config, attempt, lastErr, result, cancelled, outcome, calls>>

WaitEnds ==
    /\ at = "waiting"
    /\ at' = "calling"
    /\ UNCHANGED <<config, attempt, wait, lastErr, result, cancelled, outcome, calls>>

WaitCancelled ==
    /\ at = "waiting"
    /\ cancelled
    /\ Return("cancelled")
    /\ UNCHANGED <<config, attempt, wait, lastErr, result, cancelled, calls>>

Succeeds ==
    /\ at = "calling"
    /\ calls' = calls + 1
    /\ result' = calls + 1
    /\ Return("succeeded")
    /\ UNCHANGED <<config, attempt, wait, lastErr, cancelled>>

\* Mutant: one attempt too few.
LastAttemptEarly == attempt = config.maxAttempts - 2

LastAttempt == attempt = config.maxAttempts - 1

Fails(e) ==
    /\ at = "calling"
    /\ calls' = calls + 1
    /\ lastErr' = {e}
    /\ result' = calls + 1
    /\ IF ~ShouldRetry(e) \/ LastAttempt
       THEN Return("exceeded") /\ UNCHANGED attempt
       ELSE attempt' = attempt + 1 /\ at' = "loop" /\ UNCHANGED outcome
    /\ UNCHANGED <<config, wait, cancelled>>

Cancel ==
    /\ ~cancelled
    /\ cancelled' = TRUE
    /\ UNCHANGED <<config, at, attempt, wait, lastErr, result, outcome, calls>>

RetryNext ==
    \/ Exhausted \/ FirstAttempt \/ BackOff \/ WaitEnds \/ WaitCancelled
    \/ Succeeds \/ Cancel
    \/ \E e \in Errors : Fails(e)

RetrySpec == RetryInit /\ [][RetryNext]_retryVars

-----------------------------------------------------------------------------
Between(x, y) == x .. y \cup y .. x

(* A wait lasts what the strategy says, capped by MaxDelay, and up to a    *)
(* tenth of that more, whatever the order of conversion, cap and jitter    *)
(* makes of it (lines 124 and 206 to 217), and also for delays below 0:    *)
(* unless the product or the longest jittered wait is no Duration, when a  *)
(* wait can be anything, also almost as long as the longest Duration. The  *)
(* jitter comes after the cap (line 126), so a wait may be longer than     *)
(* MaxDelay, which line 73 and retry_test.go:310 say it cannot.            *)
WaitBounded ==
    LET base == Least(Product(attempt), config.maxDelay)
        last == base + Truncated(base, 10)
    IN at = "waiting" /\ {Product(attempt), last} \subseteq Duration =>
          wait \in Between(base, last)

(* However attempts, backoffs and the cancellation interleave, what Do and *)
(* DoWithValue return is explained by what was called: the value is the    *)
(* last call's, also that of an error; a cancellation is only reported     *)
(* between two attempts that were both allowed; and a loop that ends       *)
(* before its last attempt had an error it was not to try again.           *)
DoExplained ==
    /\ result = calls
    /\ calls > 0 => calls <= config.maxAttempts
    /\ outcome = "cancelled" => cancelled /\ 0 < calls /\ calls < config.maxAttempts
    /\ outcome = "exceeded" =>
          \/ calls = 0 /\ config.maxAttempts <= 0
          \/ calls = config.maxAttempts
          \/ \E e \in lastErr :
                \/ config.shouldRetry = "listed" /\ ~e.listed
                \/ config.shouldRetry = "transient"
                   /\ \A o \in e.occurs : o.first /\ ~o.exact

(* retry_test.go:360, "operation timed out" is a transient error: Do tries *)
(* again after it while it has attempts left.                              *)
TimedOutIsRetried ==
    outcome = "exceeded" /\ config.shouldRetry = "transient" /\ calls < config.maxAttempts
        => \A e \in lastErr : ~e.timedOut
=============================================================================
