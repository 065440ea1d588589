--------------------------- MODULE CircuitBreaker ---------------------------
(***************************************************************************)
(* The circuit breaker of src/reliability/circuit_breaker.go.              *)
(*                                                                         *)
(* Callers run Execute concurrently. Execute takes the lock twice: once to *)
(* ask allowRequest, and once, after fn has run unlocked for as long as it *)
(* likes, to record the result. Everything hard about the component lives  *)
(* between those two steps: a call admitted in one state reports its       *)
(* result in another, and the callbacks setState launches in goroutines of *)
(* their own run in any order.                                             *)
(*                                                                         *)
(* Time is the number of ticks since lastFailTime, which is all the code   *)
(* reads of the clock, and it stops counting at ResetTimeout, the only     *)
(* value the code compares it with.                                        *)
(***************************************************************************)
EXTENDS Integers

CONSTANTS
    Callers,        \* goroutines that call Execute
    MaxFailures,    \* maxFailures: failures in CLOSED that open the breaker
    ResetTimeout,   \* resetTimeout, in ticks
    FailureCap,     \* the model stops counting failures here
    Listening,      \* TRUE when onStateChange # nil
    MaxPending      \* callback goroutines of one kind not yet run, at most

ASSUME BreakerAssumption ==
    /\ MaxFailures \in Nat \ {0}
    /\ ResetTimeout \in Nat \ {0}
    /\ FailureCap \in Nat
    /\ MaxFailures <= FailureCap
    /\ Listening \in BOOLEAN
    /\ MaxPending \in Nat \ {0}

VARIABLES
    state,      \* cb.state
    failures,   \* cb.failures, counted up to FailureCap
    elapsed,    \* time.Since(cb.lastFailTime), counted up to ResetTimeout
    call,       \* what became of each caller's latest Execute
    pending,    \* pending[f][t]: launched callbacks (f -> t) that have not run
    seen        \* seen[s]: entries into s minus exits from s the listener has seen

breakerVars == <<state, failures, elapsed, call, pending, seen>>

State == {"CLOSED", "HALF_OPEN", "OPEN"}

\* "none": never called; "running": inside fn; the others: how it returned.
Outcome == {"none", "running", "ok", "failed", "refused"}

-----------------------------------------------------------------------------
(* The zero time.Time of lastFailTime lies further back than any timeout. *)
Init ==
    /\ state = "CLOSED"
    /\ failures = 0
    /\ elapsed = ResetTimeout
    /\ call = [c \in Callers |-> "none"]
    /\ pending = [f \in State |-> [t \in State |-> 0]]
    /\ seen = [s \in State |-> 0]

CooledDown == elapsed >= ResetTimeout

\* Mutant: the timeout never lets a probe through.
AllowRequestNoProbe == state # "OPEN"

\* allowRequest changes nothing: a probe is admitted while the state is OPEN.
AllowRequest == state # "OPEN" \/ CooledDown

Notify(from, to) ==
    IF Listening
    THEN /\ pending[from][to] < MaxPending
         /\ pending' = [pending EXCEPT ![from][to] = @ + 1]
    ELSE UNCHANGED pending

\* Mutant: the old state is read after it has been overwritten.
SetStateOldLost(new) ==
    /\ state' = new
    /\ IF new = state THEN UNCHANGED pending ELSE Notify(new, new)

SetState(new) ==
    /\ state' = new
    /\ IF new = state THEN UNCHANGED pending ELSE Notify(state, new)

\* Mutant: a success half-opens the breaker before the cool-down is over.
AfterSuccessHasty == IF state = "OPEN" THEN "HALF_OPEN" ELSE "CLOSED"

AfterSuccess ==
    IF state # "OPEN" THEN "CLOSED"
    ELSE IF CooledDown THEN "HALF_OPEN" ELSE "OPEN"

OnSuccess ==
    /\ failures' = 0
    /\ UNCHANGED elapsed
    /\ SetState(AfterSuccess)

\* Mutant: the threshold is compared with the count before the increment.
TrippedLate == failures >= MaxFailures

Tripped == failures + 1 >= MaxFailures

OnFailure ==
    /\ failures' = IF failures < FailureCap THEN failures + 1 ELSE failures
    /\ elapsed' = 0
    /\ SetState(IF state = "CLOSED" /\ ~Tripped THEN "CLOSED" ELSE "OPEN")

-----------------------------------------------------------------------------
\* Execute up to the call of fn, when allowRequest says yes.
Admit(c) ==
    /\ call[c] # "running"
    /\ AllowRequest
    /\ call' = [call EXCEPT ![c] = "running"]
    /\ UNCHANGED <<state, failures, elapsed, pending, seen>>

\* Execute when allowRequest says no: an error, and nothing recorded.
Refuse(c) ==
    /\ call[c] # "running"
    /\ ~AllowRequest
    /\ call' = [call EXCEPT ![c] = "refused"]
    /\ UNCHANGED <<state, failures, elapsed, pending, seen>>

\* fn has returned: recordResult, in whatever state the breaker now is.
RecordResult(c, success) ==
    /\ call[c] = "running"
    /\ call' = [call EXCEPT ![c] = IF success THEN "ok" ELSE "failed"]
    /\ IF success THEN OnSuccess ELSE OnFailure
    /\ UNCHANGED seen

Reset ==
    /\ failures' = 0
    /\ elapsed' = ResetTimeout
    /\ SetState("CLOSED")
    /\ UNCHANGED <<call, seen>>

Tick ==
    /\ elapsed < ResetTimeout
    /\ elapsed' = elapsed + 1
    /\ UNCHANGED <<state, failures, call, pending, seen>>

\* Mutant: a callback runs that no state change launched.
LaunchedAlways(from, to) == TRUE

Launched(from, to) == pending[from][to] > 0

\* One of the goroutines setState launched runs the listener.
RunCallback(from, to) ==
    /\ from # to
    /\ Launched(from, to)
    /\ pending' = [pending EXCEPT ![from][to] = @ - 1]
    /\ seen' = [seen EXCEPT ![from] = @ - 1, ![to] = @ + 1]
    /\ UNCHANGED <<state, failures, elapsed, call>>

Start(c) == Admit(c) \/ Refuse(c)

Return(c) == \E success \in BOOLEAN : RecordResult(c, success)

Next ==
    \/ \E c \in Callers : Start(c) \/ Return(c)
    \/ Reset
    \/ Tick
    \/ \E from, to \in State : RunCallback(from, to)

Spec == Init /\ [][Next]_breakerVars

(***************************************************************************)
(* The clock advances, every fn returns, the goroutines of the callbacks   *)
(* are scheduled, and some caller keeps calling. Nobody is obliged to call *)
(* Reset.                                                                  *)
(***************************************************************************)
Fairness ==
    /\ WF_breakerVars(Tick)
    /\ WF_breakerVars(\E c \in Callers : Start(c))
    /\ \A c \in Callers : WF_breakerVars(Return(c))
    /\ \A from, to \in State : WF_breakerVars(RunCallback(from, to))

FairSpec == Spec /\ Fairness

-----------------------------------------------------------------------------
(* Every variable stays within its type; no callback runs that was not     *)
(* launched by setState, and none is launched twice over the bound.        *)
TypeOK ==
    /\ state \in State
    /\ failures \in 0 .. FailureCap
    /\ elapsed \in 0 .. ResetTimeout
    /\ call \in [Callers -> Outcome]
    /\ pending \in [State -> [State -> 0 .. MaxPending]]
    /\ seen \in [State -> Int]

(* A closed breaker has fewer failures on its books than the threshold,    *)
(* whichever of onSuccess, onFailure and Reset closed it or kept it closed,*)
(* and however late the results it counted arrived.                        *)
ClosedBelowThreshold == state = "CLOSED" => failures < MaxFailures

(* HALF_OPEN is only ever reached and held after a whole resetTimeout      *)
(* without a recorded failure, and with a clean count: a late failure of a *)
(* call admitted long before sends it back to OPEN (lines 105 and 123), so *)
(* the success that closes the breaker never follows a fresh failure.      *)
HalfOpenQuiet == state = "HALF_OPEN" => failures = 0 /\ CooledDown

Arrivals(s) == pending["CLOSED"][s] + pending["HALF_OPEN"][s] + pending["OPEN"][s]

Departures(s) == pending[s]["CLOSED"] + pending[s]["HALF_OPEN"] + pending[s]["OPEN"]

Here(s) == IF state = s THEN 1 ELSE 0

(* The callbacks run in any order, but none is lost, doubled or given the  *)
(* wrong states: what the listener has seen and what it has yet to see add *)
(* up to the way from the initial CLOSED to the present state.             *)
CallbackBalance ==
    Listening => \A s \in State :
        seen[s] + Arrivals(s) - Departures(s) = Here(s) - (IF s = "CLOSED" THEN 1 ELSE 0)

(* A breaker that is used and sees no more failures closes for good: the   *)
(* cool-down ends, a probe is admitted in OPEN, its success half-opens the *)
(* breaker and the next one closes it (lines 76, 105, 109).                *)
FailureRecorded ==
    \E c \in Callers : call[c] = "running" /\ call'[c] = "failed"

Recovers ==
    <>[][~FailureRecorded]_breakerVars => <>[](state = "CLOSED")
=============================================================================
