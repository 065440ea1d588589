--------------------------- MODULE FindmntWrapper ---------------------------
(***************************************************************************)
(* The findmnt wrapper of src/system/findmnt.go with the circuit breaker   *)
(* and the retry loop it is built from.                                    *)
(*                                                                         *)
(* CheckMountPoint asks the breaker twice: IsOpen first, and then Execute, *)
(* whose allowRequest has its own idea of when an open breaker admits a    *)
(* probe. Between the two, inside the retry loop and before the statistics *)
(* are brought up to date, other goroutines run.                           *)
(*                                                                         *)
(* The breaker is an instance of CircuitBreaker and its steps are steps of *)
(* this module. The listener NewFindmntWrapper installs has an empty body, *)
(* so the instance is not listening. The findmnt process is one step with  *)
(* any of the results the code tells apart.                                *)
(***************************************************************************)
EXTENDS Integers, FiniteSets

CONSTANTS
    Callers,        \* goroutines that call CheckMountPoint
    Cancellable,    \* those whose context may be cancelled
    MaxFailures,    \* threshold of the breaker (the code passes 5)
    ResetTimeout,   \* timeout of the breaker in ticks (the code passes 60s)
    FailureCap,     \* see CircuitBreaker
    MaxAttempts,    \* MaxAttempts of the retry loop (the code passes 3)
    CounterModulus  \* the counters are int64: 2^64 in the code

ASSUME WrapperAssumption ==
    /\ IsFiniteSet(Callers)
    /\ Cancellable \subseteq Callers
    /\ MaxFailures \in Nat \ {0}
    /\ ResetTimeout \in Nat \ {0}
    /\ FailureCap \in Nat
    /\ MaxFailures <= FailureCap
    /\ MaxAttempts \in Nat \ {0}
    /\ CounterModulus \in Nat \ {0}

VARIABLES
    state, failures, elapsed, call, pending, seen,  \* of the breaker
    pc,         \* where each caller is in CheckMountPoint
    tries,      \* attempts of the retry loop begun by the latest call
    status,     \* result.Status of the latest call
    err,        \* the error of the latest call, by kind
    stats       \* f.stats

breakerVars == <<state, failures, elapsed, call, pending, seen>>
callVars == <<pc, tries, status, err>>
vars == <<breakerVars, callVars, stats>>

CB == INSTANCE CircuitBreaker WITH Listening <- FALSE, MaxPending <- 1

Label == {"idle", "check", "execute", "attempt", "command", "backoff",
          "record", "count"}

\* Labels between a passed IsOpen check and the return of Execute.
Past == {"execute", "attempt", "command", "backoff", "record"}

\* Labels at which the caller is inside the breaker's Execute, running fn.
Inside == {"attempt", "command", "backoff", "record"}

Status == {"unknown", "mounted", "not_mounted"}

\* "open": refused; "transient", "fatal": the last error of the retry loop,
\* as IsTransientError classifies it; "cancelled": given up in a backoff.
Error == {"none", "open", "transient", "fatal", "cancelled"}

Counter == {"total", "successful", "failed", "retries"}

-----------------------------------------------------------------------------
Init ==
    /\ CB!Init
    /\ pc = [c \in Callers |-> "idle"]
    /\ tries = [c \in Callers |-> 0]
    /\ status = [c \in Callers |-> "unknown"]
    /\ err = [c \in Callers |-> "none"]
    /\ stats = [k \in Counter |-> 0]

Goto(c, label) == pc' = [pc EXCEPT ![c] = label]

Increment(k) ==
    stats' = [stats EXCEPT ![k] = IF @ = CounterModulus - 1 THEN 0 ELSE @ + 1]

\* CheckMountPoint up to its first look at the breaker.
Call(c) ==
    /\ pc[c] = "idle"
    /\ Increment("total")
    /\ status' = [status EXCEPT ![c] = "unknown"]
    /\ err' = [err EXCEPT ![c] = "none"]
    /\ tries' = [tries EXCEPT ![c] = 0]
    /\ Goto(c, "check")
    /\ UNCHANGED breakerVars

\* Mutant: an open breaker refuses without counting the call as failed.
CheckOpenUncounted(c) ==
    /\ pc[c] = "check"
    /\ IF state = "OPEN"
       THEN err' = [err EXCEPT ![c] = "open"] /\ Goto(c, "idle")
       ELSE Goto(c, "execute") /\ UNCHANGED err
    /\ UNCHANGED <<breakerVars, tries, status, stats>>

\* Mutant: the first look asks what the second one asks.
CheckOpenAllowing(c) ==
    /\ pc[c] = "check"
    /\ IF ~CB!AllowRequest
       THEN err' = [err EXCEPT ![c] = "open"] /\ Goto(c, "count")
       ELSE Goto(c, "execute") /\ UNCHANGED err
    /\ UNCHANGED <<breakerVars, tries, status, stats>>

\* f.circuitBreaker.IsOpen(): an open breaker refuses, however long it has
\* been open.
CheckOpen(c) ==
    /\ pc[c] = "check"
    /\ IF state = "OPEN"
       THEN err' = [err EXCEPT ![c] = "open"] /\ Goto(c, "count")
       ELSE Goto(c, "execute") /\ UNCHANGED err
    /\ UNCHANGED <<breakerVars, tries, status, stats>>

\* Execute: allowRequest admits the call, and executeFindmnt begins.
Admitted(c) ==
    /\ pc[c] = "execute"
    /\ CB!Admit(c)
    /\ Goto(c, "attempt")
    /\ UNCHANGED <<tries, status, err, stats>>

\* Execute: the breaker has opened since CheckOpen, and refuses.
Refused(c) ==
    /\ pc[c] = "execute"
    /\ CB!Refuse(c)
    /\ err' = [err EXCEPT ![c] = "open"]
    /\ Goto(c, "count")
    /\ UNCHANGED <<tries, status, stats>>

\* Mutant: the loop variable of the retry loop is not incremented.
AttemptUncounted(c) ==
    /\ pc[c] = "attempt"
    /\ Increment("retries")
    /\ Goto(c, "command")
    /\ UNCHANGED <<breakerVars, tries, status, err>>

\* An attempt counts itself and starts findmnt.
Attempt(c) ==
    /\ pc[c] = "attempt"
    /\ tries' = [tries EXCEPT ![c] = @ + 1]
    /\ Increment("retries")
    /\ Goto(c, "command")
    /\ UNCHANGED <<breakerVars, status, err>>

\* findmnt printed a line, exited with 1 or printed nothing, or printed a
\* blank first line, which sets no status at all.
CommandSucceeds(c, found) ==
    /\ pc[c] = "command"
    /\ status' = [status EXCEPT ![c] = found]
    /\ err' = [err EXCEPT ![c] = "none"]
    /\ Goto(c, "record")
    /\ UNCHANGED <<breakerVars, tries, stats>>

\* Mutant: one attempt too many.
AttemptsLeftOneMore(c) == tries[c] <= MaxAttempts

\* Mutant: one attempt too few.
AttemptsLeftOneLess(c) == tries[c] + 1 < MaxAttempts

AttemptsLeft(c) == tries[c] < MaxAttempts

\* findmnt failed with an error the retry loop retries while it can.
CommandFailsTransiently(c) ==
    /\ pc[c] = "command"
    /\ err' = [err EXCEPT ![c] = "transient"]
    /\ Goto(c, IF AttemptsLeft(c) THEN "backoff" ELSE "record")
    /\ UNCHANGED <<breakerVars, tries, status, stats>>

\* Mutant: the status is set before the error is looked at.
CommandFailsMounted(c) ==
    /\ pc[c] = "command"
    /\ status' = [status EXCEPT ![c] = "mounted"]
    /\ err' = [err EXCEPT ![c] = "fatal"]
    /\ Goto(c, "record")
    /\ UNCHANGED <<breakerVars, tries, stats>>

\* findmnt timed out, was killed, exited with another code, or printed a
\* line longer than the scanner takes: none is transient.
CommandFails(c) ==
    /\ pc[c] = "command"
    /\ err' = [err EXCEPT ![c] = "fatal"]
    /\ Goto(c, "record")
    /\ UNCHANGED <<breakerVars, tries, status, stats>>

\* time.After(delay) fires.
BackoffEnds(c) ==
    /\ pc[c] = "backoff"
    /\ Goto(c, "attempt")
    /\ UNCHANGED <<breakerVars, tries, status, err, stats>>

\* ctx.Done() is selected instead.
BackoffCancelled(c) ==
    /\ c \in Cancellable
    /\ pc[c] = "backoff"
    /\ err' = [err EXCEPT ![c] = "cancelled"]
    /\ Goto(c, "record")
    /\ UNCHANGED <<breakerVars, tries, status, stats>>

\* Execute records the result of fn and returns its error.
Record(c) ==
    /\ pc[c] = "record"
    /\ CB!RecordResult(c, err[c] = "none")
    /\ Goto(c, "count")
    /\ UNCHANGED <<tries, status, err, stats>>

CounterOf(c) == IF err[c] = "none" THEN "successful" ELSE "failed"

\* The last step of every path of CheckMountPoint, which then returns.
Count(c) ==
    /\ pc[c] = "count"
    /\ Increment(CounterOf(c))
    /\ Goto(c, "idle")
    /\ UNCHANGED <<breakerVars, tries, status, err>>

ResetCircuitBreaker == CB!Reset /\ UNCHANGED <<callVars, stats>>

Tick == CB!Tick /\ UNCHANGED <<callVars, stats>>

Command(c) ==
    \/ \E found \in Status : CommandSucceeds(c, found)
    \/ CommandFailsTransiently(c)
    \/ CommandFails(c)

Step(c) ==
    \/ CheckOpen(c) \/ Admitted(c) \/ Refused(c)
    \/ Attempt(c) \/ Command(c) \/ BackoffEnds(c) \/ BackoffCancelled(c)
    \/ Record(c) \/ Count(c)

Next ==
    \/ \E c \in Callers : Call(c) \/ Step(c)
    \/ ResetCircuitBreaker
    \/ Tick

Spec == Init /\ [][Next]_vars

(***************************************************************************)
(* A goroutine that is in CheckMountPoint goes on: no lock is held while   *)
(* findmnt runs, findmnt is killed when its timeout expires, and a backoff *)
(* lasts MaxDelay and a tenth at most.                                     *)
(***************************************************************************)
Fairness == WF_vars(Tick) /\ \A c \in Callers : WF_vars(Step(c))

FairSpec == Spec /\ Fairness

\* Besides, every caller calls again, as the scrapes of the exporter do.
BusySpec == FairSpec /\ \A c \in Callers : WF_vars(Call(c))

-----------------------------------------------------------------------------
(* Every variable stays within its type: in particular no call begins more *)
(* attempts than the retry loop allows (retry.go:120).                     *)
TypeOK ==
    /\ CB!TypeOK
    /\ pc \in [Callers -> Label]
    /\ tries \in [Callers -> 0 .. MaxAttempts]
    /\ status \in [Callers -> Status]
    /\ err \in [Callers -> Error]
    /\ stats \in [Counter -> 0 .. CounterModulus - 1]

InCall == {c \in Callers : pc[c] # "idle"}

InPast == {c \in Callers : pc[c] \in Past}

(* The statistics balance at every instant, whatever path the calls took:  *)
(* every call that was counted has been counted as successful or as failed,*)
(* once, or is still in CheckMountPoint, but for the wrapping around of    *)
(* the counters.                                                           *)
StatsConserved ==
    \E k \in 0 .. Cardinality(InCall) + 1 :
        stats["successful"] + stats["failed"] + Cardinality(InCall)
            = stats["total"] + k * CounterModulus

(* A caller is inside the breaker's Execute exactly while its fn runs, and *)
(* the error of a finished call tells how many times findmnt was run: not  *)
(* at all if the call was refused, the whole budget if its last error was  *)
(* transient, and less than that if its context was cancelled. A result    *)
(* never carries both an error and a status: what the collector exports as *)
(* an error is never a stale or half-parsed answer of an earlier attempt.  *)
OutcomeExplained ==
    \A c \in Callers :
        /\ pc[c] \in Inside <=> call[c] = "running"
        /\ pc[c] \in {"idle", "count"} =>
              /\ err[c] = "open" => tries[c] = 0
              /\ err[c] = "transient" => tries[c] = MaxAttempts
              /\ err[c] = "cancelled" => tries[c] \in 1 .. MaxAttempts - 1
              /\ err[c] = "fatal" => tries[c] \in 1 .. MaxAttempts
        /\ err[c] # "none" => status[c] = "unknown"

(* Once the breaker is open only the calls that were already past IsOpen   *)
(* can still add failures to it, one each, so the count stays under the    *)
(* threshold plus the number of concurrent callers.                        *)
LateFailuresBounded ==
    state = "OPEN" =>
        failures + Cardinality(InPast) < MaxFailures + Cardinality(Callers)

(* Every call of CheckMountPoint returns.                                  *)
CallsReturn == \A c \in Callers : pc[c] = "check" ~> pc[c] = "idle"

-----------------------------------------------------------------------------
\* Open, with nobody past IsOpen who could still change that.
Stuck == state = "OPEN" /\ InPast = {}

PhaseOf(c) ==
    IF pc[c] = "idle" THEN "idle"
    ELSE IF pc[c] = "check" THEN "asking"
    ELSE IF pc[c] \in Past THEN "inside"
    ELSE IF err[c] = "open" THEN "refused" ELSE "served"

G == INSTANCE CheckGate WITH
        gate <- IF Stuck THEN "down" ELSE "up",
        phase <- [c \in Callers |-> PhaseOf(c)]

(* The wrapper implements the gate: once the breaker is open and the calls *)
(* past IsOpen are done, findmnt is not run again until somebody calls     *)
(* ResetCircuitBreaker. The probes of allowRequest never come to pass.     *)
GateSpec == G!Spec

(* ARCHITECTURE.md:74, "Auto-Reset", and TROUBLESHOOTING.md:747, "Continue *)
(* attempting to run `findmnt` with circuit breaker and retry logic": if   *)
(* findmnt stops failing, callers that keep calling see the breaker close. *)
FailureRecorded ==
    \E c \in Callers : call[c] = "running" /\ call'[c] = "failed"

AutoReset ==
    <>[][~FailureRecorded]_vars => <>[](state = "CLOSED")
=============================================================================
