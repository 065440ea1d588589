------------------------ MODULE FindmntWrapper_proofs ------------------------
(***************************************************************************)
(* What holds of the findmnt wrapper for any number of callers, any        *)
(* breaker and any retry budget: it is a circuit breaker (ImplementsBreaker*)
(* carries the invariants of CircuitBreaker_proofs over), and it implements*)
(* the gate of CheckGate. At the end, what holds of the retry loop that    *)
(* src/reliability offers beside the wrapper's own, which is Retry: it     *)
(* shares no variable with the wrapper.                                    *)
(***************************************************************************)
EXTENDS FindmntWrapper, Retry, FiniteSetTheorems, TLAPS

B == INSTANCE CircuitBreaker_proofs WITH Listening <- FALSE, MaxPending <- 1

-----------------------------------------------------------------------------
(* The breaker inside the wrapper.                                         *)

(* The wrapper is made with a new breaker. *)
LEMMA InitBreaker == Init => CB!Init
BY DEF Init

(* Every step of the wrapper is a step of its breaker, or leaves it alone. *)
LEMMA StepBreaker == [Next]_vars => [CB!Next]_(CB!breakerVars)
<1> SUFFICES ASSUME [Next]_vars PROVE [CB!Next]_(CB!breakerVars)
  OBVIOUS
<1>1. ASSUME NEW c \in Callers, Call(c) \/ Step(c)
      PROVE  [CB!Next]_(CB!breakerVars)
  <2>1. CASE Admitted(c) \/ Refused(c)
    BY <2>1 DEF Admitted, Refused, CB!Next, CB!Start
  <2>2. CASE Record(c)
    <3>1. (err[c] = "none") \in BOOLEAN
      OBVIOUS
    <3>2. QED
      BY <2>2, <3>1 DEF Record, CB!Next, CB!Return
  <2>3. CASE UNCHANGED breakerVars
    BY <2>3 DEF breakerVars, CB!breakerVars
  <2>4. QED
    BY <1>1, <2>1, <2>2, <2>3
    DEF Step, Call, CheckOpen, Attempt, Command, CommandSucceeds,
        CommandFailsTransiently, CommandFails, BackoffEnds, BackoffCancelled, Count
<1>2. CASE ResetCircuitBreaker \/ Tick
  BY <1>2 DEF ResetCircuitBreaker, Tick, CB!Next
<1>3. CASE UNCHANGED vars
  BY <1>3 DEF vars, breakerVars, CB!breakerVars
<1>4. QED
  BY <1>1, <1>2, <1>3 DEF Next

(* The wrapper implements its circuit breaker, so that every safety        *)
(* property of the breaker holds inside the wrapper.                       *)
THEOREM ImplementsBreaker == Spec => CB!Spec
<1>1. QED
  BY InitBreaker, StepBreaker, PTL DEF Spec, CB!Spec

(* The constants of the wrapper make a breaker. *)
LEMMA BreakerConstants == B!BreakerAssumption
BY WrapperAssumption DEF WrapperAssumption, B!BreakerAssumption

(* The instance of the breaker in FindmntWrapper and the one its proofs are *)
(* about are the same formulas.                                            *)
LEMMA SameBreaker ==
    /\ CB!Init => B!Init
    /\ [CB!Next]_(CB!breakerVars) => [B!Next]_(B!breakerVars)
    /\ B!TypeOK => CB!TypeOK
<1>1. CB!Init => B!Init
  BY DEF CB!Init, B!Init, CB!State, B!State
<1>2. [CB!Next]_(CB!breakerVars) => [B!Next]_(B!breakerVars)
  BY DEF CB!breakerVars, CB!Next, CB!Start, CB!Return, CB!Admit, CB!Refuse,
         CB!AllowRequest, CB!CooledDown, CB!RecordResult, CB!OnSuccess,
         CB!AfterSuccess, CB!OnFailure, CB!Tripped, CB!SetState, CB!Notify,
         CB!Reset, CB!Tick, CB!RunCallback, CB!Launched, CB!State,
         B!breakerVars, B!Next, B!Start, B!Return, B!Admit, B!Refuse,
         B!AllowRequest, B!CooledDown, B!RecordResult, B!OnSuccess,
         B!AfterSuccess, B!OnFailure, B!Tripped, B!SetState, B!Notify,
         B!Reset, B!Tick, B!RunCallback, B!Launched, B!State
<1>3. B!TypeOK => CB!TypeOK
  BY DEF B!TypeOK, B!State, B!Outcome, CB!TypeOK, CB!State, CB!Outcome
<1>4. QED
  BY <1>1, <1>2, <1>3

(* The breaker inside the wrapper is below its threshold when closed, and  *)
(* quiet when half-open, whatever the wrapper's callers do.                *)
THEOREM BreakerInvariant == Spec => []B!IInv
<1>1. Init => B!IInv
  BY InitBreaker, SameBreaker, BreakerConstants, B!InitIInv
<1>2. B!IInv /\ [Next]_vars => B!IInv'
  BY StepBreaker, SameBreaker, BreakerConstants, B!NextIInv
<1>3. QED
  BY <1>1, <1>2, PTL DEF Spec

-----------------------------------------------------------------------------
(* Calls.                                                                  *)

(* What the types and the outcomes of the calls need of every caller: how  *)
(* many attempts it has begun, which error it carries, and that a status   *)
(* is only ever set by the attempt that ends the call.                     *)
CallInv(c) ==
    /\ pc[c] \in Inside <=> call[c] = "running"
    /\ pc[c] \in {"check", "execute"} => tries[c] = 0 /\ err[c] = "none"
    /\ pc[c] = "attempt" => tries[c] < MaxAttempts /\ err[c] \in {"none", "transient"}
    /\ pc[c] = "command" => tries[c] >= 1
    /\ pc[c] = "backoff" => tries[c] \in 1 .. MaxAttempts - 1 /\ err[c] = "transient"
    /\ pc[c] \in {"record", "count", "idle"} =>
          /\ err[c] = "open" => tries[c] = 0
          /\ err[c] = "transient" => tries[c] = MaxAttempts
          /\ err[c] = "cancelled" => tries[c] \in 1 .. MaxAttempts - 1
          /\ err[c] = "fatal" => tries[c] \in 1 .. MaxAttempts
    /\ status[c] # "unknown" =>
          err[c] = "none" /\ pc[c] \in {"record", "count", "idle"}

CallTypes ==
    /\ pc \in [Callers -> Label]
    /\ tries \in [Callers -> 0 .. MaxAttempts]
    /\ status \in [Callers -> Status]
    /\ err \in [Callers -> Error]
    /\ stats \in [Counter -> 0 .. CounterModulus - 1]
    /\ call \in [Callers -> B!Outcome]

WInv == CallTypes /\ \A c \in Callers : CallInv(c)

(* Nobody has called yet. *)
LEMMA InitWInv == Init => WInv
BY WrapperAssumption
DEF WrapperAssumption, Init, CB!Init, WInv, CallTypes, CallInv, B!Outcome,
    Label, Status, Error, Counter, Inside

(* A counter that is incremented stays within its width. *)
LEMMA IncrementType ==
    ASSUME CallTypes, NEW k \in Counter, Increment(k)
    PROVE  stats' \in [Counter -> 0 .. CounterModulus - 1]
BY WrapperAssumption DEF WrapperAssumption, CallTypes, Increment

(* A step of one caller preserves the types and the invariant of everyone. *)
LEMMA CallerStepWInv ==
    ASSUME WInv, NEW c \in Callers, Call(c) \/ Step(c)
    PROVE  WInv'
<1> USE WrapperAssumption
    DEF WrapperAssumption, WInv, CallTypes, CallInv, Goto, Inside
<1>1. CASE Call(c)
  <2>1. "total" \in Counter
    BY DEF Counter
  <2>2. stats' \in [Counter -> 0 .. CounterModulus - 1]
    BY <1>1, <2>1, IncrementType DEF Call
  <2>3. QED
    BY <1>1, <2>2 DEF Call, breakerVars, Label, Status, Error
<1>2. CASE CheckOpen(c)
  BY <1>2 DEF CheckOpen, breakerVars, Label, Error
<1>3. CASE Admitted(c)
  BY <1>3 DEF Admitted, CB!Admit, B!Outcome, Label
<1>4. CASE Refused(c)
  BY <1>4 DEF Refused, CB!Refuse, B!Outcome, Label, Error
<1>5. CASE Attempt(c)
  <2>1. "retries" \in Counter
    BY DEF Counter
  <2>2. stats' \in [Counter -> 0 .. CounterModulus - 1]
    BY <1>5, <2>1, IncrementType DEF Attempt
  <2>3. QED
    BY <1>5, <2>2 DEF Attempt, breakerVars, Label
<1>6. ASSUME NEW found \in Status, CommandSucceeds(c, found) PROVE WInv'
  BY <1>6 DEF CommandSucceeds, breakerVars, Label, Status, Error
<1>7. CASE CommandFailsTransiently(c)
  BY <1>7 DEF CommandFailsTransiently, AttemptsLeft, breakerVars, Label, Error
<1>8. CASE CommandFails(c)
  BY <1>8 DEF CommandFails, breakerVars, Label, Error
<1>9. CASE BackoffEnds(c)
  BY <1>9 DEF BackoffEnds, breakerVars, Label
<1>10. CASE BackoffCancelled(c)
  BY <1>10 DEF BackoffCancelled, breakerVars, Label, Error
<1>11. CASE Record(c)
  BY <1>11 DEF Record, CB!RecordResult, B!Outcome, Label
<1>12. CASE Count(c)
  <2>1. CounterOf(c) \in Counter
    BY DEF CounterOf, Counter
  <2>2. stats' \in [Counter -> 0 .. CounterModulus - 1]
    BY <1>12, <2>1, IncrementType DEF Count
  <2>3. QED
    BY <1>12, <2>2 DEF Count, breakerVars, Label
<1>13. QED
  BY <1>1, <1>2, <1>3, <1>4, <1>5, <1>6, <1>7, <1>8, <1>9, <1>10, <1>11, <1>12
  DEF Step, Command

(* Every step keeps the types and the invariant. *)
LEMMA NextWInv == WInv /\ [Next]_vars => WInv'
<1> SUFFICES ASSUME WInv, [Next]_vars PROVE WInv'
  OBVIOUS
<1>1. CASE UNCHANGED <<callVars, stats, call>>
  BY <1>1 DEF WInv, CallTypes, CallInv, callVars, Inside
<1>2. CASE ResetCircuitBreaker \/ Tick
  BY <1>1, <1>2 DEF ResetCircuitBreaker, Tick, CB!Reset, CB!Tick
<1>3. CASE UNCHANGED vars
  BY <1>1, <1>3 DEF vars, breakerVars
<1>4. QED
  BY <1>2, <1>3, CallerStepWInv DEF Next

(* The types and the invariant hold of every reachable state. *)
LEMMA Invariant == Spec => []WInv
<1>1. QED
  BY InitWInv, NextWInv, PTL DEF Spec

(* Type correctness: in particular no call exceeds its retry budget.       *)
THEOREM TypeCorrect == Spec => []TypeOK
<1>1. WInv /\ B!IInv => TypeOK
  BY SameBreaker DEF WInv, CallTypes, TypeOK, B!IInv
<1>2. QED
  BY <1>1, Invariant, BreakerInvariant, PTL

(* The error of a call explains how often findmnt was run for it, and no   *)
(* result carries both an error and a status.                              *)
THEOREM OutcomesExplained == Spec => []OutcomeExplained
<1>1. WInv => OutcomeExplained
  BY DEF WInv, CallTypes, CallInv, OutcomeExplained, Status
<1>2. QED
  BY <1>1, Invariant, PTL

-----------------------------------------------------------------------------
(* Calls return: the safety part of CallsReturn.                           *)

\* The steps a call may still take: an attempt is begun, run and waited for.
ToReturn(c) ==
    LET attempts == 3 * (MaxAttempts - tries[c])
    IN CASE pc[c] = "idle" -> 0
         [] pc[c] = "count" -> 1
         [] pc[c] = "record" -> 2
         [] pc[c] = "attempt" -> attempts + 1
         [] pc[c] \in {"execute", "backoff"} -> attempts + 2
         [] pc[c] \in {"check", "command"} -> attempts + 3

(* The steps left are a number, which is 0 when the call has returned.     *)
LEMMA ToReturnType ==
    ASSUME WInv, NEW c \in Callers
    PROVE  ToReturn(c) \in Nat /\ (pc[c] = "idle" <=> ToReturn(c) = 0)
<1>1. pc[c] \in Label /\ MaxAttempts - tries[c] \in Nat
  BY WrapperAssumption DEF WrapperAssumption, WInv, CallTypes
<1>2. QED
  BY <1>1 DEF ToReturn, Label

(* A step of a call takes it nearer to its return.                         *)
LEMMA StepReturns ==
    ASSUME WInv, NEW c \in Callers, Step(c)
    PROVE  ToReturn(c)' < ToReturn(c)
<1> DEFINE left == MaxAttempts - tries[c]
<1>0. /\ pc \in [Callers -> Label] /\ tries \in [Callers -> 0 .. MaxAttempts]
      /\ MaxAttempts \in Nat /\ left \in Nat
  BY WrapperAssumption DEF WrapperAssumption, WInv, CallTypes
<1>1. \A label \in Label : Goto(c, label) => pc'[c] = label
  BY <1>0 DEF Goto
<1>2. CASE Attempt(c)
  <2>1. pc[c] = "attempt" /\ pc'[c] = "command" /\ tries'[c] = tries[c] + 1
    BY <1>0, <1>1, <1>2 DEF Attempt, Label
  <2>2. QED
    BY <1>0, <2>1 DEF ToReturn
<1>3. CASE ~Attempt(c)
  <2>1. tries' = tries
    BY <1>3 DEF Step, Command, CheckOpen, Admitted, Refused, CommandSucceeds,
        CommandFailsTransiently, CommandFails, BackoffEnds, BackoffCancelled, Record, Count
  <2>2. CASE CheckOpen(c) \/ Admitted(c) \/ Refused(c)
    <3>1. \/ pc[c] = "check" /\ pc'[c] \in {"count", "execute"}
          \/ pc[c] = "execute" /\ pc'[c] \in {"attempt", "count"}
      BY <1>1, <2>2 DEF CheckOpen, Admitted, Refused, Label
    <3>2. QED
      BY <1>0, <2>1, <3>1 DEF ToReturn
  <2>3. CASE Command(c)
    <3>1. pc[c] = "command" /\ pc'[c] \in {"record", "backoff"}
      BY <1>1, <2>3 DEF Command, CommandSucceeds, CommandFailsTransiently, CommandFails, Label
    <3>2. ToReturn(c) = 3 * left + 3
      BY <3>1 DEF ToReturn
    <3>3. ToReturn(c)' \in {2, 3 * left + 2}
      BY <2>1, <3>1 DEF ToReturn
    <3>4. QED
      BY <1>0, <3>2, <3>3
  <2>4. CASE BackoffEnds(c) \/ BackoffCancelled(c)
    <3>1. pc[c] = "backoff" /\ pc'[c] \in {"attempt", "record"}
      BY <1>1, <2>4 DEF BackoffEnds, BackoffCancelled, Label
    <3>2. ToReturn(c) = 3 * left + 2
      BY <3>1 DEF ToReturn
    <3>3. pc'[c] = "attempt" => ToReturn(c)' = 3 * left + 1
      BY <2>1 DEF ToReturn
    <3>4. pc'[c] = "record" => ToReturn(c)' = 2 /\ left # 0
      BY <1>0, <3>1 DEF ToReturn, WInv, CallInv
    <3>5. QED
      BY <1>0, <3>1, <3>2, <3>3, <3>4
  <2>5. CASE Record(c) \/ Count(c)
    <3>1. \/ pc[c] = "record" /\ pc'[c] = "count"
          \/ pc[c] = "count" /\ pc'[c] = "idle"
      BY <1>1, <2>5 DEF Record, Count, Label
    <3>2. QED
      BY <1>0, <2>1, <3>1 DEF ToReturn
  <2>6. QED
    BY <1>3, <2>2, <2>3, <2>4, <2>5 DEF Step
<1>4. QED
  BY <1>2, <1>3

(* Whatever the breaker and the other callers do, a call in CheckMountPoint*)
(* can take finitely many steps, only its own steps use them up, and it    *)
(* has returned when none is left.                                         *)
THEOREM CallsRunOut ==
    Spec =>
        /\ [](\A c \in Callers : ToReturn(c) \in Nat /\ (pc[c] = "idle" <=> ToReturn(c) = 0))
        /\ [][\A c \in Callers :
                 pc[c] # "idle" =>
                    \/ Step(c) /\ ToReturn(c)' < ToReturn(c)
                    \/ ToReturn(c)' = ToReturn(c)]_vars
<1>1. WInv => \A c \in Callers : ToReturn(c) \in Nat /\ (pc[c] = "idle" <=> ToReturn(c) = 0)
  BY ToReturnType
<1>2. WInv /\ [Next]_vars =>
        [\A c \in Callers :
            pc[c] # "idle" =>
               \/ Step(c) /\ ToReturn(c)' < ToReturn(c)
               \/ ToReturn(c)' = ToReturn(c)]_vars
  <2> SUFFICES ASSUME WInv, Next, NEW c \in Callers, pc[c] # "idle", ~Step(c)
               PROVE  ToReturn(c)' = ToReturn(c)
    BY StepReturns
  <2>0. pc \in [Callers -> Label] /\ tries \in [Callers -> 0 .. MaxAttempts]
    BY DEF WInv, CallTypes
  <2>1. pc'[c] = pc[c] /\ tries'[c] = tries[c]
    <3>1. CASE ResetCircuitBreaker \/ Tick
      BY <3>1 DEF ResetCircuitBreaker, Tick, callVars
    <3>2. ASSUME NEW d \in Callers, Call(d) \/ Step(d) PROVE pc'[c] = pc[c] /\ tries'[c] = tries[c]
      <4>1. d # c
        BY <3>2 DEF Call
      <4>2. QED
        BY <2>0, <3>2, <4>1
        DEF Call, Step, Command, CheckOpen, Admitted, Refused, Attempt, CommandSucceeds,
            CommandFailsTransiently, CommandFails, BackoffEnds, BackoffCancelled, Record,
            Count, Goto
    <3>3. QED
      BY <3>1, <3>2 DEF Next
  <2>2. QED
    BY <2>1 DEF ToReturn
<1>3. QED
  BY <1>1, <1>2, Invariant, PTL DEF Spec

-----------------------------------------------------------------------------
(* The gate.                                                               *)

(* The gate is up in the beginning. *)
LEMMA InitGate == Init => G!Init
BY DEF Init, CB!Init, G!Init, Stuck, PhaseOf

(* A step within one label class, by a caller that leaves the breaker      *)
(* alone and neither enters nor leaves Past, leaves the gate alone.        *)
LEMMA GateStutter ==
    ASSUME state' = state,
           \A c \in Callers : PhaseOf(c)' = PhaseOf(c),
           \A c \in Callers : pc'[c] \in Past <=> pc[c] \in Past
    PROVE  UNCHANGED G!gateVars
<1>1. InPast' = InPast
  BY DEF InPast
<1>2. Stuck' <=> Stuck
  BY <1>1 DEF Stuck
<1>3. [c \in Callers |-> PhaseOf(c)]' = [c \in Callers |-> PhaseOf(c)]
  OBVIOUS
<1>4. QED
  BY <1>2, <1>3 DEF G!gateVars

(* The phase of the caller that moves, and everyone else's. *)
LEMMA GateMove ==
    ASSUME pc \in [Callers -> Label], err \in [Callers -> Error],
           NEW c \in Callers, NEW label, NEW e,
           pc' = [pc EXCEPT ![c] = label],
           err' = [err EXCEPT ![c] = e]
    PROVE  /\ [d \in Callers |-> PhaseOf(d)]'
                = [[d \in Callers |-> PhaseOf(d)] EXCEPT ![c] = PhaseOf(c)']
           /\ \A d \in Callers \ {c} : PhaseOf(d)' = PhaseOf(d) /\ pc'[d] = pc[d]
           /\ pc'[c] = label /\ err'[c] = e
<1>1. \A d \in Callers \ {c} : PhaseOf(d)' = PhaseOf(d) /\ pc'[d] = pc[d]
  BY DEF PhaseOf
<1>2. [d \in Callers |-> PhaseOf(d)]'
        = [[d \in Callers |-> PhaseOf(d)] EXCEPT ![c] = PhaseOf(c)']
  BY <1>1
<1>3. QED
  BY <1>1, <1>2

(* Call, the refusing CheckOpen and Count move a caller outside the gate,   *)
(* which stays as it is.                                                   *)
LEMMA GateKept ==
    ASSUME pc \in [Callers -> Label], NEW c \in Callers, NEW label \in Label \ Past,
           pc[c] \notin Past, pc' = [pc EXCEPT ![c] = label], state' = state
    PROVE  Stuck' <=> Stuck
<1>1. InPast' = InPast
  BY DEF InPast
<1>2. QED
  BY <1>1 DEF Stuck

(* Refused and Record take a caller out of Past: it leaves, and the gate   *)
(* can only have come down if it was the last one inside.                  *)
LEMMA GateLeave ==
    ASSUME WInv, NEW c \in Callers, pc[c] \in Past, NEW e \in Error,
           pc' = [pc EXCEPT ![c] = "count"], err' = [err EXCEPT ![c] = e]
    PROVE  G!Leave(c)
<1> DEFINE old == [d \in Callers |-> PhaseOf(d)]
<1>1. /\ old' = [old EXCEPT ![c] = PhaseOf(c)']
      /\ \A d \in Callers \ {c} : PhaseOf(d)' = PhaseOf(d) /\ pc'[d] = pc[d]
      /\ pc'[c] = "count" /\ err'[c] = e
  BY GateMove DEF WInv, CallTypes
<1>2. PhaseOf(c) = "inside" /\ PhaseOf(c)' \in {"refused", "served"}
  BY <1>1 DEF PhaseOf, Past
<1>3. c \in InPast /\ ~Stuck
  BY DEF InPast, Stuck
<1>4. CASE Stuck'
  <2>1. \A d \in Callers \ {c} : PhaseOf(d) # "inside"
    <3>1. \A d \in Callers : pc'[d] \notin Past
      BY <1>4 DEF Stuck, InPast
    <3>2. QED
      BY <1>1, <3>1 DEF PhaseOf
  <2>2. QED
    BY <1>1, <1>2, <1>3, <1>4, <2>1 DEF G!Leave, G!Move, G!NobodyElseInside
<1>5. CASE ~Stuck'
  BY <1>1, <1>2, <1>3, <1>5 DEF G!Leave, G!Move
<1>6. QED
  BY <1>4, <1>5

(* Every step of the wrapper is a step of the gate, or leaves it alone. *)
LEMMA StepGate == WInv /\ [Next]_vars => [G!Next]_(G!gateVars)
<1> SUFFICES ASSUME WInv, [Next]_vars PROVE [G!Next]_(G!gateVars)
  OBVIOUS
<1>0. pc \in [Callers -> Label] /\ err \in [Callers -> Error]
  BY DEF WInv, CallTypes
<1>1. ASSUME NEW c \in Callers, Call(c) PROVE G!Ask(c)
  <2>1. pc[c] = "idle" /\ pc' = [pc EXCEPT ![c] = "check"]
        /\ err' = [err EXCEPT ![c] = "none"] /\ state' = state
    BY <1>1 DEF Call, Goto, breakerVars
  <2>2. Stuck' <=> Stuck
    BY <1>0, <2>1, GateKept DEF Label, Past
  <2>3. QED
    BY <1>0, <2>1, <2>2, GateMove DEF G!Ask, G!Move, PhaseOf
<1>2. ASSUME NEW c \in Callers, CheckOpen(c) PROVE G!TurnAway(c) \/ G!Enter(c)
  <2>1. CASE state = "OPEN"
    <3>1. pc[c] = "check" /\ pc' = [pc EXCEPT ![c] = "count"]
          /\ err' = [err EXCEPT ![c] = "open"] /\ state' = state
      BY <1>2, <2>1 DEF CheckOpen, Goto, breakerVars
    <3>2. Stuck' <=> Stuck
      BY <1>0, <3>1, GateKept DEF Label, Past
    <3>3. QED
      BY <1>0, <3>1, <3>2, GateMove DEF G!TurnAway, G!Move, PhaseOf, Past
  <2>2. CASE state # "OPEN"
    <3>1. pc[c] = "check" /\ pc' = [pc EXCEPT ![c] = "execute"]
          /\ err' = [err EXCEPT ![c] = err[c]] /\ state' = state
      BY <1>0, <1>2, <2>2 DEF CheckOpen, Goto, breakerVars
    <3>2. ~Stuck /\ ~Stuck'
      BY <2>2, <3>1 DEF Stuck
    <3>3. QED
      BY <1>0, <3>1, <3>2, GateMove DEF G!Enter, G!Move, PhaseOf, Past
  <2>3. QED
    BY <2>1, <2>2
<1>3. ASSUME NEW c \in Callers,
             \/ Admitted(c) \/ Attempt(c) \/ Command(c)
             \/ BackoffEnds(c) \/ BackoffCancelled(c)
      PROVE  UNCHANGED G!gateVars
  <2>1. state' = state /\ pc[c] \in Past /\ pc'[c] \in Past
        /\ \A d \in Callers \ {c} : pc'[d] = pc[d] /\ err'[d] = err[d]
    BY <1>0, <1>3
    DEF Admitted, CB!Admit, Attempt, Command, CommandSucceeds, CommandFails,
        CommandFailsTransiently, BackoffEnds, BackoffCancelled, Goto, Past, breakerVars
  <2>2. \A d \in Callers : PhaseOf(d)' = PhaseOf(d) /\ (pc'[d] \in Past <=> pc[d] \in Past)
    BY <2>1 DEF PhaseOf, Past
  <2>3. QED
    BY <2>1, <2>2, GateStutter
<1>4. ASSUME NEW c \in Callers, Refused(c) \/ Record(c) PROVE G!Leave(c)
  <2>1. PICK e \in Error : pc[c] \in Past
                         /\ pc' = [pc EXCEPT ![c] = "count"]
                         /\ err' = [err EXCEPT ![c] = e]
    <3>1. CASE Refused(c)
      BY <3>1 DEF Refused, Goto, Past, Error
    <3>2. CASE Record(c)
      <4>1. err[c] \in Error /\ err' = [err EXCEPT ![c] = err[c]]
        BY <1>0, <3>2 DEF Record
      <4>2. QED
        BY <3>2, <4>1 DEF Record, Goto, Past
    <3>3. QED
      BY <1>4, <3>1, <3>2
  <2>2. QED
    BY <2>1, GateLeave
<1>5. ASSUME NEW c \in Callers, Count(c) PROVE G!Answer(c)
  <2>1. pc[c] = "count" /\ pc' = [pc EXCEPT ![c] = "idle"]
        /\ err' = [err EXCEPT ![c] = err[c]] /\ state' = state
    BY <1>0, <1>5 DEF Count, Goto, breakerVars
  <2>2. Stuck' <=> Stuck
    BY <1>0, <2>1, GateKept DEF Label, Past
  <2>3. QED
    BY <1>0, <2>1, <2>2, GateMove DEF G!Answer, G!Move, PhaseOf, Past
<1>6. CASE ResetCircuitBreaker
  <2>1. state' = "CLOSED" /\ pc' = pc /\ err' = err
    BY <1>6 DEF ResetCircuitBreaker, CB!Reset, CB!SetState, callVars
  <2>2. ~Stuck'
    BY <2>1 DEF Stuck
  <2>3. \A c \in Callers : PhaseOf(c)' = PhaseOf(c)
    BY <2>1 DEF PhaseOf
  <2>4. QED
    BY <2>2, <2>3 DEF G!Next, G!Raise
<1>7. CASE Tick \/ UNCHANGED vars
  <2>1. state' = state /\ pc' = pc /\ err' = err
    BY <1>7 DEF Tick, CB!Tick, callVars, vars, breakerVars
  <2>2. \A c \in Callers : PhaseOf(c)' = PhaseOf(c) /\ (pc'[c] \in Past <=> pc[c] \in Past)
    BY <2>1 DEF PhaseOf
  <2>3. QED
    BY <2>1, <2>2, GateStutter
<1>8. QED
  BY <1>1, <1>2, <1>3, <1>4, <1>5, <1>6, <1>7 DEF Next, Step, G!Next

(* The wrapper implements the gate: an open breaker that nobody is past    *)
(* any more stays shut until ResetCircuitBreaker is called, whatever the   *)
(* time that passes and whatever findmnt would have answered.              *)
THEOREM ImplementsGate == Spec => GateSpec
<1>1. QED
  BY InitGate, StepGate, Invariant, PTL DEF Spec, GateSpec, G!Spec

-----------------------------------------------------------------------------
(* Late failures.                                                          *)

(* The callers past IsOpen can be counted. *)
LEMMA PastCardinality ==
    /\ IsFiniteSet(InPast)
    /\ Cardinality(InPast) \in Nat /\ Cardinality(Callers) \in Nat
    /\ Cardinality(InPast) <= Cardinality(Callers)
<1>1. InPast \subseteq Callers /\ IsFiniteSet(Callers)
  BY WrapperAssumption DEF InPast, WrapperAssumption
<1>2. QED
  BY <1>1, FS_Subset, FS_CardinalityType

(* A caller that returns from Execute is one fewer past IsOpen. *)
LEMMA LeavingPast ==
    ASSUME pc \in [Callers -> Label], NEW c \in Callers, pc[c] \in Past,
           pc' = [pc EXCEPT ![c] = "count"]
    PROVE  Cardinality(InPast)' = Cardinality(InPast) - 1
<1>1. c \in InPast /\ InPast' = InPast \ {c}
  BY DEF InPast, Past
<1>2. QED
  BY <1>1, PastCardinality, FS_RemoveElement

(* LateFailuresBounded is inductive relative to the types and to what the  *)
(* breaker guarantees of its other two states: the failure that opens it   *)
(* is at most the MaxFailures-th, and every later one has left Past.       *)
LEMMA NextLate ==
    ASSUME WInv, B!IInv, LateFailuresBounded, [Next]_vars
    PROVE  LateFailuresBounded'
<1> USE WrapperAssumption DEF WrapperAssumption
<1> DEFINE n == Cardinality(InPast)
           bound == MaxFailures + Cardinality(Callers)
<1>0. /\ failures \in Nat /\ state \in {"CLOSED", "HALF_OPEN", "OPEN"}
      /\ state = "CLOSED" => failures < MaxFailures
      /\ state = "HALF_OPEN" => failures = 0
      /\ state = "OPEN" => failures + n < bound
      /\ pc \in [Callers -> Label]
  BY DEF B!IInv, B!TypeOK, B!State, B!ClosedBelowThreshold, B!HalfOpenQuiet,
         LateFailuresBounded, WInv, CallTypes
<1>1. n \in Nat /\ Cardinality(Callers) \in Nat /\ n <= Cardinality(Callers)
  BY PastCardinality
<1>2. ASSUME state' = state, failures' = failures,
             \A c \in Callers : pc'[c] \in Past => pc[c] \in Past \/ state # "OPEN"
      PROVE  LateFailuresBounded'
  <2>1. CASE state # "OPEN"
    BY <1>2, <2>1 DEF LateFailuresBounded
  <2>2. CASE state = "OPEN"
    <3>1. InPast' \subseteq InPast
      BY <1>2, <2>2 DEF InPast
    <3>2. Cardinality(InPast') \in Nat /\ Cardinality(InPast') <= n
      BY <3>1, PastCardinality, FS_Subset, FS_CardinalityType
    <3>3. QED
      BY <1>0, <1>1, <1>2, <2>2, <3>2 DEF LateFailuresBounded
  <2>3. QED
    BY <2>1, <2>2
<1>3. ASSUME NEW c \in Callers, Record(c) PROVE LateFailuresBounded'
  <2>1. pc[c] \in Past /\ pc' = [pc EXCEPT ![c] = "count"]
    BY <1>3 DEF Record, Goto, Past
  <2>2. n' = n - 1
    BY <1>0, <2>1, LeavingPast
  <2>3. CASE err[c] = "none"
    <3>1. failures' = 0
      BY <1>3, <2>3 DEF Record, CB!RecordResult, CB!OnSuccess
    <3>2. QED
      BY <1>1, <2>2, <3>1 DEF LateFailuresBounded
  <2>4. CASE err[c] # "none"
    <3>1. failures' \in Nat /\ failures' <= failures + 1
      BY <1>0, <1>3, <2>4 DEF Record, CB!RecordResult, CB!OnFailure
    <3>2. QED
      BY <1>0, <1>1, <2>2, <3>1 DEF LateFailuresBounded
  <2>5. QED
    BY <2>3, <2>4
<1>4. ASSUME NEW c \in Callers, Call(c) \/ Step(c), ~Record(c)
      PROVE  LateFailuresBounded'
  <2>1. state' = state /\ failures' = failures
    BY <1>4
    DEF Call, Step, CheckOpen, Admitted, CB!Admit, Refused, CB!Refuse, Attempt,
        Command, CommandSucceeds, CommandFails, CommandFailsTransiently,
        BackoffEnds, BackoffCancelled, Count, breakerVars
  <2>2. \A d \in Callers : pc'[d] \in Past => pc[d] \in Past \/ state # "OPEN"
    BY <1>0, <1>4
    DEF Call, Step, CheckOpen, Admitted, Refused, Attempt,
        Command, CommandSucceeds, CommandFails, CommandFailsTransiently,
        BackoffEnds, BackoffCancelled, Count, Goto, Past
  <2>3. QED
    BY <1>2, <2>1, <2>2
<1>5. CASE ResetCircuitBreaker
  BY <1>5 DEF ResetCircuitBreaker, CB!Reset, CB!SetState, LateFailuresBounded
<1>6. CASE Tick \/ UNCHANGED vars
  BY <1>2, <1>6 DEF Tick, CB!Tick, callVars, vars, breakerVars
<1>7. QED
  BY <1>3, <1>4, <1>5, <1>6 DEF Next

(* However many calls race, an open breaker never counts more than one     *)
(* late failure for each of them.                                          *)
THEOREM LateFailuresAreBounded == Spec => []LateFailuresBounded
<1>1. Init => LateFailuresBounded
  BY DEF Init, CB!Init, LateFailuresBounded
<1>2. WInv /\ B!IInv /\ LateFailuresBounded /\ [Next]_vars => LateFailuresBounded'
  BY NextLate
<1>3. QED
  BY <1>1, <1>2, Invariant, BreakerInvariant, PTL DEF Spec

-----------------------------------------------------------------------------
(* Statistics.                                                             *)

\* StatsConserved without a bound on the number of times counters wrapped.
Balanced ==
    \E k \in Int : stats["successful"] + stats["failed"] + Cardinality(InCall)
                       = stats["total"] + k * CounterModulus

(* The callers in CheckMountPoint can be counted. *)
LEMMA InCallCardinality == IsFiniteSet(InCall) /\ Cardinality(InCall) \in Nat
<1>1. InCall \subseteq Callers /\ IsFiniteSet(Callers)
  BY WrapperAssumption DEF InCall, WrapperAssumption
<1>2. QED
  BY <1>1, FS_Subset, FS_CardinalityType

(* An increment adds one, or one less than it subtracts by wrapping.       *)
LEMMA Incremented ==
    ASSUME CallTypes, NEW k \in Counter, Increment(k)
    PROVE  /\ \/ stats'[k] = stats[k] + 1
              \/ stats'[k] = stats[k] + 1 - CounterModulus
           /\ \A j \in Counter \ {k} : stats'[j] = stats[j]
BY WrapperAssumption DEF WrapperAssumption, CallTypes, Increment

(* What the balance adds up.                                               *)
LEMMA CountersAreInts ==
    ASSUME CallTypes
    PROVE  /\ stats["successful"] \in 0 .. CounterModulus - 1
           /\ stats["failed"] \in 0 .. CounterModulus - 1
           /\ stats["total"] \in 0 .. CounterModulus - 1
BY DEF CallTypes, Counter

(* Adding or removing one modulus keeps a multiple of it one.              *)
LEMMA Multiples ==
    ASSUME NEW m \in Int, NEW k \in Int
    PROVE  (k + 1) * m = k * m + m /\ (k - 1) * m = k * m - m
OBVIOUS

(* A call is counted as it begins.                                         *)
LEMMA CallBalanced ==
    ASSUME CallTypes, Balanced, NEW c \in Callers, Call(c)
    PROVE  Balanced'
<1>1. c \notin InCall /\ InCall' = InCall \cup {c}
  BY DEF CallTypes, InCall, Call, Goto
<1>2. Cardinality(InCall)' = Cardinality(InCall) + 1
  BY <1>1, InCallCardinality, FS_AddElement
<1>3. PICK k \in Int : stats["successful"] + stats["failed"] + Cardinality(InCall)
                         = stats["total"] + k * CounterModulus
  BY DEF Balanced
<1>4. /\ stats'["total"] = stats["total"] + 1
         \/ stats'["total"] = stats["total"] + 1 - CounterModulus
      /\ stats'["successful"] = stats["successful"] /\ stats'["failed"] = stats["failed"]
  BY Incremented DEF Call, Counter
<1>5. /\ CounterModulus \in Int /\ k * CounterModulus \in Int
      /\ (k + 1) * CounterModulus = k * CounterModulus + CounterModulus
  BY Multiples, WrapperAssumption DEF WrapperAssumption
<1>6. \E j \in {k, k + 1} : stats'["successful"] + stats'["failed"] + Cardinality(InCall)'
                             = stats'["total"] + j * CounterModulus
  BY <1>2, <1>3, <1>4, <1>5, CountersAreInts, InCallCardinality
<1>7. QED
  BY <1>6 DEF Balanced

(* A call is counted as successful or as failed as it returns.             *)
LEMMA CountBalanced ==
    ASSUME CallTypes, Balanced, NEW c \in Callers, Count(c)
    PROVE  Balanced'
<1>1. c \in InCall /\ InCall' = InCall \ {c}
  BY DEF CallTypes, InCall, Count, Goto
<1>2. Cardinality(InCall)' = Cardinality(InCall) - 1
  BY <1>1, InCallCardinality, FS_RemoveElement
<1>3. PICK k \in Int : stats["successful"] + stats["failed"] + Cardinality(InCall)
                         = stats["total"] + k * CounterModulus
  BY DEF Balanced
<1>4. /\ stats'["total"] = stats["total"]
      /\ \/ /\ stats'["successful"] = stats["successful"] + 1
               \/ stats'["successful"] = stats["successful"] + 1 - CounterModulus
            /\ stats'["failed"] = stats["failed"]
         \/ /\ stats'["failed"] = stats["failed"] + 1
               \/ stats'["failed"] = stats["failed"] + 1 - CounterModulus
            /\ stats'["successful"] = stats["successful"]
  BY Incremented DEF Count, CounterOf, Counter
<1>5. /\ CounterModulus \in Int /\ k * CounterModulus \in Int
      /\ (k - 1) * CounterModulus = k * CounterModulus - CounterModulus
  BY Multiples, WrapperAssumption DEF WrapperAssumption
<1> DEFINE sum == stats["successful"] + stats["failed"] + Cardinality(InCall)
<1>6. sum' = sum \/ sum' = sum - CounterModulus
  BY <1>2, <1>4, <1>5, CountersAreInts, InCallCardinality
<1>7. CASE sum' = sum
  BY <1>3, <1>4, <1>7 DEF Balanced
<1>8. CASE sum' = sum - CounterModulus
  <2>1. sum' = stats'["total"] + (k - 1) * CounterModulus
    BY <1>3, <1>4, <1>5, <1>8, CountersAreInts
  <2>2. QED
    BY <2>1 DEF Balanced
<1>9. QED
  BY <1>6, <1>7, <1>8

(* No other step begins or ends a call, or counts one.                     *)
LEMMA NextBalanced ==
    ASSUME WInv, Balanced, [Next]_vars
    PROVE  Balanced'
<1>0. CallTypes
  BY DEF WInv
<1>1. ASSUME InCall' = InCall,
             \A k \in {"total", "successful", "failed"} : stats'[k] = stats[k]
      PROVE  Balanced'
  BY <1>1 DEF Balanced
<1>2. ASSUME NEW c \in Callers, Step(c), ~Count(c) PROVE Balanced'
  <2>1. InCall' = InCall
    BY <1>0, <1>2
    DEF Step, CheckOpen, Admitted, Refused, Attempt, Command, CommandSucceeds,
        CommandFails, CommandFailsTransiently, BackoffEnds, BackoffCancelled, Record,
        Goto, InCall, CallTypes
  <2>2. \A k \in {"total", "successful", "failed"} : stats'[k] = stats[k]
    <3>1. CASE Attempt(c)
      BY <1>0, <3>1, Incremented DEF Attempt, Counter
    <3>2. CASE UNCHANGED stats
      BY <3>2
    <3>3. QED
      BY <1>2, <3>1, <3>2
      DEF Step, CheckOpen, Admitted, Refused, Command, CommandSucceeds, CommandFails,
          CommandFailsTransiently, BackoffEnds, BackoffCancelled, Record
  <2>3. QED
    BY <1>1, <2>1, <2>2
<1>3. CASE ResetCircuitBreaker \/ Tick \/ UNCHANGED vars
  BY <1>1, <1>3 DEF ResetCircuitBreaker, Tick, callVars, vars, InCall
<1>4. QED
  BY <1>0, <1>2, <1>3, CallBalanced, CountBalanced DEF Next

(* Counters that stay in their width cannot have wrapped around more often *)
(* than there are calls to make up for it.                                 *)
LEMMA BalancedIsBounded == CallTypes /\ Balanced => StatsConserved
<1> SUFFICES ASSUME CallTypes, NEW k \in Int,
                    stats["successful"] + stats["failed"] + Cardinality(InCall)
                        = stats["total"] + k * CounterModulus
             PROVE  StatsConserved
  BY DEF Balanced
<1> DEFINE n == Cardinality(InCall)
<1>1. n \in Nat /\ CounterModulus \in Nat \ {0}
  BY InCallCardinality, WrapperAssumption DEF WrapperAssumption
<1>2. /\ k * CounterModulus > -CounterModulus
      /\ k * CounterModulus <= 2 * CounterModulus - 2 + n
  BY <1>1, CountersAreInts
<1>3. k >= 0
  BY <1>1, <1>2
<1>4. n <= n * CounterModulus
  BY <1>1
<1>5. k < n + 2
  BY <1>1, <1>2, <1>3, <1>4
<1>6. k \in 0 .. n + 1
  BY <1>1, <1>3, <1>5
<1>7. QED
  BY <1>6 DEF StatsConserved

(* The statistics balance at every instant, for any number of callers and  *)
(* any width of the counters.                                              *)
THEOREM StatisticsBalance == Spec => []StatsConserved
<1>1. Init => Balanced
  <2> SUFFICES ASSUME Init PROVE Balanced
    OBVIOUS
  <2>1. InCall = {}
    BY DEF Init, InCall
  <2>2. 0 + 0 + Cardinality(InCall) = 0 + 0 * CounterModulus
    BY <2>1, FS_EmptySet, WrapperAssumption DEF WrapperAssumption
  <2>3. stats["successful"] = 0 /\ stats["failed"] = 0 /\ stats["total"] = 0
    BY DEF Init, Counter
  <2>4. QED
    BY <2>2, <2>3 DEF Balanced
<1>2. WInv /\ Balanced /\ [Next]_vars => Balanced'
  BY NextBalanced
<1>3. WInv /\ Balanced => StatsConserved
  BY BalancedIsBounded DEF WInv
<1>4. QED
  BY <1>1, <1>2, <1>3, Invariant, PTL DEF Spec

-----------------------------------------------------------------------------
(* Retry: what holds of Do and DoWithValue for Durations of any width, any *)
(* configurations and any errors.                                          *)

\* What a wait was computed from.
WaitExplained ==
    at = "waiting" =>
        \E delay \in Delays(attempt) : \E jitter \in Jitters(delay) :
            wait = Wrap(delay + jitter)

\* Where the loop is, and what it has called by then.
AttemptsInv ==
    /\ config \in Configs
    /\ attempt \in Nat /\ calls \in Nat
    /\ lastErr \subseteq Errors
    /\ at \in {"loop", "waiting", "calling", "returned"}
    /\ at # "returned" => outcome = "none" /\ calls = attempt
    /\ at = "waiting" => attempt > 0
    /\ at \in {"waiting", "calling"} => attempt < config.maxAttempts
    /\ attempt > 0 => attempt < config.maxAttempts

\* The error is none that the configuration tries again.
NotToRetry(e) ==
    \/ config.shouldRetry = "listed" /\ ~e.listed
    \/ config.shouldRetry = "transient" /\ \A o \in e.occurs : o.first /\ ~o.exact

RetryInv == AttemptsInv /\ DoExplained /\ WaitExplained

-----------------------------------------------------------------------------
(* The arithmetic of a wait. *)

(* A number that is a Duration is not changed by wrapping around. *)
LEMMA WrapKeeps == ASSUME NEW x \in Duration PROVE Wrap(x) = x
<1> USE RetryAssumption DEF RetryAssumption
<1>1. x \in Int /\ 0 <= x + Half /\ x + Half < 2 * Half
  BY DEF Duration, MinInt, MaxInt
<1>2. (x + Half) % (2 * Half) = x + Half
  BY <1>1
<1>3. QED
  BY <1>1, <1>2 DEF Wrap, MinInt

(* A tenth of a number is between 0 and the number itself. *)
LEMMA TenthType ==
    ASSUME NEW x \in Int
    PROVE  /\ Truncated(x, 10) \in Int
           /\ x >= 0 => Truncated(x, 10) \in 0 .. x
           /\ x < 0 => Truncated(x, 10) \in x .. 0
BY DEF Truncated

(* What a delay becomes with its jitter lies between it and its last       *)
(* jittered value, if that one is a Duration.                              *)
LEMMA JitterBetween ==
    ASSUME NEW d \in Duration, NEW j \in Jitters(d), d + Truncated(d, 10) \in Duration
    PROVE  Wrap(d + j) \in Between(d, d + Truncated(d, 10))
<1>1. d \in Int
  BY DEF Duration
<1>2. /\ j \in Int
      /\ d >= 0 => 0 <= j /\ j <= Truncated(d, 10)
      /\ d < 0 => Truncated(d, 10) <= j /\ j <= 0
  BY <1>1, TenthType DEF Jitters
<1>3. d + j \in Between(d, d + Truncated(d, 10))
  BY <1>1, <1>2, TenthType DEF Between
<1>4. d + j \in Duration
  BY <1>1, <1>2, TenthType, RetryAssumption DEF Duration, MinInt, MaxInt, RetryAssumption
<1>5. QED
  BY <1>3, <1>4, WrapKeeps

-----------------------------------------------------------------------------
(* Errors that are not tried again are the ones without a pattern in a     *)
(* place and case that contains sees.                                      *)
LEMMA NotRetried ==
    ASSUME config \in Configs, NEW e \in Errors, ~ShouldRetry(e)
    PROVE  NotToRetry(e)
<1>1. config.shouldRetry \in {"any", "listed", "transient"}
  BY RetryAssumption DEF RetryAssumption, Config
<1>2. e.occurs \subseteq Occurrence /\ e.listed \in BOOLEAN
  BY RetryAssumption DEF RetryAssumption, FnError
<1>3. ASSUME NEW o \in e.occurs PROVE Contains(o) \/ (o.first /\ ~o.exact)
  BY <1>2 DEF Contains, Occurrence
<1>4. QED
  BY <1>1, <1>3 DEF ShouldRetry, NotToRetry, IsTransientError

(* A new Retry. *)
LEMMA InitRetry == RetryInit => RetryInv
BY DEF RetryInit, RetryInv, AttemptsInv, DoExplained, WaitExplained

(* Every step of Do preserves the invariant. *)
LEMMA NextRetry == RetryInv /\ [RetryNext]_retryVars => RetryInv'
<1> SUFFICES ASSUME RetryInv, [RetryNext]_retryVars PROVE RetryInv'
  OBVIOUS
<1> USE DEF RetryInv
<1>0. config.maxAttempts \in Int
  BY RetryAssumption DEF RetryAssumption, Config, AttemptsInv
<1>1. CASE Exhausted
  BY <1>0, <1>1 DEF Exhausted, Return, AttemptsInv, DoExplained, WaitExplained
<1>2. CASE FirstAttempt \/ WaitEnds
  BY <1>0, <1>2 DEF FirstAttempt, WaitEnds, AttemptsInv, DoExplained, WaitExplained
<1>3. CASE BackOff
  <2>1. UNCHANGED <<config, attempt>> /\ at' = "waiting"
    BY <1>3 DEF BackOff
  <2>2. WaitExplained'
    BY <1>3, <2>1 DEF BackOff, WaitExplained, Delays, Converted, Product, Jitters
  <2>3. AttemptsInv' /\ DoExplained'
    BY <1>0, <1>3 DEF BackOff, AttemptsInv, DoExplained
  <2>4. QED
    BY <2>2, <2>3
<1>4. CASE WaitCancelled
  BY <1>0, <1>4 DEF WaitCancelled, Return, AttemptsInv, DoExplained, WaitExplained
<1>5. CASE Succeeds
  BY <1>0, <1>5 DEF Succeeds, Return, AttemptsInv, DoExplained, WaitExplained
<1>6. ASSUME NEW e \in Errors, Fails(e) PROVE RetryInv'
  <2>1. /\ at = "calling" /\ at' # "waiting" /\ calls' = calls + 1
        /\ result' = calls' /\ lastErr' = {e}
        /\ UNCHANGED <<config, cancelled>>
    BY <1>6 DEF Fails, Return
  <2>2. CASE ShouldRetry(e) /\ ~LastAttempt
    BY <1>0, <1>6, <2>1, <2>2 DEF Fails, LastAttempt, AttemptsInv, DoExplained, WaitExplained
  <2>3. CASE ~ShouldRetry(e) \/ LastAttempt
    <3>1. /\ at' = "returned" /\ outcome' = "exceeded" /\ attempt' = attempt
      BY <1>6, <2>3 DEF Fails, Return
    <3>2. AttemptsInv' /\ WaitExplained'
      BY <2>1, <3>1 DEF AttemptsInv, WaitExplained
    <3>3. calls' <= config.maxAttempts /\ (LastAttempt => calls' = config.maxAttempts)
      BY <1>0, <2>1 DEF LastAttempt, AttemptsInv
    <3>4. ~ShouldRetry(e) => NotToRetry(e)
      BY NotRetried DEF AttemptsInv
    <3>5. DoExplained'
      BY <2>1, <2>3, <3>1, <3>3, <3>4 DEF DoExplained, NotToRetry
    <3>6. QED
      BY <3>2, <3>5
  <2>4. QED
    BY <2>2, <2>3
<1>7. CASE Cancel \/ UNCHANGED retryVars
  BY <1>7 DEF Cancel, retryVars, AttemptsInv, DoExplained, WaitExplained, Delays, Converted,
              Product, Jitters
<1>8. QED
  BY <1>1, <1>2, <1>3, <1>4, <1>5, <1>6, <1>7 DEF RetryNext

(* The inductive invariant holds of every reachable state. *)
THEOREM RetryInductive == RetrySpec => []RetryInv
BY InitRetry, NextRetry, PTL DEF RetrySpec

(* What Do and DoWithValue return is explained by what was called. *)
THEOREM ReturnsAreExplained == RetrySpec => []DoExplained
<1>1. RetryInv => DoExplained
  BY DEF RetryInv
<1>2. QED
  BY <1>1, RetryInductive, PTL

(* Waits are bounded. *)
THEOREM WaitsAreBounded == RetrySpec => []WaitBounded
<1>1. ASSUME RetryInv PROVE WaitBounded
  <2> DEFINE base == Least(Product(attempt), config.maxDelay)
             last == base + Truncated(base, 10)
  <2> SUFFICES ASSUME at = "waiting", Product(attempt) \in Duration, last \in Duration
               PROVE  wait \in Between(base, last)
    BY DEF WaitBounded
  <2>1. PICK delay \in Delays(attempt) :
            \E jitter \in Jitters(delay) : wait = Wrap(delay + jitter)
    BY <1>1 DEF RetryInv, WaitExplained
  <2>2. delay = base
    BY DEF Delays, Converted
  <2>3. config.maxDelay \in Duration
    BY <1>1, RetryAssumption DEF RetryAssumption, Config, RetryInv, AttemptsInv
  <2>4. base \in Duration
    BY <2>3 DEF Least
  <2>5. QED
    BY <2>1, <2>2, <2>4, JitterBetween
<1>2. QED
  BY <1>1, RetryInductive, PTL
=============================================================================
