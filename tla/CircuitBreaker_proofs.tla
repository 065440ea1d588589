------------------------ MODULE CircuitBreaker_proofs ------------------------
(***************************************************************************)
(* What holds of the circuit breaker for any number of callers, any        *)
(* threshold and any timeout. IInv, the conjunction of the invariants the  *)
(* runs check, is inductive as it stands: HalfOpenQuiet needs the types,   *)
(* CallbackBalance needs nothing but them.                                 *)
(***************************************************************************)
EXTENDS CircuitBreaker, TLAPS

IInv ==
    /\ TypeOK
    /\ ClosedBelowThreshold
    /\ HalfOpenQuiet
    /\ CallbackBalance

(* NewCircuitBreaker makes a well-typed breaker. *)
LEMMA InitTypeOK == Init => TypeOK
BY BreakerAssumption DEF Init, TypeOK, State, Outcome, BreakerAssumption

(* A state change keeps the state and the pending callbacks in their types. *)
LEMMA SetStateType ==
    ASSUME TypeOK, NEW new \in State, SetState(new)
    PROVE  state' \in State /\ pending' \in [State -> [State -> 0 .. MaxPending]]
BY BreakerAssumption
DEF TypeOK, SetState, Notify, BreakerAssumption

(* Every step keeps the types. *)
LEMMA NextTypeOK == TypeOK /\ [Next]_breakerVars => TypeOK'
<1> SUFFICES ASSUME TypeOK, [Next]_breakerVars PROVE TypeOK'
  OBVIOUS
<1> USE BreakerAssumption DEF BreakerAssumption
<1>1. ASSUME NEW c \in Callers, Start(c) PROVE TypeOK'
  BY <1>1 DEF TypeOK, Start, Admit, Refuse, Outcome
<1>2. ASSUME NEW c \in Callers, NEW success \in BOOLEAN, RecordResult(c, success)
      PROVE  TypeOK'
  <2>1. call' \in [Callers -> Outcome] /\ seen' \in [State -> Int]
    BY <1>2 DEF TypeOK, RecordResult, Outcome
  <2>2. CASE success
    <3>1. AfterSuccess \in State
      BY DEF TypeOK, AfterSuccess, State
    <3>2. QED
      BY <1>2, <2>1, <2>2, <3>1, SetStateType
      DEF TypeOK, RecordResult, OnSuccess
  <2>3. CASE ~success
    <3>1. (IF state = "CLOSED" /\ ~Tripped THEN "CLOSED" ELSE "OPEN") \in State
      BY DEF State
    <3>2. QED
      BY <1>2, <2>1, <2>3, <3>1, SetStateType
      DEF TypeOK, RecordResult, OnFailure
  <2>4. QED
    BY <2>2, <2>3
<1>3. CASE Reset
  <2>1. "CLOSED" \in State
    BY DEF State
  <2>2. QED
    BY <1>3, <2>1, SetStateType DEF TypeOK, Reset
<1>4. CASE Tick
  BY <1>4 DEF TypeOK, Tick
<1>5. ASSUME NEW from \in State, NEW to \in State, RunCallback(from, to)
      PROVE  TypeOK'
  BY <1>5 DEF TypeOK, RunCallback, Launched
<1>6. CASE UNCHANGED breakerVars
  BY <1>6 DEF TypeOK, breakerVars
<1>7. QED
  BY <1>1, <1>2, <1>3, <1>4, <1>5, <1>6 DEF Next, Return

(* Type correctness, for every value of the constants. *)
THEOREM TypeCorrect == Spec => []TypeOK
<1>1. QED
  BY InitTypeOK, NextTypeOK, PTL DEF Spec

-----------------------------------------------------------------------------
(* A state change moves one unit of what the listener is owed from the old *)
(* state to the new one, together with the breaker.                        *)
LEMMA SetStateBalance ==
    ASSUME TypeOK, CallbackBalance, NEW new \in State, SetState(new), seen' = seen
    PROVE  CallbackBalance'
<1> SUFFICES ASSUME Listening, NEW s \in State
             PROVE  seen'[s] + Arrivals(s)' - Departures(s)'
                    = Here(s)' - (IF s = "CLOSED" THEN 1 ELSE 0)
  BY BreakerAssumption DEF CallbackBalance, BreakerAssumption
<1>1. seen[s] + Arrivals(s) - Departures(s) = Here(s) - (IF s = "CLOSED" THEN 1 ELSE 0)
  BY DEF CallbackBalance
<1>2. CASE new = state
  BY <1>1, <1>2 DEF SetState, Arrivals, Departures, Here
<1>3. CASE new # state
  <2>1. pending' = [pending EXCEPT ![state][new] = @ + 1] /\ state' = new
    BY <1>3 DEF SetState, Notify
  <2>2. \A f, t \in State : pending[f][t] \in Int
    BY BreakerAssumption DEF TypeOK, BreakerAssumption
  <2>3. QED
    BY <1>1, <1>3, <2>1, <2>2 DEF TypeOK, State, Arrivals, Departures, Here
<1>4. QED
  BY <1>2, <1>3

(* A callback that runs moves one unit from what is owed to what was seen. *)
LEMMA RunCallbackBalance ==
    ASSUME TypeOK, CallbackBalance, NEW from \in State, NEW to \in State,
           RunCallback(from, to)
    PROVE  CallbackBalance'
<1> SUFFICES ASSUME Listening, NEW s \in State
             PROVE  seen'[s] + Arrivals(s)' - Departures(s)'
                    = Here(s)' - (IF s = "CLOSED" THEN 1 ELSE 0)
  BY BreakerAssumption DEF CallbackBalance, BreakerAssumption
<1>1. seen[s] + Arrivals(s) - Departures(s) = Here(s) - (IF s = "CLOSED" THEN 1 ELSE 0)
  BY DEF CallbackBalance
<1>2. \A f, t \in State : pending[f][t] \in Int
  BY BreakerAssumption DEF TypeOK, BreakerAssumption
<1>3. QED
  BY <1>1, <1>2 DEF RunCallback, TypeOK, State, Arrivals, Departures, Here

(* A new breaker satisfies the invariant. *)
LEMMA InitIInv == Init => IInv
<1> SUFFICES ASSUME Init PROVE IInv
  OBVIOUS
<1>1. TypeOK
  BY InitTypeOK
<1>2. ClosedBelowThreshold /\ HalfOpenQuiet
  BY BreakerAssumption DEF Init, ClosedBelowThreshold, HalfOpenQuiet, BreakerAssumption
<1>3. CallbackBalance
  BY DEF Init, CallbackBalance, State, Arrivals, Departures, Here
<1>4. QED
  BY <1>1, <1>2, <1>3 DEF IInv

(* Every step of a caller, of the clock, of a callback and of Reset keeps   *)
(* the invariant.                                                          *)
LEMMA NextIInv == IInv /\ [Next]_breakerVars => IInv'
<1> SUFFICES ASSUME IInv, [Next]_breakerVars PROVE IInv'
  OBVIOUS
<1> USE BreakerAssumption DEF BreakerAssumption
<1>0. TypeOK /\ ClosedBelowThreshold /\ HalfOpenQuiet /\ CallbackBalance
  BY DEF IInv
<1>1. TypeOK'
  BY <1>0, NextTypeOK
<1>2. CASE UNCHANGED <<state, failures, elapsed, pending, seen>>
  BY <1>0, <1>1, <1>2
  DEF IInv, ClosedBelowThreshold, HalfOpenQuiet, CooledDown,
      CallbackBalance, Arrivals, Departures, Here
<1>3. ASSUME NEW c \in Callers, NEW success \in BOOLEAN, RecordResult(c, success)
      PROVE  IInv'
  <2>1. CASE success
    <3>1. AfterSuccess \in State
      BY <1>0 DEF TypeOK, AfterSuccess, State
    <3>2. failures' = 0 /\ elapsed' = elapsed /\ state' = AfterSuccess
      BY <1>3, <2>1 DEF RecordResult, OnSuccess, SetState
    <3>3. ClosedBelowThreshold' /\ HalfOpenQuiet'
      BY <1>0, <3>2
      DEF TypeOK, State, AfterSuccess, CooledDown, ClosedBelowThreshold, HalfOpenQuiet
    <3>4. CallbackBalance'
      BY <1>0, <1>3, <2>1, <3>1, SetStateBalance DEF RecordResult, OnSuccess
    <3>5. QED
      BY <1>1, <3>3, <3>4 DEF IInv
  <2>2. CASE ~success
    <3> DEFINE new == IF state = "CLOSED" /\ ~Tripped THEN "CLOSED" ELSE "OPEN"
    <3>1. new \in State
      BY DEF State
    <3>2. SetState(new) /\ seen' = seen
      BY <1>3, <2>2 DEF RecordResult, OnFailure
    <3>3. ClosedBelowThreshold' /\ HalfOpenQuiet'
      BY <1>0, <1>3, <2>2
      DEF RecordResult, OnFailure, SetState, Tripped, TypeOK,
          ClosedBelowThreshold, HalfOpenQuiet
    <3>4. CallbackBalance'
      <4> HIDE DEF new
      <4>1. QED
        BY <1>0, <3>1, <3>2, SetStateBalance
    <3>5. QED
      BY <1>1, <3>3, <3>4 DEF IInv
  <2>3. QED
    BY <2>1, <2>2
<1>4. CASE Reset
  <2>1. "CLOSED" \in State
    BY DEF State
  <2>2. CallbackBalance'
    BY <1>0, <1>4, <2>1, SetStateBalance DEF Reset
  <2>3. ClosedBelowThreshold' /\ HalfOpenQuiet'
    BY <1>4 DEF Reset, SetState, ClosedBelowThreshold, HalfOpenQuiet
  <2>4. QED
    BY <1>1, <2>2, <2>3 DEF IInv
<1>5. CASE Tick
  <2>1. CallbackBalance'
    BY <1>0, <1>5 DEF Tick, CallbackBalance, Arrivals, Departures, Here
  <2>2. ClosedBelowThreshold' /\ HalfOpenQuiet'
    BY <1>0, <1>5 DEF Tick, TypeOK, ClosedBelowThreshold, HalfOpenQuiet, CooledDown
  <2>3. QED
    BY <1>1, <2>1, <2>2 DEF IInv
<1>6. ASSUME NEW from \in State, NEW to \in State, RunCallback(from, to)
      PROVE  IInv'
  <2>1. CallbackBalance'
    BY <1>0, <1>6, RunCallbackBalance
  <2>2. ClosedBelowThreshold' /\ HalfOpenQuiet'
    BY <1>0, <1>6 DEF RunCallback, ClosedBelowThreshold, HalfOpenQuiet, CooledDown
  <2>3. QED
    BY <1>1, <2>1, <2>2 DEF IInv
<1>7. CASE \E c \in Callers : Start(c)
  BY <1>2, <1>7 DEF Start, Admit, Refuse
<1>8. CASE UNCHANGED breakerVars
  BY <1>2, <1>8 DEF breakerVars
<1>9. QED
  BY <1>3, <1>4, <1>5, <1>6, <1>7, <1>8 DEF Next, Return

(* The conjunction of the four invariants holds of every reachable state. *)
THEOREM Inductive == Spec => []IInv
<1>1. QED
  BY InitIInv, NextIInv, PTL DEF Spec

(* A closed breaker is below its threshold, always. *)
THEOREM ClosedBelow == Spec => []ClosedBelowThreshold
<1>1. IInv => ClosedBelowThreshold
  BY DEF IInv
<1>2. QED
  BY <1>1, Inductive, PTL

(* No breaker half-opens, or stays half-open, on a fresh failure. *)
THEOREM HalfOpenIsQuiet == Spec => []HalfOpenQuiet
<1>1. IInv => HalfOpenQuiet
  BY DEF IInv
<1>2. QED
  BY <1>1, Inductive, PTL

(* Callbacks are neither lost nor doubled, in whatever order they run. *)
THEOREM CallbacksBalance == Spec => []CallbackBalance
<1>1. IInv => CallbackBalance
  BY DEF IInv
<1>2. QED
  BY <1>1, Inductive, PTL
=============================================================================
