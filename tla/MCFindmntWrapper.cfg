SPECIFICATION FairSpec
CONSTANTS
    c1 = c1
    c2 = c2
    Callers <- MCCallers
    Cancellable <- MCCancellable
    MaxFailures <- MCMaxFailures
    FailureCap <- MCFailureCap
    MaxAttempts <- MCMaxAttempts
    CounterModulus <- MCCounterModulus
    ResetTimeout = 1
INVARIANTS TypeOK StatsConserved OutcomeExplained LateFailuresBounded
PROPERTIES CallsReturn GateSpec
