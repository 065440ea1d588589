SPECIFICATION FairSpec
CONSTANTS
    c1 = c1
    c2 = c2
    Callers <- MCCallers
    MaxFailures <- MCMaxFailures
    ResetTimeout <- MCResetTimeout
    FailureCap <- MCFailureCap
    MaxPending <- MCMaxPending
    Listening = TRUE
INVARIANTS TypeOK ClosedBelowThreshold HalfOpenQuiet CallbackBalance
PROPERTY Recovers
