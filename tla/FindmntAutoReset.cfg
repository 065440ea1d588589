SPECIFICATION BusySpec
CONSTANTS
    c1 = c1
    c2 = c2
    Callers = {c1}
    Cancellable = {}
    MaxFailures = 1
    ResetTimeout = 1
    FailureCap = 1
    MaxAttempts = 1
    CounterModulus = 1
PROPERTY AutoReset
