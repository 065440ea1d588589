SPECIFICATION FairSpec
CONSTANTS
    Goroutines = {g1, g2}
    None = none
    Setter = setter
    StackLen = 64
    MaxDepth = 2
    MaxCounted = 2
    MaxHandlers = 2
INVARIANT EveryRecoverCounted
PROPERTIES NothingAbsorbed PanicEndsProcess
CHECK_DEADLOCK FALSE
