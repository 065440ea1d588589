SPECIFICATION FairSpec
CONSTANTS
    a = a
    b = b
    torn = torn
    missing = missing
    l1 = l1
    l2 = l2
    f1 = f1
    Contents = {a, b, torn}
    Valid = {a, b}
    Missing = missing
    Loops = {l1, l2}
    Listeners = {f1}
    MaxLaunched = 1
    MaxTime = 3
INVARIANTS TypeOK OnlyAccepted OneLoopUntilStopped SeenIsApplied
PROPERTIES HotReload StopEndsLoops
