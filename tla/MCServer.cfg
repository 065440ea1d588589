SPECIFICATION FairSpec
CONSTANTS
    r1 = r1
    r2 = r2
    http = http
    collector = collector
    tcp = tcp
    m = m
    none = none
    Requests <- MCRequests
    Ids <- MCIds
    HTTP = http
    Collector = collector
    Listener = tcp
    Main = m
    None = none
INVARIANTS TypeOK DrainedBeforeCleanup CleanExit
PROPERTY SignalEndsProcess
CHECK_DEADLOCK FALSE
