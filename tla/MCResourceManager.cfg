SPECIFICATION FairSpec
CONSTANTS
    p1 = p1
    p2 = p2
    a = a
    b = b
    none = none
    Callers <- MCCallers
    Ids <- MCIds
    None <- MCNone
    MaxResources <- MCMaxResources
    NoCleanup <- MCNoCleanup
    MaxUnlocked <- MCMaxUnlocked
INVARIANTS TypeOK NothingForgotten RetiredOnce StatsHonest
PROPERTY OperationsReturn
