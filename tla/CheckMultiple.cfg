SPECIFICATION FairSpec
CONSTANT N = 3
INVARIANTS TypeOK OwnResult
PROPERTIES ReceivedIsKept NobodyBlocks
CHECK_DEADLOCK FALSE
