SPECIFICATION RetrySpec
CONSTANTS
    Half = 128
    Configs <- MCConfigs
    Errors <- MCErrors
INVARIANTS WaitBounded DoExplained
CHECK_DEADLOCK FALSE
