SPECIFICATION RetrySpec
CONSTANTS
    Half = 128
    Configs <- MCConfigs
    Errors <- MCErrors
INVARIANT TimedOutIsRetried
CHECK_DEADLOCK FALSE
