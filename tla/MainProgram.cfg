SPECIFICATION MainSpec
CONSTANTS
    Fields = {"port", "path", "mount_points", "level", "format"}
    Goroutines = {main}
    Main = main
    None = none
    Setter = setter
    StackLen = 64
    MaxDepth = 3
    MaxCounted = 1
    MaxHandlers = 2
INVARIANTS ServedAsDocumented ExitExplained
CHECK_DEADLOCK FALSE
