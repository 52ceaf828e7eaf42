SPECIFICATION Spec
CONSTANTS
    Paths <- MCPaths
    Root = "."
    Parent <- MCParent
    Cases <- Setuid
    Concurrency = 2
    MaxRuns = 2
    MaxFaults = 0
    MaxCancels = 1
INVARIANT Converges
CHECK_DEADLOCK FALSE
