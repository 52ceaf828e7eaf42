SPECIFICATION Spec
CONSTANTS
    Paths <- MCPaths
    Root = "."
    Parent <- MCParent
    Cases <- AllCases
    Concurrency = 2
    MaxRuns = 2
    MaxFaults = 1
    MaxCancels = 1
INVARIANT AlwaysSettled
CHECK_DEADLOCK FALSE
