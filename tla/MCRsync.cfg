SPECIFICATION FairSpec
CONSTANTS
    Paths <- MCPaths
    Root = "."
    Parent <- MCParent
    Cases <- AllCases
    Concurrency = 2
    MaxRuns = 2
    MaxFaults = 1
    MaxCancels = 1
INVARIANTS RsyncSafe Converges
PROPERTIES TransferEnds RemovesAlone
CHECK_DEADLOCK FALSE
