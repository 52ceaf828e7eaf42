SPECIFICATION FairSpec
CONSTANTS
    Keys = {k1, k2}
    Procs = {"old", "new"}
    Version <- V
    Jobs = {j1, j2}
    MaxTime = 1
    MaxUpdates = 2
    MaxJobs = 2
    MaxCrashes = 1
INVARIANTS CacheSafe
PROPERTIES Contract JobEnds
CHECK_DEADLOCK FALSE
