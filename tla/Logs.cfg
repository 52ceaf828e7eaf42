SPECIFICATION LogsFairSpec
CONSTANTS
    MaxRecords = 3
    MaxCalls = 1
    ATTACH_RECORDS = 1
    Heavy = {3}
    LinkMayBreak = TRUE
    Limit = 2
    MaxBatch = 2
INVARIANTS LogsSafe
PROPERTIES AllDelivered StopReturns
CHECK_DEADLOCK FALSE
