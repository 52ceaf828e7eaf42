SPECIFICATION Spec
CONSTANTS
    Limit = 2
    MaxBatch = 2
    MaxRecords = 2
INVARIANT StopDelivers
CHECK_DEADLOCK FALSE
