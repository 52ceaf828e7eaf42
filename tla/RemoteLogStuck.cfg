SPECIFICATION FairSpec
CONSTANTS
    MaxRecords = 2
    MaxCalls = 1
    ATTACH_RECORDS = 2
    Heavy = {}
    LinkMayBreak = FALSE
PROPERTY RecordsTravel
CHECK_DEADLOCK FALSE
