SPECIFICATION FairSpec
CONSTANTS
    SourceSizes = {5}
    DestSizes = {5, 6}
    BlockSize = 2
    WINDOW = 2
    SIGNATURE_BATCH = 3
    MaxWrites = 1
    LinkMayBreak = TRUE
INVARIANTS SyncSafe NeverRefused
PROPERTIES TransferEnds
CHECK_DEADLOCK FALSE
