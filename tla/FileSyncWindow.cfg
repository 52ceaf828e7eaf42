SPECIFICATION Spec
CONSTANTS
    SourceSizes = {6}
    DestSizes = {6}
    BlockSize = 1
    WINDOW = 1
    SIGNATURE_BATCH = 3
    MaxWrites = 0
    LinkMayBreak = FALSE
INVARIANTS WithinWindow
CHECK_DEADLOCK FALSE
