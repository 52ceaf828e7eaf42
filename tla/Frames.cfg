SPECIFICATION FairSpec
CONSTANTS
    FrameCount <- ThreeTwoOne
    MAX_REASSEMBLY_FRAMES = 4
    DECODE_THRESHOLD = 0
    DECODE_FRAMES = 2
    SendersMayCancel = TRUE
    MaxCancels = 2
    Packets = {"large", "medium", "small"}
    MAX_PARTIAL_PACKETS = 2
    MaxSenders = 2
INVARIANTS FramesSafe
PROPERTIES KeepsChannel AllArrive
CHECK_DEADLOCK FALSE
