SPECIFICATION Spec
CONSTANTS
    Packets = {"a", "b", "c"}
    FrameCount <- TwoEach
    MAX_PARTIAL_PACKETS = 2
    MAX_REASSEMBLY_FRAMES = 4
    DECODE_THRESHOLD = 1
    DECODE_FRAMES = 2
    MaxSenders = 2
    SendersMayCancel = TRUE
    MaxCancels = 0
INVARIANT LimitsAreForFaults
CHECK_DEADLOCK FALSE
