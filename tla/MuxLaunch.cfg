SPECIFICATION FairSpec
CONSTANTS
    Conns = {a, b}
    Secure = {b}
    ErrRoom = 1
    MaxLines = 1
    Foreground = {}
    Free = Free
    MaxCrashes = 1
    Upsets = {}
INVARIANTS MuxSafe ToldWhy
PROPERTIES MuxEnds
CHECK_DEADLOCK FALSE
