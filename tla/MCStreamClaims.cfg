\* Claims of the code that do not hold of streams; section 4 of README.md.  Leave one of
\* the three properties, or take
\*     ItemSizes = {1}, EnvelopeSize = 2, INVARIANT PermissionIsOwed
SPECIFICATION FairSpec
CONSTANTS
    ItemSizes = {1, 5, 7}
    EnvelopeSize = 0
    MAX_STREAM_WINDOW = 6
    MAX_STREAM_BACKLOG = 3
    MAX_STREAM_ITEM = 7
    ITEM_HEADER = 1
    MaxItems = 3
    LinkMayBreak = FALSE
INVARIANT RoomCanAppear
INVARIANT NeverAccused
PROPERTY LeavingStops
CHECK_DEADLOCK FALSE
