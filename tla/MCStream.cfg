SPECIFICATION FairSpec
CONSTANTS
    ItemSizes = {1, 8, 9, 10}
    EnvelopeSize = 0
    MAX_STREAM_WINDOW = 8
    MAX_STREAM_BACKLOG = 3
    MAX_STREAM_ITEM = 9
    ITEM_HEADER = 1
    MaxItems = 4
    LinkMayBreak = TRUE
INVARIANTS TypeOK InOrder StreamBudget
PROPERTIES KeepsPromise ItemsArrive EveryoneEnds
CHECK_DEADLOCK FALSE
