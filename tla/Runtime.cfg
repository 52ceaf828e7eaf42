SPECIFICATION FairSpec
CONSTANTS
    Requests = {"r1", "r2"}
    FromMain = {"r1"}
INVARIANTS RuntimeSafe
PROPERTIES EveryoneReturns GivenUpEnds
CHECK_DEADLOCK FALSE
