SPECIFICATION FairSpec
CONSTANTS
    Callers = {"c1", "c2"}
    Impatient = {"c1", "c2"}
    LinkMayBreak = TRUE
    World <- SharedWorld
    Programs <- AllPrograms
    Tools <- AllTools
    Modules <- AllModules
    Above <- Packages
INVARIANTS CallsSafe OwnAnswer
PROPERTIES CallEnds
CHECK_DEADLOCK FALSE
