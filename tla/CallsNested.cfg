SPECIFICATION Spec
CONSTANTS
    Callers = {"c1", "c2"}
    Impatient = {"c1", "c2"}
    LinkMayBreak = TRUE
    World <- NestedWorld
    Programs <- AllPrograms
    Tools <- AllTools
    Modules <- AllModules
    Above <- Packages
INVARIANTS Resolves
CHECK_DEADLOCK FALSE
