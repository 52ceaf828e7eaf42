SPECIFICATION Spec
CONSTANTS
    Callers = {c1, c2}
    Subjects <- AllSubjects
    Params = {"k1", "k2"}
    MaxCalls = 3
    MaxFaults = 1
SYMMETRY Symmetric
INVARIANTS HostSafe Converges HonestReport
CHECK_DEADLOCK FALSE
