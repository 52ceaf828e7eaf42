\* Claims of the host tools that do not hold; section 4 of README.md.  Subjects is
\*     Renamed, Setuid, NoDirectory or Held for AlwaysConverges,
\*     Upgrade for FailuresRaise, Replace for Idempotent.
SPECIFICATION Spec
CONSTANTS
    Callers = {c1}
    Subjects <- Renamed
    Params = {"k1", "k2"}
    MaxCalls = 2
    MaxFaults = 1
INVARIANTS FailuresRaise AlwaysConverges Idempotent
CHECK_DEADLOCK FALSE
