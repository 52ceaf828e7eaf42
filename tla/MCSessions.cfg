SPECIFICATION FairSpec
CONSTANTS
    Keys = {a,b}
    Ttys = {a, b}
    Typists = {a}
    Nobody = Nobody
    MaxOut = 1
    Terminal <- OwnTerminal
INVARIANTS SessionsSafe OutputBeforeExit
PROPERTY SessionsEnd
CHECK_DEADLOCK FALSE
