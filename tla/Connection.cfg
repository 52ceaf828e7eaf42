SPECIFICATION FairSpec
CONSTANTS
    Callers = {c1, c2}
    Closers = {k1, k2}
    Maker = k1
    MaxInterrupts = 2
    c1 = c1
    c2 = c2
    k1 = k1
    k2 = k2
INVARIANTS ConnectionSafe
PROPERTIES LateCallRefused CloseEnds
CHECK_DEADLOCK FALSE
