SPECIFICATION Spec
CONSTANTS
    w1 = w1  w2 = w2  u1 = u1  u2 = u2
    MaxIds = 1
    Workers <- MCWorkers
    Deciders <- OneDecider
    Cancellers <- OneCanceller
    None = None
    Modes = {TRUE}
    MaxFaults = 0
CHECK_DEADLOCK FALSE
INVARIANTS MismatchMeansModified
