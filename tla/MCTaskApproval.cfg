SPECIFICATION Spec
CONSTANTS
    w1 = w1  w2 = w2  u1 = u1  u2 = u2
    MaxIds = 2
    Workers <- MCWorkers
    Deciders <- OneDecider
    Cancellers <- OneCanceller
    None = None
    Modes = {TRUE, FALSE}
    MaxFaults = 1
CHECK_DEADLOCK FALSE
INVARIANTS TypeOK ApprovedBeforeExecution
PROPERTIES CancelIsNoFailure WaitsEnd
