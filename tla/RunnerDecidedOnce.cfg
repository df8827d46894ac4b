SPECIFICATION Spec
CONSTANTS
    d1 = d1  d2 = d2  a1 = a1  a2 = a2  r1 = r1  r2 = r2
    Drives <- MCDrives
    Approves <- MCApproves2
    Runners <- MCRunners
    Plans <- OneGate
    PolicyRules <- MCRules
    SessionTier = "steer"
    BodyTiers = {}
    Free = Free
    Attempts = 2
CHECK_DEADLOCK FALSE
INVARIANT DecidedOnce
