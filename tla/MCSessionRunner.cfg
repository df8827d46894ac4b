SPECIFICATION Spec
CONSTANTS
    d1 = d1  d2 = d2  a1 = a1  a2 = a2  r1 = r1  r2 = r2
    Drives <- MCDrives2
    Approves <- MCApproves2
    Runners <- MCRunners
    Plans <- MCPlans
    PolicyRules <- MCRules
    SessionTier = "steer"
    BodyTiers = {"drive"}
    Free = Free
    Attempts = 2
CHECK_DEADLOCK FALSE
ACTION_CONSTRAINT ThreeRequests
INVARIANTS TypeOK ToolCallsArePermitted DispatchesAreLogged OutcomeCoversPlan LeaseIsAccountedFor
PROPERTY RequestsEnd
