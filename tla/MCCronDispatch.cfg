SPECIFICATION Spec
CONSTANTS
    j1 = j1  j2 = j2  d1 = d1  d2 = d2
    Jobs <- MCJobs
    Dispatchers <- MCDispatchers
    Null = Null
    MaxTime = 2
    Setups <- MCSetups
CHECK_DEADLOCK FALSE
INVARIANTS TypeOK FiresOncePerRun AttemptsAreBounded
PROPERTIES RetiredStaysRetired OneShotsEnd
