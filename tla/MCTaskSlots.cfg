SPECIFICATION Spec
CONSTANTS
    t1 = t1  t2 = t2  w1 = w1  w2 = w2
    Tasks <- MCTasks
    NoRepo = NoRepo
    Setups <- Contended
    MaxAttempts = 1
    Loop = loop
    Routes = {"route"}
    Workers <- MCWorkers
    Nobody = Nobody
    MaxOvertaken = 1
    MaxFaults = 2
CONSTRAINT WithinInstance
ACTION_CONSTRAINT OneFaultIsACrash
SYMMETRY Symmetry
INVARIANTS TypeOK RunsWithinCap RepoIsExclusive OneRunPerTask StartsAreCounted
PROPERTIES ImplementsDispatch
