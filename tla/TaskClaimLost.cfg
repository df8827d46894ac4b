SPECIFICATION Spec
CONSTANTS
    t1 = t1  t2 = t2  w1 = w1  w2 = w2
    Tasks <- OneTask
    NoRepo = NoRepo
    Setups <- OneSlot
    MaxAttempts = 1
    Loop = loop
    Routes = {}
    Workers <- OneWorker
    Nobody = Nobody
    MaxOvertaken = 1
    MaxFaults = 1
PROPERTY ClaimsAreRecovered
