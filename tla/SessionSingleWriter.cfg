SPECIFICATION Spec
CONSTANTS
    r1 = r1  r2 = r2  c1 = c1  c2 = c2  p1 = p1  p2 = p2
    Runners <- MCRunners
    Calls <- MCCalls
    Polls <- NoPolls
    NoLease = NoLease
    Bodies = {"costly", "refund"}
    PageLimit = 2
    Ttls = {1, 2}
    MaxSeqRetries = 2
    Budget = 1
    MaxTime = 2
    MaxRows = 2
SYMMETRY Symmetry
PROPERTY SingleWriter
