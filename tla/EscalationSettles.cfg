SPECIFICATION Spec
CONSTANTS
    c1 = c1  c2 = c2
    Absent = Absent
    Calls <- MCCalls
    Setups <- GateSetups
CHECK_DEADLOCK FALSE
PROPERTIES PromiseSettles
