SPECIFICATION Spec
CONSTANTS
    p1 = p1
    p2 = p2
    Procs = {p1, p2}
    Openers = {p2}
    Servers = {}
    BIGCOUNT = 3
    InitVal = 1
    MaxOpens <- Once
    MaxSets = 3
PROPERTY RemovedByLast
CHECK_DEADLOCK FALSE
