SPECIFICATION Spec
CONSTANTS
    c1 = c1
    c2 = c2
    NONE = NONE
    Clients = {c1, c2}
    Size <- Sizes
    Stalls = {c2}
    OpenMax = 1
    MaxId = 3
    MaxFails = 1
    MaxStops = 2
INVARIANTS AlwaysSpooled
CHECK_DEADLOCK FALSE
