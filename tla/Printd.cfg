SPECIFICATION FairSpec
CONSTANTS
    c1 = c1
    c2 = c2
    NONE = NONE
    Clients = {c1, c2}
    Size <- Sizes
    Stalls = {c2}
    OpenMax = 1
    MaxId = 3
    MaxFails = 1
    MaxStops = 2
INVARIANTS JobsDistinct AckedIsSpooled PendingQueued NoOrphans RereadHonoured
PROPERTIES IsFifo AckedIsPrinted
CHECK_DEADLOCK FALSE
