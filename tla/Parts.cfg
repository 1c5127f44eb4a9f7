SPECIFICATION PartSpec
CONSTANTS
    MAX_HEAP = 20
    CHUNKSIZE = 8
    INT_MAX = 20
    Requests = {0, 1, 3, 5, 30}
    Jobs = {"j1", "j2", "j3"}
    Threads = {"t1", "t2"}
    Owner <- TheOwner
    NULL = "NULL"
    d1 = d1
    d2 = d2
    d3 = d3
    Callers = {d1, d2, d3}
    Flags <- CreatorsAndUser
    MaxDbOpens = 2
    p1 = p1
    p2 = p2
    p3 = p3
    Procs = {p1, p2, p3}
    Openers = {p2, p3}
    Servers = {p1}
    BIGCOUNT = 4
    InitVal = 2
    MaxOpens <- TwiceTwiceOnce
    MaxSets = 6
INVARIANTS HeapWhole BothWays CountsExact OnlyLateOpens
PROPERTIES IsJobList OnlyTruncationLoses OpenReturns IsCountedSemaphore CallsReturn
CHECK_DEADLOCK FALSE
