SPECIFICATION FairSpec
CONSTANTS
    Uids = {"u1", "u2"}
    NALLOC = 2
    MaxConns = 3
    MaxCalls = 4
INVARIANTS TablesExact NoneSkipped
PROPERTIES EveryoneAnswered
CHECK_DEADLOCK FALSE
