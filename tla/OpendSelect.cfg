SPECIFICATION FairSpec
CONSTANTS
    Uids = {"u1", "u2"}
    NALLOC = 1
    MaxConns = 3
    MaxCalls = 4
INVARIANTS TablesExact RightUser
PROPERTIES EveryoneAnswered
CHECK_DEADLOCK FALSE
