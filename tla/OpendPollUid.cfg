SPECIFICATION Spec
CONSTANTS
    Uids = {"u1", "u2"}
    NALLOC = 2
    MaxConns = 2
    MaxCalls = 3
INVARIANTS RightUser
CHECK_DEADLOCK FALSE
