SPECIFICATION Spec
CONSTANTS
    p1 = p1
    p2 = p2
    ka = ka
    kb = kb
    kc = kc
    d1 = d1
    dd = dd
    c1 = c1
    c2 = c2
    NONE = NONE
    BLANK = BLANK
    FREE_OFF = FREE_OFF
    IDX_END = IDX_END
    DAT_ALL = DAT_ALL
    Procs = {p1, p2}
    Keys = {ka, kb, kc}
    Data = {d1, dd}
    Chains = {c1, c2}
    Hash <- MCHash
    KeyLen <- CrashKeyLen
    DatLen <- MCDatLen
    Uses <- CrashUses
    MaxCalls <- CrashCalls
    MixedUse = TRUE
    CrashAt <- InsideCalls
INVARIANTS SurvivorsIntact
CHECK_DEADLOCK FALSE
