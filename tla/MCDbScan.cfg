SPECIFICATION ScanSpec
CONSTANTS
    scanner = scanner
    writer = writer
    ka = ka
    kb = kb
    d1 = d1
    d2 = d2
    c1 = c1
    NONE = NONE
    BLANK = BLANK
    FREE_OFF = FREE_OFF
    IDX_END = IDX_END
    DAT_ALL = DAT_ALL
    Procs = {scanner, writer}
    Keys = {ka, kb}
    Data = {d1, d2}
    Chains = {c1}
    Hash <- MCHash
    KeyLen <- MCKeyLen
    DatLen <- MCDatLen
    Uses <- MCUses
    MaxCalls <- MCMaxCalls
    MixedUse = FALSE
    CrashAt = {}
INVARIANTS ScanExact
PROPERTIES Linearizable
CHECK_DEADLOCK FALSE
