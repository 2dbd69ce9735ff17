\* Four slots that double once, handles of four bits, two pointers.
CONSTANTS
    Ud = {u1, u2}
    NULL = NULL
    INIT_SZ = 4
    HandleMod = 16
    MaxCap = 8
    MaxLive = 4
    Unique = {u2}
SPECIFICATION Spec
CHECK_DEADLOCK FALSE
INVARIANTS SearchEnds LookupExact
PROPERTY KeptUntilExpanded
