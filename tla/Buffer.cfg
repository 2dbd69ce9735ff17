\* Buffers of one and two bytes with a reserve of none to two, two views.
CONSTANTS
    Byte = {Nul, a}
    Nul = Nul
    root = root
    Views = {v1, v2}
    NULL = NULL
    Sizes = {1, 2}
    Reserves = {0, 1, 2}
    SizeMod = 64
    MaxLen = 2
    MaxSz = 5
SPECIFICATION Spec
INVARIANTS ContentsKept RefcountExact AbortsOnlyAfterPrepend
SYMMETRY Symmetry
