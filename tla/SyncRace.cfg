CONSTANTS
    a = a
    b = b
    a1 = a1
    a2 = a2
    b1 = b1
    Device = {a, b}
    NoDevice = none
    Proc = {a1, a2, b1}
    Dev <- TwoOnA
    Key = {k, m}
    Memory = {m}
    Grain = 2
    Advance = {0, 1}
    MaxEdits = 3
    MaxAborts = 1
SPECIFICATION MCSpec
SYMMETRY SameDevice
INVARIANTS LastEditKept NoEcho
PROPERTIES RowsAdvance
