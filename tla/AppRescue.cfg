CONSTANTS
    a = a
    b = b
    Devices = {a, b}
    None = None
    MaxTime = 4
    ShortTime = 4
    MaxRuns = 0
    MaxDeaths = 0
SPECIFICATION RescueSpec
INVARIANT RescueSpreads
SYMMETRY Sym
CHECK_DEADLOCK FALSE
