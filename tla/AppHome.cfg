CONSTANTS
    a = a
    b = b
    Devices = {a, b}
    None = None
    MaxTime = 5
    ShortTime = 3
    MaxRuns = 1
    MaxDeaths = 1
SPECIFICATION MCSpec
INVARIANTS OneInstance  
SYMMETRY Sym
CHECK_DEADLOCK FALSE
