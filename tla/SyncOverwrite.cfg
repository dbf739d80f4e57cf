CONSTANTS
    a = a
    b = b
    a1 = a1
    a2 = a2
    b1 = b1
    Device = {a, b}
    NoDevice = none
    Proc = {a, b}
    Dev <- OneProcEach
    Key = {k}
    Memory = {}
    Grain = 1
    Advance = {1}
    MaxEdits = 3
    MaxAborts = 0
SPECIFICATION FairSpec
PROPERTIES Converges
