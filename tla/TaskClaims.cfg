CONSTANTS
    a = a
    b = b
    p1 = p1
    p2 = p2
    p3 = p3
    Device = {a, b}
    Proc = {p1, p2, p3}
    Dev <- Devices
    Lease = 2
    Every = 2
    MaxTime = 6
    MaxUser = 1
    MaxCrashes = 1
    Slug = {1, 2}
    Drive = {1}
    Home = 2
    Unknown = 9
    MaxProcs = 3
    MaxDeaths = 1
    MaxMoves = 2
SPECIFICATION MCSpec
INVARIANTS RunningIsRecoverable ModelsAreSound
PROPERTIES  EverythingIsDone
CHECK_DEADLOCK FALSE
