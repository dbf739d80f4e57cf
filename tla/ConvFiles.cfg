CONSTANTS
    a = a
    b = b
    m1 = m1
    m2 = m2
    Device = {a, b}
    Msg = {m1, m2}
    Author <- EachWritesOne
    MaxEdits = 4
    MaxDeletes = 1
    MaxSections = 2
    MaxWrites = 6
    MaxCrashes = 1
    Client <- Clients
    Slot = {1, 2}
    MaxVersions = 1
    MaxStarts = 2
    MaxUnpairs = 1
    MaxLosses = 1
    Folder = {"folder"}
    Url = {"near", "far", "farther"}
    Local = {"near"}
    MaxCalls = 2
SPECIFICATION MCSpec
INVARIANTS   TornIsOwed PublicByConsent
PROPERTY EverythingArrives
CHECK_DEADLOCK FALSE
