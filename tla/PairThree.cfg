SPECIFICATION TurnSpec
CONSTANTS
    a = a
    b = b
    c = c
    Device <- Line
    Presser = {a, b, c}
    Peers <- LinePeers
    Process <- Line
    Host <- OnePerDevice
    Skew <- NoSkew
    Advance = {1}
    DiesAt = {"send", "reset", "adopt", "store", "look"}
    NoKey = NoKey
    Nobody = NoKey
    MaxPresses = 3
    MaxByHand = 1
    MaxDeaths = 1
    MaxKeys = 2
    MaxEdits = 2
    MaxGrants = 1
    MaxLeaves = 1
    MaxRotations = 2
    MaxFailures = 1
INVARIANT PairsShareVault
CHECK_DEADLOCK FALSE
