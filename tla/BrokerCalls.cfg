SPECIFICATION MCSpec
CONSTANTS
    Calls = {one}
    NoCall = NoCall
    MaxChunks = 2
    Timeout = 1
    Margin = 1
    MaxTime = 3
    MaxFaults = 1
    Device = {h, g, k}
    Host = h
    PairedWith <- Pairings
    Bearer = bearer
    Ops = {"app-write"}
    Expiries = {1, 2}
    MaxTokens = 3
    GuestMargin = 0
    GuestTime = 2
    Replies <- Writings
    PipeLines = 1
    h = h
    g = g
    k = k
INVARIANTS DoneWasRun  RunsOnce GuestsServed 
PROPERTIES RemoteSpec WithinGrant EveryCallEnds
CHECK_DEADLOCK FALSE
