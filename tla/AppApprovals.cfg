CONSTANTS
    read = read
    shell = shell
    files = files
    exec = exec
    gui = gui
    cli = cli
    a = a
    b = b
    m1 = m1
    Unknown = unknown
    Tools = {read, shell}
    Perms = {files, exec}
    Needs <- BothPermissions
    FastPlans <- TwoPlans
    Procs = {gui, cli}
    Allowlist <- ReadToGui
    MaxSteps = 2
    MaxResumes = 2
    MaxEdits = 1
    MaxLost = 1
    Req = {1, 2, 3}
    NoReq = 0
    Slots = 2
    Device = {a, b}
    First = a
    Mem = {m1}
    NoMem = gui
    MaxClock = 4
    MaxTouches = 1
    MaxModes = 1
    MaxCrashes = 1
SPECIFICATION NativeSpec
INVARIANT AnswerCounts
CHECK_DEADLOCK FALSE
