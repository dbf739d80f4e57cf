CONSTANTS
    short = short
    long = long
    forward = forward
    foreign = foreign
    p1 = p1
    p2 = p2
    r1 = r1
    t1 = t1
    f = f
    x = x
    y = y
    NoValue = NoValue
    Device <- Two
    Fields = {f}
    Values = {x, y}
    Worlds <- CalmAndNot
    Proc = {p1, p2}
    Run = {r1}
    Definition = {short, long, forward, foreign}
    Steps <- StepsOf
    Tools <- ToolsOf
    StepId <- StepIds
    Tool = {t1}
    MaxEdits = 1
    MaxCrashes = 2
SPECIFICATION MCSpec
INVARIANTS RefsResolved RepeatsOnlyByCrash 
PROPERTIES DoneMeansAll EverythingSettles
CHECK_DEADLOCK FALSE
