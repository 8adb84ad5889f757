SPECIFICATION ClaimsSpec
CONSTANTS
    t1 = t1
    t2 = t2
    c1 = c1
    c2 = c2
    Tasks = {t1, t2}
    Claimers = {c1, c2}
    Editors = {e1}
    Activities = {"work", "run", "pause", "resume", "patch", "crash"}
    Batch = 1
    Grace = 1
    SkipLimit = 2
    MaxTime = 3
    MaxFirings = 3
INVARIANT ConsumedOnce
PROPERTY NoneIsPassedOver
PROPERTY DisablesAfterSkips
CHECK_DEADLOCK FALSE
