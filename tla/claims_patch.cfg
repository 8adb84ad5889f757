SPECIFICATION Spec
CONSTANTS
    Tasks = {t1}
    Claimers = {c1}
    Editors = {e1}
    Activities = {"patch"}
    Batch = 1
    Grace = 1
    SkipLimit = 2
    MaxTime = 3
    MaxFirings = 3
INVARIANT SingleFiring
CHECK_DEADLOCK FALSE
