SPECIFICATION FairSpec
CONSTANTS
    Tasks = {t1}
    Poll = 2
    Faults = {"query"}
    MaxTime = 1
    MaxTicks = 1
    MaxEdits = 0
PROPERTY DueIsClaimed
CHECK_DEADLOCK FALSE
