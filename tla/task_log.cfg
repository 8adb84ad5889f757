SPECIFICATION LogFairSpec
CONSTANTS
    MaxEvents = 4
    Reports = {u1}
    LogSweepers = {s1}
INVARIANT LogIsKept
PROPERTY ClosedIsArchived
CHECK_DEADLOCK FALSE
