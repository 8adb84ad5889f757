SPECIFICATION QueuesSpec
CONSTANTS
    w1 = w1
    w2 = w2
    MaxEntries = 3
    MaxDeliveries = 3
    Watchers = {w1, w2}
    MaxConcurrent = 2
    MaxRollouts = 2
    PromoteFaults = {"crash", "fail", "limit", "webhook"}
    Writers = {"p1", "p2"}
    Scorers = {w1, w2}
    MaxVersion = 3
    ScoreFaults = {"crash"}
    SyncProjects = {"p1"}
    Requesters = {"q1"}
    Syncers = {w1, w2}
    SyncFaults = {"fail", "limit", "crash"}
INVARIANT RecordedIsReused
INVARIANT StaleIsQueued
INVARIANT NoSpinner
INVARIANT Settled
PROPERTY ScoreNeverGoesBack
PROPERTY OneWatchEnds
CHECK_DEADLOCK FALSE
