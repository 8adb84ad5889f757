SPECIFICATION FairSpec
CONSTANTS
    Replicas = {s1}
    Tasks = {t1}
    Runs = {r1, r2}
    Limit = 2
    Ceiling = 1
    Faults = {"crash"}
    Callers = {"endpoint", "engine"}
INVARIANT CancelTakesHold
PROPERTY NoRefusalWhileLive
PROPERTY FiringEnds
CHECK_DEADLOCK FALSE
