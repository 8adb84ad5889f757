SPECIFICATION PromoteSpec
CONSTANTS
    MaxEntries = 1
    MaxDeliveries = 3
    Watchers = {w1, w2}
    MaxConcurrent = 1
    MaxRollouts = 2
    PromoteFaults = {"crash", "webhook"}
PROPERTY DeployedOnce
CHECK_DEADLOCK FALSE
