SPECIFICATION BackSpec
CONSTANTS
    Tasks = {t1}
    Poll = 2
    Faults = {"deaf", "claim", "query"}
    MaxTime = 2
    MaxTicks = 2
    MaxEdits = 1
    Resolutions = {q1}
    Releasers = {a1}
    Hooks = {h1}
    SecretSweepers = {s1}
    Fencers = {f1}
    SecretFaults = {"crash", "refuse", "save"}
INVARIANT NoOversleep
INVARIANT FencedHoldsNothing
PROPERTY LoopClaimsDue
PROPERTY LeasesAreRevoked
CHECK_DEADLOCK FALSE
