SPECIFICATION FairSpec
CONSTANTS
    w1 = w1
    w2 = w2
    p1 = p1
    p2 = p2
    Runs = {r1}
    Workers = {w1, w2}
    Processes = {p1, p2}
    Home <- Apart
    Nodes = {"start", "deploy", "tell"}
    Trigger = "start"
    Graphs <- Shapes
    Failable = {"deploy"}
    Deciding = {"tell"}
    Unrepeatable = {"tell"}
    Retries = 0
    Faults = {"crash", "lapse", "raise"}
INVARIANT StepsFollowEdges
INVARIANT ClosedIsSettled
PROPERTY OverStaysOver
PROPERTY WalkSpec
PROPERTY CancelStopsNextStep
PROPERTY RunsClose
CHECK_DEADLOCK FALSE
