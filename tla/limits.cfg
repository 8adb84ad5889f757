SPECIFICATION LimitsSpec
CONSTANTS
    w1 = w1
    w2 = w2
    p1 = p1
    p2 = p2
    Runs = {r1, r2}
    Workers = {w1, w2}
    Processes = {p1, p2}
    Home <- Apart
    Nodes = {"start", "deploy"}
    Trigger = "start"
    Graphs <- OneStep
    Failable = {}
    Deciding = {}
    Unrepeatable = {"deploy"}
    Retries = 1
    Faults = {}
    t1 = t1
    t2 = t2
    Tasks = {t1, t2}
    Parent <- Delegated
    Agents = {"a"}
    AgentOf <- SameAgentOf
    MaxTasks = 1
    Keys = {k1}
    Requests = {"q1"}
    Commands = {"run", "pause", "cancel"}
    i1 = i1
    i2 = i2
    j1 = j1
    j2 = j2
    Projects = {j1, j2}
    MaintWorkers = {i1, i2}
    Admins = {"a1"}
    MaxRuns = 2
    MaxDrift = 0
    MaintFaults = {"limit", "fail", "stop", "crash"}
    DayLength = 4
    MonthStarts <- ShortMonths
    Intervals = {2, 3}
    MaxStep = 2
    Bounds = {9, 30}
    Shift = 22
    Offsets = {0, 2}
    LastMoment = 40
SYMMETRY LimitsSymmetry
INVARIANT MaintTypeOK
INVARIANT OneRunningPerKey
INVARIANT StatusAgrees
INVARIANT WithinMaxTasks
INVARIANT ProjectsAccounted
INVARIANT FirstOfSeries
CHECK_DEADLOCK FALSE
