SPECIFICATION HarnessFairSpec
CONSTANTS
    t1 = t1
    t2 = t2
    Tasks = {t1, t2}
    Parent <- Delegated
    Agents = {"a"}
    AgentOf <- SameAgentOf
    MaxTasks = 2
    Keys = {"r1", "r2"}
    Requests = {}
    Commands = {"cancel"}
    Runners = {"r1", "r2"}
    Sweepers = {"s1"}
    MaxAttempt = 2
    MaxOpenings = 1
    Faults = {}
INVARIANT HarnessTypeOK
INVARIANT SoleWorker
INVARIANT AttemptIsSole
INVARIANT WorkIsReached
CHECK_DEADLOCK FALSE
PROPERTY PinSpec
PROPERTY FencedReturns
