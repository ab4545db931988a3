SPECIFICATION PartsSpec
CONSTANTS
    Callers = {c1, c2, c3, c4, c5}
    MaxConcurrent = 2
    MaxQueued = 2
    Calls = {c1, c2, c3}
    HalfOpenAfter = 1
    MinCalls = 1
    ThresholdNum = 1
    ThresholdDen = 2
    WindowBound = 3
    Operator = FALSE
    p1 = p1
    p2 = p2
    MaxAttempts = 4
    Pods = {p1, p2}
    Behind <- MCBehind
    Quota = 1
    MaxFailures = 1
    MaxProbes = 1
    MaxTroubles = 2
INVARIANTS
    ProbesAreRunning
    FailuresAreJudged
PROPERTIES
    ImplementsSemaphore
    EveryWaiterRuns
    NeverWedged
    PromptDiagram
    DeadlineStops
    CallSettles
    FleetRecovers
