SPECIFICATION PartsSpec
CONSTANTS
    j1 = j1
    j2 = j2
    j3 = j3
    mail = mail
    report = report
    Jobs <- ThreeJobs
    Names <- TwoNames
    NameOf <- MCNameOf
    Attempts <- MCAttempts
    Concurrency <- MCConcurrency
    MaxRuns = 3
    MaxStarts = 2
    Exprs <- SomeExprs
    Starts <- MCStarts
    FirstDay <- FourYears
    Year = 3
    Week = 3
    Hours = 2
    Minutes = 2
    Span = 16
    MaxStalls = 20
    MaxRequests = 2
    MaxResponses = 2
    Callbacks = {1, 2}
    MaxWrites = 2
INVARIANTS
    JobsAccounted
    NothingRunsAfterStop
    StopSettles
    FindsTheFirst
    Faithful
    ClosesCleanly
PROPERTIES
    EveryJobSettles
    StopReturns
    Ends
    EveryCallEnds
CHECK_DEADLOCK FALSE
