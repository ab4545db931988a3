SPECIFICATION Spec
CONSTANTS
    j1 = j1
    j2 = j2
    j3 = j3
    mail = mail
    report = report
    Jobs <- ThreeJobs
    Names <- TwoNames
    NameOf <- MCNameOf
    Attempts <- MCAttempts
    Concurrency <- MCConcurrency
    MaxRuns = 4
    MaxStarts = 1
INVARIANTS
    AttemptsBounded
CHECK_DEADLOCK FALSE
