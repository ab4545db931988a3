SPECIFICATION FairSpec
CONSTANTS
    a = a
    b = b
    often = often
    seldom = seldom
    Names = {a, b}
    Exprs = {often, seldom}
    Matches <- MCMatches
    Delays = {2}
    MaxDrift = 2
    Fallback = 2
    MaxTasks = 2
    MaxTime = 4
    MaxRuns = 2
INVARIANTS NamesConsistent TimersOwned
PROPERTIES SteadyRunPerMatch DueTasksRun
