SPECIFICATION Spec
CONSTANTS
    a = a
    often = often
    seldom = seldom
    Names = {a}
    Exprs = {seldom}
    Matches <- MCMatches
    Delays = {2}
    MaxDrift = 2
    Fallback = 2
    MaxTasks = 1
    MaxTime = 8
    MaxRuns = 1
PROPERTY CronFollowsExpression
