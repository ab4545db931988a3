SPECIFICATION FairSpec
CONSTANTS
    Exprs <- Monthly
    Starts <- FirstYear
    FirstDay <- FourYears
    Year = 3
    Week = 3
    Hours = 2
    Minutes = 2
    Span = 16
    MaxStalls = 20
INVARIANT FindsWhatIsMeant
CHECK_DEADLOCK FALSE
