SPECIFICATION Spec
CONSTANTS
    Callers = {c1, c2, c3, c4}
    MaxConcurrent = 1
    MaxQueued = 2
INVARIANT
    ConcurrencyLimit
