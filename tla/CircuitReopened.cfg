SPECIFICATION Spec
CONSTANTS
    Calls = {c1, c2}
    HalfOpenAfter = 2
    MinCalls = 1
    ThresholdNum = 1
    ThresholdDen = 2
    WindowBound = 3
    Operator = FALSE
PROPERTY
    OpenIsNotClosed
