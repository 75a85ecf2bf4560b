SPECIFICATION TokenSpec
CONSTANTS
    c1 = c1
    c2 = c2
    c3 = c3
    c4 = c4
    Call <- FourCalls
    MaxCps = 2
    Window = 5
    Block = 2
    Delay = 1
    Skew = 1
    Horizon = 8
SYMMETRY Symmetry
INVARIANTS TokenTypeOK WithinSpan
CHECK_DEADLOCK FALSE
