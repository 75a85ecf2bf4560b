SPECIFICATION LeakySpec
CONSTANTS
    c1 = c1
    c2 = c2
    c3 = c3
    c4 = c4
    Call <- FourCalls
    Cps <- AnyClass
    Second = 6
    Horizon = 9
SYMMETRY Symmetry
INVARIANTS LeakyTypeOK Spacing WithinCps
CHECK_DEADLOCK FALSE
