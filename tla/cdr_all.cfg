SPECIFICATION Spec
CONSTANTS
    u1 = u1
    u2 = u2
    l1 = l1
    l2 = l2
    Cdr <- TwoCdrs
    Liberator <- OneLiberator
    Endpoints = 1
    DiskCdr = FALSE
    MaxRetry = 1
    Faults <- EveryFault
SYMMETRY Symmetry
PROPERTIES Delivers
CHECK_DEADLOCK FALSE
