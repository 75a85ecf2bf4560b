CONSTANTS
    w1 = w1
    w2 = w2
    l1 = l1
    l2 = l2
    a1 = a1
    a2 = a2
    None = None
    Worker <- Workers
    Liberator <- Liberators
    Addr <- Addrs
    Sets <- OneSet
    Unreliable <- Second
    MaxRequests = 2
    MaxUpdates = 1
SPECIFICATION Spec
INVARIANTS TypeOK Enforced
PROPERTIES NeverLetsGo
SYMMETRY Symmetry
CHECK_DEADLOCK FALSE
