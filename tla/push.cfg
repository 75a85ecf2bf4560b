CONSTANTS
    l1 = l1
    l2 = l2
    n1 = n1
    p1 = p1
    p2 = p2
    g1 = g1
    g2 = g2
    o1 = o1
    None = None
    Liberator <- TwoLiberators
    Node <- OneNode
    Profile <- Profiles
    Gateway <- Gateways
    Out <- OneOut
    Unreliable <- Second
    Faults = {"die", "cut", "slow"}
    MaxRequests = 3
    Careful = TRUE
SPECIFICATION Spec
INVARIANTS TypeOK    
SYMMETRY Symmetry
CHECK_DEADLOCK FALSE
