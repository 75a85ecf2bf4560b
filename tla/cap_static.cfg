SPECIFICATION Spec
CONSTANTS
    n1 = n1
    n2 = n2
    c1 = c1
    c2 = c2
    c3 = c3
    Node <- MCNode
    Call <- MCCall
    Home <- MCHome
    InitialNode <- BothNodes
    MemberList <- FullList
    QuietStartup = TRUE
    MaxIn = 2
    MaxOut = 1
SYMMETRY Symmetry
INVARIANTS TypeOK InboundWithinLimit
CHECK_DEADLOCK FALSE
