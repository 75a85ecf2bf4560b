SPECIFICATION FairSpec
CONSTANTS
    n1 = n1
    n2 = n2
    c1 = c1
    c2 = c2
    c3 = c3
    Node <- MCNode
    Call <- TwoCalls
    Home <- HomeOfTwo
    InitialNode <- FirstNode
    MemberList <- FullList
    QuietStartup = FALSE
    MaxIn = 1
    MaxOut = 1
INVARIANTS EntriesAccountedFor
PROPERTIES CapacityReleased
CHECK_DEADLOCK FALSE
