SPECIFICATION FairSpec
CONSTANTS
    u1 = u1
    u2 = u2
    l1 = l1
    l2 = l2
    Cdr <- TwoCdrs
    Liberator <- TwoLiberators
    Endpoints = 2
    DiskCdr = FALSE
    MaxRetry = 2
    Faults <- Refusals
INVARIANTS NoCdrLost
PROPERTIES EventuallyStored EventuallyCleaned
CHECK_DEADLOCK FALSE
