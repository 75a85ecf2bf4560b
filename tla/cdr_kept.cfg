SPECIFICATION Spec
CONSTANTS
    u1 = u1
    u2 = u2
    l1 = l1
    l2 = l2
    Cdr <- TwoCdrs
    Liberator <- TwoLiberators
    Endpoints = 1
    DiskCdr = FALSE
    MaxRetry = 2
    Faults <- NoDamage
SYMMETRY Symmetry
INVARIANTS TypeOK OneOwner DetailKeptUntilStored StoredOnce
CHECK_DEADLOCK FALSE
