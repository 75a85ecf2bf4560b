\* Objects and who engages them, with two workers.
CONSTANTS
    w1 = w1
    w2 = w2
    a1 = a1
    a2 = a2
    None = None
    Worker <- Two
    Scopes <- MCScopes
    TableOf <- MCTableOf
    Addr <- Addrs
    Overlap <- Same
    Careful = TRUE
SPECIFICATION Spec
INVARIANTS TypeOK   
SYMMETRY Symmetry
CHECK_DEADLOCK FALSE
