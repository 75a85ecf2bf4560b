CONSTANTS
    t1 = t1
    t2 = t2
    t3 = t3
    t4 = t4
    t5 = t5
    t6 = t6
    None = None
    Table <- MCTable
    Stores <- MCStores
    Calls <- MCCalls
    Schemas <- MCSchemas
    Actions <- MCActions
    MaxRules = 10
SPECIFICATION FairSpec
INVARIANTS TypeOK NoneOverlooked NoRevisit 
PROPERTIES Answered
CHECK_DEADLOCK FALSE
