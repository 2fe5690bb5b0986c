CONSTANTS
    Last = 3
    Concurrency = 2
    Validator = TRUE
    Drained <- MCDrained
    Timeout = TRUE
    MaxCrashes = 1
SPECIFICATION FairSpec
INVARIANTS
    IInv
    AssertsHold
PROPERTIES
    ExecutesInOrder
    
CHECK_DEADLOCK FALSE
