CONSTANTS
    t1 = t1
    t2 = t2
    t3 = t3
    Tids <- MCTids
    ShVals = {1}
    MaxAttempts = 2
SPECIFICATION LiveSpec
PROPERTIES
    AtomicCasRefined
    
