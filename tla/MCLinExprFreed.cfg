CONSTANTS
    Undef = Undef
    Junk = Junk
    MAX_NDEP = 4
    MaxLinExpr = 4
    Ids <- MCIds
    Vals <- MCVals
    MaxRounds = 1
    Ops <- AddOps
SPECIFICATION Spec
CHECK_DEADLOCK FALSE
INVARIANT
    GradientExact
