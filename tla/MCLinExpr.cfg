CONSTANTS
    Undef = Undef
    Junk = Junk
    MAX_NDEP = 4
    MaxLinExpr = 3
    Ids <- MCIds
    Vals <- MCVals
    MaxRounds = 1
    Ops <- AllOps
SPECIFICATION Spec
CHECK_DEADLOCK FALSE
INVARIANTS
    TypeOK
    ArenaAccounting
    AlgebraGradientExact
