CONSTANTS
    a = a
    b = b
    Vars <- MCVars
    Vals <- MCVals
    ValBound = 1
    W = 1
    MaxTape = 3
    Seeds <- MCSeeds
    MaxOutputs = 1
    StopOption <- MCStopOptionBadToken
    TypeGrind = FALSE

SYMMETRY MCSymmetry

SPECIFICATION Spec

INVARIANTS
    StopTrap
