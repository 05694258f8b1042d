CONSTANTS
    t1 = t1
    t2 = t2
    x1 = x1
    Unset = Unset
    Tids <- MCTids
    Addrs <- MCAddrs
    DotVals = {1}
    FlagVals = {1}
    MaxTape = 1
    MaxFile = 1
    MaxDisable = 1
SYMMETRY MCSymmetry
SPECIFICATION Spec
INVARIANTS
    TypeOK
PROPERTIES
    ModeIsolation
