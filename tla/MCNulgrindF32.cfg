CONSTANTS
    NA = 8
    Bytes <- MCBytes
    StoreTypes <- AllTypes
    CopyTypes <- AllTypes
SPECIFICATION Spec
INVARIANT
    NoIRRejected
