CONSTANTS
    Null = Null
    Junk = Junk
    Unknown = Unknown
    Unset = Unset
    a1 = a1
    spam = spam
    NT = 2
    Addrs <- MCAddrs
    Vals <- MCVals
    Seeds <- MCSeeds
    ValBound = 1
    SpamAddr = spam
SPECIFICATION Spec
INVARIANTS
    DotExact
VIEW
    NoReplyView
