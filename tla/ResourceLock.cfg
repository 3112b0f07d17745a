SPECIFICATION FairSpec
CONSTANTS
    Workers = {w1, w2, w3}
    NoOne = NoOne
    Orphan = Orphan
    MaxDepth = 2
INVARIANTS
    NeverUnprotected
PROPERTIES
    ImplementsExclusiveHolder
    NoPermanentStaleLock
