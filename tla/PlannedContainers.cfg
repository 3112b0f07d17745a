SPECIFICATION FairSpec
CONSTANTS
    Numbers = {n1}
    Passes = {p1, p2}
    Unloaded = Unloaded
    MaxAttempts = 3
    MaxAsked = 4
    MaxCrashes = 1
INVARIANTS
    NeverGivenUpEarly
PROPERTIES
    EveryNumberDecided
CHECK_DEADLOCK FALSE
