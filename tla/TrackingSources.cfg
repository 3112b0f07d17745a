SPECIFICATION FairSpec
CONSTANTS
    Requests = {r1, r2}
    Carriers = {1, 2}
    Connected = {1, 2}
    Covered = {2}
    Knowing = {1, 2}
    Guesses = {2}
    Hint = None
    Aggregator = Aggregator
    None = None
    MaxActs = 2
    MaxFaults = 1
    MaxTrouble = 2
CHECK_DEADLOCK FALSE
INVARIANTS OneWatchFromRefreshes
PROPERTIES GapIsExplained
