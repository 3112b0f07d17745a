SPECIFICATION FairSpec
CONSTANTS
    Orders = {o1, o2}
    Lines = {l1}
    Values = {q1}
    Missing = Missing
    Workers = {w1, w2}
    Overlap = 1
    MaxClock = 3
    MaxChanges = 3
    MaxFaults = 1
INVARIANTS
    NothingMissed
    HashVouchesForLines
PROPERTIES
    OnlyGoneDeactivated
    ChangesArrive
