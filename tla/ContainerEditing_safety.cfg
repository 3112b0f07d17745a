SPECIFICATION EditSpec
CONSTANTS
    Places = {p1}
    NoPlace = NoPlace
    MaxTime = 2
    Events = {e1}
    NoEvent = NoEvent
    Unseen = Unseen
    Workers = {w1}
    NoJob = NoJob
    MaxByHand = 1
    MaxFaults = 1
    Editors = {u1, u2}
    NoDraft = NoDraft
INVARIANT DriftsOnlyByStaleForms
