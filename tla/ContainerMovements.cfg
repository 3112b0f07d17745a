SPECIFICATION FairSpec
CONSTANTS
    Places = {p1, p2}
    NoPlace = NoPlace
    MaxTime = 2
    Events = {e1}
    NoEvent = NoEvent
    Unseen = Unseen
    Workers = {w1, w2}
    NoJob = NoJob
    MaxByHand = 1
    MaxFaults = 1
INVARIANTS OneMovementPerEvent ProjectionIsWinner
PROPERTIES ImplementsPositionLedger MovesOnlyOnNewEvidence EligibleEventsGetMovements
