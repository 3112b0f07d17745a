SPECIFICATION Spec
CONSTANTS
    Lines = {l1}
    Containers = {c1, c2}
    Deliveries = {d1}
    Existing = {}
    Requests = {r1, r2}
    None = None
    MaxQty = 1
    MaxChanges = 1
SYMMETRY Symmetry
INVARIANTS
    WholeBatches
    LoserReadsWinner
PROPERTIES
    ExactUnlessOvertaken
CHECK_DEADLOCK FALSE
