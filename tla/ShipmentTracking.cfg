SPECIFICATION FairSpec
CONSTANTS
    Syncs = {s1}
    Aggregators = {s1}
    People = {p1}
    Etas = {e1, e2}
    Chosen = {"CANCELLED", "DELIVERED"}
    None = None
    MaxActs = 1
INVARIANTS
    EtaIsOnRecord
PROPERTIES
    BroughtIntoLine
CHECK_DEADLOCK FALSE
