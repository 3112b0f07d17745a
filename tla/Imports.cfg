SPECIFICATION ImportFairSpec
CONSTANTS
    Size = 4
    Malformed = {2}
    BadNumbers = {3}
    UnknownTypes = {4}
    Requests = {r1, r2}
    None = None
    MaxFaults = 2
INVARIANTS
    ImportTypeOK
    OnceUnlessReopened
    OnlySoundLines
PROPERTIES
    ImportsAreWhole
    JobsSettle
CHECK_DEADLOCK FALSE
