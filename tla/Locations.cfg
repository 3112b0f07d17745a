\* Three places, two of one name, one code; the resolver at most two levels.
SPECIFICATION PlaceFairSpec
CONSTANTS
    Places <- MCPlaces
    NameOf <- MCNameOf
    Names <- MCNames
    Codes <- MCCodes
    ExternalCodes <- MCExternalCodes
    Near <- MCNear
    Reported <- MCReported
    Forms <- MCForms
    Rows <- MCRows
    Editors = {e1, e2}
    Workers = {w1, w2}
    None = None
    MaxDepth = 2
    MaxEdits = 2
INVARIANTS WalksAgree NamesOnlyNarrow
PROPERTIES EvidenceCatchesUp
