\* Fourteen reports of three providers, in any order, up to four of them stored.
SPECIFICATION ReadSpec
CONSTANTS
    Reports <- MCReports
    Sightings <- MCSightings
    Codes <- MCCodes
    Names <- MCNames
    Similar <- MCSimilar
    Locations <- MCLocations
    Charted <- MCCharted
    None = None
    Undated = 9
    Window = 1
    MaxEvents = 4
INVARIANTS EveryReportOnce ReadersAgree
PROPERTIES ForecastsDecideNothing ExplainedGapCloses
