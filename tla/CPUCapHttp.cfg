SPECIFICATION FairSpec
CONSTANTS
    NCPU = 1
    Packages = {"p1"}
    Watts = {200}
    Pcts = {60}
    StepPct = 50
    TripCount = 1
    Cooldown = 1
    SpecTimeout = 0
    HTTP = TRUE
    PreferDVFS = FALSE
    DVFSEnabled = TRUE
    CatalogRange = TRUE
    Failures = TRUE
    Restarts = TRUE
INVARIANT ClearedMeansClear
PROPERTY HttpCapStandsAlone
