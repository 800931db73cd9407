SPECIFICATION FairSpec
CONSTANTS
    NCPU = 2
    Packages = {"p1"}
    Watts = {200}
    Pcts = {60}
    StepPct = 50
    TripCount = 2
    Cooldown = 1
    SpecTimeout = 0
    HTTP = FALSE
    PreferDVFS = FALSE
    DVFSEnabled = TRUE
    CatalogRange = FALSE
    Failures = TRUE
    Restarts = FALSE
PROPERTY CapIsEnforced
PROPERTY ThrottleIsReleased
INVARIANT CountsAreRuns
