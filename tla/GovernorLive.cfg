SPECIFICATION FairSpec
CONSTANTS
    NPol = 1
    Scope = "per-cpu"
    Presets = {"A", "B"}
    Unsupported = {"B"}
    Boosts = {"on"}
    Modes = {"write"}
    OnExit = TRUE
    Failing = {"unsupported"}
    Rivals = FALSE
    TwinGone = FALSE
    Gaps = TRUE
    APIErrors = TRUE
    Restarts = "never"
    Reapply = 1
    Window = 1
    DriftLimit = 2
    Retry = 1
    Rewrite = 1
PROPERTY GovernorArrives
