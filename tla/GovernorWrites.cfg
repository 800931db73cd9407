SPECIFICATION Spec
CONSTANTS
    NPol = 1
    Scope = "global"
    Presets = {"A"}
    Unsupported = {}
    Boosts = {"unset", "on"}
    Modes = {"write"}
    OnExit = TRUE
    Failing = {"refused", "not-applied", "error"}
    Rivals = TRUE
    TwinGone = TRUE
    Gaps = FALSE
    APIErrors = FALSE
    Restarts = "synced"
    Reapply = 1
    Window = 2
    DriftLimit = 2
    Retry = 1
    Rewrite = 1
PROPERTY AppliedMeansInForce
PROPERTY GivesWay
