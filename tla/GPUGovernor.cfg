SPECIFICATION Spec
CONSTANTS
    Vendors = {"nvidia", "amd"}
    NGpu = 2
    Table <- SameTable
    Presets <- SomePresets
    Failing = {"error", "not-applied"}
    Modes = {"write", "readonly"}
    Operators = {}
    Rivals = {1}
    Resets = {2}
    Gaps = TRUE
    Restarts = "named"
    Samples = 1
    Reapply = 1
    Window = 1
    DriftLimit = 2
    Retry = 1
INVARIANT RecordIsTrue
PROPERTIES  AskedArrives
CHECK_DEADLOCK FALSE
