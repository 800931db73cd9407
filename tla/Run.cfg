SPECIFICATION Spec
CONSTANTS
    first = first
    second = second
    Jobs = {first, second}
    Group <- TheGroup
    Work <- One
    Needs <- One
    Offset <- Due
    GpuNodes = {"n"}
    Scenes <- TheScenes
    MaxCreates = 1
    Report = 1
    v1CompletionAttempts = 2
    MaxPods = 2
INVARIANT FailedForACause
PROPERTIES EnergyBeforeTheEvent EndsOrReports
CHECK_DEADLOCK FALSE
