\* Five nodes in two families under every policy; two nodes scored from maps
\* one tick old; four jobs on the first four nodes;
\* scenarios on three nodes; two cpufreq policies; sweeps of at
\* most six cells on two workers; three jobs on
\* an emulated node for three ticks.
INIT FleetInit
NEXT FleetNext
VIEW FleetView
CONSTANTS
    Nodes = {1, 2, 3, 4, 5}
    Families = {1, 2}
    FracPct = 30
    HpMin = 1
    HpMax = 4
    PerHPNode = 1
    MaxDemand = 4
    PolicyTypes = {"static_partition", "queue_aware_v1", "rule_swap_v1"}
    Hosts = {n1, n2}
    Twins <- TheTwins
    Hws <- TheHws
    Pending <- ThePods
    CacheTTL = 1
    StaleT = 3
    CpuCoeff = 70
    MemCoeff = 10
    MemCap = 130
    GpuStd = 65
    GpuPerf = 85
    CoreW = 3
    FloorW = 15
    GpuNv = 35
    GpuAmd = 40
    GpuGeneric = 35
    Burst = 50
    Slices = 2
    MaxEdits = 2
    MaxLists = 1
    Inventory <- TheInventory
    SaBaselines = {"A", "B", "C"}
    MaxFails = 1
    Interval = 2
    DefaultCores = 2
    Full = 2
    Slow = 1
    SaTimeout = 25
    MaxScenarioDuration = 10
    MaxVariants = 4
    MaxScheduled = 5
    NPol = 2
    Scope = "none"
    Presets = {"A", "B"}
    Unsupported = {}
    Boosts = {"unset"}
    Modes = {"write", "readonly"}
    OnExit = TRUE
    Failing = {"error", "not-applied"}
    Rivals = FALSE
    TwinGone = FALSE
    Gaps = FALSE
    APIErrors = FALSE
    Restarts = "synced"
    Reapply = 1
    Window = 3
    DriftLimit = 2
    Retry = 1
    Rewrite = 1
    Sweeps <- TheSweeps
    Boards <- TheBoards
    FactGrid <- TheFactGrid
    Crew = {k1, k2}
    SweepFaults = 1
    Hosted <- TheHosted
    Spends <- TheSpends
    MaxShTicks = 3
    ShFaults = 1
INVARIANTS SplitIsSainteLague SettledAnswers PerfKeepsPower   SharesAddUp
PROPERTIES OneNodePerSlot 
CHECK_DEADLOCK FALSE
