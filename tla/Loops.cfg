\* Six kinds of node under two faults; one legacy node under three orders; two
\* jobs on two legacy nodes under two faults; eight kinds of file tree under
\* two writes and a fault; three ticks, two exports, a fault and a restart of the
\* telemetry.
SPECIFICATION LoopsSpec
CONSTANTS
    Fleets <- TheFleets
    EcoPct = 50
    CpuMin = 6
    CpuMax = 10
    StatusRewrite = 2
    Stale = 6
    CapFaults = 2
    EJobs = {j1, j2}
    ENodes = {n1, n2}
    Gangs <- TheGangs
    EWork = 2
    Stall = 2
    ECreates = 1
    EFaults = 2
    SNodes = {s1}
    Bases <- TheBases
    ClassGpu <- TheClass
    CatMin = 2
    CatMax = 5
    LabelSets <- TheLabels
    FMax = 3
    FMin = 1
    IdleW = 1
    HeadW = 0
    HotW = 5
    Caps = {0, 1, 3, 9}
    Throttles <- TheThrottles
    Utils = {0, 2}
    MaxOrders = 3
    Plays <- ThePlays
    MaxWrites = 2
    MaxFaults = 1
    XNodes <- TheHosts
    MaxNodes = 1
    Presets = {p1, p2, p3}
    Facility = "facility"
    NoValue = NoValue
    QueueLen = 1
    Attempts = 2
    Every = 2
    MaxTicks = 3
    MaxPushes = 2
    XFaults = 1
    MaxLives = 2
 
PROPERTIES RestartKeeps ExportIsTrue 
CHECK_DEADLOCK FALSE
