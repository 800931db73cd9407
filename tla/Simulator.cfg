\* Two nodes, two clusters and two simulators on one root; a live view
\* for three ticks; two callers of the tools; a scenario with one fault;
\* three ticks of an exporter with one fault, at powers that wrap the counters.
INIT SideInit
NEXT SideNext
VIEW SideView
CONSTANTS
    Nodes = {n1, n2}
    Clusters = {c1, c2}
    Procs = {1, 2}
    MaxUsed = 2
    MaxStarts = 3
    EmuFaults = 2
    LiveT = 3
    LiveFaults = 3
    Callers = {k1, k2}
    Racks <- TheRacks
    Commands <- TheCommands
    MaxCalls = 2
    SmiFaults = 1
    Work = {"j1", "j2"}
    Offset <- TheOffset
    Window = 2
    Binds <- TheBinds
    Compares <- TheCompares
    References <- TheReferences
    Deadline = 2
    AbortOnStall = 1
    MaxTick = 2
    ScenarioFaults = 1
    MaxEvaluations = 2
    Span = 18
    KSteps = {0, 2}
    KPowers = {2, 4}
    KLoads = {0, 1}
    KLoadMax = 2
    MaxKTicks = 3
    KFaults = 1
INVARIANTS FacilityIsItsHosts  Replays
PROPERTIES ReadingsAreDurable TakenSurvives VerdictStands 
CHECK_DEADLOCK FALSE
