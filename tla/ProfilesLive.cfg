\* Lists, writes and the manager fail until they no longer do.
CONSTANTS
    Nodes = {1, 2}
    SecondFamily = {}
    Agents = {1, 2}
    Pods = {p}
    Selecting = {}
    PolicyType = "queue_aware_v1"
    FracPct = 100
    HpMin = 1
    HpMax = 1
    PerHPNode = 1
    ListErrors = TRUE
    WriteErrors = TRUE
    Crashes = TRUE
    Reserving = FALSE
SPECIFICATION FairSpec
PROPERTIES RecordsAgree PodsAreServed
CHECK_DEADLOCK FALSE
