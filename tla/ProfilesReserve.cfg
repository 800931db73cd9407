\* Nodes of two families are reserved and given back, and the manager restarts.
CONSTANTS
    Nodes = {1, 2, 3}
    SecondFamily = {3}
    Agents = {}
    Pods = {p}
    Selecting = {p}
    PolicyType = "queue_aware_v1"
    FracPct = 0
    HpMin = 1
    HpMax = 3
    PerHPNode = 1
    ListErrors = FALSE
    WriteErrors = FALSE
    Crashes = TRUE
    Reserving = TRUE
SPECIFICATION FairSpec
PROPERTIES GuardHolds FamilyServed
CHECK_DEADLOCK FALSE
