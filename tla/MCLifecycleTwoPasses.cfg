SPECIFICATION FairSpec
CONSTANTS
    e1 = e1  e2 = e2  gA = gA  gB = gB  d1 = d1  d2 = d2  p1 = p1  p2 = p2
    NoEvent = NoEvent
    Events = {e1, e2}
    Programs = {gA, gB}
    Devices = {d1}
    PollTasks = {p1}
    NotifyTasks = {p2}
    Prog <- MCProg
    DevicesOf <- MCOneDevice
    Primacy <- MCPrimacy
    Created <- MCCreated
    Start <- MCStart
    Duration <- MCDuration
    WindDown <- MCNoWind
    Defaulting = {gB}
    StoreGrace = 1
    Outcomes = {"ok", "fail", "slow"}
    DefaultsFail = TRUE
    MaxTime = 5
    MaxPasses = 2
    MaxRediscoveries = 0
    MaxRemovals = 0
    MaxOutages = 0
INVARIANTS
    CompletedOnlyWhereItRan
PROPERTIES
    EveryEventEnds
CHECK_DEADLOCK FALSE
