SPECIFICATION Spec
CONSTANTS
    e1 = e1  e2 = e2  gA = gA  gB = gB  d1 = d1  d2 = d2  p1 = p1  p2 = p2
    NoEvent = NoEvent
    Events = {e1, e2}
    Programs = {gA, gB}
    Devices = {d1, d2}
    PollTasks = {p1}
    NotifyTasks = {}
    Prog <- MCProg
    DevicesOf <- MCTwoDevices
    Primacy <- MCPrimacy
    Created <- MCCreated
    Start <- MCStart
    Duration <- MCDuration
    WindDown <- MCNoWind
    Defaulting = {gA, gB}
    StoreGrace = 1
    Outcomes = {"ok", "slow"}
    DefaultsFail = FALSE
    MaxTime = 5
    MaxPasses = 3
    MaxRediscoveries = 0
    MaxRemovals = 0
    MaxOutages = 0
INVARIANTS
    NoControlLeftBehind
    NoLeakedRegistration
PROPERTIES
    EndedStaysEnded
CHECK_DEADLOCK FALSE
