SPECIFICATION Spec
CONSTANTS
    e1 = e1  e2 = e2  gA = gA  gB = gB  d1 = d1  d2 = d2  p1 = p1  p2 = p2
    NoEvent = NoEvent
    Events = {e1, e2}
    Programs = {gA, gB}
    Devices = {d1}
    PollTasks = {p1}
    NotifyTasks = {}
    Prog <- MCProg
    DevicesOf <- MCOneDevice
    Primacy <- MCPrimacy
    Created <- MCCreated
    Start <- MCStart
    Duration <- MCDuration
    WindDown <- MCWind
    Defaulting = {gA}
    StoreGrace = 1
    Outcomes = {"ok"}
    DefaultsFail = FALSE
    MaxTime = 5
    MaxPasses = 2
    MaxRediscoveries = 1
    MaxRemovals = 1
    MaxOutages = 1
INVARIANTS
    RunningEventInForce
    CompletedNotCancelled
CHECK_DEADLOCK FALSE
