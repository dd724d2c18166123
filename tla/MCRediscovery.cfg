SPECIFICATION FairSpec
CONSTANTS
    Beat = Beat  Probe = Probe  NoTask = NoTask
    Polls = {r1}
    Others = {o1, o2}
    Detects = TRUE
    MaxPasses = 3
    Threshold = 2
    Moves = TRUE
    MaxFailures = 2
    MaxChanges = 2
    Bursts = FALSE
    MaxOutages = 2
INVARIANTS
    PollsRearmed
    NoChangeMissed
PROPERTIES
    RediscoveryEnds
