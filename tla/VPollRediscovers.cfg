SPECIFICATION FairSpec
CONSTANTS
    Beat = Beat  Probe = Probe  NoTask = NoTask
    Polls = {r1}
    Others = {o1, o2}
    Detects = FALSE
    MaxPasses = 2
    Threshold = 2
    Moves = TRUE
    MaxFailures = 0
    MaxChanges = 0
    Bursts = FALSE
    MaxOutages = 0
INVARIANTS
    PollsArmed
