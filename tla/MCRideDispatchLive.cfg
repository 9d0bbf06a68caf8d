SPECIFICATION FairSpec
CONSTANTS
    Requests = {q1}
    Drivers = {d1, d2}
    Workers = {w1}
    None = None
    BatchSize = 1
    MaxRounds = 2
    MaxAttempted = 2
    MaxBoosts = 1
    MaxFaults = 1
CHECK_DEADLOCK FALSE
PROPERTIES EverySearchEnds
