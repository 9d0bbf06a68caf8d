SPECIFICATION Spec
CONSTANTS
    Requests = {q1}
    Drivers = {d1, d2}
    Workers = {w1, w2}
    None = None
    BatchSize = 1
    MaxRounds = 2
    MaxAttempted = 2
    MaxBoosts = 1
    MaxFaults = 1
SYMMETRY Symmetric
VIEW Relevant
CHECK_DEADLOCK FALSE
INVARIANTS AcceptedIffRide RoundsDoNotStack
PROPERTIES OutcomeStands
