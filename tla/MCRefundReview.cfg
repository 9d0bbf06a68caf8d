SPECIFICATION Spec
CONSTANTS
    Refunds = {f1, f2}
    Callers = {c1}
    Admins = {d1, d2}
    Reviewed = {f1, f2}
    Nothing = Nothing
    Purposes = {"balance", "subscription"}
    Captured = 2
    MaxDecisions = 3
    MaxFaults = 0
SYMMETRY Symmetric
INVARIANT NeverOverCaptured
PROPERTIES KeepsPromise
CHECK_DEADLOCK FALSE
