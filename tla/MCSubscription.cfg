SPECIFICATION SubscriptionSpec
CONSTANTS
    Keys = {k1, k2}
    Callers = {c1, c2}
    Workers = {w1, w2}
    Nothing = Nothing
    MaxPeriods = 2
SYMMETRY Symmetry
INVARIANTS OneOpenPeriod PeriodPaidOnce PaidPeriodHasEvent
CHECK_DEADLOCK FALSE
