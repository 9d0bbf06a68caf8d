SPECIFICATION PayoutSpec
CONSTANTS
    Settlements = {s1, s2}
    Payouts = {p1, p2}
    Sessions = {c1, c2}
    Absent = Absent
    Confirming = TRUE
    MaxEarned = 2
    MaxWithdrawals = 1
    MaxMoves = 1
SYMMETRY Symmetric
INVARIANTS MoneyAccountedFor PaidIffCovered NoDeadlock
PROPERTIES KeepsPayoutPromise
CHECK_DEADLOCK FALSE
