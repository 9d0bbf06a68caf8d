SPECIFICATION FairSpec
CONSTANTS
    Refunds = {f1, f2}
    Callers = {c1, c2}
    Admins = {d1}
    Reviewed = {}
    Nothing = Nothing
    Purposes = {"balance", "subscription"}
    Captured = 2
    MaxDecisions = 0
    MaxFaults = 2
INVARIANTS LedgerFitsStatus RefundedOnce RecordFitsProvider
PROPERTIES EveryRefundResolves
CHECK_DEADLOCK FALSE
