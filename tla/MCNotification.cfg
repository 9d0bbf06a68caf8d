SPECIFICATION FairSpec
CONSTANTS
    Devices = {d1, d2}
    Runs = {r1, r2}
    Writers = {w1}
    Nothing = Nothing
    Attempts = 2
    MaxSurprises = 2
CHECK_DEADLOCK FALSE
INVARIANTS ClaimIsExclusive StatusTellsDelivery
PROPERTIES EveryNotificationSettles
