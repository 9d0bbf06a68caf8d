SPECIFICATION FairSpec
CONSTANTS
    Rides = {r1, r2}
    Callers = {c1, c2}
    Nobody = Nobody
    MaxAttempts = 2
    MaxCredit = 1
    MaxFaults = 1
INVARIANTS LedgerFitsObligation WalletPaidForRides FinalAfterBudget
PROPERTIES KeepsPromise EveryFareDecided
CHECK_DEADLOCK FALSE
