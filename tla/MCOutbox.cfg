SPECIFICATION FairSpec
CONSTANTS
    Events = {1, 2}
    Relays = {r1, r2}
    Tokens = {t1, t2, t3}
    NoToken = NoToken
    BatchSize = 2
    MaxAttempts = 2
    MaintenanceEvery = 1
    MaxFaults = 1
INVARIANTS OutcomesEarned
PROPERTIES KeepsPromise EveryEventSettles
