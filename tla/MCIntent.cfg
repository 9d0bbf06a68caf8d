SPECIFICATION FairSpec
CONSTANTS
    Intents = {i1}
    Callers = {c1, job}
    Job = job
    Nothing = Nothing
    BATCH_SIZE = 1
    MaxPayments = 2
INVARIANTS EffectForOnePayment HeardIsTracked
PROPERTIES KeepsPromise PaidIsDecided
CHECK_DEADLOCK FALSE
