SPECIFICATION Spec
CONSTANTS
    Requests = {q1, q2}
    Drivers = {d1}
    Customers = {c1, c2}
    Nobody = Nobody
    Fee = 1
    MaxPaidIn = 2
    MaxTakenOut = 1
SYMMETRY Symmetry
INVARIANTS
    OneRidePerDriver
    OnTripHasRide
    UnchargedOnlyAfterRefund
    WalletAccountsForRides
PROPERTY KeepsTripPromise
