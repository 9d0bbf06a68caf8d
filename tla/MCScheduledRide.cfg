CONSTANTS
    Bookings = {b1}
    Drivers = {d1, d2}
    Workers = {w1, w2}
    MaxCalls = 3
    None = None
SPECIFICATION Spec
SYMMETRY Symmetric
INVARIANTS
    DriverMatchesStatus
    CancelledClosesRequest
    OneReminderPerMark
