--------------------------- MODULE MCRideLifecycle ---------------------------
EXTENDS RideLifecycle, TLC

Symmetry ==
    Permutations(Requests) \cup Permutations(Drivers) \cup Permutations(Customers)
=============================================================================
