--------------------------- MODULE MCScheduledRide ---------------------------
(* Instances of ScheduledRide for TLC. *)
EXTENDS ScheduledRide, TLC

Symmetric == Permutations(Bookings) \cup Permutations(Drivers) \cup Permutations(Workers)
=============================================================================
