---------------------------- MODULE MCRideDispatch ----------------------------
(* Instances of RideDispatch for TLC. *)
EXTENDS RideDispatch, TLC

Symmetric == Permutations(Drivers) \cup Permutations(Workers)

(* States that differ only in what nothing reads again are one: the window *)
(* of an answered offer.                                                   *)
Relevant ==
    LET window == [q \in Requests |-> {d \in Drivers : response[q][d] = "PENDING" /\ lapsed[q][d]}]
    IN  <<request, due, response, window, round, boosts, ride, announced,
          accepting, calls, boosted, lock, locals, job, overran, faults>>
=============================================================================
