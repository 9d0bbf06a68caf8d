----------------------------- MODULE TripPromise -----------------------------
(***************************************************************************)
(* What rider, driver and platform may rely on: a request gets one driver, *)
(* the trip departs before it is done, an ended trip stays ended, and it   *)
(* is billed when it is done, at most once.                                *)
(***************************************************************************)
CONSTANTS Requests, Drivers, Nobody

VARIABLES phase, driver, bill
vars == <<phase, driver, bill>>

Init ==
    /\ phase = [q \in Requests |-> "waiting"]
    /\ driver = [q \in Requests |-> Nobody]
    /\ bill = [q \in Requests |-> "none"]

Assign(q, d) ==
    /\ phase[q] = "waiting"
    /\ phase' = [phase EXCEPT ![q] = "assigned"]
    /\ driver' = [driver EXCEPT ![q] = d]
    /\ UNCHANGED bill

Depart(q) ==
    /\ phase[q] = "assigned"
    /\ phase' = [phase EXCEPT ![q] = "under_way"]
    /\ UNCHANGED <<driver, bill>>

\* The only step that bills: commission taken, not owed, or out of reach.
Finish(q) ==
    /\ phase[q] = "under_way"
    /\ phase' = [phase EXCEPT ![q] = "done"]
    /\ \E b \in {"none", "charged", "failed"} : bill' = [bill EXCEPT ![q] = b]
    /\ UNCHANGED driver

CallOff(q) ==
    /\ phase[q] \in {"assigned", "under_way"}
    /\ phase' = [phase EXCEPT ![q] = "called_off"]
    /\ UNCHANGED <<driver, bill>>

Next ==
    \E q \in Requests :
        \/ \E d \in Drivers : Assign(q, d)
        \/ Depart(q)
        \/ Finish(q)
        \/ CallOff(q)

Spec == Init /\ [][Next]_vars
=============================================================================
