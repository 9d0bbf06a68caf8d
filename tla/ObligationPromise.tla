--------------------------- MODULE ObligationPromise ---------------------------
(***************************************************************************)
(* What riders, drivers and finance may rely on: the fare of a completed   *)
(* ride is owed until it is paid or given to the receivables, a receivable *)
(* is paid late or written off, and each of the three ends is final.       *)
(***************************************************************************)
CONSTANT Rides

VARIABLE obligation
vars == obligation

Init == obligation = [r \in Rides |-> "none"]

Move(r, from, to) ==
    /\ obligation[r] = from
    /\ obligation' = [obligation EXCEPT ![r] = to]

Fall(r)     == Move(r, "none", "owed")
PayAtOnce(r) == Move(r, "none", "paid")
Pay(r)      == Move(r, "owed", "paid")
GiveUp(r)   == Move(r, "owed", "receivable")
PayLate(r)  == Move(r, "receivable", "paid_late")
WriteOff(r) == Move(r, "receivable", "written_off")

Next ==
    \E r \in Rides :
        Fall(r) \/ PayAtOnce(r) \/ Pay(r) \/ GiveUp(r) \/ PayLate(r) \/ WriteOff(r)

Spec == Init /\ [][Next]_vars
=============================================================================
