----------------------------- MODULE OutboxPromise -----------------------------
(***************************************************************************)
(* What the outbox promises a producer, with no relay, claim or clock in   *)
(* sight: a committed event is owed to its subscribers until it has been   *)
(* handled by all of them (PUBLISHED) or was given up for good (FAILED);   *)
(* it may be handled again at any time, but its outcome never changes, and *)
(* only a published event may be deleted.                                  *)
(***************************************************************************)
CONSTANT Events

VARIABLES
    outcome,    \* outcome[e]
    delivered   \* events all of whose subscribers have handled it

vars == <<outcome, delivered>>

Init == outcome = [e \in Events |-> "none"] /\ delivered = {}

Commit(e) ==
    /\ outcome[e] = "none"
    /\ outcome' = [outcome EXCEPT ![e] = "owed"]
    /\ UNCHANGED delivered

(* At least once: a late relay may still be handing out a settled event. *)
Deliver(e) ==
    /\ outcome[e] # "none"
    /\ delivered' = delivered \cup {e}
    /\ UNCHANGED outcome

Move(S, to) ==
    /\ outcome' = [e \in Events |-> IF e \in S THEN to ELSE outcome[e]]
    /\ UNCHANGED delivered

Publish(S) == (\A e \in S : outcome[e] = "owed" /\ e \in delivered) /\ Move(S, "PUBLISHED")
GiveUp(e)  == outcome[e] = "owed" /\ Move({e}, "FAILED")
Delete(S)  == (\A e \in S : outcome[e] = "PUBLISHED") /\ Move(S, "PRUNED")

Next ==
    \/ \E e \in Events : Commit(e) \/ Deliver(e) \/ GiveUp(e)
    \/ \E S \in SUBSET Events : Publish(S) \/ Delete(S)

Spec == Init /\ [][Next]_vars
=============================================================================
