----------------------------- MODULE IntentPromise -----------------------------
(***************************************************************************)
(* What a driver and Finance may rely on: an intent is paid for once, by   *)
(* one payment made for it, or goes to review with a payment that Finance  *)
(* holds; neither is ever taken back here, and no payment is both applied  *)
(* and held.                                                               *)
(***************************************************************************)
CONSTANTS Intents, Payments, Nothing

VARIABLES
    standing,       \* standing[i]: "none", "open", "failed", "paid", "review"
    fate            \* fate[p] = [is, on]: "untracked", "applied" or "held"
vars == <<standing, fate>>

Untracked == [is |-> "untracked", on |-> Nothing]

Init ==
    /\ standing = [i \in Intents |-> "none"]
    /\ fate = [p \in Payments |-> Untracked]

Move(i, from, to) ==
    /\ standing[i] \in from
    /\ standing' = [standing EXCEPT ![i] = to]

Open(i) == Move(i, {"none"}, "open") /\ UNCHANGED fate

Fail(i) == Move(i, {"open"}, "failed") /\ UNCHANGED fate

\* The payments P, which nothing tracked before, are held on i.
Track(i, P, applied) ==
    /\ \A p \in P : fate[p] = Untracked
    /\ fate' = [p \in Payments |->
                  CASE p \notin P                 -> fate[p]
                    [] p \in P /\ p = applied     -> [is |-> "applied", on |-> i]
                    [] p \in P /\ p # applied     -> [is |-> "held", on |-> i]]

Pay(i, P, p) ==
    /\ p \in P
    /\ Move(i, {"open", "failed"}, "paid")
    /\ Track(i, P, p)

Review(i, P) ==
    /\ P # {}
    /\ Move(i, {"open", "failed"}, "review")
    /\ Track(i, P, Nothing)

\* A further payment for a decided intent, or for no intent of ours.
Hold(i, P) ==
    /\ P # {}
    /\ i # Nothing => standing[i] \in {"paid", "review"}
    /\ Track(i, P, Nothing)
    /\ UNCHANGED standing

Next ==
    \/ \E i \in Intents : Open(i) \/ Fail(i)
    \/ \E P \in SUBSET Payments, i \in Intents \cup {Nothing} : Hold(i, P)
    \/ \E P \in SUBSET Payments, i \in Intents :
          Review(i, P) \/ \E p \in P : Pay(i, P, p)

Spec == Init /\ [][Next]_vars
=============================================================================
