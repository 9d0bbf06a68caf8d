----------------------------- MODULE PayoutPromise -----------------------------
(***************************************************************************)
(* What a driver and finance may rely on: a payout takes its amount out of *)
(* what its settlement owes and the driver's money covers, then is paid    *)
(* once or dropped, each in one step.                                      *)
(***************************************************************************)
EXTENDS Integers, Functions

CONSTANTS Settlements, Payouts, Nothing, MaxAmount

VARIABLES
    due,            \* due[s]: what settlement s owes, for those that exist
    funds,          \* the driver's money; negative when he owes us
    pledged,        \* what he asked to withdraw himself
    stage           \* stage[p] = [at, of, amount]
vars == <<due, funds, pledged, stage>>

None == [at |-> "none", of |-> Nothing, amount |-> 0]

Sum(P) == SumFunctionOnSet([p \in Payouts |-> stage[p].amount], P)
Held == {p \in Payouts : stage[p].at = "held"}
Against(s) == {p \in Payouts : stage[p].of = s /\ stage[p].at \in {"held", "paid"}}
Free == funds - pledged - Sum(Held)

Init ==
    /\ due = [s \in {} |-> 0]
    /\ funds = 0
    /\ pledged = 0
    /\ stage = [p \in Payouts |-> None]

Settle(s) ==
    /\ s \notin DOMAIN due
    /\ due' \in [DOMAIN due \cup {s} -> Int]
    /\ \A t \in DOMAIN due : due'[t] = due[t]
    /\ funds' = funds + (IF due'[s] > 0 THEN due'[s] ELSE 0)
    /\ UNCHANGED <<pledged, stage>>

TakeShare == funds' = funds - 1 /\ UNCHANGED <<due, pledged, stage>>

Withdraw ==
    /\ Free > 0
    /\ pledged' = pledged + 1
    /\ UNCHANGED <<due, funds, stage>>

Hold(p, s, a) ==
    /\ stage[p] = None
    /\ s \in DOMAIN due
    /\ a <= Free
    /\ a + Sum(Against(s)) <= due[s]
    /\ stage' = [stage EXCEPT ![p] = [at |-> "held", of |-> s, amount |-> a]]
    /\ UNCHANGED <<due, funds, pledged>>

Pay(p) ==
    /\ stage[p].at = "held"
    /\ stage[p].amount <= funds
    /\ funds' = funds - stage[p].amount
    /\ stage' = [stage EXCEPT ![p].at = "paid"]
    /\ UNCHANGED <<due, pledged>>

Drop(p) ==
    /\ stage[p].at = "held"
    /\ stage' = [stage EXCEPT ![p].at = "dropped"]
    /\ UNCHANGED <<due, funds, pledged>>

Next ==
    \/ TakeShare
    \/ Withdraw
    \/ \E s \in Settlements : Settle(s)
    \/ \E p \in Payouts : Pay(p) \/ Drop(p)
    \/ \E p \in Payouts, s \in Settlements, a \in 1..MaxAmount : Hold(p, s, a)

Spec == Init /\ [][Next]_vars
=============================================================================
