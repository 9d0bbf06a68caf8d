---------------------------- MODULE RefundPromise ----------------------------
(***************************************************************************)
(* What a payer may rely on: the money of a refund is set aside before the *)
(* provider is asked, a refund set aside ends repaid or returned, once,    *)
(* and only an administrator's word undoes an end.                         *)
(***************************************************************************)
CONSTANT Refunds

VARIABLE standing
vars == standing

Init == standing = [r \in Refunds |-> "none"]

Move(r, from, to) ==
    /\ standing[r] \in from
    /\ standing' = [standing EXCEPT ![r] = to]

Ask(r)      == Move(r, {"none"}, "asked")
SetAside(r) == Move(r, {"none", "asked"}, "set_aside")
Repay(r)    == Move(r, {"set_aside"}, "repaid")

\* Declined before, or refused by the provider after, it was set aside.
Close(r)    == Move(r, {"asked", "set_aside"}, "closed")

\* An administrator's decision that comes after the money was set aside.
Overrule(r) == Move(r, {"set_aside", "repaid"}, "overruled")

Next ==
    \E r \in Refunds :
        \/ Ask(r)
        \/ SetAside(r)
        \/ Repay(r)
        \/ Close(r)
        \/ Overrule(r)

Spec == Init /\ [][Next]_vars
=============================================================================
