------------------------------- MODULE MCPayout -------------------------------
(* Instances of Payout for TLC. *)
EXTENDS Payout, TLC

Symmetric == Permutations(Settlements) \cup Permutations(Payouts) \cup Permutations(Sessions)
=============================================================================
