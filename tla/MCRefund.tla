------------------------------- MODULE MCRefund -------------------------------
(* Instances of Refund for TLC. *)
EXTENDS Refund, TLC

Symmetric == Permutations(Refunds) \cup Permutations(Admins)
=============================================================================
