---------------------------- MODULE MCSubscription ----------------------------
(* Instances of Subscription for TLC. *)
EXTENDS Subscription, TLC

Symmetry == Permutations(Keys) \cup Permutations(Callers) \cup Permutations(Workers)
=============================================================================
