----------------------------- MODULE MCCollection -----------------------------
(* Instances of Collection for TLC; the configurations set its bounds. *)
EXTENDS Collection
=============================================================================
