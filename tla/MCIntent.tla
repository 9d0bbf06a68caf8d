------------------------------- MODULE MCIntent -------------------------------
(* Instances of Intent for TLC. *)
EXTENDS Intent, TLC
=============================================================================
