------------------------------- MODULE MCOutbox -------------------------------
(* An instance of Outbox for TLC; the configuration sets its bounds. *)
EXTENDS Outbox
=============================================================================
