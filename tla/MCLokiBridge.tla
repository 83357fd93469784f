----------------------------- MODULE MCLokiBridge -----------------------------
(* Small instances of LokiBridge. *)
EXTENDS LokiBridge
=============================================================================
