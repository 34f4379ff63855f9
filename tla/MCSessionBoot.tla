----------------------------- MODULE MCSessionBoot -----------------------------
(* Model-checking instances of SessionBoot. *)
EXTENDS SessionBoot
=============================================================================
