--------------------------- MODULE MCSessionManager ---------------------------
(* Model-checking instances of SessionManager. *)
EXTENDS SessionManager
=============================================================================
