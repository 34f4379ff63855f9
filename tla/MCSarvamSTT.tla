----------------------------- MODULE MCSarvamSTT -----------------------------
(* Model-checking instances of SarvamSTT. *)
EXTENDS SarvamSTT
=============================================================================
