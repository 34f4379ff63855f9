------------------------------ MODULE MCSession ------------------------------
(* Model-checking instances of Session: no symmetry, as the run checks      *)
(* liveness too.                                                            *)
EXTENDS Session
=============================================================================
