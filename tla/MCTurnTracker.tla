---------------------------- MODULE MCTurnTracker ----------------------------
(* Model-checking instances of TurnTracker. *)
EXTENDS TurnTracker
=============================================================================
