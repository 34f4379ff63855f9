--------------------------- MODULE MCTurnDispatcher ---------------------------
(* Model-checking instances of TurnDispatcher: no symmetry, as the runs     *)
(* check liveness too.                                                      *)
EXTENDS TurnDispatcher
=============================================================================
