----------------------------- MODULE MCTurnTexts -----------------------------
(* Model-checking instances of TurnTexts. *)
EXTENDS TurnTexts
=============================================================================
