--------------------------- MODULE MCLanguageRouter ---------------------------
(* Model-checking instances of LanguageRouter. *)
EXTENDS LanguageRouter
=============================================================================
