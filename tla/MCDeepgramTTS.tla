---------------------------- MODULE MCDeepgramTTS ----------------------------
(* Model-checking instances of DeepgramTTS. *)
EXTENDS DeepgramTTS
=============================================================================
