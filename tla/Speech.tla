-------------------------------- MODULE Speech --------------------------------
(***************************************************************************)
(* What a streaming text-to-speech service promises its pipeline: calls    *)
(* are spoken one after the other, each hears its own speech until it      *)
(* ends, once, and hears another's only behind an interruption.            *)
(***************************************************************************)
EXTENDS Naturals

CONSTANTS NCalls   \* number of calls of a behaviour

VARIABLES
  open,    \* the service takes calls
  phase,   \* of each call: new, speaking or over
  heard,   \* the calls whose speech each call consumed
  end      \* how each call ended
vars == <<open, phase, heard, end>>

Calls == 1 .. NCalls

Init ==
  /\ open = TRUE /\ phase = [s \in Calls |-> "new"]
  /\ heard = [s \in Calls |-> {}] /\ end = [s \in Calls |-> "none"]

Begin(s) ==
  /\ open /\ phase[s] = "new" /\ \A t \in Calls : t < s => phase[t] = "over"
  /\ phase' = [phase EXCEPT ![s] = "speaking"] /\ UNCHANGED <<open, heard, end>>

\* Speech of s itself, or of a call before it if that one, or one still
\* earlier, was cut off.
Audible(s) == {s} \cup {t \in Calls : t < s /\ \E u \in Calls : u <= t /\ end[u] = "cancelled"}

Hear(s) ==
  /\ phase[s] = "speaking"
  /\ \E t \in Audible(s) : heard' = [heard EXCEPT ![s] = @ \cup {t}]

Ends(s, how) ==
  /\ phase[s] = "speaking"
  /\ phase' = [phase EXCEPT ![s] = "over"] /\ end' = [end EXCEPT ![s] = how]

Speaks(s) == Hear(s) /\ UNCHANGED <<open, phase, end>>
Finishes(s) == Hear(s) /\ Ends(s, "stopped") /\ UNCHANGED open
Fails(s) == Ends(s, "error") /\ UNCHANGED <<open, heard>>

\* The user interrupts, or the pipeline is cancelled: whatever is spoken is
\* cut off, and in the latter case nothing more is spoken.
CutOff ==
  /\ phase' = [s \in Calls |-> IF phase[s] = "speaking" THEN "over" ELSE phase[s]]
  /\ end' = [s \in Calls |-> IF phase[s] = "speaking" THEN "cancelled" ELSE end[s]]
  /\ open' \in {open, FALSE} /\ UNCHANGED heard

\* The pipeline ends: what is spoken is finished first.
Close ==
  /\ open /\ \A s \in Calls : phase[s] # "speaking"
  /\ open' = FALSE /\ UNCHANGED <<phase, heard, end>>

Next == CutOff \/ Close \/ \E s \in Calls : Begin(s) \/ Speaks(s) \/ Finishes(s) \/ Fails(s)
Spec == Init /\ [][Next]_vars
=============================================================================
