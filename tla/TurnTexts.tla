------------------------------- MODULE TurnTexts -------------------------------
(***************************************************************************)
(* What a turn's assistant_text holds, and what the client is told of it   *)
(* (LLMSpanProcessor in voice/pipeline.py, the migration frame sender and  *)
(* TranscriptAppMessageProcessor in voice/transport.py).  A response's     *)
(* final message goes out when its end has passed the TTS, behind its last *)
(* audio, and carries the text the tracker's current turn has by then.     *)
(*                                                                         *)
(* Turns, spans and interruption frames are those of TurnTracker; a text   *)
(* is the sequence of the responses its pieces came from.                  *)
(***************************************************************************)
EXTENDS Naturals, Sequences

CONSTANTS NTurns, NResponses, NPieces   \* bounds: turns, LLM responses, text frames

ASSUME BoundsAssumption ==
  NTurns \in Nat \ {0} /\ NResponses \in Nat \ {0} /\ NPieces \in Nat

VARIABLES
  turn,       \* number of turns started; the tracker's _turn is the last
  vad,        \* the client-VAD processor: idle, pushing (its interruption frame)
  atLLM,      \* interruption frames on their way to the LLM
  atTTS,      \* interruption frames between the LLM and the frame sender
  gen,        \* the response the LLM is generating, or None
  text,       \* assistant_text of the current turn
  recording,  \* llm_span of the current turn is recording
  ttsQueue,   \* texts and ends of responses the TTS has not dealt with
  held,       \* ends of responses at the migration frame sender
  finals,     \* final messages that went out
  responses,  \* responses started
  said,       \* the number of pieces of each response
  cut,        \* responses that had started when the user last spoke
  alone       \* the response nothing has come between so far, or None

bargeVars == <<vad, atLLM, atTTS>>
trackerVars == <<turn, text, recording>>
outVars == <<ttsQueue, held, finals>>
historyVars == <<responses, said, cut, alone>>
vars == <<bargeVars, trackerVars, gen, outVars, historyVars>>

None == 0
Responses == 1 .. NResponses

\* A response's own text.
Whole(r) == [i \in 1 .. said[r] |-> r]

Init ==
  /\ turn = 0 /\ text = <<>> /\ recording = FALSE
  /\ vad = "idle" /\ atLLM = 0 /\ atTTS = 0 /\ gen = None
  /\ ttsQueue = <<>> /\ held = <<>> /\ finals = {}
  /\ responses = 0 /\ said = [r \in Responses |-> 0] /\ cut = 0 /\ alone = None

-----------------------------------------------------------------------------
(* The user speaks. *)

\* interrupt_active_spans, and the interruption frame is pushed.
SpeechStarted ==
  /\ vad = "idle" /\ turn < NTurns
  /\ vad' = "pushing" /\ atLLM' = atLLM + 1 /\ recording' = FALSE
  /\ cut' = responses /\ alone' = None
  /\ UNCHANGED <<atTTS, turn, text, gen, outVars, responses, said>>

\* Mutant of StartTurn: the turn before is not replaced.
StartTurnTwice ==
  /\ vad = "pushing" /\ vad' = "idle"
  /\ turn' = turn + 2 /\ text' = <<>> /\ recording' = FALSE
  /\ UNCHANGED <<atLLM, atTTS, gen, outVars, historyVars>>

\* start_turn: a VoiceTurn without text or spans.
StartTurn ==
  /\ vad = "pushing" /\ vad' = "idle"
  /\ turn' = turn + 1 /\ text' = <<>> /\ recording' = FALSE
  /\ UNCHANGED <<atLLM, atTTS, gen, outVars, historyVars>>

-----------------------------------------------------------------------------
(* The LLM and LLMSpanProcessor. *)

\* The first of a turn, or the one behind a tool's result, which need not wait
\* until the one before is spoken.
ResponseStarts ==
  LET r == responses + 1 IN
  /\ turn > 0 /\ gen = None /\ r \in Responses
  /\ gen' = r /\ responses' = r /\ text' = <<>> /\ recording' = TRUE
  /\ alone' = IF vad = "idle" /\ atLLM = 0 /\ atTTS = 0 THEN r ELSE None
  /\ UNCHANGED <<bargeVars, turn, outVars, said, cut>>

\* Mutant of Assembled: every piece starts the text again.
AssembledAnew(piece) == <<piece>>

\* A piece that comes when the span was interrupted starts the text again.
Assembled(piece) == Append(IF recording THEN text ELSE <<>>, piece)

ResponseText ==
  /\ gen # None /\ said[gen] < NPieces /\ said' = [said EXCEPT ![gen] = @ + 1]
  /\ text' = Assembled(gen) /\ recording' = TRUE
  /\ ttsQueue' = Append(ttsQueue, [of |-> gen, is |-> "text"])
  /\ UNCHANGED <<bargeVars, turn, gen, held, finals, responses, cut, alone>>

\* LLMFullResponseEndFrame.
ResponseEnds ==
  /\ gen # None /\ gen' = None /\ recording' = FALSE
  /\ ttsQueue' = Append(ttsQueue, [of |-> gen, is |-> "end"])
  /\ UNCHANGED <<bargeVars, turn, text, held, finals, historyVars>>

\* Mutant of InterruptLLM: the response goes on.
InterruptLLMSpan ==
  /\ atLLM > 0 /\ atLLM' = atLLM - 1 /\ atTTS' = atTTS + 1
  /\ recording' = FALSE
  /\ UNCHANGED <<vad, turn, text, gen, outVars, historyVars>>

InterruptLLM ==
  /\ atLLM > 0 /\ atLLM' = atLLM - 1 /\ atTTS' = atTTS + 1
  /\ gen' = None /\ recording' = FALSE
  /\ UNCHANGED <<vad, turn, text, outVars, historyVars>>

-----------------------------------------------------------------------------
(* Behind the LLM. *)

Spoken ==
  /\ ttsQueue # <<>> /\ Head(ttsQueue).is = "text" /\ ttsQueue' = Tail(ttsQueue)
  /\ UNCHANGED <<bargeVars, trackerVars, gen, held, finals, historyVars>>

\* The end of a response gets to the frame sender, which may hold it until a
\* migration is prepared.
ResponseSpoken ==
  /\ ttsQueue # <<>> /\ Head(ttsQueue).is = "end" /\ ttsQueue' = Tail(ttsQueue)
  /\ held' = Append(held, Head(ttsQueue).of)
  /\ UNCHANGED <<bargeVars, trackerVars, gen, finals, historyVars>>

\* voice_assistant_transcript_final, from the tracker's current turn.
FinalSent ==
  /\ held # <<>> /\ held' = Tail(held)
  /\ finals' = finals \cup {[of |-> Head(held), text |-> text, alone |-> alone = Head(held)]}
  /\ UNCHANGED <<bargeVars, trackerVars, gen, ttsQueue, historyVars>>

\* The interruption frame: what is queued here is dropped, and the tracker's
\* current turn is interrupted, whichever it is by now.
InterruptTTS ==
  /\ atTTS > 0 /\ atTTS' = atTTS - 1
  /\ ttsQueue' = <<>> /\ held' = <<>> /\ recording' = FALSE
  /\ UNCHANGED <<vad, atLLM, turn, text, gen, finals, historyVars>>

-----------------------------------------------------------------------------
Next ==
  \/ SpeechStarted \/ StartTurn
  \/ ResponseStarts \/ ResponseText \/ ResponseEnds \/ InterruptLLM
  \/ Spoken \/ ResponseSpoken \/ FinalSent \/ InterruptTTS

Spec == Init /\ [][Next]_vars

-----------------------------------------------------------------------------
(* Properties. *)

\* Shape of the state.
TypeOK ==
  /\ turn \in 0 .. NTurns /\ text \in Seq(Responses) /\ recording \in BOOLEAN
  /\ vad \in {"idle", "pushing"} /\ atLLM \in 0 .. NTurns /\ atTTS \in 0 .. NTurns
  /\ gen \in 0 .. responses /\ responses \in 0 .. NResponses
  /\ ttsQueue \in Seq([of : Responses, is : {"text", "end"}]) /\ held \in Seq(Responses)
  /\ finals \in SUBSET [of : Responses, text : Seq(Responses), alone : BOOLEAN]
  /\ said \in [Responses -> 0 .. NPieces] /\ cut \in 0 .. responses
  /\ alone \in 0 .. responses

\* A final message that nothing came between has the whole text of its
\* response, however long it was held: no other response began before it was
\* sent, the user did not speak, and no interruption frame of an earlier
\* barge-in was still on its way.
FinalOrOvertaken == \A f \in finals : f.alone => f.text = Whole(f.of)

\* "text is the full assembled assistant response from the tracker".
FinalIsResponse == \A f \in finals : f.text = Whole(f.of)

\* A barge-in silences the bot: when its interruption frame has passed, nothing
\* of a response that had started when the user spoke is generated, queued or
\* held any more, even if frames of two barge-ins are under way at once.
OldTextIsSilenced ==
  atLLM = 0 /\ atTTS = 0 =>
    /\ gen = None \/ gen > cut
    /\ \A i \in DOMAIN ttsQueue : ttsQueue[i].of > cut
    /\ \A i \in DOMAIN held : held[i] > cut
=============================================================================
