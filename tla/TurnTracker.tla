------------------------------ MODULE TurnTracker ------------------------------
(***************************************************************************)
(* Turns and their spans (VoiceTurnTracker and the processors around it in *)
(* voice/pipeline.py).  The client's VAD message starts a new turn and     *)
(* sends a StartInterruptionFrame down the pipeline; the LLM and the TTS   *)
(* span processors interrupt the tracker's current turn again when that    *)
(* frame gets to them, whichever turn is current by then.  Frames of the   *)
(* LLM and of the TTS carry no turn: they are booked on the current one.   *)
(*                                                                         *)
(* A service and its span processor are one station here: the interruption *)
(* stops the service and drops its frames as it passes (Pipecat).  Costs,  *)
(* durations and what is said are left out.                                *)
(***************************************************************************)
EXTENDS Naturals, Sequences

CONSTANTS NTurns, NResponses, NPieces   \* bounds: turns, LLM responses, text frames

\* Two turns at least: a language detected during the first speech opens one.
ASSUME BoundsAssumption ==
  NTurns \in Nat \ {0, 1} /\ NResponses \in Nat \ {0} /\ NPieces \in Nat

VARIABLES
  turns,      \* the session's turns; the tracker's _turn is the last
  vad,        \* the client-VAD processor: idle, pushing (its interruption frame)
  atLLM,      \* interruption frames on their way to the LLM
  atTTS,      \* interruption frames between the LLM and the TTS
  gen,        \* the LLM is generating a response
  ttsQueue,   \* what the TTS has to speak: texts, and ends of responses
  speaking,   \* the TTS is producing audio
  snaps,      \* the turns whose snapshot a task was given to post
  responses, pieces

ttsVars == <<ttsQueue, speaking>>
bounds == <<responses, pieces>>
vars == <<turns, vad, atLLM, atTTS, gen, ttsVars, snaps, bounds>>

\* A total span ends either measured (first audio) or interrupted.
SpanStates == {"none", "open", "ended", "interrupted"}
NewTurn == [total |-> "open", stt |-> "none", llm |-> "none", tts |-> "none",
            heard |-> FALSE]

\* ensure_turn, and the current turn it returns.
Ensured == IF turns = <<>> THEN <<NewTurn>> ELSE turns
Current == Ensured[Len(Ensured)]
Book(turn) == turns' = [Ensured EXCEPT ![Len(Ensured)] = turn]

Init ==
  /\ turns = <<>> /\ vad = "idle" /\ atLLM = 0 /\ atTTS = 0
  /\ gen = FALSE /\ ttsQueue = <<>> /\ speaking = FALSE /\ snaps = {}
  /\ responses = 0 /\ pieces = 0

-----------------------------------------------------------------------------
(* The tracker. *)

\* finish_total_span.
FinishTotal(turn, how) == [turn EXCEPT !.total = IF @ = "open" THEN how ELSE @]

Cut(span) == IF span = "open" THEN "interrupted" ELSE span

\* _snapshot_interrupted_turn, handed to a task of its own.  If its post fails, that
\* is logged and nobody tries again.
Snapshot == snaps' = snaps \cup {Len(turns)}

\* Mutant of InterruptActiveSpans: only a turn that is being spoken gets a snapshot.
InterruptSpokenSpans ==
  \/ turns = <<>> /\ UNCHANGED <<turns, snaps>>
  \/ /\ turns # <<>>
     /\ IF Current.tts = "open" THEN Snapshot ELSE UNCHANGED snaps
     /\ Book(FinishTotal([Current EXCEPT !.stt = Cut(@), !.llm = Cut(@), !.tts = Cut(@)],
                         "interrupted"))

\* interrupt_active_spans: post a snapshot, end what is recording.
InterruptActiveSpans ==
  \/ turns = <<>> /\ UNCHANGED <<turns, snaps>>
  \/ /\ turns # <<>>
     /\ Snapshot
     /\ Book(FinishTotal([Current EXCEPT !.stt = Cut(@), !.llm = Cut(@), !.tts = Cut(@)],
                         "interrupted"))

-----------------------------------------------------------------------------
(* ClientVADInterruptionProcessor. *)

\* speech_started, up to the push of the interruption frame, which may suspend.
SpeechStarted ==
  /\ vad = "idle" /\ Len(turns) < NTurns
  /\ vad' = "pushing" /\ atLLM' = atLLM + 1
  /\ InterruptActiveSpans
  /\ UNCHANGED <<atTTS, gen, ttsVars, bounds>>

\* Mutant of StartTurn: the bound on turns is off by one.
StartTwoTurns ==
  /\ vad = "pushing" /\ vad' = "idle"
  /\ turns' = turns \o <<NewTurn, NewTurn>>
  /\ UNCHANGED <<atLLM, atTTS, gen, ttsVars, snaps, bounds>>

\* start_turn, before the UserStartedSpeakingFrame.
StartTurn ==
  /\ vad = "pushing" /\ vad' = "idle"
  /\ turns' = IF turns = <<>> THEN <<NewTurn>>
              ELSE Append([turns EXCEPT ![Len(turns)] = FinishTotal(@, "interrupted")], NewTurn)
  /\ UNCHANGED <<atLLM, atTTS, gen, ttsVars, snaps, bounds>>

-----------------------------------------------------------------------------
(* STTSpanProcessor; record_language_detection. *)

\* The router detected a locale: its span needs a turn.
DetectLanguage ==
  /\ turns' = Ensured /\ turns' # turns
  /\ UNCHANGED <<vad, atLLM, atTTS, gen, ttsVars, snaps, bounds>>

\* UserStartedSpeakingFrame or an interim transcript, either of them of any
\* turn so far: the router holds the one, the STT may be late with the other.
SttStarts ==
  /\ turns # <<>> /\ Book([Current EXCEPT !.stt = "open"])
  /\ UNCHANGED <<vad, atLLM, atTTS, gen, ttsVars, snaps, bounds>>

\* A final transcript: starts the span if need be, and ends it.
Final ==
  /\ turns # <<>> /\ Book([Current EXCEPT !.stt = "ended"])
  /\ UNCHANGED <<vad, atLLM, atTTS, gen, ttsVars, snaps, bounds>>

-----------------------------------------------------------------------------
(* The LLM and LLMSpanProcessor. *)

LlmStarted(turn) == [turn EXCEPT !.llm = "open"]

ResponseStarts ==
  /\ turns # <<>> /\ ~gen /\ responses < NResponses /\ gen' = TRUE /\ responses' = responses + 1
  /\ Book(LlmStarted(Current))
  /\ UNCHANGED <<vad, atLLM, atTTS, ttsVars, snaps, pieces>>

\* A text frame starts the span again if it was interrupted.
ResponseText ==
  /\ gen /\ pieces < NPieces /\ pieces' = pieces + 1
  /\ Book(LlmStarted(Current))
  /\ ttsQueue' = Append(ttsQueue, "text")
  /\ UNCHANGED <<vad, atLLM, atTTS, gen, speaking, snaps, responses>>

\* LLMFullResponseEndFrame.
ResponseEnds ==
  /\ gen /\ gen' = FALSE
  /\ Book([Current EXCEPT !.llm = IF @ = "open" THEN "ended" ELSE @])
  /\ ttsQueue' = Append(ttsQueue, "end")
  /\ UNCHANGED <<vad, atLLM, atTTS, speaking, snaps, bounds>>

\* The interruption frame gets to the LLM: it stops, the turn is interrupted.
InterruptLLM ==
  /\ atLLM > 0 /\ atLLM' = atLLM - 1 /\ atTTS' = atTTS + 1
  /\ gen' = FALSE /\ InterruptActiveSpans
  /\ UNCHANGED <<vad, ttsVars, bounds>>

-----------------------------------------------------------------------------
(* The TTS and TTSSpanProcessor. *)

TtsStarted(turn) == [turn EXCEPT !.tts = "open"]

SpeechBegins ==
  /\ ttsQueue # <<>> /\ Head(ttsQueue) = "text" /\ ~speaking
  /\ speaking' = TRUE /\ Book(TtsStarted(Current))
  /\ UNCHANGED <<vad, atLLM, atTTS, gen, ttsQueue, snaps, bounds>>

\* An audio frame; the turn's first one ends the total span.
Audio ==
  /\ speaking
  /\ Book(IF Current.heard THEN TtsStarted(Current)
          ELSE FinishTotal([TtsStarted(Current) EXCEPT !.heard = TRUE], "ended"))
  /\ UNCHANGED <<vad, atLLM, atTTS, gen, ttsVars, snaps, bounds>>

SpeechEnds ==
  /\ speaking /\ speaking' = FALSE /\ ttsQueue' = Tail(ttsQueue)
  /\ UNCHANGED <<turns, vad, atLLM, atTTS, gen, snaps, bounds>>

\* LLMFullResponseEndFrame gets here when the texts before it are spoken.
ResponseSpoken ==
  /\ ttsQueue # <<>> /\ Head(ttsQueue) = "end" /\ ttsQueue' = Tail(ttsQueue)
  /\ Book([Current EXCEPT !.tts = IF @ = "open" THEN "ended" ELSE @])
  /\ UNCHANGED <<vad, atLLM, atTTS, gen, speaking, snaps, bounds>>

InterruptTTS ==
  /\ atTTS > 0 /\ atTTS' = atTTS - 1
  /\ ttsQueue' = <<>> /\ speaking' = FALSE /\ InterruptActiveSpans
  /\ UNCHANGED <<vad, atLLM, gen, bounds>>

-----------------------------------------------------------------------------
Next ==
  \/ SpeechStarted \/ StartTurn \/ DetectLanguage \/ SttStarts \/ Final
  \/ ResponseStarts \/ ResponseText \/ ResponseEnds \/ InterruptLLM
  \/ SpeechBegins \/ Audio \/ SpeechEnds \/ ResponseSpoken \/ InterruptTTS

Spec == Init /\ [][Next]_vars

-----------------------------------------------------------------------------
(* Properties. *)

\* Shape of the state.
TypeOK ==
  /\ turns \in Seq([total : SpanStates, stt : SpanStates, llm : SpanStates, tts : SpanStates,
                    heard : BOOLEAN])
  /\ Len(turns) \in 0 .. NTurns
  /\ vad \in {"idle", "pushing"} /\ atLLM \in 0 .. NTurns /\ atTTS \in 0 .. NTurns
  /\ gen \in BOOLEAN /\ speaking \in BOOLEAN
  /\ ttsQueue \in Seq({"text", "end"}) /\ snaps \in SUBSET (1 .. NTurns)
  /\ responses \in 0 .. NResponses /\ pieces \in 0 .. NPieces

\* Only the current turn is still being measured, whatever the order in which
\* the VAD processor and the two copies of its interruption frame get there.
OldTurnsClosed == \A i \in 1 .. Len(turns) - 1 : turns[i].total # "open"

\* A mouth-to-ear span ends once: a turn that was interrupted never gets a
\* first-audio time later, and a measured one never turns into an interrupted one.
MeasuredOnce ==
  [][\A i \in 1 .. Len(turns) :
       turns[i].total # "open" => turns'[i].total = turns[i].total]_vars

\* "Interrupted turns must persist too": a turn the user opened by speaking is
\* not left without a task that posts its snapshot.  (The language detection may
\* open the first one while the interruption frame of the first speech is being
\* pushed.)
InterruptedPersisted ==
  \A i \in 2 .. Len(turns) - 1 : i \in snaps

\* What is settled when the next turn starts: the mouth-to-ear span and, for a
\* turn the user opened, the snapshot.
OldTurnsSettled == OldTurnsClosed /\ InterruptedPersisted
=============================================================================
