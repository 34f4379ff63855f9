---------------------------- MODULE LanguageRouter ----------------------------
(***************************************************************************)
(* Language detection in front of the two STT services                     *)
(* (LanguageDetectionProcessor and the STT gates in                        *)
(* voice/routing/language_router.py).  Audio is held back until enough of  *)
(* it, or the end of the speech, lets the detector decide who transcribes  *)
(* it; then everything held is released and later audio passes.            *)
(*                                                                         *)
(* Two asyncio tasks run process_frame: the transport's audio task, which  *)
(* brings one audio frame after the other, and the task that handles the   *)
(* client's VAD messages.  Both may be inside _detect_and_release, so an   *)
(* action is the code between two awaits of one of them.  Every push_frame *)
(* reaches an STT gate before it suspends.                                 *)
(***************************************************************************)
EXTENDS Naturals, Sequences, FiniteSets

CONSTANTS
  NTurns,     \* bound: speech_started messages
  NFrames,    \* bound: audio frames
  Enough      \* frames in voice_language_detection_seconds

ASSUME BoundsAssumption ==
  NTurns \in Nat /\ NFrames \in Nat /\ Enough \in Nat \ {0}

VARIABLES
  turn,       \* speech_started messages so far
  frames,     \* the turn each audio frame so far was taken in
  buffer,     \* _audio_buffer
  held,       \* _pending_start: the turn of the start frame, or None
  released,   \* _released
  stt,        \* the tracker's stt_provider
  routedBy,   \* the turn whose audio decided stt, by the detection of `by`
  pc,         \* where each task is suspended in _detect_and_release
  by,         \* the turn in which each task joined the audio it has sent
  todo,       \* what is left of the list each task's release loop runs over
  live,       \* the tasks whose loop runs over the current _audio_buffer
  sent,       \* frames an STT got: which one, routed by which turn's audio
  started,    \* the starts (UserStartedSpeakingFrame) so far: which turn's, at which STT
  sure,       \* turns whose audio was detected as Indic with confidence
  overlapped, \* turns that started while the audio task was not idle
  switched    \* turns in which a later detection took another STT

clientVars == <<turn, frames>>
routerVars == <<buffer, held, released, stt, routedBy>>
taskVars == <<pc, by, todo, live>>
outVars == <<sent, started, sure, overlapped, switched>>
vars == <<clientVars, routerVars, taskVars, outVars>>

None == 0
Stts == {"deepgram", "sarvam"}
Tasks == {"audio", "vad"}
Verdicts == {"english", "indic", "guess", "failed"}

Init ==
  /\ turn = 0 /\ frames = <<>>
  /\ buffer = <<>> /\ held = None /\ released = FALSE
  /\ stt = "deepgram" /\ routedBy = None
  /\ pc = [t \in Tasks |-> "idle"] /\ by = [t \in Tasks |-> None]
  /\ todo = [t \in Tasks |-> <<>>] /\ live = {}
  /\ sent = {} /\ started = {} /\ sure = {} /\ overlapped = {} /\ switched = {}

\* A gate passes the frame to the selected STT and drops it for the other.
ToStt(f) == sent' = sent \cup {[frame |-> f, to |-> stt, by |-> routedBy]}

\* Mutant of Route: the confidence is not looked at.
RouteGuesses(verdict) == IF verdict \in {"indic", "guess"} THEN "sarvam" ELSE "deepgram"

\* pick_stt_provider after override_weak_sarvam_to_english: an Indic locale
\* without confidence, and a detector that failed, both mean English.
Route(verdict) == IF verdict = "indic" THEN "sarvam" ELSE "deepgram"

-----------------------------------------------------------------------------
(* process_frame, up to its first await. *)

\* Mutant of UserStarted: the router stays released.
UserStartedReleased ==
  /\ turn < NTurns /\ pc["vad"] = "idle"
  /\ turn' = turn + 1
  /\ buffer' = <<>> /\ live' = {} /\ held' = turn + 1
  /\ overlapped' = IF pc["audio"] = "idle" THEN overlapped ELSE overlapped \cup {turn + 1}
  /\ UNCHANGED <<frames, released, stt, routedBy, pc, by, todo, sent, started, sure, switched>>

\* UserStartedSpeakingFrame is held; the buffer becomes a new list.
UserStarted ==
  /\ turn < NTurns /\ pc["vad"] = "idle"
  /\ turn' = turn + 1
  /\ buffer' = <<>> /\ live' = {} /\ held' = turn + 1 /\ released' = FALSE
  /\ overlapped' = IF pc["audio"] = "idle" THEN overlapped ELSE overlapped \cup {turn + 1}
  /\ UNCHANGED <<frames, stt, routedBy, pc, by, todo, sent, started, sure, switched>>

\* The head of _detect_and_release: the audio so far goes to the detector.
Detect(t) ==
  /\ pc' = [pc EXCEPT ![t] = "detect"] /\ by' = [by EXCEPT ![t] = turn]

\* UserStoppedSpeakingFrame: detect from what there is.  When the router is
\* released the frame only passes.
UserStopped ==
  /\ pc["vad"] = "idle" /\ ~released /\ Detect("vad")
  /\ UNCHANGED <<clientVars, routerVars, todo, live, outVars>>

\* InputAudioRawFrame: it passes, or is kept and may complete the slice.  A
\* release loop over the current list will come to it too.
AudioFrame ==
  LET f == Len(frames) + 1 IN
  /\ f <= NFrames /\ pc["audio"] = "idle"
  /\ frames' = Append(frames, turn)
  /\ \/ released /\ ToStt(f) /\ UNCHANGED <<buffer, pc, by, todo>>
     \/ /\ ~released
        /\ buffer' = Append(buffer, f)
        /\ todo' = [t \in Tasks |-> IF t \in live THEN Append(todo[t], f) ELSE todo[t]]
        /\ IF Len(buffer) + 1 >= Enough THEN Detect("audio") ELSE UNCHANGED <<pc, by>>
        /\ UNCHANGED sent
  /\ UNCHANGED <<turn, held, released, stt, routedBy, live, started, sure, overlapped,
                 switched>>

-----------------------------------------------------------------------------
(* The rest of _detect_and_release. *)

\* The held start frame, if nobody has cleared it, passes the gate of the STT p
\* that was selected, and is dropped for the other.  switched is history.
StartReaches(p) ==
  /\ started' = started \cup [turn : {held} \ {None}, at : {p}]
  /\ switched' = IF released /\ p # stt THEN switched \cup {turn} ELSE switched

\* Mutant of DetectDone: an exception of the detector ends the task.
DetectDoneRaising(t) ==
  /\ pc[t] = "detect"
  /\ \E verdict \in Verdicts :
       /\ stt' = Route(verdict)
       /\ sure' = IF verdict = "indic" THEN sure \cup {by[t]} ELSE sure
       /\ pc' = [pc EXCEPT ![t] = IF verdict = "failed" THEN "dead" ELSE "start"]
  /\ routedBy' = by[t] /\ released' = TRUE /\ StartReaches(stt')
  /\ UNCHANGED <<clientVars, buffer, held, by, todo, live, sent, overlapped>>

\* Mutant of DetectDone: the start frame is pushed before the tracker is told.
DetectDoneStartFirst(t) ==
  /\ pc[t] = "detect"
  /\ \E verdict \in Verdicts :
       /\ stt' = Route(verdict)
       /\ sure' = IF verdict = "indic" THEN sure \cup {by[t]} ELSE sure
  /\ routedBy' = by[t] /\ released' = TRUE /\ StartReaches(stt)
  /\ pc' = [pc EXCEPT ![t] = "start"]
  /\ UNCHANGED <<clientVars, buffer, held, by, todo, live, sent, overlapped>>

\* The detector answers, fails or times out; the tracker is told, the router
\* is released and the held start frame is pushed.
DetectDone(t) ==
  /\ pc[t] = "detect"
  /\ \E verdict \in Verdicts :
       /\ stt' = Route(verdict)
       /\ sure' = IF verdict = "indic" THEN sure \cup {by[t]} ELSE sure
  /\ routedBy' = by[t] /\ released' = TRUE /\ StartReaches(stt')
  /\ pc' = [pc EXCEPT ![t] = "start"]
  /\ UNCHANGED <<clientVars, buffer, held, by, todo, live, sent, overlapped>>

\* The list the loop runs over is looked up when the start frame is through.
Rest(t) == IF pc[t] = "start" THEN buffer ELSE todo[t]

\* Mutant of Release: the list it runs over is emptied behind its first frame.
ReleaseEmptied(t) ==
  /\ pc[t] \in {"start", "release"} /\ Rest(t) # <<>>
  /\ ToStt(Head(Rest(t)))
  /\ todo' = [todo EXCEPT ![t] = <<>>]
  /\ pc' = [pc EXCEPT ![t] = "release"]
  /\ UNCHANGED <<clientVars, routerVars, by, live, started, sure, overlapped, switched>>

\* One turn of the release loop.
Release(t) ==
  /\ pc[t] \in {"start", "release"} /\ Rest(t) # <<>>
  /\ ToStt(Head(Rest(t)))
  /\ todo' = [todo EXCEPT ![t] = Tail(Rest(t))]
  /\ live' = IF pc[t] = "start" THEN live \cup {t} ELSE live
  /\ pc' = [pc EXCEPT ![t] = "release"]
  /\ UNCHANGED <<clientVars, routerVars, by, started, sure, overlapped, switched>>

\* Mutant of Released: the start frame is kept.
ReleasedKeeping(t) ==
  /\ pc[t] \in {"start", "release"} /\ Rest(t) = <<>>
  /\ buffer' = <<>> /\ live' = {}
  /\ pc' = [pc EXCEPT ![t] = "idle"] /\ by' = [by EXCEPT ![t] = None]
  /\ UNCHANGED <<clientVars, held, released, stt, routedBy, todo, outVars>>

\* The loop is over: buffer and start frame are cleared, whoever filled them.
Released(t) ==
  /\ pc[t] \in {"start", "release"} /\ Rest(t) = <<>>
  /\ buffer' = <<>> /\ live' = {} /\ held' = None
  /\ pc' = [pc EXCEPT ![t] = "idle"] /\ by' = [by EXCEPT ![t] = None]
  /\ UNCHANGED <<clientVars, released, stt, routedBy, todo, outVars>>

-----------------------------------------------------------------------------
TaskStep(t) == DetectDone(t) \/ Release(t) \/ Released(t)

Next == UserStarted \/ UserStopped \/ AudioFrame \/ \E t \in Tasks : TaskStep(t)

Spec == Init /\ [][Next]_vars

-----------------------------------------------------------------------------
(* Properties. *)

\* Shape of the state.
TypeOK ==
  /\ turn \in 0 .. NTurns
  /\ frames \in Seq(0 .. NTurns) /\ Len(frames) <= NFrames
  /\ buffer \in Seq(1 .. NFrames) /\ held \in 0 .. NTurns /\ released \in BOOLEAN
  /\ stt \in Stts /\ routedBy \in 0 .. NTurns
  /\ pc \in [Tasks -> {"idle", "detect", "start", "release"}]
  /\ by \in [Tasks -> 0 .. NTurns]
  /\ todo \in [Tasks -> Seq(1 .. NFrames)] /\ live \in SUBSET Tasks
  /\ sent \in SUBSET [frame : 1 .. NFrames, to : Stts, by : 0 .. NTurns]
  /\ started \in SUBSET [turn : 1 .. NTurns, at : Stts] /\ sure \in SUBSET (0 .. NTurns)
  /\ overlapped \in SUBSET (1 .. NTurns) /\ switched \in SUBSET (0 .. NTurns)

Waiting(f) ==
  \/ \E i \in 1 .. Len(buffer) : buffer[i] = f
  \/ \E t \in Tasks : \E i \in 1 .. Len(todo[t]) : todo[t][i] = f

\* No audio of the current turn is lost, although two tasks may detect and
\* release at once and clear each other's buffer: what was taken is at an
\* STT or still held.  Only a speech_started drops audio: what it finds, and,
\* if the audio task is releasing the turn before, what comes next.
NothingLost ==
  \A f \in 1 .. Len(frames) :
    frames[f] = turn /\ turn \notin overlapped =>
      Waiting(f) \/ \E d \in sent : d.frame = f

\* The STT that gets a turn's audio has heard of the turn, although the start
\* frame is pushed with an await and the other task may push, clear or overtake
\* it meanwhile.  Two things undo that: a second detection of the turn selects
\* the other STT, which the start frame may never reach; or the audio task was
\* inside a detection or a release when the turn began, and cleared its start.
StartBeforeAudio ==
  \A d \in sent :
    LET k == frames[d.frame] IN
    {k, d.by} \cap overlapped = {} /\ k \notin switched \cup {0} =>
      [turn |-> k, at |-> d.to] \in started

\* A released router holds nothing back, whichever task released it: frames
\* left behind would stay silent for the rest of the turn.
NothingHeldBack ==
  released /\ (\A t \in Tasks : pc[t] = "idle") => buffer = <<>> /\ held = None

\* Audio goes to Sarvam only after a confident detection of an Indic language
\* in the turn that routes it ("Bias toward English on weak Sarvam signal"),
\* however the detections of the two tasks overtake each other.
SarvamNeedsConfidence == \A d \in sent : d.to = "sarvam" => d.by \in sure

\* "Buffers the first audio slice, detects language, then releases audio to
\* STT": what an STT gets was routed by the language of its own turn, whichever
\* task detected it.  Only a speech_started that finds the audio task inside a
\* detection or a release mixes two turns.
RoutedByItsTurn ==
  \A d \in sent :
    {frames[d.frame], d.by} \cap overlapped = {} => d.by = frames[d.frame]
=============================================================================
