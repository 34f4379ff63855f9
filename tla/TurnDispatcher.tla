---------------------------- MODULE TurnDispatcher ----------------------------
(***************************************************************************)
(* Tool calls of the voice LLM: the handler register_voice_tools installs  *)
(* (voice/transport.py) and VoiceTurnDispatcher                            *)
(* (voice/voice_turn_dispatcher.py), which posts a call to /voice/turn,    *)
(* shows a confirmation on the client's screen when the backend asks for   *)
(* one, and keeps the call's span open until the user decided.             *)
(*                                                                         *)
(* Actors: one task per tool call; the client-VAD processor, which pushes  *)
(* the interruption frame that has the calls cancelled                     *)
(* (cancel_on_interruption) and then starts a new turn; the session's      *)
(* teardown (aclose); and, outside src, the backend, Daily with the user's *)
(* screen behind it, and the failures of both paths.                       *)
(* An action is the code between two awaits.                               *)
(***************************************************************************)
EXTENDS Naturals, FiniteSets

CONSTANTS
  Calls,    \* tool calls of a session; also their confirmation ids
  NTurns    \* bound on the number of turns

ASSUME CallsAssumption == IsFiniteSet(Calls)
ASSUME NTurnsAssumption == NTurns \in Nat \ {0}

VARIABLES
  turn,       \* the tracker's current turn
  pushing,    \* the VAD processor pushes a StartInterruptionFrame, then starts a turn
  barges,     \* StartInterruptionFrames on their way to the LLM service
  closed,     \* dispatcher.aclose() has run
  st,         \* where each tool call is suspended, or how it ended
  kind,       \* which of the handler's paths it takes
  turnOf,     \* the turn a call was dispatched in
  reply,      \* the outcome it will report
  told,       \* what result_callback told the LLM
  span,       \* its voice.turn.outbound span
  pending,    \* _pending_confirmation_spans
  backend,    \* external: what the backend made of the request
  taken,      \* external: calls whose message Daily has taken for the client
  decided,    \* external: confirmations the user has resolved
  failed,     \* history: calls whose post or message raised
  slipped     \* history: calls dispatched while the VAD processor was pushing

vadVars == <<turn, pushing, barges>>
callVars == <<st, kind, turnOf, reply, told>>
envVars == <<backend, taken, decided>>
history == <<failed, slipped>>
vars == <<vadVars, closed, callVars, span, pending, envVars, history>>

InFlight == {"acking", "posted", "sending", "local", "speaking"}
Ended == {"told", "cancelled"}
Kinds == {"backend", "ui", "builtin"}
Replies == {"none", "executed", "deferred", "denied", "failed", "ok"}
\* The outcomes of /voice/turn; a confirmation may come without an id.
Confirms == {"confirm", "anonymous"}
Outcomes == {"executed", "denied", "other"} \cup Confirms

Init ==
  /\ turn = 1 /\ pushing = FALSE /\ barges = 0 /\ closed = FALSE
  /\ st = [c \in Calls |-> "new"] /\ kind = [c \in Calls |-> "backend"]
  /\ turnOf = [c \in Calls |-> 0]
  /\ reply = [c \in Calls |-> "none"] /\ told = [c \in Calls |-> "none"]
  /\ span = [c \in Calls |-> "none"] /\ pending = {}
  /\ backend = [c \in Calls |-> "none"]
  /\ taken = {} /\ decided = {}
  /\ failed = {} /\ slipped = {}

-----------------------------------------------------------------------------
(* The tool handler and dispatch. *)

\* The LLM emits a function call.  A backend call first pushes a spoken ack;
\* show_in_ui sends an app message; the rest run locally.
ToolCall(c, k) ==
  /\ st[c] = "new" /\ ~closed
  /\ kind' = [kind EXCEPT ![c] = k]
  /\ st' = [st EXCEPT ![c] = CASE k = "backend" -> "acking" [] k = "ui" -> "sending"
                                [] k = "builtin" -> "local"]
  /\ UNCHANGED <<vadVars, closed, turnOf, reply, told, span, pending, envVars, history>>

\* dispatch: the call belongs to the turn it finds, opens its span and posts.
Dispatch(c) ==
  /\ st[c] = "acking" /\ st' = [st EXCEPT ![c] = "posted"]
  /\ turnOf' = [turnOf EXCEPT ![c] = turn]
  /\ span' = [span EXCEPT ![c] = "open"]
  /\ slipped' = IF pushing THEN slipped \cup {c} ELSE slipped
  /\ UNCHANGED <<vadVars, closed, kind, reply, told, pending, envVars, failed>>

\* dispatch returns to the handler with reply r, its span ended.
Return(c, r) ==
  /\ st' = [st EXCEPT ![c] = "speaking"]
  /\ reply' = [reply EXCEPT ![c] = r]
  /\ span' = [span EXCEPT ![c] = IF @ = "open" THEN "ended" ELSE @]

\* The answer of /voice/turn; an unknown outcome is reported like a denial.
ResponseArrives(c) ==
  /\ st[c] = "posted"
  /\ \/ backend[c] = "executed" /\ Return(c, "executed")
     \/ backend[c] \in {"denied", "other"} /\ Return(c, "denied")
     \/ /\ backend[c] \in Confirms
        /\ st' = [st EXCEPT ![c] = "sending"] /\ UNCHANGED <<reply, span>>
  /\ UNCHANGED <<vadVars, closed, kind, turnOf, told, pending, envVars, history>>

\* Mutant of PostFails: no timeout, only an answer that cannot be read.
PostFailsUnread(c) ==
  /\ st[c] = "posted" /\ backend[c] # "none" /\ Return(c, "denied") /\ failed' = failed \cup {c}
  /\ UNCHANGED <<vadVars, closed, kind, turnOf, told, pending, envVars, slipped>>

\* The post fails or times out, whether or not the backend acted on it: dispatch
\* reports that as a denial as well (reason_code voice_turn_outbound_failed).
PostFails(c) ==
  /\ st[c] = "posted" /\ Return(c, "denied") /\ failed' = failed \cup {c}
  /\ UNCHANGED <<vadVars, closed, kind, turnOf, told, pending, envVars, slipped>>

\* Daily takes the app message.  A confirmation carries the tracker's turn as it is
\* then, not the one captured at the start of dispatch.
MessageTaken(c) ==
  /\ st[c] = "sending" /\ c \notin taken
  /\ taken' = taken \cup {c}
  /\ UNCHANGED <<vadVars, closed, callVars, span, pending, backend, decided, history>>

\* Mutant of MessageSent: finally ends the span that was just filed.
MessageSentEndingSpan(c) ==
  /\ st[c] = "sending" /\ c \in taken
  /\ IF kind[c] = "ui" THEN Return(c, "ok") /\ UNCHANGED pending
     ELSE /\ Return(c, "deferred")
          /\ pending' = IF backend[c] = "confirm" THEN pending \cup {c} ELSE pending
  /\ UNCHANGED <<vadVars, closed, kind, turnOf, told, envVars, history>>

\* send_message returned, so Daily has the message: the span of a confirmation is
\* filed under its id; a confirmation without an id is reported all the same, its
\* span ended.
MessageSent(c) ==
  /\ st[c] = "sending" /\ c \in taken
  /\ \/ kind[c] = "ui" /\ Return(c, "ok") /\ UNCHANGED pending
     \/ /\ kind[c] = "backend" /\ backend[c] = "anonymous"
        /\ Return(c, "deferred") /\ UNCHANGED pending
     \/ /\ kind[c] = "backend" /\ backend[c] = "confirm"
        /\ st' = [st EXCEPT ![c] = "speaking"] /\ reply' = [reply EXCEPT ![c] = "deferred"]
        /\ pending' = pending \cup {c} /\ UNCHANGED span
  /\ UNCHANGED <<vadVars, closed, kind, turnOf, told, envVars, history>>

\* Mutant of MessageFails: the exception of send_message is swallowed.
MessageFailsUnnoticed(c) ==
  /\ st[c] = "sending" /\ Return(c, IF kind[c] = "ui" THEN "ok" ELSE "deferred")
  /\ failed' = failed \cup {c}
  /\ UNCHANGED <<vadVars, closed, kind, turnOf, told, pending, envVars, slipped>>

\* send_message raised: show_in_ui answers with an error, dispatch with a denial.
MessageFails(c) ==
  /\ st[c] = "sending" /\ Return(c, IF kind[c] = "ui" THEN "failed" ELSE "denied")
  /\ failed' = failed \cup {c}
  /\ UNCHANGED <<vadVars, closed, kind, turnOf, told, pending, envVars, slipped>>

\* Mutant of LocalDone: a result that is none of the known ones.
LocalDoneSilently(c) ==
  /\ st[c] = "local" /\ Return(c, "silent")
  /\ UNCHANGED <<vadVars, closed, kind, turnOf, told, pending, envVars, history>>

\* A built-in tool ran, or failed: its error is the result.
LocalDone(c) ==
  /\ st[c] = "local" /\ Return(c, "ok")
  /\ UNCHANGED <<vadVars, closed, kind, turnOf, told, pending, envVars, history>>

\* The spoken text is pushed and result_callback answers the LLM.
Answer(c) ==
  /\ st[c] = "speaking" /\ st' = [st EXCEPT ![c] = "told"]
  /\ told' = [told EXCEPT ![c] = reply[c]]
  /\ UNCHANGED <<vadVars, closed, kind, turnOf, reply, span, pending, envVars, history>>

-----------------------------------------------------------------------------
(* Barge-in, confirmations and teardown. *)

\* The user speaks: the interruption frame is pushed, and awaited, first.
SpeechStarts ==
  /\ ~pushing /\ turn < NTurns /\ pushing' = TRUE /\ barges' = barges + 1
  /\ UNCHANGED <<turn, closed, callVars, span, pending, envVars, history>>

\* Then the tracker starts the new turn, before or behind the cancellations.
StartTurn ==
  /\ pushing /\ pushing' = FALSE /\ turn' = turn + 1
  /\ UNCHANGED <<barges, closed, callVars, span, pending, envVars, history>>

\* Mutant of CancelCalls: a call that is sending its message is spared.
CancelPosts ==
  LET Hit == {c \in Calls : st[c] \in InFlight \ {"sending"}} IN
  /\ barges > 0 /\ barges' = barges - 1
  /\ st' = [c \in Calls |-> IF c \in Hit THEN "cancelled" ELSE st[c]]
  /\ span' = [c \in Calls |-> IF c \in Hit \ pending /\ span[c] = "open" THEN "ended"
                              ELSE span[c]]
  /\ UNCHANGED <<turn, pushing, closed, kind, turnOf, reply, told, pending, envVars, history>>

\* The LLM service cancels its function calls; finally ends a span that no
\* confirmation was filed for.
CancelCalls ==
  LET Hit == {c \in Calls : st[c] \in InFlight} IN
  /\ barges > 0 /\ barges' = barges - 1
  /\ st' = [c \in Calls |-> IF c \in Hit THEN "cancelled" ELSE st[c]]
  /\ span' = [c \in Calls |-> IF c \in Hit \ pending /\ span[c] = "open" THEN "ended"
                              ELSE span[c]]
  /\ UNCHANGED <<turn, pushing, closed, kind, turnOf, reply, told, pending, envVars, history>>

\* The user taps, and confirmation_resolved comes back over the data channel.
Resolve(c) ==
  /\ c \in taken \ decided /\ backend[c] = "confirm"
  /\ decided' = decided \cup {c}
  /\ pending' = pending \ {c}
  /\ span' = [span EXCEPT ![c] = IF c \in pending THEN "resolved" ELSE @]
  /\ UNCHANGED <<vadVars, closed, callVars, backend, taken, history>>

\* The session's teardown closes the spans that still wait.
Close ==
  /\ ~closed /\ closed' = TRUE
  /\ pending' = {}
  /\ span' = [c \in Calls |-> IF c \in pending THEN "unresolved" ELSE span[c]]
  /\ UNCHANGED <<vadVars, callVars, envVars, history>>

\* External: the backend decides; the request may outlive its caller.
BackendDecides(c) ==
  /\ turnOf[c] # 0 /\ backend[c] = "none"
  /\ \E d \in Outcomes : backend' = [backend EXCEPT ![c] = d]
  /\ UNCHANGED <<vadVars, closed, callVars, span, pending, taken, decided, history>>

-----------------------------------------------------------------------------
CallStep(c) ==
  \/ Dispatch(c) \/ ResponseArrives(c) \/ PostFails(c) \/ MessageTaken(c) \/ MessageSent(c)
  \/ MessageFails(c) \/ LocalDone(c) \/ Answer(c)
Next ==
  \/ SpeechStarts \/ StartTurn \/ CancelCalls \/ Close
  \/ \E c \in Calls : \/ \E k \in Kinds : ToolCall(c, k)
                      \/ CallStep(c) \/ Resolve(c) \/ BackendDecides(c)

\* httpx timeouts bound the post.  Daily's send_message returns or raises, which
\* is assumed of it, and so do callbacks.
Fairness == WF_vars(CancelCalls) /\ \A c \in Calls : WF_vars(CallStep(c))

Spec == Init /\ [][Next]_vars /\ Fairness

-----------------------------------------------------------------------------
(* Properties. *)

\* Shape of the state.
TypeOK ==
  /\ turn \in 1 .. NTurns /\ pushing \in BOOLEAN /\ barges \in Nat /\ closed \in BOOLEAN
  /\ st \in [Calls -> InFlight \cup Ended \cup {"new"}]
  /\ kind \in [Calls -> Kinds]
  /\ turnOf \in [Calls -> 0 .. NTurns]
  /\ reply \in [Calls -> Replies] /\ told \in [Calls -> Replies]
  /\ span \in [Calls -> {"none", "open", "ended", "resolved", "unresolved"}]
  /\ pending \in SUBSET Calls
  /\ backend \in [Calls -> Outcomes \cup {"none"}]
  /\ taken \in SUBSET Calls /\ decided \in SUBSET Calls
  /\ failed \in SUBSET Calls /\ slipped \in SUBSET Calls

\* No span is forgotten and none is closed early: an open one belongs to a
\* call still inside dispatch or waits for the user's decision, and whatever
\* waits is open (dispatch's keep_span_open against aclose, resolve and
\* cancellation).
SpanAccounted ==
  /\ \A c \in Calls : span[c] = "open" => st[c] \in {"posted", "sending"} \/ c \in pending
  /\ \A c \in pending : span[c] = "open" /\ backend[c] = "confirm"

\* What the LLM is told of success is true: "executed" only if the backend ran
\* the tool and did not want it confirmed, "deferred" and the "ok" of show_in_ui
\* only if Daily has the message for the screen.  A denial need not be: the backend may
\* have executed the call, or wait for its confirmation, but then the post or the
\* message raised, and no other way leads there.
AnswerIsTrue ==
  \A c \in Calls :
    /\ told[c] = "executed" => backend[c] = "executed"
    /\ told[c] = "deferred" => c \in taken /\ backend[c] \in Confirms
    /\ told[c] = "ok" /\ kind[c] = "ui" => c \in taken
    /\ told[c] = "denied" /\ backend[c] \notin {"denied", "other"} => c \in failed

\* Every tool call is answered or cancelled: a silent backend, a failing
\* screen or a barge-in never leaves the LLM waiting.
CallsEnd == \A c \in Calls : st[c] \in InFlight ~> st[c] \in Ended

\* No call outlives the turn it was dispatched in while no interruption frame is
\* on its way to the LLM, but for one dispatched in the short time in which the
\* frame had been pushed and the new turn was not started: the frame may have
\* passed the LLM already.  Only in these two cases can a confirmation be sent
\* under the id of the next turn, because dispatch looks up the turn again when
\* it sends the message.
OldCallsEnded ==
  \A c \in Calls :
    turnOf[c] \notin {0, turn} => barges > 0 \/ st[c] \in Ended \/ c \in slipped
=============================================================================
