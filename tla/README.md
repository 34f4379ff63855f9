# Formal models of orchet-voice

TLA+ modules, TLC configurations and TLAPS proofs kept beside the voice worker in `src/`.
They describe what happens *between* the `await`s of the code: barge-ins that cancel
whatever is in flight, late answers, two tasks inside one method, cancellations during
boot and teardown, colliding session ids.  Wording, prices, durations and log records are
left out.

The code runs on Pipecat 0.0.61 and one asyncio event loop.  A step of a model is the
code from one suspension point of a task to the next; nothing can come between two
statements that have no `await` between them, and anything can come at an `await`.

## 1. The system

One worker process hosts the pipelines of many users.  A web or iOS client asks
(`/debug/start_voice_session`), another region asks (`/internal/spawn_session`), and
`VoiceSessionManager` creates a Daily room and starts a pipeline task.  In it frames go

    Daily in -> VAD messages -> language router -> STT (Deepgram | Sarvam) -> STT spans
      -> locale prompt -> context -> LLM -> LLM spans -> TTS (Deepgram | Sarvam)
      -> TTS spans -> migration frame -> transcript messages -> Daily out

and the LLM's tool calls go to the backend's `/voice/turn`.

| Component (source) | State it keeps | Operations | Talks to | What is hard | What makes it correct | Module |
|---|---|---|---|---|---|---|
| Streaming TTS (`providers/tts_deepgram_ws.py`) | one WebSocket, its reader task, the registered segment queue, two locks | `prewarm`, `run_tts`, barge-in (`Clear`), `stop`, `cancel`, reader loop | Deepgram; Pipecat cancels it | cancellation at every await, late finalizers, stale frames, teardown behind a connect | the draining call is fed, no second or orphaned socket, no stale audio without an interruption, every call and shutdown ends | `DeepgramTTS`, `Speech` |
| Session registry (`transport.py`, `routes/`, `server.py`) | `_tasks` by session id | `start_session`, `spawn_internal_session`, done callback, `schedule_session_shutdown`, `shutdown` | Daily, the routes, the migration | ids that collide, callbacks during shutdown, a lookup that is delayed | an entry is its session's pipeline, live pipelines are registered, shutdown leaves none, only the old worker is cancelled | `SessionManager`, `Session` |
| Region migration (`transport.py`, `region_router.py`) | prepare task, `_sent` | request, prepare in two regions, send at a response's end, delayed shutdown | language router, Daily, another region | a barge-in cancels the awaiter and with it the awaited task; lost answers; sending again | the user always has a worker; one destination; the sender's wait ends, and it is lost only in two named cases | `Migration`, `Handover` |
| Tool calls (`voice_turn_dispatcher.py`, `transport.py`) | confirmation spans, one HTTP client | built-in tool, `dispatch`, confirmation, `resolve_confirmation`, `aclose` | LLM, backend, the client's screen | timeouts against executions, cancellation between answer and filing, a turn that changes meanwhile | spans are accounted for, no success is reported that did not happen, a call outlives its turn only in two named cases, every call is answered | `TurnDispatcher` |
| Turns and spans (`pipeline.py`) | the current turn and its spans | `start_turn`, `interrupt_active_spans`, the span processors | every station of the pipeline | one interruption arrives three times, at different moments; frames carry no turn | only the current turn is open, measured once, interrupted ones are handed on to be posted | `TurnTracker` |
| Language router (`routing/language_router.py`) | audio buffer, held start frame, `_released` | hold, detect, release, gate | Sarvam's detector, tracker, both STTs | two tasks inside `_detect_and_release` | nothing is lost or held back, an STT gets a turn's start first, Sarvam only with confidence, a turn is routed by its own audio | `LanguageRouter` |
| Session boot and teardown, user context, locale prompt (`transport.py`, `brain/memory_backend.py`, `LanguagePromptProcessor`) | the session's span, two HTTP clients, the system prompt | boot, fetch, run, cancel, tear down | Brain, the registry | cancellation at each await, fail-open, tool calls that outlive their session | what ran is reported, clients are closed (two named exceptions), a cancelled task ends | `SessionBoot`, `Session` |
| Transcript messages and the assistant text (`transport.py`, `pipeline.py`) | the turn's `assistant_text`; the messages read it later | LLM text, end of a response, final message, interruption | LLM, TTS, migration frame sender, client | the text is read when the response has been *spoken*, and may be another response's by then | a final message nothing came between is whole; a barge-in silences what was there | `TurnTexts` |
| Sarvam STT (`providers/stt_sarvam.py`) | one WebSocket and its receiver task, no lock | `start`, `run_stt`, `flush`, `set_language`, `stop`, `cancel`, receiver | Sarvam, the language router's tasks | four tasks inside `_connect` and `_disconnect` | no socket is left open, a stopped service is silent, but for overtaken connections | `SarvamSTT` |
| Sarvam TTS, LLM router, tool catalog and built-in tools, authentication, cost tracker, tracing, settings | none between calls, or sums | – | – | – | – | not modelled |

Statuses and notes for each component are in `PROJECT.json`, with the hazards of the code
line by line, the definitions' source lines (`map`) and the mutants of each property.

### How the modules meet

Most modules are separate because their components share little: what one needs of another is
a step with a nondeterministic result.  Where they do share state they are composed.

* `Session` composes the registry (`SessionManager`) with one of its tasks in full detail
  (`SessionBoot`).  `Cancel` there is part of `GraceOver` and `ShutdownBegins` here, and a task's
  last step is `PipelineEnds`.  It implements both, which is proved (`SessionImplementsTask`,
  `SessionImplementsRegistry`), so that what holds of either holds of the composition.
* `Migration` schedules the delayed shutdown of its session; `SessionManager` models what
  that does to the registry (`ScheduleShutdown`, `GraceOver`).
* `LanguageRouter` calls `record_language_detection` (`TurnTracker`, `SessionBoot`) and
  `request_migration` (`Migration`).
* A barge-in (`TurnTracker`'s and `TurnTexts`' `SpeechStarted`) is `BargeIn` of
  `DeepgramTTS` and `Migration`, `SpeechStarts`, `StartTurn` and `CancelCalls` of `TurnDispatcher` and
  `UserStarted` of `LanguageRouter`.
* `LanguageRouter`'s two tasks are the two senders of `SarvamSTT`: what they release, or let
  through, are its `RunStt` steps.
* `TurnTexts` has the turns and interruption frames of `TurnTracker` and the texts it leaves
  out; the frame sender of `Migration` is what `held` waits in.
* `Cancel` of `SessionBoot`, or its runner's end, is `SessionEnds` of `Migration`.
* `SessionBoot` follows one tool call, as far as the dispatcher's client and confirmations are
  concerned; `TurnDispatcher` has several in detail, and `Close` there is `RunnerEnds` here.
* `DeepgramTTS` implements `Speech`, an abstract specification of what a pipeline is promised of
  its text-to-speech: calls are spoken one at a time and none once the service stops; each ends
  once and hears nothing behind its end; what it hears is its own speech, or comes from behind
  a cut.
* `Migration` implements `Handover`, an abstract specification of what a migration promises:
  workers are added, the client is offered one region, which has a worker, and only during the
  session, and the home worker is retired only after an offer.

## 2. The modules

Each `X.tla` is a specification with its properties at the end; `MCX.tla` and the `.cfg`
files instantiate it for TLC; `X_proofs.tla` holds its theorems.  Definitions named
"Mutant of ..." stand beside the definition they change: each is a plausible mistake in the
code and breaks one of the properties, which shows that the property says something.

### DeepgramTTS and Speech

`conn` stands for `_connection` and `_reader_task`, which are set and cleared together;
`segQueue` is `_segment_queue`.  `pc[s]` is where the run_tts call `s` is suspended: waiting
for `_send_lock`, in `websockets.connect`, behind Speak, behind Flush, draining its queue,
or in `aclose` after an error.  `sendLock` and `stateLock` are the two asyncio locks.
`up` and `down` are the frames in flight; `text` and `pending` are what the server holds.

* Pipecat runs run_tts calls one at a time.  A `StartInterruptionFrame` and a `CancelFrame`
  cancel the call in flight; the code's own handler runs first (`BargeIn`, `CancelFrame`),
  then the cancellation arrives (`Abort`).  An `EndFrame` is queued behind the call.
* The `Clear` of a barge-in is sent by a task of its own (`SendClear`), so it may be written
  after the next call's Speak and make the server forget it.  That call then ends by its
  timeout.
* The `finally` of `synthesize` runs only when the abandoned generator is finalized, at any
  later time: `lagging`, `Finalize`.  It unregisters its queue only if it is still the
  registered one.  A call cancelled during Speak or Flush leaves its queue registered too.
* A call that is cut off in `aclose` has taken the connection and not yet cancelled its reader
  (`Abort`): the old reader goes on feeding whatever queue is registered.
* `prewarm` is started while the pipeline is built, holding both locks until its connect ends.
* Of `Speech`, `phase` is what the outside sees of `pc`, `heard` is `got`, `end` is `outcome`.  Locks,
  sockets, queues, finalizers and the whole wire are stutters; taking an item from the queue is
  `Speaks` or `Finishes`, the end of an `aclose` is `Fails`, `Abort` is `CutOff`.
* The server is external: it reads what was sent, answers a Flush with audio and `Flushed`,
  may stop answering for ever, and may fail (`ServerFault`).

### SessionManager

A request's task has the request's name.  `sid` is the id a request asked for: its own
uuid4, or one that clients name (`ClientIds`).  `reg` is `_tasks`.  `task` distinguishes a
task that is over (`done`) from one whose done callback has run (`gone`), which is when
`_handle_done` pops the entry *of its session id*, whoever is registered there.  `GraceOver`
looks the id up when the grace period is over, not when it was scheduled; `hits` records whom
it cancelled.  `shutdown()` runs when the ASGI server has drained its requests.

The guarantees need that ids are distinct, which the code does not enforce; the properties say
so (`Distinct => ...`), and the runs have a colliding id, so that only `RegistrySound` is claimed
for such behaviours.

### Session

The registry and the task of one request, `Watched`, which may be any of them.  `Runs` is a step
of the task's code; behind its last one the registry finds the task done, while the tool call goes on
(`ToolRuns`).  `CancelReaches` is
`task.cancel()` on the watched task, by a delayed shutdown or by `shutdown()`; a second call before
the first one was delivered changes nothing, which is what asyncio does.  `Schedules` adds that
a pipeline migrates while it runs.  `NCancels`, the bound of `SessionBoot`, becomes what the registry
can do at most: one call by each delayed shutdown and one by `shutdown()`.

### Migration and Handover

`prepare` is the prepare task: what it awaits, or how it ended.  `try` is the region being
tried; `posted` and `worker` are spawn requests on their way and workers that exist elsewhere:
a request may be executed although its answer is lost.  `proc` is the frame sender, which
awaits the prepare task at the end of an LLM response.  A barge-in cancels the sender, and an
awaited asyncio task is cancelled with its awaiter, so the migration may be over without a
frame; the code keeps such a task and never tries again, and awaiting it once more raises
`CancelledError` in the sender's own task, which ends it (`dead`) until the next barge-in replaces
it.  `taken` are the frames Daily took, which is all that the return of `send_message` says; that
the client gets them is what the code trusts Daily for.  A frame that was taken may be sent again
if the bookkeeping behind it was cut off.  `SessionEnds` is the end of the session
from any other cause: it cancels the sender like a barge-in, and a prepare task nobody awaits
outlives it; it may spawn a worker in a room that nobody will join (and which idles out).

### TurnDispatcher

`st` is where each tool call is: in a built-in tool, waiting for `/voice/turn`, sending the
confirmation to the screen, pushing its spoken text, or over.  `turnOf` is the turn captured when
dispatch starts.  `span` and `pending` are the outbound span and `_pending_confirmation_spans`.
The backend decides at any time after the request was posted, also after the caller has timed out.
A `show_in_ui` call with an empty query is answered without the backend, like a built-in tool.

* Whatever raises inside dispatch (a timeout, an unreadable answer, a message that cannot be sent)
  is told to the LLM as a denial, as the code does, though the backend may have executed the call.
  `AnswerIsTrue` says that nothing else leads to a false denial, and nothing to a false success.
* The VAD processor pushes the interruption frame and awaits that push (`pushing`) before it
  starts the turn: the LLM service may cancel its calls before or behind `StartTurn`, and a call
  dispatched in between belongs to the old turn and may survive it (`slipped`).
* `taken` are the messages Daily took.  Confirmation ids are taken to be unique, one for each call.
* `failed` and `slipped` are history variables: nothing reads them but the properties.

### TurnTracker

`turns` is the history of which the tracker keeps the last.  A service and the span processor
behind it are one station: the interruption frame that passes stops the service and interrupts
*whatever turn is current by then*.  `atLLM` and `atTTS` count the interruption frames on their
way.  `start_turn` comes after the push of the frame, which may suspend (`vad = "pushing"`).
`snaps` is the set of turns whose snapshot was handed to a task that posts it; if that fails, it is
logged and not tried again, which `OldTurnsSettled` does not speak of.

### TurnTexts

The same stations, with what is said in them.  A text is the sequence of the *responses* its
pieces came from, which is all that a message with another response's text needs.  `recording`
is whether the current turn's LLM span is recording: a text frame that finds it ended starts the
assistant text again, as the start of a response does.  The end of a response travels behind its
last audio (`ttsQueue`), may wait at the migration frame sender (`held`), and then the final
message is filled in from the turn that is current by that time.  `alone` is bookkeeping of the
property: the response that nothing has come between so far.

### SarvamSTT

`conn` and `recv` are `_connection` and `_receiver_task`, which this service sets and clears
separately.  The callers are the tasks that can be inside the service: the audio task and the
VAD task bring frames (`Senders`), the service's own frame task runs `start`, `set_language` and
`stop`, and a `CancelFrame` comes inline at any time.  `pc` is the await a caller is suspended
at, `hold` the local variable it has across it.  A receiver looks up what it reads when it first
runs (`ReaderStarts`), which may be the socket of another receiver: websockets refuses the `recv` of
whichever of the two comes while the other waits (`Refused`).  `overtaken` are the connections that another connect overwrote, or that
came back behind a disconnect; nobody closes those.  Sarvam may end a connection at any time
(`Drop`); the field keeps it, so that every later send fails.

### LanguageRouter

Two asyncio tasks run `process_frame`: the transport's audio task (an `InputAudioRawFrame` is a
system frame, handled inline) and the task of the client's VAD messages, which come one after
the other.  `pc`, `by` and `todo` are where each is in `_detect_and_release`, the turn whose
audio it sent to the detector, and the rest of the list its loop runs over.  The loop runs over
the list object that `_audio_buffer` named when it began, and a frame appended to that object
meanwhile belongs to the loop as well (`live`).  `overlapped` are the turns that start while
the audio task is not idle: the end of the earlier release clears the new turn's start frame
and its buffer, or the earlier detection routes the new turn's audio; the properties exclude
exactly these turns.

`started` says which turn's start frame reached which STT: the gate of the one that is not selected
drops it.  If a turn's second detection selects the other STT, the start, once pushed and cleared,
may never reach that one although the rest of the audio does; `switched` are these turns, and
`StartBeforeAudio` leaves them out.  The router detects on any end of speech while it is not
released, also without a start before it.

Not modelled: `_try_english_shortcut`.  It waits for an `InterimTranscriptionFrame`, but the
router stands before the STTs and their transcripts flow away from it, so no frame of the
assembled pipeline gets there.

### SessionBoot

`stage` is the await at which `run_daily_voice_pipeline` is suspended; `cancel` is a
cancellation that was requested and not delivered; `raising` one that is on its way out of the
context fetch.  `prompt` is the LLM's system prompt as far as it matters: its locale and
whether the user's context is in it.  A cancelled fetch still closes its client, unless a
cancellation hits that very await (`cut`).  An exception of the boot outside the fetch ends the task
without the `finally` (`BootFails`).  Who cancels, and when, is `Session`'s matter; by itself the
module allows `NCancels` calls at any time.

`tool` is a tool call, or the post of an interrupted turn's snapshot.  These are tasks of their own
that nobody awaits, so their steps do not depend on `stage`: behind the teardown one may still ask
for the dispatcher's client (which opens it if it was not open yet, and raises if it was closed) and
file a confirmation.  `outlived` says that such a task was there at the teardown.  One is followed at
a time, which loses nothing, as they meet only in the client and in `confirms`.

## 3. The runs

| Run | Shows | Bounds, and why they are enough |
|---|---|---|
| `TTSBargeIn` | the registered consumer, the single socket, stale audio only behind an interruption | 3 calls, 2 sockets, 1 barge-in: an interrupted call, the one that gets its frames, and one more, on the same or on a fresh socket, with prewarm and shutdown at any moment |
| `TTSLive` | every call and every shutdown ends; the service implements `Speech` | 2 calls, 1 socket, 1 barge-in, 1 server fault; the server may also stay silent for ever |
| `Sessions` | the registry, the delayed shutdown, `shutdown()` | 3 requests and one id that clients name: two may collide while the third is independent |
| `Session` | registry and task agree, reporting and clients with a tool call that outlives the session; old workers and `shutdown()` end | 2 requests and one id that clients name, 1 locale (more of them multiply the states and only matter to the prompt), 1 tool call at a time: the watched task is cancelled by its own delayed shutdown, by another one's through a shared id, by `shutdown()`, or by two of them, the second in the teardown of the first |
| `Migration` | `Handover`; the sender's wait ends, and the sender is lost only when a barge-in cancelled the prepare task or a send raised | home in `iad`, both target regions, 3 barge-ins, 4 responses: interrupted before and after Daily took the frame, and more responses; the session may end at any moment |
| `Dispatch` | spans, truthful answers, which calls outlive their turn, every call ends | 2 calls over 3 turns: one call cut off by a barge-in while another waits for the user, or is dispatched inside the push of the interruption |
| `Turns` | old turns are closed and handed on to be posted | 3 turns, one response, one text: two interruption frames in flight at once, an old turn, a current one and one between |
| `TurnTexts` | final messages, silence behind a barge-in | 3 turns, 3 responses of up to 2 pieces: a response spoken, one generated and one interrupted at the same time |
| `FinalIsResponse` | **violated:** a final message carries another response's text | 2 turns, 2 responses |
| `LanguageRouter` | audio, each STT's start frame, confidence, own routing | 3 turns, 6 frames, a slice of 2: both tasks detect in one turn, and the late one reaches the next |
| `SarvamSTT` | sockets, late transcripts | 3 sockets, 2 frames, 1 change of language: two senders that connect at once while the language changes and a CancelFrame comes |
| `SessionBootPrompt` | **violated:** the first transcript drops the user's context | no cancellation, 2 locales |

Deadlock is not checked (`CHECK_DEADLOCK FALSE`): calls, turns, sessions and frames are bounded
and a behaviour may end when they are used up.  Where waiting for ever would be a mistake of
the code, a liveness property says so.  There is no symmetry: runs with liveness do not allow
it, and turns and segments are ordered.

### What the violated runs show

* `FinalIsResponse`.  The final message of a response is filled in when the response has been
  spoken, from the tracker's current turn.  A response that starts meanwhile (behind a tool's
  result, or in the next turn) has emptied that text and put its own there, so the client is
  told "the full assembled assistant response" of the wrong response.  `FinalOrOvertaken` shows
  that nothing else damages a final message.
* `SessionBootPrompt`.  `LanguagePromptProcessor` starts with no last locale, so the first final
  transcript replaces the whole system prompt, and the user context that boot fetched and
  appended is gone before the LLM answers for the first time.

### Seen while modelling, and not kept as runs

* With a colliding session id the second pipeline overwrites the first one's entry, the first
  one's callback removes the second's, the delayed shutdown of one cancels the other, and
  `shutdown()` misses what is not registered.  Hence `Distinct` in the properties.
* Behind a barge-in the next TTS call plays audio of the interrupted segment that was sent before
  the server read the Clear, or ends early on its Flushed; what it leaves on the wire goes to the
  call after it, and so on until the socket is replaced.  The comment that a Clear keeps old audio
  from polluting the next queue holds only for what the server had not sent.
  `OwnOrInterrupted` shows that an interruption is the only way in.
* `_confirmation_outcome` asks the tracker for the current turn when the answer arrives, although
  dispatch captured the turn that asked.  `OldCallsEnded` bounds this: only a call whose
  cancellation is on its way, or one dispatched while the interruption frame was being pushed, can
  send its confirmation under the next turn's id.  Nothing cancels the latter before the next
  barge-in.
* When `/voice/turn` times out or the confirmation cannot be sent, the LLM is told of a denial,
  although the backend may have executed the call or goes on waiting for the user.
* A tool call or a snapshot that first asks for the dispatcher's client behind `aclose` opens one
  that nobody closes, and a confirmation filed behind `aclose` keeps its span open.
* When a barge-in has cancelled the prepare task of a migration, each later response's end kills the
  frame sender's task, and the frames behind it wait for the next barge-in.
* If the detections of a turn's two tasks disagree, Sarvam's STT may get the turn's remaining audio
  without its start frame, and a release under way is split between the two STTs.
* A language detection does not remember its turn.  If the user stops and speaks again during the
  1.5 s it may take, its answer routes the new turn's audio and marks that turn as detected.
* A WebSocket that Sarvam's STT drops stays `_connection`; nothing reconnects, and the rest of the
  session is deaf.  Two tasks that find no connection open two, and one stays open for good.
* An interruption frame that reaches the TTS late ends the *new* turn's LLM span; the next text
  frame then restarts `assistant_text` and the beginning of the new response is gone.
* The TTS's characters accumulate over a turn and are billed at the end of each of its responses.
* Every tool call has its own idempotency key; the contract document speaks of one per turn.
* A turn the bot answered to the end is posted as interrupted when the user speaks next.
* The second LLM response of a turn (after a tool call) empties `assistant_text`, so an
  interruption snapshot lacks the first response's text.
* A migration that failed in both regions, or was cancelled by a barge-in, is never tried again.
* A session cancelled during the context fetch, or whose boot fails behind it, ends neither its span nor its dispatcher, and
  the prewarmed TTS socket is not closed: the `finally` guards only `runner.run`.
* The English shortcut of the language router cannot fire (above).

## 4. Fairness

Safety needs none: `LanguageRouter`, `TurnTracker`, `TurnTexts`, `SarvamSTT`, `SessionManager` and
`SessionBoot` state no fairness.  For liveness the others assume only what the runtime gives:

* a ready asyncio task is run, a timer fires, a done callback is called;
* an HTTP call ends (httpx timeouts, 30 s for `/voice/turn`, 0.5 s for the context),
  `websockets.connect` ends (it has an open timeout);
* closing an HTTP client ends, and so does a runner that is cancelled;
* for `CallsEnd` only: Daily's `send_message` returns or raises.  The code gives it no timeout, and
  `Migration` assumes nothing of it.

That a cancelled session task ends is not assumed but follows, in `Session`, for the task that is
followed in detail: its boot, its teardown and its swallowed cancellations are all there.  It is
assumed of the other tasks of that run, which may be any (`Watched` may be each of them).

Nothing is assumed of the users, of the Deepgram server, of the backend's decision, of the
remote region or of an LLM.  A pipeline that nobody cancels may run for ever.  Each condition is
weak fairness, mostly of a disjunction of one task's steps: the task goes on, in a way the
environment chooses.

## 5. The proofs

Each theorem holds for every value of the constants, under the named ASSUMEs of the module
(bounds are naturals; None is no id, region or locale).

| Theorem | States | Why the invariant is needed |
|---|---|---|
| `DeepgramTTS`: `TypeCorrect` | `TypeOK` | tasks and wire apart (`TaskTypes`, `WireTypes`): a step touches one of them |
| `DrainIsAlwaysFed` | `DrainIsFed` | `DrainInv`: calls in flight are one at a time, none once the service stops, and a lagging finalizer belongs to a call that is over. Only then can nobody else's unregistering hit the call that drains |
| `NoSocketIsOrphaned` | `NoOrphanSocket` | who holds which lock and which socket a closer has detached: an open socket is the connection or has been sent Close; a connect holds the state lock, so `aclose` waits for it |
| `StaleAudioNeedsInterruption` | `OwnOrInterrupted` | `FrameInv`: a frame of a call that no cancellation has cut, wherever it is on the wire, is *owned*: its call is the registered consumer, or is closing that socket, or is over and nobody reads the socket (`WireInv`); nothing of a call follows its Flush or Flushed (`OrderInv`); queues hold own or cut frames (`QueueInv`). `SerialInv` orders the calls |
| `ServiceImplementsSpeech` | `ImplementsSpeech` | `FramesAlways`: what a queue holds is what its call may hear (`QueueInv`); then one step of the service is one of `Speech`, or none, action by action (`SpeechStep`) |
| `Session`: `RegistryTypeCorrect`, `RegistryIsSound` | `TypeOK`, `RegistrySound` (of `SessionManager`'s `Spec`) | an entry's task has the entry's id and a callback still to come |
| `DistinctSessionsAreKept`, `ShutdownIsComplete`, `GraceHitsItsOwn` | `LiveIsRegistered`, `ShutdownLeavesNothing`, `GraceSparesOthers` | distinctness is not an invariant but, once broken, stays broken: `DistinctBefore` carries it backwards over a step |
| `SessionImplementsTask`, `SessionImplementsRegistry` | `SessionSpec => B!Spec`, `SessionSpec => Spec` | only types: each step is one of the task, one of the registry, or both at once (`TaskView`, `RegistryView`) |
| `RegistryAndTaskAgree` | `Coupled` | a task is spawned once (`RegInv`), and a pending cancellation is the registry's |
| `EverySessionIsReported` | `SessionsAreReported` | `TaskInv` ties the report to the stage a task is torn down at and a late confirmation to a tool call that outlived it, `ShutdownIsComplete` finds no task left, `Coupled` carries this to the detailed one |
| `CancellationsAreCounted`, `BoundIsFree` | `CancelsCounted`; `NCancels` keeps nobody from cancelling | `CountInv`: cancellations are at most the delayed shutdowns that hit the task plus that of `shutdown()`, counted as the cardinality of a set that grows by one (`DistinctCount` for ids that are distinct) |
| `ClientsDoNotLeak` | `ClientsAreClosed` | which client may be open at which stage and who opened it, from `TaskInv`, and how often the registry cancelled, from `CancelsCounted` |
| `Migration`: `TypeCorrect`, `MigrationImplementsHandover` | `TypeOK`, `ImplementsHandover` | a region that Daily was given is the frame the prepare task returned and has a worker; the home worker is given up only after that |
| `SenderIsLostOnlySo` | `SenderDies` | the prepare task is cancelled by a barge-in or by the session's end only, and a frame once sent is never awaited again |
| `TurnDispatcher`: `TypeCorrect`, `SpansAreAccounted`, `AnswersAreTrue` | `TypeOK` and the two invariants | one invariant ties each call's position to its span, the backend's decision and what it will be told |
| `OldCallsAreCancelled` | `OldCallsEnded` | `TurnInv`: the interruption frame is out before the turn starts; a call still in flight in an old turn was there when the frame was pushed, so that it is on its way, or slipped in during the push |
| `TurnTracker`: `TypeCorrect` | `TypeOK` | `SizeInv`: interruption frames in flight are at most the speeches, texts and ends queued at most the responses' |
| `OldTurnsAreClosedAndPosted`, `TurnsAreMeasuredOnce` | `OldTurnsSettled`, `MeasuredOnce` | while the VAD processor pushes its interruption, the turn it cut has its snapshot; every other step books on the current turn only and keeps how its measurement ended (`BookKeeps`) |
| `LanguageRouter`: `TypeCorrect`, `OnlyConfidenceRoutesToSarvam` | `TypeOK`, `SarvamNeedsConfidence` | the selected provider is backed by the verdict of the turn that selected it |
| `ReleasedRouterIsEmpty` | `NothingHeldBack` | a released router holds something only while a task is in its release |
| `StartPrecedesAudio` | `StartBeforeAudio` | `BufferInv`: the buffer is of the current turn; `HeardInv`: in a turn that neither exclusion applies to, the STT that is selected has its start, or the start is still held and nobody releases; `Fits` says this of one turn |
| `TurnsRouteTheirOwnAudio` | `RoutedByItsTurn` | `AgreeInv`: unless a turn began inside a detection, every task at work is at work for it, and what is selected was selected for it |
| `NoAudioIsLost` | `NothingLost` | `KeptInv`: each frame of the current turn is sent, buffered, or in the rest of a loop that shares the buffer |
| `SarvamSTT`: `TypeCorrect` | `TypeOK` | the assertion at the receiver's start is what makes a reading receiver have a socket |
| `SocketsOwned`, `SilentAfterStop` | `SocketsAreOwned`, `SilentWhenOver` | which connection and receiver a caller holds across an await; an overtaken connection stays overtaken |
| `TurnTexts`: `TypeCorrect` | `TypeOK` | `SizeInv`: interruption frames under way are at most the turns begun, the response that is generated is the last one |
| `OldTextIsDropped` | `OldTextIsSilenced` | `SilenceInv`: an interruption passes the LLM before the TTS, so behind the last one what is generated began after the user spoke |
| `FinalsAreWhole` | `FinalOrOvertaken` | `AloneInv`: while nothing comes between, the turn's text is the last response's, whole; `EndedInv` and `PastInv`: what was passed on stems from a response that started, and gets no more text once its end was passed on |

The lemmas about sequences (`AppendItem`, `HeadItem`, `ConcatItems`, `TakenAppend`, `TakenTail`,
`BookKeeps`) are stated once and cited, as are those that say which steps leave the frames on the
wire alone (`QuietKeeps`, `OutsideIsQuiet`).

Checked by TLC only: the liveness properties `EveryCallEnds`, `ShutdownEnds`,
`ShutdownTerminates`, `GraceEndsOldWorker`, `SenderReturns` and `CallsEnd` (fairness and ENABLED
are outside what the prover handles).  Every invariant and every step property that a passing run
checks is proved.  `CancelsCounted` and `MeasuredOnce` are proved although no run checks
them (`ClientsAreClosed` rests on the former).  No module uses RECURSIVE operators; nothing here is an algorithm by recursion.

## 6. What is not modelled

* The client's `voice_user_transcript` and the deltas of the assistant's text: one message per
  frame that comes by, named after the current turn, without state.  Whether a transcript gets
  that far behind the LLM's context aggregator is Pipecat's matter.
* Sarvam TTS: one WebSocket per call, opened, used and closed by one task.  (Nothing bounds its
  wait for a server that stays silent.)
* Tool catalog and built-in tools: tables of schemas, and HTTP calls that keep nothing.  What a
  built-in tool answers is the choice in `LocalDone` of `TurnDispatcher`.
* Costs, tracing, logging, settings, authentication, the LLM router, tool schemas and
  markdown stripping: pure functions or output.  A complete configuration is assumed; without
  an internal token a built-in call raises outside its `try`.
* Daily, Deepgram, Sarvam, the backend and Brain beyond what the worker sees of them.  Rooms
  that stay behind a failed request expire at Daily.
* The TTS's REST mode: Pipecat's own service.

## 7. Where this could go

Everything that keeps state across an `await`, the sums of the cost tracker aside, is in a
module, and every invariant that is checked is proved.  What would still add something:

* the composition of `TurnTexts` with `DeepgramTTS` (through `Speech`), in which a barge-in is one
  event and not the interruption at the TTS of the one and `BargeIn` of the other;
* an abstract specification of a tool call (executed at most once, answered once, confirmed by
  the user only) that `TurnDispatcher` implements.

To run: `tlc -config X.cfg MCX.tla` with the module the run names in `PROJECT.json`;
`tlapm X_proofs.tla` for the proofs.
