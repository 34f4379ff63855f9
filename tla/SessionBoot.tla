----------------------------- MODULE SessionBoot -----------------------------
(***************************************************************************)
(* The life of one session's pipeline task (run_daily_voice_pipeline in    *)
(* voice/transport.py): boot, the fetch of the user's context with its     *)
(* single-use HTTP client (voice/brain/memory_backend.py), the running     *)
(* pipeline with the system prompt of its LLM (LanguagePromptProcessor),   *)
(* and the teardown.  A migration's delayed shutdown and the process       *)
(* shutdown may cancel the task at each of its awaits; Session composes    *)
(* this with the registry that does so (SessionManager).                   *)
(*                                                                         *)
(* Tool calls and snapshots of interrupted turns are tasks of their own,   *)
(* which nobody awaits: they may go on behind the teardown.  One of them   *)
(* is followed at a time; TurnDispatcher has several, in detail.           *)
(***************************************************************************)
EXTENDS Naturals

CONSTANTS
  NCancels,   \* bound: cancellations of the task
  Locales,    \* locales with a prompt
  None        \* no prompt, no locale

VARIABLES
  stage,      \* where the task is suspended
  cancel,     \* task.cancel() was called and not delivered yet
  cancels,    \* cancellations so far
  raising,    \* CancelledError is on its way out
  span,       \* the voice.session span
  adapter,    \* the HTTP client of the context fetch
  block,      \* the USER CONTEXT block that was fetched, if any
  locale,     \* the tracker's locale
  prompt,     \* the LLM's system prompt: its locale, and whether the block is in it
  last,       \* _last_locale of LanguagePromptProcessor
  http,       \* the HTTP client of the dispatcher
  confirms,   \* confirmation spans are pending
  tool,       \* a tool-call or snapshot task
  outlived,   \* that task was not done at the teardown
  cut         \* a cancellation hit the closing of an HTTP client

ctlVars == <<cancel, cancels, raising>>
promptVars == <<locale, prompt, last>>
toolVars == <<http, confirms, tool>>
endVars == <<span, outlived, cut>>
teardownVars == <<toolVars, endVars>>
vars == <<stage, ctlVars, adapter, block, promptVars, teardownVars>>

Stages == {"new", "fetching", "releasing", "running", "closing", "over"}
Prompt(l, b) == [locale |-> l, user |-> b]

Init ==
  /\ stage = "new" /\ cancel = FALSE /\ cancels = 0 /\ raising = FALSE
  /\ span = "none" /\ adapter = "none" /\ block = FALSE
  /\ locale \in Locales /\ prompt = None /\ last = None
  /\ http = "none" /\ confirms = FALSE /\ tool = "none"
  /\ outlived = FALSE /\ cut = FALSE

-----------------------------------------------------------------------------
(* Boot. *)

\* Everything up to the fetch; without a configured Brain, or for an
\* anonymous user, there is none and the pipeline runs at once.
Boot ==
  /\ stage = "new" /\ ~cancel /\ span' = "open"
  /\ \/ /\ stage' = "fetching" /\ adapter' = "open" /\ UNCHANGED prompt
     \/ /\ stage' = "running" /\ prompt' = Prompt(locale, FALSE) /\ UNCHANGED adapter
  /\ UNCHANGED <<ctlVars, block, locale, last, toolVars, outlived, cut>>

\* The Brain answers, with or without content; or the fetch fails or times
\* out, which is an empty context.  Then the client is closed.
Fetched ==
  /\ stage = "fetching" /\ ~cancel /\ block' \in BOOLEAN
  /\ stage' = "releasing"
  /\ UNCHANGED <<ctlVars, adapter, promptVars, teardownVars>>

\* Mutant of FetchCancelled: the client is closed on errors, not in finally.
FetchCancelledPlainly ==
  /\ stage = "fetching" /\ cancel
  /\ cancel' = FALSE /\ raising' = TRUE /\ stage' = "over"
  /\ UNCHANGED <<cancels, adapter, block, promptVars, teardownVars>>

\* Cancelled while it fetches: finally still closes the client.
FetchCancelled ==
  /\ stage = "fetching" /\ cancel
  /\ cancel' = FALSE /\ raising' = TRUE /\ stage' = "releasing"
  /\ UNCHANGED <<cancels, adapter, block, promptVars, teardownVars>>

\* Mutant of Released: the block takes the place of the locale's prompt.
ReleasedRaw ==
  /\ stage = "releasing" /\ ~cancel /\ adapter' = "closed"
  /\ \/ raising /\ stage' = "over" /\ UNCHANGED prompt
     \/ ~raising /\ stage' = "running" /\ prompt' = Prompt(None, block)
  /\ UNCHANGED <<ctlVars, block, locale, last, teardownVars>>

\* The client is closed: the prompt gets the block and the pipeline runs, or
\* the cancellation goes on and ends the task.
Released ==
  /\ stage = "releasing" /\ ~cancel /\ adapter' = "closed"
  /\ \/ raising /\ stage' = "over" /\ UNCHANGED prompt
     \/ ~raising /\ stage' = "running" /\ prompt' = Prompt(locale, block)
  /\ UNCHANGED <<ctlVars, block, locale, last, teardownVars>>

\* Anything else up to the runner raises: an LLM or a service that cannot be
\* built, before or behind the start of the span and the fetch.
BootFails ==
  /\ ~cancel /\ stage' = "over"
  /\ \/ stage = "new" /\ span' \in {"none", "open"} /\ UNCHANGED adapter
     \/ stage = "releasing" /\ ~raising /\ adapter' = "closed" /\ UNCHANGED span
  /\ UNCHANGED <<ctlVars, block, promptVars, toolVars, outlived, cut>>

-----------------------------------------------------------------------------
(* The pipeline runs. *)

\* The language router detected a locale, which may be the one it has.
DetectLocale ==
  /\ stage = "running" /\ locale' \in Locales
  /\ UNCHANGED <<stage, ctlVars, adapter, block, prompt, last, teardownVars>>

\* A final transcript: the prompt of a new locale replaces the system prompt.
Transcript ==
  /\ stage = "running" /\ last # locale
  /\ prompt' = Prompt(locale, FALSE) /\ last' = locale
  /\ UNCHANGED <<stage, ctlVars, adapter, block, locale, teardownVars>>

\* The task of a backend tool, or of a snapshot, is created.
ToolCall ==
  /\ stage = "running" /\ tool = "none" /\ tool' = "started"
  /\ UNCHANGED <<stage, ctlVars, adapter, block, promptVars, http, confirms, endVars>>

\* The user decided the pending confirmations.
Resolved ==
  /\ stage = "running" /\ confirms' = FALSE
  /\ UNCHANGED <<stage, ctlVars, adapter, block, promptVars, http, tool, endVars>>

\* It asks for the dispatcher's client: the first one opens it, and the post on
\* one that aclose has closed raises.
ToolPosts ==
  /\ tool = "started"
  /\ tool' = IF http = "closed" THEN "none" ELSE "posting"
  /\ http' = IF http = "none" THEN "open" ELSE http
  /\ UNCHANGED <<stage, ctlVars, adapter, block, promptVars, confirms, endVars>>

\* It is done, with a confirmation that the user has to give, or cancelled.
ToolEnds ==
  /\ tool # "none" /\ tool' = "none"
  /\ confirms' \in {confirms, confirms \/ tool = "posting"}
  /\ UNCHANGED <<stage, ctlVars, adapter, block, promptVars, http, endVars>>

-----------------------------------------------------------------------------
(* Teardown. *)

\* Mutant of RunnerEnds: the spans are ended when the client is closed.
RunnerEndsLate ==
  /\ stage = "running" /\ cancel' = FALSE
  /\ stage' = IF http = "open" THEN "closing" ELSE "over"
  /\ outlived' = (tool # "none")
  /\ UNCHANGED <<cancels, raising, adapter, block, promptVars, toolVars, span, cut>>

\* The pipeline ends, is idle for 300 s, fails or is cancelled: finally ends
\* the session's span and the pending confirmations, then awaits the closing of
\* the dispatcher's client, if it has one.
RunnerEnds ==
  /\ stage = "running" /\ cancel' = FALSE
  /\ span' = "ended" /\ confirms' = FALSE /\ outlived' = (tool # "none")
  /\ stage' = IF http = "open" THEN "closing" ELSE "over"
  /\ UNCHANGED <<cancels, raising, adapter, block, promptVars, http, tool, cut>>

ClientClosed ==
  /\ stage = "closing" /\ ~cancel /\ stage' = "over" /\ http' = "closed"
  /\ UNCHANGED <<ctlVars, adapter, block, promptVars, confirms, tool, endVars>>

\* Mutant of Cancelled: the awaits in a finally swallow it.
CancelledIfNew ==
  /\ cancel /\ stage = "new"
  /\ cancel' = FALSE /\ stage' = "over"
  /\ UNCHANGED <<cancels, raising, adapter, block, promptVars, teardownVars>>

\* A cancellation before the first step, or of an await in a finally.
Cancelled ==
  /\ cancel /\ stage \in {"new", "releasing", "closing"}
  /\ cancel' = FALSE /\ stage' = "over" /\ cut' = (stage # "new")
  /\ UNCHANGED <<cancels, raising, adapter, block, promptVars, toolVars, span, outlived>>

\* task.cancel(), by schedule_session_shutdown or shutdown().
Cancel ==
  /\ stage # "over" /\ ~cancel /\ cancels < NCancels
  /\ cancel' = TRUE /\ cancels' = cancels + 1
  /\ UNCHANGED <<stage, raising, adapter, block, promptVars, teardownVars>>

-----------------------------------------------------------------------------
BootStep == Boot \/ Fetched \/ FetchCancelled \/ Released \/ BootFails
ToolStep == ToolPosts \/ ToolEnds
Next == BootStep \/ DetectLocale \/ Transcript \/ ToolCall \/ Resolved \/ ToolStep
          \/ RunnerEnds \/ ClientClosed \/ Cancelled \/ Cancel

Spec == Init /\ [][Next]_vars

-----------------------------------------------------------------------------
(* Properties. *)

\* Shape of the state.
TypeOK ==
  /\ stage \in Stages /\ cancel \in BOOLEAN /\ cancels \in 0 .. NCancels
  /\ raising \in BOOLEAN
  /\ span \in {"none", "open", "ended"}
  /\ adapter \in {"none", "open", "closed"} /\ http \in {"none", "open", "closed"}
  /\ block \in BOOLEAN /\ confirms \in BOOLEAN
  /\ tool \in {"none", "started", "posting"} /\ outlived \in BOOLEAN /\ cut \in BOOLEAN
  /\ locale \in Locales /\ last \in Locales \cup {None}
  /\ prompt \in [locale : Locales, user : BOOLEAN] \cup {None}

\* The session's span is ended, if its pipeline ever ran, and so is every pending
\* confirmation, but for one that a task still at work then files later.
Reported == prompt # None => span = "ended" /\ (confirms => outlived)

\* "so we don't leak connections per session": no HTTP client stays open behind a
\* session, however its boot failed or it was cancelled, but for two cases.  A
\* cancellation hit the closing itself; or a task still at work at the teardown
\* opened the dispatcher's client behind it.
ClientsClosed ==
  stage = "over" /\ ~cut => adapter # "open" /\ (http = "open" => outlived)

\* "fetch the user's USER CONTEXT block ... and append to the locale prompt":
\* the LLM never answers without the block that was fetched.
ContextKept == prompt # None /\ block => prompt.user
=============================================================================
