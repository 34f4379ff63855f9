-------------------------------- MODULE Session --------------------------------
(***************************************************************************)
(* The registry of a worker process (SessionManager) composed with the     *)
(* pipeline task of one of its sessions in full detail (SessionBoot): who  *)
(* cancels the task and when, and what the registry and shutdown() make of *)
(* its end.  Watched may be any request, so what holds of it holds of each *)
(* session.                                                                *)
(***************************************************************************)
EXTENDS SessionManager

CONSTANTS
  Watched,    \* the request whose session is followed
  Locales     \* locales with a prompt

ASSUME WatchedAssumption == Watched \in Requests
ASSUME LocalesAssumption == Locales # {} /\ None \notin Locales

VARIABLES stage, cancel, cancels, raising, span, adapter, block, locale, prompt, last, http,
          confirms, tool, outlived, cut

\* Each delayed shutdown cancels a task at most once, and so does shutdown().
NCancels == Cardinality(Requests) + 1

B == INSTANCE SessionBoot
bootVars == <<stage, cancel, cancels, raising, span, adapter, block, locale, prompt, last, http,
              confirms, tool, outlived, cut>>
sessionVars == <<vars, bootVars>>

SessionInit == Init /\ B!Init

-----------------------------------------------------------------------------
(* The watched task. *)

\* A step of run_daily_voice_pipeline; behind its last one the task is done.
Runs(step) ==
  /\ Alive(Watched) /\ step
  /\ \/ stage' # "over" /\ UNCHANGED vars
     \/ stage' = "over" /\ PipelineEnds(Watched)

WatchedStep ==
  \/ Runs(B!BootStep) \/ Runs(B!DetectLocale) \/ Runs(B!Transcript) \/ Runs(B!ToolCall)
  \/ Runs(B!Resolved) \/ Runs(B!RunnerEnds) \/ Runs(B!ClientClosed) \/ Runs(B!Cancelled)

\* Tool calls and snapshots do not end with their session.
ToolRuns == B!ToolStep /\ UNCHANGED vars

\* task.cancel(), on the watched task if it is among the victims.  A second call
\* before the first one was delivered changes nothing.
CancelReaches(victims) ==
  IF Watched \in victims /\ Alive(Watched) /\ ~cancel THEN B!Cancel ELSE UNCHANGED bootVars

-----------------------------------------------------------------------------
(* The registry. *)

\* A pipeline migrates while it runs.
Schedules(r) ==
  /\ ScheduleShutdown(r) /\ (r = Watched => stage = "running")
  /\ UNCHANGED bootVars

GraceEnds(r) == GraceOver(r) /\ CancelReaches(hits'[r])
Stops == ShutdownBegins /\ CancelReaches(Registered)
Stopped == ShutdownEnds /\ UNCHANGED bootVars

Received(r) == (\E id \in Ids : Receive(r, id)) /\ UNCHANGED bootVars
Answered(r) == (RoomCreated(r) \/ SpawnPipeline(r) \/ RequestFails(r)) /\ UNCHANGED bootVars
OtherEnds(r) == r # Watched /\ PipelineEnds(r) /\ UNCHANGED bootVars
Forgotten(r) == HandleDone(r) /\ UNCHANGED bootVars

-----------------------------------------------------------------------------
SessionNext ==
  \/ WatchedStep \/ ToolRuns \/ Stops \/ Stopped
  \/ \E r \in Requests :
       Received(r) \/ Answered(r) \/ OtherEnds(r) \/ Forgotten(r) \/ Schedules(r) \/ GraceEnds(r)

\* Timers, callbacks and ready tasks run, HTTP calls time out.  Of the watched
\* task no more is assumed than that its awaits end: the fetch has a time
\* limit, closing a client ends, and a cancelled runner ends; of the others that
\* a cancelled one ends.  A pipeline that nobody cancels may run for ever.
SessionFairness ==
  /\ WF_sessionVars(Stopped)
  /\ WF_sessionVars(Runs(B!BootStep)) /\ WF_sessionVars(Runs(B!ClientClosed))
  /\ WF_sessionVars(Runs(B!Cancelled)) /\ WF_sessionVars(cancel /\ Runs(B!RunnerEnds))
  /\ \A r \in Requests :
       /\ WF_sessionVars(Answered(r)) /\ WF_sessionVars(Forgotten(r))
       /\ WF_sessionVars(GraceEnds(r))
       /\ WF_sessionVars(task[r] = "cancelling" /\ OtherEnds(r))

SessionSpec == SessionInit /\ [][SessionNext]_sessionVars /\ SessionFairness

-----------------------------------------------------------------------------
(* Properties. *)

\* The registry and the task agree: the task begins when it is spawned, is over
\* when the registry finds it done, and a cancellation it has not been
\* delivered yet is one the registry asked for.
Coupled ==
  /\ B!TypeOK
  /\ stage # "new" \/ cancel => task[Watched] # "none"
  /\ stage = "over" <=> task[Watched] \in {"done", "gone"}
  /\ cancel => task[Watched] = "cancelling"

\* Every session that ran is reported when its task is over, and when shutdown()
\* has returned, wherever the delayed shutdown and shutdown() cut it off: its span
\* is ended, and a confirmation is left pending only by a tool call that was still
\* at work at the teardown.
SessionsAreReported ==
  stage = "over" \/ (mgr = "down" /\ Distinct) => B!Reported

\* A task is cancelled once by each delayed shutdown that hit it and once by
\* shutdown(); as long as ids are distinct that is twice at most, and once
\* unless the session migrated.
CancelsCounted ==
  LET stops == IF mgr = "up" THEN 0 ELSE 1 IN
  /\ cancels <= Cardinality({r \in Requests : Watched \in hits[r]}) + stops
  /\ Distinct => cancels <= (IF grace[Watched] = "over" THEN 1 ELSE 0) + stops

\* No HTTP client outlives its session but in the two cases of SessionBoot.  The
\* closing is hit only by the session's own delayed shutdown, by shutdown(), or by
\* that of another session with its id; and while the process is up the client
\* of the context fetch is closed, as nobody migrates during boot.
ClientsAreClosed ==
  /\ B!ClientsClosed
  /\ Distinct /\ cut => grace[Watched] = "over" \/ mgr # "up"
  /\ Distinct /\ mgr = "up" /\ stage = "over" => adapter # "open"

\* A worker that migrated does end, while the process is up: nothing lets
\* it keep talking in the old room, unless its id was taken by another.
GraceEndsOldWorker ==
  \A t \in Requests : grace[t] = "armed" ~> ~Alive(t) \/ ~Distinct

\* shutdown() terminates, wherever it meets the watched task.
ShutdownTerminates == mgr = "stopping" ~> mgr = "down"
=============================================================================
