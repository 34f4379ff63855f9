---------------------------- MODULE SessionManager ----------------------------
(***************************************************************************)
(* The registry of voice pipelines of one worker process                   *)
(* (VoiceSessionManager in voice/transport.py): requests that create a     *)
(* session and spawn its pipeline task, the done callback that forgets a   *)
(* task, the delayed shutdown a migration schedules, and shutdown().       *)
(*                                                                         *)
(* The registry is keyed by session id, and a client may name the id it    *)
(* wants (voice/routes/debug.py), so two tasks may share one.  An action   *)
(* is the code between two awaits.  Session composes this with the detail  *)
(* of a task (SessionBoot) and states fairness.                            *)
(***************************************************************************)
EXTENDS Naturals, FiniteSets

CONSTANTS
  Requests,   \* requests to this process; a request's task has its name
  ClientIds,  \* session ids that clients or other regions may ask for
  None        \* Python's None: no task, no id

ASSUME RequestsAssumption == Requests # {} /\ IsFiniteSet(Requests)
ASSUME FreshIdsAssumption ==
  /\ Requests \cap ClientIds = {}
  /\ None \notin Requests \cup ClientIds

\* uuid4 ids are fresh: a request that names no id gets one of its own.
Ids == ClientIds \cup Requests

VARIABLES
  mgr,      \* the process: up, stopping (in shutdown), down
  req,      \* where each request is suspended
  sid,      \* the session id of each request
  task,     \* each request's pipeline task
  reg,      \* _tasks: session id -> task
  grace,    \* the delayed shutdown each task has scheduled
  hits,     \* the tasks each delayed shutdown cancelled
  awaited   \* the tasks shutdown() gathers

vars == <<mgr, req, sid, task, reg, grace, hits, awaited>>

ReqStates == {"new", "room", "tokens", "bot", "done", "failed"}
\* done means finished with the done callback still pending, gone that it ran.
TaskStates == {"none", "running", "cancelling", "done", "gone"}
Alive(t) == task[t] \in {"running", "cancelling"}

Init ==
  /\ mgr = "up"
  /\ req = [r \in Requests |-> "new"] /\ sid = [r \in Requests |-> None]
  /\ task = [r \in Requests |-> "none"] /\ reg = [i \in Ids |-> None]
  /\ grace = [r \in Requests |-> "none"] /\ hits = [r \in Requests |-> {}]
  /\ awaited = {}

-----------------------------------------------------------------------------
(* Creating a session. *)

\* start_session up to create_room, or spawn_internal_session up to the bot
\* token; a provider secret may be missing.
Receive(r, id) ==
  /\ mgr = "up" /\ req[r] = "new" /\ id \in ClientIds \cup {r}
  /\ sid' = [sid EXCEPT ![r] = id]
  /\ \E next \in {"room", "bot", "failed"} : req' = [req EXCEPT ![r] = next]
  /\ UNCHANGED <<mgr, task, reg, grace, hits, awaited>>

RoomCreated(r) ==
  /\ req[r] = "room" /\ req' = [req EXCEPT ![r] = "tokens"]
  /\ UNCHANGED <<mgr, sid, task, reg, grace, hits, awaited>>

\* The tokens arrived: _spawn_pipeline starts the task and overwrites the
\* registry entry of its session id.
SpawnPipeline(r) ==
  /\ req[r] \in {"tokens", "bot"}
  /\ req' = [req EXCEPT ![r] = "done"]
  /\ task' = [task EXCEPT ![r] = "running"]
  /\ reg' = [reg EXCEPT ![sid[r]] = r]
  /\ UNCHANGED <<mgr, sid, grace, hits, awaited>>

\* A Daily call fails and the request is answered with an error.
RequestFails(r) ==
  /\ req[r] \in {"room", "tokens", "bot"} /\ req' = [req EXCEPT ![r] = "failed"]
  /\ UNCHANGED <<mgr, sid, task, reg, grace, hits, awaited>>

-----------------------------------------------------------------------------
(* The end of a pipeline task. *)

\* The pipeline ends, fails, or completes its cancellation.
PipelineEnds(t) ==
  /\ Alive(t) /\ task' = [task EXCEPT ![t] = "done"]
  /\ UNCHANGED <<mgr, req, sid, reg, grace, hits, awaited>>

\* Mutant of HandleDone: the entry stays.
HandleDoneKeepingEntry(t) ==
  /\ task[t] = "done" /\ task' = [task EXCEPT ![t] = "gone"]
  /\ UNCHANGED <<mgr, req, sid, reg, grace, hits, awaited>>

\* The done callback pops the entry of the session id.
HandleDone(t) ==
  /\ task[t] = "done" /\ task' = [task EXCEPT ![t] = "gone"]
  /\ reg' = [reg EXCEPT ![sid[t]] = None]
  /\ UNCHANGED <<mgr, req, sid, grace, hits, awaited>>

Cancelled(T) == [t \in Requests |-> IF t \in T /\ task[t] = "running" THEN "cancelling"
                                    ELSE task[t]]

\* A running pipeline told its client to migrate (once: see Migration).
ScheduleShutdown(t) ==
  /\ task[t] = "running" /\ grace[t] = "none"
  /\ grace' = [grace EXCEPT ![t] = "armed"]
  /\ UNCHANGED <<mgr, req, sid, task, reg, hits, awaited>>

\* Mutants of GraceOver: the cancelled task is also popped; or every registered
\* task is cancelled.
GraceOverPopping(t) ==
  /\ grace[t] = "armed" /\ mgr # "down" /\ grace' = [grace EXCEPT ![t] = "over"]
  /\ LET victim == {t2 \in Requests : t2 = reg[sid[t]] /\ Alive(t2)} IN
     /\ task' = Cancelled(victim)
     /\ hits' = [hits EXCEPT ![t] = victim]
  /\ reg' = [reg EXCEPT ![sid[t]] = None]
  /\ UNCHANGED <<mgr, req, sid, awaited>>

GraceOverEverybody(t) ==
  /\ grace[t] = "armed" /\ mgr # "down" /\ grace' = [grace EXCEPT ![t] = "over"]
  /\ LET victims == {t2 \in {reg[i] : i \in Ids} \ {None} : Alive(t2)} IN
     /\ task' = Cancelled(victims)
     /\ hits' = [hits EXCEPT ![t] = victims]
  /\ UNCHANGED <<mgr, req, sid, reg, awaited>>

\* OLD_SESSION_GRACE_SECONDS later: whatever task the id maps to now.
GraceOver(t) ==
  /\ grace[t] = "armed" /\ mgr # "down" /\ grace' = [grace EXCEPT ![t] = "over"]
  /\ LET victim == {t2 \in Requests : t2 = reg[sid[t]] /\ Alive(t2)} IN
     /\ task' = Cancelled(victim)
     /\ hits' = [hits EXCEPT ![t] = victim]
  /\ UNCHANGED <<mgr, req, sid, reg, awaited>>

-----------------------------------------------------------------------------
(* Process shutdown: the ASGI server has drained its requests. *)

\* Mutant of Registered: free entries are cancelled and awaited too.
RegisteredOrFree == {reg[i] : i \in Ids}

Registered == {reg[i] : i \in Ids} \ {None}

\* Mutant of ShutdownBegins: the tasks are awaited but not cancelled.
ShutdownBeginsWaiting ==
  /\ mgr = "up" /\ \A r \in Requests : req[r] \in {"new", "done", "failed"}
  /\ mgr' = "stopping"
  /\ awaited' = Registered
  /\ UNCHANGED <<req, sid, task, reg, grace, hits>>

ShutdownBegins ==
  /\ mgr = "up" /\ \A r \in Requests : req[r] \in {"new", "done", "failed"}
  /\ mgr' = "stopping"
  /\ awaited' = Registered
  /\ task' = Cancelled(Registered)
  /\ UNCHANGED <<req, sid, reg, grace, hits>>

\* Mutant of ShutdownEnds: the cancelled tasks are not awaited.
ShutdownEndsAtOnce ==
  /\ mgr = "stopping" /\ mgr' = "down"
  /\ UNCHANGED <<req, sid, task, reg, grace, hits, awaited>>

\* gather returned; the HTTP clients are closed.
ShutdownEnds ==
  /\ mgr = "stopping" /\ \A t \in awaited : ~Alive(t)
  /\ mgr' = "down"
  /\ UNCHANGED <<req, sid, task, reg, grace, hits, awaited>>

-----------------------------------------------------------------------------
Next ==
  \/ ShutdownBegins \/ ShutdownEnds
  \/ \E r \in Requests :
       \/ \E id \in Ids : Receive(r, id)
       \/ RoomCreated(r) \/ SpawnPipeline(r) \/ RequestFails(r)
       \/ PipelineEnds(r) \/ HandleDone(r) \/ ScheduleShutdown(r) \/ GraceOver(r)

Spec == Init /\ [][Next]_vars

-----------------------------------------------------------------------------
(* Properties. *)

\* Shape of the state.
TypeOK ==
  /\ mgr \in {"up", "stopping", "down"}
  /\ req \in [Requests -> ReqStates]
  /\ sid \in [Requests -> Ids \cup {None}]
  /\ task \in [Requests -> TaskStates]
  /\ reg \in [Ids -> Requests \cup {None}]
  /\ grace \in [Requests -> {"none", "armed", "over"}]
  /\ hits \in [Requests -> SUBSET Requests]
  /\ awaited \in SUBSET Requests

\* The registry never keeps a pipeline under another session's id, nor one
\* whose done callback has run, even when ids collide.
RegistrySound == \A i \in Ids : reg[i] # None => sid[reg[i]] = i /\ task[reg[i]] # "gone"

\* No id has been asked for twice: start_session draws a uuid4 unless the
\* caller names one.
Distinct == \A r, t \in Requests : sid[r] = sid[t] /\ sid[r] # None => r = t

\* Every live pipeline can be found under its id: a colliding id would
\* orphan one (_spawn_pipeline overwrites, _handle_done pops by id).
LiveIsRegistered == Distinct => \A t \in Requests : Alive(t) => reg[sid[t]] = t

\* After shutdown() no pipeline is left running in the process: the tasks it
\* gathers are all there are, although others end and are forgotten meanwhile.
ShutdownLeavesNothing == Distinct /\ mgr = "down" => \A t \in Requests : ~Alive(t)

\* The delayed shutdown of a migration cancels the worker that migrated and
\* no other: "cancel the old worker after a short grace window".  It looks the
\* id up when the grace period is over, so a collision could mislead it.
GraceSparesOthers == Distinct => \A t \in Requests : hits[t] \subseteq {t}
=============================================================================
