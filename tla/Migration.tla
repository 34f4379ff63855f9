------------------------------ MODULE Migration ------------------------------
(***************************************************************************)
(* Moving a live session to a region close to Sarvam                       *)
(* (SessionMigrationCoordinator, MigrationFrameSenderProcessor and         *)
(* VoiceSessionManager.migrate_session_to_region in voice/transport.py,    *)
(* voice/routing/region_router.py): a background task prepares a room and  *)
(* spawns a worker in the target region, falling back to the other one;    *)
(* the end of an LLM response awaits that task and sends the client the    *)
(* reconnect frame; the old worker is cancelled after a grace period.      *)
(*                                                                         *)
(* An action is the code between two awaits, or one step of a remote       *)
(* region.  A barge-in cancels whatever the frame sender is awaiting, and  *)
(* an awaited asyncio task is cancelled with its awaiter.                  *)
(***************************************************************************)
EXTENDS Naturals, Sequences

CONSTANTS
  Home,        \* the region of the running session
  NBargeIns,   \* bound on interruptions
  NResponses,  \* bound on LLM responses
  None

Preferred == <<"bom", "sin">>    \* SARVAM_PREFERRED_REGIONS
Regions == {Preferred[i] : i \in 1 .. 2}

ASSUME BoundsAssumption == NBargeIns \in Nat /\ NResponses \in Nat
ASSUME NoneAssumption == None \notin Regions \cup {Home}

VARIABLES
  prepare,    \* _prepare_task: none, what it awaits, or how it ended
  try,        \* index of the target region being tried
  posted,     \* spawn requests on their way: regions
  frame,      \* the task's result: the region of the reconnect frame, or None
  sent,       \* _sent
  proc,       \* the frame sender: ready, awaiting, sending, dead
  taken,      \* external: regions whose frame Daily has taken for the client
  worker,     \* external: regions whose worker was spawned
  home,       \* the old worker: live, graced (shutdown scheduled), cancelled, or
              \* over without that
  bargeIns, responses

prepareVars == <<prepare, try, frame>>
remoteVars == <<posted, worker>>
bounds == <<bargeIns, responses>>
vars == <<prepareVars, remoteVars, sent, proc, taken, home, bounds>>

Ended == {"ok", "staying", "cancelled"}
Preparing == {"room", "token", "spawn"}
InSession == home \in {"live", "graced"}

\* should_migrate_for_sarvam, for a locale that is routed to Sarvam.
ShouldMigrate == Home \notin Regions
\* pick_target_region and _migration_targets: the preferred order.
PickTarget == IF Home = "bom" THEN "sin" ELSE "bom"
Targets == IF PickTarget = "sin" THEN <<"sin", "bom">> ELSE Preferred

Init ==
  /\ prepare = "none" /\ try = 0 /\ frame = None /\ posted = {} /\ worker = {}
  /\ sent = FALSE /\ proc = "ready" /\ taken = {} /\ home = "live"
  /\ bargeIns = 0 /\ responses = 0

-----------------------------------------------------------------------------
(* The prepare task, and the spawn request it sends to another region. *)

\* The language router detected a Sarvam locale; later detections return early.
RequestMigration ==
  /\ InSession /\ prepare = "none" /\ ~sent /\ ShouldMigrate
  /\ prepare' = "room" /\ try' = 1
  /\ UNCHANGED <<frame, remoteVars, sent, proc, taken, home, bounds>>

\* create_room answered: the meeting token is next.
RoomCreated ==
  /\ prepare = "room" /\ prepare' = "token"
  /\ UNCHANGED <<try, frame, remoteVars, sent, proc, taken, home, bounds>>

\* create_meeting_token answered: _spawn_session_on_region posts its request.
PostSpawn ==
  /\ prepare = "token" /\ prepare' = "spawn"
  /\ posted' = posted \cup {Targets[try]}
  /\ UNCHANGED <<try, frame, worker, sent, proc, taken, home, bounds>>

\* External: the target region handles POST /internal/spawn_session, whether
\* or not anybody still waits for the answer, or it never gets the request.
RemoteSpawns(r) ==
  /\ r \in posted /\ posted' = posted \ {r} /\ worker' = worker \cup {r}
  /\ UNCHANGED <<prepareVars, sent, proc, taken, home, bounds>>
RequestLost(r) ==
  /\ r \in posted /\ posted' = posted \ {r}
  /\ UNCHANGED <<prepareVars, worker, sent, proc, taken, home, bounds>>

\* The target's {"ok": true}: the task ends with the reconnect frame.
SpawnAcknowledged ==
  /\ prepare = "spawn" /\ Targets[try] \in worker
  /\ prepare' = "ok" /\ frame' = Targets[try]
  /\ UNCHANGED <<try, remoteVars, sent, proc, taken, home, bounds>>

\* Mutant of AttemptFails: one attempt too many.
AttemptFailsOffByOne ==
  /\ prepare \in Preparing
  /\ \/ /\ try <= Len(Targets) /\ try' = try + 1 /\ prepare' = "room"
     \/ /\ try = Len(Targets) /\ prepare' = "staying" /\ UNCHANGED try
  /\ UNCHANGED <<frame, remoteVars, sent, proc, taken, home, bounds>>

\* Daily, the signing of the service token or the spawn fails or times out,
\* or its answer is lost: next region, or stay.
AttemptFails ==
  /\ prepare \in Preparing
  /\ \/ /\ try < Len(Targets) /\ try' = try + 1 /\ prepare' = "room"
     \/ /\ try = Len(Targets) /\ prepare' = "staying" /\ UNCHANGED try
  /\ UNCHANGED <<frame, remoteVars, sent, proc, taken, home, bounds>>

-----------------------------------------------------------------------------
(* The frame sender. *)

\* Mutant of ResponseEnds: _sent is not looked at.
ResponseEndsAgain ==
  /\ InSession /\ proc = "ready" /\ responses < NResponses
  /\ responses' = responses + 1
  /\ proc' = CASE prepare \in {"none", "staying"} -> "ready"
               [] prepare \in Preparing -> "awaiting"
               [] prepare = "ok" -> "sending"
               [] prepare = "cancelled" -> "dead"
  /\ UNCHANGED <<prepareVars, remoteVars, sent, taken, home, bargeIns>>

\* An LLMFullResponseEndFrame: send_if_ready up to its first suspension.
\* Awaiting a task that was cancelled raises CancelledError in the
\* processor's own task, which ends it.
ResponseEnds ==
  /\ InSession /\ proc = "ready" /\ responses < NResponses
  /\ responses' = responses + 1
  /\ proc' = CASE sent \/ prepare \in {"none", "staying"} -> "ready"
               [] ~sent /\ prepare \in Preparing -> "awaiting"
               [] ~sent /\ prepare = "ok" -> "sending"
               [] ~sent /\ prepare = "cancelled" -> "dead"
  /\ UNCHANGED <<prepareVars, remoteVars, sent, taken, home, bargeIns>>

\* Mutant of PrepareOver: a task that ended with None is awaited again.
PrepareOverWithFrame ==
  /\ proc = "awaiting" /\ prepare = "ok" /\ proc' = "sending"
  /\ UNCHANGED <<prepareVars, remoteVars, sent, taken, home, bounds>>

\* The awaited prepare task ended.
PrepareOver ==
  /\ proc = "awaiting" /\ prepare \in {"ok", "staying"}
  /\ proc' = IF frame = None THEN "ready" ELSE "sending"
  /\ UNCHANGED <<prepareVars, remoteVars, sent, taken, home, bounds>>

\* Daily takes the message while send_message is still awaited.
Taken ==
  /\ proc = "sending" /\ frame \notin taken
  /\ taken' = taken \cup {frame}
  /\ UNCHANGED <<prepareVars, remoteVars, sent, proc, home, bounds>>

\* Mutant of Sent: the shutdown is scheduled before the frame is out.
SentBeforeTaken ==
  /\ proc = "sending" /\ sent' = TRUE /\ proc' = "ready"
  /\ home' = IF home = "live" THEN "graced" ELSE home
  /\ UNCHANGED <<prepareVars, remoteVars, taken, bounds>>

\* send_message returned, so Daily has the frame; nothing tells whether the client
\* gets it.  The old worker is given its grace period.
Sent ==
  /\ proc = "sending" /\ frame \in taken
  /\ sent' = TRUE /\ proc' = "ready"
  /\ home' = IF home = "live" THEN "graced" ELSE home
  /\ UNCHANGED <<prepareVars, remoteVars, taken, bounds>>

\* send_message raised: _sent stays false, the exception leaves the processor.
SendFails ==
  /\ proc = "sending" /\ proc' \in {"ready", "dead"}
  /\ UNCHANGED <<prepareVars, remoteVars, sent, taken, home, bounds>>

\* The sender's task is cancelled, and with it the prepare task it awaits.
CancelSender(then) ==
  /\ proc' = then
  /\ prepare' = IF proc = "awaiting" /\ prepare \in Preparing THEN "cancelled" ELSE prepare

\* StartInterruptionFrame cancels the processor's task and starts a new one.
BargeIn ==
  /\ InSession /\ bargeIns < NBargeIns /\ bargeIns' = bargeIns + 1
  /\ CancelSender("ready")
  /\ UNCHANGED <<try, frame, remoteVars, sent, taken, home, responses>>

\* schedule_session_shutdown, OLD_SESSION_GRACE_SECONDS later.
GraceOver ==
  /\ home = "graced" /\ home' = "cancelled"
  /\ proc' = "dead"
  /\ UNCHANGED <<prepareVars, remoteVars, sent, taken, bounds>>

\* The client leaves, or the pipeline fails or is shut down: nobody awaits
\* the prepare task any more, which goes on if nobody did.
SessionEnds ==
  /\ InSession /\ home' = "over" /\ CancelSender("dead")
  /\ UNCHANGED <<try, frame, remoteVars, sent, taken, bounds>>

-----------------------------------------------------------------------------
PrepareStep == RoomCreated \/ PostSpawn \/ SpawnAcknowledged \/ AttemptFails
SenderStep == PrepareOver \/ Taken \/ Sent \/ SendFails
Next ==
  \/ RequestMigration \/ PrepareStep \/ ResponseEnds \/ SenderStep \/ BargeIn \/ GraceOver
  \/ SessionEnds
  \/ \E r \in Regions : RemoteSpawns(r) \/ RequestLost(r)

\* Every HTTP call has a timeout.  Daily's send_message has none in the code, and
\* nothing is assumed of it.
Fairness == WF_vars(PrepareStep) /\ WF_vars(PrepareOver)

Spec == Init /\ [][Next]_vars /\ Fairness

-----------------------------------------------------------------------------
(* Properties. *)

\* Shape of the state.
TypeOK ==
  /\ prepare \in Preparing \cup Ended \cup {"none"}
  /\ try \in 0 .. Len(Targets)
  /\ frame \in Regions \cup {None}
  /\ sent \in BOOLEAN
  /\ proc \in {"ready", "awaiting", "sending", "dead"}
  /\ taken \in SUBSET Regions
  /\ worker \in SUBSET Regions /\ posted \in SUBSET Regions
  /\ home \in {"live", "graced", "cancelled", "over"}
  /\ bargeIns \in 0 .. NBargeIns /\ responses \in 0 .. NResponses

\* The client is only ever sent to one room, whose worker has been spawned,
\* and the old worker is only given up after Daily took the message that tells the
\* client where to go: whatever fails, wherever a barge-in lands or the session
\* ends, and although a frame may be sent again, the user keeps a worker.  That
\* the message then reaches the client is what the code trusts Daily for.
H == INSTANCE Handover WITH
  workers <- worker \cup (IF InSession THEN {Home} ELSE {}),
  offers <- taken,
  ended <- home = "over"
ImplementsHandover == H!Spec

\* The wait for the prepare task ends: a migration that stalls, fails everywhere
\* or is cancelled under the sender does not keep it there for ever.  (What comes
\* next is SenderDies, and the send itself, which may block.)
SenderReturns == proc = "awaiting" ~> proc \in {"ready", "sending"} \/ ~InSession

\* In a live session the frame sender is lost, with all frames behind it until the
\* next barge-in, only when a barge-in cancelled the prepare task under an earlier
\* response, or when the send of the reconnect frame raised.  A migration that
\* failed in every region, or was done before, never takes it down.
SenderDies ==
  InSession /\ proc = "dead" =>
    \/ prepare = "cancelled" /\ bargeIns > 0
    \/ prepare = "ok" /\ ~sent
=============================================================================
