----------------------------- MODULE Session_proofs -----------------------------
(***************************************************************************)
(* Proofs about the registry, about the life of a session's task, and      *)
(* about the two together: for any finite set of requests, any one of them *)
(* watched, and any locales.                                               *)
(***************************************************************************)
EXTENDS Session, FiniteSetTheorems, TLAPS

-----------------------------------------------------------------------------
(* The registry on its own, for any finite set of requests.                *)

\* Every step leaves the registry's state well formed: every variable of
\* VoiceSessionManager keeps its shape.
THEOREM RegistryTypeCorrect == Spec => []TypeOK
<1>1. Init => TypeOK
  BY RequestsAssumption, FreshIdsAssumption
     DEF Init, TypeOK, Ids, ReqStates, TaskStates
<1>2. TypeOK /\ [Next]_vars => TypeOK'
  <2> SUFFICES ASSUME TypeOK, [Next]_vars PROVE TypeOK'
    OBVIOUS
  <2> USE FreshIdsAssumption DEF TypeOK, Ids, ReqStates, TaskStates
  <2>1. ASSUME NEW r \in Requests, NEW id \in Ids, Receive(r, id) PROVE TypeOK'
    BY <2>1 DEF Receive
  <2>2. ASSUME NEW r \in Requests, RoomCreated(r) \/ RequestFails(r) PROVE TypeOK'
    BY <2>2 DEF RoomCreated, RequestFails
  <2>3. ASSUME NEW r \in Requests, SpawnPipeline(r) PROVE TypeOK'
    BY <2>3 DEF SpawnPipeline
  <2>4. ASSUME NEW r \in Requests, PipelineEnds(r) \/ HandleDone(r) PROVE TypeOK'
    BY <2>4 DEF PipelineEnds, HandleDone
  <2>5. ASSUME NEW r \in Requests, ScheduleShutdown(r) PROVE TypeOK'
    BY <2>5 DEF ScheduleShutdown
  <2>6. ASSUME NEW r \in Requests, GraceOver(r) PROVE TypeOK'
    BY <2>6 DEF GraceOver, Cancelled, Alive
  <2>7. ASSUME ShutdownBegins PROVE TypeOK'
    BY <2>7 DEF ShutdownBegins, Registered, Cancelled
  <2>8. ASSUME ShutdownEnds PROVE TypeOK'
    BY <2>8 DEF ShutdownEnds
  <2>9. ASSUME UNCHANGED vars PROVE TypeOK'
    BY <2>9 DEF vars
  <2> QED
    BY <2>1, <2>2, <2>3, <2>4, <2>5, <2>6, <2>7, <2>8, <2>9 DEF Next
<1> QED
  BY <1>1, <1>2, PTL DEF Spec

-----------------------------------------------------------------------------
(* The inductive invariant behind RegistrySound: a registered task is the  *)
(* pipeline of a request that is through, under the id it asked for.       *)
RegInv ==
  /\ \A r \in Requests : req[r] = "new" => sid[r] = None
  /\ \A r \in Requests : req[r] \notin {"new", "failed"} => sid[r] \in Ids
  /\ \A r \in Requests : task[r] # "none" => req[r] = "done" /\ sid[r] \in Ids
  /\ \A i \in Ids : reg[i] # None =>
       /\ reg[i] \in Requests /\ sid[reg[i]] = i
       /\ task[reg[i]] \notin {"none", "gone"}

LEMMA InitialRegistry == Init => RegInv
  BY FreshIdsAssumption DEF Init, RegInv

LEMMA RegistryStep == TypeOK /\ RegInv /\ [Next]_vars => RegInv'
<1> SUFFICES ASSUME TypeOK, RegInv, [Next]_vars PROVE RegInv'
  OBVIOUS
<1> USE FreshIdsAssumption DEF TypeOK, RegInv
<1>1. ASSUME NEW r \in Requests, NEW id \in Ids, Receive(r, id) PROVE RegInv'
  BY <1>1 DEF Receive
<1>2. ASSUME NEW r \in Requests, RoomCreated(r) \/ RequestFails(r) PROVE RegInv'
  BY <1>2 DEF RoomCreated, RequestFails
<1>3. ASSUME NEW r \in Requests, SpawnPipeline(r) PROVE RegInv'
  BY <1>3 DEF SpawnPipeline
<1>4. ASSUME NEW r \in Requests, PipelineEnds(r) PROVE RegInv'
  BY <1>4 DEF PipelineEnds, Alive
<1>5. ASSUME NEW r \in Requests, HandleDone(r) PROVE RegInv'
  BY <1>5 DEF HandleDone
<1>6. ASSUME NEW r \in Requests, ScheduleShutdown(r) PROVE RegInv'
  BY <1>6 DEF ScheduleShutdown
<1>7. ASSUME NEW r \in Requests, GraceOver(r) PROVE RegInv'
  BY <1>7 DEF GraceOver, Cancelled, Alive
<1>8. ASSUME ShutdownBegins PROVE RegInv'
  BY <1>8 DEF ShutdownBegins, Cancelled
<1>9. ASSUME ShutdownEnds \/ UNCHANGED vars PROVE RegInv'
  BY <1>9 DEF ShutdownEnds, vars
<1> QED
  BY <1>1, <1>2, <1>3, <1>4, <1>5, <1>6, <1>7, <1>8, <1>9 DEF Next

\* Whatever ids requests ask for, an entry of _tasks is a task of that id
\* whose done callback is still to come.
THEOREM RegistryIsSound == Spec => []RegistrySound
<1>1. RegInv => RegistrySound
  BY DEF RegInv, RegistrySound
<1> QED
  BY <1>1, InitialRegistry, RegistryStep, RegistryTypeCorrect, PTL DEF Spec

-----------------------------------------------------------------------------
(* As long as no id has been asked for twice.                              *)

\* Each id then has one request, so a live pipeline keeps its entry, a
\* delayed shutdown can only meet its own task, and from the moment
\* shutdown() gathers the registered tasks no other one is alive.
DistinctInv ==
  /\ \A t \in Requests : Alive(t) => reg[sid[t]] = t
  /\ \A t \in Requests : grace[t] # "none" => task[t] # "none"
  /\ \A t \in Requests : hits[t] \subseteq {t}
  /\ mgr # "up" => \A r \in Requests : req[r] \in {"new", "done", "failed"}
  /\ mgr = "stopping" => \A t \in Requests : Alive(t) => t \in awaited
  /\ mgr = "down" => \A t \in Requests : ~Alive(t)

\* Once two requests have an id in common they keep it: distinct ids now
\* were distinct before.
LEMMA DistinctBefore == TypeOK /\ RegInv /\ [Next]_vars /\ Distinct' => Distinct
<1> SUFFICES ASSUME TypeOK, RegInv, [Next]_vars, Distinct' PROVE Distinct
  OBVIOUS
<1>1. CASE \E r \in Requests, id \in Ids : Receive(r, id)
  <2>1. PICK r \in Requests, id \in Ids : Receive(r, id)
    BY <1>1
  <2>2. sid[r] = None /\ \A t \in Requests \ {r} : sid'[t] = sid[t]
    BY <2>1 DEF Receive, RegInv, TypeOK
  <2> QED
    BY <2>2 DEF Distinct
<1>2. CASE ~(\E r \in Requests, id \in Ids : Receive(r, id))
  <2>1. UNCHANGED sid
    BY <1>2 DEF Next, vars, RoomCreated, SpawnPipeline, RequestFails, PipelineEnds,
                HandleDone, ScheduleShutdown, GraceOver, ShutdownBegins, ShutdownEnds
  <2> QED
    BY <2>1 DEF Distinct
<1> QED
  BY <1>1, <1>2

\* With distinct ids no pipeline is orphaned, a migration cancels its own
\* worker only, and shutdown() leaves no pipeline running.
THEOREM DistinctSessionsAreKept ==
  Spec => [](LiveIsRegistered /\ GraceSparesOthers /\ ShutdownLeavesNothing)
<1> DEFINE DInv == Distinct => DistinctInv
<1>1. Init => DInv
  BY DEF Init, DistinctInv, Alive
<1>2. TypeOK /\ RegInv /\ DInv /\ [Next]_vars => DInv'
  <2> SUFFICES ASSUME TypeOK, RegInv, Distinct, DistinctInv, Distinct', [Next]_vars
               PROVE DistinctInv'
    BY DistinctBefore
  <2> USE FreshIdsAssumption DEF TypeOK, DistinctInv
  <2>0. \A r, t \in Requests :
          (task[r] # "none" \/ req[r] \notin {"new", "failed"}) /\ sid[r] = sid[t] => r = t
    BY DEF RegInv, Distinct, Ids
  <2>1. ASSUME NEW r \in Requests, NEW id \in Ids, Receive(r, id) PROVE DistinctInv'
    BY <2>1 DEF Receive, Alive, RegInv
  <2>2. ASSUME NEW r \in Requests, RoomCreated(r) \/ RequestFails(r) PROVE DistinctInv'
    BY <2>2 DEF RoomCreated, RequestFails, Alive
  <2>3. ASSUME NEW r \in Requests, SpawnPipeline(r) PROVE DistinctInv'
    <3>1. \A t \in Requests \ {r} : task'[t] = task[t] /\ (Alive(t) => sid[t] # sid[r])
      BY <2>0, <2>3 DEF SpawnPipeline, Alive
    <3>2. \A t \in Requests : Alive(t)' => reg'[sid'[t]] = t
      BY <3>1, <2>3 DEF SpawnPipeline, Alive, RegInv
    <3> QED
      BY <3>1, <3>2, <2>3 DEF SpawnPipeline, Alive
  <2>4. ASSUME NEW r \in Requests, PipelineEnds(r) PROVE DistinctInv'
    BY <2>4 DEF PipelineEnds, Alive
  <2>5. ASSUME NEW r \in Requests, HandleDone(r) PROVE DistinctInv'
    <3>1. \A t \in Requests : Alive(t)' => Alive(t) /\ t # r /\ sid[t] # sid[r]
      BY <2>0, <2>5 DEF HandleDone, Alive
    <3>2. \A t \in Requests : Alive(t)' => reg'[sid'[t]] = t
      BY <3>1, <2>5 DEF HandleDone, Alive, RegInv
    <3> QED
      BY <3>1, <3>2, <2>5 DEF HandleDone, Alive
  <2>6. ASSUME NEW r \in Requests, ScheduleShutdown(r) PROVE DistinctInv'
    BY <2>6 DEF ScheduleShutdown, Alive
  <2>7. ASSUME NEW r \in Requests, GraceOver(r) PROVE DistinctInv'
    <3>1. sid[r] \in Ids /\ task[r] # "none"
      BY <2>7 DEF GraceOver, RegInv
    <3>2. {t \in Requests : t = reg[sid[r]] /\ Alive(t)} \subseteq {r}
      BY <2>0, <3>1 DEF RegInv
    <3>3. \A t \in Requests : Alive(t)' => Alive(t)
      BY <2>7 DEF GraceOver, Cancelled, Alive
    <3> QED
      BY <2>7, <3>1, <3>2, <3>3 DEF GraceOver, Cancelled
  <2>8. ASSUME ShutdownBegins PROVE DistinctInv'
    BY <2>8 DEF ShutdownBegins, Cancelled, Registered, Alive, RegInv
  <2>9. ASSUME ShutdownEnds PROVE DistinctInv'
    BY <2>9 DEF ShutdownEnds, Alive
  <2>10. ASSUME UNCHANGED vars PROVE DistinctInv'
    BY <2>10 DEF vars, Alive
  <2> QED
    BY <2>1, <2>2, <2>3, <2>4, <2>5, <2>6, <2>7, <2>8, <2>9, <2>10 DEF Next
<1>3. DInv => LiveIsRegistered /\ GraceSparesOthers /\ ShutdownLeavesNothing
  BY DEF DistinctInv, LiveIsRegistered, GraceSparesOthers, ShutdownLeavesNothing
<1>4. Init => RegInv
  BY InitialRegistry
<1> QED
  BY <1>1, <1>2, <1>3, <1>4, RegistryStep, RegistryTypeCorrect, PTL DEF Spec

\* shutdown() leaves no pipeline running, although tasks end and requests
\* arrive while it gathers, as long as no id is shared.
THEOREM ShutdownIsComplete == Spec => []ShutdownLeavesNothing
  BY DistinctSessionsAreKept, PTL

\* The delayed shutdown of a migration, which looks its session up only when
\* the grace period is over, cancels its own worker or none.
THEOREM GraceHitsItsOwn == Spec => []GraceSparesOthers
  BY DistinctSessionsAreKept, PTL

-----------------------------------------------------------------------------
(* The watched task on its own, however often it is cancelled.             *)

LEMMA CancelsBound == NCancels \in Nat
  BY RequestsAssumption, FS_CardinalityType DEF NCancels

\* Before the pipeline runs there is no prompt, no tool call and no client of the
\* dispatcher, and when it does the fetch's client is closed.  A tool task that is
\* at work behind the teardown was at work then, and only such a one can leave a
\* confirmation or, but for a cancellation of the closing, a client.
TaskInv ==
  /\ cancels \in Nat /\ (cancel \/ cut => cancels >= 1)
  /\ stage \in {"new", "fetching", "releasing"} => prompt = None /\ http = "none" /\ tool = "none"
  /\ stage \in {"new", "running", "closing"} => adapter # "open"
  /\ stage \in {"closing", "over"} /\ tool # "none" => outlived
  /\ stage = "closing" => span = "ended" /\ (confirms => outlived)
  /\ stage = "over" => B!Reported
  /\ B!ClientsClosed

LEMMA TaskIsSound == B!Spec => []TaskInv
<1> USE DEF TaskInv, B!Reported, B!ClientsClosed
<1>1. B!Init => TaskInv
  BY DEF B!Init
<1>2. TaskInv /\ [B!Next]_(B!vars) => TaskInv'
  <2> SUFFICES ASSUME TaskInv, [B!Next]_(B!vars) PROVE TaskInv'
    OBVIOUS
  <2> USE DEF B!ctlVars, B!promptVars, B!toolVars, B!endVars, B!teardownVars
  <2>1. CASE B!Boot
    BY <2>1 DEF B!Boot
  <2>2. CASE B!Fetched \/ B!FetchCancelled
    BY <2>2 DEF B!Fetched, B!FetchCancelled
  <2>3. CASE B!Released
    BY <2>3 DEF B!Released
  <2>4. CASE B!BootFails
    BY <2>4 DEF B!BootFails
  <2>5. CASE B!DetectLocale \/ B!Transcript \/ B!ToolCall \/ B!Resolved
    <3>1. stage = "running" /\ UNCHANGED <<stage, cancel, cancels, adapter, cut>>
      BY <2>5, Zenon DEF B!DetectLocale, B!Transcript, B!ToolCall, B!Resolved
    <3> QED
      BY <3>1
  <2>6. CASE B!ToolPosts
    BY <2>6 DEF B!ToolPosts
  <2>7. CASE B!ToolEnds
    <3>1. /\ UNCHANGED <<stage, cancel, cancels, adapter, prompt, http, span, outlived, cut>>
          /\ tool # "none" /\ tool' = "none"
      BY <2>7, Zenon DEF B!ToolEnds
    <3> QED
      BY <3>1
  <2>8. CASE B!RunnerEnds
    BY <2>8 DEF B!RunnerEnds
  <2>9. CASE B!ClientClosed
    BY <2>9 DEF B!ClientClosed
  <2>10. CASE B!Cancelled
    BY <2>10 DEF B!Cancelled
  <2>11. CASE B!Cancel
    BY <2>11, CancelsBound DEF B!Cancel
  <2>12. CASE UNCHANGED B!vars
    BY <2>12 DEF B!vars
  <2> QED
    BY <2>1, <2>2, <2>3, <2>4, <2>5, <2>6, <2>7, <2>8, <2>9, <2>10, <2>11, <2>12
       DEF B!Next, B!BootStep, B!ToolStep
<1> QED
  BY <1>1, <1>2, PTL DEF B!Spec

-----------------------------------------------------------------------------
LEMMA TaskStarts == B!Init => B!TypeOK
<1> SUFFICES ASSUME B!Init PROVE B!TypeOK
  OBVIOUS
<1> USE CancelsBound, LocalesAssumption DEF B!TypeOK, B!Prompt, B!Stages
<1>1. /\ cancel \in BOOLEAN /\ raising \in BOOLEAN /\ block \in BOOLEAN /\ confirms \in BOOLEAN
      /\ outlived \in BOOLEAN /\ cut \in BOOLEAN
  BY Zenon DEF B!Init
<1>2. /\ stage \in B!Stages /\ cancels \in 0 .. NCancels
      /\ span \in {"none", "open", "ended"}
      /\ adapter \in {"none", "open", "closed"} /\ http \in {"none", "open", "closed"}
      /\ locale \in Locales /\ last \in Locales \cup {None}
      /\ prompt \in [locale : Locales, user : BOOLEAN] \cup {None}
      /\ tool \in {"none", "started", "posting"}
  BY DEF B!Init
<1> QED
  BY <1>1, <1>2

\* Whatever order detections, transcripts and cancellations come in, the task's
\* state keeps its shape: its prompt is that of a known locale.
LEMMA TaskKeepsShape == B!TypeOK /\ [B!Next]_(B!vars) => B!TypeOK'
<1> USE CancelsBound, LocalesAssumption DEF B!TypeOK, B!Prompt, B!Stages
<1> SUFFICES ASSUME B!TypeOK, [B!Next]_(B!vars) PROVE B!TypeOK'
  OBVIOUS
<1> USE DEF B!ctlVars, B!promptVars, B!toolVars, B!endVars, B!teardownVars
<1>1. CASE B!Boot
  <2>1. prompt' \in [locale : Locales, user : BOOLEAN] \cup {None}
    <3>1. [locale |-> locale, user |-> FALSE] \in [locale : Locales, user : BOOLEAN]
      OBVIOUS
    <3>2. prompt' = prompt \/ prompt' = [locale |-> locale, user |-> FALSE]
      BY <1>1, Zenon DEF B!Boot
    <3> QED
      BY <3>1, <3>2
  <2>2. /\ stage' \in B!Stages /\ span' = "open" /\ adapter' \in {"none", "open", "closed"}
        /\ UNCHANGED <<cancel, cancels, raising, block, locale, last, http, confirms, tool,
                       outlived, cut>>
    BY <1>1 DEF B!Boot
  <2> QED
    BY <2>1, <2>2
<1>2. CASE B!Fetched \/ B!FetchCancelled
  <2>1. cancel' \in BOOLEAN /\ raising' \in BOOLEAN /\ block' \in BOOLEAN
    BY <1>2, Zenon DEF B!Fetched, B!FetchCancelled
  <2>2. /\ UNCHANGED <<cancels, adapter, locale, prompt, last, http, confirms, tool, span,
                        outlived, cut>>
        /\ stage' = "releasing"
    BY <1>2, Zenon DEF B!Fetched, B!FetchCancelled
  <2> QED
    BY <2>1, <2>2
<1>3. CASE B!Released
  BY <1>3 DEF B!Released
<1>4. CASE B!DetectLocale
  BY <1>4 DEF B!DetectLocale
<1>5. CASE B!Transcript
  BY <1>5 DEF B!Transcript
<1>6. CASE B!ToolCall
  BY <1>6 DEF B!ToolCall
<1>7. CASE B!RunnerEnds
  BY <1>7 DEF B!RunnerEnds
<1>8. CASE B!ClientClosed
  BY <1>8 DEF B!ClientClosed
<1>9. CASE B!Cancelled
  <2>1. cancel' \in BOOLEAN /\ cut' \in BOOLEAN
    BY <1>9, Zenon DEF B!Cancelled
  <2>2. /\ UNCHANGED <<cancels, raising, adapter, block, locale, prompt, last, http, confirms,
                        tool, span, outlived>>
        /\ stage' = "over"
    BY <1>9, Zenon DEF B!Cancelled
  <2> QED
    BY <2>1, <2>2
<1>10. CASE B!Cancel
  BY <1>10 DEF B!Cancel
<1>11. CASE UNCHANGED B!vars
  BY <1>11 DEF B!vars
<1>12. CASE B!BootFails
  BY <1>12 DEF B!BootFails
<1>13. CASE B!Resolved
  <2>1. /\ UNCHANGED <<stage, cancel, cancels, raising, adapter, block, locale, prompt, last, http,
                        tool, span, outlived, cut>>
        /\ confirms' \in BOOLEAN
    BY <1>13, Zenon DEF B!Resolved
  <2> QED
    BY <2>1
<1>14. CASE B!ToolPosts
  BY <1>14 DEF B!ToolPosts
<1>15. CASE B!ToolEnds
  <2>1. confirms' \in BOOLEAN
    BY <1>15, Zenon DEF B!ToolEnds
  <2>2. /\ UNCHANGED <<stage, cancel, cancels, raising, adapter, block, locale, prompt, last,
                        http, span, outlived, cut>>
        /\ tool' = "none"
    BY <1>15, Zenon DEF B!ToolEnds
  <2> QED
    BY <2>1, <2>2
<1> QED
  BY <1>1, <1>2, <1>3, <1>4, <1>5, <1>6, <1>7, <1>8, <1>9, <1>10, <1>11, <1>12, <1>13, <1>14, <1>15
     DEF B!Next, B!BootStep, B!ToolStep

LEMMA TaskShape == B!Spec => []B!TypeOK
  BY TaskStarts, TaskKeepsShape, PTL DEF B!Spec

-----------------------------------------------------------------------------
(* The two together.                                                       *)

\* A step of the watched task is one of its own, leaves the cancellations alone,
\* and takes none with it behind its last step.
LEMMA WatchedRuns ==
  ASSUME B!TypeOK, WatchedStep
  PROVE  /\ B!Next /\ Alive(Watched) /\ UNCHANGED cancels
         /\ cancel' => cancel /\ stage' # "over"
         /\ \/ stage' # "over" /\ UNCHANGED vars
            \/ stage' = "over" /\ PipelineEnds(Watched)
<1> USE DEF Runs, B!ctlVars, B!promptVars, B!toolVars, B!endVars, B!teardownVars, B!TypeOK
<1>1. CASE Runs(B!BootStep)
  <2>1. /\ Alive(Watched) /\ B!Next
        /\ \/ stage' # "over" /\ UNCHANGED vars
           \/ stage' = "over" /\ PipelineEnds(Watched)
    BY <1>1, Zenon DEF B!Next
  <2>2. CASE B!Boot
    BY <2>1, <2>2 DEF B!Boot
  <2>3. CASE B!Fetched
    BY <2>1, <2>3 DEF B!Fetched
  <2>4. CASE B!FetchCancelled
    BY <2>1, <2>4 DEF B!FetchCancelled
  <2>5. CASE B!Released
    BY <2>1, <2>5 DEF B!Released
  <2>6. CASE B!BootFails
    BY <2>1, <2>6 DEF B!BootFails
  <2> QED
    BY <1>1, <2>2, <2>3, <2>4, <2>5, <2>6 DEF B!BootStep
<1>2. CASE Runs(B!DetectLocale)
  BY <1>2 DEF B!Next, B!DetectLocale
<1>3. CASE Runs(B!Transcript)
  BY <1>3 DEF B!Next, B!Transcript
<1>4. CASE Runs(B!ToolCall)
  BY <1>4 DEF B!Next, B!ToolCall
<1>5. CASE Runs(B!RunnerEnds)
  BY <1>5 DEF B!Next, B!RunnerEnds
<1>6. CASE Runs(B!ClientClosed)
  BY <1>6 DEF B!Next, B!ClientClosed
<1>7. CASE Runs(B!Cancelled)
  BY <1>7 DEF B!Next, B!Cancelled
<1>8. CASE Runs(B!Resolved)
  BY <1>8 DEF B!Next, B!Resolved
<1> QED
  BY <1>1, <1>2, <1>3, <1>4, <1>5, <1>6, <1>7, <1>8 DEF WatchedStep

\* A tool task does not touch the registry, nor where the session's task is.
LEMMA ToolKeeps ==
  ASSUME ToolRuns
  PROVE  B!Next /\ UNCHANGED vars /\ UNCHANGED <<stage, cancel, cancels, adapter>>
<1>1. B!Next /\ UNCHANGED vars
  BY Zenon DEF ToolRuns, B!Next
<1>2. UNCHANGED <<stage, cancel, cancels, adapter>>
  BY Zenon DEF ToolRuns, B!ToolStep, B!ToolPosts, B!ToolEnds, B!ctlVars
<1> QED
  BY <1>1, <1>2

\* The steps of the registry that leave the watched task alone.
Unnoticed ==
  Stopped \/ \E r \in Requests :
    Received(r) \/ Answered(r) \/ OtherEnds(r) \/ Forgotten(r) \/ Schedules(r)

LEMMA SessionCases ==
  ASSUME [SessionNext]_sessionVars
  PROVE  WatchedStep \/ ToolRuns \/ Stops \/ Unnoticed \/ (\E r \in Requests : GraceEnds(r))
           \/ UNCHANGED sessionVars
  BY Zenon DEF SessionNext, Unnoticed

LEMMA UnnoticedKeeps ==
  ASSUME Unnoticed
  PROVE  Next /\ UNCHANGED bootVars /\ UNCHANGED hits /\ (mgr' # mgr => mgr # "up" /\ mgr' # "up")
<1>1. CASE Stopped
  BY <1>1 DEF Stopped, ShutdownEnds, Next
<1>2. CASE ~Stopped
  <2>1. PICK r \in Requests :
          Received(r) \/ Answered(r) \/ OtherEnds(r) \/ Forgotten(r) \/ Schedules(r)
    BY <1>2 DEF Unnoticed
  <2>2. Next /\ UNCHANGED bootVars
    BY <2>1, Zenon DEF Received, Answered, OtherEnds, Forgotten, Schedules, Next
  <2>3. UNCHANGED <<hits, mgr>>
    BY <2>1, Zenon DEF Received, Answered, OtherEnds, Forgotten, Schedules, Receive, RoomCreated,
      SpawnPipeline, RequestFails, PipelineEnds, HandleDone, ScheduleShutdown
  <2> QED
    BY <2>2, <2>3
<1> QED
  BY <1>1, <1>2

\* The registry does not notice what its task does: composed with a task in
\* detail, it does the steps of SessionManager and no others.
LEMMA RegistryView == B!TypeOK /\ [SessionNext]_sessionVars => [Next]_vars
<1> SUFFICES ASSUME B!TypeOK, [SessionNext]_sessionVars PROVE [Next]_vars
  OBVIOUS
<1>1. CASE WatchedStep
  BY <1>1, WatchedRuns, WatchedAssumption, Zenon DEF Next
<1>2. CASE Stops \/ \E r \in Requests : GraceEnds(r)
  BY <1>2, Zenon DEF Stops, GraceEnds, Next
<1>3. CASE Unnoticed
  BY <1>3, UnnoticedKeeps, Zenon
<1>4. CASE UNCHANGED sessionVars
  BY <1>4, Zenon DEF sessionVars
<1>5. CASE ToolRuns
  BY <1>5, ToolKeeps, Zenon
<1> QED
  BY <1>1, <1>2, <1>3, <1>4, <1>5, SessionCases

\* The variables of the task, as Session and as SessionBoot tuple them.
LEMMA SameVariables == UNCHANGED bootVars <=> UNCHANGED B!vars
<1>1. ASSUME UNCHANGED bootVars PROVE UNCHANGED B!vars
  <2>1. UNCHANGED <<stage, adapter, block>> /\ UNCHANGED B!ctlVars
    BY <1>1, Zenon DEF bootVars, B!ctlVars
  <2>2. UNCHANGED B!promptVars /\ UNCHANGED B!teardownVars
    BY <1>1, Zenon DEF bootVars, B!promptVars, B!toolVars, B!endVars, B!teardownVars
  <2> QED
    BY <2>1, <2>2, Zenon DEF B!vars
<1>2. ASSUME UNCHANGED B!vars PROVE UNCHANGED bootVars
  <2>1. UNCHANGED <<stage, adapter, block, cancel, cancels, raising>>
    BY <1>2, Zenon DEF B!vars, B!ctlVars
  <2>2. UNCHANGED <<locale, prompt, last, span, http, confirms, tool, outlived, cut>>
    BY <1>2, Zenon DEF B!vars, B!promptVars, B!toolVars, B!endVars, B!teardownVars
  <2> QED
    BY <2>1, <2>2, Zenon DEF bootVars
<1> QED
  BY <1>1, <1>2

\* Nor does the task see more of the registry than cancellations.
LEMMA TaskView == B!TypeOK /\ [SessionNext]_sessionVars => [B!Next]_(B!vars)
<1> SUFFICES ASSUME B!TypeOK, [SessionNext]_sessionVars PROVE [B!Next]_(B!vars)
  OBVIOUS
<1>1. CASE WatchedStep
  BY <1>1, WatchedRuns, Zenon
<1>2. CASE Stops \/ \E r \in Requests : GraceEnds(r)
  BY <1>2, SameVariables, Zenon DEF Stops, GraceEnds, CancelReaches, B!Next
<1>3. CASE Unnoticed
  BY <1>3, UnnoticedKeeps, SameVariables, Zenon
<1>4. CASE UNCHANGED sessionVars
  BY <1>4, SameVariables, Zenon DEF sessionVars
<1>5. CASE ToolRuns
  BY <1>5, ToolKeeps, Zenon
<1> QED
  BY <1>1, <1>2, <1>3, <1>4, <1>5, SessionCases

\* Followed in detail, the session's task is a task of SessionBoot, so what is
\* proved of it on its own holds under the cancellations the registry makes.
THEOREM SessionImplementsTask == SessionSpec => B!Spec
<1>1. SessionInit => B!Init /\ B!TypeOK
  BY TaskStarts DEF SessionInit
<1>2. B!TypeOK /\ [SessionNext]_sessionVars => B!TypeOK'
  BY TaskView, TaskKeepsShape
<1> QED
  BY <1>1, <1>2, TaskView, PTL DEF SessionSpec, B!Spec

\* The registry of the composition is that of SessionManager: the detail of a
\* task adds no behaviour to it.
THEOREM SessionImplementsRegistry == SessionSpec => Spec
<1>1. SessionInit => Init
  BY DEF SessionInit
<1> QED
  BY <1>1, RegistryView, SessionImplementsTask, TaskShape, PTL DEF SessionSpec, Spec

-----------------------------------------------------------------------------
(* What the registry knows of the task, and the task of the registry.      *)

\* A cancellation that reaches the task is one of task.cancel().
LEMMA ReachesKeeps ==
  ASSUME NEW victims, TypeOK, B!TypeOK, Coupled, CancelReaches(victims),
         task' = Cancelled(victims)
  PROVE  Coupled'
<1>1. UNCHANGED stage /\ (cancel' => cancel \/ (Watched \in victims /\ Alive(Watched)))
  BY Zenon DEF CancelReaches, B!Cancel, bootVars
<1>2. task'[Watched] = IF Watched \in victims /\ task[Watched] = "running" THEN "cancelling"
                       ELSE task[Watched]
  BY WatchedAssumption DEF Cancelled
<1>3. B!TypeOK'
  <2>1. [B!Next]_(B!vars)
    BY SameVariables, Zenon DEF CancelReaches, B!Next
  <2> QED
    BY <2>1, TaskKeepsShape
<1> QED
  BY <1>1, <1>2, <1>3 DEF Coupled, Alive

LEMMA CoupledStep ==
  TypeOK /\ RegInv /\ Coupled /\ [SessionNext]_sessionVars => Coupled'
<1> SUFFICES ASSUME TypeOK, RegInv, Coupled, [SessionNext]_sessionVars PROVE Coupled'
  OBVIOUS
<1>0. B!TypeOK /\ B!TypeOK'
  BY TaskView, TaskKeepsShape DEF Coupled
<1>1. CASE WatchedStep
  <2>1. /\ Alive(Watched) /\ (cancel' => cancel /\ stage' # "over")
        /\ \/ stage' # "over" /\ UNCHANGED vars
           \/ stage' = "over" /\ PipelineEnds(Watched)
    BY <1>0, <1>1, WatchedRuns, Zenon
  <2>2. CASE stage' # "over" /\ UNCHANGED vars
    BY <1>0, <2>1, <2>2 DEF Coupled, Alive, vars
  <2>3. CASE stage' = "over" /\ PipelineEnds(Watched)
    <3>1. task'[Watched] = "done"
      BY <2>3, WatchedAssumption DEF PipelineEnds, TypeOK
    <3> QED
      BY <1>0, <2>1, <2>3, <3>1 DEF Coupled
  <2> QED
    BY <2>1, <2>2, <2>3
<1>2. CASE Stops
  BY <1>0, <1>2, ReachesKeeps DEF Stops, ShutdownBegins
<1>3. ASSUME NEW r \in Requests, GraceEnds(r) PROVE Coupled'
  <2>1. task' = Cancelled(hits'[r])
    BY <1>3 DEF GraceEnds, GraceOver, TypeOK
  <2>2. PICK victims : victims = hits'[r]
    OBVIOUS
  <2>3. CancelReaches(victims) /\ task' = Cancelled(victims)
    BY <1>3, <2>1, <2>2, Zenon DEF GraceEnds
  <2> QED
    BY <1>0, <2>3, ReachesKeeps
<1>4. CASE Unnoticed
  <2>1. UNCHANGED <<stage, cancel>>
    BY <1>4, UnnoticedKeeps, Zenon DEF bootVars
  <2>2. \/ task'[Watched] = task[Watched]
        \/ task[Watched] = "none" /\ task'[Watched] = "running"
        \/ task[Watched] = "done" /\ task'[Watched] = "gone"
    <3>1. CASE Stopped
      BY <3>1, Zenon DEF Stopped, ShutdownEnds
    <3>2. ASSUME NEW r \in Requests, Received(r) \/ Schedules(r) PROVE UNCHANGED task
      BY <3>2, Zenon DEF Received, Schedules, Receive, ScheduleShutdown
    <3>3. ASSUME NEW r \in Requests, Answered(r)
          PROVE  UNCHANGED task \/ (task[r] = "none" /\ task' = [task EXCEPT ![r] = "running"])
      BY <3>3 DEF Answered, RoomCreated, RequestFails, SpawnPipeline, RegInv
    <3>4. ASSUME NEW r \in Requests, OtherEnds(r)
          PROVE  r # Watched /\ task' = [task EXCEPT ![r] = "done"]
      BY <3>4, Zenon DEF OtherEnds, PipelineEnds
    <3>5. ASSUME NEW r \in Requests, Forgotten(r)
          PROVE  task[r] = "done" /\ task' = [task EXCEPT ![r] = "gone"]
      BY <3>5, Zenon DEF Forgotten, HandleDone
    <3> QED
      BY <1>4, <3>1, <3>2, <3>3, <3>4, <3>5, WatchedAssumption DEF Unnoticed, TypeOK
  <2> QED
    BY <1>0, <2>1, <2>2 DEF Coupled
<1>5. CASE UNCHANGED sessionVars
  BY <1>0, <1>5 DEF sessionVars, vars, bootVars, Coupled
<1>6. CASE ToolRuns
  <2>1. UNCHANGED <<stage, cancel, task>>
    BY <1>6, ToolKeeps, Zenon DEF vars
  <2> QED
    BY <1>0, <2>1 DEF Coupled
<1> QED
  BY <1>1, <1>2, <1>3, <1>4, <1>5, <1>6, SessionCases

\* The registry and the task always agree on whether the task runs, was cancelled
\* and is over, whoever cancels it in whatever order.
THEOREM RegistryAndTaskAgree == SessionSpec => []Coupled
<1>1. SessionInit => Coupled
  BY TaskStarts, WatchedAssumption DEF SessionInit, Init, B!Init, Coupled
<1>2. SessionSpec => [](TypeOK /\ RegInv)
  BY SessionImplementsRegistry, RegistryTypeCorrect, InitialRegistry, RegistryStep, PTL DEF Spec
<1> QED
  BY <1>1, <1>2, CoupledStep, PTL DEF SessionSpec

\* A session that ran is reported before its task is over, and before shutdown()
\* returns, whatever cancellations hit it, but for the confirmations of tool calls
\* that outlive it.
THEOREM EverySessionIsReported == SessionSpec => []SessionsAreReported
<1>1. TypeOK /\ Coupled /\ ShutdownLeavesNothing /\ TaskInv => SessionsAreReported
  <2> SUFFICES ASSUME TypeOK, Coupled, ShutdownLeavesNothing, TaskInv,
                      stage = "over" \/ (mgr = "down" /\ Distinct)
               PROVE  B!Reported
    BY DEF SessionsAreReported
  <2>1. CASE stage = "over"
    BY <2>1 DEF TaskInv
  <2>2. CASE mgr = "down" /\ Distinct /\ stage # "over"
    <3>1. ~Alive(Watched) /\ task[Watched] \in TaskStates
      BY <2>2, WatchedAssumption DEF ShutdownLeavesNothing, TypeOK
    <3>2. stage = "new"
      BY <2>2, <3>1 DEF Alive, TaskStates, Coupled
    <3> QED
      BY <3>2 DEF TaskInv, B!Reported
  <2> QED
    BY <2>1, <2>2
<1> QED
  BY <1>1, RegistryAndTaskAgree, SessionImplementsRegistry, SessionImplementsTask,
     RegistryTypeCorrect, ShutdownIsComplete, TaskIsSound, PTL

-----------------------------------------------------------------------------
(* How often the task is cancelled.                                        *)

Hitting == {r \in Requests : Watched \in hits[r]}
Stopping == IF mgr = "up" THEN 0 ELSE 1

\* A delayed shutdown hits when it is over, and never again.
CountInv ==
  /\ \A r \in Requests : grace[r] # "over" => hits[r] = {}
  /\ cancels <= Cardinality(Hitting) + Stopping

LEMMA HittingIsFinite ==
  IsFiniteSet(Hitting) /\ Cardinality(Hitting) \in Nat
  BY RequestsAssumption, FS_Subset, FS_CardinalityType DEF Hitting

LEMMA CountStep ==
  TypeOK /\ B!TypeOK /\ CountInv /\ [SessionNext]_sessionVars => CountInv'
<1> SUFFICES ASSUME TypeOK, B!TypeOK, CountInv, [SessionNext]_sessionVars PROVE CountInv'
  OBVIOUS
<1> USE DEF CountInv
<1>0. cancels \in Nat /\ IsFiniteSet(Hitting) /\ Cardinality(Hitting) \in Nat
  BY CancelsBound, HittingIsFinite DEF B!TypeOK
<1>1. CASE UNCHANGED <<cancels, hits, grace>> /\ (mgr' # mgr => mgr # "up" /\ mgr' # "up")
  <2>1. Hitting' = Hitting /\ Stopping' = Stopping
    BY <1>1 DEF Hitting, Stopping
  <2> QED
    BY <1>1, <2>1
<1>2. CASE WatchedStep
  <2>1. UNCHANGED cancels /\ (UNCHANGED vars \/ PipelineEnds(Watched))
    BY <1>2, WatchedRuns
  <2>2. UNCHANGED <<hits, grace, mgr>>
    BY <2>1, Zenon DEF vars, PipelineEnds
  <2> QED
    BY <1>1, <2>1, <2>2
<1>3. CASE Unnoticed
  <2>1. /\ UNCHANGED <<cancels, hits>> /\ (mgr' # mgr => mgr # "up" /\ mgr' # "up")
    BY <1>3, UnnoticedKeeps, Zenon DEF bootVars
  <2>2. \A r \in Requests : grace'[r] # "over" => grace[r] # "over"
    <3>1. UNCHANGED grace \/ \E r \in Requests : ScheduleShutdown(r)
      BY <1>3, Zenon DEF Unnoticed, Stopped, ShutdownEnds, Received, Receive, Answered,
        RoomCreated, SpawnPipeline, RequestFails, OtherEnds, PipelineEnds, Forgotten, HandleDone,
        Schedules
    <3> QED
      BY <3>1 DEF ScheduleShutdown, TypeOK
  <2>3. Hitting' = Hitting /\ Stopping' = Stopping
    BY <2>1 DEF Hitting, Stopping
  <2> QED
    BY <2>1, <2>2, <2>3
<1>4. CASE Stops
  <2>1. cancels' = cancels + 1 \/ UNCHANGED cancels
    BY <1>4, Zenon DEF Stops, CancelReaches, B!Cancel, bootVars
  <2>2. UNCHANGED <<hits, grace>> /\ Stopping = 0 /\ Stopping' = 1
    BY <1>4 DEF Stops, ShutdownBegins, Stopping
  <2>3. Hitting' = Hitting
    BY <2>2 DEF Hitting
  <2> QED
    BY <1>0, <2>1, <2>2, <2>3
<1>5. ASSUME NEW r \in Requests, GraceEnds(r) PROVE CountInv'
  <2>1. /\ grace[r] = "armed" /\ grace' = [grace EXCEPT ![r] = "over"] /\ UNCHANGED mgr
        /\ hits[r] = {} /\ \A t \in Requests \ {r} : hits'[t] = hits[t]
    BY <1>5 DEF GraceEnds, GraceOver, TypeOK
  <2>2. \A t \in Requests : grace'[t] # "over" => hits'[t] = {}
    BY <2>1 DEF TypeOK
  <2>3. Hitting' = IF Watched \in hits'[r] THEN Hitting \cup {r} ELSE Hitting
    BY <2>1 DEF Hitting
  <2>4. r \notin Hitting
    BY <2>1 DEF Hitting
  <2>5. Cardinality(Hitting \cup {r}) = Cardinality(Hitting) + 1
    BY <1>0, <2>4, FS_AddElement
  <2>6. CASE Watched \in hits'[r]
    <3>1. cancels' = cancels + 1 \/ UNCHANGED cancels
      BY <1>5, Zenon DEF GraceEnds, CancelReaches, B!Cancel, bootVars
    <3> QED
      BY <1>0, <2>1, <2>2, <2>3, <2>5, <2>6, <3>1 DEF Stopping
  <2>7. CASE Watched \notin hits'[r]
    <3>1. UNCHANGED cancels
      BY <1>5, <2>7, Zenon DEF GraceEnds, CancelReaches, bootVars
    <3> QED
      BY <2>1, <2>2, <2>3, <2>7, <3>1 DEF Stopping
  <2> QED
    BY <2>6, <2>7
<1>6. CASE UNCHANGED sessionVars
  BY <1>1, <1>6, Zenon DEF sessionVars, vars, bootVars
<1>7. CASE ToolRuns
  BY <1>1, <1>7, ToolKeeps, Zenon DEF vars
<1> QED
  BY <1>2, <1>3, <1>4, <1>5, <1>6, <1>7, SessionCases

LEMMA CountAlways == SessionSpec => []CountInv
<1>1. SessionInit => CountInv
  <2> SUFFICES ASSUME SessionInit PROVE CountInv
    OBVIOUS
  <2>1. /\ \A r \in Requests : hits[r] = {}
        /\ cancels = 0 /\ Stopping = 0
    BY DEF SessionInit, Init, B!Init, Stopping
  <2> QED
    BY <2>1, HittingIsFinite DEF CountInv
<1> QED
  BY <1>1, CountStep, SessionImplementsRegistry, SessionImplementsTask, RegistryTypeCorrect,
     TaskShape, PTL DEF SessionSpec

\* With distinct ids only the watched task's own delayed shutdown can hit it.
LEMMA DistinctCount == CountInv /\ GraceSparesOthers /\ B!TypeOK => CancelsCounted
<1> SUFFICES ASSUME CountInv, GraceSparesOthers, B!TypeOK PROVE CancelsCounted
  OBVIOUS
<1>1. cancels \in Nat /\ cancels <= Cardinality(Hitting) + Stopping
  BY CancelsBound DEF CountInv, B!TypeOK
<1>2. ASSUME Distinct PROVE cancels <= (IF grace[Watched] = "over" THEN 1 ELSE 0) + Stopping
  <2>1. \A r \in Hitting : r = Watched /\ grace[Watched] = "over"
    BY <1>2 DEF GraceSparesOthers, Hitting, CountInv
  <2>2. CASE grace[Watched] = "over"
    <3>1. Cardinality(Hitting) <= Cardinality({Watched}) /\ Cardinality({Watched}) = 1
      BY <2>1, FS_Subset, FS_Singleton
    <3> QED
      BY <1>1, <2>2, <3>1, HittingIsFinite DEF Stopping
  <2>3. CASE grace[Watched] # "over"
    <3>1. Hitting = {}
      BY <2>1, <2>3
    <3>2. Cardinality(Hitting) = 0
      BY <3>1, FS_EmptySet
    <3> QED
      BY <1>1, <2>3, <3>2
  <2> QED
    BY <2>2, <2>3
<1> QED
  BY <1>1, <1>2 DEF CancelsCounted, Hitting, Stopping

\* A task is cancelled no more often than delayed shutdowns hit it, and shutdown()
\* adds one; with distinct ids never more than twice.
THEOREM CancellationsAreCounted == SessionSpec => []CancelsCounted
  BY DistinctCount, CountAlways, SessionImplementsRegistry, SessionImplementsTask,
     GraceHitsItsOwn, TaskShape, PTL

\* The bound on cancellations bounds nothing: whenever a delayed shutdown or
\* shutdown() is still to come, the task can be cancelled.
THEOREM BoundIsFree ==
  SessionSpec => []((\E r \in Requests : grace[r] = "armed") \/ mgr = "up" => cancels < NCancels)
<1>1. ASSUME CountInv, B!TypeOK, (\E r \in Requests : grace[r] = "armed") \/ mgr = "up"
      PROVE  cancels < NCancels
  <2>1. cancels \in Nat /\ cancels <= Cardinality(Hitting) + Stopping
    BY <1>1, CancelsBound DEF CountInv, B!TypeOK
  <2>2. Cardinality(Hitting) <= Cardinality(Requests) /\ Cardinality(Requests) \in Nat
    BY RequestsAssumption, FS_Subset, FS_CardinalityType DEF Hitting
  <2>3. CASE mgr = "up"
    BY <2>1, <2>2, <2>3, HittingIsFinite DEF Stopping, NCancels
  <2>4. CASE mgr # "up"
    <3>1. PICK r \in Requests : grace[r] = "armed"
      BY <1>1, <2>4
    <3>2. Hitting \subseteq Requests \ {r}
      BY <1>1, <3>1 DEF Hitting, CountInv
    <3>3. Cardinality(Hitting) <= Cardinality(Requests) - 1
      <4>1. /\ IsFiniteSet(Requests \ {r})
            /\ Cardinality(Requests \ {r}) = Cardinality(Requests) - 1
        BY RequestsAssumption, FS_RemoveElement
      <4> QED
        BY <3>2, <4>1, FS_Subset
    <3> QED
      BY <2>1, <2>2, <2>4, <3>3, HittingIsFinite DEF Stopping, NCancels
  <2> QED
    BY <2>3, <2>4
<1> QED
  BY <1>1, CountAlways, SessionImplementsTask, TaskShape, PTL

-----------------------------------------------------------------------------
(* What is left open behind a session.                                     *)

\* A session migrates only when its boot is done with.
GraceInv ==
  grace[Watched] # "none" => stage \in {"running", "closing", "over"} /\ adapter # "open"

LEMMA GraceStep ==
  TypeOK /\ B!TypeOK /\ TaskInv /\ GraceInv /\ [SessionNext]_sessionVars => GraceInv'
<1> SUFFICES ASSUME TypeOK, B!TypeOK, TaskInv, GraceInv, [SessionNext]_sessionVars PROVE GraceInv'
  OBVIOUS
<1>1. stage \in {"running", "closing", "over"} /\ adapter # "open" =>
        stage' \in {"running", "closing", "over"} /\ adapter' # "open"
  <2> SUFFICES ASSUME stage \in {"running", "closing", "over"}, adapter # "open"
               PROVE  stage' \in {"running", "closing", "over"} /\ adapter' # "open"
    OBVIOUS
  <2>1. [B!Next]_(B!vars)
    BY TaskView
  <2>2. \/ UNCHANGED <<stage, adapter>>
        \/ B!RunnerEnds \/ B!ClientClosed \/ B!Cancelled
    BY <2>1 DEF B!Next, B!BootStep, B!ToolStep, B!Boot, B!Fetched, B!FetchCancelled, B!Released,
      B!BootFails, B!DetectLocale, B!Transcript, B!ToolCall, B!Resolved, B!ToolPosts, B!ToolEnds,
      B!Cancel, B!vars
  <2> QED
    BY <2>2 DEF B!RunnerEnds, B!ClientClosed, B!Cancelled
<1>2. UNCHANGED grace \/ \E r \in Requests : Schedules(r) \/ GraceEnds(r)
  <2>1. [Next]_vars
    BY RegistryView
  <2> QED
    BY <2>1, Zenon DEF SessionNext, WatchedStep, Runs, ToolRuns, Stops, Stopped, Received, Answered,
      OtherEnds, Forgotten, ShutdownBegins, ShutdownEnds, Receive, RoomCreated, SpawnPipeline,
      RequestFails, PipelineEnds, HandleDone, vars, sessionVars
<1>3. CASE UNCHANGED grace
  BY <1>1, <1>3 DEF GraceInv
<1>4. ASSUME NEW r \in Requests, Schedules(r) PROVE GraceInv'
  <2>1. UNCHANGED <<stage, adapter>> /\ (r = Watched => stage = "running")
    BY <1>4, Zenon DEF Schedules, bootVars
  <2>2. r # Watched => grace'[Watched] = grace[Watched]
    BY <1>4, WatchedAssumption DEF Schedules, ScheduleShutdown, TypeOK
  <2> QED
    BY <2>1, <2>2 DEF GraceInv, TaskInv
<1>5. ASSUME NEW r \in Requests, GraceEnds(r) PROVE GraceInv'
  <2>1. grace'[Watched] # "none" => grace[Watched] # "none"
    BY <1>5, WatchedAssumption DEF GraceEnds, GraceOver, TypeOK
  <2> QED
    BY <1>1, <2>1 DEF GraceInv
<1> QED
  BY <1>2, <1>3, <1>4, <1>5

\* Only a cancellation that hits the closing of an HTTP client, or a tool task that
\* outlives the session, leaves a client open; the closing is hit only behind a
\* migration or in shutdown(), and that of the fetch's client only in shutdown().
THEOREM ClientsDoNotLeak == SessionSpec => []ClientsAreClosed
<1>1. CancelsCounted /\ B!TypeOK /\ TypeOK /\ TaskInv /\ GraceInv => ClientsAreClosed
  <2> SUFFICES ASSUME CancelsCounted, B!TypeOK, TypeOK, TaskInv, GraceInv
               PROVE  ClientsAreClosed
    OBVIOUS
  <2>1. Distinct /\ cut => grace[Watched] = "over" \/ mgr # "up"
    BY CancelsBound DEF CancelsCounted, TaskInv
  <2>2. ASSUME Distinct, mgr = "up", stage = "over" PROVE adapter # "open"
    <3>1. CASE cut
      BY <2>1, <2>2, <3>1 DEF GraceInv
    <3>2. CASE ~cut
      BY <2>2, <3>2 DEF TaskInv, B!ClientsClosed
    <3> QED
      BY <3>1, <3>2
  <2> QED
    BY <2>1, <2>2 DEF ClientsAreClosed, TaskInv
<1>2. SessionInit => GraceInv
  BY WatchedAssumption DEF SessionInit, Init, GraceInv
<1>3. SessionSpec => []TaskInv
  BY SessionImplementsTask, TaskIsSound, PTL
<1>4. SessionSpec => []TypeOK
  BY SessionImplementsRegistry, RegistryTypeCorrect, PTL
<1>5. SessionSpec => []B!TypeOK
  BY SessionImplementsTask, TaskShape, PTL
<1>6. SessionSpec => []GraceInv
  BY <1>2, <1>3, <1>4, <1>5, GraceStep, PTL DEF SessionSpec
<1> QED
  BY <1>1, <1>3, <1>4, <1>5, <1>6, CancellationsAreCounted, PTL
=============================================================================
