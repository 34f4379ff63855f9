--------------------------- MODULE Migration_proofs ---------------------------
(***************************************************************************)
(* Proofs about region migration, for every home region and any number of  *)
(* barge-ins and LLM responses.                                            *)
(***************************************************************************)
EXTENDS Migration, TLAPS

\* A prepare task exists only outside the Sarvam regions; its one result, if
\* any, names a region whose worker was spawned, and that is the only region
\* the client can have been sent to.
MigrationInv ==
  /\ prepare \in Preparing \cup Ended \cup {"none"}
  /\ prepare # "none" => ShouldMigrate
  /\ prepare \in Preparing => try \in 1 .. 2
  /\ prepare = "ok" <=> frame # None
  /\ posted \subseteq Regions /\ worker \subseteq Regions
  /\ posted \cup worker # {} => ShouldMigrate
  /\ frame # None => frame \in worker
  /\ proc = "sending" => frame # None
  /\ taken \subseteq {frame} \ {None}
  /\ home \in {"live", "graced", "cancelled", "over"}
  /\ home \in {"graced", "cancelled"} => taken # {}
  /\ ~InSession => proc = "dead"
  /\ proc \in {"awaiting", "sending"} => ~sent
  /\ bargeIns \in Nat
  /\ InSession /\ prepare = "cancelled" => bargeIns > 0
  /\ SenderDies

\* Outside its own regions Sarvam is reached through Mumbai, then Singapore.
LEMMA TargetsAreRegions ==
  Regions = {"bom", "sin"} /\ Len(Preferred) = 2
    /\ (ShouldMigrate => Targets = Preferred) /\ Preferred[1] \in Regions /\ Preferred[2] \in Regions
  BY DEF Regions, Preferred, ShouldMigrate, Targets, PickTarget

LEMMA MigrationStep == MigrationInv /\ [Next]_vars => MigrationInv'
<1> SUFFICES ASSUME MigrationInv, [Next]_vars PROVE MigrationInv'
  OBVIOUS
<1> USE DEF MigrationInv, SenderDies, InSession, Preparing, Ended, prepareVars, remoteVars, bounds
<1>1. CASE RequestMigration
  BY <1>1 DEF RequestMigration, ShouldMigrate
<1>2. CASE RoomCreated
  BY <1>2 DEF RoomCreated, ShouldMigrate
<1>3. CASE PostSpawn
  <2>1. Targets[try] \in Regions
    BY <1>3, TargetsAreRegions DEF PostSpawn
  <2> QED
    BY <1>3, <2>1 DEF PostSpawn, ShouldMigrate
<1>4. CASE SpawnAcknowledged
  BY <1>4, NoneAssumption DEF SpawnAcknowledged, ShouldMigrate
<1>5. CASE AttemptFails
  <2>1. Len(Targets) = 2
    BY <1>5, TargetsAreRegions DEF AttemptFails
  <2>2. try' \in 1 .. 2
    BY <1>5, <2>1 DEF AttemptFails
  <2> QED
    BY <1>5, <2>2 DEF AttemptFails, ShouldMigrate
<1>6. CASE ResponseEnds
  BY <1>6 DEF ResponseEnds, ShouldMigrate
<1>7. CASE SenderStep
  BY <1>7 DEF SenderStep, PrepareOver, Taken, Sent, SendFails, ShouldMigrate
<1>8. CASE BargeIn
  BY <1>8 DEF BargeIn, CancelSender, ShouldMigrate
<1>9. CASE GraceOver
  BY <1>9 DEF GraceOver, ShouldMigrate
<1>10. ASSUME NEW r \in Regions, RemoteSpawns(r) \/ RequestLost(r) PROVE MigrationInv'
  BY <1>10 DEF RemoteSpawns, RequestLost, ShouldMigrate
<1>11. CASE SessionEnds
  BY <1>11 DEF SessionEnds, CancelSender, ShouldMigrate
<1>12. CASE UNCHANGED vars
  BY <1>12 DEF vars, ShouldMigrate
<1> QED
  BY <1>1, <1>2, <1>3, <1>4, <1>5, <1>6, <1>7, <1>8, <1>9, <1>10, <1>11, <1>12 DEF Next, PrepareStep

LEMMA MigrationInvariant == Spec => []MigrationInv
<1>1. Init => MigrationInv
  BY DEF Init, MigrationInv, SenderDies, InSession, Ended, Preparing
<1> QED
  BY <1>1, MigrationStep, PTL DEF Spec

\* While the session lives, only a barge-in that cancelled the prepare task, or a
\* send that raised, takes the frame sender down.
THEOREM SenderIsLostOnlySo == Spec => []SenderDies
<1>1. MigrationInv => SenderDies
  BY DEF MigrationInv
<1> QED
  BY <1>1, MigrationInvariant, PTL

\* Every migration is a handover: workers are added, the client is offered
\* one of them, and the old worker is retired only after an offer.
THEOREM MigrationImplementsHandover == Spec => ImplementsHandover
<1>1. Init => H!Init
  BY DEF Init, H!Init, InSession
<1>2. MigrationInv /\ [Next]_vars => [H!Next]_(H!vars)
  <2> SUFFICES ASSUME MigrationInv, [Next]_vars PROVE [H!Next]_(H!vars)
    OBVIOUS
  <2> USE DEF MigrationInv, InSession, prepareVars, remoteVars, bounds, H!vars
  <2>1. CASE UNCHANGED <<worker, taken, home>>
    BY <2>1
  <2>2. CASE Taken
    <3>1. frame \in worker /\ frame # Home /\ taken \subseteq {frame} /\ InSession
      BY <2>2 DEF Taken, ShouldMigrate
    <3>2. H!Offer(frame)
      BY <2>2, <3>1 DEF Taken, H!Offer
    <3> QED
      BY <3>1, <3>2 DEF H!Next
  <2>3. CASE Sent
    BY <2>3 DEF Sent
  <2>4. CASE GraceOver
    <3>1. Home \notin worker
      BY DEF ShouldMigrate
    <3>2. H!Retire
      BY <2>4, <3>1 DEF GraceOver, H!Retire
    <3> QED
      BY <3>2 DEF H!Next
  <2>5. ASSUME NEW r \in Regions, RemoteSpawns(r) PROVE [H!Next]_(H!vars)
    <3>1. r # Home
      BY <2>5 DEF RemoteSpawns, ShouldMigrate
    <3>2. CASE r \in worker
      BY <2>5, <3>2 DEF RemoteSpawns
    <3>3. CASE r \notin worker
      <4>1. H!Start(r)
        BY <2>5, <3>1, <3>3 DEF RemoteSpawns, H!Start
      <4> QED
        BY <4>1 DEF H!Next
    <3> QED
      BY <3>2, <3>3
  <2>6. CASE SessionEnds
    <3>1. Home \notin worker
      BY DEF ShouldMigrate
    <3>2. H!Leave
      BY <2>6, <3>1 DEF SessionEnds, H!Leave
    <3> QED
      BY <3>2 DEF H!Next
  <2> QED
    BY <2>1, <2>2, <2>3, <2>4, <2>5, <2>6
    DEF Next, vars, PrepareStep, SenderStep, RequestMigration, RoomCreated, PostSpawn,
        SpawnAcknowledged, AttemptFails, ResponseEnds, PrepareOver, SendFails, BargeIn,
        CancelSender, RequestLost
<1> QED
  BY <1>1, <1>2, MigrationInvariant, PTL DEF Spec, ImplementsHandover, H!Spec

\* What the invariant leaves out of the shape of the state.
Shape ==
  /\ try \in 0 .. 2 /\ frame \in Regions \cup {None} /\ sent \in BOOLEAN
  /\ proc \in {"ready", "awaiting", "sending", "dead"}
  /\ bargeIns \in 0 .. NBargeIns /\ responses \in 0 .. NResponses

\* The coordinator's state keeps its shape.
THEOREM TypeCorrect == Spec => []TypeOK
<1>1. Init => Shape
  <2> SUFFICES ASSUME Init PROVE Shape
    OBVIOUS
  <2>1. sent \in BOOLEAN
    BY Zenon DEF Init
  <2>2. /\ try \in 0 .. 2 /\ frame \in Regions \cup {None}
        /\ proc \in {"ready", "awaiting", "sending", "dead"}
        /\ bargeIns \in 0 .. NBargeIns /\ responses \in 0 .. NResponses
    BY BoundsAssumption DEF Init
  <2> QED
    BY <2>1, <2>2 DEF Shape
<1>2. MigrationInv /\ Shape /\ [Next]_vars => Shape'
  <2> SUFFICES ASSUME MigrationInv, Shape, [Next]_vars PROVE Shape'
    OBVIOUS
  <2> USE BoundsAssumption DEF Shape, prepareVars, remoteVars, bounds
  <2>1. CASE RequestMigration \/ RoomCreated \/ PostSpawn
    BY <2>1 DEF RequestMigration, RoomCreated, PostSpawn
  <2>2. CASE SpawnAcknowledged
    <3>1. Targets[try] \in Regions
      BY <2>2, TargetsAreRegions DEF SpawnAcknowledged, MigrationInv, Preparing
    <3> QED
      BY <2>2, <3>1 DEF SpawnAcknowledged
  <2>3. CASE AttemptFails
    <3>1. Len(Targets) = 2
      BY <2>3, TargetsAreRegions DEF AttemptFails, MigrationInv, Preparing
    <3> QED
      BY <2>3, <3>1 DEF AttemptFails
  <2>4. CASE ResponseEnds
    <3>1. proc' \in {"ready", "awaiting", "sending", "dead"}
      BY <2>4 DEF ResponseEnds, MigrationInv, Preparing, Ended
    <3>2. UNCHANGED <<try, frame, sent, bargeIns>>
      BY <2>4, Zenon DEF ResponseEnds, prepareVars
    <3>3. responses' \in 0 .. NResponses
      BY <2>4 DEF ResponseEnds
    <3> QED
      BY <3>1, <3>2, <3>3
  <2>5. CASE SenderStep
    BY <2>5 DEF SenderStep, PrepareOver, Taken, Sent, SendFails
  <2>6. CASE BargeIn \/ GraceOver \/ SessionEnds
    BY <2>6 DEF BargeIn, GraceOver, SessionEnds, CancelSender
  <2>7. ASSUME NEW r \in Regions, RemoteSpawns(r) \/ RequestLost(r) PROVE Shape'
    BY <2>7 DEF RemoteSpawns, RequestLost
  <2>8. CASE UNCHANGED vars
    BY <2>8 DEF vars
  <2> QED
    BY <2>1, <2>2, <2>3, <2>4, <2>5, <2>6, <2>7, <2>8 DEF Next, PrepareStep
<1>3. Len(Targets) = 2
  BY DEF Targets, Preferred
<1>4. MigrationInv /\ Shape => TypeOK
  <2> SUFFICES ASSUME MigrationInv, Shape PROVE TypeOK
    OBVIOUS
  <2>1. taken \subseteq Regions
    BY DEF MigrationInv, Shape
  <2> QED
    BY <1>3, <2>1 DEF MigrationInv, Shape, TypeOK
<1> QED
  BY <1>1, <1>2, <1>4, MigrationInvariant, PTL DEF Spec
=============================================================================
