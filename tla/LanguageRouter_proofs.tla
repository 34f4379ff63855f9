------------------------ MODULE LanguageRouter_proofs ------------------------
(***************************************************************************)
(* Proofs about the language router, for any number of turns, frames and   *)
(* any slice length.                                                       *)
(***************************************************************************)
EXTENDS LanguageRouter, TLAPS

\* Sarvam is selected only while the turn that selected it is sure; a verdict
\* stays with its turn, whichever task brings it and whoever is late.
RouteInv ==
  /\ stt \in Stts
  /\ stt = "sarvam" => routedBy \in sure
  /\ SarvamNeedsConfidence

\* However the two tasks interleave, audio reaches Sarvam only by a confident
\* detection of an Indic language ("Bias toward English on weak signal").
THEOREM OnlyConfidenceRoutesToSarvam == Spec => []SarvamNeedsConfidence
<1>1. Init => RouteInv
  BY DEF Init, RouteInv, SarvamNeedsConfidence, Stts
<1>2. RouteInv /\ [Next]_vars => RouteInv'
  <2> SUFFICES ASSUME RouteInv, [Next]_vars PROVE RouteInv'
    OBVIOUS
  <2> USE DEF RouteInv, SarvamNeedsConfidence
  <2>1. CASE UserStarted \/ UserStopped
    BY <2>1 DEF UserStarted, UserStopped, clientVars, routerVars, taskVars, outVars
  <2>2. CASE AudioFrame
    BY <2>2 DEF AudioFrame, ToStt
  <2>3. ASSUME NEW t \in Tasks, DetectDone(t) PROVE RouteInv'
    BY <2>3 DEF DetectDone, Route, Verdicts, Stts
  <2>4. ASSUME NEW t \in Tasks, Release(t) PROVE RouteInv'
    BY <2>4 DEF Release, ToStt, routerVars
  <2>5. ASSUME NEW t \in Tasks, Released(t) PROVE RouteInv'
    BY <2>5 DEF Released, outVars
  <2>6. CASE UNCHANGED vars
    BY <2>6 DEF vars, routerVars, outVars
  <2> QED
    BY <2>1, <2>2, <2>3, <2>4, <2>5, <2>6 DEF Next, TaskStep
<1>3. RouteInv => SarvamNeedsConfidence
  BY DEF RouteInv
<1> QED
  BY <1>1, <1>2, <1>3, PTL DEF Spec

-----------------------------------------------------------------------------
(* A released router holds something back only while a task is at it.      *)
HeldInv ==
  /\ pc \in [Tasks -> {"idle", "detect", "start", "release"}]
  /\ released => (buffer = <<>> /\ held = None) \/ \E t \in Tasks : pc[t] \in {"start", "release"}

\* Two tasks that detect, release and clear each other's buffer leave no
\* frame and no start behind for the rest of the turn.
THEOREM ReleasedRouterIsEmpty == Spec => []NothingHeldBack
<1>1. Init => HeldInv
  BY DEF Init, HeldInv
<1>2. HeldInv /\ [Next]_vars => HeldInv'
  <2> SUFFICES ASSUME HeldInv, [Next]_vars PROVE HeldInv'
    OBVIOUS
  <2> USE DEF HeldInv
  <2>1. CASE UserStarted
    BY <2>1 DEF UserStarted
  <2>2. CASE UserStopped
    BY <2>2 DEF UserStopped, Detect, routerVars, Tasks
  <2>3. CASE AudioFrame
    BY <2>3 DEF AudioFrame, Detect, Tasks
  <2>4. ASSUME NEW t \in Tasks, DetectDone(t) PROVE HeldInv'
    BY <2>4 DEF DetectDone
  <2>5. ASSUME NEW t \in Tasks, Release(t) PROVE HeldInv'
    BY <2>5 DEF Release, routerVars
  <2>6. ASSUME NEW t \in Tasks, Released(t) PROVE HeldInv'
    BY <2>6 DEF Released
  <2>7. CASE UNCHANGED vars
    BY <2>7 DEF vars, routerVars, taskVars
  <2> QED
    BY <2>1, <2>2, <2>3, <2>4, <2>5, <2>6, <2>7 DEF Next, TaskStep
<1>3. HeldInv => NothingHeldBack
  BY DEF HeldInv, NothingHeldBack
<1> QED
  BY <1>1, <1>2, <1>3, PTL DEF Spec

-----------------------------------------------------------------------------
(* What the lists hold.                                                    *)

\* The frames of a list were taken in turns of T, going by the record f.
Taken(list, f, T) ==
  list \in Seq(1 .. Len(f)) /\ \A i \in 1 .. Len(list) : f[list[i]] \in T

RouterTypes ==
  /\ turn \in Nat /\ held \in Nat /\ frames \in Seq(Nat)
  /\ pc \in [Tasks -> {"idle", "detect", "start", "release"}]
  /\ todo \in [Tasks -> Seq(Nat)] /\ live \in SUBSET Tasks
  /\ \A d \in sent : d.frame \in 1 .. Len(frames)

\* What is buffered is of the current turn; a loop that runs over the buffer is
\* one of a task that releases.
BufferInv ==
  /\ RouterTypes
  /\ Taken(buffer, frames, {turn})
  /\ \A t \in Tasks : pc[t] = "release" => Taken(todo[t], frames, Nat)
  /\ \A t \in live : pc[t] = "release"

\* A frame more of a turn in T.
LEMMA TakenAppend ==
  ASSUME NEW f \in Seq(Nat), NEW n \in Nat, NEW list, NEW T, Taken(list, f, T)
  PROVE  /\ Taken(list, Append(f, n), T)
         /\ n \in T => Taken(Append(list, Len(f) + 1), Append(f, n), T)
<1> DEFINE k == Len(f)
           g == Append(f, n)
           more == Append(list, k + 1)
<1>1. k \in Nat /\ Len(g) = k + 1 /\ g[k + 1] = n /\ \A i \in 1 .. k : g[i] = f[i]
  OBVIOUS
<1>2. list \in Seq(1 .. k) /\ \A i \in 1 .. Len(list) : f[list[i]] \in T
  BY DEF Taken
<1>3. Len(list) \in Nat /\ \A i \in 1 .. Len(list) : list[i] \in 1 .. k
  BY <1>2
<1>4. list \in Seq(1 .. k + 1)
  <2>1. \A i \in 1 .. Len(list) : list[i] \in 1 .. k + 1
    BY <1>1, <1>3
  <2> QED
    BY <1>2, <2>1
<1>5. more \in Seq(1 .. k + 1) /\ Len(more) = Len(list) + 1 /\ more[Len(list) + 1] = k + 1
  BY <1>1, <1>4
<1>6. \A i \in 1 .. Len(list) : more[i] = list[i]
  BY <1>2
<1> HIDE DEF g, more, k
<1>7. Taken(list, g, T)
  BY <1>1, <1>2, <1>3, <1>4 DEF Taken
<1>8. ASSUME n \in T PROVE Taken(more, g, T)
  <2>1. ASSUME NEW i \in 1 .. Len(more) PROVE g[more[i]] \in T
    <3>1. CASE i = Len(list) + 1
      BY <1>1, <1>5, <1>8, <3>1
    <3>2. CASE i \in 1 .. Len(list)
      BY <1>1, <1>2, <1>3, <1>6, <3>2
    <3> QED
      BY <1>3, <1>5, <3>1, <3>2
  <2> QED
    BY <1>1, <1>5, <2>1 DEF Taken
<1> QED
  BY <1>7, <1>8 DEF g, more, k

\* The head of a list and what is left of it.
LEMMA TakenTail ==
  ASSUME NEW f \in Seq(Nat), NEW list, NEW T, Taken(list, f, T), list # <<>>
  PROVE  Taken(Tail(list), f, T) /\ Head(list) \in 1 .. Len(f) /\ f[Head(list)] \in T
<1>1. list \in Seq(1 .. Len(f)) /\ \A i \in 1 .. Len(list) : f[list[i]] \in T
  BY DEF Taken
<1>2. Len(list) \in Nat \ {0} /\ Head(list) = list[1]
  BY <1>1
<1>3. Tail(list) \in Seq(1 .. Len(f)) /\ Len(Tail(list)) = Len(list) - 1
  BY <1>1, <1>2
<1>4. \A i \in 1 .. Len(Tail(list)) : Tail(list)[i] = list[i + 1] /\ i + 1 \in 1 .. Len(list)
  BY <1>1, <1>2
<1> HIDE DEF Taken
<1>5. Taken(Tail(list), f, T)
  BY <1>1, <1>3, <1>4 DEF Taken
<1>6. list[1] \in 1 .. Len(f) /\ f[list[1]] \in T
  BY <1>1, <1>2
<1> QED
  BY <1>2, <1>5, <1>6

\* A larger set of turns.
LEMMA TakenMore ==
  ASSUME NEW f, NEW list, NEW T, NEW U, T \subseteq U, Taken(list, f, T)
  PROVE  Taken(list, f, U)
  BY DEF Taken

LEMMA BufferInvariant == Spec => []BufferInv
<1>1. ASSUME Init PROVE BufferInv
  <2> USE <1>1 DEF Init
  <2>1. frames \in Seq(Nat) /\ todo \in [Tasks -> Seq(Nat)]
    OBVIOUS
  <2>2. RouterTypes
    BY <2>1 DEF RouterTypes, None
  <2>3. Taken(buffer, frames, {turn})
    BY DEF Taken
  <2> QED
    BY <2>2, <2>3 DEF BufferInv
<1>2. BufferInv /\ [Next]_vars => BufferInv'
  <2> SUFFICES ASSUME BufferInv, [Next]_vars PROVE BufferInv'
    OBVIOUS
  <2> USE DEF BufferInv
  <2>1. CASE UserStarted
    <3> USE <2>1 DEF UserStarted
    <3>0. UNCHANGED <<frames, pc, todo, sent>> /\ live' = {} /\ turn' = turn + 1
          /\ held' = turn + 1
      OBVIOUS
    <3>1. RouterTypes'
      BY <3>0 DEF RouterTypes
    <3>2. Taken(buffer', frames', {turn'})
      BY DEF Taken
    <3> QED
      BY <3>0, <3>1, <3>2
  <2>2. CASE UserStopped
    BY <2>2 DEF UserStopped, Detect, clientVars, routerVars, outVars, RouterTypes, Tasks
  <2>3. CASE AudioFrame
    <3> DEFINE f == Len(frames) + 1
    <3> USE <2>3
    <3>0. frames \in Seq(Nat) /\ turn \in Nat /\ Len(frames) \in Nat
      BY DEF RouterTypes
    <3>1. frames' = Append(frames, turn) /\ frames'[f] = turn /\ Len(frames') = f
          /\ \A i \in 1 .. Len(frames) : frames'[i] = frames[i]
      BY <3>0 DEF AudioFrame
    <3>2. turn' = turn
      BY DEF AudioFrame
    <3>3. CASE released /\ ToStt(f) /\ UNCHANGED <<buffer, pc, by, todo>>
      <4>2. Taken(buffer, frames', {turn})
        BY <3>0, <3>1, TakenAppend
      <4>3. \A t \in Tasks : pc[t] = "release" => Taken(todo[t], frames', Nat)
        BY <3>0, <3>1, TakenAppend
      <4>4. sent' = sent \cup {[frame |-> f, to |-> stt, by |-> routedBy]}
        BY <3>3 DEF ToStt
      <4>5. \A d \in sent' : d.frame \in 1 .. Len(frames')
        BY <3>0, <3>1, <4>4 DEF RouterTypes
      <4>6. RouterTypes'
        BY <3>0, <3>1, <3>3, <4>5 DEF RouterTypes, AudioFrame
      <4> QED
        BY <3>2, <3>3, <4>2, <4>3, <4>6 DEF AudioFrame
    <3>4. CASE /\ ~released /\ buffer' = Append(buffer, f)
               /\ todo' = [t \in Tasks |-> IF t \in live THEN Append(todo[t], f) ELSE todo[t]]
               /\ IF Len(buffer) + 1 >= Enough THEN Detect("audio") ELSE UNCHANGED <<pc, by>>
               /\ UNCHANGED sent
      <4>1. pc["audio"] = "idle" /\ UNCHANGED <<turn, held, released, live>>
        BY DEF AudioFrame
      <4>2. Taken(buffer', frames', {turn})
        BY <3>0, <3>1, <3>4, TakenAppend
      <4>3. \A t \in Tasks : pc[t] = "release" => Taken(todo[t], frames', Nat)
        BY <3>0, <3>1, TakenAppend
      <4>4. \A t \in live : Taken(Append(todo[t], f), frames', Nat)
        <5> SUFFICES ASSUME NEW t \in live PROVE Taken(Append(todo[t], f), frames', Nat)
          OBVIOUS
        <5>1. t \in Tasks /\ pc[t] = "release"
          BY DEF RouterTypes
        <5> QED
          BY <3>0, <3>1, <5>1, TakenAppend
      <4>5. pc' = pc \/ pc' = [pc EXCEPT !["audio"] = "detect"]
        BY <3>4 DEF Detect
      <4>6. pc' \in [Tasks -> {"idle", "detect", "start", "release"}]
            /\ \A t \in Tasks : pc'[t] = "release" <=> pc[t] = "release"
        BY <4>1, <4>5 DEF RouterTypes, Tasks
      <4>7. \A t \in Tasks : pc[t] = "release" => Taken(todo'[t], frames', Nat)
        BY <3>4, <4>3, <4>4
      <4>9. \A d \in sent' : d.frame \in 1 .. Len(frames')
        BY <3>0, <3>1, <3>2, <3>4 DEF RouterTypes
      <4>10. todo' \in [Tasks -> Seq(Nat)]
        BY <3>0, <3>4 DEF RouterTypes
      <4>11. RouterTypes'
        BY <3>0, <3>1, <4>1, <4>6, <4>9, <4>10 DEF RouterTypes
      <4>12. \A t \in live' : pc'[t] = "release"
        BY <4>1, <4>6 DEF RouterTypes
      <4> QED
        BY <3>2, <4>1, <4>2, <4>6, <4>7, <4>11, <4>12
    <3> QED
      BY <3>3, <3>4 DEF AudioFrame
  <2>4. ASSUME NEW t \in Tasks, DetectDone(t) PROVE BufferInv'
    <3> USE <2>4 DEF DetectDone
    <3>1. UNCHANGED <<turn, frames, buffer, todo, live>>
      BY DEF clientVars
    <3>2. RouterTypes'
      BY DEF RouterTypes, clientVars
    <3>4. \A u \in Tasks : pc'[u] = "release" => pc[u] = "release"
      BY DEF RouterTypes
    <3>5. \A u \in live' : pc'[u] = "release"
      BY DEF RouterTypes
    <3> QED
      BY <3>1, <3>2, <3>4, <3>5
  <2>5. ASSUME NEW t \in Tasks, Release(t) PROVE BufferInv'
    <3> USE <2>5 DEF Release
    <3>0. frames \in Seq(Nat) /\ UNCHANGED <<turn, frames, buffer, held, released>>
      BY DEF RouterTypes, clientVars, routerVars
    <3>2. Taken(Rest(t), frames, Nat)
      <4>1. CASE pc[t] = "start"
        BY <4>1, TakenMore DEF Rest, RouterTypes
      <4>2. CASE pc[t] = "release"
        BY <4>2 DEF Rest
      <4> QED
        BY <4>1, <4>2
    <3>3. Taken(Tail(Rest(t)), frames, Nat) /\ Head(Rest(t)) \in 1 .. Len(frames)
      BY <3>0, <3>2, TakenTail
    <3>4. sent' = sent \cup {[frame |-> Head(Rest(t)), to |-> stt, by |-> routedBy]}
      BY DEF ToStt
    <3>5. \A d \in sent' : d.frame \in 1 .. Len(frames')
      BY <3>0, <3>3, <3>4 DEF RouterTypes
    <3>6. Tail(Rest(t)) \in Seq(Nat)
      BY <3>0, <3>3 DEF Taken
    <3>7. RouterTypes'
      BY <3>0, <3>5, <3>6 DEF RouterTypes
    <3>8. \A u \in Tasks : pc'[u] = "release" => Taken(todo'[u], frames', Nat)
      BY <3>0, <3>3 DEF RouterTypes
    <3>9. \A u \in live' : pc'[u] = "release"
      BY DEF RouterTypes
    <3> QED
      BY <3>0, <3>7, <3>8, <3>9
  <2>6. ASSUME NEW t \in Tasks, Released(t) PROVE BufferInv'
    <3> USE <2>6 DEF Released
    <3>0. UNCHANGED <<turn, frames, released, todo, sent>>
      BY DEF clientVars, outVars
    <3>2. RouterTypes'
      BY <3>0 DEF RouterTypes, None
    <3>3. Taken(buffer', frames', {turn'})
      BY DEF Taken
    <3>4. \A u \in Tasks : pc'[u] = "release" => pc[u] = "release"
      BY DEF RouterTypes
    <3> QED
      BY <3>0, <3>2, <3>3, <3>4
  <2>7. CASE UNCHANGED vars
    BY <2>7 DEF vars, clientVars, routerVars, taskVars, outVars, RouterTypes
  <2> QED
    BY <2>1, <2>2, <2>3, <2>4, <2>5, <2>6, <2>7 DEF Next, TaskStep
<1> QED
  BY <1>1, <1>2, PTL DEF Spec

-----------------------------------------------------------------------------
(* Which turn's language routes what.                                      *)

\* A task that is busy joined in the current turn, or in an earlier one, and
\* then the current one is overlapped; the VAD task itself brings the turns.
\* Whatever a task releases was taken in the turn it joined in or in an
\* overlapped one, and two tasks that route at once agree.
AgreeInv ==
  /\ by \in [Tasks -> Nat] /\ routedBy \in Nat
  /\ \A t \in Tasks : pc[t] # "idle" => by[t] = turn \/ turn \in overlapped
  /\ pc["vad"] # "idle" => by["vad"] = turn
  /\ turn \notin overlapped /\ (released \/ \E t \in Tasks : pc[t] \in {"start", "release"})
       => routedBy = turn
  /\ \A t \in Tasks : pc[t] = "release" => Taken(todo[t], frames, {by[t]} \cup overlapped)
  /\ \A t \in Tasks : pc[t] \in {"start", "release"} /\ {routedBy, by[t]} \cap overlapped = {}
       => routedBy = by[t]
  /\ RoutedByItsTurn

LEMMA AgreeStep == BufferInv /\ AgreeInv /\ [Next]_vars => AgreeInv'
<1> SUFFICES ASSUME BufferInv, AgreeInv, [Next]_vars PROVE AgreeInv'
  OBVIOUS
<1>0. /\ turn \in Nat /\ frames \in Seq(Nat) /\ Len(frames) \in Nat
      /\ pc \in [Tasks -> {"idle", "detect", "start", "release"}]
      /\ todo \in [Tasks -> Seq(Nat)] /\ Taken(buffer, frames, {turn})
      /\ \A d \in sent : d.frame \in 1 .. Len(frames)
      /\ \A t \in live : t \in Tasks /\ pc[t] = "release"
  BY DEF BufferInv, RouterTypes
<1> USE <1>0 DEF AgreeInv
<1>1. CASE UserStarted
  <2> USE <1>1 DEF UserStarted
  <2>1. UNCHANGED <<frames, pc, by, todo, sent, routedBy>> /\ turn' = turn + 1
        /\ ~released' /\ overlapped \subseteq overlapped' /\ pc["vad"] = "idle"
        /\ (pc["audio"] # "idle" => turn' \in overlapped')
    OBVIOUS
  <2>2. \A t \in Tasks : pc'[t] # "idle" => turn' \in overlapped'
    BY <2>1 DEF Tasks
  <2>3. \A t \in Tasks : pc'[t] = "release" => Taken(todo'[t], frames', {by'[t]} \cup overlapped')
    <3> SUFFICES ASSUME NEW t \in Tasks, pc[t] = "release"
                 PROVE  Taken(todo[t], frames, {by[t]} \cup overlapped')
      BY <2>1
    <3>1. {by[t]} \cup overlapped \subseteq {by[t]} \cup overlapped'
      BY <2>1
    <3> QED
      BY <3>1, TakenMore
  <2>4. RoutedByItsTurn'
    BY <2>1 DEF RoutedByItsTurn
  <2>5. \A t \in Tasks : pc'[t] \in {"start", "release"} /\ {routedBy', by'[t]} \cap overlapped' = {}
          => routedBy' = by'[t]
    BY <2>1
  <2>6. by' \in [Tasks -> Nat] /\ routedBy' \in Nat /\ pc'["vad"] = "idle"
    BY <2>1
  <2> QED
    BY <2>1, <2>2, <2>3, <2>4, <2>5, <2>6
<1>2. CASE UserStopped
  <2> USE <1>2 DEF UserStopped
  <2>1. UNCHANGED <<turn, frames, released, routedBy, todo, sent, overlapped>>
        /\ pc["vad"] = "idle"
    BY DEF clientVars, routerVars, outVars
  <2>2. \/ UNCHANGED <<pc, by>>
        \/ pc' = [pc EXCEPT !["vad"] = "detect"] /\ by' = [by EXCEPT !["vad"] = turn]
    BY DEF Detect
  <2>3. RoutedByItsTurn'
    BY <2>1 DEF RoutedByItsTurn
  <2>4. "vad" \in Tasks
    BY DEF Tasks
  <2>5. \A t \in Tasks : pc'[t] \in {"start", "release"} =>
          pc'[t] = pc[t] /\ by'[t] = by[t]
    BY <2>1, <2>2, <2>4
  <2>6. \A t \in Tasks : pc'[t] = "release" => Taken(todo'[t], frames', {by'[t]} \cup overlapped')
    BY <2>1, <2>5
  <2>7. \A t \in Tasks : pc'[t] # "idle" => by'[t] = turn \/ turn \in overlapped
    BY <2>2, <2>4
  <2>8. by' \in [Tasks -> Nat]
    BY <2>2
  <2>9. pc'["vad"] # "idle" => by'["vad"] = turn
    BY <2>2, <2>4
  <2> QED
    BY <2>1, <2>3, <2>5, <2>6, <2>7, <2>8, <2>9
<1>3. CASE AudioFrame
  <2> DEFINE f == Len(frames) + 1
  <2>1. /\ frames' = Append(frames, turn) /\ pc["audio"] = "idle"
        /\ UNCHANGED <<turn, released, routedBy, overlapped, live>>
    BY <1>3 DEF AudioFrame
  <2>2. frames'[f] = turn /\ \A i \in 1 .. Len(frames) : frames'[i] = frames[i]
    BY <2>1
  <2>3. \A t \in Tasks : pc[t] = "release" => Taken(todo[t], frames', {by[t]} \cup overlapped)
    BY <2>1, TakenAppend
  <2>4. CASE released /\ ToStt(f) /\ UNCHANGED <<buffer, pc, by, todo>>
    <3>1. sent' = sent \cup {[frame |-> f, to |-> stt, by |-> routedBy]}
      BY <2>4 DEF ToStt
    <3>2. turn \notin overlapped => routedBy = turn
      BY <2>4
    <3>3. ASSUME NEW d \in sent', {frames'[d.frame], d.by} \cap overlapped = {}
          PROVE  d.by = frames'[d.frame]
      <4>1. CASE d \in sent
        BY <2>2, <3>3, <4>1 DEF RoutedByItsTurn
      <4>2. CASE d = [frame |-> f, to |-> stt, by |-> routedBy]
        BY <2>2, <3>2, <3>3, <4>2
      <4> QED
        BY <3>1, <4>1, <4>2
    <3>4. RoutedByItsTurn'
      BY <2>1, <3>3 DEF RoutedByItsTurn
    <3> QED
      BY <2>1, <2>3, <2>4, <3>4
  <2>5. CASE /\ ~released /\ UNCHANGED sent
             /\ todo' = [t \in Tasks |-> IF t \in live THEN Append(todo[t], f) ELSE todo[t]]
             /\ IF Len(buffer) + 1 >= Enough THEN Detect("audio") ELSE UNCHANGED <<pc, by>>
    <3>1. \/ UNCHANGED <<pc, by>>
          \/ pc' = [pc EXCEPT !["audio"] = "detect"] /\ by' = [by EXCEPT !["audio"] = turn]
      BY <2>5 DEF Detect
    <3>2. \A t \in Tasks : pc'[t] = "release" => t # "audio" /\ pc[t] = "release" /\ by'[t] = by[t]
      BY <2>1, <3>1
    <3>3. \A t \in live : Taken(Append(todo[t], f), frames', {by[t]} \cup overlapped)
      <4> SUFFICES ASSUME NEW t \in live
                   PROVE  Taken(Append(todo[t], f), frames', {by[t]} \cup overlapped)
        OBVIOUS
      <4>1. t \in Tasks /\ pc[t] = "release" /\ turn \in {by[t]} \cup overlapped
        OBVIOUS
      <4> QED
        BY <2>1, <4>1, TakenAppend
    <3>4. \A t \in Tasks : pc'[t] = "release" => Taken(todo'[t], frames', {by'[t]} \cup overlapped')
      BY <2>1, <2>3, <2>5, <3>2, <3>3
    <3>5. RoutedByItsTurn'
      BY <2>1, <2>2, <2>5 DEF RoutedByItsTurn
    <3>6. by' \in [Tasks -> Nat]
      BY <3>1
    <3>7. \A t \in Tasks : pc'[t] # "idle" => by'[t] = turn \/ turn \in overlapped
      BY <3>1
    <3>8. pc'["vad"] # "idle" => by'["vad"] = turn
      BY <3>1 DEF Tasks
    <3>9. \A t \in Tasks : pc'[t] \in {"start", "release"} =>
            pc[t] \in {"start", "release"} /\ by'[t] = by[t]
      BY <3>1
    <3> QED
      BY <2>1, <3>4, <3>5, <3>6, <3>7, <3>8, <3>9
  <2> QED
    BY <1>3, <2>4, <2>5 DEF AudioFrame
<1>4. ASSUME NEW t \in Tasks, DetectDone(t) PROVE AgreeInv'
  <2>1. /\ UNCHANGED <<turn, frames, by, todo, sent, overlapped>> /\ routedBy' = by[t]
        /\ pc[t] = "detect" /\ pc' = [pc EXCEPT ![t] = "start"]
    BY <1>4 DEF DetectDone, clientVars
  <2>2. \A u \in Tasks : pc'[u] = "release" => pc[u] = "release"
    BY <2>1
  <2>3. ASSUME NEW u \in Tasks, pc'[u] \in {"start", "release"},
               {routedBy', by'[u]} \cap overlapped = {}
        PROVE  routedBy' = by'[u]
    <3>1. CASE u = t
      BY <2>1, <3>1
    <3>2. CASE u # t
      <4>1. pc[u] # "idle" /\ (u = "vad" \/ t = "vad")
        BY <2>1, <2>3, <3>2 DEF Tasks
      <4>2. turn \notin overlapped
        BY <2>1, <2>3, <4>1
      <4> QED
        BY <2>1, <4>1, <4>2
    <3> QED
      BY <3>1, <3>2
  <2>4. RoutedByItsTurn'
    BY <2>1 DEF RoutedByItsTurn
  <2>5. turn \notin overlapped => routedBy' = turn
    BY <2>1
  <2>6. \A u \in Tasks : pc'[u] # "idle" => pc[u] # "idle"
    BY <2>1
  <2>7. routedBy' \in Nat /\ by' \in [Tasks -> Nat]
    BY <2>1
  <2> QED
    BY <2>1, <2>2, <2>3, <2>4, <2>5, <2>6, <2>7 DEF Tasks
<1>5. ASSUME NEW t \in Tasks, Release(t) PROVE AgreeInv'
  <2>1. /\ UNCHANGED <<turn, frames, released, routedBy, by, overlapped>>
        /\ pc[t] \in {"start", "release"} /\ Rest(t) # <<>>
        /\ todo' = [todo EXCEPT ![t] = Tail(Rest(t))] /\ pc' = [pc EXCEPT ![t] = "release"]
        /\ sent' = sent \cup {[frame |-> Head(Rest(t)), to |-> stt, by |-> routedBy]}
    BY <1>5 DEF Release, clientVars, routerVars, ToStt
  <2>2. Taken(Rest(t), frames, {by[t]} \cup overlapped)
    <3>1. CASE pc[t] = "start"
      <4>1. {turn} \subseteq {by[t]} \cup overlapped
        BY <3>1
      <4> QED
        BY <3>1, <4>1, TakenMore DEF Rest
    <3>2. CASE pc[t] = "release"
      BY <3>2 DEF Rest
    <3> QED
      BY <2>1, <3>1, <3>2
  <2>3. /\ Taken(Tail(Rest(t)), frames, {by[t]} \cup overlapped)
        /\ frames[Head(Rest(t))] \in {by[t]} \cup overlapped
    BY <2>1, <2>2, TakenTail
  <2>4. RoutedByItsTurn'
    <3>1. ASSUME NEW d \in sent', {frames[d.frame], d.by} \cap overlapped = {}
          PROVE  d.by = frames[d.frame]
      <4>1. CASE d \in sent
        BY <3>1, <4>1 DEF RoutedByItsTurn
      <4>2. CASE d = [frame |-> Head(Rest(t)), to |-> stt, by |-> routedBy]
        BY <2>1, <2>3, <3>1, <4>2
      <4> QED
        BY <2>1, <4>1, <4>2
    <3> QED
      BY <2>1, <3>1 DEF RoutedByItsTurn
  <2>5. \A u \in Tasks : pc'[u] = "release" => Taken(todo'[u], frames', {by'[u]} \cup overlapped')
    BY <2>1, <2>3
  <2>6. \A u \in Tasks : pc'[u] \in {"start", "release"} <=> pc[u] \in {"start", "release"}
    BY <2>1
  <2>7. \A u \in Tasks : pc'[u] # "idle" => pc[u] # "idle"
    BY <2>1
  <2> QED
    BY <2>1, <2>4, <2>5, <2>6, <2>7 DEF Tasks
<1>6. ASSUME NEW t \in Tasks, Released(t) PROVE AgreeInv'
  <2>1. /\ UNCHANGED <<turn, frames, released, routedBy, todo, sent, overlapped>>
        /\ pc[t] \in {"start", "release"}
        /\ pc' = [pc EXCEPT ![t] = "idle"] /\ by' = [by EXCEPT ![t] = None]
    BY <1>6 DEF Released, clientVars, outVars
  <2>2. \A u \in Tasks : pc'[u] # "idle" => pc'[u] = pc[u] /\ by'[u] = by[u]
    BY <2>1
  <2>3. RoutedByItsTurn' /\ by' \in [Tasks -> Nat]
    BY <2>1 DEF RoutedByItsTurn, None
  <2> QED
    BY <2>1, <2>2, <2>3 DEF Tasks
<1>7. CASE UNCHANGED vars
  BY <1>7 DEF vars, clientVars, routerVars, taskVars, outVars, RoutedByItsTurn
<1> QED
  BY <1>1, <1>2, <1>3, <1>4, <1>5, <1>6, <1>7 DEF Next, TaskStep

\* What an STT gets was routed by the language of its own turn, whichever task
\* detected it and whichever routes last; only a speech_started that finds the
\* audio task inside a detection or a release mixes two turns.
THEOREM TurnsRouteTheirOwnAudio == Spec => []RoutedByItsTurn
<1>1. Init => AgreeInv
  BY DEF Init, AgreeInv, RoutedByItsTurn, None, Tasks
<1>2. AgreeInv => RoutedByItsTurn
  BY DEF AgreeInv
<1> QED
  BY <1>1, <1>2, AgreeStep, BufferInvariant, PTL DEF Spec

-----------------------------------------------------------------------------
(* What becomes of the audio that was taken.                               *)
Holds(list, f) == \E i \in 1 .. Len(list) : list[i] = f
Sends(out, f) == \E d \in out : d.frame = f

\* A task whose loop runs over the buffer has every frame of it ahead or has
\* sent it; if its loop runs over a list that was replaced, the other task has
\* released and nothing is buffered any more.
KeptInv ==
  /\ \A f \in 1 .. Len(frames) : frames[f] <= turn
  /\ \A t \in Tasks : pc[t] # "release" => todo[t] = <<>>
  /\ turn \notin overlapped /\ (\E t \in Tasks : pc[t] \in {"start", "release"}) => released
  /\ \A t \in live : \A f \in 1 .. Len(frames) :
       Holds(buffer, f) => Holds(todo[t], f) \/ Sends(sent, f)
  /\ turn \notin overlapped =>
       \A t \in Tasks : pc[t] = "release" /\ t \notin live => buffer = <<>>
  /\ NothingLost

LEMMA HoldsAppend ==
  ASSUME NEW list \in Seq(Nat), NEW n \in Nat
  PROVE  \A f : Holds(Append(list, n), f) <=> Holds(list, f) \/ f = n
<1> DEFINE more == Append(list, n)
<1>1. /\ Len(list) \in Nat /\ Len(more) = Len(list) + 1 /\ more[Len(list) + 1] = n
      /\ \A i \in 1 .. Len(list) : more[i] = list[i]
  OBVIOUS
<1> HIDE DEF more
<1>2. ASSUME NEW f, Holds(more, f) PROVE Holds(list, f) \/ f = n
  <2>1. PICK i \in 1 .. Len(more) : more[i] = f
    BY <1>2 DEF Holds
  <2>2. CASE i = Len(list) + 1
    BY <1>1, <2>1, <2>2
  <2>3. CASE i \in 1 .. Len(list)
    BY <1>1, <2>1, <2>3 DEF Holds
  <2> QED
    BY <1>1, <2>2, <2>3
<1>3. ASSUME NEW f, Holds(list, f) PROVE Holds(more, f)
  BY <1>1, <1>3 DEF Holds
<1>4. Holds(more, n)
  <2>1. Len(list) + 1 \in 1 .. Len(more)
    BY <1>1
  <2> QED
    BY <1>1, <2>1 DEF Holds
<1> QED
  BY <1>2, <1>3, <1>4 DEF more

LEMMA HoldsTail ==
  ASSUME NEW list \in Seq(Nat), list # <<>>
  PROVE  \A f : Holds(list, f) => Holds(Tail(list), f) \/ f = Head(list)
<1> DEFINE rest == Tail(list)
<1>1. /\ Len(list) \in Nat \ {0} /\ Head(list) = list[1] /\ Len(rest) = Len(list) - 1
      /\ \A i \in 1 .. Len(rest) : rest[i] = list[i + 1]
  OBVIOUS
<1> HIDE DEF rest
<1>2. ASSUME NEW f, Holds(list, f) PROVE Holds(rest, f) \/ f = Head(list)
  <2>1. PICK i \in 1 .. Len(list) : list[i] = f
    BY <1>2 DEF Holds
  <2>2. CASE i = 1
    BY <1>1, <2>1, <2>2
  <2>3. CASE i # 1
    <3>1. i - 1 \in 1 .. Len(rest) /\ (i - 1) + 1 = i
      BY <1>1, <2>3
    <3>2. rest[i - 1] = list[i]
      BY <1>1, <3>1
    <3> QED
      BY <2>1, <3>1, <3>2 DEF Holds
  <2> QED
    BY <2>2, <2>3
<1> QED
  BY <1>2 DEF rest

\* NothingLost, as the steps need it: what waits, and what is sent.
LEMMA LostMeans ==
  NothingLost <=>
    \A f \in 1 .. Len(frames) : frames[f] = turn /\ turn \notin overlapped =>
      Holds(buffer, f) \/ (\E t \in Tasks : Holds(todo[t], f)) \/ Sends(sent, f)
  BY DEF NothingLost, Waiting, Holds, Sends

LEMMA KeptStep == BufferInv /\ KeptInv /\ [Next]_vars => KeptInv'
<1> SUFFICES ASSUME BufferInv, KeptInv, [Next]_vars PROVE KeptInv'
  OBVIOUS
<1> DEFINE Lost(f) == ~(Holds(buffer, f) \/ (\E t \in Tasks : Holds(todo[t], f)) \/ Sends(sent, f))
<1>0. /\ turn \in Nat /\ frames \in Seq(Nat) /\ Len(frames) \in Nat
      /\ pc \in [Tasks -> {"idle", "detect", "start", "release"}]
      /\ todo \in [Tasks -> Seq(Nat)] /\ buffer \in Seq(Nat)
      /\ \A t \in live : t \in Tasks /\ pc[t] = "release"
  BY DEF BufferInv, RouterTypes, Taken
<1>a. \A f \in 1 .. Len(frames) : frames[f] = turn /\ turn \notin overlapped => ~Lost(f)
  BY LostMeans DEF KeptInv
<1>b. ASSUME \A f \in 1 .. Len(frames') : frames'[f] = turn' /\ turn' \notin overlapped' =>
               Holds(buffer', f) \/ (\E t \in Tasks : Holds(todo'[t], f)) \/ Sends(sent', f)
      PROVE  NothingLost'
  BY <1>b DEF NothingLost, Waiting, Holds, Sends
<1> USE <1>0 DEF KeptInv
<1> HIDE DEF Lost
<1>1. CASE UserStarted
  <2> USE <1>1 DEF UserStarted
  <2>1. UNCHANGED <<frames, pc, todo>> /\ turn' = turn + 1 /\ live' = {}
        /\ pc["vad"] = "idle" /\ (pc["audio"] # "idle" => turn' \in overlapped')
    OBVIOUS
  <2>2. \A f \in 1 .. Len(frames') : frames'[f] < turn' /\ frames'[f] <= turn' /\ frames'[f] # turn'
    <3> SUFFICES ASSUME NEW f \in 1 .. Len(frames)
                 PROVE  frames[f] < turn + 1 /\ frames[f] <= turn + 1 /\ frames[f] # turn + 1
      BY <2>1
    <3>1. frames[f] \in Nat /\ frames[f] <= turn
      OBVIOUS
    <3> QED
      BY <3>1
  <2>3. NothingLost'
    BY <1>b, <2>2
  <2>4. turn' \notin overlapped' => \A t \in Tasks : pc'[t] = "idle"
    BY <2>1 DEF Tasks
  <2> QED
    BY <2>1, <2>2, <2>3, <2>4
<1>2. CASE UserStopped
  <2> USE <1>2 DEF UserStopped
  <2>1. UNCHANGED <<turn, frames, buffer, released, todo, live, sent, overlapped>>
        /\ pc["vad"] = "idle"
    BY DEF clientVars, routerVars, outVars
  <2>2. \/ UNCHANGED pc
        \/ pc' = [pc EXCEPT !["vad"] = "detect"]
    BY DEF Detect
  <2>3. \A t \in Tasks : (pc'[t] = "release" <=> pc[t] = "release")
                        /\ (pc'[t] \in {"start", "release"} => pc[t] \in {"start", "release"})
    BY <2>1, <2>2 DEF Tasks
  <2>4. NothingLost'
    BY <1>a, <1>b, <2>1 DEF Lost
  <2> QED
    BY <2>1, <2>3, <2>4
<1>3. CASE AudioFrame
  <2> DEFINE f == Len(frames) + 1
  <2>1. /\ frames' = Append(frames, turn) /\ pc["audio"] = "idle"
        /\ UNCHANGED <<turn, released, overlapped, live>>
    BY <1>3 DEF AudioFrame
  <2>2. /\ Len(frames') = f /\ frames'[f] = turn
        /\ \A i \in 1 .. Len(frames) : frames'[i] = frames[i]
        /\ \A i \in 1 .. f : i = f \/ i \in 1 .. Len(frames)
    BY <2>1
  <2>3. \A i \in 1 .. Len(frames') : frames'[i] <= turn'
    BY <2>1, <2>2
  <2>4. CASE released /\ ToStt(f) /\ UNCHANGED <<buffer, pc, by, todo>>
    <3>1. sent' = sent \cup {[frame |-> f, to |-> stt, by |-> routedBy]}
      BY <2>4 DEF ToStt
    <3>2. Sends(sent', f) /\ \A i : Sends(sent, i) => Sends(sent', i)
      <4>1. [frame |-> f, to |-> stt, by |-> routedBy] \in sent'
        BY <3>1
      <4> QED
        BY <3>1, <4>1 DEF Sends
    <3>3. NothingLost'
      BY <1>a, <1>b, <2>1, <2>2, <2>4, <3>2 DEF Lost
    <3>4. \A t \in live' : \A i \in 1 .. Len(frames') :
            Holds(buffer', i) => Holds(todo'[t], i) \/ Sends(sent', i)
      BY <2>1, <2>2, <2>4, <3>2
    <3> QED
      BY <2>1, <2>3, <2>4, <3>3, <3>4
  <2>5. CASE /\ ~released /\ UNCHANGED sent /\ buffer' = Append(buffer, f)
             /\ todo' = [t \in Tasks |-> IF t \in live THEN Append(todo[t], f) ELSE todo[t]]
             /\ IF Len(buffer) + 1 >= Enough THEN Detect("audio") ELSE UNCHANGED <<pc, by>>
    <3>1. pc' = pc \/ pc' = [pc EXCEPT !["audio"] = "detect"]
      BY <2>5 DEF Detect
    <3>2. \A t \in Tasks : (pc'[t] = "release" <=> pc[t] = "release")
                          /\ (pc'[t] \in {"start", "release"} => pc[t] \in {"start", "release"})
      BY <2>1, <3>1 DEF Tasks
    <3>3. \A i : Holds(buffer', i) <=> Holds(buffer, i) \/ i = f
      BY <2>5, HoldsAppend
    <3>4. \A t \in live : todo[t] \in Seq(Nat) /\ f \in Nat
      OBVIOUS
    <3>5. \A t \in live : \A i : Holds(todo'[t], i) <=> Holds(todo[t], i) \/ i = f
      BY <2>5, <3>4, HoldsAppend
    <3>6. \A t \in Tasks : \A i : Holds(todo[t], i) => Holds(todo'[t], i)
      BY <2>5, <3>5
    <3>7. sent' = sent
      BY <2>5
    <3>8. NothingLost'
      BY <1>a, <1>b, <2>1, <2>2, <3>3, <3>6, <3>7 DEF Lost
    <3>9. \A t \in live' : \A i \in 1 .. Len(frames') :
            Holds(buffer', i) => Holds(todo'[t], i) \/ Sends(sent', i)
      BY <2>1, <2>2, <3>3, <3>5, <3>7
    <3>10. \A t \in Tasks : pc'[t] # "release" => todo'[t] = <<>>
      BY <2>5, <3>2
    <3> QED
      BY <2>1, <2>3, <2>5, <3>2, <3>8, <3>9, <3>10
  <2> QED
    BY <1>3, <2>4, <2>5 DEF AudioFrame
<1>4. ASSUME NEW t \in Tasks, DetectDone(t) PROVE KeptInv'
  <2>1. /\ UNCHANGED <<turn, frames, buffer, todo, live, sent, overlapped>> /\ released'
        /\ pc[t] = "detect" /\ pc' = [pc EXCEPT ![t] = "start"]
    BY <1>4 DEF DetectDone, clientVars
  <2>2. \A u \in Tasks : pc'[u] = "release" <=> pc[u] = "release"
    BY <2>1
  <2>3. NothingLost'
    BY <2>1 DEF NothingLost, Waiting
  <2> QED
    BY <2>1, <2>2, <2>3
<1>5. ASSUME NEW t \in Tasks, Release(t) PROVE KeptInv'
  <2>1. /\ UNCHANGED <<turn, frames, buffer, released, overlapped>>
        /\ pc[t] \in {"start", "release"} /\ Rest(t) # <<>>
        /\ todo' = [todo EXCEPT ![t] = Tail(Rest(t))] /\ pc' = [pc EXCEPT ![t] = "release"]
        /\ sent' = sent \cup {[frame |-> Head(Rest(t)), to |-> stt, by |-> routedBy]}
        /\ live' = IF pc[t] = "start" THEN live \cup {t} ELSE live
    BY <1>5 DEF Release, clientVars, routerVars, ToStt
  <2>2. Rest(t) \in Seq(Nat) /\ \A f : Holds(todo[t], f) => Holds(Rest(t), f)
    <3>1. CASE pc[t] = "start"
      <4>1. todo[t] = <<>>
        BY <3>1
      <4>2. \A f : ~Holds(todo[t], f)
        BY <4>1 DEF Holds
      <4> QED
        BY <3>1, <4>2 DEF Rest
    <3>2. CASE pc[t] = "release"
      BY <3>2 DEF Rest
    <3> QED
      BY <2>1, <3>1, <3>2
  <2>3. Sends(sent', Head(Rest(t))) /\ \A f : Sends(sent, f) => Sends(sent', f)
    <3>1. [frame |-> Head(Rest(t)), to |-> stt, by |-> routedBy] \in sent'
      BY <2>1
    <3> QED
      BY <2>1, <3>1 DEF Sends
  <2>4. \A f : Holds(Rest(t), f) => Holds(todo'[t], f) \/ Sends(sent', f)
    BY <2>1, <2>2, <2>3, HoldsTail
  <2>5. \A u \in Tasks : \A f : Holds(todo[u], f) => Holds(todo'[u], f) \/ Sends(sent', f)
    BY <2>1, <2>2, <2>4
  <2>6. NothingLost'
    BY <1>a, <1>b, <2>1, <2>3, <2>5 DEF Lost
  <2>7. ASSUME NEW u \in live', NEW f \in 1 .. Len(frames'), Holds(buffer', f)
        PROVE  Holds(todo'[u], f) \/ Sends(sent', f)
    <3>1. CASE u \in live
      BY <2>1, <2>3, <2>5, <2>7, <3>1
    <3>2. CASE u = t /\ pc[t] = "start"
      BY <2>1, <2>4, <2>7, <3>2 DEF Rest
    <3> QED
      BY <2>1, <3>1, <3>2
  <2>8. \A u \in Tasks : pc'[u] # "release" => todo'[u] = <<>>
    BY <2>1
  <2>9. \A u \in Tasks : pc'[u] \in {"start", "release"} => pc[u] \in {"start", "release"}
    BY <2>1
  <2>10. \A u \in Tasks : pc'[u] = "release" /\ u \notin live' => pc[u] = "release" /\ u \notin live
    BY <2>1
  <2> QED
    BY <2>1, <2>6, <2>7, <2>8, <2>9, <2>10
<1>6. ASSUME NEW t \in Tasks, Released(t) PROVE KeptInv'
  <2>1. /\ UNCHANGED <<turn, frames, released, todo, sent, overlapped>>
        /\ pc[t] \in {"start", "release"} /\ Rest(t) = <<>>
        /\ pc' = [pc EXCEPT ![t] = "idle"] /\ buffer' = <<>> /\ live' = {}
    BY <1>6 DEF Released, clientVars, outVars
  <2>2. todo[t] = <<>>
    BY <2>1 DEF Rest
  <2>3. \A f : ~Holds(todo[t], f)
    BY <2>2 DEF Holds
  <2>4. ASSUME turn \notin overlapped, NEW f \in 1 .. Len(frames), Holds(buffer, f)
        PROVE  Sends(sent, f)
    <3>1. CASE pc[t] = "start" \/ t \notin live
      <4>1. buffer = <<>>
        BY <2>1, <2>4, <3>1 DEF Rest
      <4> QED
        BY <2>4, <4>1 DEF Holds
    <3>2. CASE t \in live
      BY <2>3, <2>4, <3>2
    <3> QED
      BY <2>1, <3>1, <3>2
  <2>5. NothingLost'
    BY <1>a, <1>b, <2>1, <2>4 DEF Lost
  <2> QED
    BY <2>1, <2>2, <2>5
<1>7. CASE UNCHANGED vars
  BY <1>7 DEF vars, clientVars, routerVars, taskVars, outVars, NothingLost, Waiting, Sends
<1> QED
  BY <1>1, <1>2, <1>3, <1>4, <1>5, <1>6, <1>7 DEF Next, TaskStep

\* No audio of a turn is lost between the two tasks: what was taken is held,
\* being released or at an STT, although each may clear the other's buffer.
THEOREM NoAudioIsLost == Spec => []NothingLost
<1>1. ASSUME Init PROVE KeptInv
  <2>1. \A f \in 1 .. Len(frames) : FALSE
    BY <1>1 DEF Init
  <2> QED
    BY <1>1, <2>1 DEF Init, KeptInv, NothingLost, Tasks
<1>2. KeptInv => NothingLost
  BY DEF KeptInv
<1> QED
  BY <1>1, <1>2, KeptStep, BufferInvariant, PTL DEF Spec

-----------------------------------------------------------------------------
(* Who hears of a turn before its audio.                                   *)

\* The turns of which the selected STT may get audio now: it has their start,
\* a detection has switched to it in the turn, or a turn that found the audio
\* task busy is concerned.
Fits ==
  {k \in Nat : \/ routedBy \in overlapped
              \/ k \in overlapped \cup switched \cup {0}
              \/ [turn |-> k, at |-> stt] \in started}

\* A released router has pushed the start of the turn, an unreleased one holds
\* it; what is being released fits, whoever changed the STT meanwhile.
HeardInv ==
  /\ turn \notin overlapped \cup {0} =>
       IF released THEN turn \in switched \/ [turn |-> turn, at |-> stt] \in started
                   ELSE held = turn
  /\ \A t \in Tasks : pc[t] = "release" => Taken(todo[t], frames, Fits)
  /\ StartBeforeAudio

LEMMA HeardStep ==
  BufferInv /\ AgreeInv /\ KeptInv /\ HeardInv /\ [Next]_vars => HeardInv'
<1> SUFFICES ASSUME BufferInv, AgreeInv, KeptInv, HeardInv, [Next]_vars PROVE HeardInv'
  OBVIOUS
<1>0. /\ turn \in Nat /\ frames \in Seq(Nat) /\ Len(frames) \in Nat
      /\ pc \in [Tasks -> {"idle", "detect", "start", "release"}]
      /\ todo \in [Tasks -> Seq(Nat)] /\ Taken(buffer, frames, {turn})
      /\ \A d \in sent : d.frame \in 1 .. Len(frames)
      /\ \A t \in live : t \in Tasks /\ pc[t] = "release"
  BY DEF BufferInv, RouterTypes
<1>a. turn \notin overlapped /\ (\E t \in Tasks : pc[t] \in {"start", "release"}) => released
  BY DEF KeptInv
<1>b. /\ \A t \in Tasks : pc[t] # "idle" => by[t] = turn \/ turn \in overlapped
      /\ pc["vad"] # "idle" => by["vad"] = turn
      /\ \A t \in Tasks : pc[t] = "release" => Taken(todo[t], frames, {by[t]} \cup overlapped)
  BY DEF AgreeInv
<1>c. released \/ turn \in overlapped => turn \in Fits
  BY <1>0 DEF HeardInv, Fits
<1> USE <1>0 DEF HeardInv
\* A frame of a turn that fits keeps StartBeforeAudio.
<1>d. ASSUME NEW n \in 1 .. Len(frames'), frames'[n] \in Fits,
             sent' = sent \cup {[frame |-> n, to |-> stt, by |-> routedBy]},
             \A i \in 1 .. Len(frames) : frames'[i] = frames[i],
             UNCHANGED <<started, overlapped, switched>>
      PROVE  StartBeforeAudio'
  <2> SUFFICES ASSUME NEW d \in sent',
                      {frames'[d.frame], d.by} \cap overlapped = {},
                      frames'[d.frame] \notin switched \cup {0}
               PROVE  [turn |-> frames'[d.frame], at |-> d.to] \in started
    BY <1>d DEF StartBeforeAudio
  <2>1. CASE d \in sent
    BY <1>d, <2>1 DEF StartBeforeAudio
  <2>2. CASE d = [frame |-> n, to |-> stt, by |-> routedBy]
    BY <1>d, <2>2 DEF Fits
  <2> QED
    BY <1>d, <2>1, <2>2
<1>1. CASE UserStarted
  <2> USE <1>1 DEF UserStarted
  <2>1. UNCHANGED <<frames, pc, todo, sent, stt, routedBy, started, switched>>
        /\ overlapped \subseteq overlapped' /\ ~released' /\ held' = turn'
    OBVIOUS
  <2>2. Fits \subseteq Fits'
    BY <2>1 DEF Fits
  <2>3. \A t \in Tasks : pc'[t] = "release" => Taken(todo'[t], frames', Fits')
    BY <2>1, <2>2, TakenMore
  <2>4. StartBeforeAudio'
    BY <2>1 DEF StartBeforeAudio
  <2> QED
    BY <2>1, <2>3, <2>4
<1>2. CASE UserStopped
  <2>1. UNCHANGED <<turn, frames, held, released, stt, routedBy, todo, sent, started,
                    overlapped, switched>>
        /\ pc["vad"] = "idle" /\ pc' = [pc EXCEPT !["vad"] = "detect"]
    BY <1>2 DEF UserStopped, Detect, clientVars, routerVars, outVars
  <2>2. \A t \in Tasks : pc'[t] = "release" => pc[t] = "release"
    BY <2>1
  <2>3. Fits' = Fits /\ StartBeforeAudio'
    BY <2>1 DEF Fits, StartBeforeAudio
  <2> QED
    BY <2>1, <2>2, <2>3
<1>3. CASE AudioFrame
  <2> DEFINE f == Len(frames) + 1
  <2>1. /\ frames' = Append(frames, turn) /\ pc["audio"] = "idle"
        /\ UNCHANGED <<turn, held, released, stt, routedBy, live, started, overlapped, switched>>
    BY <1>3 DEF AudioFrame
  <2>2. /\ Len(frames') = f /\ frames'[f] = turn
        /\ \A i \in 1 .. Len(frames) : frames'[i] = frames[i]
    BY <2>1
  <2>3. Fits' = Fits
    BY <2>1 DEF Fits
  <2>4. \A t \in Tasks : pc[t] = "release" => Taken(todo[t], frames', Fits)
    BY <2>1, TakenAppend
  <2>5. CASE released /\ ToStt(f) /\ UNCHANGED <<buffer, pc, by, todo>>
    <3>1. sent' = sent \cup {[frame |-> f, to |-> stt, by |-> routedBy]}
      BY <2>5 DEF ToStt
    <3>2. StartBeforeAudio'
      BY <1>c, <1>d, <2>1, <2>2, <2>5, <3>1
    <3> QED
      BY <2>1, <2>3, <2>4, <2>5, <3>2
  <2>6. CASE /\ ~released /\ UNCHANGED sent
             /\ todo' = [t \in Tasks |-> IF t \in live THEN Append(todo[t], f) ELSE todo[t]]
             /\ IF Len(buffer) + 1 >= Enough THEN Detect("audio") ELSE UNCHANGED <<pc, by>>
    <3>1. pc' = pc \/ pc' = [pc EXCEPT !["audio"] = "detect"]
      BY <2>6 DEF Detect
    <3>2. \A t \in Tasks : pc'[t] = "release" => pc[t] = "release"
      BY <3>1
    <3>3. ASSUME NEW t \in live PROVE Taken(Append(todo[t], f), frames', Fits)
      <4>1. t \in Tasks /\ pc[t] = "release" /\ turn \in overlapped
        BY <1>a, <2>6, <3>3
      <4> QED
        BY <1>c, <2>1, <4>1, TakenAppend
    <3>4. \A t \in Tasks : pc'[t] = "release" => Taken(todo'[t], frames', Fits')
      BY <2>3, <2>4, <2>6, <3>2, <3>3
    <3>5. StartBeforeAudio'
      BY <2>1, <2>2, <2>6 DEF StartBeforeAudio
    <3> QED
      BY <2>1, <3>4, <3>5
  <2> QED
    BY <1>3, <2>5, <2>6 DEF AudioFrame
<1>4. ASSUME NEW t \in Tasks, DetectDone(t) PROVE HeardInv'
  <2>1. /\ UNCHANGED <<turn, frames, held, by, todo, sent, overlapped>> /\ routedBy' = by[t]
        /\ released' /\ pc[t] = "detect" /\ pc' = [pc EXCEPT ![t] = "start"]
        /\ stt' \in Stts /\ started' = started \cup [turn : {held} \ {None}, at : {stt'}]
        /\ switched' = IF released /\ stt' # stt THEN switched \cup {turn} ELSE switched
    BY <1>4 DEF DetectDone, StartReaches, Route, Stts, clientVars
  <2>2. started \subseteq started' /\ switched \subseteq switched'
    BY <2>1
  <2>3. turn \notin overlapped \cup {0} => turn \in switched' \/ [turn |-> turn, at |-> stt'] \in started'
    <3>1. CASE released
      BY <2>1, <2>2, <3>1
    <3>2. CASE ~released
      BY <2>1, <3>2 DEF None
    <3> QED
      BY <3>1, <3>2
  <2>4. turn \in Fits' /\ overlapped \cap Nat \subseteq Fits'
    BY <2>1, <2>3 DEF Fits
  <2>5. ASSUME NEW u \in Tasks, pc'[u] = "release" PROVE Taken(todo'[u], frames', Fits')
    <3>1. u # t /\ pc[u] = "release" /\ Taken(todo[u], frames, {by[u]} \cup overlapped)
          /\ Taken(todo[u], frames, Fits)
      BY <1>b, <2>1, <2>5
    <3>2. CASE by[u] = turn
      <4>1. ({turn} \cup overlapped) \cap Nat \subseteq Fits'
        BY <2>4
      <4>2. Taken(todo[u], frames, ({turn} \cup overlapped) \cap Nat)
        BY <3>1, <3>2 DEF Taken
      <4> QED
        BY <2>1, <4>1, <4>2, TakenMore
    <3>3. CASE by[u] # turn
      <4>1. turn \in overlapped /\ t = "vad" /\ by[t] = turn
        BY <1>b, <2>1, <3>1, <3>3 DEF Tasks
      <4>2. Fits \subseteq Fits'
        BY <2>1, <4>1 DEF Fits
      <4> QED
        BY <2>1, <3>1, <4>2, TakenMore
    <3> QED
      BY <3>2, <3>3
  <2>6. StartBeforeAudio'
    BY <2>1, <2>2 DEF StartBeforeAudio
  <2> QED
    BY <2>1, <2>3, <2>5, <2>6
<1>5. ASSUME NEW t \in Tasks, Release(t) PROVE HeardInv'
  <2>1. /\ UNCHANGED <<turn, frames, held, released, stt, routedBy, started, overlapped, switched>>
        /\ pc[t] \in {"start", "release"} /\ Rest(t) # <<>>
        /\ todo' = [todo EXCEPT ![t] = Tail(Rest(t))] /\ pc' = [pc EXCEPT ![t] = "release"]
        /\ sent' = sent \cup {[frame |-> Head(Rest(t)), to |-> stt, by |-> routedBy]}
    BY <1>5 DEF Release, clientVars, routerVars, ToStt
  <2>2. Taken(Rest(t), frames, Fits)
    <3>1. CASE pc[t] = "start"
      <4>1. {turn} \subseteq Fits
        BY <1>a, <1>c, <3>1
      <4> QED
        BY <3>1, <4>1, TakenMore DEF Rest
    <3>2. CASE pc[t] = "release"
      BY <3>2 DEF Rest
    <3> QED
      BY <2>1, <3>1, <3>2
  <2>3. /\ Taken(Tail(Rest(t)), frames, Fits)
        /\ Head(Rest(t)) \in 1 .. Len(frames) /\ frames[Head(Rest(t))] \in Fits
    BY <2>1, <2>2, TakenTail
  <2>4. StartBeforeAudio'
    BY <1>d, <2>1, <2>3
  <2>5. Fits' = Fits
    BY <2>1 DEF Fits
  <2>6. \A u \in Tasks : pc'[u] = "release" => Taken(todo'[u], frames', Fits')
    BY <2>1, <2>3, <2>5
  <2> QED
    BY <2>1, <2>4, <2>6
<1>6. ASSUME NEW t \in Tasks, Released(t) PROVE HeardInv'
  <2>1. /\ UNCHANGED <<turn, frames, released, stt, routedBy, todo, sent, started, overlapped,
                       switched>>
        /\ pc[t] \in {"start", "release"} /\ pc' = [pc EXCEPT ![t] = "idle"]
    BY <1>6 DEF Released, clientVars, outVars
  <2>2. turn \notin overlapped => released
    BY <1>a, <2>1
  <2>3. Fits' = Fits /\ StartBeforeAudio'
    BY <2>1 DEF Fits, StartBeforeAudio
  <2>4. \A u \in Tasks : pc'[u] = "release" => pc[u] = "release"
    BY <2>1
  <2> QED
    BY <2>1, <2>2, <2>3, <2>4
<1>7. CASE UNCHANGED vars
  BY <1>7 DEF vars, clientVars, routerVars, taskVars, outVars, Fits, StartBeforeAudio
<1> QED
  BY <1>1, <1>2, <1>3, <1>4, <1>5, <1>6, <1>7 DEF Next, TaskStep

\* Whoever pushes the start, and whichever task overtakes the other, the STT that
\* gets a turn's audio has heard of the turn: unless a second detection of the
\* turn switched to it, or the audio task was busy when the turn began.
THEOREM StartPrecedesAudio == Spec => []StartBeforeAudio
<1>1. ASSUME Init PROVE KeptInv /\ AgreeInv /\ HeardInv
  <2>1. \A f \in 1 .. Len(frames) : FALSE
    BY <1>1 DEF Init
  <2>2. KeptInv
    BY <1>1, <2>1 DEF Init, KeptInv, NothingLost, Tasks
  <2>3. AgreeInv
    BY <1>1 DEF Init, AgreeInv, RoutedByItsTurn, None, Tasks
  <2>4. HeardInv
    BY <1>1 DEF Init, HeardInv, StartBeforeAudio, Tasks
  <2> QED
    BY <2>2, <2>3, <2>4
<1>2. HeardInv => StartBeforeAudio
  BY DEF HeardInv
<1> QED
  BY <1>1, <1>2, HeardStep, KeptStep, AgreeStep, BufferInvariant, PTL DEF Spec

-----------------------------------------------------------------------------
\* The router keeps its shape; a task that detects always goes on to release,
\* whatever the detector answers.
THEOREM TypeCorrect == Spec => []TypeOK
<1>1. ASSUME Init PROVE TypeOK
  <2> USE <1>1, BoundsAssumption DEF Init, None, Tasks, Stts
  <2>1. released \in BOOLEAN
    BY Zenon
  <2>2. /\ turn \in 0 .. NTurns /\ held \in 0 .. NTurns /\ routedBy \in 0 .. NTurns
        /\ frames \in Seq(0 .. NTurns) /\ Len(frames) <= NFrames /\ buffer \in Seq(1 .. NFrames)
        /\ todo \in [Tasks -> Seq(1 .. NFrames)] /\ by \in [Tasks -> 0 .. NTurns]
    OBVIOUS
  <2> QED
    BY <2>1, <2>2 DEF TypeOK
<1>2. TypeOK /\ [Next]_vars => TypeOK'
  <2> SUFFICES ASSUME TypeOK, [Next]_vars PROVE TypeOK'
    OBVIOUS
  <2> USE BoundsAssumption DEF TypeOK
  <2>0. turn \in Nat /\ "vad" \in Tasks /\ "audio" \in Tasks
    BY DEF Tasks
  <2>1. CASE UserStarted
    <3> USE <2>1 DEF UserStarted
    <3>1. released' \in BOOLEAN
      BY Zenon
    <3>2. turn' \in 0 .. NTurns /\ held' \in 0 .. NTurns /\ overlapped' \in SUBSET (1 .. NTurns)
      BY <2>0
    <3>3. buffer' \in Seq(1 .. NFrames) /\ live' = {}
      OBVIOUS
    <3>4. UNCHANGED <<frames, stt, routedBy, pc, by, todo, sent, started, sure, switched>>
      OBVIOUS
    <3> QED
      BY <3>1, <3>2, <3>3, <3>4
  <2>2. CASE UserStopped
    <3>1. pc' \in [Tasks -> {"idle", "detect", "start", "release"}] /\ by' \in [Tasks -> 0 .. NTurns]
      BY <2>0, <2>2 DEF UserStopped, Detect
    <3> QED
      BY <2>2, <3>1 DEF UserStopped, clientVars, routerVars, outVars
  <2>3. CASE AudioFrame
    <3> DEFINE f == Len(frames) + 1
    <3>1. /\ f \in 1 .. NFrames /\ frames' = Append(frames, turn)
          /\ UNCHANGED <<turn, held, released, stt, routedBy, live, started, sure, overlapped,
                        switched>>
      BY <2>3 DEF AudioFrame
    <3>2. frames' \in Seq(0 .. NTurns) /\ Len(frames') <= NFrames
      BY <3>1
    <3>3. CASE released /\ ToStt(f) /\ UNCHANGED <<buffer, pc, by, todo>>
      <4>1. sent' \in SUBSET [frame : 1 .. NFrames, to : Stts, by : 0 .. NTurns]
        BY <3>1, <3>3 DEF ToStt
      <4> QED
        BY <3>1, <3>2, <3>3, <4>1
    <3>4. CASE /\ ~released /\ UNCHANGED sent /\ buffer' = Append(buffer, f)
               /\ todo' = [t \in Tasks |-> IF t \in live THEN Append(todo[t], f) ELSE todo[t]]
               /\ IF Len(buffer) + 1 >= Enough THEN Detect("audio") ELSE UNCHANGED <<pc, by>>
      <4>1. pc' \in [Tasks -> {"idle", "detect", "start", "release"}] /\ by' \in [Tasks -> 0 .. NTurns]
        BY <2>0, <3>4 DEF Detect
      <4>2. buffer' \in Seq(1 .. NFrames)
        BY <3>1, <3>4
      <4>3. \A t \in Tasks : Append(todo[t], f) \in Seq(1 .. NFrames)
        BY <3>1
      <4>4. todo' \in [Tasks -> Seq(1 .. NFrames)]
        BY <3>4, <4>3
      <4> QED
        BY <3>1, <3>2, <3>4, <4>1, <4>2, <4>4
    <3> QED
      BY <2>3, <3>3, <3>4 DEF AudioFrame
  <2>4. ASSUME NEW t \in Tasks, DetectDone(t) PROVE TypeOK'
    <3>1. /\ pc' \in [Tasks -> {"idle", "detect", "start", "release"}] /\ routedBy' \in 0 .. NTurns
          /\ stt' \in Stts /\ sure' \in SUBSET (0 .. NTurns) /\ released'
      BY <2>4 DEF DetectDone, Route, Stts
    <3>2. started' \in SUBSET [turn : 1 .. NTurns, at : Stts] /\ switched' \in SUBSET (0 .. NTurns)
      <4>1. /\ started' = started \cup [turn : {held} \ {None}, at : {stt'}]
            /\ switched' = switched \/ switched' = switched \cup {turn}
        BY <2>4 DEF DetectDone, StartReaches
      <4>2. [turn : {held} \ {None}, at : {stt'}] \subseteq [turn : 1 .. NTurns, at : Stts]
        BY <3>1 DEF None
      <4> QED
        BY <2>0, <4>1, <4>2
    <3>3. released' \in BOOLEAN
      BY <2>4, Zenon DEF DetectDone
    <3> QED
      BY <2>4, <3>1, <3>2, <3>3 DEF DetectDone, clientVars
  <2>5. ASSUME NEW t \in Tasks, Release(t) PROVE TypeOK'
    <3>1. Rest(t) \in Seq(1 .. NFrames) /\ Rest(t) # <<>>
      BY <2>5 DEF Release, Rest
    <3>2. Head(Rest(t)) \in 1 .. NFrames /\ Tail(Rest(t)) \in Seq(1 .. NFrames)
      BY <3>1
    <3>3. sent' \in SUBSET [frame : 1 .. NFrames, to : Stts, by : 0 .. NTurns]
      BY <2>5, <3>2 DEF Release, ToStt
    <3>4. todo' \in [Tasks -> Seq(1 .. NFrames)] /\ live' \in SUBSET Tasks
          /\ pc' \in [Tasks -> {"idle", "detect", "start", "release"}]
      BY <2>5, <3>2 DEF Release
    <3> QED
      BY <2>5, <3>3, <3>4 DEF Release, clientVars, routerVars
  <2>6. ASSUME NEW t \in Tasks, Released(t) PROVE TypeOK'
    BY <2>6 DEF Released, clientVars, outVars, None
  <2>7. CASE UNCHANGED vars
    BY <2>7 DEF vars, clientVars, routerVars, taskVars, outVars
  <2> QED
    BY <2>1, <2>2, <2>3, <2>4, <2>5, <2>6, <2>7 DEF Next, TaskStep
<1> QED
  BY <1>1, <1>2, PTL DEF Spec
=============================================================================
