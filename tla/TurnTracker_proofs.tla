-------------------------- MODULE TurnTracker_proofs --------------------------
(***************************************************************************)
(* Proofs about turns and their total spans, for any number of turns,      *)
(* responses and texts.                                                    *)
(***************************************************************************)
EXTENDS TurnTracker, TLAPS

Turn == [total : SpanStates, stt : SpanStates, llm : SpanStates, tts : SpanStates,
         heard : BOOLEAN]

\* A turn's next value keeps how its measurement ended.
Keeps(new, old) == old.total # "open" => new.total = old.total

\* What one step does to the turns: it books on the current one.
Booked ==
  /\ turns' \in Seq(Turn)
  /\ Len(turns') >= Len(turns) /\ Len(turns') <= Len(Ensured)
  /\ \A i \in 1 .. Len(turns) : Keeps(turns'[i], turns[i])
  /\ \A i \in 1 .. Len(turns) - 1 : turns'[i] = turns[i]

\* While the VAD processor pushes its interruption frame, the turn it has just
\* interrupted has its snapshot: it will be an old one next.
TurnInv ==
  /\ turns \in Seq(Turn)
  /\ OldTurnsClosed
  /\ InterruptedPersisted
  /\ vad = "pushing" /\ Len(turns) >= 2 => Len(turns) \in snaps

LEMMA EnsuredTurns ==
  ASSUME turns \in Seq(Turn)
  PROVE  /\ Ensured \in Seq(Turn) /\ Len(Ensured) >= 1 /\ Current \in Turn
         /\ turns = <<>> => Len(Ensured) = 1
         /\ turns # <<>> => Ensured = turns
<1>1. NewTurn \in Turn
  BY DEF NewTurn, Turn, SpanStates
<1>2. CASE turns = <<>>
  BY <1>1, <1>2 DEF Ensured, Current
<1>3. CASE turns # <<>>
  BY <1>3 DEF Ensured, Current
<1> QED
  BY <1>2, <1>3

\* Booking a turn that keeps the current one's measurement.
LEMMA BookKeeps ==
  ASSUME turns \in Seq(Turn), NEW turn \in Turn, Keeps(turn, Current), Book(turn)
  PROVE  Booked
<1>1. Ensured \in Seq(Turn) /\ Len(Ensured) \in Nat \ {0} /\ Len(turns) \in Nat
  BY EnsuredTurns
<1>2. turns' \in Seq(Turn) /\ Len(turns') = Len(Ensured)
      /\ turns'[Len(Ensured)] = turn
      /\ \A i \in 1 .. Len(Ensured) - 1 : turns'[i] = Ensured[i]
  BY <1>1 DEF Book
<1>3. CASE turns = <<>>
  BY <1>1, <1>2, <1>3, EnsuredTurns DEF Booked
<1>4. CASE turns # <<>>
  <2>1. Ensured = turns /\ Current = turns[Len(turns)]
    BY <1>4, EnsuredTurns DEF Current
  <2>2. \A i \in 1 .. Len(turns) : i = Len(turns) \/ i \in 1 .. Len(turns) - 1
    BY <1>1
  <2> QED
    BY <1>1, <1>2, <2>1, <2>2 DEF Booked, Keeps
<1> QED
  BY <1>3, <1>4

\* Nothing is booked, or the first turn is opened.
LEMMA EnsureKeeps ==
  ASSUME turns \in Seq(Turn), turns' \in {turns, Ensured}
  PROVE  Booked
<1>1. CASE turns = <<>>
  <2>1. Len(turns) = 0 /\ turns' \in Seq(Turn) /\ Len(Ensured) = 1
    BY <1>1, EnsuredTurns
  <2>3. Len(turns') >= Len(turns) /\ Len(turns') <= Len(Ensured)
    <3>1. CASE Len(turns') = 0
      BY <2>1, <3>1
    <3>2. CASE Len(turns') = 1
      BY <2>1, <3>2
    <3> QED
      BY <1>1, <2>1, <3>1, <3>2
  <2>4. \A i \in 1 .. Len(turns) : FALSE
    BY <2>1
  <2>5. \A i \in 1 .. Len(turns) - 1 : FALSE
    BY <2>1
  <2> QED
    BY <2>1, <2>3, <2>4, <2>5 DEF Booked
<1>2. CASE turns # <<>>
  BY <1>2, EnsuredTurns DEF Booked, Keeps
<1> QED
  BY <1>1, <1>2

\* A step that books, posts at most more, and posts the current turn if the
\* VAD processor moves, keeps the invariant.
LEMMA BookedInv ==
  ASSUME TurnInv, Booked, snaps \subseteq snaps',
         vad' = vad \/ (turns # <<>> => Len(turns) \in snaps')
  PROVE  TurnInv'
<1>1. Len(turns) \in Nat /\ Len(turns') \in Nat
  BY DEF TurnInv, Booked
<1>2. Len(turns') = Len(turns) \/ (Len(turns) = 0 /\ Len(turns') = 1)
  <2>1. turns \in Seq(Turn) /\ Len(turns') >= Len(turns) /\ Len(turns') <= Len(Ensured)
    BY DEF TurnInv, Booked
  <2>2. CASE turns = <<>>
    <3>1. Len(turns) = 0 /\ Len(Ensured) = 1
      BY <2>1, <2>2, EnsuredTurns
    <3> QED
      BY <1>1, <2>1, <3>1
  <2>3. CASE turns # <<>>
    <3>1. Ensured = turns
      BY <2>1, <2>3, EnsuredTurns
    <3> QED
      BY <1>1, <2>1, <3>1
  <2> QED
    BY <2>2, <2>3
<1>3. ASSUME NEW i \in 1 .. Len(turns') - 1
      PROVE  i \in 1 .. Len(turns) - 1 /\ Len(turns') = Len(turns)
  <2>1. CASE Len(turns') = Len(turns)
    BY <2>1
  <2>2. CASE Len(turns) = 0 /\ Len(turns') = 1
    BY <2>2
  <2> QED
    BY <1>2, <2>1, <2>2
<1>4. OldTurnsClosed'
  <2>1. \A i \in 1 .. Len(turns) - 1 : turns'[i] = turns[i] /\ turns[i].total # "open"
    BY DEF OldTurnsClosed, Booked, TurnInv
  <2> QED
    BY <1>3, <2>1 DEF OldTurnsClosed
<1>5. InterruptedPersisted'
  <2>1. \A i \in 2 .. Len(turns) - 1 : i \in snaps'
    BY DEF InterruptedPersisted, TurnInv
  <2>2. \A i \in 2 .. Len(turns') - 1 : i \in 1 .. Len(turns') - 1 /\ i >= 2
    BY <1>1
  <2> QED
    BY <1>1, <1>3, <2>1, <2>2 DEF InterruptedPersisted
<1>6. vad' = "pushing" /\ Len(turns') >= 2 => Len(turns') \in snaps'
  <2>1. CASE Len(turns') = Len(turns)
    <3>1. Len(turns) >= 2 => turns # <<>>
      BY DEF TurnInv
    <3> QED
      BY <2>1, <3>1 DEF TurnInv
  <2>2. CASE Len(turns) = 0 /\ Len(turns') = 1
    BY <2>2
  <2> QED
    BY <1>2, <2>1, <2>2
<1> QED
  BY <1>4, <1>5, <1>6 DEF TurnInv, Booked

\* interrupt_active_spans only ever ends what is open.
LEMMA InterruptKeeps ==
  ASSUME turns \in Seq(Turn), InterruptActiveSpans
  PROVE  Booked /\ snaps \subseteq snaps' /\ (turns # <<>> => Len(turns) \in snaps')
<1>1. CASE turns = <<>> /\ UNCHANGED <<turns, snaps>>
  BY <1>1, EnsureKeeps
<1>2. CASE turns # <<>> /\ Snapshot /\
           Book(FinishTotal([Current EXCEPT !.stt = Cut(@), !.llm = Cut(@), !.tts = Cut(@)],
                            "interrupted"))
  <2> DEFINE new == FinishTotal([Current EXCEPT !.stt = Cut(@), !.llm = Cut(@), !.tts = Cut(@)],
                                "interrupted")
  <2>1. Current \in Turn
    BY EnsuredTurns
  <2>2. new \in Turn /\ Keeps(new, Current)
    BY <2>1 DEF Turn, SpanStates, Cut, FinishTotal, Keeps
  <2>3. Booked
    BY <1>2, <2>2, BookKeeps
  <2> QED
    BY <1>2, <2>3 DEF Snapshot
<1> QED
  BY <1>1, <1>2 DEF InterruptActiveSpans

\* The step of an invariant: every step that is not StartTurn books at most
\* on the current turn.
LEMMA OtherSteps ==
  ASSUME TurnInv, [Next]_vars, ~StartTurn
  PROVE  /\ Booked /\ snaps \subseteq snaps'
         /\ vad' = vad \/ (turns # <<>> => Len(turns) \in snaps')
<1> DEFINE Goal == /\ Booked /\ snaps \subseteq snaps'
                   /\ vad' = vad \/ (turns # <<>> => Len(turns) \in snaps')
<1>0. turns \in Seq(Turn) /\ Current \in Turn
  BY EnsuredTurns DEF TurnInv
<1>1. CASE SpeechStarted \/ InterruptLLM \/ InterruptTTS
  <2>1. InterruptActiveSpans
    BY <1>1 DEF SpeechStarted, InterruptLLM, InterruptTTS
  <2> QED
    BY <1>0, <2>1, InterruptKeeps
<1>2. CASE DetectLanguage \/ SpeechEnds \/ UNCHANGED vars
  <2>1. turns' \in {turns, Ensured} /\ snaps' = snaps /\ vad' = vad
    BY <1>2 DEF DetectLanguage, SpeechEnds, vars
  <2> QED
    BY <1>0, <2>1, EnsureKeeps
<1>3. ASSUME NEW turn \in Turn, turn.total = Current.total, Book(turn),
             snaps' = snaps, vad' = vad
      PROVE  Goal
  BY <1>0, <1>3, BookKeeps DEF Keeps
<1> USE DEF Turn, SpanStates
<1>4. CASE SttStarts
  <2>1. [Current EXCEPT !.stt = "open"] \in Turn
    BY <1>0
  <2> QED
    BY <1>0, <1>3, <1>4, <2>1 DEF SttStarts
<1>5. CASE Final
  <2>1. [Current EXCEPT !.stt = "ended"] \in Turn
    BY <1>0
  <2> QED
    BY <1>0, <1>3, <1>5, <2>1 DEF Final
<1>6. CASE ResponseStarts \/ ResponseText
  <2>1. LlmStarted(Current) \in Turn /\ LlmStarted(Current).total = Current.total
    BY <1>0 DEF LlmStarted
  <2> QED
    BY <1>3, <1>6, <2>1 DEF ResponseStarts, ResponseText
<1>7. CASE ResponseEnds
  <2>1. /\ [Current EXCEPT !.llm = IF @ = "open" THEN "ended" ELSE @] \in Turn
        /\ [Current EXCEPT !.llm = IF @ = "open" THEN "ended" ELSE @].total = Current.total
    BY <1>0
  <2> QED
    BY <1>3, <1>7, <2>1 DEF ResponseEnds, bounds
<1>8. CASE SpeechBegins
  <2>1. TtsStarted(Current) \in Turn /\ TtsStarted(Current).total = Current.total
    BY <1>0 DEF TtsStarted
  <2> QED
    BY <1>3, <1>8, <2>1 DEF SpeechBegins
<1>9. CASE ResponseSpoken
  <2>1. /\ [Current EXCEPT !.tts = IF @ = "open" THEN "ended" ELSE @] \in Turn
        /\ [Current EXCEPT !.tts = IF @ = "open" THEN "ended" ELSE @].total = Current.total
    BY <1>0
  <2> QED
    BY <1>3, <1>9, <2>1 DEF ResponseSpoken
<1>10. CASE Audio
  <2> DEFINE new == IF Current.heard THEN TtsStarted(Current)
                    ELSE FinishTotal([TtsStarted(Current) EXCEPT !.heard = TRUE], "ended")
  <2>1. new \in Turn /\ Keeps(new, Current)
    BY <1>0 DEF TtsStarted, FinishTotal, Keeps
  <2>2. Book(new) /\ snaps' = snaps /\ vad' = vad
    BY <1>10 DEF Audio
  <2> QED
    BY <1>0, <2>1, <2>2, BookKeeps
<1> QED
  BY <1>1, <1>2, <1>4, <1>5, <1>6, <1>7, <1>8, <1>9, <1>10 DEF Next

\* StartTurn closes the current turn and opens the next.
LEMMA StartStep ==
  ASSUME TurnInv, StartTurn
  PROVE  /\ TurnInv'
         /\ \A i \in 1 .. Len(turns) : Keeps(turns'[i], turns[i])
<1> DEFINE n == Len(turns)
           closed == [turns EXCEPT ![n] = FinishTotal(@, "interrupted")]
<1>0. turns \in Seq(Turn) /\ NewTurn \in Turn /\ vad' = "idle" /\ snaps' = snaps /\ vad = "pushing"
  BY DEF TurnInv, StartTurn, NewTurn, Turn, SpanStates
<1>1. CASE turns = <<>>
  <2>1. turns' = <<NewTurn>> /\ Len(turns) = 0
    BY <1>1 DEF StartTurn
  <2>2. turns' \in Seq(Turn) /\ Len(turns') = 1
    BY <1>0, <2>1
  <2> QED
    BY <1>0, <2>1, <2>2 DEF TurnInv, OldTurnsClosed, InterruptedPersisted
<1>2. CASE turns # <<>>
  <2>1. n \in Nat \ {0} /\ turns[n] \in Turn
    BY <1>0, <1>2
  <2>2. /\ FinishTotal(turns[n], "interrupted") \in Turn
        /\ Keeps(FinishTotal(turns[n], "interrupted"), turns[n])
        /\ FinishTotal(turns[n], "interrupted").total # "open"
    BY <2>1 DEF FinishTotal, Turn, SpanStates, Keeps
  <2>3. /\ closed \in Seq(Turn) /\ Len(closed) = n
        /\ closed[n] = FinishTotal(turns[n], "interrupted")
        /\ \A i \in 1 .. n - 1 : closed[i] = turns[i]
    BY <1>0, <2>1, <2>2
  <2>4. turns' = Append(closed, NewTurn)
    BY <1>2 DEF StartTurn
  <2> HIDE DEF closed
  <2>5. /\ turns' \in Seq(Turn) /\ Len(turns') = n + 1
        /\ \A i \in 1 .. n : turns'[i] = closed[i]
    BY <1>0, <2>3, <2>4
  <2>6. \A i \in 1 .. n : i = n \/ i \in 1 .. n - 1
    BY <2>1
  <2>7. \A i \in 1 .. n : Keeps(turns'[i], turns[i]) /\ turns'[i].total # "open"
    BY <2>2, <2>3, <2>5, <2>6 DEF Keeps, TurnInv, OldTurnsClosed
  <2>8. OldTurnsClosed'
    BY <2>1, <2>5, <2>7 DEF OldTurnsClosed
  <2>9. InterruptedPersisted'
    <3>1. n >= 2 => n \in snaps
      BY <1>0 DEF TurnInv
    <3>2. ASSUME NEW i \in 2 .. n PROVE i \in snaps
      <4>1. CASE i = n
        BY <2>1, <3>1, <4>1
      <4>2. CASE i \in 2 .. n - 1
        BY <4>2 DEF TurnInv, InterruptedPersisted
      <4> QED
        BY <2>1, <4>1, <4>2
    <3> QED
      BY <1>0, <2>1, <2>5, <3>2 DEF InterruptedPersisted
  <2> QED
    BY <1>0, <2>5, <2>7, <2>8, <2>9 DEF TurnInv
<1> QED
  BY <1>1, <1>2

LEMMA TurnStep ==
  ASSUME TurnInv, [Next]_vars
  PROVE  /\ TurnInv'
         /\ \A i \in 1 .. Len(turns) : Keeps(turns'[i], turns[i])
<1>1. CASE StartTurn
  BY <1>1, StartStep
<1>2. CASE ~StartTurn
  <2>1. Booked /\ TurnInv'
    BY <1>2, OtherSteps, BookedInv
  <2> QED
    BY <2>1 DEF Booked
<1> QED
  BY <1>1, <1>2

LEMMA InitialTurns == Init => TurnInv
  BY DEF Init, TurnInv, OldTurnsClosed, InterruptedPersisted

\* Only the current turn is still being measured, and every turn a speech of
\* the user closed has its snapshot, handed to the task that posts it, whenever
\* the copies of the interruption frame arrive.
THEOREM OldTurnsAreClosedAndPosted == Spec => []OldTurnsSettled
<1>1. TurnInv /\ [Next]_vars => TurnInv'
  BY TurnStep
<1>2. TurnInv => OldTurnsSettled
  BY DEF TurnInv, OldTurnsSettled
<1> QED
  BY InitialTurns, <1>1, <1>2, PTL DEF Spec

\* A mouth-to-ear span ends once, measured or interrupted, for good.
THEOREM TurnsAreMeasuredOnce == Spec => MeasuredOnce
<1> DEFINE Once == \A i \in 1 .. Len(turns) :
                     turns[i].total # "open" => turns'[i].total = turns[i].total
<1>1. TurnInv /\ [Next]_vars => TurnInv'
  BY TurnStep
<1>2. TurnInv /\ [Next]_vars => [Once]_vars
  BY TurnStep DEF Keeps
<1> QED
  BY InitialTurns, <1>1, <1>2, PTL DEF Spec, MeasuredOnce

-----------------------------------------------------------------------------
\* Each speech opens a turn, so at most as many interruption frames are under
\* way as there are turns, and the one that is being pushed has room for its own.
SizeInv ==
  /\ TypeOK
  /\ vad = "pushing" => Len(turns) < NTurns
  /\ atLLM + atTTS <= Len(turns) + (IF vad = "pushing" THEN 1 ELSE 0)
  /\ speaking => ttsQueue # <<>> /\ Head(ttsQueue) = "text"

\* What a step that does not start a turn leaves of it.
LEMMA BookedSize ==
  ASSUME TurnInv, SizeInv, Booked
  PROVE  /\ turns' \in Seq(Turn) /\ Len(turns) \in Nat /\ Len(turns') \in Nat
         /\ Len(turns) <= Len(turns') /\ Len(turns') <= NTurns
         /\ vad = "pushing" => Len(turns') < NTurns
<1>1. turns \in Seq(Turn) /\ turns' \in Seq(Turn) /\ Len(turns) <= Len(turns')
      /\ Len(turns') <= Len(Ensured)
  BY DEF TurnInv, Booked
<1>2. CASE turns = <<>>
  <2>1. Len(Ensured) = 1 /\ Len(turns) = 0
    BY <1>1, <1>2, EnsuredTurns
  <2>2. Len(turns') \in Nat /\ Len(turns') <= 1
    BY <1>1, <2>1
  <2> QED
    BY <1>1, <2>1, <2>2, BoundsAssumption
<1>3. CASE turns # <<>>
  <2>1. Len(Ensured) = Len(turns)
    BY <1>1, <1>3, EnsuredTurns
  <2>2. Len(turns) \in Nat /\ Len(turns) <= NTurns /\ (vad = "pushing" => Len(turns) < NTurns)
    BY <1>1 DEF SizeInv, TypeOK
  <2> QED
    BY <1>1, <2>1, <2>2, BoundsAssumption
<1> QED
  BY <1>2, <1>3

LEMMA SnapSize ==
  ASSUME TurnInv, SizeInv, InterruptActiveSpans
  PROVE  snaps' \in SUBSET (1 .. NTurns)
<1>1. snaps \in SUBSET (1 .. NTurns) /\ turns \in Seq(Turn) /\ Len(turns) \in 0 .. NTurns
  BY DEF SizeInv, TypeOK, TurnInv
<1>2. turns # <<>> => Len(turns) \in 1 .. NTurns
  BY <1>1
<1>3. snaps' = snaps \/ (turns # <<>> /\ snaps' = snaps \cup {Len(turns)})
  BY DEF InterruptActiveSpans, Snapshot
<1> QED
  BY <1>1, <1>2, <1>3

\* The LLM's and the TTS's part of the state.
Services ==
  /\ gen \in BOOLEAN /\ speaking \in BOOLEAN
  /\ ttsQueue \in Seq({"text", "end"})
  /\ responses \in 0 .. NResponses /\ pieces \in 0 .. NPieces
  /\ speaking => ttsQueue # <<>> /\ Head(ttsQueue) = "text"

LEMMA ServicesStep ==
  ASSUME Services, [Next]_vars
  PROVE  Services'
<1> USE BoundsAssumption DEF Services, ttsVars, bounds
<1>1. CASE SpeechStarted \/ StartTurn \/ DetectLanguage \/ SttStarts \/ Final \/ Audio \/ UNCHANGED vars
  <2>1. UNCHANGED <<gen, ttsQueue, speaking, responses, pieces>>
    BY <1>1 DEF SpeechStarted, StartTurn, DetectLanguage, SttStarts, Final, Audio, vars
  <2> QED
    BY <2>1
<1>2. CASE ResponseStarts
  BY <1>2 DEF ResponseStarts
<1>3. CASE ResponseText
  <2>1. /\ Append(ttsQueue, "text") \in Seq({"text", "end"}) /\ Append(ttsQueue, "text") # <<>>
        /\ ttsQueue # <<>> => Head(Append(ttsQueue, "text")) = Head(ttsQueue)
    OBVIOUS
  <2> QED
    BY <1>3, <2>1 DEF ResponseText
<1>4. CASE ResponseEnds
  <2>1. /\ Append(ttsQueue, "end") \in Seq({"text", "end"}) /\ Append(ttsQueue, "end") # <<>>
        /\ ttsQueue # <<>> => Head(Append(ttsQueue, "end")) = Head(ttsQueue)
    OBVIOUS
  <2> QED
    BY <1>4, <2>1 DEF ResponseEnds
<1>5. CASE InterruptLLM
  BY <1>5 DEF InterruptLLM
<1>6. CASE SpeechBegins
  BY <1>6 DEF SpeechBegins
<1>7. CASE SpeechEnds \/ ResponseSpoken
  <2>1. ttsQueue # <<>> /\ ttsQueue' = Tail(ttsQueue) /\ UNCHANGED <<gen, responses, pieces>>
        /\ speaking' = FALSE
    <3>1. CASE SpeechEnds
      BY <3>1 DEF SpeechEnds
    <3>2. CASE ResponseSpoken
      <4>1. ~speaking
        BY <3>2 DEF ResponseSpoken
      <4>2. speaking = FALSE
        BY <4>1
      <4> QED
        BY <3>2, <4>2 DEF ResponseSpoken
    <3> QED
      BY <1>7, <3>1, <3>2
  <2>2. Tail(ttsQueue) \in Seq({"text", "end"})
    BY <2>1
  <2> QED
    BY <2>1, <2>2
<1>8. CASE InterruptTTS
  <2>1. speaking' \in BOOLEAN /\ gen' \in BOOLEAN /\ ~speaking'
    BY <1>8, Zenon DEF InterruptTTS
  <2>2. ttsQueue' = <<>> /\ UNCHANGED <<responses, pieces>>
    BY <1>8 DEF InterruptTTS
  <2> QED
    BY <2>1, <2>2
<1> QED
  BY <1>1, <1>2, <1>3, <1>4, <1>5, <1>6, <1>7, <1>8 DEF Next

LEMMA SizeStep == TurnInv /\ SizeInv /\ [Next]_vars => SizeInv'
<1> SUFFICES ASSUME TurnInv, SizeInv, [Next]_vars PROVE SizeInv'
  OBVIOUS
<1> DEFINE n == Len(turns)
<1>0. Services'
  BY ServicesStep DEF Services, SizeInv, TypeOK
<1>1. CASE StartTurn
  <2>1. /\ vad = "pushing" /\ vad' = "idle" /\ turns' \in Seq(Turn) /\ n \in Nat
        /\ UNCHANGED <<atLLM, atTTS, gen, ttsVars, snaps, bounds>>
    BY <1>1, StartStep DEF StartTurn, TurnInv
  <2>2. Len(turns') = n + 1
    <3>1. CASE turns = <<>>
      BY <1>1, <3>1 DEF StartTurn
    <3>2. CASE turns # <<>>
      BY <1>1, <3>2 DEF StartTurn, TurnInv
    <3> QED
      BY <3>1, <3>2
  <2>3. n < NTurns /\ atLLM + atTTS <= n + 1
    BY <2>1 DEF SizeInv
  <2> QED
    BY <1>0, <2>1, <2>2, <2>3, BoundsAssumption DEF SizeInv, TypeOK, Turn, Services
<1>2. CASE ~StartTurn
  <2>1. Booked
    BY <1>2, OtherSteps
  <2>2. /\ turns' \in Seq(Turn) /\ n \in Nat /\ Len(turns') \in Nat
        /\ n <= Len(turns') /\ Len(turns') <= NTurns
        /\ (vad = "pushing" => Len(turns') < NTurns)
    BY <2>1, BookedSize
  <2>3. /\ atLLM \in Nat /\ atTTS \in Nat /\ atLLM + atTTS <= NTurns /\ NTurns \in Nat
        /\ snaps \in SUBSET (1 .. NTurns) /\ vad \in {"idle", "pushing"}
        /\ atLLM + atTTS <= n + (IF vad = "pushing" THEN 1 ELSE 0) /\ n <= NTurns
    <3>1. atLLM + atTTS <= NTurns
      BY <2>2, BoundsAssumption DEF SizeInv, TypeOK
    <3> QED
      BY <2>2, <3>1, BoundsAssumption DEF SizeInv, TypeOK
  <2>5. CASE SpeechStarted
    <3>1. /\ vad = "idle" /\ vad' = "pushing" /\ n < NTurns /\ atLLM' = atLLM + 1 /\ atTTS' = atTTS
          /\ snaps' \in SUBSET (1 .. NTurns) /\ Len(turns') < NTurns
      <4>1. InterruptActiveSpans /\ n < NTurns
        BY <2>5 DEF SpeechStarted
      <4>2. Len(turns') = n
        <5>1. CASE turns = <<>>
          BY <4>1, <5>1 DEF InterruptActiveSpans
        <5>2. CASE turns # <<>>
          BY <2>1, <2>2, <5>2, EnsuredTurns DEF Booked, TurnInv
        <5> QED
          BY <5>1, <5>2
      <4> QED
        BY <2>5, <4>1, <4>2, SnapSize DEF SpeechStarted
    <3>2. atLLM + atTTS <= n /\ atLLM' \in 0 .. NTurns /\ atTTS' \in 0 .. NTurns
      BY <2>2, <2>3, <3>1
    <3>3. atLLM' + atTTS' <= Len(turns') + 1
      BY <2>2, <2>3, <3>1, <3>2
    <3>4. vad' \in {"idle", "pushing"} /\ Len(turns') \in 0 .. NTurns
          /\ atLLM' + atTTS' <= Len(turns') + (IF vad' = "pushing" THEN 1 ELSE 0)
      BY <2>2, <3>1, <3>3
    <3> QED
      BY <2>2, <1>0, <3>1, <3>2, <3>4 DEF SizeInv, TypeOK, Turn, Services
  <2>6. CASE InterruptLLM \/ InterruptTTS
    <3>1. vad' = vad /\ snaps' \in SUBSET (1 .. NTurns)
      BY <2>6, SnapSize DEF InterruptLLM, InterruptTTS
    <3>2. /\ atLLM \in Nat /\ atTTS \in Nat
          /\ \/ atLLM > 0 /\ atLLM' = atLLM - 1 /\ atTTS' = atTTS + 1
             \/ atTTS > 0 /\ atLLM' = atLLM /\ atTTS' = atTTS - 1
      BY <2>3, <2>6 DEF InterruptLLM, InterruptTTS
    <3> DEFINE most == Len(turns) + (IF vad = "pushing" THEN 1 ELSE 0)
    <3>3. most \in Nat /\ atLLM + atTTS <= most /\ most <= NTurns
      BY <2>2, <2>3 DEF SizeInv
    <3> DEFINE room == Len(turns') + (IF vad' = "pushing" THEN 1 ELSE 0)
    <3>4. room \in Nat /\ most <= room
      BY <2>2, <3>1
    <3> HIDE DEF most, room
    <3>5. atLLM' \in Nat /\ atTTS' \in Nat /\ atLLM' + atTTS' \in Nat
      BY <3>2
    <3>6. atLLM' + atTTS' <= most
      BY <3>2, <3>3
    <3>7. atLLM' \in 0 .. NTurns /\ atTTS' \in 0 .. NTurns
      BY <3>2, <3>3, BoundsAssumption
    <3>8. Len(turns') \in 0 .. NTurns /\ vad' \in {"idle", "pushing"}
      BY <2>2, <2>3, <3>1
    <3>9. atLLM' + atTTS' <= room
      <4>1. \A a, b, c \in Nat : a <= b /\ b <= c => a <= c
        OBVIOUS
      <4> QED
        BY <3>3, <3>4, <3>5, <3>6, <4>1, Zenon
    <3> QED
      BY <2>2, <1>0, <3>1, <3>8, <3>9, <3>7 DEF room, SizeInv, TypeOK, Turn, Services
  <2>7. CASE UNCHANGED <<vad, atLLM, atTTS, snaps>>
    BY <2>2, <2>3, <1>0, <2>7 DEF SizeInv, TypeOK, Turn, Services
  <2> QED
    BY <1>2, <2>5, <2>6, <2>7 DEF Next, vars, DetectLanguage, SttStarts, Final, ResponseStarts,
       ResponseText, ResponseEnds, SpeechBegins, Audio, SpeechEnds, ResponseSpoken
<1> QED
  BY <1>1, <1>2

\* Turns, spans and interruption frames keep their shape and number.
THEOREM TypeCorrect == Spec => []TypeOK
<1>1. Init => SizeInv
  <2> SUFFICES ASSUME Init PROVE SizeInv
    OBVIOUS
  <2>1. gen \in BOOLEAN /\ speaking \in BOOLEAN
    BY Zenon DEF Init
  <2>2. turns = <<>> /\ Len(turns) = 0 /\ ttsQueue \in Seq({"text", "end"})
    BY DEF Init
  <2> QED
    BY <2>1, <2>2, BoundsAssumption DEF Init, SizeInv, TypeOK
<1>2. SizeInv => TypeOK
  BY DEF SizeInv
<1>3. TurnInv /\ [Next]_vars => TurnInv'
  BY TurnStep
<1> QED
  BY <1>1, <1>2, <1>3, InitialTurns, SizeStep, PTL DEF Spec
=============================================================================
