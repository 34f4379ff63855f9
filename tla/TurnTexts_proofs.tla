--------------------------- MODULE TurnTexts_proofs ---------------------------
(***************************************************************************)
(* Proofs about the text of a turn and the final messages, for any number  *)
(* of turns, responses and text frames.                                    *)
(***************************************************************************)
EXTENDS TurnTexts, SequenceTheorems, TLAPS

\* Every barge-in puts one interruption frame under way and starts one turn,
\* so there are never more frames than turns; the LLM generates the response
\* that was started last.
SizeInv ==
  /\ vad = "pushing" => turn < NTurns
  /\ atLLM + atTTS <= turn + (IF vad = "pushing" THEN 1 ELSE 0)
  /\ gen # None => gen = responses

\* The interruption frame passes the LLM before the TTS: behind the last one,
\* what is generated began after the user spoke.
SilenceInv ==
  /\ atLLM = 0 => gen = None \/ gen > cut
  /\ OldTextIsSilenced

\* A response whose end was passed on gets no more text.
EndedInv ==
  /\ \A i \in DOMAIN ttsQueue : ttsQueue[i].is = "end" => ttsQueue[i].of # gen
  /\ \A i \in DOMAIN held : held[i] # gen
  /\ \A f \in finals : f.of # gen

\* What was passed on stems from a response that started.
PastInv ==
  /\ \A i \in DOMAIN ttsQueue : ttsQueue[i].of <= responses
  /\ \A i \in DOMAIN held : held[i] <= responses
  /\ \A f \in finals : f.of <= responses

\* While nothing comes between, the turn's text is that of the last response,
\* and its span records as long as it is generated.
AloneInv ==
  alone # None =>
    /\ alone = responses /\ text = Whole(alone)
    /\ vad = "idle" /\ atLLM = 0 /\ atTTS = 0
    /\ gen = alone => recording

FinalInv == AloneInv /\ EndedInv /\ PastInv /\ FinalOrOvertaken
FreshInv == \A r \in Responses : r > responses => said[r] = 0

-----------------------------------------------------------------------------
(* Queues. *)

\* What an item of a queue is after the front one was taken, or one was added.
LEMMA TailItems ==
  ASSUME NEW S, NEW s \in Seq(S), s # <<>>
  PROVE  /\ Head(s) \in S /\ Tail(s) \in Seq(S) /\ Head(s) = s[1] /\ 1 \in DOMAIN s
         /\ \A i \in DOMAIN Tail(s) : i + 1 \in DOMAIN s /\ Tail(s)[i] = s[i + 1]
  OBVIOUS

LEMMA AddedItems ==
  ASSUME NEW S, NEW s \in Seq(S), NEW x \in S
  PROVE  /\ Append(s, x) \in Seq(S)
         /\ \A i \in DOMAIN Append(s, x) :
              (i \in DOMAIN s /\ Append(s, x)[i] = s[i]) \/ Append(s, x)[i] = x
  OBVIOUS

-----------------------------------------------------------------------------
(* The text of a response. *)

LEMMA WholeIsText ==
  ASSUME NEW r \in Responses, said[r] \in Nat
  PROVE  Whole(r) \in Seq(Responses) /\ Len(Whole(r)) = said[r]
  BY DEF Whole

\* One more piece is one more copy of the response.
LEMMA WholeGrows ==
  ASSUME NEW r \in Responses, said[r] \in Nat, said'[r] = said[r] + 1
  PROVE  Append(Whole(r), r) = Whole(r)'
<1> DEFINE a == Append(Whole(r), r)
           b == Whole(r)'
<1>1. Whole(r) \in Seq(Responses) /\ Len(Whole(r)) = said[r]
  BY WholeIsText
<1>2. a \in Seq(Responses) /\ Len(a) = said[r] + 1
  BY <1>1
<1>3. b \in Seq(Responses) /\ Len(b) = said[r] + 1
  BY DEF Whole
<1>4. ASSUME NEW i \in 1 .. said[r] + 1 PROVE a[i] = b[i]
  <2>1. b[i] = r
    BY DEF Whole
  <2>2. a[i] = r
    BY <1>1, AppendProperties DEF Whole
  <2> QED
    BY <2>1, <2>2
<1> QED
  BY <1>2, <1>3, <1>4, SeqEqual

-----------------------------------------------------------------------------
(* The shape of the state. *)

Items == [of : Responses, is : {"text", "end"}]
Messages == [of : Responses, text : Seq(Responses), alone : BOOLEAN]

\* The two halves of TypeOK: the counters, and what they count.
NumberOK ==
  /\ turn \in 0 .. NTurns /\ vad \in {"idle", "pushing"}
  /\ atLLM \in 0 .. NTurns /\ atTTS \in 0 .. NTurns
  /\ gen \in 0 .. responses /\ responses \in 0 .. NResponses
  /\ cut \in 0 .. responses /\ alone \in 0 .. responses
DataOK ==
  /\ text \in Seq(Responses) /\ recording \in BOOLEAN
  /\ ttsQueue \in Seq(Items) /\ held \in Seq(Responses) /\ finals \subseteq Messages
  /\ said \in [Responses -> 0 .. NPieces]

LEMMA ShapeHalves == TypeOK <=> NumberOK /\ DataOK
  BY DEF TypeOK, NumberOK, DataOK, Items, Messages

LEMMA GenIsResponse == NumberOK /\ gen # None => gen \in Responses
  BY BoundsAssumption DEF NumberOK, Responses, None

LEMMA InitialShape == Init => TypeOK /\ SizeInv
<1> SUFFICES ASSUME Init PROVE TypeOK /\ SizeInv
  OBVIOUS
<1>1. NumberOK /\ SizeInv
  BY BoundsAssumption DEF Init, NumberOK, SizeInv, None
<1>2. recording \in BOOLEAN
  BY DEF Init
<1>3. text \in Seq(Responses) /\ ttsQueue \in Seq(Items) /\ held \in Seq(Responses)
  BY DEF Init
<1>4. finals \subseteq Messages /\ said \in [Responses -> 0 .. NPieces]
  BY BoundsAssumption DEF Init
<1> QED
  BY <1>1, <1>2, <1>3, <1>4, ShapeHalves DEF DataOK

\* Every handler keeps the counters in their bounds: in particular no more
\* interruption frames come together than turns.
LEMMA NumberStep == TypeOK /\ SizeInv /\ [Next]_vars => (NumberOK /\ SizeInv)'
<1> SUFFICES ASSUME NumberOK, SizeInv, [Next]_vars PROVE (NumberOK /\ SizeInv)'
  BY ShapeHalves
<1> USE BoundsAssumption
    DEF NumberOK, SizeInv, bargeVars, trackerVars, outVars, historyVars, None
<1>1. CASE SpeechStarted
  BY <1>1 DEF SpeechStarted
<1>2. CASE StartTurn
  BY <1>2 DEF StartTurn
<1>3. CASE ResponseStarts
  BY <1>3 DEF ResponseStarts, Responses
<1>4. CASE ResponseText
  BY <1>4 DEF ResponseText
<1>5. CASE ResponseEnds
  BY <1>5 DEF ResponseEnds
<1>6. CASE InterruptLLM
  BY <1>6 DEF InterruptLLM
<1>7. CASE Spoken \/ ResponseSpoken \/ FinalSent
  BY <1>7 DEF Spoken, ResponseSpoken, FinalSent
<1>8. CASE InterruptTTS
  BY <1>8 DEF InterruptTTS
<1>9. CASE UNCHANGED vars
  BY <1>9 DEF vars
<1> QED
  BY <1>1, <1>2, <1>3, <1>4, <1>5, <1>6, <1>7, <1>8, <1>9 DEF Next

\* Every handler keeps the shape of the text, the queues and the messages.
LEMMA DataStep == TypeOK /\ [Next]_vars => DataOK'
<1> SUFFICES ASSUME NumberOK, DataOK, [Next]_vars PROVE DataOK'
  BY ShapeHalves
<1> USE DEF DataOK, bargeVars, trackerVars, outVars, historyVars
<1>1. CASE SpeechStarted \/ StartTurn \/ ResponseStarts \/ InterruptLLM
  <2>1. (text' = text \/ text' = <<>>) /\ recording' \in BOOLEAN
    BY <1>1, Zenon DEF SpeechStarted, StartTurn, ResponseStarts, InterruptLLM
  <2>2. UNCHANGED <<ttsQueue, held, finals, said>>
    BY <1>1, Zenon DEF SpeechStarted, StartTurn, ResponseStarts, InterruptLLM
  <2>3. text' \in Seq(Responses)
    BY <2>1, EmptySeq, Zenon
  <2> QED
    BY <2>1, <2>2, <2>3, Zenon
<1>2. CASE ResponseText
  <2>1. gen \in Responses /\ said[gen] \in 0 .. NPieces /\ said[gen] < NPieces
    <3>1. gen # None /\ said[gen] < NPieces
      BY <1>2 DEF ResponseText
    <3> QED
      BY <3>1, GenIsResponse
  <2>2. said' \in [Responses -> 0 .. NPieces]
    BY <1>2, <2>1, BoundsAssumption DEF ResponseText
  <2>3. text' \in Seq(Responses) /\ recording' \in BOOLEAN
    BY <1>2, <2>1 DEF ResponseText, Assembled
  <2>4. [of |-> gen, is |-> "text"] \in Items
    BY <2>1 DEF Items
  <2>5. ttsQueue' \in Seq(Items)
    <3>1. ttsQueue' = Append(ttsQueue, [of |-> gen, is |-> "text"])
      BY <1>2 DEF ResponseText
    <3> QED
      BY <3>1, <2>4, AddedItems, Zenon
  <2>6. UNCHANGED <<held, finals>>
    BY <1>2, Zenon DEF ResponseText
  <2> QED
    BY <2>2, <2>3, <2>5, <2>6
<1>3. CASE ResponseEnds
  <2>1. [of |-> gen, is |-> "end"] \in Items
    <3>1. gen \in Responses
      BY <1>3, GenIsResponse, Zenon DEF ResponseEnds
    <3> QED
      BY <3>1 DEF Items
  <2>2. ttsQueue' = Append(ttsQueue, [of |-> gen, is |-> "end"])
    BY <1>3 DEF ResponseEnds
  <2>3. ttsQueue' \in Seq(Items)
    BY <2>1, <2>2, AddedItems, Zenon
  <2>4. recording' \in BOOLEAN /\ UNCHANGED <<text, held, finals, said>>
    BY <1>3, Zenon DEF ResponseEnds
  <2> QED
    BY <2>3, <2>4
<1>4. CASE Spoken
  <2>1. ttsQueue' \in Seq(Items)
    BY <1>4, TailItems DEF Spoken
  <2>2. UNCHANGED <<text, recording, held, finals, said>>
    BY <1>4, Zenon DEF Spoken
  <2> QED
    BY <2>1, <2>2
<1>5. CASE ResponseSpoken
  <2>1. ttsQueue' \in Seq(Items) /\ Head(ttsQueue) \in Items
    BY <1>5, TailItems DEF ResponseSpoken
  <2>2. Head(ttsQueue).of \in Responses
    BY <2>1 DEF Items
  <2>3. held' \in Seq(Responses)
    <3>1. held' = Append(held, Head(ttsQueue).of)
      BY <1>5 DEF ResponseSpoken
    <3> QED
      BY <3>1, <2>2, AddedItems, Zenon
  <2>4. UNCHANGED <<text, recording, finals, said>>
    BY <1>5, Zenon DEF ResponseSpoken
  <2> QED
    BY <2>1, <2>3, <2>4
<1>6. CASE FinalSent
  <2>1. held' \in Seq(Responses) /\ Head(held) \in Responses
    BY <1>6, TailItems DEF FinalSent
  <2> DEFINE final == [of |-> Head(held), text |-> text, alone |-> alone = Head(held)]
  <2>2. final \in Messages
    BY <2>1 DEF Messages
  <2>3. finals' = finals \cup {final}
    BY <1>6 DEF FinalSent
  <2>4. finals' \subseteq Messages
    <3> HIDE DEF final
    <3> QED
      BY <2>2, <2>3
  <2>5. UNCHANGED <<text, recording, ttsQueue, said>>
    BY <1>6, Zenon DEF FinalSent
  <2> QED
    BY <2>1, <2>4, <2>5
<1>7. CASE InterruptTTS
  <2>1. ttsQueue' = <<>> /\ held' = <<>> /\ recording' \in BOOLEAN
    BY <1>7, Zenon DEF InterruptTTS
  <2>2. UNCHANGED <<text, finals, said>>
    BY <1>7, Zenon DEF InterruptTTS
  <2> QED
    BY <2>1, <2>2
<1>8. CASE UNCHANGED vars
  BY <1>8, Zenon DEF vars
<1> QED
  BY <1>1, <1>2, <1>3, <1>4, <1>5, <1>6, <1>7, <1>8 DEF Next

LEMMA ShapeStep == TypeOK /\ SizeInv /\ [Next]_vars => (TypeOK /\ SizeInv)'
<1>1. (NumberOK /\ DataOK)' => TypeOK'
  BY DEF TypeOK, NumberOK, DataOK, Items, Messages
<1> QED
  BY <1>1, NumberStep, DataStep

\* The text, the queues and the final messages keep their shape, and no more
\* interruption frames are under way than turns.
THEOREM TypeCorrect == Spec => []TypeOK
  BY InitialShape, ShapeStep, PTL DEF Spec

-----------------------------------------------------------------------------
(* What is passed on. *)

\* Where an item of the queue comes from: it was there, or the LLM's response
\* put it there, its end as the last.
FromLLM(item) ==
  \/ \E j \in DOMAIN ttsQueue : item = ttsQueue[j]
  \/ gen # None /\ item.of = gen /\ (item.is = "end" => gen' = None)

\* An end at the frame sender was there, or has passed the TTS.
FromTTS(r) ==
  \/ \E j \in DOMAIN held : r = held[j]
  \/ \E j \in DOMAIN ttsQueue : ttsQueue[j].is = "end" /\ r = ttsQueue[j].of

\* A final message went out before, or it carries the turn's text.
FromSender(f) ==
  \/ f \in finals
  \/ /\ \E j \in DOMAIN held : f.of = held[j]
     /\ f.text = text /\ f.alone = (alone = f.of) /\ UNCHANGED said

LEMMA QueueStep ==
  TypeOK /\ [Next]_vars => \A i \in DOMAIN ttsQueue' : FromLLM(ttsQueue'[i])
<1> SUFFICES ASSUME NumberOK, DataOK, [Next]_vars, NEW i \in DOMAIN ttsQueue'
             PROVE  FromLLM(ttsQueue'[i])
  BY ShapeHalves
<1> USE DEF bargeVars, trackerVars, outVars, historyVars, FromLLM
<1>1. CASE ResponseText \/ ResponseEnds
  <2>1. PICK is \in {"text", "end"} : /\ ttsQueue' = Append(ttsQueue, [of |-> gen, is |-> is])
                                      /\ is = "end" => gen' = None
    BY <1>1 DEF ResponseText, ResponseEnds
  <2> DEFINE item == [of |-> gen, is |-> is]
  <2>2. gen # None
    BY <1>1, Zenon DEF ResponseText, ResponseEnds
  <2>3. item \in Items /\ item.of = gen /\ item.is = is
    BY <2>2, GenIsResponse DEF Items
  <2> HIDE DEF item
  <2>4. (i \in DOMAIN ttsQueue /\ ttsQueue'[i] = ttsQueue[i]) \/ ttsQueue'[i] = item
    <3>1. ttsQueue' = Append(ttsQueue, item)
      BY <2>1, Zenon DEF item
    <3> QED
      BY <3>1, <2>3, AddedItems, Zenon DEF DataOK
  <2> QED
    BY <2>1, <2>2, <2>3, <2>4
<1>2. CASE Spoken \/ ResponseSpoken
  <2>1. ttsQueue # <<>> /\ ttsQueue' = Tail(ttsQueue)
    BY <1>2 DEF Spoken, ResponseSpoken
  <2>2. i + 1 \in DOMAIN ttsQueue /\ ttsQueue'[i] = ttsQueue[i + 1]
    BY <2>1, TailItems, Zenon DEF DataOK
  <2> QED
    BY <2>2, Zenon
<1>3. CASE InterruptTTS
  BY <1>3 DEF InterruptTTS
<1>4. CASE SpeechStarted \/ StartTurn \/ ResponseStarts \/ InterruptLLM \/ FinalSent
             \/ UNCHANGED vars
  <2>1. UNCHANGED ttsQueue
    BY <1>4, Zenon DEF SpeechStarted, StartTurn, ResponseStarts, InterruptLLM, FinalSent, vars
  <2> QED
    BY <2>1, Zenon
<1> QED
  BY <1>1, <1>2, <1>3, <1>4 DEF Next

LEMMA HeldStep == TypeOK /\ [Next]_vars => \A i \in DOMAIN held' : FromTTS(held'[i])
<1> SUFFICES ASSUME NumberOK, DataOK, [Next]_vars, NEW i \in DOMAIN held'
             PROVE  FromTTS(held'[i])
  BY ShapeHalves
<1> USE DEF bargeVars, trackerVars, outVars, historyVars, FromTTS
<1>1. CASE ResponseSpoken
  <2> DEFINE r == Head(ttsQueue).of
  <2>1. ttsQueue # <<>> /\ Head(ttsQueue).is = "end" /\ held' = Append(held, r)
    BY <1>1 DEF ResponseSpoken
  <2>2. Head(ttsQueue) = ttsQueue[1] /\ 1 \in DOMAIN ttsQueue /\ Head(ttsQueue) \in Items
    BY <2>1, TailItems DEF DataOK
  <2>3. r \in Responses
    BY <2>2 DEF Items
  <2>4. (i \in DOMAIN held /\ held'[i] = held[i]) \/ held'[i] = r
    <3> HIDE DEF r
    <3> QED
      BY <2>1, <2>3, AddedItems, Zenon DEF DataOK
  <2> QED
    BY <2>1, <2>2, <2>4, Zenon
<1>2. CASE FinalSent
  <2>1. held # <<>> /\ held' = Tail(held)
    BY <1>2 DEF FinalSent
  <2>2. i + 1 \in DOMAIN held /\ held'[i] = held[i + 1]
    BY <2>1, TailItems, Zenon DEF DataOK
  <2> QED
    BY <2>2, Zenon
<1>3. CASE InterruptTTS
  BY <1>3 DEF InterruptTTS
<1>4. CASE SpeechStarted \/ StartTurn \/ ResponseStarts \/ ResponseText \/ ResponseEnds
             \/ InterruptLLM \/ Spoken \/ UNCHANGED vars
  <2>1. UNCHANGED held
    BY <1>4, Zenon DEF SpeechStarted, StartTurn, ResponseStarts, ResponseText, ResponseEnds,
                       InterruptLLM, Spoken, vars
  <2> QED
    BY <2>1, Zenon
<1> QED
  BY <1>1, <1>2, <1>3, <1>4 DEF Next

LEMMA FinalsStep == TypeOK /\ [Next]_vars => \A f \in finals' : FromSender(f)
<1> SUFFICES ASSUME DataOK, [Next]_vars, NEW f \in finals' PROVE FromSender(f)
  BY ShapeHalves
<1> USE DEF bargeVars, trackerVars, outVars, historyVars, FromSender
<1>1. CASE FinalSent
  <2> DEFINE final == [of |-> Head(held), text |-> text, alone |-> alone = Head(held)]
  <2>1. held # <<>> /\ finals' = finals \cup {final} /\ UNCHANGED said
    BY <1>1 DEF FinalSent
  <2>2. Head(held) = held[1] /\ 1 \in DOMAIN held
    BY <2>1, TailItems DEF DataOK
  <2>3. final.of = held[1] /\ final.text = text /\ final.alone = (alone = final.of)
    BY <2>2
  <2> HIDE DEF final
  <2> QED
    BY <2>1, <2>2, <2>3, Zenon
<1>2. CASE ~FinalSent
  <2>1. UNCHANGED finals
    BY <1>2, Zenon DEF Next, SpeechStarted, StartTurn, ResponseStarts, ResponseText,
      ResponseEnds, InterruptLLM, Spoken, ResponseSpoken, InterruptTTS, vars
  <2> QED
    BY <2>1, Zenon
<1> QED
  BY <1>1, <1>2

-----------------------------------------------------------------------------
(* What a barge-in leaves. *)

LEMMA SilenceStep == TypeOK /\ SilenceInv /\ [Next]_vars => SilenceInv'
<1> SUFFICES ASSUME NumberOK, TypeOK, SilenceInv, [Next]_vars PROVE SilenceInv'
  BY ShapeHalves
<1> DEFINE passed == atLLM = 0 => gen = None \/ gen > cut
<1>1. NumberOK /\ passed
  BY DEF SilenceInv
<1>2. \/ UNCHANGED <<gen, cut, atLLM, atTTS>>
      \/ atLLM' = atLLM + 1 /\ UNCHANGED atTTS
      \/ gen' = responses + 1 /\ UNCHANGED <<cut, atLLM, atTTS>>
      \/ gen' = None /\ UNCHANGED <<cut, atLLM, atTTS>>
      \/ gen' = None /\ atTTS' = atTTS + 1 /\ UNCHANGED cut
      \/ ttsQueue' = <<>> /\ held' = <<>> /\ UNCHANGED <<gen, cut, atLLM>>
  <2> USE DEF bargeVars, trackerVars, outVars, historyVars
  <2>1. CASE SpeechStarted
    BY <2>1, Zenon DEF SpeechStarted
  <2>2. CASE ResponseStarts
    BY <2>2, Zenon DEF ResponseStarts
  <2>3. CASE InterruptLLM \/ ResponseEnds
    BY <2>3, Zenon DEF InterruptLLM, ResponseEnds
  <2>4. CASE InterruptTTS
    BY <2>4, Zenon DEF InterruptTTS
  <2>5. CASE StartTurn \/ ResponseText \/ Spoken \/ ResponseSpoken \/ FinalSent \/ UNCHANGED vars
    BY <2>5, Zenon DEF StartTurn, ResponseText, Spoken, ResponseSpoken, FinalSent, vars
  <2> QED
    BY <2>1, <2>2, <2>3, <2>4, <2>5 DEF Next
<1>3. passed'
  BY <1>1, <1>2 DEF NumberOK, None
<1>4. ASSUME atLLM' = 0, atTTS' = 0
      PROVE  /\ \A i \in DOMAIN ttsQueue' : ttsQueue'[i].of > cut'
             /\ \A i \in DOMAIN held' : held'[i] > cut'
  <2>1. CASE ttsQueue' = <<>> /\ held' = <<>>
    BY <2>1
  <2>2. CASE ~(ttsQueue' = <<>> /\ held' = <<>>)
    <3>1. atLLM = 0 /\ atTTS = 0 /\ cut' = cut
      BY <1>1, <1>2, <1>4, <2>2 DEF NumberOK
    <3>2. /\ gen # None => gen > cut
          /\ \A i \in DOMAIN ttsQueue : ttsQueue[i].of > cut
          /\ \A i \in DOMAIN held : held[i] > cut
      BY <1>1, <3>1, Zenon DEF SilenceInv, OldTextIsSilenced
    <3>3. \A i \in DOMAIN ttsQueue' : ttsQueue'[i].of > cut
      BY QueueStep, <3>2 DEF FromLLM
    <3>4. \A i \in DOMAIN held' : held'[i] > cut
      BY HeldStep, <3>2, Zenon DEF FromTTS
    <3> QED
      BY <3>1, <3>3, <3>4
  <2> QED
    BY <2>1, <2>2
<1> QED
  BY <1>3, <1>4 DEF SilenceInv, OldTextIsSilenced

\* When the interruption frames of a barge-in have passed, nothing of an older
\* response is generated, queued or held, for any number of barge-ins at once.
THEOREM OldTextIsDropped == Spec => []OldTextIsSilenced
<1>1. Init => SilenceInv
  BY DEF Init, SilenceInv, OldTextIsSilenced
<1>2. SilenceInv => OldTextIsSilenced
  BY DEF SilenceInv
<1> QED
  BY <1>1, <1>2, SilenceStep, InitialShape, ShapeStep, PTL DEF Spec

-----------------------------------------------------------------------------
(* What a final message carries. *)

\* A generated response is followed by the next number or by none.
LEMMA GenStep ==
  NumberOK /\ [Next]_vars =>
    \/ gen' \in {gen, None} /\ UNCHANGED responses
    \/ gen' = responses + 1 /\ responses' = responses + 1
<1> SUFFICES ASSUME [Next]_vars
             PROVE  \/ gen' \in {gen, None} /\ UNCHANGED responses
                    \/ gen' = responses + 1 /\ responses' = responses + 1
  OBVIOUS
<1> USE DEF bargeVars, trackerVars, outVars, historyVars
<1>1. CASE ResponseStarts
  BY <1>1, Zenon DEF ResponseStarts
<1>2. CASE ResponseEnds \/ InterruptLLM
  BY <1>2, Zenon DEF ResponseEnds, InterruptLLM
<1>3. CASE SpeechStarted \/ StartTurn \/ ResponseText \/ UNCHANGED vars
  BY <1>3, Zenon DEF SpeechStarted, StartTurn, ResponseText, vars
<1>4. CASE Spoken \/ ResponseSpoken \/ FinalSent \/ InterruptTTS
  BY <1>4, Zenon DEF Spoken, ResponseSpoken, FinalSent, InterruptTTS
<1> QED
  BY <1>1, <1>2, <1>3, <1>4 DEF Next

\* Only the response that is generated gets another piece.
LEMMA SaidStep ==
  TypeOK /\ [Next]_vars =>
    /\ \A r \in Responses : r # gen => said'[r] = said[r]
    /\ UNCHANGED said \/ (ResponseText /\ said'[gen] = said[gen] + 1)
<1> SUFFICES ASSUME NumberOK, DataOK, [Next]_vars
             PROVE  /\ \A r \in Responses : r # gen => said'[r] = said[r]
                    /\ UNCHANGED said \/ (ResponseText /\ said'[gen] = said[gen] + 1)
  BY ShapeHalves
<1>1. CASE ResponseText
  <2>1. gen \in Responses /\ said' = [said EXCEPT ![gen] = @ + 1]
    <3>1. gen # None /\ said' = [said EXCEPT ![gen] = @ + 1]
      BY <1>1 DEF ResponseText
    <3> QED
      BY <3>1, GenIsResponse
  <2> QED
    BY <1>1, <2>1 DEF DataOK
<1>2. CASE ~ResponseText
  <2>1. UNCHANGED said
    BY <1>2, Zenon DEF Next, SpeechStarted, StartTurn, ResponseStarts, ResponseEnds, InterruptLLM,
      Spoken, ResponseSpoken, FinalSent, InterruptTTS, vars, historyVars
  <2> QED
    BY <2>1, Zenon
<1> QED
  BY <1>1, <1>2

LEMMA PastStep == TypeOK /\ PastInv /\ [Next]_vars => PastInv'
<1> SUFFICES ASSUME NumberOK, TypeOK, PastInv, [Next]_vars PROVE PastInv'
  BY ShapeHalves
<1>1. /\ gen <= responses'
      /\ \A x \in Nat : x <= responses => x <= responses'
  BY GenStep, BoundsAssumption DEF NumberOK
<1>2. \A i \in DOMAIN ttsQueue : ttsQueue[i].of \in Nat /\ ttsQueue[i].of <= responses
  <2>1. \A i \in DOMAIN ttsQueue : ttsQueue[i] \in Items
    BY ShapeHalves, ElementOfSeq DEF DataOK
  <2> QED
    BY <2>1, BoundsAssumption DEF PastInv, Items, Responses
<1>3. \A i \in DOMAIN held : held[i] \in Nat /\ held[i] <= responses
  <2>1. \A i \in DOMAIN held : held[i] \in Responses
    BY ShapeHalves, ElementOfSeq DEF DataOK
  <2> QED
    BY <2>1, BoundsAssumption DEF PastInv, Responses
<1>4. \A f \in finals : f.of \in Nat /\ f.of <= responses
  BY ShapeHalves, BoundsAssumption DEF DataOK, Messages, PastInv, Responses
<1>5. \A i \in DOMAIN ttsQueue' : ttsQueue'[i].of <= responses'
  BY QueueStep, <1>1, <1>2, Zenon DEF FromLLM
<1>6. \A i \in DOMAIN held' : held'[i] <= responses'
  BY HeldStep, <1>1, <1>2, <1>3, Zenon DEF FromTTS
<1>7. \A f \in finals' : f.of <= responses'
  BY FinalsStep, <1>1, <1>3, <1>4, Zenon DEF FromSender
<1> QED
  BY <1>5, <1>6, <1>7 DEF PastInv

LEMMA EndedStep == TypeOK /\ PastInv /\ EndedInv /\ [Next]_vars => EndedInv'
<1> SUFFICES ASSUME NumberOK, TypeOK, PastInv, EndedInv, [Next]_vars PROVE EndedInv'
  BY ShapeHalves
<1>1. \A r \in Responses : r <= responses /\ r # gen => r # gen'
  BY GenStep, BoundsAssumption DEF NumberOK, Responses, None
<1>2. \A i \in DOMAIN ttsQueue :
        ttsQueue[i].is = "end" => ttsQueue[i].of # gen /\ ttsQueue[i].of # gen'
  <2>1. \A i \in DOMAIN ttsQueue : ttsQueue[i].of \in Responses
    <3>1. \A i \in DOMAIN ttsQueue : ttsQueue[i] \in Items
      BY ShapeHalves, ElementOfSeq DEF DataOK
    <3> QED
      BY <3>1 DEF Items
  <2> QED
    BY <1>1, <2>1, Zenon DEF EndedInv, PastInv
<1>3. \A i \in DOMAIN held : held[i] # gen'
  <2>1. \A i \in DOMAIN held : held[i] \in Responses
    BY ShapeHalves, ElementOfSeq DEF DataOK
  <2> QED
    BY <1>1, <2>1, Zenon DEF EndedInv, PastInv
<1>4. \A f \in finals : f.of # gen'
  <2>1. \A f \in finals : f.of \in Responses
    BY ShapeHalves DEF DataOK, Messages
  <2> QED
    BY <1>1, <2>1, Zenon DEF EndedInv, PastInv
<1>5. \A i \in DOMAIN ttsQueue' : ttsQueue'[i].is = "end" => ttsQueue'[i].of # gen'
  BY QueueStep, <1>2, Zenon DEF FromLLM
<1>6. \A i \in DOMAIN held' : held'[i] # gen'
  BY HeldStep, <1>2, <1>3, Zenon DEF FromTTS
<1>7. \A f \in finals' : f.of # gen'
  BY FinalsStep, <1>3, <1>4, Zenon DEF FromSender
<1> QED
  BY <1>5, <1>6, <1>7 DEF EndedInv

\* A response that has not begun has no text.
LEMMA FreshStep == TypeOK /\ SizeInv /\ FreshInv /\ [Next]_vars => FreshInv'
<1> SUFFICES ASSUME TypeOK, NumberOK, SizeInv, FreshInv, [Next]_vars,
                    NEW r \in Responses, r > responses'
             PROVE  said'[r] = 0
  BY ShapeHalves DEF FreshInv
<1>1. r > responses /\ r # gen
  BY GenStep, BoundsAssumption DEF NumberOK, Responses, SizeInv, None
<1> QED
  BY <1>1, SaidStep DEF FreshInv

\* As long as nothing comes between, the turn's text is the response's.
LEMMA AloneStep ==
  TypeOK /\ SizeInv /\ FreshInv /\ AloneInv /\ [Next]_vars => AloneInv'
<1> SUFFICES ASSUME NumberOK, DataOK, SizeInv, FreshInv, AloneInv, [Next]_vars, alone' # None
             PROVE  /\ alone' = responses' /\ text' = Whole(alone)'
                    /\ vad' = "idle" /\ atLLM' = 0 /\ atTTS' = 0
                    /\ gen' = alone' => recording'
  BY ShapeHalves DEF AloneInv
<1> USE DEF bargeVars, trackerVars, outVars, historyVars
<1>1. CASE SpeechStarted
  BY <1>1 DEF SpeechStarted
<1>2. CASE ResponseStarts
  <2>1. /\ alone' = responses + 1 /\ responses' = responses + 1 /\ alone' \in Responses
        /\ text' = <<>> /\ UNCHANGED said /\ recording'
        /\ vad' = "idle" /\ atLLM' = 0 /\ atTTS' = 0
    BY <1>2 DEF ResponseStarts
  <2>2. said'[alone'] = 0
    BY <2>1 DEF FreshInv, NumberOK
  <2>3. Whole(alone)' = <<>>
    BY <2>2 DEF Whole
  <2> QED
    BY <2>1, <2>3
<1>3. CASE ResponseText
  <2>1. /\ alone' = alone /\ vad' = vad /\ atLLM' = atLLM /\ atTTS' = atTTS
        /\ responses' = responses /\ recording' /\ gen' = gen /\ gen # None
    BY <1>3 DEF ResponseText
  <2>2. gen = alone /\ alone \in Responses /\ recording /\ text = Whole(alone)
    BY <2>1, GenIsResponse DEF AloneInv, SizeInv
  <2>3. text' = Append(text, gen)
    BY <1>3, <2>2 DEF ResponseText, Assembled
  <2>4. said[gen] \in Nat /\ said'[gen] = said[gen] + 1
    BY <1>3, <2>2, BoundsAssumption DEF ResponseText, DataOK
  <2>5. text' = Whole(alone)'
    <3>1. PICK r \in Responses : r = gen
      BY <2>2
    <3>2. Append(Whole(r), r) = [i \in 1 .. said'[r] |-> r]
      BY <2>4, <3>1, WholeGrows DEF Whole
    <3> QED
      BY <2>1, <2>2, <2>3, <3>1, <3>2 DEF Whole
  <2> QED
    BY <2>1, <2>5 DEF AloneInv
<1>4. CASE StartTurn \/ InterruptLLM \/ InterruptTTS
  <2>1. alone' = alone /\ ((vad = "pushing") \/ atLLM > 0 \/ atTTS > 0)
    BY <1>4, Zenon DEF StartTurn, InterruptLLM, InterruptTTS
  <2> QED
    BY <2>1 DEF AloneInv
<1>5. CASE ResponseEnds
  <2>1. /\ UNCHANGED <<alone, text, vad, atLLM, atTTS, responses, said>>
        /\ gen' = None
    BY <1>5, Zenon DEF ResponseEnds
  <2> QED
    BY <2>1 DEF AloneInv, Whole
<1>6. CASE Spoken \/ ResponseSpoken \/ FinalSent \/ UNCHANGED vars
  <2>1. UNCHANGED <<alone, text, vad, atLLM, atTTS, responses, said, gen, recording>>
    BY <1>6, Zenon DEF Spoken, ResponseSpoken, FinalSent, vars
  <2> QED
    BY <2>1 DEF AloneInv, Whole
<1> QED
  BY <1>1, <1>2, <1>3, <1>4, <1>5, <1>6 DEF Next

LEMMA FinalStep ==
  TypeOK /\ SizeInv /\ FreshInv /\ FinalInv /\ [Next]_vars => FinalInv'
<1> SUFFICES ASSUME TypeOK, SizeInv, FreshInv, AloneInv, EndedInv, PastInv, FinalOrOvertaken,
                    [Next]_vars
             PROVE  FinalOrOvertaken'
  BY AloneStep, EndedStep, PastStep DEF FinalInv
<1> SUFFICES ASSUME NEW f \in finals', f.alone PROVE f.text = Whole(f.of)'
  BY DEF FinalOrOvertaken
<1>1. CASE f \in finals
  <2>1. f.text = Whole(f.of) /\ f.of \in Responses /\ f.of # gen
    BY <1>1, ShapeHalves DEF FinalOrOvertaken, EndedInv, DataOK, Messages
  <2>2. said'[f.of] = said[f.of]
    BY <2>1, SaidStep
  <2> QED
    BY <2>1, <2>2 DEF Whole
<1>2. CASE f \notin finals
  <2>1. /\ f.text = text /\ alone = f.of /\ UNCHANGED said
        /\ \E j \in DOMAIN held : f.of = held[j]
    BY <1>2, FinalsStep, Zenon DEF FromSender
  <2>2. f.of \in Responses
    BY <2>1, ShapeHalves, ElementOfSeq DEF DataOK
  <2>3. alone # None
    BY <2>1, <2>2, BoundsAssumption DEF Responses, None
  <2> QED
    BY <2>1, <2>3 DEF AloneInv, Whole
<1> QED
  BY <1>1, <1>2

\* A final message that nothing came between has its response's whole text,
\* whatever the number of responses, of pieces, and of barge-ins under way.
THEOREM FinalsAreWhole == Spec => []FinalOrOvertaken
<1>1. Init => FreshInv /\ FinalInv
  BY DEF Init, FreshInv, FinalInv, AloneInv, EndedInv, PastInv, FinalOrOvertaken
<1>2. FinalInv => FinalOrOvertaken
  BY DEF FinalInv
<1> QED
  BY <1>1, <1>2, FreshStep, FinalStep, InitialShape, ShapeStep, PTL DEF Spec
=============================================================================
