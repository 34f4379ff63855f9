------------------------- MODULE TurnDispatcher_proofs -------------------------
(***************************************************************************)
(* Proofs about the tool calls of the voice LLM, for any number of calls   *)
(* and turns.                                                              *)
(***************************************************************************)
EXTENDS TurnDispatcher, TLAPS

Spans == {"none", "open", "ended", "resolved", "unresolved"}
Types ==
  /\ st \in [Calls -> InFlight \cup Ended \cup {"new"}]
  /\ kind \in [Calls -> Kinds]
  /\ reply \in [Calls -> Replies] /\ told \in [Calls -> Replies]
  /\ span \in [Calls -> Spans]
  /\ pending \in SUBSET Calls /\ taken \in SUBSET Calls /\ decided \in SUBSET Calls
  /\ failed \in SUBSET Calls
  /\ backend \in [Calls -> Outcomes \cup {"none"}]

\* A call that has not posted yet has left no trace, and only backend calls post.
Fresh(c) ==
  /\ st[c] = "new" => reply[c] = "none" /\ told[c] = "none"
  /\ st[c] = "local" => kind[c] = "builtin"
  /\ st[c] \in {"new", "acking", "local"} => span[c] = "none" /\ c \notin taken \cup pending
  /\ st[c] \in {"acking", "posted"} => kind[c] = "backend" /\ c \notin taken \cup pending
  /\ st[c] = "sending" =>
       /\ kind[c] \in {"backend", "ui"} /\ c \notin pending
       /\ kind[c] = "backend" => backend[c] \in Confirms /\ span[c] = "open"
  /\ st[c] = "posted" => span[c] = "open"

\* What a reply says of the backend and of the screen; told repeats a reply.
ReplyTrue(c) ==
  /\ reply[c] = "executed" => backend[c] = "executed"
  /\ reply[c] = "deferred" => c \in taken /\ backend[c] \in Confirms
  /\ reply[c] = "ok" /\ kind[c] = "ui" => c \in taken
  /\ reply[c] = "denied" /\ backend[c] \notin {"denied", "other"} => c \in failed
  /\ told[c] \in {"none", reply[c]}
  /\ told[c] # "none" => st[c] = "told"

\* A span waits in pending only for a confirmation whose message is out.
Waiting(c) ==
  /\ span[c] = "open" => st[c] \in {"posted", "sending"} \/ c \in pending
  /\ c \in pending => span[c] = "open" /\ backend[c] = "confirm" /\ c \in taken

CallInv(c) == Fresh(c) /\ ReplyTrue(c) /\ Waiting(c)
DispatchInv == Types /\ \A c \in Calls : CallInv(c)

\* A step of one call changes nothing another call's invariant speaks of.
LEMMA OtherCalls ==
  ASSUME DispatchInv, NEW c \in Calls, Types',
         \A d \in Calls \ {c} :
           /\ st'[d] = st[d] /\ kind'[d] = kind[d] /\ reply'[d] = reply[d]
           /\ told'[d] = told[d] /\ span'[d] = span[d] /\ backend'[d] = backend[d]
           /\ (d \in pending' <=> d \in pending) /\ (d \in taken' <=> d \in taken)
           /\ (d \in decided' <=> d \in decided) /\ (d \in failed' <=> d \in failed),
         CallInv(c)'
  PROVE DispatchInv'
<1>1. ASSUME NEW d \in Calls, d # c PROVE CallInv(d)'
  <2>1. CallInv(d)
    BY DEF DispatchInv
  <2> QED
    BY <1>1, <2>1 DEF CallInv, Fresh, ReplyTrue, Waiting
<1> QED
  BY <1>1 DEF DispatchInv

LEMMA DispatchStep == DispatchInv /\ [Next]_vars => DispatchInv'
<1> SUFFICES ASSUME DispatchInv, [Next]_vars PROVE DispatchInv'
  OBVIOUS
<1>0. Types /\ \A c \in Calls : CallInv(c)
  BY DEF DispatchInv
<1> USE DEF Types, vadVars, callVars, envVars, history, InFlight, Ended, Kinds, Replies, Confirms,
           Outcomes, Spans
<1>1. ASSUME NEW c \in Calls, NEW k \in Kinds, ToolCall(c, k) PROVE DispatchInv'
  <2>1. Types'
    BY <1>0, <1>1 DEF ToolCall
  <2>2. CallInv(c)'
    BY <1>0, <1>1 DEF ToolCall, CallInv, Fresh, ReplyTrue, Waiting
  <2> QED
    BY <1>0, <1>1, <2>1, <2>2, OtherCalls DEF ToolCall
<1>2. ASSUME NEW c \in Calls, Dispatch(c) PROVE DispatchInv'
  <2>1. Types'
    BY <1>0, <1>2 DEF Dispatch
  <2>2. CallInv(c)'
    BY <1>0, <1>2 DEF Dispatch, CallInv, Fresh, ReplyTrue, Waiting
  <2> QED
    BY <1>0, <1>2, <2>1, <2>2, OtherCalls DEF Dispatch
<1>3. ASSUME NEW c \in Calls,
             ResponseArrives(c) \/ PostFails(c) \/ MessageFails(c) \/ LocalDone(c)
      PROVE DispatchInv'
  <2>1. Types'
    BY <1>0, <1>3 DEF ResponseArrives, PostFails, MessageFails, LocalDone, Return
  <2>2. CallInv(c)'
    BY <1>0, <1>3
    DEF ResponseArrives, PostFails, MessageFails, LocalDone, Return, CallInv, Fresh, ReplyTrue,
        Waiting
  <2> QED
    BY <1>0, <1>3, <2>1, <2>2, OtherCalls
    DEF ResponseArrives, PostFails, MessageFails, LocalDone, Return
<1>4. ASSUME NEW c \in Calls, MessageTaken(c) PROVE DispatchInv'
  <2>1. Types'
    BY <1>0, <1>4 DEF MessageTaken
  <2>2. CallInv(c)'
    BY <1>0, <1>4 DEF MessageTaken, CallInv, Fresh, ReplyTrue, Waiting
  <2> QED
    BY <1>0, <1>4, <2>1, <2>2, OtherCalls DEF MessageTaken
<1>5. ASSUME NEW c \in Calls, MessageSent(c) PROVE DispatchInv'
  <2>1. Types'
    BY <1>0, <1>5 DEF MessageSent, Return
  <2>2. CallInv(c)'
    BY <1>0, <1>5 DEF MessageSent, Return, CallInv, Fresh, ReplyTrue, Waiting
  <2> QED
    BY <1>0, <1>5, <2>1, <2>2, OtherCalls DEF MessageSent, Return
<1>6. ASSUME NEW c \in Calls, Answer(c) PROVE DispatchInv'
  <2>1. Types'
    BY <1>0, <1>6 DEF Answer
  <2>2. CallInv(c)'
    BY <1>0, <1>6 DEF Answer, CallInv, Fresh, ReplyTrue, Waiting
  <2> QED
    BY <1>0, <1>6, <2>1, <2>2, OtherCalls DEF Answer
<1>7. CASE CancelCalls
  <2>1. Types'
    BY <1>0, <1>7 DEF CancelCalls
  <2>2. ASSUME NEW c \in Calls PROVE CallInv(c)'
    BY <1>0, <1>7 DEF CancelCalls, CallInv, Fresh, ReplyTrue, Waiting
  <2> QED
    BY <2>1, <2>2 DEF DispatchInv
<1>8. ASSUME NEW c \in Calls, Resolve(c) PROVE DispatchInv'
  <2>1. Types'
    BY <1>0, <1>8 DEF Resolve
  <2>2. CallInv(c)'
    BY <1>0, <1>8 DEF Resolve, CallInv, Fresh, ReplyTrue, Waiting
  <2> QED
    BY <1>0, <1>8, <2>1, <2>2, OtherCalls DEF Resolve
<1>9. CASE Close
  <2>1. Types'
    BY <1>0, <1>9 DEF Close
  <2>2. ASSUME NEW c \in Calls PROVE CallInv(c)'
    BY <1>0, <1>9 DEF Close, CallInv, Fresh, ReplyTrue, Waiting
  <2> QED
    BY <2>1, <2>2 DEF DispatchInv
<1>10. ASSUME NEW c \in Calls, BackendDecides(c) PROVE DispatchInv'
  <2>1. Types'
    BY <1>0, <1>10 DEF BackendDecides
  <2>2. CallInv(c)'
    BY <1>0, <1>10 DEF BackendDecides, CallInv, Fresh, ReplyTrue, Waiting
  <2> QED
    BY <1>0, <1>10, <2>1, <2>2, OtherCalls DEF BackendDecides
<1>11. CASE SpeechStarts \/ StartTurn \/ UNCHANGED vars
  BY <1>0, <1>11 DEF SpeechStarts, StartTurn, vars, DispatchInv, CallInv, Fresh, ReplyTrue, Waiting
<1> QED
  BY <1>1, <1>2, <1>3, <1>4, <1>5, <1>6, <1>7, <1>8, <1>9, <1>10, <1>11 DEF Next, CallStep

LEMMA DispatchInvariant == Spec => []DispatchInv
<1>1. Init => DispatchInv
  BY DEF Init, DispatchInv, Types, CallInv, Fresh, ReplyTrue, Waiting, InFlight, Ended, Kinds,
     Replies, Spans, Outcomes
<1> QED
  BY <1>1, DispatchStep, PTL DEF Spec

\* No span is forgotten, and none that waits for the user is ended early.
THEOREM SpansAreAccounted == Spec => []SpanAccounted
<1>1. DispatchInv => SpanAccounted
  BY DEF DispatchInv, CallInv, Waiting, Types, SpanAccounted
<1> QED
  BY <1>1, DispatchInvariant, PTL

\* The LLM is never told of an execution or of a confirmation that is not so, and
\* of an untrue refusal only when the post or the message raised, however barge-ins,
\* failures and late answers interleave.
THEOREM AnswersAreTrue == Spec => []AnswerIsTrue
<1>1. DispatchInv => AnswerIsTrue
  BY DEF DispatchInv, CallInv, ReplyTrue, AnswerIsTrue
<1> QED
  BY <1>1, DispatchInvariant, PTL

-----------------------------------------------------------------------------
\* The VAD processor's frame reaches the LLM before or behind the start of the
\* turn.  When it did before, no call is left that did not slip in since.
TurnInv ==
  /\ turn \in 1 .. NTurns /\ pushing \in BOOLEAN /\ barges \in Nat /\ closed \in BOOLEAN
  /\ turnOf \in [Calls -> 0 .. NTurns] /\ slipped \in SUBSET Calls
  /\ \A c \in Calls : st[c] = "new" => turnOf[c] = 0
  /\ pushing => turn < NTurns
  /\ pushing => \A c \in Calls :
       turnOf[c] # 0 => barges > 0 \/ st[c] \in Ended \/ c \in slipped
  /\ OldCallsEnded

LEMMA TurnStep == DispatchInv /\ TurnInv /\ [Next]_vars => TurnInv'
<1> SUFFICES ASSUME DispatchInv, TurnInv, [Next]_vars PROVE TurnInv'
  OBVIOUS
<1>0. st \in [Calls -> InFlight \cup Ended \cup {"new"}]
  BY DEF DispatchInv, Types
<1> USE NTurnsAssumption
        DEF TurnInv, OldCallsEnded, InFlight, Ended, vadVars, callVars, envVars, history
\* A call goes on, in its turn, and none becomes new or starts over.
<1>1. ASSUME NEW c \in Calls, UNCHANGED <<turn, pushing, barges, closed, turnOf, slipped>>,
             NEW s \in InFlight \cup Ended, st' = [st EXCEPT ![c] = s],
             st[c] \notin Ended
      PROVE  TurnInv'
  <2>1. \A d \in Calls : (st[d] \in Ended => st'[d] \in Ended) /\ (st'[d] = "new" => st[d] = "new")
    BY <1>0, <1>1
  <2> QED
    BY <1>1, <2>1
<1>2. ASSUME NEW c \in Calls, NEW k \in Kinds, ToolCall(c, k) PROVE TurnInv'
  <2>1. PICK s \in InFlight : st' = [st EXCEPT ![c] = s]
    BY <1>2 DEF ToolCall, Kinds
  <2> QED
    BY <1>1, <1>2, <2>1 DEF ToolCall
<1>3. ASSUME NEW c \in Calls, Dispatch(c) PROVE TurnInv'
  <2>1. /\ UNCHANGED <<turn, pushing, barges, closed>>
        /\ turnOf' = [turnOf EXCEPT ![c] = turn] /\ st' = [st EXCEPT ![c] = "posted"]
        /\ st[c] = "acking" /\ slipped' = IF pushing THEN slipped \cup {c} ELSE slipped
    BY <1>3 DEF Dispatch
  <2>2. turnOf'[c] = turn /\ st'[c] = "posted" /\ (pushing => c \in slipped')
    BY <1>0, <2>1
  <2>3. \A d \in Calls \ {c} :
          turnOf'[d] = turnOf[d] /\ st'[d] = st[d] /\ (d \in slipped <=> d \in slipped')
    BY <1>0, <2>1
  <2>4. turnOf' \in [Calls -> 0 .. NTurns] /\ slipped' \in SUBSET Calls
    BY <2>1
  <2> QED
    BY <2>1, <2>2, <2>3, <2>4
<1>4. ASSUME NEW c \in Calls, ResponseArrives(c) \/ PostFails(c) \/ MessageFails(c)
                               \/ LocalDone(c) \/ MessageSent(c) \/ Answer(c)
      PROVE  TurnInv'
  <2>1. PICK s \in InFlight \cup Ended : st' = [st EXCEPT ![c] = s]
    BY <1>4 DEF ResponseArrives, PostFails, MessageFails, LocalDone, MessageSent, Answer, Return
  <2>2. st[c] \notin Ended /\ UNCHANGED <<turn, pushing, barges, closed, turnOf, slipped>>
    BY <1>4 DEF ResponseArrives, PostFails, MessageFails, LocalDone, MessageSent, Answer
  <2> QED
    BY <1>1, <2>1, <2>2
<1>5. ASSUME NEW c \in Calls, MessageTaken(c) \/ Resolve(c) \/ BackendDecides(c) PROVE TurnInv'
  <2>1. UNCHANGED <<turn, pushing, barges, closed, turnOf, slipped, st>>
    BY <1>5, Zenon DEF MessageTaken, Resolve, BackendDecides
  <2> QED
    BY <2>1
<1>6. CASE SpeechStarts
  BY <1>6 DEF SpeechStarts
<1>7. CASE StartTurn
  <2>1. /\ pushing /\ pushing' = FALSE /\ turn' = turn + 1
        /\ UNCHANGED <<barges, closed, turnOf, slipped, st>>
    BY <1>7, Zenon DEF StartTurn
  <2>2. turn' \in 1 .. NTurns /\ turn' \notin {0, turn}
    BY <2>1
  <2>3. \A c \in Calls : turnOf[c] # 0 => barges > 0 \/ st[c] \in Ended \/ c \in slipped
    BY <2>1
  <2>4. OldCallsEnded'
    BY <2>1, <2>3
  <2>5. pushing' \in BOOLEAN /\ ~pushing'
    BY <2>1, Zenon
  <2>6. /\ barges' \in Nat /\ turnOf' \in [Calls -> 0 .. NTurns] /\ slipped' \in SUBSET Calls
        /\ \A c \in Calls : st'[c] = "new" => turnOf'[c] = 0
    BY <2>1
  <2>7. closed' \in BOOLEAN
    BY <2>1, Zenon
  <2> QED
    BY <2>2, <2>4, <2>5, <2>6, <2>7, Zenon
<1>8. CASE CancelCalls
  <2>1. /\ barges > 0 /\ barges' = barges - 1
        /\ UNCHANGED <<turn, pushing, closed, turnOf, slipped>>
        /\ st' = [c \in Calls |-> IF st[c] \in InFlight THEN "cancelled" ELSE st[c]]
    BY <1>8 DEF CancelCalls
  <2>2. ASSUME NEW c \in Calls, turnOf[c] # 0 PROVE st'[c] \in Ended
    <3>1. st[c] \in InFlight \cup Ended
      BY <1>0, <2>2
    <3> QED
      BY <2>1, <3>1
  <2>3. \A c \in Calls : st'[c] = "new" => st[c] = "new"
    BY <1>0, <2>1
  <2> QED
    BY <2>1, <2>2, <2>3
<1>9. CASE Close
  BY <1>9 DEF Close
<1>10. CASE UNCHANGED vars
  BY <1>10 DEF vars
<1> QED
  BY <1>2, <1>3, <1>4, <1>5, <1>6, <1>7, <1>8, <1>9, <1>10 DEF Next, CallStep

LEMMA TurnInvariant == Spec => []TurnInv
<1>1. Init => TurnInv
  <2> SUFFICES ASSUME Init PROVE TurnInv
    OBVIOUS
  <2>1. pushing = FALSE /\ pushing \in BOOLEAN /\ closed \in BOOLEAN
    BY Zenon DEF Init
  <2>2. /\ turn \in 1 .. NTurns /\ turnOf = [c \in Calls |-> 0]
        /\ barges = 0 /\ slipped = {}
    BY NTurnsAssumption DEF Init
  <2> QED
    BY <2>1, <2>2, NTurnsAssumption DEF TurnInv, OldCallsEnded
<1> QED
  BY <1>1, TurnStep, DispatchInvariant, PTL DEF Spec

\* The state keeps its shape.
THEOREM TypeCorrect == Spec => []TypeOK
<1>1. DispatchInv /\ TurnInv => TypeOK
  BY DEF DispatchInv, Types, TurnInv, TypeOK, Spans
<1> QED
  BY <1>1, DispatchInvariant, TurnInvariant, PTL

\* A call outlives its turn only while its cancellation is on the way, or when it
\* was dispatched behind that and before the turn.
THEOREM OldCallsAreCancelled == Spec => []OldCallsEnded
<1>1. TurnInv => OldCallsEnded
  BY DEF TurnInv
<1> QED
  BY <1>1, TurnInvariant, PTL
=============================================================================
