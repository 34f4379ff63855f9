--------------------------- MODULE SarvamSTT_proofs ---------------------------
(***************************************************************************)
(* Proofs about the streaming STT of Sarvam, for any number of sockets,    *)
(* frames and calls of set_language.                                       *)
(***************************************************************************)
EXTENDS SarvamSTT, TLAPS

\* Every action changes the callers' places by Goto or not at all.
LEMMA GotoType ==
  ASSUME TypeOK, NEW a \in Callers, NEW h \in 0 .. NSockets,
         NEW w \in {"idle", "connect", "send", "cancelling", "closing"}, Goto(a, w, h)
  PROVE  /\ pc' \in [Callers -> {"idle", "connect", "send", "cancelling", "closing"}]
         /\ hold' \in [Callers -> 0 .. NSockets]
  BY DEF TypeOK, Goto

\* So does TakeConnection, whatever brought the caller there.
LEMMA TakeType ==
  ASSUME TypeOK, NEW a \in Callers, NEW why \in {"none", "language", "stop"},
         recv' \in 0 .. made, TakeConnection(a, why)
  PROVE  /\ pc' \in [Callers -> {"idle", "connect", "send", "cancelling", "closing"}]
         /\ hold' \in [Callers -> 0 .. NSockets]
         /\ job' \in [Callers -> {"none", "language", "stop"}]
         /\ conn' = None /\ overtaken' \in SUBSET Sockets
         /\ life' \in {"new", "starting", "up", "over"}
<1> USE BoundsAssumption DEF TypeOK, Sockets, None
<1>1. conn' = None /\ overtaken' \in SUBSET Sockets /\ life' \in {"new", "starting", "up", "over"}
  BY DEF TakeConnection, Taking
<1>2. conn \in 0 .. NSockets
  OBVIOUS
<1>3. CASE conn # None
  <2>1. Goto(a, "closing", conn) /\ job' = [job EXCEPT ![a] = why]
    BY <1>3 DEF TakeConnection
  <2> QED
    BY <1>1, <1>2, <2>1, GotoType
<1>4. CASE conn = None /\ why = "language"
  <2>1. Goto(a, "connect", None) /\ job' = job
    BY <1>4 DEF TakeConnection
  <2> QED
    BY <1>1, <2>1, GotoType
<1>5. CASE conn = None /\ why # "language"
  <2>1. Goto(a, "idle", None) /\ job' \in [Callers -> {"none", "language", "stop"}]
    BY <1>5 DEF TakeConnection, Done
  <2> QED
    BY <1>1, <2>1, GotoType
<1> QED
  BY <1>3, <1>4, <1>5

\* The service's state keeps its shape; a receiver that reads, reads a socket.
THEOREM TypeCorrect == Spec => []TypeOK
<1>1. Init => TypeOK
  BY BoundsAssumption DEF Init, TypeOK, None, Sockets
<1>2. TypeOK /\ [Next]_vars => TypeOK'
  <2> SUFFICES ASSUME TypeOK, [Next]_vars PROVE TypeOK'
    OBVIOUS
  <2> USE BoundsAssumption DEF Sockets, None
  <2>1. CASE Start
    <3>1. Goto("frames", "connect", None)
      BY <2>1 DEF Start
    <3>2. "frames" \in Callers
      BY DEF Callers, Stoppers
    <3> QED
      <4>1. /\ pc' \in [Callers -> {"idle", "connect", "send", "cancelling", "closing"}]
            /\ hold' \in [Callers -> 0 .. NSockets]
        BY <3>1, <3>2, GotoType
      <4> QED
        BY <2>1, <4>1 DEF Start, TypeOK, socketVars, readerVars, bounds
  <2>2. ASSUME NEW a \in Callers, Connected(a) PROVE TypeOK'
    <3>1. Resume(a) /\ conn' = made + 1 /\ made + 1 \in 1 .. NSockets
      BY <2>2 DEF Connected
    <3>2. /\ pc' \in [Callers -> {"idle", "connect", "send", "cancelling", "closing"}]
          /\ hold' \in [Callers -> 0 .. NSockets]
      <4>1. CASE a \in Senders
        BY <4>1, <3>1, GotoType DEF Resume
      <4>2. CASE a \notin Senders
        BY <4>2, <3>1, GotoType DEF Resume
      <4> QED
        BY <4>1, <4>2
    <3>3. /\ job' \in [Callers -> {"none", "language", "stop"}]
          /\ life' \in {"new", "starting", "up", "over"}
      BY <3>1 DEF Resume, Done, TypeOK
    <3>4. overtaken' \in SUBSET Sockets
      BY <2>2 DEF Connected, Overtaking, TypeOK
    <3> QED
      BY <2>2, <3>1, <3>2, <3>3, <3>4 DEF Connected, TypeOK, bounds
  <2>3. ASSUME NEW a \in Callers, ConnectFails(a) PROVE TypeOK'
    <3>1. /\ pc' \in [Callers -> {"idle", "connect", "send", "cancelling", "closing"}]
          /\ hold' \in [Callers -> 0 .. NSockets]
      BY <2>3, GotoType DEF ConnectFails
    <3>2. /\ job' \in [Callers -> {"none", "language", "stop"}]
          /\ life' \in {"new", "starting", "up", "over"}
      BY <2>3 DEF ConnectFails, Done, TypeOK
    <3> QED
      BY <2>3, <3>1, <3>2 DEF ConnectFails, TypeOK, socketVars, readerVars, bounds
  <2>4. ASSUME NEW a \in Senders, RunStt(a) PROVE TypeOK'
    <3>1. a \in Callers /\ conn \in 0 .. NSockets
      BY DEF Callers, TypeOK
    <3>2. Goto(a, "connect", None) \/ Goto(a, "send", conn)
      BY <2>4 DEF RunStt
    <3>3. /\ pc' \in [Callers -> {"idle", "connect", "send", "cancelling", "closing"}]
          /\ hold' \in [Callers -> 0 .. NSockets]
      BY <3>1, <3>2, GotoType
    <3>4. frames' \in 0 .. NFrames
      BY <2>4 DEF RunStt, TypeOK
    <3> QED
      BY <2>4, <3>3, <3>4 DEF RunStt, TypeOK, socketVars, readerVars
  <2>5. CASE Flush
    <3>1. "vad" \in Callers /\ conn \in 0 .. NSockets
      BY DEF Callers, Senders, TypeOK
    <3>2. /\ pc' \in [Callers -> {"idle", "connect", "send", "cancelling", "closing"}]
          /\ hold' \in [Callers -> 0 .. NSockets]
      BY <2>5, <3>1, GotoType DEF Flush
    <3>3. frames' \in 0 .. NFrames
      BY <2>5 DEF Flush, TypeOK
    <3> QED
      BY <2>5, <3>2, <3>3 DEF Flush, TypeOK, socketVars, readerVars
  <2>6. ASSUME NEW a \in Senders, Sent(a) PROVE TypeOK'
    <3>1. /\ pc' \in [Callers -> {"idle", "connect", "send", "cancelling", "closing"}]
          /\ hold' \in [Callers -> 0 .. NSockets]
      BY <2>6, GotoType DEF Sent, Callers
    <3> QED
      BY <2>6, <3>1 DEF Sent, TypeOK, socketVars, readerVars, bounds
  <2>7. ASSUME NEW a \in Stoppers, NEW why \in {"language", "stop"}, Disconnect(a, why),
               UNCHANGED <<task, reads, late, frames>>, switches' \in 0 .. NSwitches
        PROVE  TypeOK'
    <3>1. a \in Callers
      BY DEF Callers
    <3>2. CASE recv # None /\ recv' = None
      <4>1. /\ Goto(a, "cancelling", recv) /\ recv \in 0 .. NSockets
            /\ UNCHANGED <<conn, made, sock, overtaken, life>>
            /\ job' \in [Callers -> {"none", "language", "stop"}]
        BY <2>7, <3>2 DEF Disconnect, TypeOK, socketVars
      <4>2. /\ pc' \in [Callers -> {"idle", "connect", "send", "cancelling", "closing"}]
            /\ hold' \in [Callers -> 0 .. NSockets]
        BY <4>1, <3>1, GotoType
      <4> QED
        BY <2>7, <3>2, <4>1, <4>2 DEF TypeOK
    <3>3. CASE recv = None
      <4>1. recv' \in 0 .. made /\ TakeConnection(a, why) /\ UNCHANGED <<made, sock, recv>>
        BY <2>7, <3>3 DEF Disconnect, TypeOK
      <4> QED
        BY <2>7, <4>1, <3>1, TakeType DEF TypeOK
    <3> QED
      BY <2>7, <3>2, <3>3 DEF Disconnect
  <2>8. ASSUME NEW a \in Stoppers, Stop(a) PROVE TypeOK'
    BY <2>8, <2>7 DEF Stop, bounds, TypeOK
  <2>9. CASE SetLanguage
    BY <2>9, <2>7 DEF SetLanguage, Stoppers, TypeOK
  <2>10. ASSUME NEW a \in Stoppers, ReceiverGone(a) PROVE TypeOK'
    <3>1. /\ a \in Callers /\ job[a] \in {"none", "language", "stop"}
          /\ recv' \in 0 .. made /\ TakeConnection(a, job[a])
      BY <2>10 DEF ReceiverGone, readerVars, Callers, TypeOK
    <3> QED
      BY <2>10, <3>1, TakeType DEF ReceiverGone, readerVars, bounds, TypeOK
  <2>11. ASSUME NEW a \in Stoppers, Closed(a) PROVE TypeOK'
    <3>1. a \in Callers
      BY DEF Callers
    <3>2. Goto(a, "connect", None) \/ Goto(a, "idle", None)
      BY <2>11 DEF Closed, Disconnected
    <3>3. /\ pc' \in [Callers -> {"idle", "connect", "send", "cancelling", "closing"}]
          /\ hold' \in [Callers -> 0 .. NSockets]
      BY <3>1, <3>2, GotoType
    <3>4. /\ job' \in [Callers -> {"none", "language", "stop"}]
          /\ sock' \in [Sockets -> {"unused", "open", "dropped", "closed"}]
      BY <2>11 DEF Closed, Disconnected, Done, TypeOK
    <3>5. UNCHANGED <<conn, made, overtaken, recv, task, reads, late, life, frames, switches>>
      BY <2>11 DEF Closed, readerVars, bounds
    <3> QED
      BY <3>3, <3>4, <3>5 DEF TypeOK
  <2>12. ASSUME NEW r \in Sockets, ReaderStarts(r) PROVE TypeOK'
    BY <2>12 DEF ReaderStarts, TypeOK, socketVars, callerVars, bounds
  <2>13. ASSUME NEW r \in Sockets, ReaderHears(r) \/ ReaderEnds(r) PROVE TypeOK'
    BY <2>13 DEF ReaderHears, ReaderEnds, TypeOK, socketVars, callerVars, bounds
  <2>14. ASSUME NEW s \in Sockets, Drop(s) PROVE TypeOK'
    BY <2>14 DEF Drop, TypeOK, readerVars, callerVars, bounds
  <2>15. CASE UNCHANGED vars
    BY <2>15 DEF vars, TypeOK, socketVars, readerVars, callerVars, bounds
  <2> QED
    BY <2>1, <2>2, <2>3, <2>4, <2>5, <2>6, <2>8, <2>9, <2>10, <2>11, <2>12, <2>13, <2>14,
       <2>15 DEF Next
<1> QED
  BY <1>1, <1>2, PTL DEF Spec

-----------------------------------------------------------------------------
(* Where the sockets and their receivers are, one step at a time. *)

\* A caller that moves from elsewhere than closing leaves every close going.
LEMMA ClosesGoOn ==
  ASSUME TypeOK, NEW a \in Callers, NEW w, NEW h, Goto(a, w, h), pc[a] # "closing",
         NEW s \in Sockets, BeingClosed(s)
  PROVE  BeingClosed(s)'
  BY DEF TypeOK, Goto, BeingClosed, Stoppers, Callers

\* The same of cancellations.
LEMMA CancelsGoOn ==
  ASSUME TypeOK, NEW a \in Callers, NEW w, NEW h, Goto(a, w, h), pc[a] # "cancelling",
         NEW r \in Sockets, Cancelling(r)
  PROVE  Cancelling(r)'
  BY DEF TypeOK, Goto, Cancelling, Stoppers, Callers

\* The connection that is taken is being closed, and no other is lost.
LEMMA TakeOwns ==
  ASSUME TypeOK, SocketsAreOwned, NEW a \in Stoppers, NEW why, TakeConnection(a, why),
         pc[a] # "closing", UNCHANGED sock
  PROVE  SocketsAreOwned'
<1> SUFFICES ASSUME NEW s \in Sockets, sock[s] = "open"
             PROVE  BeingClosed(s)' \/ s \in overtaken'
  BY DEF SocketsAreOwned
<1>1. a \in Callers /\ overtaken \subseteq overtaken'
  BY DEF TakeConnection, Callers
<1>2. PICK w, h : Goto(a, w, h)
  BY DEF TakeConnection
<1>3. CASE BeingClosed(s)
  BY <1>1, <1>2, <1>3, ClosesGoOn
<1>4. CASE s = conn
  <2>1. Goto(a, "closing", s)
    BY <1>4 DEF TakeConnection, Sockets, None
  <2> QED
    BY <1>1, <2>1 DEF Goto, BeingClosed, TypeOK
<1> QED
  BY <1>1, <1>3, <1>4 DEF SocketsAreOwned

\* A WebSocket that is open is the connection of a service that runs, or is
\* being closed, or was overtaken.
THEOREM SocketsOwned == Spec => []SocketsAreOwned
<1>1. Init => SocketsAreOwned
  BY DEF Init, SocketsAreOwned
<1>2. TypeOK /\ SocketsAreOwned /\ [Next]_vars => SocketsAreOwned'
  <2> SUFFICES ASSUME TypeOK, SocketsAreOwned, [Next]_vars PROVE SocketsAreOwned'
    OBVIOUS
  \* Whoever moves without touching the sockets and is not closing.
  <2>1. ASSUME NEW a \in Callers, NEW w, NEW h, Goto(a, w, h), pc[a] # "closing",
               UNCHANGED <<conn, sock, overtaken>>, life' = "over" => life = "over"
        PROVE  SocketsAreOwned'
    <3> SUFFICES ASSUME NEW s \in Sockets, sock[s] = "open"
                 PROVE  (s = conn /\ life' # "over") \/ BeingClosed(s)' \/ s \in overtaken
      BY <2>1 DEF SocketsAreOwned
    <3>1. BeingClosed(s) => BeingClosed(s)'
      BY <2>1, ClosesGoOn
    <3> QED
      BY <2>1, <3>1 DEF SocketsAreOwned
  <2>2. CASE Start
    <3>1. "frames" \in Callers
      BY DEF Callers, Stoppers
    <3> QED
      BY <2>1, <2>2, <3>1 DEF Start, socketVars
  <2>3. ASSUME NEW a \in Callers, Connected(a) PROVE SocketsAreOwned'
    <3>1. PICK w, h : Goto(a, w, h)
      BY <2>3 DEF Connected, Resume
    <3> SUFFICES ASSUME NEW s \in Sockets, sock'[s] = "open"
                 PROVE  (s = conn' /\ life' # "over") \/ BeingClosed(s)' \/ s \in overtaken'
      BY DEF SocketsAreOwned
    <3>2. CASE s = made + 1
      BY <2>3, <3>2 DEF Connected, Resume, Overtaking
    <3>3. CASE s # made + 1
      <4>1. sock[s] = "open" /\ (s = conn => s \in overtaken') /\ overtaken \subseteq overtaken'
        BY <2>3, <3>3 DEF Connected, Overtaking, Sockets, None, TypeOK
      <4>2. BeingClosed(s) => BeingClosed(s)'
        BY <2>3, <3>1, ClosesGoOn DEF Connected
      <4> QED
        BY <4>1, <4>2 DEF SocketsAreOwned
    <3> QED
      BY <3>2, <3>3
  <2>4. ASSUME NEW a \in Callers, ConnectFails(a) PROVE SocketsAreOwned'
    BY <2>1, <2>4 DEF ConnectFails, socketVars
  <2>5. ASSUME NEW a \in Senders, RunStt(a) \/ Sent(a) PROVE SocketsAreOwned'
    BY <2>1, <2>5 DEF RunStt, Sent, socketVars, Callers
  <2>6. CASE Flush
    <3>1. "vad" \in Callers
      BY DEF Callers, Senders
    <3> QED
      BY <2>1, <2>6, <3>1 DEF Flush, socketVars
  <2>7. ASSUME NEW a \in Stoppers, NEW why, pc[a] = "idle", Disconnect(a, why)
        PROVE  SocketsAreOwned'
    <3>1. CASE recv # None
      BY <2>1, <2>7, <3>1 DEF Disconnect, socketVars, Callers
    <3>2. CASE recv = None
      BY <2>7, <3>2, TakeOwns DEF Disconnect
    <3> QED
      BY <3>1, <3>2
  <2>8. ASSUME NEW a \in Stoppers, Stop(a) PROVE SocketsAreOwned'
    BY <2>7, <2>8 DEF Stop
  <2>9. CASE SetLanguage
    BY <2>7, <2>9 DEF SetLanguage, Stoppers
  <2>10. ASSUME NEW a \in Stoppers, ReceiverGone(a) PROVE SocketsAreOwned'
    BY <2>10, TakeOwns DEF ReceiverGone
  <2>11. ASSUME NEW a \in Stoppers, Closed(a) PROVE SocketsAreOwned'
    <3> SUFFICES ASSUME NEW s \in Sockets, sock'[s] = "open"
                 PROVE  (s = conn /\ life # "over") \/ BeingClosed(s)' \/ s \in overtaken
      BY <2>11 DEF SocketsAreOwned, Closed
    <3>1. s # hold[a] /\ sock[s] = "open"
      BY <2>11 DEF Closed, TypeOK
    <3>2. ASSUME NEW b \in Stoppers, pc[b] = "closing", hold[b] = s
          PROVE  pc'[b] = "closing" /\ hold'[b] = s
      BY <2>11, <3>1, <3>2 DEF Closed, Disconnected, Goto, TypeOK, Callers
    <3> QED
      BY <3>1, <3>2 DEF SocketsAreOwned, BeingClosed
  <2>12. ASSUME NEW r \in Sockets, ReaderStarts(r) \/ ReaderHears(r) \/ ReaderEnds(r)
         PROVE  SocketsAreOwned'
    BY <2>12 DEF ReaderStarts, ReaderHears, ReaderEnds, socketVars, callerVars,
                 SocketsAreOwned, BeingClosed
  <2>13. ASSUME NEW s \in Sockets, Drop(s) PROVE SocketsAreOwned'
    BY <2>13 DEF Drop, callerVars, SocketsAreOwned, BeingClosed, TypeOK
  <2>14. CASE UNCHANGED vars
    BY <2>14 DEF vars, socketVars, callerVars, SocketsAreOwned, BeingClosed
  <2> QED
    BY <2>2, <2>3, <2>4, <2>5, <2>6, <2>8, <2>9, <2>10, <2>11, <2>12, <2>13, <2>14 DEF Next
<1> QED
  BY <1>1, <1>2, TypeCorrect, PTL DEF Spec

-----------------------------------------------------------------------------
\* Why no receiver is forgotten: it is the service's, or is being cancelled,
\* or was overtaken; and the service's reads the connection.
Tracked ==
  /\ \A r \in Sockets : Running(r) => r = recv \/ Cancelling(r) \/ r \in overtaken
  /\ recv # None => conn = recv \/ recv \in overtaken
  /\ life = "over" => recv = None \/ recv \in overtaken
  /\ SilentWhenOver

\* Taking the connection: a receiver that is there by now was overtaken.
LEMMA TakeTracks ==
  ASSUME TypeOK, Tracked, NEW a \in Stoppers, NEW why, TakeConnection(a, why),
         UNCHANGED <<recv, task, late>>,
         pc[a] = "cancelling" => ~Running(hold[a])
  PROVE  Tracked'
<1> USE DEF Tracked
<1>1. /\ a \in Callers /\ overtaken \subseteq overtaken' /\ life' \in {life, "over"}
      /\ recv # None => recv \in overtaken'
  BY DEF TakeConnection, Taking, Callers
<1>2. PICK w, h : Goto(a, w, h)
  BY DEF TakeConnection
<1>3. ASSUME NEW r \in Sockets, Running(r), Cancelling(r) PROVE Cancelling(r)'
  <2>1. PICK b \in Stoppers : pc[b] = "cancelling" /\ hold[b] = r
    BY <1>3 DEF Cancelling
  <2>2. b # a
    BY <1>3, <2>1
  <2> QED
    BY <1>1, <1>2, <2>1, <2>2 DEF Goto, Cancelling, TypeOK, Callers
<1>4. \A r \in Sockets : Running(r)' => r = recv' \/ Cancelling(r)' \/ r \in overtaken'
  BY <1>1, <1>3 DEF Running
<1> QED
  BY <1>1, <1>4 DEF SilentWhenOver

\* A service that was stopped pushes no transcript, except from an overtaken
\* connection.
THEOREM SilentAfterStop == Spec => []SilentWhenOver
<1>1. Init => Tracked
  BY DEF Init, Tracked, SilentWhenOver, Running
<1>2. TypeOK /\ Tracked /\ [Next]_vars => Tracked'
  <2> SUFFICES ASSUME TypeOK, Tracked, [Next]_vars PROVE Tracked'
    OBVIOUS
  <2> USE DEF Tracked
  \* Whoever moves without touching the receivers and is not cancelling.
  <2>1. ASSUME NEW a \in Callers, NEW w, NEW h, Goto(a, w, h), pc[a] # "cancelling",
               UNCHANGED <<conn, recv, task, late, overtaken>>, life' = "over" => life = "over"
        PROVE  Tracked'
    <3>1. \A r \in Sockets : Cancelling(r) => Cancelling(r)'
      BY <2>1, CancelsGoOn
    <3> QED
      BY <2>1, <3>1 DEF Running, SilentWhenOver
  <2>2. CASE Start
    <3>1. "frames" \in Callers
      BY DEF Callers, Stoppers
    <3> QED
      BY <2>1, <2>2, <3>1 DEF Start, socketVars, readerVars
  <2>3. ASSUME NEW a \in Callers, Connected(a) PROVE Tracked'
    <3>1. PICK w, h : Goto(a, w, h)
      BY <2>3 DEF Connected, Resume
    <3>2. \A r \in Sockets : Cancelling(r) => Cancelling(r)'
      BY <2>3, <3>1, CancelsGoOn DEF Connected
    <3>3. /\ overtaken \subseteq overtaken' /\ conn' = made + 1 /\ recv' = made + 1
          /\ conn # None => conn \in overtaken'
          /\ life' = "over" => life = "over" /\ recv' \in overtaken'
          /\ UNCHANGED late
      BY <2>3 DEF Connected, Overtaking, Resume
    <3>4. ASSUME NEW r \in Sockets, r # made + 1, Running(r)'
          PROVE  Running(r) /\ r # None
      BY <2>3, <3>4 DEF Connected, Running, TypeOK, Sockets, None
    <3>5. ASSUME NEW r \in Sockets, Running(r)'
          PROVE  r = recv' \/ Cancelling(r)' \/ r \in overtaken'
      BY <3>2, <3>3, <3>4, <3>5
    <3> QED
      BY <3>3, <3>5 DEF SilentWhenOver
  <2>4. ASSUME NEW a \in Callers, ConnectFails(a) PROVE Tracked'
    BY <2>1, <2>4 DEF ConnectFails, socketVars, readerVars
  <2>5. ASSUME NEW a \in Senders, RunStt(a) \/ Sent(a) PROVE Tracked'
    BY <2>1, <2>5 DEF RunStt, Sent, socketVars, readerVars, Callers
  <2>6. CASE Flush
    <3>1. "vad" \in Callers
      BY DEF Callers, Senders
    <3> QED
      BY <2>1, <2>6, <3>1 DEF Flush, socketVars, readerVars
  <2>7. ASSUME NEW a \in Stoppers, NEW why, pc[a] = "idle", Disconnect(a, why),
               UNCHANGED <<task, late>>
        PROVE  Tracked'
    <3>1. CASE recv # None
      <4>1. a \in Callers /\ Goto(a, "cancelling", recv)
        BY <2>7, <3>1 DEF Disconnect, Callers
      <4>2. \A r \in Sockets : Cancelling(r) => Cancelling(r)'
        BY <2>7, <4>1, CancelsGoOn
      <4>3. pc'[a] = "cancelling" /\ hold'[a] = recv
        BY <4>1 DEF Goto, TypeOK
      <4>4. recv' = None /\ UNCHANGED <<conn, overtaken, life>>
        BY <2>7, <3>1 DEF Disconnect, socketVars
      <4>5. ASSUME NEW r \in Sockets, Running(r)' PROVE Cancelling(r)' \/ r \in overtaken'
        <5>1. CASE r = recv
          BY <4>3, <5>1 DEF Cancelling
        <5>2. CASE r # recv
          BY <2>7, <4>2, <4>4, <4>5, <5>2 DEF Running
        <5> QED
          BY <5>1, <5>2
      <4> QED
        BY <2>7, <4>4, <4>5 DEF SilentWhenOver
    <3>2. CASE recv = None
      BY <2>7, <3>2, TakeTracks DEF Disconnect
    <3> QED
      BY <3>1, <3>2
  <2>8. ASSUME NEW a \in Stoppers, Stop(a) PROVE Tracked'
    BY <2>7, <2>8 DEF Stop
  <2>9. CASE SetLanguage
    BY <2>7, <2>9 DEF SetLanguage, Stoppers
  <2>10. ASSUME NEW a \in Stoppers, ReceiverGone(a) PROVE Tracked'
    BY <2>10, TakeTracks DEF ReceiverGone, readerVars
  <2>11. ASSUME NEW a \in Stoppers, Closed(a) PROVE Tracked'
    <3>1. PICK w, h : Goto(a, w, h)
      BY <2>11 DEF Closed, Disconnected
    <3> QED
      BY <2>1, <2>11, <3>1 DEF Closed, readerVars, Callers
  <2>12. ASSUME NEW r \in Sockets, ReaderStarts(r) \/ ReaderEnds(r) PROVE Tracked'
    <3>1. UNCHANGED <<conn, recv, late, overtaken, life, pc, hold>>
      BY <2>12 DEF ReaderStarts, ReaderEnds, socketVars, callerVars
    <3>2. \A q \in Sockets : Running(q)' => Running(q)
      BY <2>12 DEF ReaderStarts, ReaderEnds, Running, TypeOK
    <3> QED
      BY <3>1, <3>2 DEF Cancelling, SilentWhenOver
  <2>13. ASSUME NEW r \in Sockets, ReaderHears(r) PROVE Tracked'
    <3>1. UNCHANGED <<conn, recv, task, overtaken, life, pc, hold>>
      BY <2>13 DEF ReaderHears, socketVars, callerVars
    <3>2. life = "over" => r \in overtaken
      BY <2>13 DEF ReaderHears, Running, Sockets, None
    <3>3. SilentWhenOver'
      BY <2>13, <3>1, <3>2 DEF ReaderHears, SilentWhenOver
    <3> QED
      BY <3>1, <3>3 DEF Cancelling, Running
  <2>14. ASSUME NEW s \in Sockets, Drop(s) PROVE Tracked'
    BY <2>14 DEF Drop, readerVars, callerVars, Cancelling, Running, SilentWhenOver
  <2>15. CASE UNCHANGED vars
    BY <2>15 DEF vars, socketVars, readerVars, callerVars, Cancelling, Running, SilentWhenOver
  <2> QED
    BY <2>2, <2>3, <2>4, <2>5, <2>6, <2>8, <2>9, <2>10, <2>11, <2>12, <2>13, <2>14, <2>15
       DEF Next
<1> QED
  BY <1>1, <1>2, TypeCorrect, PTL DEF Spec, Tracked
=============================================================================
