-------------------------- MODULE DeepgramTTS_proofs --------------------------
(***************************************************************************)
(* Proofs about the streaming text-to-speech service, for any number of    *)
(* run_tts calls, WebSockets, barge-ins and server faults.                 *)
(***************************************************************************)
EXTENDS DeepgramTTS, TLAPS

\* Why the call that drains is the registered consumer.  Calls run one at a
\* time, and none once the service stops, so nobody else calls aclose; a late
\* finalizer belongs to a call that is over, and looks before it unregisters.
DrainInv ==
  /\ pc \in [Segs -> PCs]
  /\ lagging \subseteq {s \in Segs : pc[s] = "done"}
  /\ \A s, t \in Segs : Active(s) /\ t < s => pc[t] = "done"
  /\ svc # "running" => \A s \in Segs : ~Active(s)
  /\ \A s \in Segs : pc[s] \in {"speak", "flush", "drain"} => segQueue = s

\* At most one run_tts call is in flight (Pipecat serialises them).
LEMMA OneCall ==
  ASSUME DrainInv, NEW s \in Segs, NEW t \in Segs, Active(s), Active(t)
  PROVE s = t
<1>1. s < t \/ t < s \/ s = t
  BY DEF Segs
<1> QED
  BY <1>1 DEF DrainInv, Active, InFlight

\* The first half of the induction.
LEMMA DrainInvariant == Spec => []DrainInv
<1>1. Init => DrainInv
  BY DEF Init, DrainInv, PCs, Active, InFlight
<1>2. DrainInv /\ [Next]_vars => DrainInv'
  <2> SUFFICES ASSUME DrainInv, [Next]_vars PROVE DrainInv'
    OBVIOUS
  <2> USE DEF DrainInv, PCs, Active, InFlight, callVars, lockVars, connVars, ctlVars,
              netVars, serverVars, clientVars
  <2>1. ASSUME PrewarmOpened \/ PrewarmFailed PROVE DrainInv'
    BY <2>1 DEF PrewarmOpened, PrewarmFailed, Open
  <2>2. ASSUME NEW s \in Segs, RunTts(s) PROVE DrainInv'
    <3>1. \A t \in Segs : s < t => ~Active(t)
      BY <2>2 DEF RunTts
    <3> QED
      BY <2>2, <3>1 DEF RunTts, Segs
  <2>3. ASSUME NEW s \in Segs, SegStep(s) \/ Finalize(s) PROVE DrainInv'
    <3>1. \A t \in Segs : Active(s) /\ Active(t) => s = t
      BY OneCall
    <3>2. CASE AcquireSend(s)
      BY <3>1, <3>2 DEF AcquireSend, Speak
    <3>3. CASE Connected(s)
      BY <3>1, <3>3 DEF Connected, Open, Speak
    <3>4. CASE ConnectFailed(s)
      BY <3>1, <3>4 DEF ConnectFailed
    <3>5. CASE Flush(s)
      BY <3>1, <3>5 DEF Flush
    <3>6. CASE ReleaseSend(s)
      BY <3>1, <3>6 DEF ReleaseSend
    <3>7. CASE Drain(s)
      BY <3>1, <3>7 DEF Drain, Released
    <3>8. CASE DrainTimeout(s)
      BY <3>1, <3>8 DEF DrainTimeout, Released
    <3>9. CASE FailDetach(s)
      BY <3>1, <3>9 DEF FailDetach, Detach
    <3>10. CASE FailClose(s)
      BY <3>1, <3>10 DEF FailClose, Close
    <3>11. CASE Finalize(s)
      BY <3>11 DEF Finalize, Released
    <3> QED
      BY <2>3, <3>2, <3>3, <3>4, <3>5, <3>6, <3>7, <3>8, <3>9, <3>10, <3>11 DEF SegStep
  <2>4. ASSUME BargeIn \/ SendClear \/ CancelFrame PROVE DrainInv'
    BY <2>4 DEF BargeIn, SendClear, CancelFrame
  <2>5. ASSUME EndFrame PROVE DrainInv'
    BY <2>5 DEF EndFrame
  <2>6. ASSUME Abort PROVE DrainInv'
    BY <2>6 DEF Abort
  <2>7. ASSUME ShutdownStep PROVE DrainInv'
    BY <2>7 DEF ShutdownStep, ShutdownDetach, ShutdownClose, Detach, Close
  <2>8. ASSUME NEW c \in Conns, ReaderStep(c) PROVE DrainInv'
    BY <2>8 DEF ReaderStep, ReaderRead, ReaderExit
  <2>9. ASSUME NEW c \in Conns, ServerStep(c) PROVE DrainInv'
    BY <2>9 DEF ServerStep, ServerRead, ServerSend, ServerFault
  <2>10. ASSUME UNCHANGED vars PROVE DrainInv'
    BY <2>10 DEF vars
  <2> QED
    BY <2>1, <2>2, <2>3, <2>4, <2>5, <2>6, <2>7, <2>8, <2>9, <2>10 DEF Next, PrewarmStep
<1> QED
  BY <1>1, <1>2, PTL DEF Spec

\* No call that drains ever loses its registration as the reader's consumer.
THEOREM DrainIsAlwaysFed == Spec => []DrainIsFed
<1>1. DrainInv => DrainIsFed
  BY DEF DrainInv, DrainIsFed
<1> QED
  BY <1>1, DrainInvariant, PTL

-----------------------------------------------------------------------------
(* No WebSocket is orphaned. *)

HasClose(q) == \E i \in 1 .. Len(q) : q[i].kind = "close"

\* Sending more never unsays a Close.
LEMMA AppendKeepsClose ==
  ASSUME NEW q \in Seq(Requests), NEW m \in Requests
  PROVE HasClose(Append(q, m)) <=> HasClose(q) \/ m.kind = "close"
  BY DEF HasClose

\* The server reads a Close only when it is at the head.
LEMMA TailKeepsClose ==
  ASSUME NEW q \in Seq(Requests), q # <<>>, HasClose(q), Head(q).kind # "close"
  PROVE HasClose(Tail(q))
<1>1. PICK i \in 1 .. Len(q) : q[i].kind = "close"
  BY DEF HasClose
<1>2. i # 1
  BY <1>1
<1>3. i - 1 \in 1 .. Len(Tail(q)) /\ Tail(q)[i - 1] = q[i]
  BY <1>2
<1> QED
  BY <1>1, <1>3 DEF HasClose

SocketTypes ==
  /\ sock \in [Conns -> {"none", "open", "closed"}]
  /\ up \in [Conns -> Seq(Requests)]
  /\ conn \in Conns \cup {None}
  /\ target \in [Closers -> Conns \cup {None}]

\* Whoever connects holds the state lock and found no open connection, so it
\* neither replaces one nor gets in behind the aclose of a shutdown.
ConnectInv ==
  /\ \A s \in Segs : pc[s] = "connecting" => stateLock = s /\ ~SockOpen(conn)
  /\ prewarm = "connecting" => stateLock = Prewarm /\ ~SockOpen(conn)
  /\ svc \in {"closing", "stopped"} => prewarm # "connecting"
SocketInv == SocketTypes /\ ConnectInv /\ NoOrphanSocket

\* The constants that stand for tasks are told apart.
LEMMA Tasks == None \notin Segs /\ Prewarm \notin Segs /\ Prewarm # None /\ None \notin Conns
  BY BoundsAssumption DEF None, Segs, Prewarm, Conns

\* Writing a frame other than Close on a WebSocket keeps all of SocketInv
\* that depends on what was sent.
LEMMA SendingKeeps ==
  ASSUME SocketTypes, NEW c \in Conns, NEW m \in Requests, m.kind # "close",
         up' = [up EXCEPT ![c] = Append(@, m)]
  PROVE up' \in [Conns -> Seq(Requests)] /\ \A d \in Conns : CloseSent(d)' <=> CloseSent(d)
<1>1. up' \in [Conns -> Seq(Requests)]
  BY DEF SocketTypes
<1>2. ASSUME NEW d \in Conns PROVE CloseSent(d)' <=> CloseSent(d)
  <2>1. CASE d = c
    <3>1. up[c] \in Seq(Requests) /\ up'[c] = Append(up[c], m)
      BY DEF SocketTypes
    <3>2. HasClose(up'[c]) <=> HasClose(up[c])
      BY <3>1, AppendKeepsClose
    <3> QED
      BY <2>1, <3>2 DEF CloseSent, HasClose
  <2>2. CASE d # c
    <3>1. up'[d] = up[d]
      BY <2>2 DEF SocketTypes
    <3> QED
      BY <3>1 DEF CloseSent
  <2> QED
    BY <2>1, <2>2
<1> QED
  BY <1>1, <1>2

\* Detaching leaves no open WebSocket without a Close on its way.
LEMMA DetachTellsClose ==
  ASSUME SocketInv, NEW a \in Closers, Detach(a)
  PROVE /\ up' \in [Conns -> Seq(Requests)] /\ target' \in [Closers -> Conns \cup {None}]
        /\ \A d \in Conns : sock[d] = "open" => CloseSent(d)'
<1> USE DEF SocketInv, SocketTypes, Detach
<1>1. CASE SockOpen(conn)
  <2> DEFINE m == Msg("close", None)
  <2>1. conn \in Conns /\ m \in Requests /\ m.kind = "close"
    BY <1>1 DEF SockOpen, Msg, Requests
  <2>2. up' = [up EXCEPT ![conn] = Append(@, m)]
    BY <1>1
  <2>3. ASSUME NEW d \in Conns, d = conn PROVE CloseSent(d)'
    <3>1. up'[d] = Append(up[d], m) /\ up[d] \in Seq(Requests)
      BY <2>2, <2>3
    <3>2. HasClose(up'[d])
      BY <2>1, <3>1, AppendKeepsClose
    <3> QED
      BY <3>2 DEF CloseSent, HasClose
  <2>4. ASSUME NEW d \in Conns, sock[d] = "open", d # conn PROVE CloseSent(d)'
    <3>1. CloseSent(d)
      BY <2>4 DEF NoOrphanSocket
    <3>2. up'[d] = up[d]
      BY <2>2, <2>4
    <3> QED
      BY <3>1, <3>2 DEF CloseSent
  <2>5. up' \in [Conns -> Seq(Requests)]
    BY <2>1, <2>2
  <2> HIDE DEF m
  <2> QED
    BY <2>3, <2>4, <2>5, <1>1, target' = [target EXCEPT ![a] = conn]
<1>2. CASE ~SockOpen(conn)
  <2>1. \A d \in Conns : sock[d] = "open" => CloseSent(d)
    BY <1>2, Tasks DEF SockOpen, NoOrphanSocket
  <2>2. up' = up
    BY <1>2
  <2> QED
    BY <2>1, <2>2 DEF CloseSent
<1> QED
  BY <1>1, <1>2

\* The first connect that ends is the only one, and finds no open WebSocket
\* that is not about to close.
LEMMA OpenKeeps ==
  ASSUME SocketInv, NEW c \in Conns, Open(c), ~SockOpen(conn), svc \notin {"closing", "stopped"},
         svc' = svc, \A d \in Conns : CloseSent(d)' <=> CloseSent(d)
  PROVE NoOrphanSocket'
<1>1. ASSUME NEW d \in Conns, d # c, sock'[d] = "open" PROVE CloseSent(d)
  <2>1. sock[d] = "open"
    BY <1>1 DEF Open, SocketInv, SocketTypes
  <2> QED
    BY <2>1, Tasks DEF SocketInv, NoOrphanSocket, SockOpen
<1> QED
  BY <1>1 DEF Open, NoOrphanSocket

\* Every step keeps SocketInv.
LEMMA SocketStep == DrainInv /\ SocketInv /\ [Next]_vars => SocketInv'
<1> SUFFICES ASSUME DrainInv, SocketInv, [Next]_vars PROVE SocketInv'
  OBVIOUS
<1>0. SocketTypes /\ ConnectInv /\ NoOrphanSocket
  BY DEF SocketInv
<1>a. \A s \in Segs : Active(s) => svc = "running"
  BY DEF DrainInv
<1> USE DEF callVars, lockVars, connVars, ctlVars, netVars, serverVars, clientVars
<1>1. CASE PrewarmOpened
  <2>1. PICK c \in Conns : Open(c)
    BY <1>1 DEF PrewarmOpened
  <2>2. ~SockOpen(conn) /\ svc \notin {"closing", "stopped"}
    BY <1>0, <1>1 DEF PrewarmOpened, ConnectInv
  <2>3. \A d \in Conns : CloseSent(d)' <=> CloseSent(d)
    BY <1>1 DEF PrewarmOpened, CloseSent
  <2>4. NoOrphanSocket'
    BY <1>1, <2>1, <2>2, <2>3, OpenKeeps DEF PrewarmOpened
  <2>5. SocketTypes'
    BY <1>0, <1>1, <2>1 DEF PrewarmOpened, Open, SocketTypes
  <2>6. ConnectInv'
    BY <1>0, <1>1, Tasks DEF PrewarmOpened, ConnectInv
  <2> QED
    BY <2>4, <2>5, <2>6 DEF SocketInv
<1>2. CASE PrewarmFailed
  BY <1>0, <1>2, Tasks DEF PrewarmFailed, SocketInv, SocketTypes, ConnectInv, NoOrphanSocket,
     CloseSent, SockOpen
<1>3. ASSUME NEW s \in Segs, AcquireSend(s) PROVE SocketInv'
  <2>1. CASE SockOpen(conn) /\ Speak(s, conn) /\ UNCHANGED stateLock
    <3>1. conn \in Conns /\ Msg("speak", s) \in Requests /\ Msg("speak", s).kind # "close"
      BY <1>0, <2>1 DEF SockOpen, SocketTypes, Msg, Requests
    <3>2. up' \in [Conns -> Seq(Requests)] /\ \A d \in Conns : CloseSent(d)' <=> CloseSent(d)
      BY <1>0, <2>1, <3>1, SendingKeeps DEF Speak
    <3>3. \A t \in Segs : pc'[t] = "connecting" => pc[t] = "connecting"
      BY <2>1 DEF Speak, DrainInv
    <3>4. UNCHANGED <<svc, prewarm, stateLock, conn, target, sock>>
      BY <1>3, <2>1 DEF AcquireSend
    <3> QED
      BY <1>0, <3>2, <3>3, <3>4 DEF SocketInv, SocketTypes, ConnectInv, NoOrphanSocket, SockOpen
  <2>2. CASE ~SockOpen(conn) /\ stateLock = None /\ stateLock' = s
             /\ pc' = [pc EXCEPT ![s] = "connecting"] /\ UNCHANGED <<segQueue, wsOf, up>>
    <3>1. \A t \in Segs : pc[t] # "connecting"
      BY <1>0, <2>2, Tasks DEF ConnectInv
    <3>2. prewarm # "connecting"
      BY <1>0, <2>2, Tasks DEF ConnectInv
    <3>3. \A t \in Segs : pc'[t] = "connecting" => t = s
      BY <2>2, <3>1 DEF DrainInv
    <3> QED
      BY <1>0, <1>3, <2>2, <3>2, <3>3 DEF AcquireSend, SocketInv, SocketTypes, ConnectInv,
         NoOrphanSocket, SockOpen, CloseSent
  <2> QED
    BY <1>3, <2>1, <2>2 DEF AcquireSend
<1>4. ASSUME NEW s \in Segs, Connected(s) PROVE SocketInv'
  <2>1. PICK c \in Conns : Open(c) /\ Speak(s, c)
    BY <1>4 DEF Connected
  <2>2. ~SockOpen(conn) /\ stateLock = s /\ svc = "running" /\ pc[s] = "connecting"
    BY <1>0, <1>a, <1>4 DEF Connected, ConnectInv, Active, InFlight
  <2>3. Msg("speak", s) \in Requests /\ Msg("speak", s).kind # "close"
    BY DEF Msg, Requests
  <2>4. up' \in [Conns -> Seq(Requests)] /\ \A d \in Conns : CloseSent(d)' <=> CloseSent(d)
    BY <1>0, <2>1, <2>3, SendingKeeps DEF Speak
  <2>5. NoOrphanSocket'
    BY <1>4, <2>1, <2>2, <2>4, OpenKeeps DEF Connected
  <2>6. SocketTypes'
    BY <1>0, <1>4, <2>1, <2>4 DEF Connected, Open, SocketTypes
  <2>7. \A t \in Segs : pc'[t] # "connecting"
    BY <1>0, <2>1, <2>2 DEF ConnectInv, Speak, DrainInv
  <2>8. prewarm # "connecting"
    BY <1>0, <2>2, Tasks DEF ConnectInv
  <2> QED
    BY <1>4, <2>5, <2>6, <2>7, <2>8 DEF Connected, SocketInv, ConnectInv
<1>5. ASSUME NEW s \in Segs, ConnectFailed(s) PROVE SocketInv'
  <2>1. stateLock = s
    BY <1>0, <1>5 DEF ConnectFailed, ConnectInv
  <2>2. \A t \in Segs : pc'[t] # "connecting"
    BY <1>0, <1>5, <2>1 DEF ConnectFailed, ConnectInv, DrainInv
  <2>3. prewarm # "connecting"
    BY <1>0, <2>1, Tasks DEF ConnectInv
  <2> QED
    BY <1>0, <1>5, <2>2, <2>3 DEF ConnectFailed, SocketInv, SocketTypes, ConnectInv,
       NoOrphanSocket, CloseSent
<1>6. ASSUME NEW s \in Segs, Flush(s) PROVE SocketInv'
  <2>1. \A t \in Segs : pc'[t] = "connecting" => pc[t] = "connecting"
    BY <1>6 DEF Flush, DrainInv
  <2>2. up' \in [Conns -> Seq(Requests)] /\ \A d \in Conns : CloseSent(d)' <=> CloseSent(d)
    <3>1. CASE SockOpen(conn)
      <4>1. conn \in Conns /\ Msg("flush", s) \in Requests /\ Msg("flush", s).kind # "close"
        BY <1>0, <3>1 DEF SockOpen, SocketTypes, Msg, Requests
      <4> QED
        BY <1>0, <1>6, <3>1, <4>1, SendingKeeps DEF Flush
    <3>2. CASE ~SockOpen(conn)
      BY <1>0, <1>6, <3>2 DEF Flush, SocketTypes, CloseSent
    <3> QED
      BY <3>1, <3>2
  <2> QED
    BY <1>0, <1>6, <2>1, <2>2 DEF Flush, SocketInv, SocketTypes, ConnectInv, NoOrphanSocket,
       SockOpen
<1>7. ASSUME NEW s \in Segs, RunTts(s) \/ ReleaseSend(s) \/ Drain(s) \/ DrainTimeout(s) \/ Finalize(s)
      PROVE SocketInv'
  <2>1. \A t \in Segs : pc'[t] = "connecting" => pc[t] = "connecting"
    BY <1>7 DEF RunTts, ReleaseSend, Drain, DrainTimeout, Finalize, DrainInv
  <2>2. UNCHANGED <<svc, prewarm, stateLock, conn, target, sock, up>>
    BY <1>7 DEF RunTts, ReleaseSend, Drain, DrainTimeout, Finalize
  <2> QED
    BY <1>0, <2>1, <2>2 DEF SocketInv, SocketTypes, ConnectInv, NoOrphanSocket, SockOpen,
       CloseSent
<1>8. ASSUME NEW a \in Closers, Detach(a), UNCHANGED <<sock, prewarm, stateLock>>,
             \A t \in Segs : pc'[t] = "connecting" => pc[t] = "connecting"
      PROVE SocketInv'
  <2>1. /\ up' \in [Conns -> Seq(Requests)] /\ target' \in [Closers -> Conns \cup {None}]
        /\ \A d \in Conns : sock[d] = "open" => CloseSent(d)'
    BY <1>8, DetachTellsClose
  <2>2. prewarm # "connecting" /\ \A t \in Segs : pc[t] # "connecting"
    BY <1>0, <1>8, Tasks DEF Detach, ConnectInv
  <2> QED
    BY <1>0, <1>8, <2>1, <2>2 DEF Detach, SocketInv, SocketTypes, ConnectInv, NoOrphanSocket
<1>9. ASSUME NEW s \in Segs, FailDetach(s) PROVE SocketInv'
  <2>1. \A t \in Segs : pc'[t] = "connecting" => pc[t] = "connecting"
    BY <1>9 DEF FailDetach, DrainInv
  <2> QED
    BY <1>8, <1>9, <2>1 DEF FailDetach, Closers
<1>10. CASE ShutdownDetach
  BY <1>8, <1>10 DEF ShutdownDetach, Closers
<1>11. ASSUME NEW a \in Closers, Close(a), UNCHANGED <<conn, target, up, prewarm, stateLock>>,
              svc' \in {svc, "stopped"}, svc' # svc => svc = "closing",
              \A t \in Segs : pc'[t] = "connecting" => pc[t] = "connecting"
       PROVE SocketInv'
  <2>1. sock' \in [Conns -> {"none", "open", "closed"}]
    BY <1>0, <1>11 DEF Close, SocketTypes
  <2>2. \A d \in Conns : sock'[d] = "open" => sock[d] = "open"
    BY <1>0, <1>11 DEF Close, SocketTypes
  <2>3. SockOpen(conn)' => SockOpen(conn)
    BY <1>0, <1>11, <2>2 DEF SockOpen, SocketTypes
  <2> QED
    BY <1>0, <1>11, <2>1, <2>2, <2>3 DEF SocketInv, SocketTypes, ConnectInv, NoOrphanSocket,
       CloseSent
<1>12. ASSUME NEW s \in Segs, FailClose(s) PROVE SocketInv'
  <2>1. \A t \in Segs : pc'[t] = "connecting" => pc[t] = "connecting"
    BY <1>12 DEF FailClose, DrainInv
  <2> QED
    BY <1>11, <1>12, <2>1 DEF FailClose, Closers
<1>13. CASE ShutdownClose
  BY <1>11, <1>13 DEF ShutdownClose, Closers
<1>14. CASE BargeIn \/ CancelFrame
  BY <1>0, <1>14 DEF BargeIn, CancelFrame, SocketInv, SocketTypes, ConnectInv, NoOrphanSocket,
     SockOpen, CloseSent
<1>15. CASE EndFrame
  BY <1>0, <1>15 DEF EndFrame, SocketInv, SocketTypes, ConnectInv, NoOrphanSocket, SockOpen,
     CloseSent
<1>16. CASE SendClear
  <2>1. up' \in [Conns -> Seq(Requests)] /\ \A d \in Conns : CloseSent(d)' <=> CloseSent(d)
    <3>1. CASE SockOpen(conn)
      <4>1. conn \in Conns /\ Msg("clear", None) \in Requests /\ Msg("clear", None).kind # "close"
        BY <1>0, <3>1 DEF SockOpen, SocketTypes, Msg, Requests
      <4> QED
        BY <1>0, <1>16, <3>1, <4>1, SendingKeeps DEF SendClear
    <3>2. CASE ~SockOpen(conn)
      BY <1>0, <1>16, <3>2 DEF SendClear, SocketTypes, CloseSent
    <3> QED
      BY <3>1, <3>2
  <2>2. UNCHANGED <<svc, prewarm, pc, stateLock, conn, target, sock>>
    BY <1>16 DEF SendClear
  <2> QED
    BY <1>0, <2>1, <2>2 DEF SocketInv, SocketTypes, ConnectInv, NoOrphanSocket, SockOpen
<1>17. CASE Abort
  <2> DEFINE Live == {s \in Segs : Active(s)}
  <2>1. \A t \in Segs : pc'[t] # "connecting"
    BY <1>17 DEF Abort, DrainInv, Active, InFlight
  <2>2. prewarm = "connecting" => stateLock' = stateLock
    BY <1>0, <1>17, Tasks DEF Abort, ConnectInv
  <2>3. svc' = "acquiring" \/ svc' = svc
    BY <1>17 DEF Abort
  <2>4. UNCHANGED <<prewarm, conn, target, sock, up>>
    BY <1>17 DEF Abort
  <2> QED
    BY <1>0, <2>1, <2>2, <2>3, <2>4 DEF SocketInv, SocketTypes, ConnectInv, NoOrphanSocket,
       SockOpen, CloseSent
<1>18. ASSUME NEW c \in Conns, ReaderStep(c) PROVE SocketInv'
  BY <1>0, <1>18 DEF ReaderStep, ReaderRead, ReaderExit, SocketInv, SocketTypes, ConnectInv,
     NoOrphanSocket, SockOpen, CloseSent
<1>19. ASSUME NEW c \in Conns, ServerStep(c) PROVE SocketInv'
  <2>1. UNCHANGED <<svc, prewarm, pc, stateLock, conn, target>>
    BY <1>19 DEF ServerStep, ServerRead, ServerSend, ServerFault
  <2>2. sock' \in [Conns -> {"none", "open", "closed"}]
        /\ \A d \in Conns : sock'[d] = "open" => sock[d] = "open"
    BY <1>0, <1>19 DEF ServerStep, ServerRead, ServerSend, ServerFault, SocketTypes
  <2>3. up' \in [Conns -> Seq(Requests)]
    <3>1. CASE ServerRead(c)
      <4>1. up[c] \in Seq(Requests) /\ up[c] # <<>>
        BY <1>0, <3>1 DEF ServerRead, SocketTypes
      <4>2. Tail(up[c]) \in Seq(Requests)
        BY <4>1
      <4> QED
        BY <1>0, <3>1, <4>2 DEF ServerRead, SocketTypes
    <3>2. CASE ServerSend(c) \/ ServerFault(c)
      BY <1>0, <3>2 DEF ServerSend, ServerFault, SocketTypes
    <3> QED
      BY <1>19, <3>1, <3>2 DEF ServerStep
  <2>4. ASSUME NEW d \in Conns, sock'[d] = "open", CloseSent(d) PROVE CloseSent(d)'
    <3>1. CASE up'[d] = up[d]
      BY <2>4, <3>1 DEF CloseSent
    <3>2. CASE up'[d] # up[d]
      <4>1. d = c /\ ServerRead(c) /\ up'[d] = Tail(up[d]) /\ up[d] # <<>> /\ up[d] \in Seq(Requests)
        BY <1>0, <1>19, <3>2 DEF ServerStep, ServerRead, ServerSend, ServerFault, SocketTypes
      <4>2. Head(up[d]).kind # "close"
        BY <1>0, <2>4, <4>1 DEF ServerRead, SocketTypes
      <4> QED
        BY <2>4, <4>1, <4>2, TailKeepsClose DEF CloseSent, HasClose
    <3> QED
      BY <3>1, <3>2
  <2>5. SockOpen(conn)' => SockOpen(conn)
    BY <1>0, <2>1, <2>2 DEF SockOpen, SocketTypes
  <2> QED
    BY <1>0, <2>1, <2>2, <2>3, <2>4, <2>5 DEF SocketInv, SocketTypes, ConnectInv, NoOrphanSocket
<1>20. CASE UNCHANGED vars
  BY <1>0, <1>20 DEF vars, SocketInv, SocketTypes, ConnectInv, NoOrphanSocket, SockOpen,
     CloseSent
<1> QED
  BY <1>1, <1>2, <1>3, <1>4, <1>5, <1>6, <1>7, <1>9, <1>10, <1>12, <1>13, <1>14, <1>15, <1>16,
     <1>17, <1>18, <1>19, <1>20
  DEF Next, PrewarmStep, ShutdownStep, SegStep

\* There is never a second live WebSocket, nor one that outlives stop() or
\* cancel(), whatever the prewarm task, a barge-in or a cancellation does.
THEOREM NoSocketIsOrphaned == Spec => []NoOrphanSocket
<1>1. Init => SocketInv
  BY Tasks DEF Init, SocketInv, SocketTypes, ConnectInv, NoOrphanSocket, SockOpen, None, CloseSent
<1>2. SocketInv => NoOrphanSocket
  BY DEF SocketInv
<1> QED
  BY <1>1, <1>2, SocketStep, DrainInvariant, PTL DEF Spec

-----------------------------------------------------------------------------
(* Whose frames a call consumes. *)

EndMark(m, t) == m.kind \in {"flush", "flushed"} /\ m.seg = t
Has(q, t) == \E i \in 1 .. Len(q) : q[i].seg = t
Ends(q, t) == \E i \in 1 .. Len(q) : EndMark(q[i], t)
EndIsLast(q, t) == \A i, j \in 1 .. Len(q) : i < j /\ EndMark(q[i], t) => q[j].seg # t

\* r holds nothing of segment t that q does not hold.
NoMore(q, r, t) ==
  /\ Has(r, t) => Has(q, t)
  /\ Ends(r, t) => Ends(q, t)
  /\ EndIsLast(q, t) => EndIsLast(r, t)

\* What an item appended at the end adds.
LEMMA AppendItem ==
  ASSUME NEW S, NEW q \in Seq(S), NEW m \in S, NEW t
  PROVE LET r == Append(q, m) IN
        /\ Has(r, t) <=> Has(q, t) \/ m.seg = t
        /\ Ends(r, t) <=> Ends(q, t) \/ EndMark(m, t)
        /\ EndIsLast(r, t) <=> EndIsLast(q, t) /\ (Ends(q, t) => m.seg # t)
<1> DEFINE r == Append(q, m)
<1>1. /\ Len(r) = Len(q) + 1 /\ r[Len(r)] = m /\ Len(q) \in Nat
      /\ \A i \in 1 .. Len(q) : r[i] = q[i] /\ i \in 1 .. Len(r)
      /\ \A i \in 1 .. Len(r) : i \in 1 .. Len(q) \/ i = Len(r)
  OBVIOUS
<1> HIDE DEF r
<1>2. Has(r, t) <=> Has(q, t) \/ m.seg = t
  BY <1>1 DEF Has
<1>3. Ends(r, t) <=> Ends(q, t) \/ EndMark(m, t)
  BY <1>1 DEF Ends
<1>4. EndIsLast(r, t) => EndIsLast(q, t) /\ (Ends(q, t) => m.seg # t)
  BY <1>1 DEF EndIsLast, Ends
<1>5. EndIsLast(q, t) /\ (Ends(q, t) => m.seg # t) => EndIsLast(r, t)
  BY <1>1 DEF EndIsLast, Ends
<1> QED
  BY <1>2, <1>3, <1>4, <1>5 DEF r

\* What the head of a sequence adds to its tail.
LEMMA HeadItem ==
  ASSUME NEW S, NEW q \in Seq(S), q # <<>>, NEW t
  PROVE /\ Has(q, t) <=> Has(Tail(q), t) \/ Head(q).seg = t
        /\ Ends(q, t) <=> Ends(Tail(q), t) \/ EndMark(Head(q), t)
        /\ EndIsLast(q, t) => EndIsLast(Tail(q), t)
        /\ EndIsLast(q, t) /\ EndMark(Head(q), t) => ~Has(Tail(q), t)
<1> DEFINE r == Tail(q)
<1>1. /\ Len(q) \in Nat \ {0} /\ Len(r) = Len(q) - 1 /\ q[1] = Head(q)
      /\ \A i \in 1 .. Len(r) : r[i] = q[i + 1] /\ i + 1 \in 1 .. Len(q)
      /\ \A i \in 1 .. Len(q) : i = 1 \/ (i - 1 \in 1 .. Len(r) /\ q[i] = r[i - 1])
  OBVIOUS
<1> HIDE DEF r
<1>2. Has(q, t) <=> Has(r, t) \/ Head(q).seg = t
  <2>1. Has(q, t) => Has(r, t) \/ Head(q).seg = t
    BY <1>1 DEF Has
  <2>2. Has(r, t) \/ Head(q).seg = t => Has(q, t)
    BY <1>1 DEF Has
  <2> QED
    BY <2>1, <2>2
<1>3. Ends(q, t) <=> Ends(r, t) \/ EndMark(Head(q), t)
  <2>1. Ends(q, t) => Ends(r, t) \/ EndMark(Head(q), t)
    BY <1>1 DEF Ends
  <2>2. Ends(r, t) \/ EndMark(Head(q), t) => Ends(q, t)
    BY <1>1 DEF Ends
  <2> QED
    BY <2>1, <2>2
<1>4. EndIsLast(q, t) => EndIsLast(r, t)
  <2> SUFFICES ASSUME EndIsLast(q, t), NEW i \in 1 .. Len(r), NEW j \in 1 .. Len(r), i < j,
                      EndMark(r[i], t)
               PROVE r[j].seg # t
    BY DEF EndIsLast
  <2>1. i + 1 < j + 1 /\ i + 1 \in 1 .. Len(q) /\ j + 1 \in 1 .. Len(q)
    BY <1>1
  <2> QED
    BY <1>1, <2>1 DEF EndIsLast
<1>5. EndIsLast(q, t) /\ EndMark(Head(q), t) => ~Has(r, t)
  <2> SUFFICES ASSUME EndIsLast(q, t), EndMark(Head(q), t), NEW i \in 1 .. Len(r)
               PROVE r[i].seg # t
    BY DEF Has
  <2>1. 1 < i + 1 /\ 1 \in 1 .. Len(q) /\ i + 1 \in 1 .. Len(q)
    BY <1>1
  <2> QED
    BY <1>1, <2>1 DEF EndIsLast
<1> QED
  BY <1>2, <1>3, <1>4, <1>5 DEF r

\* What a sequence appended at the end adds.
LEMMA ConcatItems ==
  ASSUME NEW S, NEW q \in Seq(S), NEW p \in Seq(S), NEW t
  PROVE /\ Has(q \o p, t) <=> Has(q, t) \/ Has(p, t)
        /\ Ends(q \o p, t) <=> Ends(q, t) \/ Ends(p, t)
        /\ EndIsLast(q, t) /\ EndIsLast(p, t) /\ (Ends(q, t) => ~Has(p, t)) => EndIsLast(q \o p, t)
<1> DEFINE r == q \o p
<1>1. /\ Len(q) \in Nat /\ Len(p) \in Nat /\ Len(r) = Len(q) + Len(p)
      /\ \A i \in 1 .. Len(q) : r[i] = q[i] /\ i \in 1 .. Len(r)
      /\ \A i \in 1 .. Len(p) : r[i + Len(q)] = p[i] /\ i + Len(q) \in 1 .. Len(r)
      /\ \A i \in 1 .. Len(r) : i \in 1 .. Len(q) \/ (i - Len(q) \in 1 .. Len(p) /\ r[i] = p[i - Len(q)])
  OBVIOUS
<1> HIDE DEF r
<1>2. Has(r, t) <=> Has(q, t) \/ Has(p, t)
  <2>1. Has(r, t) => Has(q, t) \/ Has(p, t)
    BY <1>1 DEF Has
  <2>2. Has(q, t) => Has(r, t)
    BY <1>1 DEF Has
  <2>3. Has(p, t) => Has(r, t)
    BY <1>1 DEF Has
  <2> QED
    BY <2>1, <2>2, <2>3
<1>3. Ends(r, t) <=> Ends(q, t) \/ Ends(p, t)
  <2>1. Ends(r, t) => Ends(q, t) \/ Ends(p, t)
    BY <1>1 DEF Ends
  <2>2. Ends(q, t) => Ends(r, t)
    BY <1>1 DEF Ends
  <2>3. Ends(p, t) => Ends(r, t)
    BY <1>1 DEF Ends
  <2> QED
    BY <2>1, <2>2, <2>3
<1>4. ASSUME EndIsLast(q, t), EndIsLast(p, t), Ends(q, t) => ~Has(p, t) PROVE EndIsLast(r, t)
  <2> SUFFICES ASSUME NEW i \in 1 .. Len(r), NEW j \in 1 .. Len(r), i < j, EndMark(r[i], t)
               PROVE r[j].seg # t
    BY DEF EndIsLast
  <2>1. CASE j \in 1 .. Len(q)
    <3>1. i \in 1 .. Len(q)
      BY <1>1, <2>1
    <3> QED
      BY <1>1, <1>4, <2>1, <3>1 DEF EndIsLast
  <2>2. CASE i \in 1 .. Len(q) /\ j \notin 1 .. Len(q)
    BY <1>1, <1>4, <2>2 DEF Ends, Has
  <2>3. CASE i \notin 1 .. Len(q)
    <3>1. i - Len(q) \in 1 .. Len(p) /\ j - Len(q) \in 1 .. Len(p) /\ i - Len(q) < j - Len(q)
      BY <1>1, <2>3
    <3>2. r[i] = p[i - Len(q)] /\ r[j] = p[j - Len(q)]
      BY <1>1, <2>3, <3>1
    <3> QED
      BY <1>4, <3>1, <3>2 DEF EndIsLast
  <2> QED
    BY <1>1, <2>1, <2>2, <2>3
<1> QED
  BY <1>2, <1>3, <1>4 DEF r

LEMMA NothingInEmpty == \A t : ~Has(<<>>, t) /\ ~Ends(<<>>, t) /\ EndIsLast(<<>>, t)
  BY DEF Has, Ends, EndIsLast
LEMMA EndsIsThere == \A q, t : Ends(q, t) => Has(q, t)
  BY DEF Has, Ends, EndMark


\* The shape of the messages, more closely than TypeOK says it: everything
\* that tells of a segment names one, and nothing else does.
Audio == [kind : {"audio"}, seg : Segs]
Frames == [kind : {"audio", "flushed"}, seg : Segs]
Notices == [kind : {"error", "closed"}, seg : {None}]
Orders == [kind : {"speak", "flush"}, seg : Segs] \cup [kind : {"clear", "close"}, seg : {None}]
WireTypes ==
  /\ queue \in [Segs -> Seq(Frames \cup Notices)]
  /\ up \in [Conns -> Seq(Orders)] /\ down \in [Conns -> Seq(Frames \cup Notices)]
  /\ text \in [Conns -> Seq(Audio)] /\ pending \in [Conns -> Seq(Frames)]
  /\ got \in [Segs -> SUBSET Segs]
TaskTypes ==
  /\ svc \in {"running", "acquiring", "closing", "stopped"}
  /\ prewarm \in {"connecting", "done"}
  /\ pc \in [Segs -> PCs]
  /\ outcome \in [Segs -> {"none", "stopped", "error", "cancelled"}]
  /\ wsOf \in [Segs -> Conns \cup {None}]
  /\ lagging \in SUBSET Segs
  /\ sendLock \in Lockers \cup {None} /\ stateLock \in Lockers \cup {None}
  /\ conn \in Conns \cup {None} /\ segQueue \in Segs \cup {None}
  /\ target \in [Closers -> Conns \cup {None}]
  /\ reader \in [Conns -> {"none", "running", "exited"}]
  /\ clears \in Nat /\ bargeIns \in 0 .. NBargeIns /\ faults \in 0 .. NFaults
  /\ abort \in {"none", "interrupt", "cancel"}
  /\ sock \in [Conns -> {"none", "open", "closed"}]

\* A step of a task keeps the shape of everything but the messages.
LEMMA TaskTypesKept == TaskTypes /\ [Next]_vars => TaskTypes'
<1> SUFFICES ASSUME TaskTypes, [Next]_vars PROVE TaskTypes'
  OBVIOUS
<1> USE DEF callVars, lockVars, connVars, ctlVars, netVars, serverVars, clientVars, TaskTypes,
            Lockers, Closers
<1>1. CASE PrewarmStep
  BY <1>1 DEF PrewarmStep, PrewarmOpened, PrewarmFailed, Open
<1>2. CASE ShutdownStep
  BY <1>2 DEF ShutdownStep, ShutdownDetach, ShutdownClose, Detach, Close
<1>3. CASE BargeIn \/ SendClear \/ CancelFrame \/ EndFrame
  BY <1>3, BoundsAssumption DEF BargeIn, SendClear, CancelFrame, EndFrame
<1>4. CASE Abort
  BY <1>4 DEF Abort, PCs
<1>5. ASSUME NEW s \in Segs, RunTts(s) \/ Finalize(s) PROVE TaskTypes'
  BY <1>5 DEF RunTts, Finalize, Released, PCs, InFlight
<1>6. ASSUME NEW s \in Segs, SegStep(s) PROVE TaskTypes'
  <2>1. CASE AcquireSend(s)
    <3>1. SockOpen(conn) => conn \in Conns
      BY DEF SockOpen
    <3> QED
      BY <2>1, <3>1 DEF AcquireSend, Speak, PCs, InFlight
  <2>2. CASE Connected(s)
    BY <2>2 DEF Connected, Open, Speak, PCs, InFlight
  <2>3. CASE ConnectFailed(s) \/ ReleaseSend(s) \/ Flush(s)
    BY <2>3 DEF ConnectFailed, ReleaseSend, Flush, PCs, InFlight
  <2>4. CASE Drain(s) \/ DrainTimeout(s)
    BY <2>4 DEF Drain, DrainTimeout, Released, PCs, InFlight
  <2>5. CASE FailDetach(s) \/ FailClose(s)
    BY <2>5 DEF FailDetach, FailClose, Detach, Close, PCs, InFlight
  <2> QED
    BY <1>6, <2>1, <2>2, <2>3, <2>4, <2>5 DEF SegStep
<1>7. ASSUME NEW c \in Conns, ReaderStep(c) \/ ServerStep(c) PROVE TaskTypes'
  <2>1. CASE ReaderStep(c)
    BY <2>1 DEF ReaderStep, ReaderRead, ReaderExit
  <2>2. CASE ServerRead(c)
    BY <2>2 DEF ServerRead
  <2>3. CASE ServerSend(c)
    BY <2>3 DEF ServerSend
  <2>4. CASE ServerFault(c)
    <3>1. faults' \in 0 .. NFaults
      BY <2>4, BoundsAssumption DEF ServerFault
    <3>2. sock' \in [Conns -> {"none", "open", "closed"}]
      BY <2>4 DEF ServerFault
    <3> QED
      BY <2>4, <3>1, <3>2 DEF ServerFault
  <2> QED
    BY <1>7, <2>1, <2>2, <2>3, <2>4 DEF ServerStep
<1>8. CASE UNCHANGED vars
  BY <1>8 DEF vars
<1> QED
  BY <1>1, <1>2, <1>3, <1>4, <1>5, <1>6, <1>7, <1>8 DEF Next

\* One message more in one of many channels.
LEMMA AppendAt ==
  ASSUME NEW S, NEW D, NEW f \in [D -> Seq(S)], NEW d \in D, NEW m \in S
  PROVE [f EXCEPT ![d] = Append(@, m)] \in [D -> Seq(S)]
<1>1. Append(f[d], m) \in Seq(S)
  OBVIOUS
<1> QED
  BY <1>1

\* A step keeps the shape of the messages that are sent, under way or read.
LEMMA WireTypesKept == TaskTypes /\ WireTypes /\ [Next]_vars => WireTypes'
<1> SUFFICES ASSUME TaskTypes, WireTypes, [Next]_vars PROVE WireTypes'
  OBVIOUS
<1> USE DEF callVars, lockVars, connVars, ctlVars, netVars, serverVars, clientVars, WireTypes
<1>1. /\ Closed \in Frames \cup Notices /\ Msg("error", None) \in Frames \cup Notices
      /\ Msg("clear", None) \in Orders /\ Msg("close", None) \in Orders
      /\ \A s \in Segs : /\ Msg("speak", s) \in Orders /\ Msg("flush", s) \in Orders
                         /\ Msg("audio", s) \in Audio /\ Msg("flushed", s) \in Frames
  BY DEF Closed, Msg, Frames, Notices, Orders, Audio
<1>2. ASSUME NEW a \in Closers, Detach(a) PROVE up' \in [Conns -> Seq(Orders)]
  BY <1>1, <1>2 DEF Detach, SockOpen, TaskTypes
<1>3. ASSUME NEW a \in Closers, Close(a) PROVE queue' \in [Segs -> Seq(Frames \cup Notices)]
  BY <1>1, <1>3 DEF Close, TaskTypes
<1>4. CASE PrewarmStep
  BY <1>4 DEF PrewarmStep, PrewarmOpened, PrewarmFailed
<1>5. CASE ShutdownStep
  BY <1>2, <1>3, <1>5 DEF ShutdownStep, ShutdownDetach, ShutdownClose, Closers
<1>6. CASE BargeIn \/ CancelFrame \/ EndFrame \/ Abort
  BY <1>6 DEF BargeIn, CancelFrame, EndFrame, Abort
<1>7. CASE SendClear
  BY <1>1, <1>7 DEF SendClear, SockOpen, TaskTypes
<1>8. ASSUME NEW s \in Segs, RunTts(s) \/ Finalize(s) PROVE WireTypes'
  BY <1>8 DEF RunTts, Finalize
<1>9. ASSUME NEW s \in Segs, SegStep(s) PROVE WireTypes'
  <2>1. ASSUME NEW c \in Conns, Speak(s, c) PROVE up' \in [Conns -> Seq(Orders)]
    BY <1>1, <2>1 DEF Speak
  <2>2. SockOpen(conn) => conn \in Conns
    BY DEF SockOpen, TaskTypes
  <2>3. CASE AcquireSend(s)
    BY <2>1, <2>2, <2>3 DEF AcquireSend
  <2>4. CASE Connected(s)
    BY <2>1, <2>4 DEF Connected
  <2>5. CASE ConnectFailed(s) \/ ReleaseSend(s) \/ DrainTimeout(s)
    BY <2>5 DEF ConnectFailed, ReleaseSend, DrainTimeout
  <2>6. CASE Flush(s)
    <3>1. up' \in [Conns -> Seq(Orders)]
      <4>1. CASE SockOpen(conn) /\ up' = [up EXCEPT ![conn] = Append(@, Msg("flush", s))]
        BY <1>1, <2>2, <4>1
      <4>2. CASE UNCHANGED up
        BY <4>2
      <4> QED
        BY <2>6, <4>1, <4>2 DEF Flush
    <3> QED
      BY <2>6, <3>1 DEF Flush
  <2>7. CASE Drain(s)
    <3>1. /\ Head(queue[s]) \in Frames \cup Notices
          /\ Tail(queue[s]) \in Seq(Frames \cup Notices)
      BY <2>7 DEF Drain
    <3>2. queue' \in [Segs -> Seq(Frames \cup Notices)]
      BY <2>7, <3>1 DEF Drain
    <3>3. Head(queue[s]).kind \in {"audio", "flushed"} => Head(queue[s]).seg \in Segs
      BY <3>1 DEF Frames, Notices
    <3>4. got' \in [Segs -> SUBSET Segs]
      <4> DEFINE x == Head(queue[s]).seg
      <4>1. got' = got \/ (x \in Segs /\ got' = [got EXCEPT ![s] = @ \cup {x}])
        BY <2>7, <3>3 DEF Drain
      <4> HIDE DEF x
      <4> QED
        BY <4>1
    <3> QED
      BY <2>7, <3>2, <3>4 DEF Drain
  <2>8. CASE FailDetach(s)
    BY <1>2, <2>8 DEF FailDetach, Closers
  <2>9. CASE FailClose(s)
    BY <1>3, <2>9 DEF FailClose, Closers
  <2> QED
    BY <1>9, <2>3, <2>4, <2>5, <2>6, <2>7, <2>8, <2>9 DEF SegStep
<1>10. ASSUME NEW c \in Conns, ReaderStep(c) PROVE WireTypes'
  <2>1. CASE ReaderRead(c)
    <3>1. /\ Head(down[c]) \in Frames \cup Notices
          /\ Tail(down[c]) \in Seq(Frames \cup Notices)
      BY <2>1 DEF ReaderRead
    <3> QED
      BY <2>1, <3>1 DEF ReaderRead, TaskTypes
  <2>2. CASE ReaderExit(c)
    BY <1>1, <2>2 DEF ReaderExit, TaskTypes
  <2> QED
    BY <1>10, <2>1, <2>2 DEF ReaderStep
<1>11. ASSUME NEW c \in Conns, ServerStep(c) PROVE WireTypes'
  <2>1. CASE ServerRead(c)
    <3>1. Head(up[c]) \in Orders /\ Tail(up[c]) \in Seq(Orders)
      BY <2>1 DEF ServerRead
    <3>2. Head(up[c]).kind \in {"speak", "flush"} => Head(up[c]).seg \in Segs
      BY <3>1 DEF Orders
    <3>3. Seq(Audio) \subseteq Seq(Frames)
      <4>1. Audio \subseteq Frames
        BY DEF Audio, Frames
      <4> QED
        BY <4>1
    <3>4. ASSUME NEW s \in Segs
          PROVE pending[c] \o text[c] \o <<Msg("flushed", s)>> \in Seq(Frames)
      <4>1. pending[c] \in Seq(Frames) /\ text[c] \in Seq(Frames)
        BY <3>3
      <4>2. <<Msg("flushed", s)>> \in Seq(Frames)
        BY <1>1
      <4> QED
        BY <4>1, <4>2
    <3>5. up' \in [Conns -> Seq(Orders)]
      BY <2>1, <3>1 DEF ServerRead
    <3>6. text' \in [Conns -> Seq(Audio)]
      <4> DEFINE s == Head(up[c]).seg
      <4>1. \/ s \in Segs /\ text' = [text EXCEPT ![c] = Append(@, Msg("audio", s))]
            \/ text' = [text EXCEPT ![c] = <<>>]
            \/ text' = text
        BY <2>1, <3>2 DEF ServerRead
      <4> HIDE DEF s
      <4>2. [text EXCEPT ![c] = <<>>] \in [Conns -> Seq(Audio)]
        OBVIOUS
      <4>3. ASSUME NEW m \in Audio
            PROVE [text EXCEPT ![c] = Append(@, m)] \in [Conns -> Seq(Audio)]
        BY AppendAt
      <4>4. s \in Segs => [text EXCEPT ![c] = Append(@, Msg("audio", s))] \in [Conns -> Seq(Audio)]
        BY <1>1, <4>3
      <4> QED
        BY <4>1, <4>2, <4>4
    <3>7. pending' \in [Conns -> Seq(Frames)]
      <4> DEFINE s == Head(up[c]).seg
      <4>1. \/ s \in Segs /\ pending' = [pending EXCEPT ![c] = @ \o text[c] \o <<Msg("flushed", s)>>]
            \/ pending' = [pending EXCEPT ![c] = <<>>]
            \/ pending' = pending
        BY <2>1, <3>2 DEF ServerRead
      <4> HIDE DEF s
      <4>2. [pending EXCEPT ![c] = <<>>] \in [Conns -> Seq(Frames)]
        OBVIOUS
      <4>3. ASSUME NEW q \in Seq(Frames) PROVE [pending EXCEPT ![c] = q] \in [Conns -> Seq(Frames)]
        OBVIOUS
      <4> QED
        BY <3>4, <4>1, <4>2, <4>3
    <3> QED
      BY <2>1, <3>5, <3>6, <3>7 DEF ServerRead
  <2>2. CASE ServerSend(c)
    <3>1. Head(pending[c]) \in Frames /\ Tail(pending[c]) \in Seq(Frames)
      BY <2>2 DEF ServerSend
    <3> QED
      BY <2>2, <3>1 DEF ServerSend
  <2>3. CASE ServerFault(c)
    <3>1. down' \in [Conns -> Seq(Frames \cup Notices)]
      <4>1. \/ down' = [down EXCEPT ![c] = Append(@, Msg("error", None))]
            \/ down' = down
        BY <2>3 DEF ServerFault
      <4> DEFINE m == Msg("error", None)
      <4>2. m \in Frames \cup Notices /\ down \in [Conns -> Seq(Frames \cup Notices)]
        BY <1>1
      <4> HIDE DEF m
      <4>3. [down EXCEPT ![c] = Append(@, m)] \in [Conns -> Seq(Frames \cup Notices)]
        BY <4>2, AppendAt
      <4> QED
        BY <4>1, <4>3 DEF m
    <3> QED
      BY <2>3, <3>1 DEF ServerFault
  <2> QED
    BY <1>11, <2>1, <2>2, <2>3 DEF ServerStep
<1>12. CASE UNCHANGED vars
  BY <1>12 DEF vars
<1> QED
  BY <1>4, <1>5, <1>6, <1>7, <1>8, <1>9, <1>10, <1>11, <1>12 DEF Next

\* The state keeps its shape, whatever the server answers or drops.
THEOREM TypeCorrect == Spec => []TypeOK
<1>1. Init => TaskTypes
  BY BoundsAssumption DEF Init, TaskTypes, Lockers, PCs, None
<1>2. Init => WireTypes
  BY DEF Init, WireTypes
<1>3. TaskTypes /\ WireTypes => TypeOK
  <2> SUFFICES ASSUME TaskTypes, WireTypes PROVE TypeOK
    OBVIOUS
  <2>1. /\ Frames \cup Notices \subseteq Items /\ Frames \subseteq Items /\ Audio \subseteq Items
        /\ Orders \subseteq Requests
    BY DEF Frames, Notices, Audio, Orders, Items, Requests
  <2>2. /\ Seq(Frames \cup Notices) \subseteq Seq(Items) /\ Seq(Frames) \subseteq Seq(Items)
        /\ Seq(Audio) \subseteq Seq(Items) /\ Seq(Orders) \subseteq Seq(Requests)
    BY <2>1
  <2>3. /\ queue \in [Segs -> Seq(Items)] /\ down \in [Conns -> Seq(Items)]
        /\ text \in [Conns -> Seq(Items)] /\ pending \in [Conns -> Seq(Items)]
        /\ up \in [Conns -> Seq(Requests)]
    BY <2>2 DEF WireTypes
  <2>4. got \in [Segs -> SUBSET (Segs \cup {None})]
    BY DEF WireTypes
  <2> QED
    BY <2>3, <2>4 DEF TaskTypes, TypeOK
<1> QED
  BY <1>1, <1>2, <1>3, TaskTypesKept, WireTypesKept, PTL DEF Spec

\* Calls come one after the other, a cancelled one is over, prewarm's connect
\* keeps them all waiting, and nothing was written on a socket not yet open.
SerialInv ==
  /\ \A s, t \in Segs : s < t /\ pc[t] # "new" => pc[s] = "done"
  /\ \A s \in Segs : outcome[s] = "cancelled" => pc[s] = "done"
  /\ prewarm = "connecting" =>
       sendLock = Prewarm /\ \A s \in Segs : pc[s] \in {"new", "lock", "done"}
  /\ \A c \in Conns : sock[c] = "none" =>
       up[c] = <<>> /\ text[c] = <<>> /\ pending[c] = <<>> /\ down[c] = <<>>

LEMMA SerialKept ==
  TaskTypes /\ WireTypes /\ SerialInv /\ [Next]_vars => SerialInv'
<1> SUFFICES ASSUME TaskTypes, WireTypes, SerialInv, [Next]_vars PROVE SerialInv'
  OBVIOUS
<1> USE DEF callVars, lockVars, connVars, ctlVars, netVars, serverVars, clientVars, SerialInv,
            TaskTypes, WireTypes
<1>1. CASE PrewarmStep
  BY <1>1 DEF PrewarmStep, PrewarmOpened, PrewarmFailed, Open
<1>2. CASE ShutdownStep
  BY <1>2 DEF ShutdownStep, ShutdownDetach, ShutdownClose, Detach, Close, SockOpen
<1>3. CASE BargeIn \/ CancelFrame \/ EndFrame
  BY <1>3 DEF BargeIn, CancelFrame, EndFrame
<1>4. CASE SendClear
  BY <1>4 DEF SendClear, SockOpen
<1>5. CASE Abort
  BY <1>5, Tasks DEF Abort, Active, InFlight
<1>6. ASSUME NEW s \in Segs, RunTts(s) PROVE SerialInv'
  <2>1. \A t \in Segs : t < s => pc[t] = "done"
    BY <1>6 DEF RunTts
  <2>2. \A t \in Segs : s < t => pc[t] = "new"
    BY <1>6 DEF RunTts
  <2> QED
    BY <1>6, <2>1, <2>2 DEF RunTts, Segs
<1>7. ASSUME NEW s \in Segs, Finalize(s) PROVE SerialInv'
  BY <1>7 DEF Finalize
<1>8. ASSUME NEW s \in Segs, SegStep(s) PROVE SerialInv'
  <2>1. \A t \in Segs : s < t => pc[t] = "new"
    BY <1>8 DEF SegStep, AcquireSend, Connected, ConnectFailed, Flush, ReleaseSend, Drain,
       DrainTimeout, FailDetach, FailClose
  <2>2. outcome[s] # "cancelled"
    BY <1>8 DEF SegStep, AcquireSend, Connected, ConnectFailed, Flush, ReleaseSend, Drain,
       DrainTimeout, FailDetach, FailClose
  <2>3. prewarm # "connecting" /\ prewarm' = prewarm
    BY <1>8, Tasks DEF SegStep, AcquireSend, Connected, ConnectFailed, Flush, ReleaseSend, Drain,
       DrainTimeout, FailDetach, FailClose
  <2>4. \A t \in Segs \ {s} : pc'[t] = pc[t] /\ outcome'[t] = outcome[t]
    BY <1>8 DEF SegStep, AcquireSend, Connected, ConnectFailed, Flush, ReleaseSend, Drain,
       DrainTimeout, FailDetach, FailClose,
       Speak
  <2>5. outcome'[s] # "cancelled"
    BY <1>8, <2>2 DEF SegStep, AcquireSend, Connected, ConnectFailed, Flush, ReleaseSend, Drain,
       DrainTimeout, FailDetach, FailClose
  <2>6. ASSUME NEW c \in Conns, sock'[c] = "none"
        PROVE sock[c] = "none" /\ up'[c] = up[c] /\ text'[c] = text[c] /\ pending'[c] = pending[c]
              /\ down'[c] = down[c]
    <3>1. CASE AcquireSend(s) \/ Flush(s) \/ FailDetach(s)
      BY <2>6, <3>1 DEF AcquireSend, Flush, FailDetach, Detach, Speak, SockOpen
    <3>2. CASE Connected(s)
      BY <2>6, <3>2 DEF Connected, Open, Speak
    <3>3. CASE FailClose(s)
      BY <2>6, <3>3 DEF FailClose, Close
    <3>4. CASE ConnectFailed(s) \/ ReleaseSend(s) \/ Drain(s) \/ DrainTimeout(s)
      BY <2>6, <3>4 DEF ConnectFailed, ReleaseSend, Drain, DrainTimeout
    <3> QED
      BY <1>8, <3>1, <3>2, <3>3, <3>4 DEF SegStep
  <2>7. pc[s] # "new"
    BY <1>8 DEF SegStep, AcquireSend, Connected, ConnectFailed, Flush, ReleaseSend, Drain,
       DrainTimeout, FailDetach, FailClose
  <2>8. ASSUME NEW u \in Segs, NEW t \in Segs, u < t, pc'[t] # "new" PROVE pc'[u] = "done"
    <3>1. u # s
      BY <2>1, <2>4, <2>8 DEF Segs
    <3>2. pc[t] # "new"
      BY <2>4, <2>7, <2>8
    <3> QED
      BY <2>4, <2>8, <3>1, <3>2
  <2>9. ASSUME NEW t \in Segs, outcome'[t] = "cancelled" PROVE pc'[t] = "done"
    BY <2>4, <2>5, <2>9
  <2> QED
    BY <2>3, <2>6, <2>8, <2>9
<1>9. ASSUME NEW c \in Conns, ReaderStep(c) PROVE SerialInv'
  BY <1>9 DEF ReaderStep, ReaderRead, ReaderExit
<1>10. ASSUME NEW c \in Conns, ServerStep(c) PROVE SerialInv'
  <2>1. UNCHANGED <<pc, outcome, prewarm, sendLock>>
    BY <1>10 DEF ServerStep, ServerRead, ServerSend, ServerFault
  <2>2. \A d \in Conns : sock'[d] = "none" => d # c /\ sock[d] = "none"
    BY <1>10 DEF ServerStep, ServerRead, ServerSend, ServerFault
  <2>3. \A d \in Conns : d # c =>
          up'[d] = up[d] /\ text'[d] = text[d] /\ pending'[d] = pending[d] /\ down'[d] = down[d]
    BY <1>10 DEF ServerStep, ServerRead, ServerSend, ServerFault
  <2> QED
    BY <2>1, <2>2, <2>3
<1>11. CASE UNCHANGED vars
  BY <1>11 DEF vars
<1> QED
  BY <1>1, <1>2, <1>3, <1>4, <1>5, <1>6, <1>7, <1>8, <1>9, <1>10, <1>11 DEF Next

-----------------------------------------------------------------------------
\* A call up to t was cut off by an interruption.
Cut(t) == \E u \in Segs : u <= t /\ outcome[u] = "cancelled"
Unsent == {"new", "lock", "connecting"}

\* Some message of segment t is on its way to, in, or on its way from the server.
OnWire(c, t) == Has(up[c], t) \/ Has(text[c], t) \/ Has(pending[c], t) \/ Has(down[c], t)

\* What WebSocket c carries of segment t can reach t's own queue only: the call
\* is the reader's consumer, or closes c, or has ended and nobody reads c.
Owned(c, t) ==
  \/ pc[t] \in {"speak", "flush", "drain"} /\ conn = c /\ segQueue = t
  \/ pc[t] = "failing" /\ conn = c /\ segQueue = None
  \/ pc[t] = "closing" /\ target[t] = c /\ segQueue = None
  \/ pc[t] = "done" /\ reader[c] # "running"

\* Messages on the way are of calls that have spoken, and owned unless cut.
WireInv == \A c \in Conns, t \in Segs : OnWire(c, t) =>
  /\ pc[t] \notin Unsent
  /\ segQueue = None \/ t <= segQueue
  /\ Cut(t) \/ Owned(c, t)

\* Behind the Flush, or the Flushed, of a segment nothing of it follows.
EndsInOrder(c, t) ==
  /\ EndIsLast(up[c], t) /\ EndIsLast(pending[c], t) /\ EndIsLast(down[c], t)
  /\ Ends(pending[c], t) => ~Has(text[c], t) /\ ~Has(up[c], t)
  /\ Ends(down[c], t) => ~Has(pending[c], t) /\ ~Has(text[c], t) /\ ~Has(up[c], t)
  /\ pc[t] = "speak" => ~Ends(up[c], t) /\ ~Ends(pending[c], t) /\ ~Ends(down[c], t)
EndIsRead(t) == Ends(queue[t], t) => pc[t] # "speak" /\ \A c \in Conns : ~OnWire(c, t)
OrderInv == \A t \in Segs : ~Cut(t) => EndIsRead(t) /\ \A c \in Conns : EndsInOrder(c, t)

\* A queue holds, and a call has consumed, frames of its own or of a call
\* before it, and then one up to that call was cut.
Theirs(s, t) == t = s \/ (t < s /\ Cut(t))
QueueInv == \A s, t \in Segs : Has(queue[s], t) => pc[t] \notin Unsent /\ Theirs(s, t)
GotInv == \A s \in Segs : \A t \in got[s] : Theirs(s, t)

FrameInv == WireInv /\ OrderInv /\ QueueInv

\* An interruption is never undone.
LEMMA CutStays ==
  ASSUME TaskTypes, SerialInv, [Next]_vars, NEW t \in Segs, Cut(t)
  PROVE Cut(t)'
<1> USE DEF callVars, lockVars, connVars, ctlVars, netVars, serverVars, clientVars, TaskTypes
<1>1. PICK u \in Segs : u <= t /\ outcome[u] = "cancelled"
  BY DEF Cut
<1>2. pc[u] = "done"
  BY <1>1 DEF SerialInv
<1>3. outcome'[u] = "cancelled"
  <2>1. CASE PrewarmStep \/ ShutdownStep
    BY <1>1, <2>1 DEF PrewarmStep, PrewarmOpened, PrewarmFailed, ShutdownStep, ShutdownDetach,
       ShutdownClose
  <2>2. CASE BargeIn \/ SendClear \/ CancelFrame \/ EndFrame \/ Abort
    BY <1>1, <2>2 DEF BargeIn, SendClear, CancelFrame, EndFrame, Abort
  <2>3. ASSUME NEW s \in Segs, RunTts(s) \/ Finalize(s) PROVE outcome'[u] = "cancelled"
    BY <1>1, <2>3 DEF RunTts, Finalize
  <2>4. ASSUME NEW s \in Segs, SegStep(s) PROVE outcome'[u] = "cancelled"
    BY <1>1, <1>2, <2>4 DEF SegStep, AcquireSend, Connected, ConnectFailed, Flush, ReleaseSend,
       Drain, DrainTimeout, FailDetach, FailClose
  <2>5. ASSUME NEW c \in Conns, ReaderStep(c) \/ ServerStep(c) PROVE outcome'[u] = "cancelled"
    BY <1>1, <2>5 DEF ReaderStep, ReaderRead, ReaderExit, ServerStep, ServerRead, ServerSend,
       ServerFault
  <2>6. CASE UNCHANGED vars
    BY <1>1, <2>6 DEF vars
  <2> QED
    BY <2>1, <2>2, <2>3, <2>4, <2>5, <2>6 DEF Next
<1> QED
  BY <1>1, <1>3 DEF Cut

\* A step that puts no frame anywhere and lets no call speak.
Quiet ==
  /\ \A c \in Conns, t \in Segs :
       /\ NoMore(up[c], up'[c], t) /\ NoMore(text[c], text'[c], t)
       /\ NoMore(pending[c], pending'[c], t) /\ NoMore(down[c], down'[c], t)
       /\ OnWire(c, t) /\ Owned(c, t) => Owned(c, t)' \/ Cut(t)'
  /\ \A s, t \in Segs : NoMore(queue[s], queue'[s], t)
  /\ \A t \in Segs : pc'[t] \in Unsent => pc[t] \in Unsent
  /\ \A t \in Segs : pc'[t] = "speak" => pc[t] = "speak"
  /\ segQueue' \in {segQueue, None}

LEMMA QuietKeeps ==
  ASSUME TaskTypes, SerialInv, [Next]_vars, FrameInv, Quiet
  PROVE FrameInv'
<1>1. \A t \in Segs : Cut(t) => Cut(t)'
  BY CutStays
<1>2. \A c \in Conns, t \in Segs : OnWire(c, t)' => OnWire(c, t)
  BY DEF OnWire, Quiet, NoMore
<1>3. WireInv'
  <2> SUFFICES ASSUME NEW c \in Conns, NEW t \in Segs, OnWire(c, t)'
               PROVE (/\ pc[t] \notin Unsent
                      /\ segQueue = None \/ t <= segQueue
                      /\ Cut(t) \/ Owned(c, t))'
    BY DEF WireInv
  <2>1. OnWire(c, t)
    BY <1>2
  <2>2. pc[t] \notin Unsent /\ (segQueue = None \/ t <= segQueue) /\ (Cut(t) \/ Owned(c, t))
    BY <2>1 DEF WireInv, FrameInv
  <2>3. pc'[t] \notin Unsent
    BY <2>2 DEF Quiet
  <2>4. segQueue' = None \/ t <= segQueue'
    BY <2>2 DEF Quiet
  <2>5. Cut(t)' \/ Owned(c, t)'
    BY <1>1, <2>1, <2>2 DEF Quiet
  <2> QED
    BY <2>3, <2>4, <2>5
<1>4. OrderInv'
  <2> SUFFICES ASSUME NEW t \in Segs, ~Cut(t)'
               PROVE EndIsRead(t)' /\ \A c \in Conns : EndsInOrder(c, t)'
    BY DEF OrderInv
  <2>1. ~Cut(t)
    BY <1>1
  <2>2. EndIsRead(t)'
    BY <1>2, <2>1 DEF OrderInv, FrameInv, EndIsRead, Quiet, NoMore
  <2>3. ASSUME NEW c \in Conns PROVE EndsInOrder(c, t)'
    BY <2>1 DEF OrderInv, FrameInv, EndsInOrder, Quiet, NoMore
  <2> QED
    BY <2>2, <2>3
<1>5. QueueInv'
  BY <1>1 DEF QueueInv, FrameInv, Quiet, NoMore, Theirs
<1> QED
  BY <1>3, <1>4, <1>5 DEF FrameInv

LEMMA SameIsNoMore == \A q, t : NoMore(q, q, t) /\ NoMore(q, <<>>, t)
  BY NothingInEmpty DEF NoMore

\* An item of no segment, or of another one, adds nothing to segment t.
LEMMA OtherItem ==
  ASSUME NEW S, NEW q \in Seq(S), NEW m \in S, NEW t, m.seg # t
  PROVE NoMore(q, Append(q, m), t)
  BY AppendItem DEF NoMore, EndMark

LEMMA TailIsNoMore ==
  ASSUME NEW S, NEW q \in Seq(S), q # <<>>, NEW t
  PROVE NoMore(q, Tail(q), t)
  BY HeadItem DEF NoMore

\* One item of another segment more, in one of many channels.
LEMMA OtherItemAt ==
  ASSUME NEW S, NEW D, NEW f \in [D -> Seq(S)], NEW d \in D, NEW m \in S, NEW t, m.seg # t,
         NEW e \in D
  PROVE NoMore(f[e], [f EXCEPT ![d] = Append(@, m)][e], t)
<1>1. CASE e = d
  BY <1>1, OtherItem
<1>2. CASE e # d
  BY <1>2, SameIsNoMore
<1> QED
  BY <1>1, <1>2

\* While a call makes a step, whatever is on the wire of another call stays
\* out of reach: that call is over and its WebSocket is not read any more.
LEMMA OthersOwned ==
  ASSUME TaskTypes, SerialInv, FrameInv, NEW s \in Segs, SegStep(s), NEW c \in Conns,
         NEW t \in Segs, t # s, OnWire(c, t), Owned(c, t)
  PROVE Owned(c, t)' /\ pc'[t] = pc[t] /\ t < s
<1> USE DEF callVars, lockVars, connVars, ctlVars, netVars, serverVars, clientVars, TaskTypes
<1>1. pc[s] \in InFlight
  BY DEF SegStep, AcquireSend, Connected, ConnectFailed, Flush, ReleaseSend, Drain, DrainTimeout,
     FailDetach, FailClose, InFlight
<1>2. pc[t] # "new"
  BY DEF FrameInv, WireInv, Unsent
<1>3. t < s /\ pc[t] = "done"
  <2>1. ~(s < t)
    BY <1>1, <1>2 DEF SerialInv, InFlight
  <2>2. t < s
    BY <2>1 DEF Segs
  <2> QED
    BY <1>1, <2>2 DEF SerialInv, InFlight
<1>4. reader[c] # "running"
  BY <1>3 DEF Owned
<1>5. sock[c] # "none"
  BY NothingInEmpty DEF SerialInv, OnWire
<1>6. reader'[c] # "running"
  <2>1. CASE Connected(s)
    BY <1>4, <1>5, <2>1 DEF Connected, Open
  <2>2. CASE FailClose(s)
    BY <1>4, <2>2 DEF FailClose, Close
  <2>3. CASE AcquireSend(s) \/ ConnectFailed(s) \/ Flush(s) \/ ReleaseSend(s)
    BY <1>4, <2>3 DEF AcquireSend, ConnectFailed, Flush, ReleaseSend
  <2>4. CASE Drain(s) \/ DrainTimeout(s) \/ FailDetach(s)
    BY <1>4, <2>4 DEF Drain, DrainTimeout, FailDetach
  <2> QED
    BY <2>1, <2>2, <2>3, <2>4 DEF SegStep
<1>7. pc'[t] = pc[t]
  BY DEF SegStep, AcquireSend, Connected, ConnectFailed, Flush, ReleaseSend, Drain, DrainTimeout,
     FailDetach, FailClose, Speak
<1> QED
  BY <1>3, <1>6, <1>7 DEF Owned

\* A call speaks: its first message goes on a WebSocket that it owns.
LEMMA SpeakKeeps ==
  ASSUME DrainInv, TaskTypes, WireTypes, SerialInv, FrameInv, [Next]_vars, NEW s \in Segs, SegStep(s),
         NEW c \in Conns, Speak(s, c), pc[s] \in Unsent, pc[s] # "new", conn' = c,
         UNCHANGED <<text, pending, down, queue>>
  PROVE FrameInv'
<1> DEFINE m == Msg("speak", s)
<1>1. m \in Orders /\ m.seg = s /\ \A t \in Segs : ~EndMark(m, t)
  BY DEF Msg, Orders, EndMark
<1>2. up' = [up EXCEPT ![c] = Append(@, m)] /\ up'[c] = Append(up[c], m) /\ up[c] \in Seq(Orders)
  BY DEF Speak, WireTypes
<1> HIDE DEF m
<1>3. ASSUME NEW d \in Conns, NEW t \in Segs, t # s PROVE NoMore(up[d], up'[d], t)
  <2>1. up \in [Conns -> Seq(Orders)] /\ m.seg # t
    BY <1>1, <1>3 DEF WireTypes
  <2>2. NoMore(up[d], [up EXCEPT ![c] = Append(@, m)][d], t)
    BY <1>1, <2>1, OtherItemAt
  <2> QED
    BY <1>2, <2>2
<1>4. \A d \in Conns : ~OnWire(d, s)
  BY DEF FrameInv, WireInv
<1>5. ~Has(queue[s], s) /\ ~Ends(queue[s], s)
  BY EndsIsThere DEF FrameInv, QueueInv
<1>6. \A t \in Segs : Cut(t) => Cut(t)'
  BY CutStays
<1>7. /\ pc' = [pc EXCEPT ![s] = "speak"] /\ pc \in [Segs -> PCs] /\ segQueue' = s
  BY DEF Speak, TaskTypes
<1>8. ASSUME NEW d \in Conns, NEW t \in Segs, t # s, OnWire(d, t)' PROVE OnWire(d, t)
  BY <1>3, <1>8 DEF OnWire, NoMore
<1>9. ASSUME NEW d \in Conns, OnWire(d, s)' PROVE d = c
  <2>1. CASE d # c
    <3>1. up'[d] = up[d]
      BY <1>2, <2>1 DEF WireTypes
    <3> QED
      BY <1>4, <1>9, <3>1 DEF OnWire
  <2> QED
    BY <2>1
<1>10. WireInv'
  <2> SUFFICES ASSUME NEW d \in Conns, NEW t \in Segs, OnWire(d, t)'
               PROVE (/\ pc[t] \notin Unsent
                      /\ segQueue = None \/ t <= segQueue
                      /\ Cut(t) \/ Owned(d, t))'
    BY DEF WireInv
  <2>1. CASE t = s
    <3>1. pc'[s] = "speak" /\ d = c
      BY <1>7, <1>9, <2>1
    <3> QED
      BY <1>7, <2>1, <3>1 DEF Unsent, Owned, Segs
  <2>2. CASE t # s
    <3>1. OnWire(d, t)
      BY <1>8, <2>2
    <3>2. pc[t] \notin Unsent /\ (Cut(t) \/ Owned(d, t))
      BY <3>1 DEF FrameInv, WireInv
    <3>3. pc'[t] = pc[t]
      BY <1>7, <2>2
    <3>4. t <= s
      <4>1. ~(s < t)
        BY <3>2 DEF SerialInv, Unsent
      <4> QED
        BY <4>1 DEF Segs
    <3>5. Cut(t)' \/ Owned(d, t)'
      BY <1>6, <2>2, <3>1, <3>2, OthersOwned
    <3> QED
      BY <1>7, <3>2, <3>3, <3>4, <3>5
  <2> QED
    BY <2>1, <2>2
<1>11. OrderInv'
  <2> SUFFICES ASSUME NEW t \in Segs, ~Cut(t)'
               PROVE EndIsRead(t)' /\ \A d \in Conns : EndsInOrder(d, t)'
    BY DEF OrderInv
  <2>1. EndIsRead(t) /\ \A d \in Conns : EndsInOrder(d, t)
    BY <1>6 DEF FrameInv, OrderInv
  <2>2. CASE t = s
    <3>1. EndIsRead(t)'
      BY <1>5, <2>2 DEF EndIsRead
    <3>2. ASSUME NEW d \in Conns PROVE EndsInOrder(d, t)'
      <4>1. ~Has(up[d], t) /\ ~Has(text[d], t) /\ ~Has(pending[d], t) /\ ~Has(down[d], t)
        BY <1>4, <2>2 DEF OnWire
      <4>2. ~Ends(up[d], t) /\ ~Ends(pending[d], t) /\ ~Ends(down[d], t)
        BY <4>1, EndsIsThere
      <4>3. EndIsLast(up'[d], t) /\ ~Ends(up'[d], t)
        <5>1. CASE d = c
          BY <1>1, <1>2, <2>1, <4>2, <5>1, AppendItem DEF EndsInOrder
        <5>2. CASE d # c
          <6>1. up'[d] = up[d]
            BY <1>2, <5>2 DEF WireTypes
          <6> QED
            BY <2>1, <4>2, <6>1 DEF EndsInOrder
        <5> QED
          BY <5>1, <5>2
      <4> QED
        BY <2>1, <4>2, <4>3 DEF EndsInOrder
    <3> QED
      BY <3>1, <3>2
  <2>3. CASE t # s
    <3>1. pc'[t] = pc[t]
      BY <1>7, <2>3
    <3>2. EndIsRead(t)'
      BY <1>8, <2>1, <2>3, <3>1 DEF EndIsRead
    <3>3. ASSUME NEW d \in Conns PROVE EndsInOrder(d, t)'
      BY <1>3, <2>1, <2>3, <3>1 DEF EndsInOrder, NoMore
    <3> QED
      BY <3>2, <3>3
  <2> QED
    BY <2>2, <2>3
<1>12. QueueInv'
  <2>1. \A t \in Segs : pc'[t] \in Unsent => pc[t] \in Unsent
    BY <1>7 DEF Unsent
  <2> QED
    BY <1>6, <2>1 DEF FrameInv, QueueInv, Theirs
<1> QED
  BY <1>10, <1>11, <1>12 DEF FrameInv

\* A call flushes on the WebSocket it spoke on.
LEMMA FlushKeeps ==
  ASSUME DrainInv, TaskTypes, WireTypes, SerialInv, FrameInv, [Next]_vars, NEW s \in Segs, Flush(s),
         SockOpen(conn)
  PROVE FrameInv'
<1> DEFINE m == Msg("flush", s)
<1> DEFINE c == conn
<1>1. m \in Orders /\ m.seg = s /\ c \in Conns
  BY DEF Msg, Orders, SockOpen, TaskTypes
<1>2. /\ up' = [up EXCEPT ![c] = Append(@, m)] /\ pc[s] = "speak"
      /\ pc' = [pc EXCEPT ![s] = "flush"] /\ pc \in [Segs -> PCs]
      /\ UNCHANGED <<conn, segQueue, target, reader, text, pending, down, queue, outcome>>
  BY DEF Flush, TaskTypes, callVars, serverVars, ctlVars
<1>3. up'[c] = Append(up[c], m) /\ up[c] \in Seq(Orders)
  BY <1>1, <1>2 DEF WireTypes
<1> HIDE DEF m
<1>4. ASSUME NEW d \in Conns, NEW t \in Segs, t # s PROVE NoMore(up[d], up'[d], t)
  <2>1. up \in [Conns -> Seq(Orders)] /\ m.seg # t
    BY <1>1, <1>4 DEF WireTypes
  <2>2. NoMore(up[d], [up EXCEPT ![c] = Append(@, m)][d], t)
    BY <1>1, <2>1, OtherItemAt
  <2> QED
    BY <1>2, <2>2
<1>5. segQueue = s
  BY <1>2 DEF DrainInv
<1>6. \A t \in Segs : Cut(t) => Cut(t)'
  BY CutStays
<1>7. ASSUME NEW d \in Conns, NEW t \in Segs, OnWire(d, t)' PROVE OnWire(d, t) \/ (t = s /\ d = c)
  <2>1. CASE t = s
    <3>1. d # c => up'[d] = up[d]
      BY <1>2 DEF WireTypes
    <3> QED
      BY <1>2, <1>7, <2>1, <3>1 DEF OnWire
  <2>2. CASE t # s
    BY <1>2, <1>4, <1>7, <2>2 DEF OnWire, NoMore
  <2> QED
    BY <2>1, <2>2
<1>8. \A t \in Segs : pc'[t] \in Unsent => pc[t] \in Unsent
  BY <1>2 DEF Unsent
<1>9. WireInv'
  <2> SUFFICES ASSUME NEW d \in Conns, NEW t \in Segs, OnWire(d, t)'
               PROVE (/\ pc[t] \notin Unsent
                      /\ segQueue = None \/ t <= segQueue
                      /\ Cut(t) \/ Owned(d, t))'
    BY DEF WireInv
  <2>1. CASE t = s /\ d = c
    BY <1>2, <1>5, <2>1 DEF Unsent, Owned, Segs
  <2>2. CASE OnWire(d, t)
    <3>1. pc[t] \notin Unsent /\ (segQueue = None \/ t <= segQueue) /\ (Cut(t) \/ Owned(d, t))
      BY <2>2 DEF FrameInv, WireInv
    <3>2. Owned(d, t) => Owned(d, t)'
      BY <1>2 DEF Owned
    <3> QED
      BY <1>2, <1>6, <1>8, <3>1, <3>2
  <2> QED
    BY <1>7, <2>1, <2>2
<1>10. OrderInv'
  <2> SUFFICES ASSUME NEW t \in Segs, ~Cut(t)'
               PROVE EndIsRead(t)' /\ \A d \in Conns : EndsInOrder(d, t)'
    BY DEF OrderInv
  <2>1. EndIsRead(t) /\ \A d \in Conns : EndsInOrder(d, t)
    BY <1>6 DEF FrameInv, OrderInv
  <2>2. CASE t = s
    <3>1. EndIsRead(t)'
      BY <1>2, <2>1, <2>2 DEF EndIsRead
    <3>2. ASSUME NEW d \in Conns PROVE EndsInOrder(d, t)'
      <4>1. ~Ends(up[d], t) /\ ~Ends(pending[d], t) /\ ~Ends(down[d], t) /\ EndIsLast(up[d], t)
        BY <1>2, <2>1, <2>2 DEF EndsInOrder
      <4>2. EndIsLast(up'[d], t)
        <5>1. CASE d = c
          <6>1. up'[d] = Append(up[d], m) /\ up[d] \in Seq(Orders)
            BY <1>3, <5>1
          <6>2. EndIsLast(Append(up[d], m), t)
            BY <1>1, <4>1, <6>1, AppendItem
          <6> QED
            BY <6>1, <6>2
        <5>2. CASE d # c
          <6>1. up'[d] = up[d]
            BY <1>2, <5>2 DEF WireTypes
          <6> QED
            BY <4>1, <6>1
        <5> QED
          BY <5>1, <5>2
      <4>3. pc'[t] # "speak"
        BY <1>2, <2>2
      <4> QED
        BY <1>2, <2>1, <4>1, <4>2, <4>3 DEF EndsInOrder
    <3> QED
      BY <3>1, <3>2
  <2>3. CASE t # s
    <3>1. pc'[t] = pc[t]
      BY <1>2, <2>3
    <3>2. EndIsRead(t)'
      BY <1>2, <1>7, <2>1, <2>3, <3>1 DEF EndIsRead
    <3>3. ASSUME NEW d \in Conns PROVE EndsInOrder(d, t)'
      BY <1>2, <1>4, <2>1, <2>3, <3>1 DEF EndsInOrder, NoMore
    <3> QED
      BY <3>2, <3>3
  <2> QED
    BY <2>2, <2>3
<1>11. QueueInv'
  BY <1>2, <1>6, <1>8 DEF FrameInv, QueueInv, Theirs
<1> QED
  BY <1>9, <1>10, <1>11 DEF FrameInv

\* The reader gives a call its own frame, or one of a call that was cut.
LEMMA ReaderReadKeeps ==
  ASSUME DrainInv, TaskTypes, WireTypes, SerialInv, FrameInv, [Next]_vars, NEW c \in Conns,
         ReaderRead(c)
  PROVE FrameInv'
<1> DEFINE m == Head(down[c])
<1>1. /\ down \in [Conns -> Seq(Frames \cup Notices)] /\ down[c] # <<>>
      /\ down[c] \in Seq(Frames \cup Notices) /\ m \in Frames \cup Notices
      /\ down' = [down EXCEPT ![c] = Tail(@)] /\ down'[c] = Tail(down[c])
      /\ reader[c] = "running"
  BY DEF ReaderRead, WireTypes
<1>2. UNCHANGED <<pc, outcome, segQueue, conn, target, reader, up, text, pending>>
  BY DEF ReaderRead, callVars, connVars, serverVars
<1>3. queue' = IF segQueue = None THEN queue ELSE [queue EXCEPT ![segQueue] = Append(@, m)]
  BY DEF ReaderRead
<1>4. \A t : /\ Has(down[c], t) <=> Has(Tail(down[c]), t) \/ m.seg = t
             /\ Ends(down[c], t) <=> Ends(Tail(down[c]), t) \/ EndMark(m, t)
             /\ EndIsLast(down[c], t) => EndIsLast(Tail(down[c]), t)
             /\ EndIsLast(down[c], t) /\ EndMark(m, t) => ~Has(Tail(down[c]), t)
  BY <1>1, HeadItem
<1> HIDE DEF m
<1>5. \A t \in Segs : Cut(t) <=> Cut(t)'
  BY <1>2 DEF Cut
<1>6. ASSUME NEW d \in Conns, NEW t \in Segs PROVE NoMore(down[d], down'[d], t)
  <2>1. CASE d = c
    BY <1>1, <2>1, TailIsNoMore
  <2>2. CASE d # c
    <3>1. down'[d] = down[d]
      BY <1>1, <2>2
    <3> QED
      BY <3>1, SameIsNoMore
  <2> QED
    BY <2>1, <2>2
<1>7. ASSUME NEW d \in Conns, NEW t \in Segs, OnWire(d, t)' PROVE OnWire(d, t)
  BY <1>2, <1>6, <1>7 DEF OnWire, NoMore
<1>8. WireInv'
  <2> SUFFICES ASSUME NEW d \in Conns, NEW t \in Segs, OnWire(d, t)'
               PROVE (/\ pc[t] \notin Unsent
                      /\ segQueue = None \/ t <= segQueue
                      /\ Cut(t) \/ Owned(d, t))'
    BY DEF WireInv
  <2>1. pc[t] \notin Unsent /\ (segQueue = None \/ t <= segQueue) /\ (Cut(t) \/ Owned(d, t))
    BY <1>7 DEF FrameInv, WireInv
  <2>2. Owned(d, t) <=> Owned(d, t)'
    BY <1>2 DEF Owned
  <2> QED
    BY <1>2, <1>5, <2>1, <2>2
\* The frame at the head of the WebSocket, if its segment was not cut.
<1>9. ASSUME NEW t \in Segs, m.seg = t
      PROVE /\ pc[t] \notin Unsent /\ (segQueue = None \/ t <= segQueue)
            /\ segQueue # None /\ ~Cut(t) =>
                 segQueue = t /\ conn = c /\ pc[t] \in {"speak", "flush", "drain"}
  <2>1. OnWire(c, t)
    BY <1>4, <1>9 DEF OnWire
  <2> QED
    BY <1>1, <2>1 DEF FrameInv, WireInv, Owned
<1>10. ASSUME NEW s \in Segs, NEW t \in Segs
       PROVE /\ Has(queue'[s], t) => Has(queue[s], t) \/ (s = segQueue /\ m.seg = t)
             /\ Ends(queue'[s], t) => Ends(queue[s], t) \/ (s = segQueue /\ EndMark(m, t))
  <2>1. CASE segQueue = s
    <3>1. s # None
      BY Tasks
    <3>2. queue'[s] = Append(queue[s], m) /\ queue[s] \in Seq(Frames \cup Notices)
      BY <1>3, <2>1, <3>1 DEF WireTypes
    <3>3. /\ Has(Append(queue[s], m), t) <=> Has(queue[s], t) \/ m.seg = t
          /\ Ends(Append(queue[s], m), t) <=> Ends(queue[s], t) \/ EndMark(m, t)
      BY <1>1, <3>2, AppendItem
    <3> QED
      BY <2>1, <3>2, <3>3
  <2>2. CASE segQueue # s
    <3>1. queue'[s] = queue[s]
      BY <1>3, <2>2 DEF WireTypes
    <3> QED
      BY <3>1
  <2> QED
    BY <2>1, <2>2
<1>11. QueueInv'
  <2> SUFFICES ASSUME NEW s \in Segs, NEW t \in Segs, Has(queue'[s], t)
               PROVE pc'[t] \notin Unsent /\ Theirs(s, t)'
    BY DEF QueueInv
  <2>1. CASE Has(queue[s], t)
    BY <1>2, <1>5, <2>1 DEF FrameInv, QueueInv, Theirs
  <2>2. CASE s = segQueue /\ m.seg = t
    <3>1. pc[t] \notin Unsent /\ t <= s /\ (~Cut(t) => s = t)
      BY <1>9, <2>2, Tasks
    <3>2. t = s \/ t < s
      BY <3>1 DEF Segs
    <3> QED
      BY <1>2, <1>5, <3>1, <3>2 DEF Theirs
  <2> QED
    BY <1>10, <2>1, <2>2
<1>12. OrderInv'
  <2> SUFFICES ASSUME NEW t \in Segs, ~Cut(t)'
               PROVE EndIsRead(t)' /\ \A d \in Conns : EndsInOrder(d, t)'
    BY DEF OrderInv
  <2>1. ~Cut(t) /\ EndIsRead(t) /\ \A d \in Conns : EndsInOrder(d, t)
    BY <1>5 DEF FrameInv, OrderInv
  <2>2. ASSUME NEW d \in Conns PROVE EndsInOrder(d, t)'
    BY <1>2, <1>6, <2>1 DEF EndsInOrder, NoMore
  <2>3. CASE Ends(queue[t], t)
    BY <1>2, <1>7, <2>1, <2>2, <2>3 DEF EndIsRead
  <2>4. CASE ~Ends(queue'[t], t)
    BY <2>2, <2>4 DEF EndIsRead
  <2>5. CASE t = segQueue /\ EndMark(m, t)
    <3>1. m.seg = t /\ segQueue # None
      BY <2>5, Tasks DEF EndMark
    <3>2. conn = c /\ pc[t] \in {"speak", "flush", "drain"}
      BY <1>9, <2>1, <3>1
    <3>3. Ends(down[c], t)
      BY <1>4, <2>5
    <3>4. pc[t] # "speak" /\ ~Has(pending[c], t) /\ ~Has(text[c], t) /\ ~Has(up[c], t)
      BY <2>1, <3>3 DEF EndsInOrder
    <3>5. ~Has(down'[c], t)
      BY <1>1, <1>4, <2>1, <2>5 DEF EndsInOrder
    <3>6. ASSUME NEW d \in Conns, OnWire(d, t)' PROVE FALSE
      <4>1. OnWire(d, t)
        BY <1>7, <3>6
      <4>2. d = c
        BY <2>1, <3>2, <4>1 DEF FrameInv, WireInv, Owned
      <4> QED
        BY <1>2, <3>4, <3>5, <3>6, <4>2 DEF OnWire
    <3> QED
      BY <1>2, <2>2, <3>4, <3>6 DEF EndIsRead
  <2> QED
    BY <1>10, <2>3, <2>4, <2>5
<1> QED
  BY <1>8, <1>11, <1>12 DEF FrameInv

\* The server, and what it holds, keep the order of a segment's messages.
LEMMA ServerKeeps ==
  ASSUME TaskTypes, WireTypes, FrameInv, NEW c \in Conns,
         UNCHANGED <<pc, outcome, segQueue, conn, target, reader, queue>>,
         \A d \in Conns : d # c =>
           up'[d] = up[d] /\ text'[d] = text[d] /\ pending'[d] = pending[d] /\ down'[d] = down[d],
         \A t \in Segs : OnWire(c, t)' => OnWire(c, t),
         \A t \in Segs : EndsInOrder(c, t) => EndsInOrder(c, t)'
  PROVE FrameInv'
<1>1. \A t \in Segs : Cut(t) <=> Cut(t)'
  BY DEF Cut
<1>2. \A d \in Conns, t \in Segs : OnWire(d, t)' => OnWire(d, t)
  BY DEF OnWire
<1>3. \A d \in Conns, t \in Segs : Owned(d, t) <=> Owned(d, t)'
  BY DEF Owned
<1>4. \A d \in Conns, t \in Segs : EndsInOrder(d, t) => EndsInOrder(d, t)'
  BY DEF EndsInOrder
<1>5. WireInv'
  BY <1>1, <1>2, <1>3 DEF FrameInv, WireInv
<1>6. OrderInv'
  BY <1>1, <1>2, <1>4 DEF FrameInv, OrderInv, EndIsRead
<1>7. QueueInv'
  BY <1>1 DEF FrameInv, QueueInv, Theirs
<1> QED
  BY <1>5, <1>6, <1>7 DEF FrameInv

\* The server sends what it has ready.
LEMMA ServerSendKeeps ==
  ASSUME TaskTypes, WireTypes, FrameInv, NEW c \in Conns, ServerSend(c)
  PROVE FrameInv'
<1> DEFINE m == Head(pending[c])
<1>1. /\ pending[c] # <<>> /\ pending[c] \in Seq(Frames) /\ m \in Frames \cup Notices
      /\ down[c] \in Seq(Frames \cup Notices)
      /\ pending'[c] = Tail(pending[c]) /\ down'[c] = Append(down[c], m)
      /\ \A d \in Conns : d # c => pending'[d] = pending[d] /\ down'[d] = down[d]
      /\ UNCHANGED <<pc, outcome, segQueue, conn, target, reader, queue, up, text>>
  BY DEF ServerSend, WireTypes, clientVars, callVars, connVars
<1>2. \A t : /\ Has(pending[c], t) <=> Has(Tail(pending[c]), t) \/ m.seg = t
             /\ Ends(pending[c], t) <=> Ends(Tail(pending[c]), t) \/ EndMark(m, t)
             /\ EndIsLast(pending[c], t) => EndIsLast(Tail(pending[c]), t)
             /\ EndIsLast(pending[c], t) /\ EndMark(m, t) => ~Has(Tail(pending[c]), t)
  BY <1>1, HeadItem
<1> HIDE DEF m
<1>3. \A t : /\ Has(Append(down[c], m), t) <=> Has(down[c], t) \/ m.seg = t
             /\ Ends(Append(down[c], m), t) <=> Ends(down[c], t) \/ EndMark(m, t)
             /\ EndIsLast(Append(down[c], m), t) <=> EndIsLast(down[c], t) /\ (Ends(down[c], t) => m.seg # t)
  BY <1>1, AppendItem
<1>4. ASSUME NEW t \in Segs, OnWire(c, t)' PROVE OnWire(c, t)
  BY <1>1, <1>2, <1>3, <1>4 DEF OnWire
<1>5. ASSUME NEW t \in Segs, EndsInOrder(c, t) PROVE EndsInOrder(c, t)'
  BY <1>1, <1>2, <1>3, <1>5 DEF EndsInOrder
<1> QED
  BY <1>1, <1>4, <1>5, ServerKeeps

\* The server reads a message; a Flush puts the audio of the text it holds,
\* and the Flushed behind it, in what it has ready.
LEMMA ServerReadKeeps ==
  ASSUME TaskTypes, WireTypes, FrameInv, NEW c \in Conns, ServerRead(c)
  PROVE FrameInv'
<1> DEFINE m == Head(up[c])
<1>1. /\ up[c] # <<>> /\ up[c] \in Seq(Orders) /\ m \in Orders
      /\ text[c] \in Seq(Audio) /\ pending[c] \in Seq(Frames)
      /\ up'[c] = Tail(up[c])
      /\ \A d \in Conns : d # c => up'[d] = up[d] /\ text'[d] = text[d] /\ pending'[d] = pending[d]
      /\ UNCHANGED <<pc, outcome, segQueue, conn, target, reader, queue, down>>
  BY DEF ServerRead, WireTypes, clientVars, callVars, connVars
<1>2. \/ m.kind = "speak" /\ text'[c] = Append(text[c], Msg("audio", m.seg)) /\ pending'[c] = pending[c]
      \/ /\ m.kind = "flush" /\ text'[c] = <<>>
         /\ pending'[c] = (pending[c] \o text[c]) \o <<Msg("flushed", m.seg)>>
      \/ m.kind = "clear" /\ text'[c] = <<>> /\ pending'[c] = <<>>
      \/ m.kind = "close" /\ text'[c] = text[c] /\ pending'[c] = pending[c]
  BY DEF ServerRead, WireTypes
<1>3. m.kind \in {"speak", "flush"} => m.seg \in Segs
  BY <1>1 DEF Orders
<1>4. \A t : /\ Has(up[c], t) <=> Has(Tail(up[c]), t) \/ m.seg = t
             /\ Ends(up[c], t) <=> Ends(Tail(up[c]), t) \/ EndMark(m, t)
             /\ EndIsLast(up[c], t) => EndIsLast(Tail(up[c]), t)
             /\ EndIsLast(up[c], t) /\ EndMark(m, t) => ~Has(Tail(up[c]), t)
  BY <1>1, HeadItem
<1> HIDE DEF m
<1>5. \A t : ~Ends(text[c], t) /\ EndIsLast(text[c], t)
  <2>1. \A i \in 1 .. Len(text[c]) : text[c][i] \in Audio
    BY <1>1
  <2>2. \A i \in 1 .. Len(text[c]) : text[c][i].kind = "audio"
    BY <2>1 DEF Audio
  <2> QED
    BY <2>2 DEF Ends, EndIsLast, EndMark
<1>6. CASE m.kind = "speak"
  <2> DEFINE a == Msg("audio", m.seg)
  <2>1. a \in Audio /\ a.seg = m.seg
    BY <1>3, <1>6 DEF Msg, Audio
  <2>2. text'[c] = Append(text[c], a) /\ pending'[c] = pending[c]
    BY <1>2, <1>6
  <2> HIDE DEF a
  <2>3. \A t : Has(Append(text[c], a), t) <=> Has(text[c], t) \/ m.seg = t
    BY <1>1, <2>1, AppendItem
  <2>4. ASSUME NEW t \in Segs, OnWire(c, t)' PROVE OnWire(c, t)
    BY <1>1, <1>4, <2>2, <2>3, <2>4 DEF OnWire
  <2>5. ASSUME NEW t \in Segs, EndsInOrder(c, t) PROVE EndsInOrder(c, t)'
    BY <1>1, <1>4, <2>2, <2>3, <2>5 DEF EndsInOrder
  <2> QED
    BY <1>1, <2>4, <2>5, ServerKeeps
<1>7. CASE m.kind = "flush"
  <2> DEFINE f == Msg("flushed", m.seg)
  <2> DEFINE q == pending[c] \o text[c]
  <2>1. /\ f \in Frames /\ f.seg = m.seg
        /\ \A t : (EndMark(f, t) <=> m.seg = t) /\ (EndMark(m, t) <=> m.seg = t)
    BY <1>3, <1>7 DEF Msg, Frames, EndMark
  <2>2. text'[c] = <<>> /\ pending'[c] = q \o <<f>>
    BY <1>2, <1>7
  <2>3. pending[c] \in Seq(Frames) /\ text[c] \in Seq(Frames)
    <3>1. Audio \subseteq Frames
      BY DEF Audio, Frames
    <3> QED
      BY <1>1, <3>1
  <2>4. \A t : /\ Has(q, t) <=> Has(pending[c], t) \/ Has(text[c], t)
               /\ Ends(q, t) <=> Ends(pending[c], t) \/ Ends(text[c], t)
               /\ EndIsLast(pending[c], t) /\ EndIsLast(text[c], t)
                    /\ (Ends(pending[c], t) => ~Has(text[c], t)) => EndIsLast(q, t)
    BY <2>3, ConcatItems
  <2>5. q \in Seq(Frames)
    BY <2>3
  <2> HIDE DEF f, q
  <2>6. /\ <<f>> \in Seq(Frames)
        /\ \A t : /\ Has(<<f>>, t) <=> m.seg = t
                  /\ Ends(<<f>>, t) <=> m.seg = t
                  /\ EndIsLast(<<f>>, t)
    <3>1. <<f>> \in Seq(Frames) /\ Len(<<f>>) = 1 /\ <<f>>[1] = f
      BY <2>1
    <3>2. \A i \in 1 .. Len(<<f>>) : i = 1
      BY <3>1
    <3> QED
      BY <2>1, <3>1, <3>2 DEF Has, Ends, EndIsLast
  <2>7. \A t : /\ Has(pending'[c], t) <=> Has(q, t) \/ m.seg = t
               /\ Ends(pending'[c], t) <=> Ends(q, t) \/ m.seg = t
               /\ EndIsLast(q, t) /\ (Ends(q, t) => m.seg # t) => EndIsLast(pending'[c], t)
    <3> DEFINE p == <<f>>
    <3>1. p \in Seq(Frames) /\ pending'[c] = q \o p
      BY <2>2, <2>6
    <3>2. \A t : (Has(p, t) <=> m.seg = t) /\ (Ends(p, t) <=> m.seg = t) /\ EndIsLast(p, t)
      BY <2>6
    <3> HIDE DEF p
    <3>3. \A t : /\ Has(q \o p, t) <=> Has(q, t) \/ Has(p, t)
                 /\ Ends(q \o p, t) <=> Ends(q, t) \/ Ends(p, t)
                 /\ EndIsLast(q, t) /\ EndIsLast(p, t) /\ (Ends(q, t) => ~Has(p, t))
                      => EndIsLast(q \o p, t)
      BY <2>5, <3>1, ConcatItems
    <3> QED
      BY <3>1, <3>2, <3>3
  <2>8. ASSUME NEW t \in Segs, OnWire(c, t)' PROVE OnWire(c, t)
    BY <1>1, <1>4, <2>2, <2>4, <2>7, <2>8, NothingInEmpty DEF OnWire
  <2>9. ASSUME NEW t \in Segs, EndsInOrder(c, t) PROVE EndsInOrder(c, t)'
    <3>1. /\ EndIsLast(up[c], t) /\ EndIsLast(pending[c], t) /\ EndIsLast(down[c], t)
          /\ Ends(pending[c], t) => ~Has(text[c], t) /\ ~Has(up[c], t)
          /\ Ends(down[c], t) => ~Has(pending[c], t) /\ ~Has(text[c], t) /\ ~Has(up[c], t)
          /\ pc[t] = "speak" => ~Ends(up[c], t) /\ ~Ends(pending[c], t) /\ ~Ends(down[c], t)
      BY <2>9 DEF EndsInOrder
    <3>2. EndIsLast(pending'[c], t)
      BY <1>4, <1>5, <2>4, <2>7, <3>1
    <3>3. Ends(pending'[c], t) => ~Has(up'[c], t)
      BY <1>1, <1>4, <1>5, <2>1, <2>4, <2>7, <3>1
    <3>4. ~Has(text'[c], t)
      BY <2>2, NothingInEmpty
    <3>5. Ends(down[c], t) => ~Has(pending'[c], t) /\ ~Has(up'[c], t)
      BY <1>1, <1>4, <2>4, <2>7, <3>1
    <3>6. pc[t] = "speak" => ~Ends(up'[c], t) /\ ~Ends(pending'[c], t)
      BY <1>1, <1>4, <1>5, <2>1, <2>4, <2>7, <3>1
    <3> QED
      BY <1>1, <1>4, <3>1, <3>2, <3>3, <3>4, <3>5, <3>6 DEF EndsInOrder
  <2> QED
    BY <1>1, <2>8, <2>9, ServerKeeps
<1>8. CASE m.kind \in {"clear", "close"}
  <2>1. text'[c] \in {text[c], <<>>} /\ pending'[c] \in {pending[c], <<>>}
    BY <1>2, <1>8
  <2>2. ASSUME NEW t \in Segs, OnWire(c, t)' PROVE OnWire(c, t)
    BY <1>1, <1>4, <2>1, <2>2, NothingInEmpty DEF OnWire
  <2>3. ASSUME NEW t \in Segs, EndsInOrder(c, t) PROVE EndsInOrder(c, t)'
    BY <1>1, <1>4, <2>1, <2>3, NothingInEmpty DEF EndsInOrder
  <2> QED
    BY <1>1, <2>2, <2>3, ServerKeeps
<1> QED
  BY <1>2, <1>6, <1>7, <1>8

\* A step of a call that sends nothing: only where it is, and whose queue is
\* registered, changes.
SilentStep(s) ==
  \/ AcquireSend(s) /\ ~SockOpen(conn)
  \/ ConnectFailed(s) \/ ReleaseSend(s) \/ Drain(s) \/ DrainTimeout(s)
  \/ Flush(s) /\ ~SockOpen(conn)
  \/ FailDetach(s) \/ FailClose(s)

\* A silent step of a call is quiet.
LEMMA SilentIsQuiet ==
  ASSUME TaskTypes, WireTypes, SerialInv, FrameInv, [Next]_vars, NEW s \in Segs, SilentStep(s)
  PROVE Quiet
<1> USE DEF callVars, lockVars, connVars, ctlVars, netVars, serverVars, clientVars
<1>0. SegStep(s)
  BY DEF SilentStep, SegStep
<1>1. UNCHANGED <<text, pending, down>>
  BY DEF SilentStep, AcquireSend, ConnectFailed, ReleaseSend, Drain, DrainTimeout, Flush,
     FailDetach, FailClose
<1>2. up' = up \/ (FailDetach(s) /\ SockOpen(conn) /\ up' = [up EXCEPT ![conn] = Append(@, Msg("close", None))])
  BY DEF SilentStep, AcquireSend, ConnectFailed, ReleaseSend, Drain, DrainTimeout, Flush,
     FailDetach, FailClose, Detach, Speak
<1>3. ASSUME NEW c \in Conns, NEW t \in Segs PROVE NoMore(up[c], up'[c], t)
  <2>1. CASE up' = up
    BY <2>1, SameIsNoMore
  <2>2. CASE SockOpen(conn) /\ up' = [up EXCEPT ![conn] = Append(@, Msg("close", None))]
    <3> DEFINE m == Msg("close", None)
    <3>1. m \in Orders /\ m.seg # t /\ conn \in Conns /\ up \in [Conns -> Seq(Orders)]
      BY <2>2, Tasks DEF Msg, Orders, SockOpen, TaskTypes, WireTypes
    <3> HIDE DEF m
    <3>2. NoMore(up[c], [up EXCEPT ![conn] = Append(@, m)][c], t)
      BY <3>1, OtherItemAt
    <3> QED
      BY <2>2, <3>2 DEF m
  <2> QED
    BY <1>2, <2>1, <2>2
<1>4. ASSUME NEW u \in Segs, NEW t \in Segs PROVE NoMore(queue[u], queue'[u], t)
  <2>1. CASE Drain(s)
    <3>1. queue[s] # <<>> /\ queue' = [queue EXCEPT ![s] = Tail(@)]
          /\ queue \in [Segs -> Seq(Frames \cup Notices)]
      BY <2>1 DEF Drain, WireTypes
    <3>2. CASE u = s
      <4>1. queue'[u] = Tail(queue[u]) /\ queue[u] # <<>> /\ queue[u] \in Seq(Frames \cup Notices)
        BY <3>1, <3>2
      <4> QED
        BY <4>1, TailIsNoMore
    <3>3. CASE u # s
      <4>1. queue'[u] = queue[u]
        BY <3>1, <3>3
      <4> QED
        BY <4>1, SameIsNoMore
    <3> QED
      BY <3>2, <3>3
  <2>2. CASE FailClose(s)
    <3>1. queue' = queue \/ (segQueue # None /\ queue' = [queue EXCEPT ![segQueue] = Append(@, Closed)])
      BY <2>2 DEF FailClose, Close
    <3>2. CASE segQueue # None /\ queue' = [queue EXCEPT ![segQueue] = Append(@, Closed)]
      <4> DEFINE m == Closed
      <4>1. m \in Frames \cup Notices /\ m.seg # t /\ segQueue \in Segs
            /\ queue \in [Segs -> Seq(Frames \cup Notices)]
        BY <3>2, Tasks DEF Closed, Msg, Notices, TaskTypes, WireTypes
      <4> HIDE DEF m
      <4>2. NoMore(queue[u], [queue EXCEPT ![segQueue] = Append(@, m)][u], t)
        BY <4>1, OtherItemAt
      <4> QED
        BY <3>2, <4>2 DEF m
    <3> QED
      BY <3>1, <3>2, SameIsNoMore
  <2>3. CASE queue' = queue
    BY <2>3, SameIsNoMore
  <2>4. queue' = queue \/ Drain(s) \/ FailClose(s)
    BY DEF SilentStep, AcquireSend, ConnectFailed, ReleaseSend, Drain, DrainTimeout, Flush,
       FailDetach, FailClose
  <2> QED
    BY <2>1, <2>2, <2>3, <2>4
<1>5. /\ segQueue' \in {segQueue, None} /\ pc'[s] \notin {"new", "lock", "speak"}
      /\ pc'[s] = "connecting" => pc[s] = "lock"
      /\ \A t \in Segs : t # s => pc'[t] = pc[t]
  BY DEF SilentStep, AcquireSend, ConnectFailed, ReleaseSend, Drain, DrainTimeout, Flush,
     FailDetach, FailClose, Detach, Released, Speak, TaskTypes
<1>6. ASSUME NEW c \in Conns, OnWire(c, s), Owned(c, s) PROVE Owned(c, s)' \/ Cut(s)'
  <2>1. pc[s] \notin Unsent
    BY <1>6 DEF FrameInv, WireInv
  <2>2. CASE ReleaseSend(s)
    BY <1>6, <2>2 DEF ReleaseSend, Owned, TaskTypes
  <2>3. CASE Drain(s) \/ DrainTimeout(s)
    <3>1. conn = c /\ segQueue = s
      BY <1>6, <2>3 DEF Drain, DrainTimeout, Owned
    <3>2. CASE DrainTimeout(s)
      BY <3>1, <3>2 DEF DrainTimeout, Released, Owned, TaskTypes
    <3>3. CASE Drain(s) /\ Head(queue[s]).kind = "audio"
      <4>1. UNCHANGED <<pc, conn, segQueue>>
        BY <3>3 DEF Drain
      <4> QED
        BY <2>3, <3>1, <4>1 DEF Drain, DrainTimeout, Owned
    <3>4. CASE Drain(s) /\ Head(queue[s]).kind \in {"error", "closed"}
      BY <3>1, <3>4 DEF Drain, Released, Owned, TaskTypes
    <3>5. CASE Drain(s) /\ Head(queue[s]).kind = "flushed"
      <4> DEFINE m == Head(queue[s])
      <4>1. /\ queue[s] # <<>> /\ queue[s] \in Seq(Frames \cup Notices)
            /\ m \in Frames \cup Notices /\ m.kind = "flushed"
        BY <3>5 DEF Drain, WireTypes
      <4>2. m.seg \in Segs
        BY <4>1 DEF Frames, Notices
      <4>3. Has(queue[s], m.seg) /\ Ends(queue[s], m.seg)
        BY <4>1, HeadItem DEF EndMark
      <4> HIDE DEF m
      <4>4. Theirs(s, m.seg)
        BY <4>2, <4>3 DEF FrameInv, QueueInv
      <4>5. CASE m.seg = s
        <5>1. ~Cut(s) => \A d \in Conns : ~OnWire(d, s)
          BY <4>3, <4>5 DEF FrameInv, OrderInv, EndIsRead
        <5> QED
          BY <1>6, <5>1, CutStays
      <4>6. CASE m.seg < s /\ Cut(m.seg)
        <5>1. Cut(s)
          BY <4>2, <4>6 DEF Cut, Segs
        <5> QED
          BY <5>1, CutStays
      <4> QED
        BY <4>4, <4>5, <4>6 DEF Theirs
    <3> QED
      BY <2>3, <3>2, <3>3, <3>4, <3>5 DEF Drain
  <2>4. CASE Flush(s) /\ ~SockOpen(conn)
    BY <1>6, <2>4 DEF Flush, Owned, TaskTypes
  <2>5. CASE FailDetach(s)
    BY <1>6, <2>5 DEF FailDetach, Detach, Owned, TaskTypes, Closers
  <2>6. CASE FailClose(s)
    BY <1>6, <2>6, Tasks DEF FailClose, Close, Owned, TaskTypes
  <2>7. CASE AcquireSend(s) \/ ConnectFailed(s)
    BY <2>1, <2>7 DEF AcquireSend, ConnectFailed, Unsent
  <2> QED
    BY <2>2, <2>3, <2>4, <2>5, <2>6, <2>7 DEF SilentStep
<1>7. ASSUME NEW c \in Conns, NEW t \in Segs, OnWire(c, t), Owned(c, t)
      PROVE Owned(c, t)' \/ Cut(t)'
  BY <1>0, <1>6, <1>7, OthersOwned
<1>8. \A c \in Conns, t \in Segs :
        /\ NoMore(text[c], text'[c], t) /\ NoMore(pending[c], pending'[c], t)
        /\ NoMore(down[c], down'[c], t)
  BY <1>1, SameIsNoMore
<1>9. ASSUME NEW t \in Segs
      PROVE (pc'[t] \in Unsent => pc[t] \in Unsent) /\ (pc'[t] = "speak" => pc[t] = "speak")
  BY <1>5 DEF Unsent
<1> QED
  BY <1>3, <1>4, <1>5, <1>7, <1>8, <1>9 DEF Quiet

\* A step outside the calls and the server is quiet.
LEMMA OutsideIsQuiet ==
  ASSUME DrainInv, TaskTypes, WireTypes, SerialInv, FrameInv, [Next]_vars,
         \/ PrewarmStep \/ ShutdownStep \/ BargeIn \/ SendClear \/ CancelFrame \/ EndFrame \/ Abort
         \/ UNCHANGED vars
         \/ \E s \in Segs : RunTts(s) \/ Finalize(s)
         \/ \E c \in Conns : ReaderExit(c) \/ ServerFault(c)
  PROVE Quiet
<1> USE DEF callVars, lockVars, connVars, ctlVars, netVars, serverVars, clientVars
<1>1. ASSUME UNCHANGED <<up, text, pending, down, queue, pc, segQueue>>,
             NEW c \in Conns, NEW t \in Segs
      PROVE /\ NoMore(up[c], up'[c], t) /\ NoMore(text[c], text'[c], t)
            /\ NoMore(pending[c], pending'[c], t) /\ NoMore(down[c], down'[c], t)
  BY <1>1, SameIsNoMore
<1>2. \A s, t \in Segs : UNCHANGED queue => NoMore(queue[s], queue'[s], t)
  BY SameIsNoMore
\* The sentinel is of no segment.
<1>3. ASSUME NEW s \in Segs, NEW t \in Segs, NEW u \in Segs,
             queue' = [queue EXCEPT ![u] = Append(@, Closed)]
      PROVE NoMore(queue[s], queue'[s], t)
  <2> DEFINE m == Closed
  <2>1. m \in Frames \cup Notices /\ m.seg # t /\ queue \in [Segs -> Seq(Frames \cup Notices)]
    BY Tasks DEF Closed, Msg, Notices, WireTypes
  <2> HIDE DEF m
  <2>2. NoMore(queue[s], [queue EXCEPT ![u] = Append(@, m)][s], t)
    BY <2>1, OtherItemAt
  <2> QED
    BY <1>3, <2>2 DEF m
\* A message of no segment.
<1>4. ASSUME NEW c \in Conns, NEW t \in Segs, NEW d \in Conns, NEW k \in {"clear", "close"},
             up' = [up EXCEPT ![d] = Append(@, Msg(k, None))]
      PROVE NoMore(up[c], up'[c], t)
  <2> DEFINE m == Msg(k, None)
  <2>1. m \in Orders /\ m.seg # t /\ up \in [Conns -> Seq(Orders)]
    BY Tasks DEF Msg, Orders, WireTypes
  <2> HIDE DEF m
  <2>2. NoMore(up[c], [up EXCEPT ![d] = Append(@, m)][c], t)
    BY <2>1, OtherItemAt
  <2> QED
    BY <1>4, <2>2 DEF m
<1>5. \A c \in Conns, t \in Segs : OnWire(c, t) => pc[t] \notin Unsent /\ sock[c] # "none"
  BY NothingInEmpty DEF FrameInv, WireInv, SerialInv, OnWire
<1>6. CASE PrewarmOpened
  <2>1. PICK d \in Conns : Open(d)
    BY <1>6 DEF PrewarmOpened
  <2>2. ASSUME NEW c \in Conns, NEW t \in Segs, OnWire(c, t), Owned(c, t) PROVE Owned(c, t)'
    <3>1. pc[t] = "done" /\ c # d
      BY <1>5, <1>6, <2>1, <2>2 DEF PrewarmOpened, SerialInv, Open, Unsent
    <3> QED
      BY <1>6, <2>1, <2>2, <3>1 DEF PrewarmOpened, Open, Owned, TaskTypes
  <2>3. UNCHANGED <<up, text, pending, down, queue, pc, segQueue>>
    BY <1>6 DEF PrewarmOpened
  <2> QED
    BY <1>1, <1>2, <2>2, <2>3 DEF Quiet
<1>7. CASE PrewarmFailed \/ BargeIn \/ CancelFrame \/ EndFrame \/ UNCHANGED vars
  <2>1. UNCHANGED <<up, text, pending, down, queue, pc, segQueue, conn, target, reader>>
    BY <1>7 DEF PrewarmFailed, BargeIn, CancelFrame, EndFrame, vars
  <2>2. \A c \in Conns, t \in Segs : Owned(c, t) => Owned(c, t)'
    BY <2>1 DEF Owned
  <2> QED
    BY <1>1, <1>2, <2>1, <2>2 DEF Quiet
<1>8. CASE SendClear
  <2>1. UNCHANGED <<text, pending, down, queue, pc, segQueue, conn, target, reader>>
    BY <1>8 DEF SendClear
  <2>2. \A c \in Conns, t \in Segs : Owned(c, t) => Owned(c, t)'
    BY <2>1 DEF Owned
  <2>3. up' = up \/ (conn \in Conns /\ up' = [up EXCEPT ![conn] = Append(@, Msg("clear", None))])
    BY <1>8 DEF SendClear, SockOpen, TaskTypes
  <2>4. \A c \in Conns, t \in Segs : NoMore(up[c], up'[c], t)
    BY <1>4, <2>3, SameIsNoMore
  <2> QED
    BY <1>2, <2>1, <2>2, <2>4, SameIsNoMore DEF Quiet
<1>9. CASE ShutdownDetach
  <2>1. /\ UNCHANGED <<text, pending, down, queue, pc, reader>> /\ segQueue' = None
        /\ svc = "acquiring"
    BY <1>9 DEF ShutdownDetach, Detach
  <2>2. ASSUME NEW c \in Conns, NEW t \in Segs, Owned(c, t) PROVE Owned(c, t)'
    <3>1. ~Active(t)
      BY <2>1 DEF DrainInv
    <3> QED
      BY <2>1, <2>2, <3>1 DEF Owned, Active, InFlight
  <2>3. up' = up \/ (conn \in Conns /\ up' = [up EXCEPT ![conn] = Append(@, Msg("close", None))])
    BY <1>9 DEF ShutdownDetach, Detach, SockOpen, TaskTypes
  <2>4. \A c \in Conns, t \in Segs : NoMore(up[c], up'[c], t)
    BY <1>4, <2>3, SameIsNoMore
  <2> QED
    BY <1>2, <2>1, <2>2, <2>4, SameIsNoMore DEF Quiet
<1>10. CASE ShutdownClose
  <2>1. /\ UNCHANGED <<up, text, pending, down, pc, segQueue, conn, target>>
        /\ svc = "closing"
    BY <1>10 DEF ShutdownClose
  <2>2. ASSUME NEW c \in Conns, NEW t \in Segs, Owned(c, t) PROVE Owned(c, t)'
    <3>1. ~Active(t)
      BY <2>1 DEF DrainInv
    <3>2. reader[c] # "running" => reader'[c] # "running"
      BY <1>10 DEF ShutdownClose, Close, TaskTypes
    <3> QED
      BY <2>1, <2>2, <3>1, <3>2 DEF Owned, Active, InFlight
  <2>3. queue' = queue \/ (segQueue \in Segs /\ queue' = [queue EXCEPT ![segQueue] = Append(@, Closed)])
    BY <1>10 DEF ShutdownClose, Close, TaskTypes
  <2>4. \A s, t \in Segs : NoMore(queue[s], queue'[s], t)
    BY <1>3, <2>3, SameIsNoMore
  <2> QED
    BY <2>1, <2>2, <2>4, SameIsNoMore DEF Quiet
<1>11. CASE Abort
  <2>1. UNCHANGED <<up, text, pending, down, queue, segQueue, conn, target, reader>>
    BY <1>11 DEF Abort
  <2>2. \A t \in Segs : pc'[t] = pc[t] \/ (pc'[t] = "done" /\ outcome'[t] = "cancelled")
    BY <1>11 DEF Abort, TaskTypes
  <2>3. ASSUME NEW c \in Conns, NEW t \in Segs, Owned(c, t) PROVE Owned(c, t)' \/ Cut(t)'
    <3>1. CASE pc'[t] = pc[t]
      BY <2>1, <2>3, <3>1 DEF Owned
    <3>2. CASE outcome'[t] = "cancelled"
      BY <3>2 DEF Cut, Segs
    <3> QED
      BY <2>2, <3>1, <3>2
  <2>4. \A t \in Segs : pc'[t] = pc[t] \/ pc'[t] \notin Unsent \cup {"speak"}
    BY <2>2 DEF Unsent
  <2> QED
    BY <1>2, <2>1, <2>3, <2>4, SameIsNoMore DEF Quiet
<1>12. ASSUME NEW s \in Segs, RunTts(s) PROVE Quiet
  <2>1. UNCHANGED <<up, text, pending, down, queue, segQueue, conn, target, reader>>
    BY <1>12 DEF RunTts
  <2>2. /\ pc[s] = "new" /\ pc'[s] = "lock" /\ \A t \in Segs : t # s => pc'[t] = pc[t]
    BY <1>12 DEF RunTts, TaskTypes
  <2>3. ASSUME NEW c \in Conns, NEW t \in Segs, OnWire(c, t), Owned(c, t) PROVE Owned(c, t)'
    <3>1. t # s
      BY <1>5, <2>2, <2>3 DEF Unsent
    <3> QED
      BY <2>1, <2>2, <2>3, <3>1 DEF Owned
  <2>4. ASSUME NEW t \in Segs
        PROVE (pc'[t] \in Unsent => pc[t] \in Unsent) /\ (pc'[t] = "speak" => pc[t] = "speak")
    BY <2>2 DEF Unsent
  <2> QED
    BY <1>2, <2>1, <2>3, <2>4, SameIsNoMore DEF Quiet
<1>13. ASSUME NEW s \in Segs, Finalize(s) PROVE Quiet
  <2>1. /\ UNCHANGED <<up, text, pending, down, queue, pc, conn, target, reader>>
        /\ segQueue' = Released(s)
    BY <1>13 DEF Finalize
  <2>2. pc[s] = "done"
    BY <1>13 DEF Finalize, DrainInv
  <2>3. ASSUME NEW c \in Conns, NEW t \in Segs, Owned(c, t) PROVE Owned(c, t)'
    BY <2>1, <2>2, <2>3 DEF Owned, Released
  <2>4. segQueue' \in {segQueue, None}
    BY <2>1 DEF Released
  <2> QED
    BY <1>2, <2>1, <2>3, <2>4, SameIsNoMore DEF Quiet
<1>14. ASSUME NEW d \in Conns, ReaderExit(d) PROVE Quiet
  <2>1. UNCHANGED <<up, text, pending, down, pc, segQueue, conn, target>>
    BY <1>14 DEF ReaderExit
  <2>2. ASSUME NEW c \in Conns, NEW t \in Segs, Owned(c, t) PROVE Owned(c, t)'
    <3>1. reader[c] # "running" => reader'[c] # "running"
      BY <1>14 DEF ReaderExit, TaskTypes
    <3> QED
      BY <2>1, <2>2, <3>1 DEF Owned
  <2>3. queue' = queue \/ (segQueue \in Segs /\ queue' = [queue EXCEPT ![segQueue] = Append(@, Closed)])
    BY <1>14 DEF ReaderExit, TaskTypes
  <2>4. \A s, t \in Segs : NoMore(queue[s], queue'[s], t)
    BY <1>3, <2>3, SameIsNoMore
  <2> QED
    BY <2>1, <2>2, <2>4, SameIsNoMore DEF Quiet
<1>15. ASSUME NEW d \in Conns, ServerFault(d) PROVE Quiet
  <2>1. UNCHANGED <<up, text, pending, queue, pc, segQueue, conn, target, reader>>
    BY <1>15 DEF ServerFault
  <2>2. \A c \in Conns, t \in Segs : Owned(c, t) => Owned(c, t)'
    BY <2>1 DEF Owned
  <2>3. down' = down \/ down' = [down EXCEPT ![d] = Append(@, Msg("error", None))]
    BY <1>15 DEF ServerFault
  <2>4. ASSUME NEW c \in Conns, NEW t \in Segs PROVE NoMore(down[c], down'[c], t)
    <3> DEFINE m == Msg("error", None)
    <3>1. m \in Frames \cup Notices /\ m.seg # t /\ down \in [Conns -> Seq(Frames \cup Notices)]
      BY Tasks DEF Msg, Notices, WireTypes
    <3> HIDE DEF m
    <3>2. NoMore(down[c], [down EXCEPT ![d] = Append(@, m)][c], t)
      BY <3>1, OtherItemAt
    <3> QED
      BY <2>3, <3>2, SameIsNoMore DEF m
  <2> QED
    BY <1>2, <2>1, <2>2, <2>4, SameIsNoMore DEF Quiet
<1> QED
  BY <1>6, <1>7, <1>8, <1>9, <1>10, <1>11, <1>12, <1>13, <1>14, <1>15
  DEF PrewarmStep, ShutdownStep

\* Every step keeps whose frames are where.
LEMMA FrameKept ==
  DrainInv /\ TaskTypes /\ WireTypes /\ SerialInv /\ FrameInv /\ [Next]_vars => FrameInv'
<1> SUFFICES ASSUME DrainInv, TaskTypes, WireTypes, SerialInv, FrameInv, [Next]_vars
             PROVE FrameInv'
  OBVIOUS
<1>1. ASSUME NEW s \in Segs, SegStep(s) PROVE FrameInv'
  <2>1. CASE AcquireSend(s) /\ SockOpen(conn)
    <3>1. conn \in Conns
      BY <2>1 DEF SockOpen, TaskTypes
    <3>2. /\ Speak(s, conn) /\ pc[s] = "lock" /\ conn' = conn
          /\ UNCHANGED <<text, pending, down, queue>>
      BY <2>1 DEF AcquireSend, serverVars
    <3> QED
      BY <1>1, <3>1, <3>2, SpeakKeeps DEF Unsent
  <2>2. CASE Connected(s)
    <3>1. PICK c \in Conns : Open(c) /\ Speak(s, c)
      BY <2>2 DEF Connected
    <3>2. pc[s] = "connecting" /\ conn' = c /\ UNCHANGED <<text, pending, down, queue>>
      BY <2>2, <3>1 DEF Connected, Open, serverVars
    <3> QED
      BY <1>1, <3>1, <3>2, SpeakKeeps DEF Unsent
  <2>3. CASE Flush(s) /\ SockOpen(conn)
    BY <2>3, FlushKeeps
  <2>4. CASE SilentStep(s)
    BY <2>4, SilentIsQuiet, QuietKeeps
  <2> QED
    BY <1>1, <2>1, <2>2, <2>3, <2>4 DEF SegStep, SilentStep
<1>2. ASSUME NEW c \in Conns, ReaderRead(c) \/ ServerRead(c) \/ ServerSend(c) PROVE FrameInv'
  BY <1>2, ReaderReadKeeps, ServerReadKeeps, ServerSendKeeps
<1>3. CASE \/ PrewarmStep \/ ShutdownStep \/ BargeIn \/ SendClear \/ CancelFrame \/ EndFrame \/ Abort
           \/ UNCHANGED vars
           \/ \E s \in Segs : RunTts(s) \/ Finalize(s)
           \/ \E c \in Conns : ReaderExit(c) \/ ServerFault(c)
  BY <1>3, OutsideIsQuiet, QuietKeeps
<1> QED
  BY <1>1, <1>2, <1>3 DEF Next, ReaderStep, ServerStep

\* What a call has consumed stays what it may consume.
LEMMA GotKept ==
  TaskTypes /\ WireTypes /\ SerialInv /\ FrameInv /\ GotInv /\ [Next]_vars => GotInv'
<1> SUFFICES ASSUME TaskTypes, WireTypes, SerialInv, FrameInv, GotInv, [Next]_vars,
                    NEW s \in Segs, NEW t \in got'[s]
             PROVE Theirs(s, t)'
  BY DEF GotInv
<1> USE DEF callVars, lockVars, connVars, ctlVars, netVars, serverVars, clientVars
<1>1. ASSUME NEW u \in Segs, Theirs(s, u) PROVE Theirs(s, u)'
  BY <1>1, CutStays DEF Theirs
<1>2. CASE t \in got[s]
  <2>1. t \in Segs
    BY <1>2 DEF WireTypes
  <2> QED
    BY <1>1, <1>2, <2>1 DEF GotInv
<1>3. CASE t \notin got[s]
  <2>1. PICK u \in Segs : Drain(u)
    <3>1. got' # got
      BY <1>3
    <3>2. \A c \in Conns : ~ReaderStep(c) /\ ~ServerStep(c)
      BY <3>1 DEF ReaderStep, ReaderRead, ReaderExit, ServerStep, ServerRead, ServerSend, ServerFault
    <3>3. ~PrewarmStep /\ ~ShutdownStep
      BY <3>1 DEF PrewarmStep, PrewarmOpened, PrewarmFailed, ShutdownStep, ShutdownDetach, ShutdownClose
    <3>4. ~BargeIn /\ ~SendClear /\ ~CancelFrame /\ ~EndFrame /\ ~Abort /\ ~UNCHANGED vars
      BY <3>1 DEF BargeIn, SendClear, CancelFrame, EndFrame, Abort, vars
    <3>5. \A u \in Segs : SegStep(u) \/ RunTts(u) \/ Finalize(u) => Drain(u)
      BY <3>1 DEF SegStep, RunTts, Finalize, AcquireSend, Connected, ConnectFailed, Flush,
         ReleaseSend, DrainTimeout, FailDetach, FailClose
    <3> QED
      BY <3>2, <3>3, <3>4, <3>5 DEF Next
  <2> DEFINE m == Head(queue[u])
  <2>2. /\ queue[u] # <<>> /\ queue[u] \in Seq(Frames \cup Notices) /\ m \in Frames \cup Notices
        /\ got' = got \/ (m.kind \in {"audio", "flushed"} /\ got' = [got EXCEPT ![u] = @ \cup {m.seg}])
        /\ got \in [Segs -> SUBSET Segs]
    BY <2>1 DEF Drain, WireTypes
  <2> HIDE DEF m
  <2>3. s = u /\ t = m.seg /\ m.kind \in {"audio", "flushed"}
    BY <1>3, <2>2
  <2>4. t \in Segs
    BY <2>2, <2>3 DEF Frames, Notices
  <2>5. Has(queue[s], t)
    BY <2>2, <2>3, HeadItem DEF m
  <2>6. Theirs(s, t)
    BY <2>4, <2>5 DEF FrameInv, QueueInv
  <2> QED
    BY <1>1, <2>4, <2>6
<1> QED
  BY <1>2, <1>3

\* All this is inductive together.
LEMMA FramesAlways == Spec => [](TaskTypes /\ WireTypes /\ FrameInv /\ GotInv)
<1>1. Init => TaskTypes /\ WireTypes /\ SerialInv
  <2>1. Init => TaskTypes
    BY BoundsAssumption DEF Init, TaskTypes, Lockers, PCs, None
  <2>2. Init => WireTypes
    BY DEF Init, WireTypes
  <2>3. Init => SerialInv
    BY DEF Init, SerialInv
  <2> QED
    BY <2>1, <2>2, <2>3
<1>2. Init => FrameInv /\ GotInv
  <2> SUFFICES ASSUME Init PROVE FrameInv /\ GotInv
    OBVIOUS
  <2>1. \A c \in Conns : up[c] = <<>> /\ text[c] = <<>> /\ pending[c] = <<>> /\ down[c] = <<>>
    BY DEF Init
  <2>2. \A s \in Segs : queue[s] = <<>> /\ got[s] = {}
    BY DEF Init
  <2>3. \A c \in Conns, t \in Segs : ~OnWire(c, t) /\ EndsInOrder(c, t)
    BY <2>1, NothingInEmpty DEF OnWire, EndsInOrder
  <2> QED
    BY <2>2, <2>3, NothingInEmpty DEF FrameInv, WireInv, OrderInv, QueueInv, GotInv, EndIsRead
<1> QED
  BY <1>1, <1>2, TaskTypesKept, WireTypesKept, SerialKept, FrameKept, GotKept, DrainInvariant,
     PTL DEF Spec

\* Stale audio needs an interruption: whoever's frames a call consumes other
\* than its own, that call or an earlier one was cancelled.
THEOREM StaleAudioNeedsInterruption == Spec => []OwnOrInterrupted
<1>1. TaskTypes /\ WireTypes /\ GotInv => OwnOrInterrupted
  <2> SUFFICES ASSUME WireTypes, GotInv, NEW s \in Segs, NEW t \in got[s] \ {s}
               PROVE t < s /\ \E u \in Segs : u <= t /\ outcome[u] = "cancelled"
    BY DEF OwnOrInterrupted
  <2> QED
    BY DEF GotInv, Theirs, Cut
<1> QED
  BY <1>1, FramesAlways, PTL

-----------------------------------------------------------------------------
(* The service is what Speech promises.                                    *)

Phases == [s \in Segs |-> Phase(s)]

LEMMA PhaseIs ==
  /\ Phases \in [Segs -> {"new", "speaking", "over"}]
  /\ \A s \in Segs : Phases[s] = Phase(s)
  BY DEF Phases, Phase

LEMMA PhaseOfCall ==
  ASSUME TaskTypes, NEW s \in Segs
  PROVE  /\ Phase(s) = "new" <=> pc[s] = "new"
         /\ Phase(s) = "over" <=> pc[s] = "done"
         /\ Phase(s) = "speaking" <=> Active(s)
  BY DEF Phase, TaskTypes, PCs, Active, InFlight

\* A step that takes no call out of its phase, and ends and hears nothing, is
\* none for Speech, as long as the service takes calls or goes on taking none.
LEMMA Unspoken ==
  ASSUME svc' = "running" <=> svc = "running", UNCHANGED <<got, outcome>>,
         \A s \in Segs : Phase(s)' = Phase(s)
  PROVE  UNCHANGED P!vars
<1>1. Phases' = Phases
  BY DEF Phases
<1> QED
  BY <1>1 DEF P!vars, Phases

\* The phases behind a step of one call.
LEMMA PhaseStep ==
  ASSUME TaskTypes, NEW s \in Segs, NEW x, pc' = [pc EXCEPT ![s] = x]
  PROVE  /\ x = "done" => Phases' = [Phases EXCEPT ![s] = "over"]
         /\ x \in InFlight => Phases' = [Phases EXCEPT ![s] = "speaking"]
         /\ x \in InFlight /\ Active(s) => \A t \in Segs : Phase(t)' = Phase(t)
<1>1. \A t \in Segs : pc'[t] = IF t = s THEN x ELSE pc[t]
  BY DEF TaskTypes
<1>2. \A t \in Segs \ {s} : Phase(t)' = Phase(t)
  BY <1>1 DEF Phase
<1>3. CASE x = "done"
  <2>1. Phase(s)' = "over"
    BY <1>1, <1>3 DEF Phase
  <2> QED
    BY <1>2, <1>3, <2>1 DEF Phases, InFlight
<1>4. CASE x \in InFlight
  <2>1. Phase(s)' = "speaking"
    BY <1>1, <1>4 DEF Phase, InFlight
  <2>2. Active(s) => Phase(s) = "speaking"
    BY PhaseOfCall
  <2> QED
    BY <1>2, <1>4, <2>1, <2>2 DEF Phases, InFlight
<1> QED
  BY <1>3, <1>4

\* What a draining call takes from its queue, Speech allows it to hear.
LEMMA DrainIsHeard ==
  ASSUME TaskTypes, WireTypes, FrameInv, NEW s \in Segs, Drain(s)
  PROVE  [P!Next]_(P!vars)
<1> DEFINE m == Head(queue[s])
<1>1. /\ queue[s] # <<>> /\ queue[s] \in Seq(Frames \cup Notices) /\ m \in Frames \cup Notices
      /\ Active(s) /\ UNCHANGED svc
  BY DEF Drain, WireTypes, Active, InFlight, ctlVars
<1>2. \/ /\ m.kind = "audio" /\ got' = [got EXCEPT ![s] = @ \cup {m.seg}]
         /\ UNCHANGED <<pc, outcome>>
      \/ /\ m.kind = "flushed" /\ got' = [got EXCEPT ![s] = @ \cup {m.seg}]
         /\ outcome' = [outcome EXCEPT ![s] = "stopped"] /\ pc' = [pc EXCEPT ![s] = "done"]
      \/ pc' = [pc EXCEPT ![s] = "failing"] /\ UNCHANGED <<got, outcome>>
  BY DEF Drain
<1>3. ASSUME m.kind \in {"audio", "flushed"} PROVE m.seg \in P!Audible(s)
  <2>1. m.seg \in Segs /\ Has(queue[s], m.seg)
    <3>1. m.seg \in Segs
      BY <1>1, <1>3 DEF Frames, Notices
    <3> QED
      BY <1>1, <3>1, HeadItem
  <2>2. Theirs(s, m.seg)
    BY <2>1 DEF FrameInv, QueueInv
  <2> QED
    BY <2>1, <2>2 DEF Theirs, Cut, P!Audible, P!Calls, Segs
<1> HIDE DEF m
<1>4. Phases[s] = "speaking"
  BY <1>1, PhaseIs, PhaseOfCall
<1>5. CASE m.kind = "audio" /\ got' = [got EXCEPT ![s] = @ \cup {m.seg}] /\ UNCHANGED <<pc, outcome>>
  <2>1. P!Hear(s)
    BY <1>3, <1>4, <1>5 DEF P!Hear, Phases
  <2>2. Phases' = Phases
    BY <1>5 DEF Phases, Phase
  <2>3. P!Speaks(s)
    BY <1>1, <1>5, <2>1, <2>2 DEF P!Speaks, Phases
  <2> QED
    BY <2>3 DEF P!Next, P!Calls, Segs
<1>6. CASE /\ m.kind = "flushed" /\ got' = [got EXCEPT ![s] = @ \cup {m.seg}]
           /\ outcome' = [outcome EXCEPT ![s] = "stopped"] /\ pc' = [pc EXCEPT ![s] = "done"]
  <2>1. P!Hear(s)
    BY <1>3, <1>4, <1>6 DEF P!Hear, Phases
  <2>2. Phases' = [Phases EXCEPT ![s] = "over"]
    BY <1>6, PhaseStep
  <2>3. P!Ends(s, "stopped")
    BY <1>4, <1>6, <2>2 DEF P!Ends, Phases
  <2>4. P!Finishes(s)
    BY <1>1, <2>1, <2>3 DEF P!Finishes
  <2> QED
    BY <2>4 DEF P!Next, P!Calls, Segs
<1>7. CASE pc' = [pc EXCEPT ![s] = "failing"] /\ UNCHANGED <<got, outcome>>
  <2>1. \A t \in Segs : Phase(t)' = Phase(t)
    BY <1>1, <1>7, PhaseStep DEF InFlight
  <2> QED
    BY <1>1, <1>7, <2>1, Unspoken
<1> QED
  BY <1>2, <1>5, <1>6, <1>7

\* The end of the call in flight by a cancellation, and of the service by the
\* end of the pipeline.
LEMMA EndsAreSpoken ==
  ASSUME TaskTypes, Abort \/ EndFrame
  PROVE  P!Next
<1>1. CASE Abort
  <2>1. \A s \in Segs : Phase(s)' = IF Phase(s) = "speaking" THEN "over" ELSE Phase(s)
    BY <1>1, PhaseOfCall DEF Abort, Phase
  <2>2. Phases' = [s \in P!Calls |-> IF Phases[s] = "speaking" THEN "over" ELSE Phases[s]]
    BY <2>1, PhaseIs DEF Phases, P!Calls, Segs
  <2>3. outcome' = [s \in P!Calls |-> IF Phases[s] = "speaking" THEN "cancelled" ELSE outcome[s]]
    BY <1>1, PhaseIs, PhaseOfCall DEF Abort, P!Calls, Segs
  <2>4. (svc' = "running") \in {svc = "running", FALSE} /\ UNCHANGED got
    BY <1>1 DEF Abort
  <2> QED
    BY <2>2, <2>3, <2>4 DEF P!Next, P!CutOff, Phases
<1>2. CASE EndFrame
  <2>1. /\ svc = "running" /\ svc' # "running" /\ UNCHANGED <<pc, got, outcome>>
        /\ \A s \in Segs : ~Active(s)
    BY <1>2 DEF EndFrame, callVars
  <2>2. Phases' = Phases
    BY <2>1 DEF Phases, Phase
  <2>3. \A s \in P!Calls : Phases[s] # "speaking"
    BY <2>1, PhaseIs, PhaseOfCall DEF P!Calls, Segs
  <2> QED
    BY <2>1, <2>2, <2>3 DEF P!Next, P!Close, Phases
<1> QED
  BY <1>1, <1>2

LEMMA SpeechStep ==
  TaskTypes /\ WireTypes /\ FrameInv /\ [Next]_vars => [P!Next]_(P!vars)
<1> SUFFICES ASSUME TaskTypes, WireTypes, FrameInv, [Next]_vars PROVE [P!Next]_(P!vars)
  OBVIOUS
<1> USE DEF callVars, ctlVars
<1>1. ASSUME UNCHANGED <<pc, got, outcome>>, svc' = "running" <=> svc = "running"
      PROVE  UNCHANGED P!vars
  BY <1>1, Unspoken DEF Phase
<1>2. CASE PrewarmStep \/ ShutdownStep
  BY <1>1, <1>2 DEF PrewarmStep, PrewarmOpened, PrewarmFailed, ShutdownStep, ShutdownDetach,
    ShutdownClose
<1>3. CASE BargeIn \/ SendClear \/ CancelFrame
  BY <1>1, <1>3 DEF BargeIn, SendClear, CancelFrame
<1>4. CASE Abort \/ EndFrame
  BY <1>4, EndsAreSpoken
<1>5. ASSUME NEW s \in Segs, RunTts(s) PROVE P!Next
  <2>1. /\ svc = "running" /\ svc' = "running" /\ pc[s] = "new" /\ pc' = [pc EXCEPT ![s] = "lock"]
        /\ \A t \in Segs : t < s => pc[t] = "done"
        /\ UNCHANGED <<got, outcome>>
    BY <1>5 DEF RunTts
  <2>2. Phases' = [Phases EXCEPT ![s] = "speaking"]
    BY <2>1, PhaseStep DEF InFlight
  <2>3. Phases[s] = "new" /\ \A t \in P!Calls : t < s => Phases[t] = "over"
    BY <2>1, PhaseIs, PhaseOfCall DEF P!Calls, Segs
  <2>4. P!Begin(s)
    BY <2>1, <2>2, <2>3 DEF P!Begin, Phases
  <2> QED
    BY <2>4 DEF P!Next, P!Calls, Segs
<1>6. ASSUME NEW s \in Segs, Finalize(s) PROVE UNCHANGED P!vars
  BY <1>1, <1>6 DEF Finalize
<1>7. ASSUME NEW s \in Segs, SegStep(s) PROVE [P!Next]_(P!vars)
  <2>1. CASE Drain(s)
    BY <2>1, DrainIsHeard
  <2>2. CASE FailClose(s)
    <3>1. /\ pc[s] = "closing" /\ pc' = [pc EXCEPT ![s] = "done"]
          /\ outcome' = [outcome EXCEPT ![s] = "error"] /\ UNCHANGED <<svc, got>>
      BY <2>2 DEF FailClose
    <3>2. Phases' = [Phases EXCEPT ![s] = "over"] /\ Phases[s] = "speaking"
      BY <3>1, PhaseStep, PhaseIs, PhaseOfCall DEF Active, InFlight
    <3>3. P!Fails(s)
      BY <3>1, <3>2 DEF P!Fails, P!Ends, Phases
    <3> QED
      BY <3>3 DEF P!Next, P!Calls, Segs
  <2>3. CASE ~Drain(s) /\ ~FailClose(s)
    <3>1. PICK x \in InFlight : Active(s) /\ pc' = [pc EXCEPT ![s] = x]
      BY <1>7, <2>3 DEF SegStep, AcquireSend, Connected, ConnectFailed, Flush, ReleaseSend,
        DrainTimeout, FailDetach, Speak, Active, InFlight
    <3>2. UNCHANGED <<svc, got, outcome>>
      BY <1>7, <2>3 DEF SegStep, AcquireSend, Connected, ConnectFailed, Flush, ReleaseSend,
        DrainTimeout, FailDetach
    <3>3. \A t \in Segs : Phase(t)' = Phase(t)
      BY <3>1, PhaseStep
    <3> QED
      BY <3>2, <3>3, Unspoken
  <2> QED
    BY <2>1, <2>2, <2>3
<1>8. ASSUME NEW c \in Conns, ReaderStep(c) \/ ServerStep(c) PROVE UNCHANGED P!vars
  BY <1>1, <1>8 DEF ReaderStep, ReaderRead, ReaderExit, ServerStep, ServerRead, ServerSend,
    ServerFault, clientVars
<1>9. CASE UNCHANGED vars
  BY <1>1, <1>9 DEF vars, clientVars
<1> QED
  BY <1>2, <1>3, <1>4, <1>5, <1>6, <1>7, <1>8, <1>9 DEF Next

\* The service implements Speech, whatever the server does: calls are spoken one
\* at a time and none once it stops, each ends once and hears nothing behind its
\* end, and only its own speech unless somebody was cut off before.
THEOREM ServiceImplementsSpeech == Spec => ImplementsSpeech
<1>1. Init => P!Init
  BY DEF Init, P!Init, P!Calls, Segs, Phase
<1> QED
  BY <1>1, SpeechStep, FramesAlways, PTL DEF Spec, ImplementsSpeech, P!Spec
=============================================================================
