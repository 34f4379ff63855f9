----------------------------- MODULE DeepgramTTS -----------------------------
(***************************************************************************)
(* The streaming text-to-speech service of a voice session                 *)
(* (voice/providers/tts_deepgram_ws.py): one WebSocket kept open for the   *)
(* whole session, a reader task that routes every inbound frame to         *)
(* whichever segment queue is registered when the frame is read, and       *)
(* run_tts calls that register a queue, send Speak and Flush, and drain    *)
(* the queue until Flushed.                                                *)
(*                                                                         *)
(* An action is the code between two suspension points of one asyncio      *)
(* task.  Pipecat serialises run_tts calls; a StartInterruptionFrame or a  *)
(* CancelFrame cancels the one in flight.  The Deepgram server is          *)
(* external: it answers a Flush with the audio of the text it holds and a  *)
(* Flushed, drops both on Clear, and may fail at any time.                 *)
(***************************************************************************)
EXTENDS Naturals, Sequences, FiniteSets

CONSTANTS
  NSegs,        \* number of run_tts calls of a behaviour
  NConns,       \* number of WebSockets the server accepts
  NBargeIns,    \* number of StartInterruptionFrames
  NFaults       \* number of server faults (dropped socket or Error frame)

ASSUME BoundsAssumption ==
  /\ NSegs \in Nat \ {0} /\ NConns \in Nat \ {0}
  /\ NBargeIns \in Nat /\ NFaults \in Nat

None == 0                              \* Python's None, and a free lock
Segs == 1 .. NSegs
Conns == 1 .. NConns
Prewarm == NSegs + 1                   \* the task prewarm() runs in
Shutdown == NSegs + 2                  \* stop() or cancel() of the service
Closers == Segs \cup {Shutdown}        \* the callers of aclose
Lockers == Segs \cup {Prewarm}         \* the callers that take _send_lock

VARIABLES
  svc,        \* the service: running, then acquiring, closing, stopped
  prewarm,    \* the prewarm task: connecting or done
  pc,         \* where each run_tts call is suspended
  outcome,    \* how it ended: its last frame, or the cancellation
  wsOf,       \* the WebSocket a run_tts call sent its Speak on
  got,        \* the segments whose frames a run_tts call consumed
  lagging,    \* calls whose synthesize generator awaits its finalizer
  queue,      \* the asyncio.Queue of each call
  sendLock,   \* holder of _send_lock
  stateLock,  \* holder of _state_lock across an await
  conn,       \* _connection; _reader_task is set and cleared with it
  segQueue,   \* _segment_queue: the call whose queue is registered
  target,     \* the WebSocket a caller of aclose is closing
  reader,     \* the reader task of each WebSocket
  clears,     \* send_clear tasks not yet run
  abort,      \* the frame that is cancelling the call in flight
  bargeIns,   \* barge-ins so far
  sock,       \* external: state of each WebSocket
  up, down,   \* external: frames in flight to and from the server
  text,       \* external: text the server holds since the last Flush
  pending,    \* external: answers the server has not sent yet
  faults      \* external: faults so far

callVars == <<pc, outcome, wsOf, got, lagging>>
lockVars == <<sendLock, stateLock>>
connVars == <<conn, segQueue, target, reader>>
ctlVars == <<svc, prewarm, clears, abort, bargeIns>>
clientVars == <<callVars, queue, lockVars, connVars, ctlVars>>
netVars == <<sock, up, down>>
serverVars == <<text, pending, faults>>
vars == <<clientVars, netVars, serverVars>>

Msg(k, s) == [kind |-> k, seg |-> s]
Closed == Msg("closed", None)          \* _CLOSED_SENTINEL

\* The points at which a run_tts call is suspended.
InFlight == {"lock", "connecting", "speak", "flush", "drain", "failing", "closing"}
PCs == InFlight \cup {"new", "done"}

Active(s) == pc[s] \in InFlight
SockOpen(c) == c # None /\ sock[c] = "open"

Init ==
  /\ svc = "running"
  \* prewarm() is spawned before the pipeline runs, and only in "ws" mode
  /\ \/ prewarm = "connecting" /\ sendLock = Prewarm /\ stateLock = Prewarm
     \/ prewarm = "done" /\ sendLock = None /\ stateLock = None
  /\ pc = [s \in Segs |-> "new"]
  /\ outcome = [s \in Segs |-> "none"]
  /\ wsOf = [s \in Segs |-> None]
  /\ got = [s \in Segs |-> {}]
  /\ lagging = {}
  /\ queue = [s \in Segs |-> <<>>]
  /\ conn = None /\ segQueue = None
  /\ target = [a \in Closers |-> None]
  /\ reader = [c \in Conns |-> "none"]
  /\ clears = 0 /\ abort = "none" /\ bargeIns = 0
  /\ sock = [c \in Conns |-> "none"]
  /\ up = [c \in Conns |-> <<>>] /\ down = [c \in Conns |-> <<>>]
  /\ text = [c \in Conns |-> <<>>] /\ pending = [c \in Conns |-> <<>>]
  /\ faults = 0

-----------------------------------------------------------------------------
(* Opening the WebSocket: prewarm and _ensure_open_locked. *)

\* websockets.connect succeeds: _connection and its reader task are set.
Open(c) ==
  /\ sock[c] = "none" /\ \A d \in Conns : d < c => sock[d] # "none"
  /\ sock' = [sock EXCEPT ![c] = "open"]
  /\ reader' = [reader EXCEPT ![c] = "running"]
  /\ conn' = c /\ stateLock' = None

PrewarmOpened ==
  /\ prewarm = "connecting" /\ \E c \in Conns : Open(c)
  /\ prewarm' = "done" /\ sendLock' = None
  /\ UNCHANGED <<svc, queue, segQueue, target, clears, abort, bargeIns, up, down, callVars,
                 serverVars>>

\* Failures are swallowed: the lazy reconnect stays available.
PrewarmFailed ==
  /\ prewarm = "connecting"
  /\ prewarm' = "done" /\ sendLock' = None /\ stateLock' = None
  /\ UNCHANGED <<svc, queue, clears, abort, bargeIns, callVars, connVars, netVars,
                 serverVars>>

-----------------------------------------------------------------------------
(* run_tts and synthesize. *)

\* Pipecat calls run_tts for the next text once the previous call is over.
RunTts(s) ==
  /\ svc = "running" /\ abort = "none" /\ pc[s] = "new"
  /\ \A t \in Segs : t < s => pc[t] = "done"
  /\ pc' = [pc EXCEPT ![s] = "lock"]
  /\ UNCHANGED <<outcome, wsOf, got, lagging, queue, lockVars, connVars, ctlVars, netVars,
                 serverVars>>

\* The queue is registered and Speak written, with no suspension in between.
Speak(s, c) ==
  /\ segQueue' = s
  /\ wsOf' = [wsOf EXCEPT ![s] = c]
  /\ up' = [up EXCEPT ![c] = Append(@, Msg("speak", s))]
  /\ pc' = [pc EXCEPT ![s] = "speak"]

AcquireSend(s) ==
  /\ pc[s] = "lock" /\ sendLock = None /\ sendLock' = s
  /\ \/ /\ SockOpen(conn)
        /\ Speak(s, conn)
        /\ UNCHANGED stateLock
     \/ /\ ~SockOpen(conn) /\ stateLock = None
        /\ stateLock' = s
        /\ pc' = [pc EXCEPT ![s] = "connecting"]
        /\ UNCHANGED <<segQueue, wsOf, up>>
  /\ UNCHANGED <<outcome, got, lagging, queue, conn, target, reader, sock, down, ctlVars,
                 serverVars>>

Connected(s) ==
  /\ pc[s] = "connecting"
  /\ \E c \in Conns : Open(c) /\ Speak(s, c)
  /\ UNCHANGED <<outcome, got, lagging, queue, sendLock, target, down, ctlVars, serverVars>>

ConnectFailed(s) ==
  /\ pc[s] = "connecting"
  /\ pc' = [pc EXCEPT ![s] = "failing"] /\ sendLock' = None /\ stateLock' = None
  /\ UNCHANGED <<outcome, wsOf, got, lagging, queue, connVars, ctlVars, netVars,
                 serverVars>>

\* Flush goes out on whatever _connection is by now.
Flush(s) ==
  /\ pc[s] = "speak"
  /\ \/ /\ SockOpen(conn)
        /\ up' = [up EXCEPT ![conn] = Append(@, Msg("flush", s))]
        /\ pc' = [pc EXCEPT ![s] = "flush"]
        /\ UNCHANGED <<segQueue, sendLock>>
     \/ /\ ~SockOpen(conn)
        /\ segQueue' = None /\ sendLock' = None
        /\ pc' = [pc EXCEPT ![s] = "failing"]
        /\ UNCHANGED up
  /\ UNCHANGED <<outcome, wsOf, got, lagging, queue, stateLock, conn, target, reader, sock,
                 down, ctlVars, serverVars>>

ReleaseSend(s) ==
  /\ pc[s] = "flush"
  /\ pc' = [pc EXCEPT ![s] = "drain"] /\ sendLock' = None
  /\ UNCHANGED <<outcome, wsOf, got, lagging, queue, stateLock, connVars, ctlVars, netVars,
                 serverVars>>

\* Mutant of Released: finally does not look whose queue is registered.
ReleasedAlways(s) == None

\* The queue reference after synthesize's finally: released only if still own.
Released(s) == IF segQueue = s THEN None ELSE segQueue

\* One item leaves the queue.  After Flushed run_tts returns while its inner
\* generator is still suspended at the yield: the finally runs later.
Drain(s) ==
  /\ pc[s] = "drain" /\ queue[s] # <<>>
  /\ queue' = [queue EXCEPT ![s] = Tail(@)]
  /\ LET item == Head(queue[s]) IN
     \/ /\ item.kind = "audio"
        /\ got' = [got EXCEPT ![s] = @ \cup {item.seg}]
        /\ UNCHANGED <<pc, outcome, lagging, segQueue>>
     \/ /\ item.kind = "flushed"
        /\ got' = [got EXCEPT ![s] = @ \cup {item.seg}]
        /\ outcome' = [outcome EXCEPT ![s] = "stopped"]
        /\ pc' = [pc EXCEPT ![s] = "done"]
        /\ lagging' = lagging \cup {s}
        /\ UNCHANGED segQueue
     \/ /\ item.kind \in {"error", "closed"}
        /\ segQueue' = Released(s)
        /\ pc' = [pc EXCEPT ![s] = "failing"]
        /\ UNCHANGED <<got, outcome, lagging>>
  /\ UNCHANGED <<wsOf, conn, target, reader, lockVars, ctlVars, netVars, serverVars>>

\* Mutants of DrainTimeout: the call ends without aclose; or the wait has no
\* timeout, only a closed WebSocket ends it.
DrainTimeoutKeepsSocket(s) ==
  /\ pc[s] = "drain" /\ queue[s] = <<>>
  /\ segQueue' = Released(s)
  /\ pc' = [pc EXCEPT ![s] = "done"] /\ outcome' = [outcome EXCEPT ![s] = "error"]
  /\ UNCHANGED <<wsOf, got, lagging, queue, conn, target, reader, lockVars, ctlVars,
                 netVars, serverVars>>
DrainTimeoutIfClosed(s) ==
  /\ pc[s] = "drain" /\ queue[s] = <<>> /\ ~SockOpen(wsOf[s])
  /\ segQueue' = Released(s)
  /\ pc' = [pc EXCEPT ![s] = "failing"]
  /\ UNCHANGED <<outcome, wsOf, got, lagging, queue, conn, target, reader, lockVars,
                 ctlVars, netVars, serverVars>>

\* Nothing arrived for _FLUSH_WAIT_TIMEOUT_S.
DrainTimeout(s) ==
  /\ pc[s] = "drain" /\ queue[s] = <<>>
  /\ segQueue' = Released(s)
  /\ pc' = [pc EXCEPT ![s] = "failing"]
  /\ UNCHANGED <<outcome, wsOf, got, lagging, queue, conn, target, reader, lockVars,
                 ctlVars, netVars, serverVars>>

\* The event loop finalizes an abandoned synthesize generator.
Finalize(s) ==
  /\ s \in lagging
  /\ lagging' = lagging \ {s} /\ segQueue' = Released(s)
  /\ UNCHANGED <<pc, outcome, wsOf, got, queue, conn, target, reader, lockVars, ctlVars,
                 netVars, serverVars>>

-----------------------------------------------------------------------------
(* aclose: called by run_tts on every error, and by stop() and cancel(). *)

\* Mutant of Detach: _state_lock is not taken.
DetachUnlocked(a) ==
  /\ conn' = None /\ segQueue' = None
  /\ target' = [target EXCEPT ![a] = conn]
  /\ up' = IF SockOpen(conn) THEN [up EXCEPT ![conn] = Append(@, Msg("close", None))] ELSE up

\* Fields cleared under _state_lock; Close is written without suspending.
Detach(a) ==
  /\ stateLock = None
  /\ conn' = None /\ segQueue' = None
  /\ target' = [target EXCEPT ![a] = conn]
  /\ up' = IF SockOpen(conn) THEN [up EXCEPT ![conn] = Append(@, Msg("close", None))] ELSE up

\* conn.close() and the cancelled reader are awaited; its finally still
\* puts the sentinel into the queue registered by then, if any.
Close(a) ==
  LET c == target[a] IN
  /\ sock' = IF c = None THEN sock ELSE [sock EXCEPT ![c] = "closed"]
  /\ reader' = IF c = None THEN reader ELSE [reader EXCEPT ![c] = "exited"]
  /\ queue' = IF c # None /\ reader[c] = "running" /\ segQueue # None
              THEN [queue EXCEPT ![segQueue] = Append(@, Closed)] ELSE queue

FailDetach(s) ==
  /\ pc[s] = "failing" /\ Detach(s)
  /\ pc' = [pc EXCEPT ![s] = "closing"]
  /\ UNCHANGED <<outcome, wsOf, got, lagging, queue, reader, sock, down, lockVars, ctlVars,
                 serverVars>>

FailClose(s) ==
  /\ pc[s] = "closing" /\ Close(s)
  /\ pc' = [pc EXCEPT ![s] = "done"]
  /\ outcome' = [outcome EXCEPT ![s] = "error"]
  /\ UNCHANGED <<wsOf, got, lagging, conn, segQueue, target, up, down, lockVars, ctlVars,
                 serverVars>>

-----------------------------------------------------------------------------
(* Interruption, stop and cancel. *)

\* StartInterruptionFrame: a send_clear task is spawned, then the base
\* class cancels the call in flight.
BargeIn ==
  /\ svc = "running" /\ abort = "none" /\ bargeIns < NBargeIns
  /\ bargeIns' = bargeIns + 1 /\ clears' = clears + 1
  /\ abort' = "interrupt"
  /\ UNCHANGED <<svc, prewarm, queue, callVars, lockVars, connVars, netVars, serverVars>>

SendClear ==
  /\ clears > 0 /\ clears' = clears - 1
  /\ up' = IF SockOpen(conn) THEN [up EXCEPT ![conn] = Append(@, Msg("clear", None))] ELSE up
  /\ UNCHANGED <<svc, prewarm, queue, abort, bargeIns, sock, down, callVars, lockVars,
                 connVars, serverVars>>

\* CancelFrame: the base class cancels the call in flight first.
CancelFrame ==
  /\ svc = "running" /\ abort = "none"
  /\ abort' = "cancel"
  /\ UNCHANGED <<svc, prewarm, queue, clears, bargeIns, callVars, lockVars, connVars,
                 netVars, serverVars>>

\* EndFrame is queued behind the run_tts calls.
EndFrame ==
  /\ svc = "running" /\ abort = "none" /\ \A s \in Segs : ~Active(s)
  /\ svc' = "acquiring"
  /\ UNCHANGED <<prewarm, queue, clears, abort, bargeIns, callVars, lockVars, connVars,
                 netVars, serverVars>>

\* Mutant of Abort: the cancelled call keeps the state lock.
AbortHoldingLock ==
  LET Live == {s \in Segs : Active(s)} IN
  /\ abort # "none" /\ abort' = "none"
  /\ svc' = IF abort = "cancel" THEN "acquiring" ELSE svc
  /\ pc' = [s \in Segs |-> IF s \in Live THEN "done" ELSE pc[s]]
  /\ outcome' = [s \in Segs |-> IF s \in Live THEN "cancelled" ELSE outcome[s]]
  /\ sendLock' = IF sendLock \in Live THEN None ELSE sendLock
  /\ lagging' = lagging \cup {s \in Live : pc[s] = "drain"}
  /\ UNCHANGED <<prewarm, wsOf, got, queue, stateLock, clears, bargeIns, connVars, netVars,
                 serverVars>>

\* CancelledError reaches the call in flight, which is not an Exception: the
\* locks are released, no except clause runs.  While Speak or Flush is being
\* sent the queue stays registered; a drain releases it in its finalizer.
Abort ==
  LET Live == {s \in Segs : Active(s)} IN
  /\ abort # "none" /\ abort' = "none"
  /\ svc' = IF abort = "cancel" THEN "acquiring" ELSE svc
  /\ pc' = [s \in Segs |-> IF s \in Live THEN "done" ELSE pc[s]]
  /\ outcome' = [s \in Segs |-> IF s \in Live THEN "cancelled" ELSE outcome[s]]
  /\ sendLock' = IF sendLock \in Live THEN None ELSE sendLock
  /\ stateLock' = IF stateLock \in Live THEN None ELSE stateLock
  /\ lagging' = lagging \cup {s \in Live : pc[s] = "drain"}
  /\ UNCHANGED <<prewarm, wsOf, got, queue, clears, bargeIns, connVars, netVars,
                 serverVars>>

ShutdownDetach ==
  /\ svc = "acquiring" /\ Detach(Shutdown) /\ svc' = "closing"
  /\ UNCHANGED <<prewarm, queue, reader, clears, abort, bargeIns, sock, down, callVars,
                 lockVars, serverVars>>

ShutdownClose ==
  /\ svc = "closing" /\ Close(Shutdown) /\ svc' = "stopped"
  /\ UNCHANGED <<prewarm, conn, segQueue, target, clears, abort, bargeIns, up, down,
                 callVars, lockVars, serverVars>>

-----------------------------------------------------------------------------
(* The reader task of a WebSocket. *)

\* Every inbound frame goes to the queue registered now, or is dropped.
ReaderRead(c) ==
  /\ reader[c] = "running" /\ down[c] # <<>>
  /\ down' = [down EXCEPT ![c] = Tail(@)]
  /\ queue' = IF segQueue = None THEN queue
              ELSE [queue EXCEPT ![segQueue] = Append(@, Head(down[c]))]
  /\ UNCHANGED <<sock, up, callVars, lockVars, connVars, ctlVars, serverVars>>

\* Mutant of ReaderExit: the queue is ended by an item nobody knows.
ReaderExitRaw(c) ==
  /\ reader[c] = "running" /\ down[c] = <<>> /\ sock[c] = "closed"
  /\ reader' = [reader EXCEPT ![c] = "exited"]
  /\ queue' = IF segQueue = None THEN queue
              ELSE [queue EXCEPT ![segQueue] = Append(@, Msg("eof", None))]
  /\ UNCHANGED <<conn, segQueue, target, callVars, lockVars, ctlVars, netVars, serverVars>>

\* The WebSocket has closed: the sentinel wakes the registered consumer.
ReaderExit(c) ==
  /\ reader[c] = "running" /\ down[c] = <<>> /\ sock[c] = "closed"
  /\ reader' = [reader EXCEPT ![c] = "exited"]
  /\ queue' = IF segQueue = None THEN queue
              ELSE [queue EXCEPT ![segQueue] = Append(@, Closed)]
  /\ UNCHANGED <<conn, segQueue, target, callVars, lockVars, ctlVars, netVars, serverVars>>

-----------------------------------------------------------------------------
(* External: the Deepgram server and the network. *)

ServerRead(c) ==
  /\ sock[c] = "open" /\ up[c] # <<>>
  /\ up' = [up EXCEPT ![c] = Tail(@)]
  /\ LET m == Head(up[c]) IN
     \/ /\ m.kind = "speak"
        /\ text' = [text EXCEPT ![c] = Append(@, Msg("audio", m.seg))]
        /\ UNCHANGED <<pending, sock>>
     \/ /\ m.kind = "flush"
        /\ pending' = [pending EXCEPT ![c] = @ \o text[c] \o <<Msg("flushed", m.seg)>>]
        /\ text' = [text EXCEPT ![c] = <<>>]
        /\ UNCHANGED sock
     \/ /\ m.kind = "clear"
        /\ text' = [text EXCEPT ![c] = <<>>] /\ pending' = [pending EXCEPT ![c] = <<>>]
        /\ UNCHANGED sock
     \/ /\ m.kind = "close"
        /\ sock' = [sock EXCEPT ![c] = "closed"]
        /\ UNCHANGED <<text, pending>>
  /\ UNCHANGED <<down, faults, clientVars>>

ServerSend(c) ==
  /\ sock[c] = "open" /\ pending[c] # <<>>
  /\ pending' = [pending EXCEPT ![c] = Tail(@)]
  /\ down' = [down EXCEPT ![c] = Append(@, Head(pending[c]))]
  /\ UNCHANGED <<sock, up, text, faults, clientVars>>

ServerFault(c) ==
  /\ sock[c] = "open" /\ faults < NFaults /\ faults' = faults + 1
  /\ \/ sock' = [sock EXCEPT ![c] = "closed"] /\ UNCHANGED down
     \/ down' = [down EXCEPT ![c] = Append(@, Msg("error", None))] /\ UNCHANGED sock
  /\ UNCHANGED <<up, text, pending, clientVars>>

-----------------------------------------------------------------------------
SegStep(s) == AcquireSend(s) \/ Connected(s) \/ ConnectFailed(s) \/ Flush(s)
                \/ ReleaseSend(s) \/ Drain(s) \/ DrainTimeout(s)
                \/ FailDetach(s) \/ FailClose(s)
PrewarmStep == PrewarmOpened \/ PrewarmFailed
ShutdownStep == ShutdownDetach \/ ShutdownClose
ReaderStep(c) == ReaderRead(c) \/ ReaderExit(c)
ServerStep(c) == ServerRead(c) \/ ServerSend(c) \/ ServerFault(c)

Next ==
  \/ PrewarmStep \/ ShutdownStep \/ BargeIn \/ SendClear \/ CancelFrame \/ EndFrame \/ Abort
  \/ \E s \in Segs : RunTts(s) \/ SegStep(s) \/ Finalize(s)
  \/ \E c \in Conns : ReaderStep(c) \/ ServerStep(c)

\* The event loop runs every ready task, timers fire, and
\* websockets.connect ends (it has an open timeout).  Nothing is assumed of
\* the server, the network or the user.
Fairness ==
  /\ WF_vars(PrewarmStep) /\ WF_vars(ShutdownStep) /\ WF_vars(Abort) /\ WF_vars(SendClear)
  /\ \A s \in Segs : WF_vars(SegStep(s)) /\ WF_vars(Finalize(s))
  /\ \A c \in Conns : WF_vars(ReaderStep(c))

Spec == Init /\ [][Next]_vars /\ Fairness

-----------------------------------------------------------------------------
(* Properties. *)

\* Shape of the state.
Items == [kind : {"audio", "flushed", "error", "closed"}, seg : Segs \cup {None}]
Requests == [kind : {"speak", "flush", "clear", "close"}, seg : Segs \cup {None}]
TypeOK ==
  /\ svc \in {"running", "acquiring", "closing", "stopped"}
  /\ prewarm \in {"connecting", "done"}
  /\ pc \in [Segs -> PCs]
  /\ outcome \in [Segs -> {"none", "stopped", "error", "cancelled"}]
  /\ wsOf \in [Segs -> Conns \cup {None}]
  /\ got \in [Segs -> SUBSET (Segs \cup {None})]
  /\ lagging \in SUBSET Segs
  /\ queue \in [Segs -> Seq(Items)]
  /\ sendLock \in Lockers \cup {None} /\ stateLock \in Lockers \cup {None}
  /\ conn \in Conns \cup {None} /\ segQueue \in Segs \cup {None}
  /\ target \in [Closers -> Conns \cup {None}]
  /\ reader \in [Conns -> {"none", "running", "exited"}]
  /\ clears \in Nat /\ bargeIns \in 0 .. NBargeIns /\ faults \in 0 .. NFaults
  /\ abort \in {"none", "interrupt", "cancel"}
  /\ sock \in [Conns -> {"none", "open", "closed"}]
  /\ up \in [Conns -> Seq(Requests)] /\ down \in [Conns -> Seq(Items)]
  /\ text \in [Conns -> Seq(Items)] /\ pending \in [Conns -> Seq(Items)]

\* A call that drains is the registered consumer: neither the late finalizer
\* of an earlier call nor an earlier call's aclose ever unregisters it, so
\* what the reader delivers, its closing sentinel included, wakes it
\* (tts_deepgram_ws.py, "if self._segment_queue is queue").
DrainIsFed == \A s \in Segs : pc[s] = "drain" => segQueue = s

\* The single live WebSocket: an open socket that was not told to Close is
\* the current _connection.  A second one, or one that outlives stop() or
\* cancel() because the prewarm connect finished behind its back, would leak.
CloseSent(c) == \E i \in 1 .. Len(up[c]) : up[c][i].kind = "close"
NoOrphanSocket ==
  \A c \in Conns : sock[c] = "open" /\ ~CloseSent(c) =>
    conn = c /\ svc \notin {"closing", "stopped"}

\* Without an interruption a call consumes its own frames only: a timeout, an
\* error or a dropped socket never lets stale audio through ("Drop the
\* connection so the next turn opens a fresh one").  Behind an interruption
\* frames do reach a later call, and the shift goes on: the call that ended on
\* a stale Flushed leaves its own frames to the next.  So whoever's frames a
\* call consumes, that one or an earlier one was cut off.
OwnOrInterrupted ==
  \A s \in Segs : \A t \in got[s] \ {s} :
    t < s /\ \E u \in Segs : u <= t /\ outcome[u] = "cancelled"

\* Whatever the service does is what Speech promises: calls run one at a time
\* and none once the service stops, each ends once and hears nothing behind its
\* end, and what a call consumes is its own or comes from behind a cut.
Phase(s) == CASE pc[s] = "new" -> "new" [] pc[s] = "done" -> "over" [] OTHER -> "speaking"
P == INSTANCE Speech WITH
  NCalls <- NSegs, open <- svc = "running", phase <- [s \in Segs |-> Phase(s)],
  heard <- got, end <- outcome
ImplementsSpeech == P!Spec

\* run_tts never hangs: whatever the server does or does not do, every call
\* ends in TTSStoppedFrame, ErrorFrame or its cancellation ("A truly stuck
\* connection would hang the pipeline forever otherwise").
EveryCallEnds == \A s \in Segs : pc[s] = "lock" ~> pc[s] = "done"

\* stop() and cancel() always release the WebSocket, even if they arrive
\* while a connect holds the state lock.
ShutdownEnds == (svc = "acquiring" \/ abort = "cancel") ~> svc = "stopped"
=============================================================================
