------------------------------- MODULE SarvamSTT -------------------------------
(***************************************************************************)
(* The streaming STT of Sarvam (SarvamSTTService in                        *)
(* voice/providers/stt_sarvam.py): one WebSocket and the task that reads   *)
(* it.  Whoever finds no connection opens one, and none of this is under a *)
(* lock: the tasks that bring audio and VAD messages, the one that handles *)
(* the service's own frames, and a CancelFrame may all be inside.          *)
(*                                                                         *)
(* An action is the code between two awaits.  Socket s and the receiver    *)
(* that was created behind its connect have the same number.               *)
(***************************************************************************)
EXTENDS Naturals, FiniteSets

CONSTANTS
  NSockets,   \* bound: WebSockets opened
  NFrames,    \* bound: audio frames and flushes
  NSwitches   \* bound: calls of set_language

ASSUME BoundsAssumption == NSockets \in Nat /\ NFrames \in Nat /\ NSwitches \in Nat

VARIABLES
  conn,       \* _connection: a socket, or None
  recv,       \* _receiver_task: a receiver, or None
  made,       \* sockets opened so far
  sock,       \* each socket: unused, open, dropped (by Sarvam), closed
  task,       \* each receiver: none, new, reading, over
  reads,      \* the socket each receiver reads: _connection when it first ran
  pc,         \* where each caller is suspended
  hold,       \* the receiver a caller cancels, the socket it sends on or closes
  job,        \* what brought a caller into _disconnect
  life,       \* of the service: new, starting, up, over (its stop took the connection)
  overtaken,  \* sockets that were opened behind somebody's back, see Connected
  late,       \* receivers that pushed a transcript of a service that was over
  frames, switches

socketVars == <<conn, made, sock, overtaken>>
readerVars == <<recv, task, reads, late>>
callerVars == <<pc, hold, job>>
bounds == <<frames, switches>>
vars == <<socketVars, readerVars, callerVars, life, bounds>>

None == 0
Sockets == 1 .. NSockets

\* Audio reaches run_stt from the transport's task and from the VAD messages',
\* which releases what the language router held.  The service's own frames
\* (start, settings, end) come one after the other; a CancelFrame comes inline.
Senders == {"audio", "vad"}
Stoppers == {"frames", "cancel"}
Callers == Senders \cup Stoppers

Running(r) == task[r] \in {"new", "reading"}

Init ==
  /\ conn = None /\ recv = None /\ made = 0 /\ life = "new"
  /\ sock = [s \in Sockets |-> "unused"] /\ task = [s \in Sockets |-> "none"]
  /\ reads = [s \in Sockets |-> None]
  /\ pc = [a \in Callers |-> "idle"] /\ hold = [a \in Callers |-> None]
  /\ job = [a \in Callers |-> "none"]
  /\ overtaken = {} /\ late = {} /\ frames = 0 /\ switches = 0

\* A CancelFrame comes once: its job is kept.
Done(a) == job' = IF a = "frames" THEN [job EXCEPT ![a] = "none"] ELSE job

Goto(a, where, what) == pc' = [pc EXCEPT ![a] = where] /\ hold' = [hold EXCEPT ![a] = what]

-----------------------------------------------------------------------------
(* _connect. *)

Start ==
  /\ life = "new" /\ life' = "starting"
  /\ pc["frames"] = "idle" /\ Goto("frames", "connect", None)
  /\ UNCHANGED <<socketVars, readerVars, job, bounds>>

\* Behind _connect, start is over and run_stt sends its frame on what is now
\* the connection.
Resume(a) ==
  /\ IF a \in Senders THEN Goto(a, "send", conn') ELSE Goto(a, "idle", None)
  /\ Done(a)
  /\ life' = IF life = "starting" /\ a = "frames" THEN "up" ELSE life

\* Nobody closes these: a connection that another connect overwrites, and one
\* that is made when the service has been stopped.
Overtaking(s) == ({conn} \ {None}) \cup IF life = "over" THEN {s} ELSE {}

\* websockets.connect returned.  _connect does not look at _connection again.
Connected(a) ==
  LET s == made + 1 IN
  /\ pc[a] = "connect" /\ s \in Sockets
  /\ made' = s /\ sock' = [sock EXCEPT ![s] = "open"] /\ overtaken' = overtaken \cup Overtaking(s)
  /\ conn' = s /\ recv' = s /\ task' = [task EXCEPT ![s] = "new"] /\ Resume(a)
  /\ UNCHANGED <<reads, late, bounds>>

\* It raised, or its caller was cancelled: the exception leaves start or
\* run_stt, and Pipecat reports it.
ConnectFails(a) ==
  /\ pc[a] = "connect" /\ Goto(a, "idle", None) /\ Done(a)
  /\ life' = IF life = "starting" /\ a = "frames" THEN "up" ELSE life
  /\ UNCHANGED <<socketVars, readerVars, bounds>>

-----------------------------------------------------------------------------
(* run_stt and flush. *)

\* Audio that the router releases may come when the service has been stopped.
RunStt(a) ==
  /\ pc[a] = "idle" /\ life \in {"up", "over"}
  /\ frames < NFrames /\ frames' = frames + 1
  /\ IF conn = None THEN Goto(a, "connect", None) ELSE Goto(a, "send", conn)
  /\ UNCHANGED <<socketVars, readerVars, job, life, switches>>

\* UserStoppedSpeakingFrame.
Flush ==
  /\ pc["vad"] = "idle" /\ conn # None /\ life \in {"up", "over"}
  /\ frames < NFrames /\ frames' = frames + 1
  /\ Goto("vad", "send", conn)
  /\ UNCHANGED <<socketVars, readerVars, job, life, switches>>

\* send returns, or raises if the socket is not open any more; a connection
\* that was dropped stays _connection either way.
Sent(a) ==
  /\ pc[a] = "send" /\ Goto(a, "idle", None)
  /\ UNCHANGED <<socketVars, readerVars, job, life, bounds>>

-----------------------------------------------------------------------------
(* _disconnect. *)

\* Its end: set_language connects again, unless somebody else has.
Disconnected(a) ==
  /\ Done(a)
  /\ Goto(a, IF job[a] = "language" /\ conn' = None THEN "connect" ELSE "idle", None)

\* A connection with a receiver by now: its connect came behind the disconnect.
Taking == IF recv' # None THEN {conn} \ {None} ELSE {}

\* Mutant of TakeConnection: the field is cleared before it is read.
TakeConnectionCleared(a, why) ==
  /\ conn' = None /\ overtaken' = overtaken \cup Taking
  /\ life' = IF why = "stop" THEN "over" ELSE life
  /\ Goto(a, IF why = "language" THEN "connect" ELSE "idle", None) /\ Done(a)

\* The receiver is over, or there was none: the connection is next.
TakeConnection(a, why) ==
  /\ conn' = None /\ overtaken' = overtaken \cup Taking
  /\ life' = IF why = "stop" THEN "over" ELSE life
  /\ IF conn # None THEN Goto(a, "closing", conn) /\ job' = [job EXCEPT ![a] = why]
     ELSE IF why = "language" THEN Goto(a, "connect", None) /\ UNCHANGED job
     ELSE Goto(a, "idle", None) /\ Done(a)

\* Mutant of Disconnect: the receiver is forgotten, not cancelled.
DisconnectForgetting(a, why) ==
  /\ recv' = None /\ TakeConnection(a, why) /\ UNCHANGED <<made, sock>>

\* _disconnect up to its first await.
Disconnect(a, why) ==
  \/ /\ recv # None /\ recv' = None
     /\ Goto(a, "cancelling", recv) /\ job' = [job EXCEPT ![a] = why]
     /\ UNCHANGED <<socketVars, life>>
  \/ /\ recv = None /\ UNCHANGED recv
     /\ TakeConnection(a, why) /\ UNCHANGED <<made, sock>>

\* An EndFrame, or a CancelFrame, which comes at any time.
Stop(a) ==
  /\ pc[a] = "idle" /\ job[a] = "none"
  /\ IF a = "frames" THEN life = "up" ELSE life # "new"
  /\ Disconnect(a, "stop") /\ UNCHANGED <<task, reads, late, bounds>>

SetLanguage ==
  /\ pc["frames"] = "idle" /\ life = "up" /\ switches < NSwitches /\ switches' = switches + 1
  /\ Disconnect("frames", "language") /\ UNCHANGED <<task, reads, late, frames>>

\* cancel_task came back.
ReceiverGone(a) ==
  /\ pc[a] = "cancelling" /\ ~Running(hold[a])
  /\ UNCHANGED readerVars /\ TakeConnection(a, job[a]) /\ UNCHANGED <<made, sock, bounds>>

Closed(a) ==
  /\ pc[a] = "closing" /\ sock' = [sock EXCEPT ![hold[a]] = "closed"]
  /\ UNCHANGED conn /\ Disconnected(a)
  /\ UNCHANGED <<made, overtaken, readerVars, life, bounds>>

-----------------------------------------------------------------------------
(* _receive_messages, and the other end. *)

\* cancel() was called: the receiver gets no further.
Cancelling(r) == \E a \in Stoppers : pc[a] = "cancelling" /\ hold[a] = r

\* Mutant of ReaderStarts: the assertion is missing.
ReaderStartsUnchecked(r) ==
  /\ task[r] = "new" /\ ~Cancelling(r)
  /\ reads' = [reads EXCEPT ![r] = conn] /\ task' = [task EXCEPT ![r] = "reading"]
  /\ UNCHANGED <<recv, late, socketVars, callerVars, life, bounds>>

\* The receiver looks up what it reads when it first runs.  Without a
\* connection its assertion fails.
ReaderStarts(r) ==
  /\ task[r] = "new" /\ ~Cancelling(r)
  /\ reads' = [reads EXCEPT ![r] = conn]
  /\ task' = [task EXCEPT ![r] = IF conn = None THEN "over" ELSE "reading"]
  /\ UNCHANGED <<recv, late, socketVars, callerVars, life, bounds>>

\* A transcript, or an error, is pushed; what was received before the socket
\* went down is still read.
ReaderHears(r) ==
  /\ task[r] = "reading" /\ ~Cancelling(r)
  /\ late' = IF life = "over" THEN late \cup {r} ELSE late
  /\ UNCHANGED <<recv, task, reads, socketVars, callerVars, life, bounds>>

\* External: websockets refuses recv while somebody else waits in it, be it the
\* second reader of a socket or the first, if that was pushing a transcript.
Refused(r) == \E q \in Sockets \ {r} : task[q] = "reading" /\ reads[q] = reads[r]

\* The loop ends with its socket, or _disconnect cancels the task.
ReaderEnds(r) ==
  /\ \/ task[r] = "reading" /\ (sock[reads[r]] # "open" \/ Refused(r))
     \/ Running(r) /\ Cancelling(r)
  /\ task' = [task EXCEPT ![r] = "over"]
  /\ UNCHANGED <<recv, reads, late, socketVars, callerVars, life, bounds>>

\* External: Sarvam or the network ends the connection.
Drop(s) ==
  /\ sock[s] = "open" /\ sock' = [sock EXCEPT ![s] = "dropped"]
  /\ UNCHANGED <<conn, made, overtaken, readerVars, callerVars, life, bounds>>

-----------------------------------------------------------------------------
Next ==
  \/ Start \/ Flush \/ SetLanguage
  \/ \E a \in Callers : Connected(a) \/ ConnectFails(a)
  \/ \E a \in Senders : RunStt(a) \/ Sent(a)
  \/ \E a \in Stoppers : Stop(a) \/ ReceiverGone(a) \/ Closed(a)
  \/ \E s \in Sockets : ReaderStarts(s) \/ ReaderHears(s) \/ ReaderEnds(s) \/ Drop(s)

Spec == Init /\ [][Next]_vars

-----------------------------------------------------------------------------
(* Properties. *)

\* Shape of the state.
TypeOK ==
  /\ conn \in 0 .. made /\ recv \in 0 .. made /\ made \in 0 .. NSockets
  /\ sock \in [Sockets -> {"unused", "open", "dropped", "closed"}]
  /\ task \in [Sockets -> {"none", "new", "reading", "over"}]
  /\ reads \in [Sockets -> 0 .. NSockets]
  /\ pc \in [Callers -> {"idle", "connect", "send", "cancelling", "closing"}]
  /\ hold \in [Callers -> 0 .. NSockets]
  /\ job \in [Callers -> {"none", "language", "stop"}]
  /\ life \in {"new", "starting", "up", "over"}
  /\ overtaken \in SUBSET Sockets /\ late \in SUBSET Sockets
  /\ frames \in 0 .. NFrames /\ switches \in 0 .. NSwitches
  /\ \A r \in Sockets : task[r] = "reading" => reads[r] # None

BeingClosed(s) == \E a \in Stoppers : pc[a] = "closing" /\ hold[a] = s

\* No WebSocket is left open: an open one is the connection of a service that
\* runs, or is being closed.  The only others are those that were overtaken:
\* two tasks that both found no connection (Sarvam was down at the start), or
\* a connect that came back behind a disconnect.
SocketsAreOwned ==
  \A s \in Sockets : sock[s] = "open" =>
    (s = conn /\ life # "over") \/ BeingClosed(s) \/ s \in overtaken

\* No transcript comes out of a service that was stopped, except out of a
\* connection that was overtaken: only those leave a receiver behind.
SilentWhenOver == late \subseteq overtaken
=============================================================================
