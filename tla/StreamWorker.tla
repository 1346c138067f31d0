---------------------------- MODULE StreamWorker ----------------------------
(***************************************************************************)
(* The stream methods that run one worker thread per channel: Snapshot     *)
(* (snapshot_stream.rs), RTSP (rtsp.rs) and PlayCtrl (playctrl_stream.rs), *)
(* with the arms of main.rs that start, stop and join those threads.       *)
(*                                                                         *)
(* A worker is named by the order in which it was spawned.  It shares with *)
(* the UI thread its stop flag and a bounded queue of frames.              *)
(***************************************************************************)
EXTENDS Integers, FiniteSets

CONSTANTS
    Chan,       \* channels of the device
    MaxStarts,  \* bound on the number of threads spawned
    Methods,    \* the stream methods the user may choose
    FCap,       \* capacity of a frame queue (2)
    Ticks,      \* stop checks between two connection attempts (20)
    Ports,      \* how many PlayM4 ports there are
    Faults      \* what may go wrong: "library", "connect", "text", "end", "decode"

ASSUME WorkerAssumption ==
    /\ IsFiniteSet(Chan)
    /\ MaxStarts \in Nat \ {0} /\ FCap \in Nat \ {0} /\ Ticks \in Nat /\ Ports \in Nat
    /\ Methods \subseteq {"snapshot", "rtsp", "playctrl"}
    /\ Faults \subseteq {"library", "connect", "text", "end", "decode"}

Worker == 1 .. MaxStarts
NoWorker == 0

Outcome(f) == IF f \in Faults THEN BOOLEAN ELSE {TRUE}

VARIABLES
    pc,         \* the UI thread: "login", "idle", "stopping" or "joining"
    method,     \* stream_method
    cur,        \* the channel whose thread is being joined
    todo,       \* channels still to be stopped
    then,       \* what follows: "rest", "restart" or "leave"
    handle,     \* StreamState.stream_handle of each channel
    rx,         \* StreamState.frame_rx: the worker whose frames it receives
    picture,    \* StreamState.texture: the worker that decoded it
    count,      \* threads spawned so far
    stop,       \* workers whose stop flag is set
    wpc,        \* where each worker is
    ticks,      \* stop checks left before its next attempt
    held,       \* PlayM4 ports it took and did not free
    frames      \* frames in its queue

uiVars     == <<pc, method, cur, todo, then>>
stateVars  == <<handle, rx, picture>>
workerVars == <<wpc, ticks, held>>
vars       == <<uiVars, stateVars, count, stop, workerVars, frames>>

Running(w)  == wpc[w] \notin {"none", "ended"}
Holders     == {p \in Worker \X (1 .. Ports) : p[2] <= held[p[1]]}
PortsInUse  == Cardinality(Holders)
\* channel_is_active
Active(c)   == handle[c] # NoWorker \/ rx[c] # NoWorker

-----------------------------------------------------------------------------
Init ==
    /\ pc = "login" /\ method \in Methods /\ cur \in Chan /\ todo = {} /\ then = "rest"
    /\ handle = [c \in Chan |-> NoWorker]
    /\ rx = [c \in Chan |-> NoWorker]
    /\ picture = [c \in Chan |-> NoWorker]
    /\ count = 0 /\ stop = {}
    /\ wpc = [w \in Worker |-> "none"]
    /\ ticks = [w \in Worker |-> 0]
    /\ held = [w \in Worker |-> 0]
    /\ frames = [w \in Worker |-> 0]

-----------------------------------------------------------------------------
(* The UI thread                                                           *)

\* connect(): the method chosen on the login screen stays until Disconnect.
Connect ==
    /\ pc = "login"
    /\ method' \in Methods
    /\ pc' = "idle"
    /\ UNCHANGED <<cur, todo, then, stateVars, count, stop, workerVars, frames>>

\* start_stream past its guard: a queue, a stop flag and a thread of its own.
SpawnFor(c) ==
    /\ count' = count + 1
    /\ handle' = [handle EXCEPT ![c] = count + 1]
    /\ rx' = [rx EXCEPT ![c] = count + 1]
    /\ wpc' = [wpc EXCEPT ![count + 1] = "entry"]

StartStream(c) ==
    /\ pc = "idle" /\ ~Active(c) /\ count < MaxStarts
    /\ SpawnFor(c)
    /\ UNCHANGED <<uiVars, picture, stop, ticks, held, frames>>

\* stop_stream of one channel, of all of them (Disconnect), and of every active
\* channel of a layout change, each of which is started again.
StopStream(c) ==
    /\ pc = "idle"
    /\ todo' = {c} /\ then' = "rest" /\ pc' = "stopping"
    /\ UNCHANGED <<method, cur, stateVars, count, stop, workerVars, frames>>

\* Mutated form: the streams are cleared without being stopped.
DisconnectOnly ==
    /\ pc = "idle" /\ pc' = "login"
    /\ UNCHANGED <<method, cur, todo, then, stateVars, count, stop, workerVars, frames>>

Disconnect ==
    /\ pc = "idle"
    /\ todo' = Chan /\ then' = "leave" /\ pc' = "stopping"
    /\ UNCHANGED <<method, cur, stateVars, count, stop, workerVars, frames>>

ChangeLayout ==
    /\ pc = "idle"
    /\ todo' = {c \in Chan : Active(c)} /\ then' = "restart" /\ pc' = "stopping"
    /\ count + Cardinality(todo') <= MaxStarts
    /\ UNCHANGED <<method, cur, stateVars, count, stop, workerVars, frames>>

\* The stop flag, if there is one, and then the join.
SetStop(c) ==
    /\ pc = "stopping" /\ c \in todo
    /\ cur' = c /\ pc' = "joining"
    /\ stop' = IF handle[c] = NoWorker THEN stop ELSE stop \cup {handle[c]}
    /\ UNCHANGED <<method, todo, then, stateVars, count, workerVars, frames>>

Joined == handle[cur] # NoWorker => wpc[handle[cur]] = "ended"

\* Mutated forms: the thread is not joined; the texture is kept.
JoinNothing ==
    /\ pc = "joining"
    /\ picture' = [picture EXCEPT ![cur] = NoWorker]
    /\ todo' = todo \ {cur} /\ pc' = "stopping"
    /\ handle' = [handle EXCEPT ![cur] = NoWorker]
    /\ rx' = [rx EXCEPT ![cur] = NoWorker]
    /\ UNCHANGED <<count, wpc, method, cur, then, stop, ticks, held, frames>>

JoinKeepsTexture ==
    /\ pc = "joining" /\ Joined
    /\ todo' = todo \ {cur} /\ pc' = "stopping"
    /\ handle' = [handle EXCEPT ![cur] = NoWorker]
    /\ rx' = [rx EXCEPT ![cur] = NoWorker]
    /\ UNCHANGED <<picture, count, wpc, method, cur, then, stop, ticks, held, frames>>

Join ==
    /\ pc = "joining" /\ Joined
    /\ picture' = [picture EXCEPT ![cur] = NoWorker]
    /\ todo' = todo \ {cur} /\ pc' = "stopping"
    /\ \/ /\ then = "restart"
          /\ SpawnFor(cur)
       \/ /\ then # "restart"
          /\ handle' = [handle EXCEPT ![cur] = NoWorker]
          /\ rx' = [rx EXCEPT ![cur] = NoWorker]
          /\ UNCHANGED <<count, wpc>>
    /\ UNCHANGED <<method, cur, then, stop, ticks, held, frames>>

EndStop ==
    /\ pc = "stopping" /\ todo = {}
    /\ pc' = IF then = "leave" THEN "login" ELSE "idle"
    /\ then' = "rest"
    /\ UNCHANGED <<method, cur, todo, stateVars, count, stop, workerVars, frames>>

\* drain_frames: the newest frame of the queue becomes the texture.
DrainFrames(c) ==
    /\ pc = "idle" /\ rx[c] # NoWorker /\ frames[rx[c]] > 0
    /\ frames' = [frames EXCEPT ![rx[c]] = 0]
    /\ picture' = [picture EXCEPT ![c] = rx[c]]
    /\ UNCHANGED <<uiVars, handle, rx, count, stop, workerVars>>

-----------------------------------------------------------------------------
(* The worker threads                                                      *)

Goto(w, l) == wpc' = [wpc EXCEPT ![w] = l]

\* try_send: a frame is dropped when the UI is behind, or nobody receives.
TrySend(w) ==
    frames' = [frames EXCEPT ![w] = IF @ < FCap THEN @ + 1 ELSE @]

Retry(w) == Goto(w, "retry") /\ ticks' = [ticks EXCEPT ![w] = Ticks]

\* PlayCtrl loads its library first, and ends if it cannot.
Enter(w) ==
    /\ wpc[w] = "entry"
    /\ \E ok \in IF method = "playctrl" THEN Outcome("library") ELSE {TRUE} :
          Goto(w, IF ok THEN "check" ELSE "ended")
    /\ UNCHANGED <<uiVars, stateVars, count, stop, ticks, held, frames>>

\* Mutated form: the stop flag is not looked at.
CheckNothing(w) ==
    /\ wpc[w] = "check" /\ Goto(w, "attempt")
    /\ UNCHANGED <<uiVars, stateVars, count, stop, ticks, held, frames>>

\* The head of every stream_loop.
Check(w) ==
    /\ wpc[w] = "check"
    /\ Goto(w, IF w \in stop THEN "ended" ELSE "attempt")
    /\ UNCHANGED <<uiVars, stateVars, count, stop, ticks, held, frames>>

\* snapshot_stream_loop: one request; an error is logged and the loop goes on.
Snapshot(w) ==
    /\ wpc[w] = "attempt" /\ method = "snapshot"
    /\ Goto(w, "check")
    /\ \/ TrySend(w)
       \/ "connect" \in Faults /\ UNCHANGED frames
    /\ UNCHANGED <<uiVars, stateVars, count, stop, ticks, held>>

\* rtsp::run_stream opens the URL.
OpenRtsp(w) ==
    /\ wpc[w] = "attempt" /\ method = "rtsp"
    /\ \E ok \in Outcome("connect") :
          IF ok THEN Goto(w, "stream") /\ UNCHANGED ticks ELSE Retry(w)
    /\ UNCHANGED <<uiVars, stateVars, count, stop, held, frames>>

\* Its packets: one that finds the stop flag ends the session, and so does the
\* end of the stream, both without an error.
ReadRtsp(w) ==
    /\ wpc[w] = "stream" /\ method = "rtsp"
    /\ \/ w \notin stop /\ Goto(w, "packet")
       \/ (w \in stop \/ "end" \in Faults) /\ Goto(w, "ended")
    /\ UNCHANGED <<uiVars, stateVars, count, stop, ticks, held, frames>>

\* A packet is decoded and its picture sent, or decoding fails the session.
DecodeRtsp(w) ==
    /\ wpc[w] = "packet" /\ method = "rtsp"
    /\ \/ Goto(w, "stream") /\ TrySend(w) /\ UNCHANGED ticks
       \/ "decode" \in Faults /\ Retry(w) /\ UNCHANGED frames
    /\ UNCHANGED <<uiVars, stateVars, count, stop, held>>

\* playctrl_stream::run_stream: a port first, then the PlayM4 stream and the TCP
\* connection.  Nothing frees the port when one of these two fails.
OpenPlayCtrl(w) ==
    /\ wpc[w] = "attempt" /\ method = "playctrl"
    /\ \/ /\ PortsInUse >= Ports
          /\ Retry(w)
          /\ UNCHANGED held
       \/ /\ PortsInUse < Ports
          /\ held' = [held EXCEPT ![w] = @ + 1]
          /\ \E ok \in Outcome("connect") :
                IF ok THEN Goto(w, "handshake") /\ UNCHANGED ticks ELSE Retry(w)
    /\ UNCHANGED <<uiVars, stateVars, count, stop, frames>>

\* DESCRIBE, SETUP and PLAY (RtspSession), which wait for their answers without an
\* end and without a look at the stop flag.  An answer that is not 200 fails the
\* attempt, or ends the thread with a panic when the text quoted from it is cut
\* inside a character; neither frees the port.
Handshake(w) ==
    /\ wpc[w] = "handshake"
    /\ \/ Goto(w, "stream") /\ UNCHANGED ticks
       \/ "connect" \in Faults /\ Retry(w)
       \/ "text" \in Faults /\ Goto(w, "ended") /\ UNCHANGED ticks
    /\ UNCHANGED <<uiVars, stateVars, count, stop, held, frames>>

\* The head of its loop.
CheckPlayCtrl(w) ==
    /\ wpc[w] = "stream" /\ method = "playctrl"
    /\ Goto(w, IF w \in stop THEN "close" ELSE "packet")
    /\ UNCHANGED <<uiVars, stateVars, count, stop, ticks, held, frames>>

\* A frame is fed to PlayM4, which may have a picture; the end of the stream and
\* a read error both leave the loop.
ReadPlayCtrl(w) ==
    /\ wpc[w] = "packet" /\ method = "playctrl"
    /\ \/ Goto(w, "stream") /\ TrySend(w)
       \/ "end" \in Faults /\ Goto(w, "close") /\ UNCHANGED frames
    /\ UNCHANGED <<uiVars, stateVars, count, stop, ticks, held>>

\* Then the port is freed and the session ends, always without an error.
ClosePlayCtrl(w) ==
    /\ wpc[w] = "close"
    /\ held' = [held EXCEPT ![w] = @ - 1]
    /\ Goto(w, "ended")
    /\ UNCHANGED <<uiVars, stateVars, count, stop, ticks, frames>>

\* Mutated form: the worker gives up after the wait.
WaitOnce(w) ==
    /\ wpc[w] = "retry"
    /\ Goto(w, "ended")
    /\ UNCHANGED <<uiVars, stateVars, count, stop, ticks, held, frames>>

\* The wait before the next attempt looks at the stop flag at every tick.
Wait(w) ==
    /\ wpc[w] = "retry"
    /\ \/ /\ ticks[w] > 0 /\ w \in stop
          /\ Goto(w, "ended") /\ UNCHANGED ticks
       \/ /\ ticks[w] > 0 /\ w \notin stop
          /\ ticks' = [ticks EXCEPT ![w] = @ - 1] /\ UNCHANGED wpc
       \/ /\ ticks[w] = 0
          /\ Goto(w, "check") /\ UNCHANGED ticks
    /\ UNCHANGED <<uiVars, stateVars, count, stop, held, frames>>

-----------------------------------------------------------------------------
User == \/ Connect \/ Disconnect \/ ChangeLayout
        \/ \E c \in Chan : StartStream(c) \/ StopStream(c)

UI == \/ Join \/ EndStop
      \/ \E c \in Chan : SetStop(c) \/ DrainFrames(c)

Work(w) == \/ Enter(w) \/ Check(w) \/ Wait(w) \/ Snapshot(w)
           \/ OpenRtsp(w) \/ ReadRtsp(w) \/ DecodeRtsp(w)
           \/ OpenPlayCtrl(w) \/ Handshake(w) \/ CheckPlayCtrl(w) \/ ReadPlayCtrl(w)
           \/ ClosePlayCtrl(w)

Next == User \/ UI \/ \E w \in Worker : Work(w)

Spec == Init /\ [][Next]_vars

\* A thread that waits for bytes of the device: nothing bounds the wait, and nothing
\* in it looks at the stop flag.
Waiting(w) == wpc[w] = "handshake" \/ (wpc[w] = "stream" /\ method = "rtsp")

\* Threads that can run do run.  The other requests to the device have a timeout;
\* a device that is silent may leave a thread waiting for ever.
FairSpec == Spec /\ WF_vars(UI) /\ \A w \in Worker : WF_vars(~Waiting(w) /\ Work(w))

-----------------------------------------------------------------------------
(* Properties                                                              *)

\* No worker is ever out of reach: each one that runs is the thread of a channel,
\* which can stop and join it, and a channel has one thread and its frames.
WorkersOwned ==
    /\ \A w \in Worker : Running(w) => \E c \in Chan : handle[c] = w
    /\ \A c, d \in Chan : handle[c] = handle[d] /\ handle[c] # NoWorker => c = d
    /\ rx = handle

\* The login screen, where another method may be chosen, finds every thread of
\* the old one joined and every texture gone.
LoginScreenIdle ==
    pc = "login" =>
        /\ \A w \in Worker : ~Running(w)
        /\ \A c \in Chan : ~Active(c) /\ picture[c] = NoWorker

\* A worker only ends because it was told to.
EndsWhenTold == \A w \in Worker : wpc[w] = "ended" => w \in stop

\* The pictures on the screen are those of the present streams (LiveView).
View == INSTANCE LiveView WITH Stream <- Worker, stream <- rx

LiveViewSpec == View!Spec

\* Every handler of the UI thread returns: a join waits for its thread, and the
\* thread sees the stop flag wherever it is.  The one exception is a device that
\* keeps the connection and is silent: the join then hangs, and the window with it.
HandlersReturn ==
    \/ pc \in {"stopping", "joining"} ~> pc \in {"idle", "login"}
    \/ <>[](pc = "joining" /\ \E w \in Worker : handle[cur] = w /\ Waiting(w))

\* After a failed attempt a worker tries again, unless it is stopped.
RetriesHappen ==
    \A w \in Worker : wpc[w] = "retry" ~> (wpc[w] = "attempt" \/ w \in stop)
=============================================================================
