--------------------------- MODULE CallbackStream ---------------------------
(***************************************************************************)
(* hcnetsdk_multi_stream.rs and the HCNetSDK arms of main.rs: previews     *)
(* whose data the SDK hands to data_callback, one decoder thread for each. *)
(*                                                                         *)
(* Three kinds of threads meet here.  The UI thread starts and stops       *)
(* channels, one call at a time; a thread of the SDK per preview runs      *)
(* data_callback; a decoder thread per start feeds PlayM4.  They share the *)
(* global vector CALLBACK_DISPATCH and its mutex, a data queue per start   *)
(* (SDK to decoder) and a frame queue per start (decoder to UI).           *)
(*                                                                         *)
(* A start is named by its slot, its index in CALLBACK_DISPATCH, which     *)
(* only ever grows.                                                        *)
(***************************************************************************)
EXTENDS Integers, Sequences, FiniteSets

CONSTANTS
    Chan,       \* channels of the device
    MaxStarts,  \* bound on the number of start_channel calls
    MaxLost,    \* bound on the previews the SDK refused to stop, in one session
    QCap,       \* capacity of a data queue (64)
    FCap,       \* capacity of a frame queue (2)
    Ports,      \* how many PlayM4 ports there are
    Faults,     \* which calls may fail: "login", "play", "stop", "open"
    SdkWaits    \* whether NET_DVR_StopRealPlay waits for a running callback

ASSUME CallbackAssumption ==
    /\ MaxStarts \in Nat \ {0} /\ QCap \in Nat \ {0} /\ FCap \in Nat \ {0}
    /\ Ports \in Nat /\ MaxLost \in Nat
    /\ Faults \subseteq {"login", "play", "stop", "open"}
    /\ SdkWaits \in BOOLEAN

Slot   == 1 .. MaxStarts
NoSlot == 0
Dead   == -1        \* a frame_rx whose sender is gone

Outcome(f) == IF f \in Faults THEN BOOLEAN ELSE {TRUE}

VARIABLES
    pc,         \* what the UI thread is doing
    cur,        \* the channel it does it for
    todo,       \* entries stop_channel or stop_all has still to go through
    leaving,    \* stop_all_streams: the session ends afterwards
    session,    \* hcnetsdk_multi.is_some()
    entries,    \* HCNetSDKMultiStream.channels
    rx,         \* StreamState.frame_rx of each channel: a slot, Dead or NoSlot
    picture,    \* StreamState.texture: the slot whose decoder produced it
    count,      \* length of CALLBACK_DISPATCH
    dispatch,   \* the slots whose entry is Some
    lock,       \* the callback that holds the mutex of CALLBACK_DISPATCH, or NoSlot
    live,       \* previews the SDK delivers data for
    lost,       \* those of them the SDK refused to stop: nobody has their handle
    sent,       \* previews whose SYSHEAD the SDK has delivered to a decoder not yet joined
    inCall,     \* previews in whose thread data_callback is running
    queue,      \* the data queues: "head" is SYSHEAD, "data" STREAMDATA
    dec,        \* where each decoder thread is
    stop,       \* decoder_stop
    head,       \* the decoder has a codec header
    opened,     \* stream_opened, and whether with a header
    port,       \* the decoder holds a PlayM4 port
    frames      \* frames in the frame queue

uiVars   == <<pc, cur, todo, leaving, session, entries, rx, picture>>
cbVars   == <<lock, live, lost, sent, inCall, queue>>
decVars  == <<dec, head, opened, port>>
vars     == <<uiVars, count, dispatch, cbVars, decVars, stop, frames>>

Entry == [ch : Chan, slot : Slot]

Running(s)  == dec[s] \notin {"none", "ended"}
PortsInUse  == Cardinality({s \in Slot : port[s]})
SlotsOf(c)  == {e \in entries : e.ch = c}

-----------------------------------------------------------------------------
Init ==
    /\ pc = "idle" /\ cur \in Chan /\ todo = {} /\ leaving = FALSE
    /\ session = FALSE /\ entries = {} /\ rx = [c \in Chan |-> NoSlot]
    /\ picture = [c \in Chan |-> NoSlot]
    /\ count = 0 /\ dispatch = {} /\ lock = NoSlot
    /\ live = {} /\ lost = {} /\ sent = {} /\ inCall = {}
    /\ queue = [s \in Slot |-> <<>>]
    /\ dec = [s \in Slot |-> "none"]
    /\ stop = {} /\ head = {}
    /\ opened = [s \in Slot |-> "no"]
    /\ port = [s \in Slot |-> FALSE]
    /\ frames = [s \in Slot |-> 0]

-----------------------------------------------------------------------------
(* The UI thread: start_stream                                             *)

\* Mutated form: no guard on a channel that has a stream already.
StartStreamAgain(c) ==
    /\ pc = "idle" /\ count < MaxStarts
    /\ cur' = c /\ session' = TRUE /\ pc' = "push"
    /\ UNCHANGED <<todo, leaving, entries, rx, picture, count, dispatch, cbVars, decVars,
                   stop, frames>>

\* The guard, the frame_rx set before anything can fail, and the login.
StartStream(c) ==
    /\ pc = "idle" /\ rx[c] = NoSlot /\ count < MaxStarts
    /\ rx' = [rx EXCEPT ![c] = Dead]
    /\ cur' = c
    /\ \E ok \in IF session THEN {TRUE} ELSE Outcome("login") :
          /\ session' = ok
          /\ pc' = IF ok THEN "push" ELSE "idle"
    /\ UNCHANGED <<todo, leaving, entries, picture, count, dispatch, cbVars, decVars,
                   stop, frames>>

\* start_channel: a slot of CALLBACK_DISPATCH, under its mutex.
PushSlot ==
    /\ pc = "push" /\ lock = NoSlot
    /\ count' = count + 1
    /\ dispatch' = dispatch \cup {count + 1}
    /\ pc' = "spawn"
    /\ UNCHANGED <<cur, todo, leaving, session, entries, rx, picture, cbVars, decVars, stop, frames>>

Spawn ==
    /\ pc = "spawn"
    /\ dec' = [dec EXCEPT ![count] = "spawned"]
    /\ pc' = "play"
    /\ UNCHANGED <<cur, todo, leaving, session, entries, rx, picture, count, dispatch,
                   cbVars, head, opened, port, stop, frames>>

\* NET_DVR_RealPlay_V40: data may arrive before it returns.  When it fails,
\* the slot, the thread and its port have no owner any more.
RealPlay ==
    /\ pc = "play"
    /\ \E ok \in Outcome("play") :
          /\ live' = IF ok THEN live \cup {count} ELSE live
          /\ pc' = IF ok THEN "register" ELSE "idle"
    /\ UNCHANGED <<cur, todo, leaving, session, entries, rx, picture, count, dispatch,
                   lock, lost, sent, inCall, queue, decVars, stop, frames>>

\* The entry is pushed; start_stream takes the Receiver of its frames.
Register ==
    /\ pc = "register"
    /\ entries' = entries \cup {[ch |-> cur, slot |-> count]}
    /\ rx' = [rx EXCEPT ![cur] = count]
    /\ pc' = "idle"
    /\ UNCHANGED <<cur, todo, leaving, session, picture, count, dispatch, cbVars,
                   decVars, stop, frames>>

-----------------------------------------------------------------------------
(* The UI thread: stop_stream, stop_all_streams                            *)

StopStream(c) ==
    /\ pc = "idle" /\ rx[c] # NoSlot
    /\ cur' = c /\ todo' = SlotsOf(c)
    /\ pc' = "stopping"
    /\ UNCHANGED <<leaving, session, entries, rx, picture, count, dispatch, cbVars, decVars,
                   stop, frames>>

\* Disconnect, and on_exit: the multi stream is taken, stopped and dropped.
StopAllStreams ==
    /\ pc = "idle"
    /\ todo' = entries /\ leaving' = TRUE
    /\ pc' = "stopping"
    /\ UNCHANGED <<cur, session, entries, rx, picture, count, dispatch, cbVars, decVars,
                   stop, frames>>

\* decoder_stop is set and NET_DVR_StopRealPlay called, entry by entry.
SetStop(e) ==
    /\ pc = "stopping" /\ e \in todo /\ \A f \in todo : f.slot \notin stop
    /\ stop' = stop \cup {e.slot}
    /\ UNCHANGED <<uiVars, count, dispatch, cbVars, decVars, frames>>

\* Its result is ignored: the entry goes although a refused preview plays on.
StopRealPlay(e) ==
    /\ pc = "stopping" /\ e \in todo /\ e.slot \in (stop \cap live) \ lost
    /\ \E ok \in IF Cardinality(lost) < MaxLost THEN Outcome("stop") ELSE {TRUE} :
          /\ live' = IF ok THEN live \ {e.slot} ELSE live
          /\ lost' = IF ok THEN lost ELSE lost \cup {e.slot}
    /\ UNCHANGED <<uiVars, count, dispatch, lock, sent, inCall, queue, decVars, stop, frames>>

StopRealPlayReturns(e) ==
    /\ pc = "stopping" /\ e \in todo /\ e.slot \in stop \ (live \ lost)
    /\ (SdkWaits /\ e.slot \notin lost) => e.slot \notin inCall
    /\ todo' = todo \ {e}
    /\ UNCHANGED <<pc, cur, leaving, session, entries, rx, picture, count, dispatch,
                   cbVars, decVars, stop, frames>>

\* The logout ends what still plays.
Logout == /\ live' = IF leaving THEN {} ELSE live
          /\ lost' = IF leaving THEN {} ELSE lost

Stopped == IF leaving THEN entries ELSE SlotsOf(cur)

\* Mutated form: the decoder threads are not joined.
JoinNothing ==
    /\ pc = "stopping" /\ todo = {}
    /\ entries' = entries \ Stopped
    /\ session' = (session /\ ~leaving)
    /\ rx' = [c \in Chan |-> IF leaving \/ c = cur THEN NoSlot ELSE rx[c]]
    /\ picture' = [c \in Chan |-> IF leaving \/ c = cur THEN NoSlot ELSE picture[c]]
    /\ pc' = "idle" /\ leaving' = FALSE
    /\ Logout
    /\ UNCHANGED <<cur, todo, count, dispatch, lock, sent, inCall, queue, decVars, stop,
                   frames>>

\* Mutated form: the texture stays when the channel is stopped.
JoinKeepsTexture ==
    /\ pc = "stopping" /\ todo = {}
    /\ \A e \in Stopped : dec[e.slot] = "ended"
    /\ entries' = entries \ Stopped
    /\ session' = (session /\ ~leaving)
    /\ rx' = [c \in Chan |-> IF leaving \/ c = cur THEN NoSlot ELSE rx[c]]
    /\ pc' = "idle" /\ leaving' = FALSE
    /\ Logout
    /\ UNCHANGED <<cur, todo, picture, count, dispatch, lock, sent, inCall, queue, decVars,
                   stop, frames>>

\* The threads are joined, the entries removed with the frames nobody took, the session
\* logged out.
Join ==
    /\ pc = "stopping" /\ todo = {}
    /\ \A e \in Stopped : dec[e.slot] = "ended"
    /\ entries' = entries \ Stopped
    /\ session' = (session /\ ~leaving)
    /\ rx' = [c \in Chan |-> IF leaving \/ c = cur THEN NoSlot ELSE rx[c]]
    /\ picture' = [c \in Chan |-> IF leaving \/ c = cur THEN NoSlot ELSE picture[c]]
    /\ frames' = [s \in Slot |-> IF s \in {e.slot : e \in Stopped} THEN 0 ELSE frames[s]]
    /\ sent' = sent \ {e.slot : e \in Stopped}
    /\ Logout
    /\ pc' = "idle" /\ leaving' = FALSE
    /\ UNCHANGED <<cur, todo, count, dispatch, lock, inCall, queue, decVars, stop>>

\* drain_frames, between two handlers.
DrainFrames(c) ==
    /\ pc = "idle" /\ rx[c] \in Slot /\ frames[rx[c]] > 0
    /\ frames' = [frames EXCEPT ![rx[c]] = 0]
    /\ picture' = [picture EXCEPT ![c] = rx[c]]
    /\ UNCHANGED <<pc, cur, todo, leaving, session, entries, rx, count, dispatch,
                   cbVars, decVars, stop>>

-----------------------------------------------------------------------------
(* The SDK's thread of a preview, and data_callback                        *)

Call(s) ==
    /\ s \in live /\ s \notin inCall
    /\ inCall' = inCall \cup {s}
    /\ UNCHANGED <<uiVars, count, dispatch, lock, live, lost, sent, queue, decVars, stop, frames>>

LockDispatch(s) ==
    /\ s \in inCall /\ lock = NoSlot
    /\ lock' = s
    /\ UNCHANGED <<uiVars, count, dispatch, live, lost, sent, inCall, queue, decVars, stop, frames>>

\* try_send: a full queue, a queue without a receiver and a cleared slot lose
\* the data.  The SDK sends SYSHEAD before any STREAMDATA.
Message(s) == IF s \in sent THEN "data" ELSE "head"

\* Mutated form: try_send is repeated until there is room in the queue.
SendBlocking(s) ==
    /\ lock = s
    /\ IF s \in dispatch /\ Len(queue[s]) = QCap /\ dec[s] # "ended"
       THEN UNCHANGED <<lock, inCall, sent, queue>>
       ELSE /\ lock' = NoSlot
            /\ inCall' = inCall \ {s} /\ sent' = sent \cup {s}
            /\ queue' = IF s \in dispatch /\ dec[s] # "ended"
                        THEN [queue EXCEPT ![s] = Append(@, Message(s))] ELSE queue
    /\ UNCHANGED <<uiVars, count, dispatch, live, lost, decVars, stop, frames>>

\* Mutated form: a full queue loses its oldest message.
SendDropOldest(s) ==
    /\ lock = s /\ lock' = NoSlot
    /\ inCall' = inCall \ {s} /\ sent' = sent \cup {s}
    /\ queue' = IF s \in dispatch /\ dec[s] # "ended"
                THEN [queue EXCEPT ![s] =
                        Append(IF Len(@) < QCap THEN @ ELSE Tail(@), Message(s))]
                ELSE queue
    /\ UNCHANGED <<uiVars, count, dispatch, live, lost, decVars, stop, frames>>

\* Mutated form: a queue without a capacity.
SendUnbounded(s) ==
    /\ lock = s /\ lock' = NoSlot
    /\ inCall' = inCall \ {s} /\ sent' = sent \cup {s}
    /\ queue' = [queue EXCEPT ![s] = Append(@, Message(s))]
    /\ UNCHANGED <<uiVars, count, dispatch, live, lost, decVars, stop, frames>>

Send(s) ==
    /\ lock = s
    /\ lock' = NoSlot
    /\ inCall' = inCall \ {s}
    /\ sent' = IF dec[s] = "ended" THEN sent ELSE sent \cup {s}
    /\ queue' = IF s \in dispatch /\ Len(queue[s]) < QCap /\ dec[s] # "ended"
                THEN [queue EXCEPT ![s] = Append(@, Message(s))]
                ELSE queue
    /\ UNCHANGED <<uiVars, count, dispatch, live, lost, decVars, stop, frames>>

-----------------------------------------------------------------------------
(* decoder_loop                                                            *)

\* PlayM4_GetPort; without one the thread ends and its slot stays.
GetPort(s) ==
    /\ dec[s] = "spawned"
    /\ \/ /\ PortsInUse < Ports
          /\ port' = [port EXCEPT ![s] = TRUE]
          /\ dec' = [dec EXCEPT ![s] = "loop"]
          /\ UNCHANGED queue
       \/ /\ PortsInUse >= Ports
          /\ dec' = [dec EXCEPT ![s] = "ended"]
          /\ queue' = [queue EXCEPT ![s] = <<>>]
          /\ UNCHANGED port
    /\ UNCHANGED <<uiVars, count, dispatch, lock, live, lost, sent, inCall, head, opened,
                   stop, frames>>

CheckStop(s) ==
    /\ dec[s] = "loop"
    /\ dec' = [dec EXCEPT ![s] = IF s \in stop THEN "release" ELSE "drain"]
    /\ UNCHANGED <<uiVars, count, dispatch, cbVars, head, opened, port, stop, frames>>

\* One message of the queue.  The first STREAMDATA opens the PlayM4 stream
\* with the header there is; if that fails the port is freed and the thread
\* ends, with its slot still in CALLBACK_DISPATCH.
Receive(s) ==
    /\ dec[s] = "drain" /\ queue[s] # <<>>
    /\ \/ /\ Head(queue[s]) = "head"
          /\ head' = head \cup {s}
          /\ queue' = [queue EXCEPT ![s] = Tail(@)]
          /\ UNCHANGED <<dec, opened, port>>
       \/ /\ Head(queue[s]) = "data"
          /\ \E ok \in IF opened[s] = "no" THEN Outcome("open") ELSE {TRUE} :
                IF ok
                THEN /\ opened' = [opened EXCEPT ![s] =
                           IF @ # "no" THEN @ ELSE IF s \in head THEN "header" ELSE "bare"]
                     /\ queue' = [queue EXCEPT ![s] = Tail(@)]
                     /\ UNCHANGED <<dec, port, head>>
                ELSE /\ dec' = [dec EXCEPT ![s] = "ended"]
                     /\ port' = [port EXCEPT ![s] = FALSE]
                     /\ queue' = [queue EXCEPT ![s] = <<>>]
                     /\ head' = head \ {s}
                     /\ UNCHANGED opened
    /\ UNCHANGED <<uiVars, count, dispatch, lock, live, lost, sent, inCall, stop, frames>>

\* The queue is drained, then PlayM4_GetJPEG may have a picture: try_send drops
\* it if the UI is behind.
Poll(s) ==
    /\ dec[s] = "drain" /\ queue[s] = <<>>
    /\ dec' = [dec EXCEPT ![s] = "loop"]
    /\ \/ UNCHANGED frames
       \/ /\ opened[s] # "no" /\ frames[s] < FCap
          /\ frames' = [frames EXCEPT ![s] = @ + 1]
    /\ UNCHANGED <<uiVars, count, dispatch, cbVars, head, opened, port, stop>>

\* PlayM4_CloseStream and PlayM4_FreePort; the header of the loop is gone with it.
ReleasePort(s) ==
    /\ dec[s] = "release"
    /\ head' = head \ {s}
    /\ opened' = [opened EXCEPT ![s] = "no"]
    /\ port' = [port EXCEPT ![s] = FALSE]
    /\ dec' = [dec EXCEPT ![s] = "clear"]
    /\ UNCHANGED <<uiVars, count, dispatch, cbVars, stop, frames>>

\* The slot is cleared under the mutex; the thread ends and its queue with it.
ClearSlot(s) ==
    /\ dec[s] = "clear" /\ lock = NoSlot
    /\ dispatch' = dispatch \ {s}
    /\ dec' = [dec EXCEPT ![s] = "ended"]
    /\ queue' = [queue EXCEPT ![s] = <<>>]
    /\ UNCHANGED <<uiVars, count, lock, live, lost, sent, inCall, head, opened, port, stop, frames>>

-----------------------------------------------------------------------------
User == StopAllStreams \/ \E c \in Chan : StartStream(c) \/ StopStream(c)

UI == \/ PushSlot \/ Spawn \/ RealPlay \/ Register \/ Join
      \/ \E e \in todo : SetStop(e) \/ StopRealPlay(e) \/ StopRealPlayReturns(e)
      \/ \E c \in Chan : DrainFrames(c)

Callback(s) == LockDispatch(s) \/ Send(s)

Decoder(s) == \/ GetPort(s) \/ CheckStop(s) \/ Receive(s) \/ Poll(s)
              \/ ReleasePort(s) \/ ClearSlot(s)

Next == User \/ UI \/ \E s \in Slot : Call(s) \/ Callback(s) \/ Decoder(s)

Spec == Init /\ [][Next]_vars

\* The scheduler runs every thread that can go on.  A thread that waits for the
\* mutex of CALLBACK_DISPATCH can go on now and then: it gets it in the end.
FairSpec ==
    /\ Spec /\ SF_vars(UI)
    /\ \A s \in Slot : SF_vars(Decoder(s)) /\ SF_vars(Callback(s))

-----------------------------------------------------------------------------
(* Properties                                                              *)

\* Type invariant; the queues keep to their capacities.
TypeOK ==
    /\ pc \in {"idle", "push", "spawn", "play", "register", "stopping"}
    /\ cur \in Chan /\ todo \subseteq Entry
    /\ leaving \in BOOLEAN /\ session \in BOOLEAN
    /\ entries \subseteq Entry /\ rx \in [Chan -> Slot \cup {NoSlot, Dead}]
    /\ picture \in [Chan -> Slot \cup {NoSlot}]
    /\ count \in 0 .. MaxStarts /\ dispatch \subseteq Slot
    /\ lock \in Slot \cup {NoSlot}
    /\ live \subseteq Slot /\ lost \subseteq live /\ sent \subseteq Slot /\ inCall \subseteq Slot
    /\ queue \in [Slot -> Seq({"head", "data"})]
    /\ \A s \in Slot : Len(queue[s]) <= QCap
    /\ dec \in [Slot -> {"none", "spawned", "loop", "drain", "release", "clear",
                         "ended"}]
    /\ stop \subseteq Slot /\ head \subseteq Slot
    /\ opened \in [Slot -> {"no", "header", "bare"}]
    /\ port \in [Slot -> BOOLEAN]
    /\ frames \in [Slot -> 0 .. FCap]

\* PlayM4 is never opened without the codec header: the slot exists before the
\* SDK's first call, and SYSHEAD is never the message a full queue loses.
OpenedWithHeader == \A s \in Slot : opened[s] # "bare"

\* A channel has one entry at most, and frame_rx is the receiver of its frames.
EntriesMatch ==
    /\ \A d, e \in entries : d.ch = e.ch => d = e
    /\ \A c \in Chan : rx[c] \in Slot => [ch |-> c, slot |-> rx[c]] \in entries
    /\ \A e \in entries : rx[e.ch] = e.slot

\* Previews only run in a session that is logged in, those the SDK refused to stop
\* included.  Between two handlers each of the others has an entry through which it
\* can be stopped, and what was told to stop is gone even if its preview is not: its
\* decoder thread, its PlayM4 port and the data in its queue.  (The thread of a start
\* whose RealPlay failed is never told.)
PreviewsOwned ==
    /\ live # {} => session
    /\ pc = "idle" =>
          /\ \A s \in live \ lost : \E e \in entries : e.slot = s
          /\ \A s \in stop : ~Running(s) /\ ~port[s] /\ queue[s] = <<>>

\* The pictures on the screen are those of the present streams (LiveView).
View == INSTANCE LiveView WITH
            Stream <- Slot,
            stream <- [c \in Chan |-> IF rx[c] = Dead THEN NoSlot ELSE rx[c]]

LiveViewSpec == View!Spec

\* Every handler of the UI thread returns: stopping a channel waits for its decoder
\* thread, and for a callback, but never for ever.  Only a preview that refused to stop
\* can hold it up, while its data comes in faster than its decoder takes it.
HandlersReturn ==
    pc # "idle" ~> (pc = "idle" \/ \E e \in entries : e.slot \in lost)
=============================================================================
