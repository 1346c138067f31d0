-------------------------- MODULE StreamWorkerProofs --------------------------
(* Proofs about StreamWorker, for any channels, methods, failures, capacities   *)
(* and number of starts: no thread ever escapes the channel that started it,    *)
(* the login screen finds none, and the channels show their present streams     *)
(* (LiveView).  The joins are what it rests on: a handle is only given up, or   *)
(* replaced, when its thread has ended.                                         *)
EXTENDS StreamWorker, FiniteSetTheorems, TLAPS

Place == {"none", "entry", "check", "attempt", "handshake", "stream", "packet", "close", "retry", "ended"}

\* The types of what the UI thread shares with the workers (HikvisionApp, StreamState).
Types ==
    /\ pc \in {"login", "idle", "stopping", "joining"}
    /\ cur \in Chan /\ todo \subseteq Chan /\ then \in {"rest", "restart", "leave"}
    /\ handle \in [Chan -> Worker \cup {NoWorker}]
    /\ picture \in [Chan -> Worker \cup {NoWorker}]
    /\ count \in 0 .. MaxStarts
    /\ wpc \in [Worker -> Place]

\* Threads are numbered as they are spawned (start_stream).
Numbered ==
    /\ \A w \in Worker : w > count => wpc[w] = "none"
    /\ \A c \in Chan : handle[c] <= count

\* What stop_stream still has to do: Disconnect leaves the channels it has done
\* empty, a layout change has a thread to replace in each of the others.
Stopping ==
    /\ pc = "joining" => cur \in todo
    /\ pc \in {"stopping", "joining"} /\ then = "leave" =>
            \A c \in Chan \ todo : handle[c] = NoWorker
    /\ pc \in {"stopping", "joining"} /\ then = "restart" =>
            /\ \A c \in todo : handle[c] # NoWorker
            /\ count + Cardinality(todo) <= MaxStarts

\* A channel without a thread has no frames and shows nothing.
Empty ==
    /\ pc = "login" => \A c \in Chan : handle[c] = NoWorker
    /\ \A c \in Chan : handle[c] = NoWorker => picture[c] = NoWorker

IInv == Types /\ Numbered /\ Stopping /\ WorkersOwned /\ Empty

-----------------------------------------------------------------------------
\* The bounds of the model (MaxStarts) and the channels of a device are finite.
LEMMA Bounds == MaxStarts \in Nat \ {0} /\ IsFiniteSet(Chan) /\ NoWorker = 0 /\ NoWorker \notin Worker
BY WorkerAssumption DEF Worker, NoWorker

\* A channel with a thread that has not ended is active (channel_is_active).
LEMMA RunningOwned ==
    ASSUME IInv, NEW w \in Worker, Running(w)
    PROVE  \E c \in Chan : handle[c] = w
BY DEF IInv, WorkersOwned

\* A step of a worker moves that worker only, which was running, and touches nothing
\* of the UI thread (snapshot_stream_loop, run_stream, stream_loop).
LEMMA WorkMovesOne ==
    ASSUME IInv, NEW w \in Worker, Work(w)
    PROVE  /\ Running(w)
           /\ \E l \in Place \ {"none"} : wpc' = [wpc EXCEPT ![w] = l]
           /\ UNCHANGED <<uiVars, stateVars, count>>
<1> USE DEF Running, Place, Goto, Retry
<1>1. CASE Enter(w)
    BY <1>1 DEF Enter
<1>2. CASE Check(w)
    BY <1>2 DEF Check
<1>3. CASE Wait(w)
    <2>1. wpc[w] = "retry" /\ wpc \in [Worker -> Place]
        BY <1>3 DEF Wait, IInv, Types
    <2>2. wpc = [wpc EXCEPT ![w] = "retry"]
        BY <2>1
    <2> QED BY <1>3, <2>1, <2>2 DEF Wait
<1>4. CASE Snapshot(w)
    BY <1>4 DEF Snapshot
<1>5. CASE OpenRtsp(w)
    BY <1>5 DEF OpenRtsp
<1>6. CASE ReadRtsp(w)
    BY <1>6 DEF ReadRtsp
<1>7. CASE DecodeRtsp(w)
    BY <1>7 DEF DecodeRtsp
<1>8. CASE OpenPlayCtrl(w)
    BY <1>8 DEF OpenPlayCtrl
<1>9. CASE CheckPlayCtrl(w)
    BY <1>9 DEF CheckPlayCtrl
<1>10. CASE ReadPlayCtrl(w)
    BY <1>10 DEF ReadPlayCtrl
<1>11. CASE ClosePlayCtrl(w)
    BY <1>11 DEF ClosePlayCtrl
<1>12. CASE Handshake(w)
    BY <1>12 DEF Handshake
<1> QED BY <1>1, <1>2, <1>3, <1>4, <1>5, <1>6, <1>7, <1>8, <1>9, <1>10, <1>11, <1>12 DEF Work

\* A step of a worker keeps the invariant.
LEMMA WorkKeeps ==
    ASSUME IInv, NEW w \in Worker, Work(w)
    PROVE  IInv'
<1>1. Running(w) /\ UNCHANGED <<uiVars, stateVars, count>>
    BY WorkMovesOne
<1>2. PICK l \in Place \ {"none"} : wpc' = [wpc EXCEPT ![w] = l]
    BY WorkMovesOne
<1>3. Types' /\ Stopping' /\ Empty'
    BY <1>1, <1>2 DEF IInv, Types, Stopping, Empty, uiVars, stateVars
<1>4. w <= count
    BY <1>1, Bounds DEF IInv, Numbered, Types, Running, Worker
<1>5. Numbered'
    BY <1>1, <1>2, <1>4, Bounds DEF IInv, Types, Numbered, Worker, stateVars
<1>6. \A v \in Worker : Running(v)' => Running(v)
    BY <1>1, <1>2 DEF IInv, Types, Running
<1>7. WorkersOwned'
    BY <1>1, <1>6 DEF IInv, WorkersOwned, stateVars
<1> QED BY <1>3, <1>5, <1>7 DEF IInv

\* A thread spawned for a channel whose old one has ended, or that has none, is the
\* only one of the channel (start_stream).
LEMMA SpawnKeeps ==
    ASSUME IInv, NEW c \in Chan, SpawnFor(c), count < MaxStarts,
           handle[c] # NoWorker => wpc[handle[c]] = "ended"
    PROVE  /\ handle' \in [Chan -> Worker \cup {NoWorker}] /\ rx' = handle'
           /\ handle'[c] # NoWorker /\ \A d \in Chan \ {c} : handle'[d] = handle[d]
           /\ count' \in 0 .. MaxStarts /\ wpc' \in [Worker -> Place]
           /\ Numbered' /\ WorkersOwned'
<1>1. /\ count \in Nat /\ count + 1 \in Worker /\ count + 1 # NoWorker
      /\ \A d \in Chan : handle[d] # count + 1
    BY Bounds DEF IInv, Types, Numbered, Worker
<1>2. /\ handle' = [handle EXCEPT ![c] = count + 1] /\ rx' = [rx EXCEPT ![c] = count + 1]
      /\ rx = handle /\ count' = count + 1 /\ wpc' = [wpc EXCEPT ![count + 1] = "entry"]
    BY DEF SpawnFor, IInv, WorkersOwned
<1>3. /\ handle' \in [Chan -> Worker \cup {NoWorker}] /\ rx' = handle'
      /\ handle'[c] = count + 1 /\ \A d \in Chan \ {c} : handle'[d] = handle[d]
      /\ count' \in 0 .. MaxStarts /\ wpc' \in [Worker -> Place]
    BY <1>1, <1>2, Bounds DEF IInv, Types, Place
<1>4. Numbered'
    <2>1. ASSUME NEW w \in Worker, w > count' PROVE wpc'[w] = "none"
        BY <1>1, <1>2, <2>1 DEF IInv, Types, Numbered, Worker
    <2>2. ASSUME NEW d \in Chan PROVE handle'[d] <= count'
        <3>1. handle[d] \in Int /\ handle[d] <= count
            BY Bounds DEF IInv, Types, Numbered, Worker
        <3> QED BY <1>1, <1>2, <1>3, <3>1
    <2> QED BY <2>1, <2>2 DEF Numbered
<1>5. WorkersOwned'
    <2>1. ASSUME NEW w \in Worker, Running(w)' PROVE \E d \in Chan : handle'[d] = w
        <3>1. CASE w = count + 1
            BY <1>3, <3>1
        <3>2. CASE w # count + 1
            <4>1. Running(w)
                BY <1>2, <2>1, <3>2 DEF Running, IInv, Types
            <4>2. PICK d \in Chan : handle[d] = w
                BY <4>1, RunningOwned
            <4>3. d # c
                BY <4>1, <4>2, Bounds DEF Running
            <4> QED BY <1>3, <4>2, <4>3
        <3> QED BY <3>1, <3>2
    <2>2. ASSUME NEW d \in Chan, NEW e \in Chan, handle'[d] = handle'[e], handle'[d] # NoWorker
          PROVE  d = e
        BY <1>1, <1>3, <2>2 DEF IInv, WorkersOwned
    <2> QED BY <1>3, <2>1, <2>2 DEF WorkersOwned
<1> QED BY <1>1, <1>3, <1>4, <1>5

-----------------------------------------------------------------------------
\* The program starts on the login screen without threads.
LEMMA IInvInit == Init => IInv
<1> SUFFICES ASSUME Init PROVE IInv
    OBVIOUS
<1>1. Types
    BY Bounds DEF Init, Types, Place
<1>2. Numbered /\ Stopping /\ Empty
    BY Bounds DEF Init, Numbered, Stopping, Empty
<1>3. WorkersOwned
    BY Bounds DEF Init, WorkersOwned, Running
<1> QED BY <1>1, <1>2, <1>3 DEF IInv

\* The join of stop_stream, with what follows it in a layout change.
LEMMA JoinKeeps == IInv /\ Join => IInv'
<1> SUFFICES ASSUME IInv, Join PROVE IInv'
    OBVIOUS
<1>1. /\ pc = "joining" /\ pc' = "stopping" /\ cur \in todo /\ cur \in Chan
      /\ todo' = todo \ {cur} /\ cur' = cur /\ then' = then
      /\ picture' = [picture EXCEPT ![cur] = NoWorker]
      /\ handle[cur] # NoWorker => wpc[handle[cur]] = "ended"
    BY DEF Join, Joined, IInv, Stopping, Types
<1>2. picture' \in [Chan -> Worker \cup {NoWorker}] /\ picture'[cur] = NoWorker
      /\ \A c \in Chan \ {cur} : picture'[c] = picture[c]
    BY <1>1 DEF IInv, Types
<1>3. IsFiniteSet(todo) /\ IsFiniteSet(todo') /\ Cardinality(todo') = Cardinality(todo) - 1
      /\ Cardinality(todo) \in Nat /\ Cardinality(todo') \in Nat
    <2>1. IsFiniteSet(todo)
        BY Bounds, FS_Subset DEF IInv, Types
    <2> QED BY <1>1, <2>1, FS_RemoveElement, FS_CardinalityType
<1>4. CASE then = "restart" /\ SpawnFor(cur)
    <2>1. count < MaxStarts /\ count' = count + 1
        BY <1>1, <1>3, <1>4, Bounds DEF IInv, Types, Stopping, SpawnFor
    <2>2. /\ handle' \in [Chan -> Worker \cup {NoWorker}]
          /\ handle'[cur] # NoWorker /\ \A d \in Chan \ {cur} : handle'[d] = handle[d]
          /\ count' \in 0 .. MaxStarts /\ wpc' \in [Worker -> Place]
          /\ Numbered' /\ WorkersOwned'
        BY <1>1, <1>4, <2>1, SpawnKeeps
    <2>3. Types'
        BY <1>1, <1>2, <2>2 DEF IInv, Types
    <2>4. Stopping'
        <3>1. count + Cardinality(todo) <= MaxStarts /\ \A c \in todo : handle[c] # NoWorker
            BY <1>1, <1>4 DEF IInv, Stopping
        <3>2. count' + Cardinality(todo') <= MaxStarts
            BY <1>3, <2>1, <3>1, Bounds DEF IInv, Types
        <3> QED BY <1>1, <1>4, <2>2, <3>1, <3>2 DEF IInv, Types, Stopping
    <2>5. Empty'
        BY <1>1, <1>2, <2>2 DEF IInv, Empty
    <2> QED BY <2>2, <2>3, <2>4, <2>5 DEF IInv
<1>5. CASE /\ then # "restart"
           /\ handle' = [handle EXCEPT ![cur] = NoWorker]
           /\ rx' = [rx EXCEPT ![cur] = NoWorker]
           /\ UNCHANGED <<count, wpc>>
    <2>1. /\ handle' \in [Chan -> Worker \cup {NoWorker}] /\ handle'[cur] = NoWorker
          /\ \A d \in Chan \ {cur} : handle'[d] = handle[d]
        BY <1>1, <1>5 DEF IInv, Types
    <2>2. Types'
        BY <1>1, <1>2, <1>5, <2>1 DEF IInv, Types
    <2>3. Numbered' /\ Empty'
        BY <1>1, <1>2, <1>5, <2>1, Bounds DEF IInv, Types, Numbered, Empty
    <2>4. Stopping'
        BY <1>1, <1>5, <2>1 DEF IInv, Stopping
    <2>5. WorkersOwned'
        <3>1. ASSUME NEW w \in Worker, Running(w)' PROVE \E d \in Chan : handle'[d] = w
            <4>1. Running(w)
                BY <1>5, <3>1 DEF Running
            <4>2. PICK d \in Chan : handle[d] = w
                BY <4>1, RunningOwned
            <4>3. d # cur
                BY <1>1, <4>1, <4>2, Bounds DEF Running
            <4> QED BY <2>1, <4>2, <4>3
        <3>2. ASSUME NEW d \in Chan, NEW e \in Chan, handle'[d] = handle'[e], handle'[d] # NoWorker
              PROVE  d = e
            BY <2>1, <3>2 DEF IInv, WorkersOwned
        <3>3. rx' = handle'
            BY <1>5 DEF IInv, WorkersOwned
        <3> QED BY <3>1, <3>2, <3>3 DEF WorkersOwned
    <2> QED BY <2>2, <2>3, <2>4, <2>5 DEF IInv
<1> QED BY <1>4, <1>5 DEF Join

\* Every step of the UI thread and of the workers keeps the invariant.
LEMMA IInvNext == IInv /\ [Next]_vars => IInv'
<1> SUFFICES ASSUME IInv, [Next]_vars PROVE IInv'
    OBVIOUS
<1>1. CASE Connect
    BY <1>1 DEF Connect, stateVars, workerVars, IInv, Types, Numbered, Stopping, WorkersOwned, Running, Empty
<1>2. ASSUME NEW c \in Chan, StartStream(c) PROVE IInv'
    <2>1. /\ pc = "idle" /\ UNCHANGED <<pc, cur, todo, then, picture>> /\ SpawnFor(c)
          /\ handle[c] = NoWorker /\ count < MaxStarts
        BY <1>2 DEF StartStream, Active, uiVars
    <2>2. /\ handle' \in [Chan -> Worker \cup {NoWorker}]
          /\ handle'[c] # NoWorker /\ \A d \in Chan \ {c} : handle'[d] = handle[d]
          /\ count' \in 0 .. MaxStarts /\ wpc' \in [Worker -> Place]
          /\ Numbered' /\ WorkersOwned'
        BY <2>1, SpawnKeeps
    <2> QED BY <2>1, <2>2 DEF IInv, Types, Stopping, Empty
<1>3. ASSUME NEW c \in Chan, StopStream(c) PROVE IInv'
    BY <1>3 DEF StopStream, stateVars, workerVars, IInv, Types, Numbered, Stopping, WorkersOwned, Running, Empty
<1>4. CASE Disconnect
    BY <1>4 DEF Disconnect, stateVars, workerVars, IInv, Types, Numbered, Stopping, WorkersOwned, Running, Empty
<1>5. CASE ChangeLayout
    <2>1. \A c \in todo' : handle[c] # NoWorker
        BY <1>5 DEF ChangeLayout, Active, IInv, WorkersOwned
    <2> QED BY <1>5, <2>1 DEF ChangeLayout, stateVars, workerVars, IInv, Types, Numbered, Stopping, WorkersOwned, Running, Empty
<1>6. CASE Join
    BY <1>6, JoinKeeps
<1>7. CASE EndStop
    BY <1>7 DEF EndStop, stateVars, workerVars, IInv, Types, Numbered, Stopping, WorkersOwned, Running, Empty
<1>8. ASSUME NEW c \in Chan, SetStop(c) PROVE IInv'
    BY <1>8 DEF SetStop, stateVars, workerVars, IInv, Types, Numbered, Stopping, WorkersOwned, Running, Empty
<1>9. ASSUME NEW c \in Chan, DrainFrames(c) PROVE IInv'
    <2>1. rx[c] = handle[c] /\ handle[c] \in Worker /\ handle[c] # NoWorker
        BY <1>9 DEF DrainFrames, IInv, WorkersOwned, Types
    <2>2. picture' = [picture EXCEPT ![c] = handle[c]]
        BY <1>9, <2>1 DEF DrainFrames
    <2> QED BY <1>9, <2>1, <2>2 DEF DrainFrames, uiVars, workerVars, IInv, Types, Numbered, Stopping, WorkersOwned, Running, Empty
<1>10. ASSUME NEW w \in Worker, Work(w) PROVE IInv'
    BY <1>10, WorkKeeps
<1>11. CASE UNCHANGED vars
    BY <1>11 DEF vars, uiVars, stateVars, workerVars, IInv, Types, Numbered, Stopping, WorkersOwned, Running, Empty
<1> QED BY <1>1, <1>2, <1>3, <1>4, <1>5, <1>6, <1>7, <1>8, <1>9, <1>10, <1>11 DEF Next, User, UI

\* The invariant is one of the specification.
THEOREM IInvAlways == Spec => []IInv
BY IInvInit, IInvNext, PTL DEF Spec

\* Every thread that runs is the thread of one channel, which can stop and join it
\* (start_stream, stop_stream).
THEOREM WorkersOwnedAlways == Spec => []WorkersOwned
<1>1. IInv => WorkersOwned
    BY DEF IInv
<1> QED BY <1>1, IInvAlways, PTL

\* Disconnect leaves no thread and no texture behind (show_viewer, stop_all_streams).
THEOREM LoginScreenIdleAlways == Spec => []LoginScreenIdle
<1>1. IInv => LoginScreenIdle
    <2> SUFFICES ASSUME IInv, pc = "login"
                 PROVE  /\ \A w \in Worker : ~Running(w)
                        /\ \A c \in Chan : ~Active(c) /\ picture[c] = NoWorker
        BY DEF LoginScreenIdle
    <2>1. \A c \in Chan : handle[c] = NoWorker /\ rx[c] = NoWorker /\ picture[c] = NoWorker
        BY DEF IInv, Empty, WorkersOwned
    <2>2. \A w \in Worker : ~Running(w)
        BY <2>1, RunningOwned, Bounds
    <2> QED BY <2>1, <2>2 DEF Active
<1> QED BY <1>1, IInvAlways, PTL

\* Every step shows, replaces or stops the streams of LiveView, or changes nothing it
\* sees: a channel only shows pictures of its present thread (drain_frames).
LEMMA StepImplements == IInv /\ [Next]_vars => [View!Next]_(View!vars)
<1> SUFFICES ASSUME IInv, [Next]_vars PROVE [View!Next]_(View!vars)
    OBVIOUS
<1> USE DEF View!Next, View!vars
<1>0. /\ rx = handle /\ rx \in [Chan -> Worker \cup {NoWorker}]
      /\ picture \in [Chan -> Worker \cup {NoWorker}] /\ NoWorker = 0
    BY Bounds DEF IInv, WorkersOwned, Types
<1>1. CASE UNCHANGED <<rx, picture>>
    BY <1>1
<1>2. ASSUME NEW c \in Chan, SpawnFor(c), count < MaxStarts
      PROVE  \E s \in Worker : (\A d \in Chan : rx[d] # s) /\ rx' = [rx EXCEPT ![c] = s]
    <2>1. count + 1 \in Worker /\ \A d \in Chan : rx[d] # count + 1
        BY <1>0, <1>2, Bounds DEF IInv, Types, Numbered, Worker
    <2> QED BY <1>2, <2>1 DEF SpawnFor
<1>3. ASSUME NEW c \in Chan, StartStream(c) PROVE View!Next
    <2>1. rx[c] = 0 /\ picture[c] = 0 /\ picture' = picture
        BY <1>0, <1>3 DEF StartStream, Active, IInv, Empty
    <2>2. \E s \in Worker : (\A d \in Chan : rx[d] # s) /\ rx' = [rx EXCEPT ![c] = s]
        BY <1>2, <1>3 DEF StartStream
    <2>3. View!Start(c)
        BY <2>1, <2>2 DEF View!Start
    <2> QED BY <2>3
<1>4. ASSUME NEW c \in Chan, DrainFrames(c) PROVE View!Next
    <2>1. View!Show(c)
        BY <1>0, <1>4 DEF DrainFrames, View!Show
    <2> QED BY <2>1
<1>5. CASE Join
    <2>1. cur \in Chan /\ cur \in todo /\ pc = "joining" /\ picture' = [picture EXCEPT ![cur] = 0]
        BY <1>0, <1>5 DEF Join, IInv, Types, Stopping
    <2>2. CASE then = "restart" /\ SpawnFor(cur)
        <3>1. rx[cur] # 0 /\ count < MaxStarts
            <4>1. IsFiniteSet(todo) /\ Cardinality(todo) \in Nat /\ Cardinality(todo \ {cur}) \in Nat
                  /\ Cardinality(todo \ {cur}) = Cardinality(todo) - 1
                <5>1. IsFiniteSet(todo)
                    BY Bounds, FS_Subset DEF IInv, Types
                <5> QED BY <2>1, <5>1, FS_RemoveElement, FS_CardinalityType
            <4> QED BY <1>0, <2>1, <2>2, <4>1, Bounds DEF IInv, Types, Stopping
        <3>2. View!Replace(cur)
            BY <1>2, <2>1, <2>2, <3>1 DEF View!Replace
        <3> QED BY <2>1, <3>2
    <2>3. CASE rx' = [rx EXCEPT ![cur] = NoWorker]
        <3>1. /\ rx' = [c \in Chan |-> IF c \in {cur} THEN 0 ELSE rx[c]]
              /\ picture' = [c \in Chan |-> IF c \in {cur} THEN 0 ELSE picture[c]]
            BY <1>0, <2>1, <2>3
        <3>2. View!Stop({cur}) /\ {cur} \in SUBSET Chan
            BY <2>1, <3>1 DEF View!Stop
        <3> QED BY <3>2
    <2> QED BY <1>5, <2>2, <2>3 DEF Join
<1>6. CASE Connect \/ Disconnect \/ ChangeLayout \/ EndStop
    BY <1>1, <1>6 DEF Connect, Disconnect, ChangeLayout, EndStop, stateVars
<1>7. ASSUME NEW c \in Chan, StopStream(c) \/ SetStop(c) PROVE UNCHANGED <<rx, picture>>
    BY <1>7 DEF StopStream, SetStop, stateVars
<1>8. ASSUME NEW w \in Worker, Work(w) PROVE UNCHANGED <<rx, picture>>
    BY <1>8, WorkMovesOne DEF stateVars
<1>9. CASE UNCHANGED vars
    BY <1>1, <1>9 DEF vars, stateVars
<1> QED BY <1>1, <1>3, <1>4, <1>5, <1>6, <1>7, <1>8, <1>9 DEF Next, User, UI

\* The workers implement LiveView: what a channel shows was decoded by the stream it
\* has now (start_stream, stop_stream, drain_frames).
THEOREM ImplementsLiveView == Spec => LiveViewSpec
<1>1. Init => View!Init
    BY Bounds DEF Init, View!Init
<1> QED BY <1>1, IInvAlways, StepImplements, PTL DEF Spec, LiveViewSpec, View!Spec

-----------------------------------------------------------------------------
(* What LiveView promises                                                  *)

\* In every behaviour of LiveView no picture outlives the stream that decoded it, and
\* no two channels have the same stream.
LEMMA FreshAlways == View!Spec => []View!Fresh
<1> DEFINE Functions == rx \in [Chan -> Worker \cup {0}] /\ picture \in [Chan -> Worker \cup {0}]
<1>1. View!Init => Functions /\ View!Fresh
  BY DEF View!Init, View!Fresh
<1>2. Functions /\ View!Fresh /\ [View!Next]_(View!vars) => Functions' /\ View!Fresh'
  <2> SUFFICES ASSUME Functions, View!Fresh, [View!Next]_(View!vars)
               PROVE  Functions' /\ View!Fresh'
    OBVIOUS
  <2>1. ASSUME NEW c \in Chan, NEW s \in Worker, \A d \in Chan : rx[d] # s,
               rx' = [rx EXCEPT ![c] = s], picture' = [picture EXCEPT ![c] = 0]
        PROVE  Functions' /\ View!Fresh'
    BY <2>1 DEF View!Fresh
  <2>2. ASSUME NEW c \in Chan, View!Start(c) PROVE Functions' /\ View!Fresh'
    <3>1. picture' = [picture EXCEPT ![c] = 0]
      BY <2>2 DEF View!Start
    <3>. QED
      BY <2>1, <2>2, <3>1 DEF View!Start
  <2>3. ASSUME NEW c \in Chan, View!Replace(c) PROVE Functions' /\ View!Fresh'
    BY <2>1, <2>3 DEF View!Replace
  <2>4. ASSUME NEW c \in Chan, View!Show(c) PROVE Functions' /\ View!Fresh'
    BY <2>4 DEF View!Show, View!Fresh
  <2>5. ASSUME NEW C \in SUBSET Chan, View!Stop(C) PROVE Functions' /\ View!Fresh'
    BY <2>5 DEF View!Stop, View!Fresh
  <2>6. CASE UNCHANGED View!vars
    BY <2>6 DEF View!vars, View!Fresh
  <2>. QED
    BY <2>2, <2>3, <2>4, <2>5, <2>6 DEF View!Next
<1>. QED
  BY <1>1, <1>2, PTL DEF View!Spec

\* No texture of the viewer ever outlives the thread that decoded it (stop_stream,
\* drain_frames).
THEOREM PicturesFresh == Spec => []View!Fresh
BY ImplementsLiveView, FreshAlways, PTL DEF LiveViewSpec
=============================================================================
