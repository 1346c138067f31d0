------------------------ MODULE CallbackStreamProofs ------------------------
(* Proofs about CallbackStream, for any channels, failures, capacities, PlayM4  *)
(* ports and number of starts, and whether or not NET_DVR_StopRealPlay waits:   *)
(* no decoder opens PlayM4 without the codec header, no preview is ever beyond  *)
(* stop_channel's reach, and the channels show their present streams            *)
(* (LiveView).                                                                  *)
EXTENDS CallbackStream, TLAPS

\* Slots are numbered as they are pushed (start_channel): a new one has no thread,
\* no preview, no callback and no entry, and was not told to stop.
Numbered ==
    /\ pc = "push" => count < MaxStarts
    /\ pc \in {"spawn", "play", "register"} => count \in Slot
    /\ \A s \in Slot : s > count \/ (pc = "spawn" /\ s = count) => dec[s] = "none"
    /\ \A s \in live \cup inCall \cup stop : s <= count
    /\ \A e \in entries : e.slot <= count
    /\ pc \in {"spawn", "play", "register"} => \A e \in entries : e.slot # count
    /\ lock # NoSlot => lock \in inCall

\* A decoder has a port from GetPort to ReleasePort only (decoder_loop).
PortsHeld == \A s \in Slot : port[s] => dec[s] \in {"loop", "drain", "release"}

\* Until the thread leaves its loop its slot is Some, and what stands first in its queue
\* before it has the header is the header (data_callback); with it the queue ends.
Headers ==
    /\ OpenedWithHeader
    /\ \A s \in Slot : dec[s] = "ended" => queue[s] = <<>>
    /\ \A s \in Slot : dec[s] \notin {"clear", "ended"} =>
        /\ s <= count => s \in dispatch
        /\ s \notin sent => queue[s] = <<>>
        /\ s \in sent \ head => queue[s] # <<>> /\ Head(queue[s]) = "head"

\* Entries, previews and what stop_channel and stop_all have still to do.
Owned ==
    /\ EntriesMatch
    /\ pc # "stopping" => todo = {} /\ ~leaving
    /\ pc \in {"push", "spawn", "play", "register"} => session /\ rx[cur] = Dead
    /\ live # {} => session
    /\ \A s \in live \ lost :
          (\E e \in entries : e.slot = s) \/ (pc = "register" /\ s = count)
    /\ todo \subseteq Stopped
    /\ pc = "stopping" => \A e \in Stopped \ todo : e.slot \in stop \ (live \ lost)
    /\ \A s \in stop : dec[s] = "ended" \/ (pc = "stopping" /\ \E e \in Stopped : e.slot = s)
    /\ \A c \in Chan : rx[c] \notin Slot => picture[c] = NoSlot

IInv == TypeOK /\ Numbered /\ PortsHeld /\ Headers /\ Owned

-----------------------------------------------------------------------------
\* The bounds of the model; a slot is neither of the two marks in frame_rx.
LEMMA Bounds == /\ MaxStarts \in Nat \ {0} /\ QCap \in Nat \ {0} /\ FCap \in Nat \ {0}
                /\ NoSlot = 0 /\ Dead = -1 /\ NoSlot \notin Slot /\ Dead \notin Slot
                /\ Slot \subseteq Nat
BY CallbackAssumption DEF NoSlot, Dead, Slot

\* The data queues (mpsc::sync_channel), and what a receive or an end leaves of one.
QueueTypes ==
    /\ queue \in [Slot -> Seq({"head", "data"})]
    /\ \A s \in Slot : Len(queue[s]) <= QCap

\* A thread that ends drops its Receiver, and the queue with it (decoder_loop).
LEMMA EmptyQueue ==
    ASSUME QueueTypes, NEW s \in Slot, queue' = [queue EXCEPT ![s] = <<>>]
    PROVE  QueueTypes'
<1>1. <<>> \in Seq({"head", "data"}) /\ Len(<<>>) = 0
  OBVIOUS
<1>. QED
  BY <1>1, Bounds DEF QueueTypes

\* A received message leaves a shorter queue (try_recv).
LEMMA ShorterQueue ==
    ASSUME QueueTypes, NEW s \in Slot, queue[s] # <<>>, queue' = [queue EXCEPT ![s] = Tail(@)]
    PROVE  QueueTypes'
<1>1. Tail(queue[s]) \in Seq({"head", "data"}) /\ Len(Tail(queue[s])) <= QCap
  BY Bounds DEF QueueTypes
<1>. QED
  BY <1>1, Bounds DEF QueueTypes

-----------------------------------------------------------------------------
(* Every step preserves the invariant                                      *)

\* Types: a slot is pushed only while there is one, and the queues keep to their
\* capacities because try_send does (start_channel, data_callback).
LEMMA TypeStep == IInv /\ [Next]_vars => TypeOK'
<1> SUFFICES ASSUME IInv, [Next]_vars PROVE TypeOK'
  OBVIOUS
<1> USE Bounds DEF IInv, TypeOK, Entry, uiVars, cbVars, decVars
<1>1. CASE PushSlot
  <2>1. count + 1 \in Slot /\ count + 1 \in 0 .. MaxStarts
    BY <1>1 DEF PushSlot, Numbered, Slot
  <2>2. count' \in 0 .. MaxStarts /\ dispatch' \subseteq Slot /\ pc' = "spawn"
    BY <1>1, <2>1 DEF PushSlot
  <2>. QED
    BY <1>1, <2>2 DEF PushSlot
<1>2. CASE Spawn
  BY <1>2 DEF Spawn
<1>3. CASE RealPlay
  <2>1. live' \subseteq Slot /\ lost' \subseteq live' /\ pc' \in {"register", "idle"}
    BY <1>3 DEF RealPlay, Numbered, Outcome
  <2>. QED
    BY <1>3, <2>1 DEF RealPlay
<1>4. CASE Register
  <2>1. count \in Slot /\ [ch |-> cur, slot |-> count] \in Entry
    BY <1>4 DEF Register, Numbered
  <2>2. entries' \subseteq Entry /\ rx' \in [Chan -> Slot \cup {NoSlot, Dead}] /\ pc' = "idle"
    BY <1>4, <2>1 DEF Register
  <2>. QED
    BY <1>4, <2>2 DEF Register
<1>5. CASE Join
  <2>1. live' \subseteq Slot /\ lost' \subseteq live' /\ sent' \subseteq Slot
    BY <1>5 DEF Join, Logout
  <2>2. frames' \in [Slot -> 0 .. FCap]
    <3>1. \A s \in Slot : frames[s] \in 0 .. FCap /\ 0 \in 0 .. FCap
      OBVIOUS
    <3>. QED
      BY <1>5, <3>1, Zenon DEF Join
  <2>. QED
    BY <1>5, <2>1, <2>2 DEF Join
<1>6. ASSUME NEW c \in Chan, StartStream(c) PROVE TypeOK'
  BY <1>6 DEF StartStream, Outcome
<1>7. ASSUME NEW c \in Chan, StopStream(c) PROVE TypeOK'
  BY <1>7 DEF StopStream, SlotsOf
<1>8. CASE StopAllStreams
  BY <1>8 DEF StopAllStreams
<1>9. ASSUME NEW e \in todo, SetStop(e) PROVE TypeOK'
  BY <1>9 DEF SetStop
<1>10. ASSUME NEW e \in todo, StopRealPlay(e) PROVE TypeOK'
  <2>1. /\ e.slot \in live \ lost
        /\ \/ live' = live \ {e.slot} /\ lost' = lost
           \/ live' = live /\ lost' = lost \cup {e.slot}
    BY <1>10 DEF StopRealPlay
  <2>2. live' \subseteq Slot /\ lost' \subseteq live'
    BY <2>1
  <2>. QED
    BY <1>10, <2>2 DEF StopRealPlay
<1>11. ASSUME NEW e \in todo, StopRealPlayReturns(e) PROVE TypeOK'
  BY <1>11 DEF StopRealPlayReturns
<1>12. ASSUME NEW c \in Chan, DrainFrames(c) PROVE TypeOK'
  BY <1>12 DEF DrainFrames
<1>13. ASSUME NEW s \in Slot, Call(s) PROVE TypeOK'
  BY <1>13 DEF Call
<1>14. ASSUME NEW s \in Slot, LockDispatch(s) PROVE TypeOK'
  BY <1>14 DEF LockDispatch
<1>15. ASSUME NEW s \in Slot, Send(s) PROVE TypeOK'
  <2>1. /\ queue' \in [Slot -> Seq({"head", "data"})]
        /\ \A t \in Slot : Len(queue'[t]) <= QCap
    BY <1>15 DEF Send, Message
  <2>. QED
    BY <1>15, <2>1 DEF Send
<1>16. ASSUME NEW s \in Slot, GetPort(s) PROVE TypeOK'
  BY <1>16, EmptyQueue DEF GetPort, QueueTypes
<1>17. ASSUME NEW s \in Slot, CheckStop(s) PROVE TypeOK'
  BY <1>17 DEF CheckStop
<1>18. ASSUME NEW s \in Slot, Receive(s) PROVE TypeOK'
  <2>1. /\ queue' \in [Slot -> Seq({"head", "data"})]
        /\ \A t \in Slot : Len(queue'[t]) <= QCap
    BY <1>18, EmptyQueue, ShorterQueue DEF Receive, QueueTypes
  <2>. QED
    BY <1>18, <2>1 DEF Receive
<1>19. ASSUME NEW s \in Slot, Poll(s) PROVE TypeOK'
  <2>1. frames' \in [Slot -> 0 .. FCap]
    BY <1>19 DEF Poll
  <2>. QED
    BY <1>19, <2>1 DEF Poll
<1>20. ASSUME NEW s \in Slot, ReleasePort(s) PROVE TypeOK'
  BY <1>20 DEF ReleasePort
<1>21. ASSUME NEW s \in Slot, ClearSlot(s) PROVE TypeOK'
  BY <1>21, EmptyQueue DEF ClearSlot, QueueTypes
<1>22. CASE UNCHANGED vars
  BY <1>22 DEF vars
<1>. QED
  BY <1>1, <1>2, <1>3, <1>4, <1>5, <1>6, <1>7, <1>8, <1>9, <1>10, <1>11, <1>12, <1>13, <1>14,
     <1>15, <1>16, <1>17, <1>18, <1>19, <1>20, <1>21, <1>22
     DEF Next, User, UI, Callback, Decoder

\* A slot is new when it is pushed and comes into use in the order of start_channel.
LEMMA NumberedStep == IInv /\ [Next]_vars => Numbered'
<1> SUFFICES ASSUME IInv, [Next]_vars PROVE Numbered'
  OBVIOUS
<1> USE Bounds DEF IInv, TypeOK, Numbered, Slot, Entry, uiVars, cbVars, decVars
<1>1. CASE PushSlot
  BY <1>1 DEF PushSlot
<1>2. CASE Spawn
  BY <1>2 DEF Spawn
<1>3. CASE RealPlay
  BY <1>3 DEF RealPlay, Outcome
<1>4. CASE Register
  BY <1>4 DEF Register, Stopped
<1>5. CASE Join
  BY <1>5 DEF Join, Logout, Stopped
<1>6. ASSUME NEW c \in Chan, StartStream(c) PROVE Numbered'
  BY <1>6 DEF StartStream, Outcome
<1>7. ASSUME NEW c \in Chan, StopStream(c) PROVE Numbered'
  BY <1>7 DEF StopStream, SlotsOf
<1>8. CASE StopAllStreams
  BY <1>8 DEF StopAllStreams
<1>9. ASSUME NEW e \in todo, SetStop(e) PROVE Numbered'
  <2>1. e \in entries /\ pc = "stopping"
    BY <1>9 DEF SetStop, Owned, Stopped, SlotsOf
  <2>2. e.slot <= count
    BY <2>1
  <2>. QED
    BY <1>9, <2>1, <2>2 DEF SetStop
<1>10. ASSUME NEW e \in todo, StopRealPlay(e) PROVE Numbered'
  BY <1>10 DEF StopRealPlay
<1>11. ASSUME NEW e \in todo, StopRealPlayReturns(e) PROVE Numbered'
  BY <1>11 DEF StopRealPlayReturns
<1>12. ASSUME NEW c \in Chan, DrainFrames(c) PROVE Numbered'
  BY <1>12 DEF DrainFrames
<1>13. ASSUME NEW s \in Slot, Call(s) PROVE Numbered'
  BY <1>13 DEF Call
<1>14. ASSUME NEW s \in Slot, LockDispatch(s) PROVE Numbered'
  BY <1>14 DEF LockDispatch
<1>15. ASSUME NEW s \in Slot, Send(s) PROVE Numbered'
  BY <1>15 DEF Send, Message
<1>16. ASSUME NEW s \in Slot, GetPort(s) PROVE Numbered'
  BY <1>16 DEF GetPort
<1>17. ASSUME NEW s \in Slot, CheckStop(s) PROVE Numbered'
  BY <1>17 DEF CheckStop
<1>18. ASSUME NEW s \in Slot, Receive(s) PROVE Numbered'
  BY <1>18 DEF Receive
<1>19. ASSUME NEW s \in Slot, Poll(s) PROVE Numbered'
  BY <1>19 DEF Poll
<1>20. ASSUME NEW s \in Slot, ReleasePort(s) PROVE Numbered'
  BY <1>20 DEF ReleasePort
<1>21. ASSUME NEW s \in Slot, ClearSlot(s) PROVE Numbered'
  BY <1>21 DEF ClearSlot
<1>22. CASE UNCHANGED vars
  BY <1>22 DEF vars
<1>. QED
  BY <1>1, <1>2, <1>3, <1>4, <1>5, <1>6, <1>7, <1>8, <1>9, <1>10, <1>11, <1>12, <1>13, <1>14,
     <1>15, <1>16, <1>17, <1>18, <1>19, <1>20, <1>21, <1>22
     DEF Next, User, UI, Callback, Decoder

\* Steps that are no start, no message and no step of a decoder move none of this.
decoding == <<count, dispatch, sent, queue, dec, head, opened, port>>
Quiet == UNCHANGED decoding

\* start_channel, data_callback and decoder_loop are all there is beside them.
LEMMA Steps ==
    ASSUME [Next]_vars
    PROVE  Quiet \/ PushSlot \/ Spawn \/ Join \/ \E s \in Slot : Send(s) \/ Decoder(s)
<1> USE DEF Quiet, decoding, cbVars, decVars
<1>1. CASE RealPlay \/ Register \/ StopAllStreams
  BY <1>1 DEF RealPlay, Register, StopAllStreams
<1>2. ASSUME NEW c \in Chan, StartStream(c) \/ StopStream(c) \/ DrainFrames(c) PROVE Quiet
  BY <1>2 DEF StartStream, StopStream, DrainFrames
<1>3. ASSUME NEW e \in todo, SetStop(e) \/ StopRealPlay(e) \/ StopRealPlayReturns(e)
      PROVE  Quiet
  BY <1>3 DEF SetStop, StopRealPlay, StopRealPlayReturns
<1>4. ASSUME NEW s \in Slot, Call(s) \/ LockDispatch(s) PROVE Quiet
  BY <1>4 DEF Call, LockDispatch
<1>5. CASE UNCHANGED vars
  BY <1>5 DEF vars
<1>. QED
  BY <1>1, <1>2, <1>3, <1>4, <1>5 DEF Next, User, UI, Callback

\* Only decoder_loop itself gets and frees its port.
LEMMA PortsStep == IInv /\ [Next]_vars => PortsHeld'
<1> SUFFICES ASSUME IInv, [Next]_vars PROVE PortsHeld'
  OBVIOUS
<1> USE DEF IInv, TypeOK, PortsHeld, cbVars, decVars
<1>1. CASE Quiet
  BY <1>1 DEF Quiet, decoding
<1>2. CASE PushSlot
  BY <1>2 DEF PushSlot
<1>3. CASE Spawn
  BY <1>3 DEF Spawn, Numbered
<1>4. ASSUME NEW s \in Slot, Send(s) PROVE PortsHeld'
  BY <1>4 DEF Send
<1>5. ASSUME NEW s \in Slot, GetPort(s) \/ CheckStop(s) PROVE PortsHeld'
  BY <1>5 DEF GetPort, CheckStop
<1>6. ASSUME NEW s \in Slot, Receive(s) PROVE PortsHeld'
  BY <1>6 DEF Receive
<1>7. ASSUME NEW s \in Slot, Poll(s) \/ ReleasePort(s) \/ ClearSlot(s) PROVE PortsHeld'
  BY <1>7 DEF Poll, ReleasePort, ClearSlot
<1>8. CASE Join
  BY <1>8 DEF Join
<1>. QED
  BY <1>1, <1>2, <1>3, <1>4, <1>5, <1>6, <1>7, <1>8, Steps DEF Decoder

\* A start pushes its slot before the SDK can call, so SYSHEAD finds it, and an empty
\* queue, which is never full: it is not lost (start_channel, data_callback).
LEMMA HeadersStep == IInv /\ [Next]_vars => Headers'
<1> SUFFICES ASSUME IInv, [Next]_vars PROVE Headers'
  OBVIOUS
<1> USE Bounds DEF IInv, TypeOK, Headers, OpenedWithHeader, cbVars, decVars
<1>1. CASE Quiet
  BY <1>1 DEF Quiet, decoding
<1>2. CASE PushSlot
  BY <1>2 DEF PushSlot
<1>3. CASE Spawn
  BY <1>3 DEF Spawn, Numbered
<1>4. ASSUME NEW s \in Slot, Send(s) PROVE Headers'
  <2>1. s <= count /\ UNCHANGED <<count, dispatch, dec, head, opened>>
    BY <1>4 DEF Send, Numbered
  <2>2. CASE dec[s] = "ended"
    BY <1>4, <2>1, <2>2 DEF Send
  <2>5. CASE dec[s] = "clear"
    BY <1>4, <2>1, <2>5 DEF Send
  <2>3. CASE dec[s] \notin {"clear", "ended"} /\ s \notin sent
    <3>1. queue[s] = <<>> /\ s \in dispatch /\ Len(queue[s]) < QCap
      BY <2>1, <2>3
    <3>2. queue' = [queue EXCEPT ![s] = Append(<<>>, "head")]
      BY <1>4, <2>3, <3>1 DEF Send, Message
    <3>3. queue'[s] # <<>> /\ Head(queue'[s]) = "head"
      BY <3>2
    <3>. QED
      BY <1>4, <2>1, <3>2, <3>3 DEF Send
  <2>4. CASE dec[s] \notin {"clear", "ended"} /\ s \in sent
    <3>1. CASE queue' = [queue EXCEPT ![s] = Append(queue[s], "data")]
      <4>1. s \notin head => queue'[s] # <<>> /\ Head(queue'[s]) = "head"
        <5>. SUFFICES ASSUME s \notin head PROVE queue'[s] # <<>> /\ Head(queue'[s]) = "head"
          OBVIOUS
        <5>1. queue[s] \in Seq({"head", "data"}) /\ queue[s] # <<>> /\ Head(queue[s]) = "head"
          BY <2>4
        <5>2. /\ Append(queue[s], "data") # <<>>
              /\ Head(Append(queue[s], "data")) = Head(queue[s])
          BY <5>1
        <5>. QED
          BY <3>1, <5>1, <5>2
      <4>. QED
        BY <1>4, <2>1, <2>4, <3>1, <4>1 DEF Send
    <3>2. CASE queue' = queue
      BY <1>4, <2>1, <2>4, <3>2 DEF Send
    <3>. QED
      BY <1>4, <2>4, <3>1, <3>2 DEF Send, Message
  <2>. QED
    BY <2>2, <2>3, <2>4, <2>5
<1>5. ASSUME NEW s \in Slot, GetPort(s) PROVE Headers'
  BY <1>5 DEF GetPort
<1>6. ASSUME NEW s \in Slot, CheckStop(s) PROVE Headers'
  BY <1>6 DEF CheckStop
<1>7. ASSUME NEW s \in Slot, Receive(s) PROVE Headers'
  <2>1. s \in sent /\ UNCHANGED <<count, dispatch, sent>>
    BY <1>7 DEF Receive
  <2>2. CASE Head(queue[s]) = "head"
    <3>1. /\ head' = head \cup {s} /\ queue' = [queue EXCEPT ![s] = Tail(@)]
          /\ UNCHANGED <<dec, opened>>
      BY <1>7, <2>2 DEF Receive
    <3>. QED
      BY <2>1, <3>1
  <2>3. CASE Head(queue[s]) = "data"
    <3>1. s \in head
      BY <1>7, <2>1, <2>3 DEF Receive
    <3>3. CASE /\ dec' = [dec EXCEPT ![s] = "ended"] /\ head' = head \ {s}
               /\ queue' = [queue EXCEPT ![s] = <<>>] /\ UNCHANGED opened
      BY <2>1, <3>3
    <3>4. CASE /\ opened' = [opened EXCEPT ![s] =
                     IF @ # "no" THEN @ ELSE IF s \in head THEN "header" ELSE "bare"]
               /\ queue' = [queue EXCEPT ![s] = Tail(@)] /\ UNCHANGED <<dec, head>>
      BY <1>7, <2>1, <3>1, <3>4 DEF Receive
    <3>. QED
      BY <1>7, <2>3, <3>3, <3>4 DEF Receive
  <2>. QED
    BY <1>7, <2>2, <2>3 DEF Receive
<1>8. ASSUME NEW s \in Slot, Poll(s) PROVE Headers'
  BY <1>8 DEF Poll
<1>9. ASSUME NEW s \in Slot, ReleasePort(s) PROVE Headers'
  BY <1>9 DEF ReleasePort
<1>10. ASSUME NEW s \in Slot, ClearSlot(s) PROVE Headers'
  BY <1>10 DEF ClearSlot
<1>11. CASE Join
  <2>1. \A s \in Slot : dec[s] # "ended" => (s \in sent <=> s \in sent')
    BY <1>11 DEF Join
  <2>2. UNCHANGED <<count, dispatch, queue, dec, head, opened>>
    BY <1>11 DEF Join
  <2>. QED
    BY <2>1, <2>2
<1>. QED
  BY <1>1, <1>2, <1>3, <1>4, <1>5, <1>6, <1>7, <1>8, <1>9, <1>10, <1>11, Steps DEF Decoder

\* A start that fails owns no preview; a stop removes the entries whose threads it has
\* joined, and no others (start_channel, stop_channel, stop_all).
LEMMA OwnedStep == IInv /\ [Next]_vars => Owned'
<1> SUFFICES ASSUME IInv, [Next]_vars PROVE Owned'
  OBVIOUS
<1> USE Bounds DEF IInv, TypeOK, Owned, EntriesMatch, Stopped, SlotsOf, Entry,
                   uiVars, cbVars, decVars
<1>1. CASE PushSlot
  BY <1>1 DEF PushSlot
<1>2. CASE Spawn
  BY <1>2 DEF Spawn, Numbered
<1>3. CASE RealPlay
  BY <1>3 DEF RealPlay, Outcome
<1>4. CASE Register
  BY <1>4 DEF Register, Stopped
<1>5. CASE Join
  <2>1. /\ pc = "stopping" /\ todo = {} /\ leaving' = FALSE /\ pc' = "idle"
        /\ entries' = entries \ Stopped
        /\ live' \subseteq live /\ live' \ lost' \subseteq live \ lost
        /\ UNCHANGED <<cur, todo, stop, dec>>
    BY <1>5 DEF Join, Logout
  <2>2. EntriesMatch'
    BY <1>5 DEF Join
  <2>3. \A s \in stop : dec[s] = "ended"
    BY <1>5 DEF Join
  <2>4. \A s \in live' \ lost' : \E e \in entries \ Stopped : e.slot = s
    BY <2>1
  <2>5. live' # {} => session'
    BY <1>5, <2>1 DEF Join, Logout
  <2>6. \A c \in Chan : rx'[c] \notin Slot => picture'[c] = NoSlot
    BY <1>5 DEF Join
  <2>. QED
    BY <2>1, <2>2, <2>3, <2>4, <2>5, <2>6
<1>6. ASSUME NEW c \in Chan, StartStream(c) PROVE Owned'
  <2>1. /\ pc = "idle" /\ rx[c] = NoSlot /\ cur' = c /\ rx' = [rx EXCEPT ![c] = Dead]
        /\ pc' \in {"push", "idle"} /\ (pc' = "push" => session')
        /\ session => session'
        /\ UNCHANGED <<todo, leaving, entries, picture, live, lost, stop, dec>>
    <3>1. PICK ok \in BOOLEAN : /\ session' = ok /\ (session => ok)
                               /\ pc' = IF ok THEN "push" ELSE "idle"
      BY <1>6 DEF StartStream, Outcome
    <3>2. /\ pc' \in {"push", "idle"} /\ (pc' = "push" => session')
          /\ session => session'
      <4>1. CASE ok = TRUE
        BY <3>1, <4>1
      <4>2. CASE ok = FALSE
        BY <3>1, <4>2
      <4>. QED
        BY <3>1, <4>1, <4>2
    <3>. QED
      BY <1>6, <3>2 DEF StartStream
  <2>2. EntriesMatch'
    BY <2>1
  <2>. QED
    BY <2>1, <2>2
<1>7. ASSUME NEW c \in Chan, StopStream(c) PROVE Owned'
  BY <1>7 DEF StopStream, SlotsOf
<1>8. CASE StopAllStreams
  BY <1>8 DEF StopAllStreams
<1>9. ASSUME NEW e \in todo, SetStop(e) PROVE Owned'
  BY <1>9 DEF SetStop
<1>10. ASSUME NEW e \in todo, StopRealPlay(e) PROVE Owned'
  BY <1>10 DEF StopRealPlay
<1>11. ASSUME NEW e \in todo, StopRealPlayReturns(e) PROVE Owned'
  BY <1>11 DEF StopRealPlayReturns
<1>12. ASSUME NEW c \in Chan, DrainFrames(c) PROVE Owned'
  BY <1>12 DEF DrainFrames
<1>13. ASSUME NEW s \in Slot, Call(s) PROVE Owned'
  BY <1>13 DEF Call
<1>14. ASSUME NEW s \in Slot, LockDispatch(s) PROVE Owned'
  BY <1>14 DEF LockDispatch
<1>15. ASSUME NEW s \in Slot, Send(s) PROVE Owned'
  BY <1>15 DEF Send, Message
<1>16. ASSUME NEW s \in Slot, GetPort(s) PROVE Owned'
  BY <1>16 DEF GetPort
<1>17. ASSUME NEW s \in Slot, CheckStop(s) PROVE Owned'
  BY <1>17 DEF CheckStop
<1>18. ASSUME NEW s \in Slot, Receive(s) PROVE Owned'
  <2>1. /\ dec' = dec \/ dec' = [dec EXCEPT ![s] = "ended"]
        /\ UNCHANGED <<uiVars, count, live, lost, stop>>
    BY <1>18 DEF Receive
  <2>. QED
    BY <2>1
<1>19. ASSUME NEW s \in Slot, Poll(s) PROVE Owned'
  BY <1>19 DEF Poll
<1>20. ASSUME NEW s \in Slot, ReleasePort(s) PROVE Owned'
  BY <1>20 DEF ReleasePort
<1>21. ASSUME NEW s \in Slot, ClearSlot(s) PROVE Owned'
  BY <1>21 DEF ClearSlot
<1>22. CASE UNCHANGED vars
  BY <1>22 DEF vars
<1>. QED
  BY <1>1, <1>2, <1>3, <1>4, <1>5, <1>6, <1>7, <1>8, <1>9, <1>10, <1>11, <1>12, <1>13, <1>14,
     <1>15, <1>16, <1>17, <1>18, <1>19, <1>20, <1>21, <1>22
     DEF Next, User, UI, Callback, Decoder

-----------------------------------------------------------------------------
(* The theorems                                                            *)

\* HCNetSDKMultiStream::new: nothing runs and nothing is shown.
LEMMA InitInv == Init => IInv
<1> SUFFICES ASSUME Init PROVE IInv
  OBVIOUS
<1> USE Bounds DEF Init
<1>1. \A s \in Slot : queue[s] = <<>>
  OBVIOUS
<1>2. <<>> \in Seq({"head", "data"}) /\ Len(<<>>) = 0
  OBVIOUS
<1>3. TypeOK
  <2>1. queue \in [Slot -> Seq({"head", "data"})] /\ \A s \in Slot : Len(queue[s]) <= QCap
    BY <1>1, <1>2
  <2>2. /\ pc \in {"idle"} /\ cur \in Chan /\ todo \subseteq Entry /\ entries \subseteq Entry
        /\ count \in 0 .. MaxStarts /\ lock \in {NoSlot} /\ lost \subseteq live
        /\ dispatch \cup live \cup sent \cup inCall \cup stop \cup head \subseteq Slot
    OBVIOUS
  <2>3. /\ rx \in [Chan -> {NoSlot}] /\ picture \in [Chan -> {NoSlot}]
        /\ dec \in [Slot -> {"none"}] /\ opened \in [Slot -> {"no"}]
        /\ port \in [Slot -> BOOLEAN] /\ frames \in [Slot -> 0 .. FCap]
    OBVIOUS
  <2>4. leaving \in BOOLEAN /\ session \in BOOLEAN
    OBVIOUS
  <2>. QED
    BY <2>1, <2>2, <2>3, <2>4 DEF TypeOK
<1>4. Numbered /\ PortsHeld /\ Headers
  BY <1>1 DEF Numbered, PortsHeld, Headers, OpenedWithHeader, Slot
<1>5. Owned
  BY DEF Owned, EntriesMatch, Slot
<1>. QED
  BY <1>3, <1>4, <1>5 DEF IInv

\* The inductive invariant holds in every behaviour of the three kinds of threads.
THEOREM IInvAlways == Spec => []IInv
<1>1. IInv /\ [Next]_vars => IInv'
  BY TypeStep, NumberedStep, PortsStep, HeadersStep, OwnedStep DEF IInv
<1>. QED
  BY <1>1, InitInv, PTL DEF Spec

\* The queues keep to their capacities, and every variable to its type.
THEOREM TypeCorrect == Spec => []TypeOK
<1>1. IInv => TypeOK
  BY DEF IInv
<1>. QED
  BY <1>1, IInvAlways, PTL

\* PlayM4_OpenStream always gets the codec header, whatever the queue loses and however
\* the callbacks run against start_channel (decoder_loop).
THEOREM OpenedWithHeaderAlways == Spec => []OpenedWithHeader
<1>1. IInv => OpenedWithHeader
  BY DEF IInv, Headers
<1>. QED
  BY <1>1, IInvAlways, PTL

\* A channel never has two entries, and its frame_rx is the one of its entry
\* (start_stream, stop_stream).
THEOREM EntriesMatchAlways == Spec => []EntriesMatch
<1>1. IInv => EntriesMatch
  BY DEF IInv, Owned
<1>. QED
  BY <1>1, IInvAlways, PTL

\* Between two handlers every preview that did not refuse to stop can be stopped, and no
\* thread, port or data is left of what was told to, whichever starts, logins and stops
\* failed before (stop_channel, stop_all).
THEOREM PreviewsOwnedAlways == Spec => []PreviewsOwned
<1>1. IInv => PreviewsOwned
  <2>. SUFFICES ASSUME IInv PROVE PreviewsOwned
    OBVIOUS
  <2>1. live # {} => session
    BY DEF IInv, Owned
  <2>2. pc = "idle" => \A s \in live \ lost : \E e \in entries : e.slot = s
    BY DEF IInv, Owned
  <2>3. pc = "idle" => \A s \in stop : dec[s] = "ended" /\ ~port[s] /\ queue[s] = <<>>
    BY DEF IInv, Owned, PortsHeld, Headers, TypeOK
  <2>. QED
    BY <2>1, <2>2, <2>3 DEF PreviewsOwned, Running
<1>. QED
  BY <1>1, IInvAlways, PTL

-----------------------------------------------------------------------------
(* The refinement of LiveView                                              *)

\* The steps of LiveView, channel by channel.
LEMMA ViewSteps ==
    /\ \A c \in Chan : View!Start(c) \/ View!Show(c) => View!Next
    /\ \A C \in SUBSET Chan : View!Stop(C) => View!Next
BY DEF View!Next

\* Every step starts, shows or stops streams of LiveView, or changes nothing it sees:
\* Register is Start, drain_frames Show and the end of a stop Stop.
LEMMA StepImplements == IInv /\ [Next]_vars => [View!Next]_(View!vars)
<1> SUFFICES ASSUME IInv, [Next]_vars PROVE [View!Next]_(View!vars)
  OBVIOUS
<1> USE Bounds DEF IInv, TypeOK, View!vars, uiVars
<1>1. ASSUME UNCHANGED <<rx, picture>> PROVE UNCHANGED View!vars
  BY <1>1
<1>2. ASSUME NEW c \in Chan, StartStream(c) PROVE UNCHANGED View!vars
  <2>1. \A d \in Chan : (IF rx'[d] = Dead THEN NoSlot ELSE rx'[d])
                           = (IF rx[d] = Dead THEN NoSlot ELSE rx[d])
    BY <1>2 DEF StartStream
  <2>. QED
    BY <1>2, <2>1 DEF StartStream
<1>3. CASE Register
  <2>1. rx[cur] = Dead /\ picture[cur] = NoSlot /\ count \in Slot
    BY <1>3 DEF Register, Numbered, Owned
  <2>2. \A d \in Chan : rx[d] # count
    <3>1. \A e \in entries : e.slot # count
      BY <1>3 DEF Register, Numbered
    <3>2. \A d \in Chan : rx[d] \in Slot => [ch |-> d, slot |-> rx[d]] \in entries
      BY DEF Owned, EntriesMatch
    <3>. SUFFICES ASSUME NEW d \in Chan, rx[d] = count PROVE FALSE
      OBVIOUS
    <3>3. [ch |-> d, slot |-> count] \in entries
      BY <2>1, <3>2
    <3>. QED
      BY <3>1, <3>3
  <2>3. [c \in Chan |-> IF rx'[c] = Dead THEN NoSlot ELSE rx'[c]]
          = [[c \in Chan |-> IF rx[c] = Dead THEN NoSlot ELSE rx[c]] EXCEPT ![cur] = count]
    BY <1>3, <2>1 DEF Register
  <2>4. PICK c \in Chan : c = cur
    OBVIOUS
  <2>5. View!Start(c)
    BY <1>3, <2>1, <2>2, <2>3, <2>4 DEF Register, View!Start
  <2>. QED
    BY <2>5, ViewSteps
<1>4. CASE Join
  <2>1. PICK C \in SUBSET Chan : C = IF leaving THEN Chan ELSE {cur}
    OBVIOUS
  <2>2. View!Stop(C)
    BY <1>4, <2>1 DEF Join, View!Stop
  <2>. QED
    BY <2>2, ViewSteps
<1>5. ASSUME NEW c \in Chan, DrainFrames(c) PROVE View!Next
  <2>1. View!Show(c)
    BY <1>5 DEF DrainFrames, View!Show
  <2>. QED
    BY <2>1, ViewSteps
<1>6. CASE PushSlot \/ Spawn \/ RealPlay \/ StopAllStreams \/ \E c \in Chan : StopStream(c)
  BY <1>1, <1>6 DEF PushSlot, Spawn, RealPlay, StopAllStreams, StopStream
<1>7. ASSUME NEW e \in todo, SetStop(e) \/ StopRealPlay(e) \/ StopRealPlayReturns(e)
      PROVE  UNCHANGED View!vars
  BY <1>1, <1>7 DEF SetStop, StopRealPlay, StopRealPlayReturns
<1>8. ASSUME NEW s \in Slot, Call(s) \/ Callback(s) PROVE UNCHANGED View!vars
  BY <1>1, <1>8 DEF Callback, Call, LockDispatch, Send
<1>9. ASSUME NEW s \in Slot, Decoder(s) PROVE UNCHANGED View!vars
  BY <1>1, <1>9 DEF Decoder, GetPort, CheckStop, Receive, Poll, ReleasePort, ClearSlot
<1>10. CASE UNCHANGED vars
  BY <1>1, <1>10 DEF vars
<1>. QED
  BY <1>2, <1>3, <1>4, <1>5, <1>6, <1>7, <1>8, <1>9, <1>10 DEF Next, User, UI, View!Next

\* The callback streams implement LiveView: what a channel shows was decoded by the
\* thread of its present start (drain_frames, stop_stream).
THEOREM ImplementsLiveView == Spec => LiveViewSpec
<1>1. Init => View!Init
  BY Bounds DEF Init, View!Init
<1>. QED
  BY <1>1, IInvAlways, StepImplements, PTL DEF Spec, LiveViewSpec, View!Spec

-----------------------------------------------------------------------------
(* What LiveView promises                                                  *)

\* In every behaviour of LiveView no picture outlives the stream that decoded it, and
\* no two channels have the same stream.
LEMMA FreshAlways == View!Spec => []View!Fresh
<1> DEFINE shown == [c \in Chan |-> IF rx[c] = Dead THEN NoSlot ELSE rx[c]]
           Functions == shown \in [Chan -> Slot \cup {0}] /\ picture \in [Chan -> Slot \cup {0}]
<1>1. View!Init => Functions /\ View!Fresh
  BY DEF View!Init, View!Fresh
<1>2. Functions /\ View!Fresh /\ [View!Next]_(View!vars) => Functions' /\ View!Fresh'
  <2> SUFFICES ASSUME Functions, View!Fresh, [View!Next]_(View!vars)
               PROVE  Functions' /\ View!Fresh'
    OBVIOUS
  <2>1. ASSUME NEW c \in Chan, NEW s \in Slot, \A d \in Chan : shown[d] # s,
               shown' = [shown EXCEPT ![c] = s], picture' = [picture EXCEPT ![c] = 0]
        PROVE  Functions' /\ View!Fresh'
    <3> DEFINE Kept == /\ \A d \in Chan : picture[d] \in {0, shown[d]}
                       /\ \A d, e \in Chan : shown[d] = shown[e] /\ shown[d] # 0 => d = e
    <3>1. View!Fresh <=> Kept
      BY DEF View!Fresh
    <3>2. View!Fresh' <=> Kept'
      BY DEF View!Fresh
    <3>3. Functions' /\ Kept'
      <4> HIDE DEF shown
      <4>. QED
        BY <2>1, <3>1
    <3>. QED
      BY <3>2, <3>3
  <2>2. ASSUME NEW c \in Chan, View!Start(c) PROVE Functions' /\ View!Fresh'
    <3>1. picture' = [picture EXCEPT ![c] = 0]
      BY <2>2 DEF View!Start
    <3>. QED
      BY <2>1, <2>2, <3>1 DEF View!Start
  <2>3. ASSUME NEW c \in Chan, View!Replace(c) PROVE Functions' /\ View!Fresh'
    BY <2>1, <2>3 DEF View!Replace
  <2>4. ASSUME NEW c \in Chan, View!Show(c) PROVE Functions' /\ View!Fresh'
    BY <2>4 DEF View!Show, View!Fresh
  <2>5. ASSUME NEW C \in SUBSET Chan, View!Stop(C) PROVE Functions' /\ View!Fresh'
    BY <2>5 DEF View!Stop, View!Fresh
  <2>6. CASE UNCHANGED View!vars
    BY <2>6 DEF View!vars, View!Fresh
  <2>. QED
    BY <2>2, <2>3, <2>4, <2>5, <2>6 DEF View!Next
<1>. QED
  BY <1>1, <1>2, PTL DEF View!Spec

\* No texture of the viewer ever outlives the preview it was decoded from
\* (stop_stream, drain_frames).
THEOREM PicturesFresh == Spec => []View!Fresh
BY ImplementsLiveView, FreshAlways, PTL DEF LiveViewSpec
=============================================================================
