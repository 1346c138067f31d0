-------------------------- MODULE RtspSessionProofs --------------------------
(* Proofs about RtspSession, for any track, nonces, frames and faults: the     *)
(* client never takes a late response for the answer to its last request, is   *)
(* at the first byte of a frame when it starts to read them, and is only       *)
(* rejected twice when the camera renewed its nonce.  read_response looks at   *)
(* none of this; what the proofs rest on is that one request is under way at a *)
(* time and that a camera writes what it owes before it answers the next.      *)
EXTENDS RtspSession, SequenceTheorems, TLAPS

Response == [kind : {"head"}, cseq : Nat, status : {200, 401, 404}, body : BOOLEAN, nonce : Nat]
Token == Response \cup {Body} \cup [kind : {"frame"}, n : Nat]
Request == [cseq : Nat, method : {"DESCRIBE", "SETUP", "PLAY"}, auth : Nat \cup {NoNonce},
            track : Tracks]

\* The types of the client (RtspSession, run_stream) and of the camera it talks to.
Types ==
    /\ pc \in {"connect", "send", "read", "body", "answer", "stream", "failed", "ended"}
    /\ method \in {"DESCRIBE", "SETUP", "PLAY"} /\ try \in {1, 2} /\ cseq \in Nat
    /\ digest \in Nat \cup {NoNonce} /\ track \in Tracks
    /\ resp \in Response \cup {NoAnswer} /\ req \in Request \cup {None}
    /\ wire \in Seq(Token)
    /\ camera \in {"init", "ready", "playing", "closed"}
    /\ frames \in Nat /\ nonce \in Nat

\* After the token k nothing is on the way but the last frames of a camera that
\* plays: this is where the answer to PLAY leaves the byte stream.
FramesAfter(k) ==
    /\ ~owed /\ camera \in {"playing", "closed"}
    /\ \A j \in DOMAIN wire : j > k => wire[j] = Frame(frames + j - Len(wire))

\* A head answers the last request; if it accepts PLAY, frames follow it.
Answers(t, k) ==
    /\ t.cseq = cseq
    /\ t.status = 200 /\ method = "PLAY" => ~t.body /\ FramesAfter(k)

\* At most one request is under way, and at most one answer to it.
Quiet == req = None /\ Heads = {}
Asked == req # None /\ req.cseq = cseq /\ req.method = method /\ Heads = {}
Answered == req = None /\ \E i \in Heads : Heads = {i} /\ Answers(wire[i], i)

OneAtATime ==
    /\ pc = "send" => Quiet
    /\ pc = "read" => Asked \/ Answered \/ (Quiet /\ camera = "closed")
    /\ pc = "body" => Quiet /\ resp.body /\ resp.cseq = cseq
                      /\ ~(resp.status = 200 /\ method = "PLAY")
    /\ pc = "answer" /\ resp # NoAnswer => Quiet /\ Answers(resp, 0)
    /\ pc = "stream" => Quiet /\ FramesAfter(0)

\* Nonces only grow, and the second sending answers the challenge of the first.
NoncesGrow ==
    /\ resp.nonce <= nonce
    /\ \A i \in Heads : wire[i].nonce <= nonce
    /\ try = 2 /\ req # None => req.auth \in Nat /\ resp.nonce <= req.auth /\ req.auth <= nonce

IInv == Types /\ OneAtATime /\ NoncesGrow

-----------------------------------------------------------------------------
(* The byte stream                                                         *)

\* Only a head is read as a response, and no request is None: CSeq starts at 1.
LEMMA Tokens ==
    /\ \A t \in Token : t.kind = "head" <=> t \in Response
    /\ NoAnswer \notin Response /\ NoAnswer.status = 0 /\ NoAnswer.nonce = 0
    /\ Body \in Token /\ Body.kind # "head"
    /\ \A n \in Nat : Frame(n) \in Token /\ Frame(n).kind # "head"
BY DEF Token, Response, Body, Frame, NoAnswer, Answering

\* A write of the camera leaves what is on the way as it is.
LEMMA Written ==
    ASSUME Types, NEW t \in Token, wire' = Append(wire, t)
    PROVE  /\ wire' \in Seq(Token) /\ Len(wire') = Len(wire) + 1
           /\ DOMAIN wire' = DOMAIN wire \cup {Len(wire) + 1}
           /\ \A i \in DOMAIN wire : wire'[i] = wire[i]
           /\ wire'[Len(wire) + 1] = t
           /\ Heads' = Heads \cup (IF t.kind = "head" THEN {Len(wire) + 1} ELSE {})
<1>1. wire \in Seq(Token)
  BY DEF Types
<1>2. /\ wire' \in Seq(Token) /\ Len(wire') = Len(wire) + 1
      /\ DOMAIN wire' = DOMAIN wire \cup {Len(wire) + 1}
      /\ \A i \in DOMAIN wire : wire'[i] = wire[i]
      /\ wire'[Len(wire) + 1] = t
  BY <1>1
<1>. QED
  BY <1>1, <1>2 DEF Heads

\* What a read of the client takes from the byte stream moves up the rest.
LEMMA Taken ==
    ASSUME Types, NEW k \in DOMAIN wire, wire' = SubSeq(wire, k + 1, Len(wire))
    PROVE  /\ wire' \in Seq(Token) /\ Len(wire') = Len(wire) - k
           /\ \A j \in DOMAIN wire' : k + j \in DOMAIN wire /\ wire'[j] = wire[k + j]
           /\ Heads' = {j \in DOMAIN wire' : k + j \in Heads}
<1>1. wire \in Seq(Token) /\ k \in 1 .. Len(wire) /\ Len(wire) \in Nat
  BY DEF Types
<1>2. /\ wire' \in Seq(Token) /\ Len(wire') = Len(wire) - k
      /\ \A j \in 1 .. Len(wire') : wire'[j] = wire[k + j]
  <2>1. \A i \in k + 1 .. Len(wire) : wire[i] \in Token
    BY <1>1
  <2>2. /\ SubSeq(wire, k + 1, Len(wire)) \in Seq(Token)
        /\ Len(SubSeq(wire, k + 1, Len(wire))) =
             IF k + 1 <= Len(wire) THEN Len(wire) - (k + 1) + 1 ELSE 0
        /\ \A i \in 1 .. Len(wire) - (k + 1) + 1 : SubSeq(wire, k + 1, Len(wire))[i] = wire[k + 1 + i - 1]
    BY <1>1, <2>1, SubSeqProperties, k + 1 \in Int, Len(wire) \in Int
  <2>. QED
    BY <1>1, <2>2
<1>3. DOMAIN wire' = 1 .. Len(wire') /\ DOMAIN wire = 1 .. Len(wire)
  BY <1>1, <1>2
<1>4. \A j \in DOMAIN wire' : k + j \in DOMAIN wire /\ wire'[j] = wire[k + j]
  BY <1>1, <1>2, <1>3
<1>5. Heads' = {j \in DOMAIN wire' : k + j \in Heads}
  BY <1>4 DEF Heads
<1>. QED
  BY <1>2, <1>4, <1>5

\* A frame or a body that is read leaves the byte stream by Tail.
LEMMA TailTaken ==
    ASSUME Types, wire # <<>>, wire' = Tail(wire)
    PROVE  1 \in DOMAIN wire /\ wire' = SubSeq(wire, 1 + 1, Len(wire))
BY DEF Types

-----------------------------------------------------------------------------
(* The inductive invariant                                                 *)

LEMMA InitInv == Init => IInv
BY Tokens, SessionAssumption, EmptySeq
   DEF Init, IInv, Types, OneAtATime, NoncesGrow, Quiet, Heads, None, Tracks, Token

LEMMA TypesStep == ASSUME Types, [Next]_vars PROVE Types'
<1> USE DEF Types
<1>1. CASE Connect
  <2>1. <<>> \in Seq(Token)
    BY EmptySeq
  <2>2. CASE stop
    BY <1>1, <2>2 DEF Connect
  <2>3. CASE ~stop /\ Fail
    BY <1>1, <2>1, <2>3 DEF Connect, Fail
  <2>4. CASE ~stop /\ ~Fail
    <3>1. /\ pc' = "send" /\ method' = "DESCRIBE" /\ try' = 1 /\ cseq' = 0 /\ digest' = NoNonce
          /\ track' = "1" /\ wire' = <<>> /\ req' = None /\ camera' = "init" /\ frames' = 0
          /\ UNCHANGED <<resp, nonce>>
      BY <1>1, <2>4 DEF Connect
    <3>. QED
      BY <2>1, <3>1 DEF Tracks
  <2>. QED
    BY <2>2, <2>3, <2>4
<1>2. ASSUME NEW m \in {"DESCRIBE", "SETUP", "PLAY"}, NEW n \in {1, 2}, NEW d \in Nat \cup {NoNonce},
             track' = track, Ask(m, n, d)
      PROVE  /\ pc' = "read" /\ method' = m /\ try' = n /\ cseq' \in Nat
             /\ digest' = d /\ req' \in Request
  BY <1>2 DEF Ask, Request
<1>3. CASE Send
  BY <1>2, <1>3 DEF Send, device
<1>4. CASE ReadHead
  <2>1. ASSUME NEW i \in DOMAIN wire, FirstHead(i), resp' = wire[i],
               wire' = SubSeq(wire, i + 1, Len(wire))
        PROVE  resp' \in Response /\ wire' \in Seq(Token)
    BY <2>1, Tokens, Taken DEF FirstHead, Heads
  <2>2. ASSUME wire # <<>>, wire' = Tail(wire) PROVE wire' \in Seq(Token)
    BY <2>2, Taken, TailTaken
  <2>3. resp' \in Response \cup {NoAnswer} /\ wire' \in Seq(Token)
    BY <1>4, <2>1, <2>2, EmptySeq DEF ReadHead
  <2>. QED
    BY <1>4, <2>3 DEF ReadHead, device
<1>5. CASE ReadBody
  <2>1. wire' \in Seq(Token)
    BY <1>5, Taken, TailTaken DEF ReadBody
  <2>. QED
    BY <1>5, <2>1 DEF ReadBody, device
<1>6. CASE Challenge
  <2>1. resp.nonce \in Nat
    BY DEF Response, NoAnswer, Answering
  <2>. QED
    BY <1>2, <1>6, <2>1 DEF Challenge, Fail, device
<1>7. CASE Ok
  BY <1>7 DEF Ok, TakeTrack, Method, Tracks, device
<1>8. CASE Bail \/ Panic
  BY <1>8 DEF Bail, Fail, Panic
<1>9. CASE Stream
  <2>1. wire' \in Seq(Token)
    BY <1>9, Taken, TailTaken DEF Stream
  <2>. QED
    BY <1>9, <2>1 DEF Stream
<1>10. CASE Reconnect \/ SetStop
  BY <1>10 DEF Reconnect, SetStop, client, device
<1>11. CASE Answer
  <2>1. PICK v \in {Verdict} \cup (IF "status" \in Faults THEN {<<404, camera>>} ELSE {}) :
          \E b \in IF v[1] = 200 THEN {req.method = "DESCRIBE"} ELSE BOOLEAN :
             /\ wire' = Append(wire, Answering(req.cseq, v[1], b, nonce))
             /\ camera' = v[2] /\ owed' = b
    BY <1>11 DEF Answer
  <2>2. v[1] \in {200, 401, 404} /\ v[2] \in {"init", "ready", "playing", "closed"}
    BY <1>11 DEF Verdict, Answer, Request
  <2>3. owed' \in BOOLEAN /\ wire' = Append(wire, Answering(req.cseq, v[1], owed', nonce))
    BY <2>1
  <2>4. Answering(req.cseq, v[1], owed', nonce) \in Token
    BY <1>11, <2>2, <2>3 DEF Answer, Answering, Token, Response, Request
  <2>. QED
    BY <1>11, <2>1, <2>2, <2>3, <2>4, Written DEF Answer, client
<1>12. CASE SendBody
  BY <1>12, Tokens, Written DEF SendBody, client
<1>13. CASE SendFrame
  BY <1>13, Tokens, Written DEF SendFrame, client
<1>14. CASE RenewNonce \/ Drop
  BY <1>14 DEF RenewNonce, Drop, client
<1>15. CASE UNCHANGED vars
  BY <1>15 DEF vars, client, device
<1>. QED
  BY <1>1, <1>3, <1>4, <1>5, <1>6, <1>7, <1>8, <1>9, <1>10, <1>11, <1>12, <1>13, <1>14, <1>15
     DEF Next, Thread, Camera

\* While a camera answers nothing, it only writes frames, or closes.
LEMMA FramesFollow ==
    ASSUME Types, NEW k \in 0 .. Len(wire), FramesAfter(k), Types'
    PROVE  /\ /\ UNCHANGED <<wire, frames>> /\ (UNCHANGED <<camera, owed>> \/ (camera' = "closed" /\ owed' = FALSE))
              => FramesAfter(k)'
           /\ SendFrame => FramesAfter(k)'
<1>1. ASSUME UNCHANGED <<wire, frames>>, UNCHANGED <<camera, owed>> \/ (camera' = "closed" /\ owed' = FALSE)
      PROVE  FramesAfter(k)'
  BY <1>1 DEF FramesAfter
<1>2. ASSUME SendFrame PROVE FramesAfter(k)'
  <2>1. /\ frames' = frames + 1 /\ wire' = Append(wire, Frame(frames + 1))
        /\ UNCHANGED <<camera, owed>>
    BY <1>2 DEF SendFrame
  <2>2. Frame(frames + 1) \in Token /\ Len(wire) \in Nat
    BY Tokens DEF Types
  <2>3. ASSUME NEW j \in DOMAIN wire', j > k
        PROVE  wire'[j] = Frame(frames' + j - Len(wire'))
    <3>1. CASE j \in DOMAIN wire
      <4>1. wire'[j] = Frame(frames + j - Len(wire))
        BY <2>1, <2>2, <2>3, <3>1, Written DEF FramesAfter
      <4>. QED
        BY <2>1, <2>2, <3>1, <4>1, Written DEF Types
    <3>2. CASE j = Len(wire) + 1
      BY <2>1, <2>2, <3>2, Written DEF Types
    <3>. QED
      BY <2>1, <2>2, <2>3, <3>1, <3>2, Written
  <2>. QED
    BY <2>1, <2>3 DEF FramesAfter
<1>. QED
  BY <1>1, <1>2

\* Nor does the client break the order of the frames when it reads.
LEMMA FramesMoveUp ==
    ASSUME Types, Types', NEW k \in DOMAIN wire, NEW i \in 0 .. k, FramesAfter(i),
           wire' = SubSeq(wire, k + 1, Len(wire)), UNCHANGED <<camera, owed, frames>>
    PROVE  FramesAfter(0)'
<1>1. Len(wire) \in Nat /\ DOMAIN wire = 1 .. Len(wire) /\ frames \in Nat
  BY DEF Types
<1>2. Len(wire') = Len(wire) - k /\ DOMAIN wire' = 1 .. Len(wire')
  BY Taken DEF Types
<1>3. ASSUME NEW j \in DOMAIN wire' PROVE wire'[j] = Frame(frames' + j - Len(wire'))
  <2>1. k + j \in DOMAIN wire /\ wire'[j] = wire[k + j] /\ k + j > i
    BY <1>1, <1>2, Taken
  <2>2. wire[k + j] = Frame(frames + (k + j) - Len(wire))
    BY <2>1 DEF FramesAfter
  <2>3. frames + (k + j) - Len(wire) = frames' + j - Len(wire')
    BY <1>1, <1>2
  <2>. QED
    BY <2>1, <2>2, <2>3
<1>. QED
  BY <1>3 DEF FramesAfter

LEMMA OneAtATimeStep == ASSUME IInv, [Next]_vars, Types' PROVE OneAtATime'
<1> USE DEF IInv, OneAtATime
<1>1. wire' = wire => Heads' = Heads
  BY DEF Heads
<1>2. CASE Connect
  <2>1. wire' = <<>> => Heads' = {}
    BY DEF Heads
  <2>. QED
    BY <1>2, <2>1 DEF Connect, Fail, Quiet
<1>3. ASSUME pc' = "read", Quiet, UNCHANGED wire,
             NEW m, NEW n, NEW d, Ask(m, n, d)
      PROVE  OneAtATime'
  <2>1. cseq + 1 # 0
    BY DEF Types
  <2>2. req' # None /\ req'.cseq = cseq' /\ req'.method = method'
    BY <1>3, <2>1 DEF Ask, None
  <2>. QED
    BY <1>1, <1>3, <2>2 DEF Asked, Quiet
<1>4. CASE Send
  BY <1>3, <1>4 DEF Send, Ask
<1>5. CASE ReadHead
  <2>1. ASSUME NEW i \in DOMAIN wire, FirstHead(i), resp' = wire[i],
               wire' = SubSeq(wire, i + 1, Len(wire)),
               pc' = IF resp'.body THEN "body" ELSE "answer"
        PROVE  OneAtATime'
    <3>1. req = None /\ Heads = {i} /\ Answers(wire[i], i)
      BY <1>5, <2>1 DEF ReadHead, FirstHead, Asked, Answered, Quiet
    <3>2. Quiet'
      <4>1. \A j \in DOMAIN wire' : i + j \notin Heads
        BY <2>1, <3>1, Taken DEF Types
      <4>. QED
        BY <1>5, <2>1, <3>1, <4>1, Taken DEF Quiet, ReadHead
    <3>3. Answers(resp, 0)'
      <4>1. ASSUME wire[i].status = 200, method = "PLAY" PROVE ~wire[i].body /\ FramesAfter(0)'
        <5>1. ~wire[i].body /\ FramesAfter(i)
          BY <3>1, <4>1 DEF Answers
        <5>2. UNCHANGED <<camera, owed, frames>> /\ i \in 0 .. i
          BY <1>5 DEF ReadHead, device, Types
        <5>. QED
          BY <2>1, <5>1, <5>2, FramesMoveUp
      <4>. QED
        BY <1>5, <2>1, <3>1, <4>1 DEF Answers, ReadHead
    <3>. QED
      BY <2>1, <3>2, <3>3 DEF Answers
  <2>2. ASSUME pc' = "answer", resp' = NoAnswer PROVE OneAtATime'
    BY <2>2
  <2>. QED
    BY <1>5, <2>1, <2>2 DEF ReadHead
<1>6. ASSUME wire # <<>>, wire' = Tail(wire), Quiet, UNCHANGED req PROVE Quiet'
  <2>1. \A j \in DOMAIN wire' : 1 + j \notin Heads
    BY <1>6 DEF Quiet
  <2>. QED
    BY <1>6, <2>1, Taken, TailTaken DEF Quiet
<1>7. CASE ReadBody
  <2>1. Quiet'
    BY <1>1, <1>6, <1>7 DEF ReadBody, Quiet
  <2>. QED
    BY <1>7, <2>1 DEF ReadBody, Answers
<1>8. CASE Challenge
  <2>1. resp # NoAnswer
    BY <1>8, Tokens DEF Challenge
  <2>2. CASE track' = track /\ Ask(method, 2, resp.nonce)
    BY <1>3, <1>8, <2>1, <2>2 DEF Challenge, Ask
  <2>3. CASE Fail
    BY <2>3 DEF Fail
  <2>. QED
    BY <1>8, <2>2, <2>3 DEF Challenge
<1>9. CASE Ok
  <2>1. resp # NoAnswer
    BY <1>9, Tokens DEF Ok
  <2>2. Quiet' /\ (method = "PLAY" => FramesAfter(0)')
    BY <1>1, <1>9, <2>1 DEF Ok, Quiet, Answers, FramesAfter, device
  <2>. QED
    BY <1>9, <2>2 DEF Ok
<1>10. CASE Bail \/ Panic \/ Reconnect
  BY <1>10 DEF Bail, Fail, Panic, Reconnect
<1>11. CASE Stream
  <2>1. CASE wire # <<>> /\ wire' = Tail(wire) /\ UNCHANGED <<pc, camera>>
    <3>1. FramesAfter(0)'
      <4>1. FramesAfter(0) /\ UNCHANGED <<camera, owed, frames>>
        BY <1>11, <2>1 DEF Stream
      <4>2. 1 \in DOMAIN wire /\ wire' = SubSeq(wire, 1 + 1, Len(wire)) /\ 0 \in 0 .. 1
        BY <2>1, TailTaken
      <4>. QED
        BY <4>1, <4>2, FramesMoveUp
    <3>. QED
      BY <1>6, <1>11, <2>1, <3>1 DEF Stream
  <2>2. CASE pc' = "ended"
    BY <2>2
  <2>. QED
    BY <1>11, <2>1, <2>2 DEF Stream
<1>12. CASE SetStop \/ RenewNonce
  <2>1. UNCHANGED <<pc, method, cseq, resp, wire, req, camera, owed, frames>>
    BY <1>12 DEF SetStop, RenewNonce, client, device
  <2>. QED
    BY <1>1, <2>1 DEF Quiet, Asked, Answered, Answers, FramesAfter
<1>13. CASE Answer
  <2>1. PICK v \in {Verdict} \cup (IF "status" \in Faults THEN {<<404, camera>>} ELSE {}) :
          \E b \in IF v[1] = 200 THEN {req.method = "DESCRIBE"} ELSE BOOLEAN :
             /\ wire' = Append(wire, Answering(req.cseq, v[1], b, nonce))
             /\ camera' = v[2] /\ owed' = b
    BY <1>13 DEF Answer
  <2>2. PICK b \in IF v[1] = 200 THEN {req.method = "DESCRIBE"} ELSE BOOLEAN :
             /\ wire' = Append(wire, Answering(req.cseq, v[1], b, nonce))
             /\ camera' = v[2] /\ owed' = b
    BY <2>1
  <2> DEFINE t == Answering(req.cseq, v[1], b, nonce)
  <2>k. PICK k \in Nat : k = Len(wire) + 1
    BY DEF Types
  <2>3. req # None /\ req' = None /\ UNCHANGED <<pc, method, cseq, resp, frames>>
    BY <1>13 DEF Answer, client
  <2>4. CASE pc = "read"
    <3>1. Asked
      BY <2>3, <2>4 DEF Answered, Quiet
    <3>2. t \in Token /\ t.kind = "head" /\ t.cseq = req.cseq /\ t.status = v[1] /\ t.body = b
      BY <1>13, <2>1, <2>2 DEF Verdict, Answer, Answering, Token, Response, Request, Types
    <3>3. Heads' = {k} /\ wire'[k] = t /\ DOMAIN wire' = DOMAIN wire \cup {k}
      BY <2>2, <2>k, <3>1, <3>2, Written DEF Asked
    <3>4. ASSUME t.status = 200, method = "PLAY" PROVE ~t.body /\ FramesAfter(k)'
      <4>1. v[1] = 200 /\ req.method = "PLAY"
        BY <3>1, <3>2, <3>4 DEF Asked
      <4>2. v = Verdict
        BY <2>1, <4>1
      <4>3. v[2] = "playing"
        BY <4>1, <4>2 DEF Verdict
      <4>4. b = (req.method = "DESCRIBE")
        BY <2>2, <4>1, Zenon
      <4>5. ~b
        BY <4>1, <4>4
      <4>6. \A j \in DOMAIN wire' : ~(j > k)
        BY <2>k, <3>3 DEF Types
      <4>7. ~owed' /\ camera' = "playing"
        BY <2>2, <4>3, <4>5
      <4>. QED
        BY <3>2, <4>5, <4>6, <4>7 DEF FramesAfter
    <3>5. Answers(wire[k], k)'
      BY <2>3, <3>1, <3>2, <3>3, <3>4 DEF Asked, Answers
    <3>6. Answered'
      BY <2>3, <3>3, <3>5 DEF Answered
    <3>. QED
      BY <2>3, <2>4, <3>6
  <2>. QED
    BY <2>3, <2>4 DEF Quiet
<1>14. CASE SendBody
  <2>1. Heads' = Heads /\ (\A i \in DOMAIN wire : wire'[i] = wire[i])
    BY <1>14, Tokens, Written DEF SendBody
  <2>2. UNCHANGED <<pc, method, cseq, resp, req, camera>> /\ owed
    BY <1>14 DEF SendBody, client
  <2>. QED
    BY <2>1, <2>2 DEF Quiet, Asked, Answered, Answers, FramesAfter, Heads
<1>15. CASE SendFrame
  <2>1. Frame(frames + 1) \in Token /\ Frame(frames + 1).kind # "head"
    BY Tokens DEF Types
  <2>2. Heads' = Heads /\ (\A i \in DOMAIN wire : wire'[i] = wire[i])
    BY <1>15, <2>1, Written DEF SendFrame
  <2>3. UNCHANGED <<pc, method, cseq, resp, req, camera>>
    BY <1>15 DEF SendFrame, client
  <2>4. \A k \in 0 .. Len(wire) : FramesAfter(k) => FramesAfter(k)'
    BY <1>15, FramesFollow
  <2>5. 0 \in 0 .. Len(wire) /\ Heads \subseteq 0 .. Len(wire)
    BY DEF Types, Heads
  <2>6. Answered => Answered'
    BY <2>2, <2>3, <2>4, <2>5 DEF Answered, Answers, Heads
  <2>. QED
    BY <2>2, <2>3, <2>4, <2>5, <2>6 DEF Quiet, Asked, Answers
<1>16. CASE Drop
  <2>1. UNCHANGED <<pc, method, cseq, resp, wire, frames>> /\ camera' = "closed" /\ ~owed' /\ req' = None
    BY <1>16 DEF Drop, client
  <2>. QED
    BY <1>1, <2>1 DEF Quiet, Asked, Answered, Answers, FramesAfter
<1>17. CASE UNCHANGED vars
  BY <1>1, <1>17 DEF vars, client, device, Quiet, Asked, Answered, Answers, FramesAfter
<1>. QED
  BY <1>2, <1>4, <1>5, <1>7, <1>8, <1>9, <1>10, <1>11, <1>12, <1>13, <1>14, <1>15, <1>16, <1>17
     DEF Next, Thread, Camera

LEMMA NoncesGrowStep == ASSUME IInv, [Next]_vars, Types' PROVE NoncesGrow'
<1> USE DEF IInv, NoncesGrow
<1>1. wire' = wire => Heads' = Heads
  BY DEF Heads
<1>2. resp.nonce \in Nat /\ (\A i \in Heads : i \in DOMAIN wire /\ wire[i].nonce \in Nat)
  BY Tokens DEF Types, Heads, Response
<1>3. CASE Connect
  <2>1. wire' \in {wire, <<>>} /\ req' \in {req, None} /\ (req' # None => req' = req /\ try' = try)
    BY <1>3 DEF Connect, Fail
  <2>2. wire' = <<>> => Heads' = {}
    BY DEF Heads
  <2>. QED
    BY <1>1, <1>3, <2>1, <2>2 DEF Connect
<1>4. CASE Send
  BY <1>1, <1>4 DEF Send, Ask, device
<1>5. ASSUME UNCHANGED <<try, req, nonce>>, resp' = NoAnswer,
             \A i \in Heads' : \E j \in Heads : wire'[i] = wire[j]
      PROVE  NoncesGrow'
  BY <1>2, <1>5, Tokens DEF Types
<1>6. CASE ReadHead
  <2>1. ASSUME NEW k \in DOMAIN wire, wire' = SubSeq(wire, k + 1, Len(wire))
        PROVE  \A i \in Heads' : \E j \in Heads : wire'[i] = wire[j]
    BY <2>1, Taken
  <2>2. ASSUME NEW i \in DOMAIN wire, FirstHead(i), resp' = wire[i],
               wire' = SubSeq(wire, i + 1, Len(wire))
        PROVE  NoncesGrow'
    <3>1. req = None
      BY <1>6, <2>2 DEF ReadHead, FirstHead, OneAtATime, Asked, Answered, Quiet
    <3>2. UNCHANGED <<req, nonce>>
      BY <1>6 DEF ReadHead, device
    <3>. QED
      BY <2>1, <2>2, <3>1, <3>2 DEF FirstHead
  <2>3. CASE wire' = <<>> /\ resp' = NoAnswer
    <3>1. Heads' = {}
      BY <2>3 DEF Heads
    <3>. QED
      BY <1>5, <1>6, <2>3, <3>1 DEF ReadHead, device
  <2>4. CASE wire # <<>> /\ wire' = Tail(wire) /\ resp' = NoAnswer
    BY <1>5, <1>6, <2>1, <2>4, TailTaken DEF ReadHead, device
  <2>. QED
    BY <1>6, <2>2, <2>3, <2>4 DEF ReadHead
<1>7. ASSUME UNCHANGED <<try, req, nonce, resp>>,
             \A i \in Heads' : \E j \in Heads : wire'[i] = wire[j]
      PROVE  NoncesGrow'
  BY <1>7
<1>8. wire # <<>> /\ wire' = Tail(wire) => \A i \in Heads' : \E j \in Heads : wire'[i] = wire[j]
  BY Taken, TailTaken
<1>9. CASE ReadBody
  BY <1>1, <1>7, <1>8, <1>9 DEF ReadBody, device
<1>10. CASE Challenge
  <2>1. CASE Ask(method, 2, resp.nonce)
    <3>1. req'.auth = resp.nonce
      BY <2>1 DEF Ask
    <3>2. UNCHANGED <<wire, resp, nonce>>
      BY <1>10 DEF Challenge, device
    <3>. QED
      BY <1>1, <1>2, <3>1, <3>2
  <2>2. CASE Fail
    BY <1>1, <1>7, <1>10, <2>2 DEF Challenge, Fail, device
  <2>. QED
    BY <1>10, <2>1, <2>2 DEF Challenge
<1>11. CASE Ok \/ Bail \/ Panic \/ Reconnect \/ SetStop \/ UNCHANGED vars
  BY <1>1, <1>7, <1>11 DEF Ok, Bail, Fail, Panic, Reconnect, SetStop, client, device, vars
<1>12. CASE Stream
  BY <1>1, <1>7, <1>8, <1>12 DEF Stream
<1>13. CASE Answer
  <2>1. PICK t \in Token : wire' = Append(wire, t) /\ t.nonce = nonce
    <3>1. PICK c, s, b : wire' = Append(wire, Answering(c, s, b, nonce))
      BY <1>13 DEF Answer
    <3>2. wire'[Len(wire) + 1] = Answering(c, s, b, nonce) /\ Len(wire) + 1 \in DOMAIN wire'
      BY <3>1 DEF Types
    <3>3. Answering(c, s, b, nonce) \in Token
      BY <3>2 DEF Types
    <3>. QED
      BY <3>1, <3>3 DEF Answering
  <2>2. UNCHANGED <<try, resp, nonce>> /\ req' = None
    BY <1>13 DEF Answer, client
  <2>3. \A i \in Heads' : wire'[i].nonce <= nonce
    BY <2>1, <2>2, Written DEF Types, Heads
  <2>. QED
    BY <2>2, <2>3
<1>14. CASE SendBody
  <2>1. Heads' = Heads /\ \A i \in DOMAIN wire : wire'[i] = wire[i]
    BY <1>14, Tokens, Written DEF SendBody
  <2>. QED
    BY <1>7, <1>14, <2>1 DEF SendBody, client, Heads
<1>15. CASE SendFrame
  <2>1. Frame(frames + 1) \in Token /\ Frame(frames + 1).kind # "head"
    BY Tokens DEF Types
  <2>2. Heads' = Heads /\ (\A i \in DOMAIN wire : wire'[i] = wire[i])
    BY <1>15, <2>1, Written DEF SendFrame
  <2>. QED
    BY <1>7, <1>15, <2>2 DEF SendFrame, client, Heads
<1>16. CASE RenewNonce
  <2>1. UNCHANGED <<try, req, resp, wire>> /\ nonce' = nonce + 1
    BY <1>16 DEF RenewNonce, client
  <2>. QED
    BY <1>1, <1>2, <2>1 DEF Types
<1>17. CASE Drop
  <2>1. UNCHANGED <<resp, wire, nonce>> /\ req' = None
    BY <1>17 DEF Drop, client
  <2>. QED
    BY <1>1, <2>1
<1>. QED
  BY <1>3, <1>4, <1>6, <1>9, <1>10, <1>11, <1>12, <1>13, <1>14, <1>15, <1>16, <1>17
     DEF Next, Thread, Camera

\* IInv holds in every state of the client and the camera.
THEOREM Invariant == Spec => []IInv
<1>1. IInv /\ [Next]_vars => IInv'
  BY TypesStep, OneAtATimeStep, NoncesGrowStep DEF IInv
<1>. QED
  BY <1>1, InitInv, PTL DEF Spec

-----------------------------------------------------------------------------
(* The properties                                                          *)

\* read_response never looks at CSeq: still, what the client takes for the answer
\* is the answer to the request it sent last, whatever came late.
THEOREM AnswersMatchAlways == Spec => []AnswersMatch
<1>1. IInv => AnswersMatch
  BY DEF IInv, OneAtATime, AnswersMatch, Answers
<1>. QED
  BY <1>1, Invariant, PTL

\* When the client starts to read frames the byte stream is at the first byte of
\* one, and the camera plays (read_rtp_frame, run_stream).
THEOREM StreamAlignedAlways == Spec => []StreamAligned
<1>1. IInv => StreamAligned
  <2> SUFFICES ASSUME IInv, pc = "stream"
               PROVE  /\ camera \in {"playing", "closed"} /\ req = None
                      /\ \A i \in DOMAIN wire : wire[i] = Frame(frames - Len(wire) + i)
    BY DEF StreamAligned
  <2>1. Quiet /\ FramesAfter(0) /\ Len(wire) \in Nat /\ frames \in Nat /\ DOMAIN wire \subseteq Nat \ {0}
    BY DEF IInv, OneAtATime, Types
  <2>2. ASSUME NEW i \in DOMAIN wire PROVE wire[i] = Frame(frames - Len(wire) + i)
    <3>1. frames - Len(wire) + i = frames + i - Len(wire) /\ i > 0
      BY <2>1
    <3>. QED
      BY <2>1, <3>1 DEF FramesAfter
  <2>. QED
    BY <2>1, <2>2 DEF Quiet, FramesAfter
<1>. QED
  BY <1>1, Invariant, PTL

\* With the right password the camera only rejects the second sending of a request
\* when it renewed the nonce after its own challenge (send_request on 401).
THEOREM StaleNonceHealsAlways == Spec => StaleNonceHeals
<1> DEFINE Rejected == right /\ try = 2 /\ Len(wire') > Len(wire)
                       /\ Last(wire').kind = "head" /\ Last(wire').status = 401
<1>1. ASSUME IInv, IInv', Next, Rejected PROVE resp.nonce < nonce
  <2>1. wire \in Seq(Token) /\ wire' \in Seq(Token)
    BY <1>1 DEF IInv, Types
  <2>2. ~(Thread \/ SetStop \/ RenewNonce \/ Drop)
    <3>1. ASSUME NEW k \in DOMAIN wire, wire' = SubSeq(wire, k + 1, Len(wire))
          PROVE  ~(Len(wire') > Len(wire))
      BY <1>1, <2>1, <3>1, Taken DEF IInv
    <3>2. wire # <<>> /\ wire' = Tail(wire) => ~(Len(wire') > Len(wire))
      BY <1>1, <3>1, TailTaken DEF IInv
    <3>3. wire' \in {wire, <<>>} => ~(Len(wire') > Len(wire))
      BY <2>1
    <3>4. Thread => wire' \in {wire, <<>>} \/ (wire # <<>> /\ wire' = Tail(wire))
                    \/ \E k \in DOMAIN wire : wire' = SubSeq(wire, k + 1, Len(wire))
      BY DEF Thread, Connect, Send, ReadHead, ReadBody, Challenge, Ok, Bail, Panic, Stream, Reconnect
    <3>5. SetStop \/ RenewNonce \/ Drop => wire' = wire
      BY DEF SetStop, RenewNonce, Drop
    <3>. QED
      BY <1>1, <3>1, <3>2, <3>3, <3>4, <3>5
  <2>3. CASE SendBody
    BY <1>1, <2>1, <2>3, Tokens, Written DEF SendBody, IInv, Last
  <2>4. CASE SendFrame
    <3>1. Frame(frames + 1) \in Token /\ Frame(frames + 1).kind # "head"
      BY <1>1, Tokens DEF IInv, Types
    <3>. QED
      BY <1>1, <2>1, <2>4, <3>1, Written DEF SendFrame, IInv, Last
  <2>5. CASE Answer
    <3>1. PICK v \in {Verdict} \cup (IF "status" \in Faults THEN {<<404, camera>>} ELSE {}) :
            \E b \in IF v[1] = 200 THEN {req.method = "DESCRIBE"} ELSE BOOLEAN :
               wire' = Append(wire, Answering(req.cseq, v[1], b, nonce))
      BY <2>5 DEF Answer
    <3>b. PICK b : wire' = Append(wire, Answering(req.cseq, v[1], b, nonce))
      BY <3>1
    <3>2. Last(wire') = Answering(req.cseq, v[1], b, nonce)
      <4>1. Len(wire') = Len(wire) + 1 /\ wire'[Len(wire) + 1] = Answering(req.cseq, v[1], b, nonce)
        BY <2>1, <3>b
      <4>. QED
        BY <4>1 DEF Last
    <3>3. v[1] = 401
      BY <1>1, <3>2 DEF Answering
    <3>4. v = Verdict
      BY <3>1, <3>3
    <3>5. ~Authorized
      <4>1. req.method \in {"DESCRIBE", "SETUP", "PLAY"}
        BY <1>1, <2>5 DEF Answer, IInv, Types, Request
      <4>. QED
        BY <3>3, <3>4, <4>1 DEF Verdict
    <3>6. req # None /\ try = 2 /\ req.auth # nonce
      BY <1>1, <2>5, <3>5 DEF Authorized, Answer
    <3>7. req.auth \in Nat /\ resp.nonce <= req.auth /\ req.auth <= nonce
      BY <1>1, <3>6 DEF IInv, NoncesGrow
    <3>8. resp.nonce \in Nat /\ nonce \in Nat
      BY <1>1, Tokens DEF IInv, Types, Response
    <3>. QED
      BY <3>6, <3>7, <3>8
  <2>. QED
    BY <1>1, <2>2, <2>3, <2>4, <2>5 DEF Next, Camera
<1>2. IInv /\ IInv' /\ [Next]_vars => [Rejected => resp.nonce < nonce]_vars
  BY <1>1
<1>. QED
  BY <1>2, Invariant, PTL DEF Spec, StaleNonceHeals
=============================================================================
