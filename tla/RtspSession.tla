----------------------------- MODULE RtspSession -----------------------------
(***************************************************************************)
(* RtspSession (playctrl_stream.rs): the RTSP client written by hand for   *)
(* the PlayCtrl method.  One thread connects over TCP, asks DESCRIBE,      *)
(* SETUP and PLAY, each with the nonce it knows and once more after a 401, *)
(* and then reads interleaved frames from the same byte stream until       *)
(* something ends.                                                         *)
(*                                                                         *)
(* The byte stream is a sequence of tokens: the head of a response, its    *)
(* body, a frame.  The client reads a response as the bytes up to the next *)
(* empty line, plus Content-Length bytes if they come within 10 s: bytes   *)
(* left over by an earlier response become part of the next one.           *)
(***************************************************************************)
EXTENDS Naturals, Sequences, SequencesExt

CONSTANTS
    Announced,  \* the track the SDP of the camera names
    MaxNonce,   \* bound on the nonces of the camera
    MaxFrames,  \* bound on the frames of a connection
    Faults,     \* what may go wrong: "refused", "status", "drop", "challenge",
                \* "lateBody", "early" (frames before the answer to PLAY),
                \* "text" (one that cannot be cut where the client cuts it)
    NoNonce

ASSUME SessionAssumption ==
    /\ MaxNonce \in Nat /\ MaxFrames \in Nat \ {0} /\ NoNonce \notin Nat
    /\ Faults \subseteq {"refused", "status", "drop", "challenge", "lateBody", "early", "text"}

VARIABLES
    pc,         \* "connect", "send", "read", "body", "answer", "stream", "failed", "ended"
    method,     \* "DESCRIBE", "SETUP" or "PLAY": the request under way
    try,        \* its first or second sending
    cseq,
    digest,     \* the nonce of the cached challenge
    resp,       \* the last head read
    sdp,        \* its body was read
    track,      \* track_id
    stop,       \* the flag of the UI
    wire,       \* camera to client
    req,        \* client to camera: at most one request
    camera,     \* the camera's side: "init", "ready", "playing" or "closed"
    owed,       \* the body of its last response is not written yet
    frames,     \* frames written on this connection
    nonce, right

client == <<pc, method, try, cseq, digest, resp, sdp, track>>
device == <<camera, owed, frames, nonce, right>>
vars == <<client, stop, wire, req, device>>

Method == <<"DESCRIBE", "SETUP", "PLAY">>
Tracks == {"1", Announced}

Answering(c, s, b, n) == [kind |-> "head", cseq |-> c, status |-> s, body |-> b, nonce |-> n]
\* What is read when no status line comes.
NoAnswer == Answering(0, 0, FALSE, 0)
Body == [kind |-> "body"]
Frame(n) == [kind |-> "frame", n |-> n]
None == [cseq |-> 0]

\* The first head that is on the wire.
Heads == {i \in DOMAIN wire : wire[i].kind = "head"}
FirstHead(i) == i \in Heads /\ \A j \in Heads : i <= j

\* send_request (and its second sending): CSeq is counted for each.
Ask(m, n, d) ==
    /\ cseq' = cseq + 1 /\ method' = m /\ try' = n /\ digest' = d
    /\ req' = [cseq |-> cseq + 1, method |-> m, auth |-> d, track |-> track']
    /\ pc' = "read"

Fail == pc' = "failed" /\ UNCHANGED <<method, try, cseq, digest, track, req>>

-----------------------------------------------------------------------------
Init ==
    /\ pc = "connect" /\ method = "DESCRIBE" /\ try = 1 /\ cseq = 0
    /\ digest = NoNonce /\ resp = NoAnswer /\ sdp = FALSE /\ track = "1"
    /\ stop = FALSE /\ wire = <<>> /\ req = None
    /\ camera = "closed" /\ owed = FALSE /\ frames = 0
    /\ nonce = 0 /\ right \in BOOLEAN

\* stream_loop and run_stream up to TcpStream::connect_timeout: everything the
\* client knows of the camera is forgotten.
Connect ==
    /\ pc = "connect"
    /\ IF stop
       THEN pc' = "ended" /\ UNCHANGED <<method, try, cseq, digest, track, wire, req, camera, owed, frames>>
       ELSE \/ /\ pc' = "send" /\ method' = "DESCRIBE" /\ try' = 1 /\ cseq' = 0
               /\ digest' = NoNonce /\ track' = "1"
               /\ wire' = <<>> /\ req' = None
               /\ camera' = "init" /\ owed' = FALSE /\ frames' = 0
            \/ "refused" \in Faults /\ Fail /\ UNCHANGED <<wire, camera, owed, frames>>
    /\ UNCHANGED <<resp, sdp, stop, nonce, right>>

\* The first sending of a request.
Send ==
    /\ pc = "send"
    /\ track' = track /\ Ask(method, 1, digest)
    /\ UNCHANGED <<resp, sdp, stop, wire, device>>

\* Mutated form: a timeout of the read ends read_response, and the request is
\* sent again.
ReadHeadTimeout ==
    /\ pc = "read"
    /\ \/ /\ \E i \in DOMAIN wire : /\ FirstHead(i) /\ resp' = wire[i]
                                   /\ wire' = SubSeq(wire, i + 1, Len(wire))
          /\ pc' = IF resp'.body THEN "body" ELSE "answer"
       \/ Heads = {} /\ cseq < 6 /\ pc' = "send" /\ UNCHANGED <<resp, wire>>
    /\ sdp' = FALSE
    /\ UNCHANGED <<method, try, cseq, digest, track, stop, req, device>>

\* read_response up to the empty line, which a frame may contain.  A timeout of the
\* read is tried again for ever; the end of the stream ends the response as it is.
ReadHead ==
    /\ pc = "read"
    /\ \/ /\ \E i \in DOMAIN wire : /\ FirstHead(i) /\ resp' = wire[i]
                                   /\ wire' = SubSeq(wire, i + 1, Len(wire))
          /\ pc' = IF resp'.body THEN "body" ELSE "answer"
       \/ /\ Heads = {} /\ camera = "closed"
          /\ resp' = NoAnswer /\ wire' = <<>> /\ pc' = "answer"
       \/ /\ wire # <<>> /\ wire[1].kind = "frame"
          /\ resp' = NoAnswer /\ wire' = Tail(wire) /\ pc' = "answer"
    /\ sdp' = FALSE
    /\ UNCHANGED <<method, try, cseq, digest, track, stop, req, device>>

\* read_response, Content-Length bytes: all of them, or what came before the end
\* of the stream or 10 s of silence.
ReadBody ==
    /\ pc = "body"
    /\ \/ wire # <<>> /\ wire' = Tail(wire) /\ sdp' = TRUE
       \/ wire = <<>> /\ (camera = "closed" \/ "lateBody" \in Faults) /\ UNCHANGED <<wire, sdp>>
    /\ pc' = "answer"
    /\ UNCHANGED <<method, try, cseq, digest, resp, track, stop, req, device>>

\* Mutated form: the second sending uses the challenge that is cached already.
ChallengeCached ==
    /\ pc = "answer" /\ resp.status = 401 /\ try = 1
    /\ track' = track /\ Ask(method, 2, IF digest = NoNonce THEN resp.nonce ELSE digest)
    /\ UNCHANGED <<resp, sdp, stop, wire, device>>

\* send_request on 401: the challenge is cached and answered at once; without realm
\* or nonce it is an error, and the drop closes the connection.
Challenge ==
    /\ pc = "answer" /\ resp.status = 401 /\ try = 1
    /\ \/ track' = track /\ Ask(method, 2, resp.nonce) /\ UNCHANGED device
       \/ /\ "challenge" \in Faults /\ Fail
          /\ camera' = "closed" /\ owed' = FALSE /\ UNCHANGED <<frames, nonce, right>>
    /\ UNCHANGED <<resp, sdp, stop, wire>>

\* The track of the SDP, or "1" when the body is not there.
TakeTrack == track' = IF method = "DESCRIBE" /\ sdp THEN Announced ELSE track

\* Mutated form: the session counts as established after SETUP.
OkAfterSetup ==
    /\ pc = "answer" /\ resp.status = 200
    /\ TakeTrack
    /\ IF method = "DESCRIBE"
       THEN method' = "SETUP" /\ pc' = "send"
       ELSE pc' = "stream" /\ UNCHANGED method
    /\ UNCHANGED <<try, cseq, digest, resp, sdp, stop, wire, req, device>>

\* connect, "200 OK": the next of the three requests, or Ok(Self).
Ok ==
    /\ pc = "answer" /\ resp.status = 200
    /\ TakeTrack
    /\ IF method = "PLAY"
       THEN pc' = "stream" /\ UNCHANGED method
       ELSE /\ \E i \in {1, 2} : method = Method[i] /\ method' = Method[i + 1]
            /\ pc' = "send"
    /\ UNCHANGED <<try, cseq, digest, resp, sdp, stop, wire, req, device>>

\* connect, anything else: bail, and the connection is closed by the drop.
Bail ==
    /\ pc = "answer"
    /\ resp.status \in {0, 404} \/ (resp.status = 401 /\ try = 2)
    /\ Fail /\ camera' = "closed" /\ owed' = FALSE
    /\ UNCHANGED <<resp, sdp, stop, wire, frames, nonce, right>>

\* The log and the errors quote the first bytes of a response, or of its nonce: a
\* cut inside a character is a panic, which ends the thread.  Only the answer that
\* accepts PLAY is never quoted.
Panic ==
    /\ pc = "answer" /\ "text" \in Faults
    /\ ~(resp.status = 200 /\ method = "PLAY")
    /\ pc' = "ended" /\ camera' = "closed" /\ owed' = FALSE
    /\ UNCHANGED <<method, try, cseq, digest, resp, sdp, track, stop, wire, req,
                   frames, nonce, right>>

\* run_stream and read_rtp_frame: a frame; the end of the stream, 10 s of silence
\* or a byte that is not '$'; the stop flag.  All but the frame end the thread.
Stream ==
    /\ pc = "stream"
    /\ IF ~stop /\ wire # <<>> /\ wire[1].kind = "frame"
       THEN wire' = Tail(wire) /\ UNCHANGED <<pc, camera>>
       ELSE pc' = "ended" /\ camera' = "closed" /\ UNCHANGED wire
    /\ UNCHANGED <<method, try, cseq, digest, resp, sdp, track, stop, req, owed, frames, nonce, right>>

\* Mutated form: the wait does not look at the flag, nor does the loop.
ReconnectAlways ==
    /\ pc = "failed" /\ pc' = "send" /\ method' = "DESCRIBE" /\ try' = 1 /\ cseq' = 0
    /\ digest' = NoNonce /\ track' = "1" /\ wire' = <<>> /\ req' = None
    /\ camera' = "init" /\ owed' = FALSE /\ frames' = 0
    /\ UNCHANGED <<resp, sdp, stop, nonce, right>>

\* stream_loop: 2 s, in which the flag ends the thread.
Reconnect ==
    /\ pc = "failed"
    /\ pc' = IF stop THEN "ended" ELSE "connect"
    /\ UNCHANGED <<method, try, cseq, digest, resp, sdp, track, stop, wire, req, device>>

\* stop_stream of the UI.
SetStop == ~stop /\ stop' = TRUE /\ UNCHANGED <<client, wire, req, device>>

-----------------------------------------------------------------------------
(* The camera                                                              *)

Authorized == right /\ req.auth = nonce

\* What the camera answers, and the state it is then in.
Verdict ==
    IF ~Authorized THEN <<401, camera>>
    ELSE CASE req.method = "DESCRIBE" -> <<200, camera>>
           [] req.method = "SETUP" -> IF req.track = Announced THEN <<200, "ready">> ELSE <<404, camera>>
           [] req.method = "PLAY" -> IF camera # "init" THEN <<200, "playing">> ELSE <<404, camera>>

\* It reads a request when it has written what it owes.
Answer ==
    /\ camera # "closed" /\ req # None /\ ~owed
    /\ \E v \in {Verdict} \cup (IF "status" \in Faults THEN {<<404, camera>>} ELSE {}) :
       \E b \in IF v[1] = 200 THEN {req.method = "DESCRIBE"} ELSE BOOLEAN :
          /\ wire' = Append(wire, Answering(req.cseq, v[1], b, nonce))
          /\ camera' = v[2] /\ owed' = b
    /\ req' = None
    /\ UNCHANGED <<client, stop, frames, nonce, right>>

SendBody ==
    /\ camera # "closed" /\ owed
    /\ wire' = Append(wire, Body) /\ owed' = FALSE
    /\ UNCHANGED <<client, stop, req, camera, frames, nonce, right>>

SendFrame ==
    /\ camera = "playing" \/ (camera = "ready" /\ "early" \in Faults)
    /\ ~owed /\ frames < MaxFrames
    /\ frames' = frames + 1 /\ wire' = Append(wire, Frame(frames'))
    /\ UNCHANGED <<client, stop, req, camera, owed, nonce, right>>

RenewNonce ==
    /\ nonce < MaxNonce /\ nonce' = nonce + 1
    /\ UNCHANGED <<client, stop, wire, req, camera, owed, frames, right>>

Drop ==
    /\ "drop" \in Faults /\ camera # "closed"
    /\ camera' = "closed" /\ owed' = FALSE /\ req' = None
    /\ UNCHANGED <<client, stop, wire, frames, nonce, right>>

-----------------------------------------------------------------------------
Thread ==
    \/ Connect \/ Send \/ ReadHead \/ ReadBody \/ Challenge \/ Ok \/ Bail
    \/ Panic \/ Stream \/ Reconnect

Camera == Answer \/ SendBody \/ SendFrame \/ RenewNonce \/ Drop

Next == Thread \/ SetStop \/ Camera

Spec == Init /\ [][Next]_vars

\* The thread runs when it can.  Nothing is asked of the camera.
FairSpec == Spec /\ WF_vars(Thread)

-----------------------------------------------------------------------------
(* Properties                                                              *)

\* read_response never looks at CSeq: still, what the client takes for the answer
\* is the answer to the request it sent last, whatever came late.
AnswersMatch == pc \in {"body", "answer"} /\ resp # NoAnswer => resp.cseq = cseq

\* When the client starts to read frames the byte stream is at the first byte of
\* one, and the camera plays the track it announced (read_rtp_frame ends the
\* session at any other byte).
StreamAligned ==
    pc = "stream" =>
        /\ camera \in {"playing", "closed"} /\ req = None
        /\ \A i \in DOMAIN wire : wire[i] = Frame(frames - Len(wire) + i)

\* With the right password the camera only rejects the second sending of a request
\* when it renewed the nonce after its own challenge (send_request on 401).
StaleNonceHeals ==
    [][right /\ try = 2 /\ Len(wire') > Len(wire) /\ Last(wire').kind = "head"
       /\ Last(wire').status = 401 => resp.nonce < nonce]_vars

\* The thread ends after stop, in whatever state of the session it was set, unless
\* a camera that keeps the connection and is silent holds it in read_response, which
\* tries its timeouts again for ever.
StopEnds ==
    \/ stop ~> pc = "ended"
    \/ <>[](pc = "read" /\ Heads = {} /\ camera # "closed")
=============================================================================
