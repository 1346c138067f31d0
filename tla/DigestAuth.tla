----------------------------- MODULE DigestAuth -----------------------------
(***************************************************************************)
(* HikvisionAPI::request_inner (api.rs): HTTP Digest with the last         *)
(* Authorization header cached, against a device that replaces its nonce   *)
(* when it likes.  The login calls it for two paths, a snapshot thread for *)
(* one path over and over.                                                 *)
(*                                                                         *)
(* An Authorization header is what the device can tell from it: the nonce  *)
(* it answers and the uri it was computed for.                             *)
(***************************************************************************)
EXTENDS Naturals

CONSTANTS
    Path,       \* what is requested
    MaxNonce,   \* bound on the nonces of the device
    ChecksUri,  \* whether the device rejects a header of another uri (RFC 2617)
    Faults,     \* what may fail: "network", "status" (not 401), "challenge"
    NoAuth      \* no Authorization header

ASSUME DigestAssumption ==
    /\ MaxNonce \in Nat /\ ChecksUri \in BOOLEAN
    /\ Faults \subseteq {"network", "status", "challenge"}

VARIABLES
    pc,             \* "idle", "first" or "retry": the call that is under way
    path,           \* of the present request
    auth_header,    \* the cache
    sent,           \* the Authorization of the call under way
    result,         \* what the last request returned
    nonce,          \* the device's nonce
    right           \* the password is right

vars == <<pc, path, auth_header, sent, result, nonce, right>>

Header == [nonce : 0 .. MaxNonce, uri : Path]

\* The header is a text; no header is none.
ASSUME NoAuthAssumption == NoAuth \notin Header

\* compute_digest
ComputeDigest(n, uri) == [nonce |-> n, uri |-> uri]

Accepted(h) ==
    /\ right /\ h # NoAuth
    /\ h.nonce = nonce
    /\ ChecksUri => h.uri = path

-----------------------------------------------------------------------------
Init ==
    /\ pc = "idle" /\ path \in Path
    /\ auth_header = NoAuth /\ sent = NoAuth
    /\ result = "none" /\ nonce = 0 /\ right \in BOOLEAN

Return(r) == pc' = "idle" /\ result' = r

\* A call that gets no answer, and one answered with an error that is not 401.
Fails == Faults \cap {"network", "status"} # {} /\ Return("error")

RequestInner(p) ==
    /\ pc = "idle"
    /\ pc' = "first" /\ path' = p
    /\ sent' = auth_header
    /\ UNCHANGED <<auth_header, result, nonce, right>>

\* Mutated form: a header that was cached before is not computed again.
FirstCallKeepsHeader ==
    /\ pc = "first"
    /\ \/ Accepted(sent) /\ Return("ok") /\ UNCHANGED <<auth_header, sent>>
       \/ /\ ~Accepted(sent)
          /\ auth_header' = IF auth_header = NoAuth THEN ComputeDigest(nonce, path) ELSE auth_header
          /\ sent' = auth_header' /\ pc' = "retry" /\ UNCHANGED result
    /\ UNCHANGED <<path, nonce, right>>

\* The first call.  On 401 the header is computed from the challenge, cached and
\* sent at once; a challenge that lacks realm or nonce, or has another qop than
\* "auth", is an error.
FirstCall ==
    /\ pc = "first"
    /\ \/ Accepted(sent) /\ Return("ok") /\ UNCHANGED <<auth_header, sent>>
       \/ /\ ~Accepted(sent)
          /\ auth_header' = ComputeDigest(nonce, path)
          /\ sent' = auth_header' /\ pc' = "retry" /\ UNCHANGED result
       \/ ~Accepted(sent) /\ "challenge" \in Faults /\ Return("error") /\ UNCHANGED <<auth_header, sent>>
       \/ Fails /\ UNCHANGED <<auth_header, sent>>
    /\ UNCHANGED <<path, nonce, right>>

\* The second call: another 401 fails the request, and its header stays cached.
Retry ==
    /\ pc = "retry"
    /\ \/ Accepted(sent) /\ Return("ok")
       \/ ~Accepted(sent) /\ Return("401")
       \/ Fails
    /\ UNCHANGED <<path, auth_header, sent, nonce, right>>

\* The device: its nonce expires, and the headers that answered it with it.
ExpireNonce ==
    /\ nonce < MaxNonce
    /\ nonce' = nonce + 1
    /\ UNCHANGED <<pc, path, auth_header, sent, result, right>>

-----------------------------------------------------------------------------
Request == \E p \in Path : RequestInner(p)

Next == Request \/ FirstCall \/ Retry \/ ExpireNonce

Spec == Init /\ [][Next]_vars

\* The snapshot loop asks again and again; every call returns, after 15 s at the
\* latest (timeout_global).  The network does not fail for ever: of the calls the
\* device would accept, or challenge, one gets through now and then.
FairSpec ==
    /\ Spec /\ WF_vars(Request \/ FirstCall \/ Retry)
    /\ SF_vars((FirstCall \/ Retry) /\ Return("ok"))
    /\ SF_vars(FirstCall /\ pc' = "retry")

-----------------------------------------------------------------------------
(* Properties                                                              *)

\* Type invariant.
TypeOK ==
    /\ pc \in {"idle", "first", "retry"} /\ path \in Path
    /\ {auth_header, sent} \subseteq Header \cup {NoAuth}
    /\ result \in {"none", "ok", "401", "error"}
    /\ nonce \in 0 .. MaxNonce /\ right \in BOOLEAN

\* With the right password a request only fails with 401 when the nonce expired
\* between its two calls: a stale header in the cache costs a call, no more
\* (request_inner's retry).
StaleHeaderHeals ==
    [][right /\ pc # "idle" /\ pc' = "idle" /\ result' = "401"
         => pc = "retry" /\ sent.nonce < nonce]_vars

\* Snapshots come back after the nonce expired, in the thread that runs already
\* (the bound MaxNonce: the device does not replace it in every request for ever).
SnapshotsRecover == right => []<>(result = "ok")
=============================================================================
