-------------------------- MODULE DigestAuthProofs --------------------------
(* Proofs about DigestAuth, for any paths, any number of nonces, devices that *)
(* check the uri or not, and any failures.                                    *)
EXTENDS DigestAuth, TLAPS

\* The second call carries a header of its own path, computed from a nonce that the
\* device has had (request_inner).
RetryIsOwn ==
    pc = "retry" => sent \in Header /\ sent.uri = path /\ sent.nonce <= nonce

Inv == TypeOK /\ RetryIsOwn

\* A header computed for the present nonce is one the device has had (compute_digest).
LEMMA FreshHeader ==
    ASSUME TypeOK
    PROVE  LET h == ComputeDigest(nonce, path) IN
           h \in Header /\ h.uri = path /\ h.nonce = nonce
BY DEF ComputeDigest, TypeOK, Header

\* At the start there is no header (HikvisionAPI::new).
LEMMA InvInit == Init => Inv
BY DigestAssumption DEF Init, Inv, TypeOK, RetryIsOwn

\* Every call and every renewal of the nonce keeps the invariant (request_inner).
LEMMA InvNext == Inv /\ [Next]_vars => Inv'
<1> SUFFICES ASSUME Inv, [Next]_vars PROVE Inv'
    OBVIOUS
<1> USE DigestAssumption DEF Inv
<1>1. ASSUME NEW p \in Path, RequestInner(p) PROVE Inv'
    <2>1. pc' = "first" /\ path' \in Path /\ sent' = auth_header
          /\ UNCHANGED <<auth_header, result, nonce, right>>
        BY <1>1 DEF RequestInner
    <2> QED BY <2>1 DEF TypeOK, RetryIsOwn, Header
<1>2. CASE FirstCall
    <2>1. UNCHANGED <<path, nonce, right>>
        BY <1>2 DEF FirstCall
    <2>2. CASE pc' = "idle" /\ result' \in {"ok", "error"} /\ UNCHANGED <<auth_header, sent>>
        BY <2>1, <2>2 DEF TypeOK, RetryIsOwn, Header
    <2>3. CASE /\ auth_header' = ComputeDigest(nonce, path) /\ sent' = auth_header'
               /\ pc' = "retry" /\ UNCHANGED result
        <3>1. sent' \in Header /\ sent'.uri = path /\ sent'.nonce = nonce /\ auth_header' = sent'
            BY <2>3, FreshHeader
        <3> QED BY <2>1, <2>3, <3>1 DEF TypeOK, RetryIsOwn, Header
    <2> QED BY <1>2, <2>2, <2>3 DEF FirstCall, Return, Fails
<1>3. CASE Retry
    <2>1. pc' = "idle" /\ result' \in {"ok", "401", "error"}
          /\ UNCHANGED <<path, auth_header, sent, nonce, right>>
        BY <1>3 DEF Retry, Return, Fails
    <2> QED BY <2>1 DEF TypeOK, RetryIsOwn, Header
<1>4. CASE ExpireNonce
    <2>1. nonce' = nonce + 1 /\ nonce < MaxNonce
          /\ UNCHANGED <<pc, path, auth_header, sent, result, right>>
        BY <1>4 DEF ExpireNonce
    <2>2. RetryIsOwn'
        BY <2>1 DEF TypeOK, RetryIsOwn, Header
    <2>3. TypeOK'
        BY <2>1 DEF TypeOK, Header
    <2> QED BY <2>2, <2>3
<1>5. CASE UNCHANGED vars
    BY <1>5 DEF vars, TypeOK, RetryIsOwn, Header
<1> QED BY <1>1, <1>2, <1>3, <1>4, <1>5 DEF Next, Request

\* Type correctness of the client (HikvisionAPI).
THEOREM TypeCorrect == Spec => []TypeOK
<1>1. Inv => TypeOK
    BY DEF Inv
<1> QED BY <1>1, InvInit, InvNext, PTL DEF Spec

\* A request with the right password is only rejected when the nonce was renewed
\* between its two calls: whatever is cached, for whatever path (request_inner).
THEOREM StaleHeaderHealsAlways == Spec => StaleHeaderHeals
<1> DEFINE Step == right /\ pc # "idle" /\ pc' = "idle" /\ result' = "401"
                     => pc = "retry" /\ sent.nonce < nonce
<1>1. Inv /\ [Next]_vars => [Step]_vars
    <2> SUFFICES ASSUME Inv, Next, right, pc # "idle", pc' = "idle", result' = "401"
                 PROVE  pc = "retry" /\ sent.nonce < nonce
        OBVIOUS
    <2>1. Retry
        BY DEF Next, Request, RequestInner, FirstCall, Return, Fails, ExpireNonce
    <2>2. pc = "retry" /\ ~Accepted(sent)
        BY <2>1 DEF Retry, Return, Fails
    <2>3. sent \in Header /\ sent.uri = path /\ sent.nonce <= nonce /\ nonce \in Nat
        BY <2>2, DigestAssumption DEF Inv, TypeOK, RetryIsOwn
    <2>4. sent.nonce # nonce
        BY <2>2, <2>3, NoAuthAssumption DEF Accepted
    <2>5. sent.nonce \in Nat
        BY <2>3, DigestAssumption DEF Header
    <2> QED BY <2>2, <2>3, <2>4, <2>5
<1> QED BY <1>1, InvInit, InvNext, PTL DEF Spec, StaleHeaderHeals
=============================================================================
