-------------------------- MODULE DeviceLoginProofs --------------------------
(* Proofs about DeviceLogin, for any devices, certificates, lists of channels  *)
(* and failures.                                                               *)
(*                                                                             *)
(* What the login sends over HTTPS goes to a device whose certificate the user *)
(* accepted.  The properties of the login are inductive together: a            *)
(* fingerprint is compared with the pinned one (HttpsPinned), which is         *)
(* accepted because every one in memory or on disk is (PinsAccepted), also     *)
(* after a restart.                                                            *)
(*                                                                             *)
(* The channels are those the device listed, one entry a camera.  The loops    *)
(* over the events of the document and over the channels (IsapiXml) are        *)
(* recursive functions; what they compute is shown by induction on the entries *)
(* of the list (NatInd), element by element (RunEntry) and round by round      *)
(* (Round).                                                                    *)
EXTENDS DeviceLogin, SequenceTheorems, FiniteSetTheorems, WellFoundedInduction, TLAPS

Inv == TypeOK /\ HttpsPinned /\ PinsAccepted /\ ConnectionRemembered

\* connect() with a fingerprint that the user accepted keeps the invariant
\* (connect and both its callers).
LEMMA ConnectKeeps ==
    ASSUME Inv, pc = "form",
           NEW fp \in Cert \cup {NoCert}, NEW dialog \in Cert \cup {NoCert},
           accepted' \in SUBSET Cert, accepted \subseteq accepted',
           fp \in accepted' \cup {NoCert},
           ConnectWith(fp, dialog)
    PROVE  Inv'
<1> USE LoginAssumption
<1>1. /\ form' \in Config /\ form'.cert_fingerprint = fp
      /\ form'.host = form.host /\ form'.https = form.https
    BY DEF Inv, TypeOK, ConnectWith, Config
<1>2. cert[form.host] \in Cert /\ disk' = disk /\ saved' = saved /\ cert' = cert
    BY DEF Inv, TypeOK, ConnectWith, Config, fileVars
<1>3. /\ pc' \in {"form", "requests"} /\ pending' \in Cert \cup {NoCert}
      /\ checked' \in Cert \cup {NoCert}
    BY <1>2 DEF Inv, TypeOK, ConnectWith, Config
<1>5. TypeOK'
    BY <1>1, <1>2, <1>3 DEF Inv, TypeOK
<1>6. PinsAccepted'
    BY <1>1, <1>2 DEF Inv, PinsAccepted
<1>7. pc' = "requests" /\ form.https => checked' = fp /\ checked' \in Cert
    BY <1>2 DEF ConnectWith
<1>8. HttpsPinned'
    BY <1>1, <1>3, <1>7 DEF HttpsPinned
<1>9. ConnectionRemembered'
    BY <1>3 DEF ConnectionRemembered
<1> QED BY <1>5, <1>6, <1>8, <1>9 DEF Inv

\* The invariant holds at the first start, without config.json.
LEMMA InvInit == Init => Inv
<1>1. Default \in Config /\ Default.cert_fingerprint = NoCert
    BY LoginAssumption DEF Default, Config
<1> QED BY <1>1, LoginAssumption
        DEF Init, Inv, TypeOK, HttpsPinned, PinsAccepted, ConnectionRemembered

\* Every step of the user, the network and the program keeps the invariant.
LEMMA InvNext == Inv /\ [Next]_vars => Inv'
<1> SUFFICES ASSUME Inv, [Next]_vars PROVE Inv'
    OBVIOUS
<1> USE LoginAssumption
<1>1. CASE Connect
    <2>1. form.cert_fingerprint \in Cert \cup {NoCert} /\ pending \in Cert \cup {NoCert}
        BY DEF Inv, TypeOK, Config
    <2> QED BY <1>1, <2>1, ConnectKeeps DEF Connect, Inv, TypeOK, PinsAccepted
<1>2. CASE Accept
    <2>1. pending \in Cert /\ accepted' = accepted \cup {pending}
        BY <1>2 DEF Accept, Inv, TypeOK
    <2> QED BY <1>2, <2>1, ConnectKeeps DEF Accept, Inv, TypeOK
<1>3. CASE Reject
    BY <1>3 DEF Reject, Inv, TypeOK, HttpsPinned, PinsAccepted, ConnectionRemembered, fileVars, historyVars
<1>4. CASE ChangeLanguage
    BY <1>4 DEF ChangeLanguage, Save, Inv, TypeOK, HttpsPinned, PinsAccepted, ConnectionRemembered, appVars, fileVars, historyVars
<1>5. CASE Disconnect
    BY <1>5 DEF Disconnect, Inv, TypeOK, HttpsPinned, PinsAccepted, ConnectionRemembered, fileVars, historyVars
<1>6. ASSUME NEW h \in Host, NEW s \in BOOLEAN, NEW p \in BOOLEAN, EditForm(h, s, p)
      PROVE  Inv'
    <2>1. form' \in Config /\ form'.cert_fingerprint = form.cert_fingerprint
        BY <1>6 DEF EditForm, Inv, TypeOK, Config
    <2> QED BY <1>6, <2>1 DEF EditForm, Inv, TypeOK, HttpsPinned, PinsAccepted, ConnectionRemembered, fileVars, historyVars
<1>7. CASE Requests
    <2>1. pc' \in {"form", "viewer"} /\ pc = "requests"
          /\ UNCHANGED <<form, pending, cert, checked, accepted>>
        BY <1>7 DEF Requests, historyVars
    <2>2. disk' \in {disk, form} /\ saved' \in BOOLEAN
        BY <1>7 DEF Requests, Save, fileVars, Inv, TypeOK
    <2>3. pc' = "viewer" /\ saved' => disk' = form
        BY <1>7 DEF Requests, Save
    <2>4. ConnectionRemembered'
        BY <2>1, <2>3 DEF ConnectionRemembered, Load, Inv, TypeOK
    <2> QED BY <2>1, <2>2, <2>4 DEF Inv, TypeOK, HttpsPinned, PinsAccepted
<1>8. CASE Restart
    <2>1. disk' \in {disk, NoFile} /\ pc' = "form" /\ pending' = NoCert /\ form' = Load'
          /\ UNCHANGED <<saved, cert, checked, accepted>>
        BY <1>8 DEF Restart, fileVars, historyVars
    <2>2. disk' \in Config \cup {NoFile} /\ (disk' # NoFile => disk'.cert_fingerprint \in accepted' \cup {NoCert})
        BY <2>1 DEF Inv, TypeOK, PinsAccepted
    <2>3. form' \in Config /\ form'.cert_fingerprint \in accepted' \cup {NoCert}
        BY <2>1, <2>2 DEF Load, Default, Config
    <2> QED BY <2>1, <2>2, <2>3 DEF Inv, TypeOK, HttpsPinned, PinsAccepted, ConnectionRemembered
<1>9. ASSUME NEW h \in Host, RenewCert(h) PROVE Inv'
    BY <1>9 DEF RenewCert, Inv, TypeOK, HttpsPinned, PinsAccepted, ConnectionRemembered, Load, appVars, fileVars, historyVars
<1>10. CASE UNCHANGED vars
    BY <1>10 DEF vars, appVars, fileVars, historyVars, Inv, TypeOK, HttpsPinned, PinsAccepted,
                 ConnectionRemembered, Load
<1> QED BY <1>1, <1>2, <1>3, <1>4, <1>5, <1>6, <1>7, <1>8, <1>9, <1>10 DEF Next, User

\* The invariant is one of the specification.
THEOREM InvAlways == Spec => []Inv
BY InvInit, InvNext, PTL DEF Spec

\* Whatever config.json held and whatever failed, the program has a whole
\* configuration (Config::load, Config::default).
THEOREM TypeCorrect == Spec => []TypeOK
<1>1. Inv => TypeOK
    BY DEF Inv
<1> QED BY <1>1, InvAlways, PTL

\* Nothing is requested over HTTPS under a certificate the user did not accept
\* (connect, check_tls_fingerprint).
THEOREM HttpsPinnedAlways == Spec => []HttpsPinned
<1>1. Inv => HttpsPinned
    BY DEF Inv
<1> QED BY <1>1, InvAlways, PTL

\* Only the dialog's Accept pins a fingerprint, in memory or in config.json.
THEOREM PinsAcceptedAlways == Spec => []PinsAccepted
<1>1. Inv => PinsAccepted
    BY DEF Inv
<1> QED BY <1>1, InvAlways, PTL

\* The host, the protocol and the pin of a connection that was saved are those the
\* next start loads (Config::save, Config::load).
THEOREM ConnectionRememberedAlways == Spec => []ConnectionRemembered
<1>1. Inv => ConnectionRemembered
    BY DEF Inv
<1> QED BY <1>1, InvAlways, PTL

-----------------------------------------------------------------------------
(* Loops                                                                     *)

\* The pairs of naturals of which the first is smaller.
Less == {ss \in Nat \X Nat : ss[1] < ss[2]}

\* That order is well-founded: what the inductions below rest on.
LEMMA LessWF == IsWellFoundedOn(Less, Nat)
BY NatLessThanWellFounded DEF OpToRel, Less

\* Induction, on a set in place of a formula: a set that has 0, and with every number
\* the next one, has them all.
LEMMA NatInd ==
    ASSUME NEW S, 0 \in S, \A n \in Nat : n \in S => n + 1 \in S
    PROVE  Nat \subseteq S
<1>. SUFFICES ASSUME Nat \ S # {} PROVE FALSE
  OBVIOUS
<1>1. PICK x \in Nat \ S : \A y \in Nat \ S : ~ (<<y, x>> \in Less)
  BY LessWF, WFMin
<1>2. x # 0 /\ x - 1 \in Nat /\ x - 1 < x
  OBVIOUS
<1>3. x - 1 \in S
  BY <1>1, <1>2 DEF Less
<1>. QED
  BY <1>1, <1>2, <1>3

\* The states g of a loop stay in S when the first is in it and every round keeps them
\* there (the loops of parse_channels and of connect over the channels).
LEMMA Stays ==
    ASSUME NEW S, NEW L \in Nat, NEW N \in Nat, NEW g, g[L] \in S,
           \A n \in (L .. N) \ {L} : g[n - 1] \in S => g[n] \in S
    PROVE  \A n \in L .. N : g[n] \in S
<1> DEFINE Good == {k \in Nat : L + k <= N => g[L + k] \in S}
<1>1. 0 \in Good
    OBVIOUS
<1>2. ASSUME NEW k \in Nat, k \in Good PROVE k + 1 \in Good
    <2>1. SUFFICES ASSUME L + (k + 1) <= N PROVE g[L + (k + 1)] \in S
        OBVIOUS
    <2>2. g[L + k] \in S
        BY <1>2, <2>1
    <2>3. PICK n \in (L .. N) \ {L} : n = L + (k + 1)
        BY <2>1
    <2>4. n - 1 = L + k
        BY <2>3
    <2> QED BY <2>2, <2>3, <2>4
<1>3. Nat \subseteq Good
    <2> HIDE DEF Good
    <2> QED BY <1>1, <1>2, NatInd
<1>4. ASSUME NEW n \in L .. N PROVE g[n] \in S
    <2>1. n - L \in Nat /\ L + (n - L) = n
        OBVIOUS
    <2> QED BY <1>3, <2>1
<1> QED BY <1>4

\* The states f of a loop: a before its first round, and after the round n what step
\* makes of the state before it.
Computed(f, S, L, N, a, step) ==
    /\ f \in [L .. N -> S]
    /\ f[L] = a
    /\ \A n \in (L .. N) \ {L} : f[n] = step[<<f[n - 1], n>>]

\* A loop whose rounds keep a set of states computes its states: the function that a
\* recursive definition chooses exists.
LEMMA Recursion ==
    ASSUME NEW S, NEW L \in Nat, NEW N \in Nat, L <= N, NEW a \in S,
           NEW step \in [S \X (L .. N) -> S]
    PROVE  \E f : Computed(f, S, L, N, a, step)
<1> DEFINE Upto(m) == \E f \in [L .. m -> S] :
                        f = [n \in L .. m |-> IF n = L THEN a ELSE step[<<f[n - 1], n>>]]
           Good == {k \in Nat : L + k <= N => Upto(L + k)}
<1>1. 0 \in Good
    <2>1. [n \in L .. L |-> a] \in [L .. L -> S]
        OBVIOUS
    <2>2. [n \in L .. L |-> a] = [n \in L .. L |-> IF n = L THEN a ELSE step[<<[i \in L .. L |-> a][n - 1], n>>]]
        OBVIOUS
    <2>3. Upto(L)
        BY <2>1, <2>2
    <2>4. L + 0 = L
        OBVIOUS
    <2> QED BY <2>3, <2>4
<1>2. ASSUME NEW k \in Nat, k \in Good PROVE k + 1 \in Good
    <2>1. SUFFICES ASSUME L + (k + 1) <= N PROVE Upto(L + (k + 1))
        OBVIOUS
    <2>2. PICK m \in Nat : m = L + k
        OBVIOUS
    <2>3. m + 1 = L + (k + 1) /\ m + 1 <= N /\ L <= m
        BY <2>1, <2>2
    <2>4. PICK f \in [L .. m -> S] :
              f = [n \in L .. m |-> IF n = L THEN a ELSE step[<<f[n - 1], n>>]]
        BY <1>2, <2>2, <2>3
    <2> DEFINE g == [n \in L .. m + 1 |-> IF n <= m THEN f[n] ELSE step[<<f[m], n>>]]
    <2>5. f[m] \in S
        BY <2>3
    <2>6. step[<<f[m], m + 1>>] \in S
        BY <2>3, <2>5
    <2>7. g \in [L .. m + 1 -> S]
        BY <2>6
    <2>8. ASSUME NEW n \in L .. m + 1
          PROVE  g[n] = IF n = L THEN a ELSE step[<<g[n - 1], n>>]
        <3>1. CASE n = L
            <4>1. g[n] = f[n] /\ n \in L .. m
                BY <3>1, <2>3
            <4> QED BY <3>1, <4>1, <2>4
        <3>2. CASE n # L /\ n <= m
            <4>1. n - 1 \in L .. m /\ n \in L .. m /\ n - 1 <= m /\ n - 1 \in L .. m + 1
                BY <3>2
            <4>2. g[n] = f[n] /\ g[n - 1] = f[n - 1]
                BY <4>1
            <4>3. f[n] = step[<<f[n - 1], n>>]
                BY <2>4, <4>1, <3>2
            <4> QED BY <4>2, <4>3, <3>2
        <3>3. CASE n = m + 1
            <4>1. g[n] = step[<<f[m], n>>] /\ g[n - 1] = f[m] /\ n # L
                BY <3>3, <2>3
            <4> QED BY <4>1
        <3> QED BY <3>1, <3>2, <3>3
    <2>9. g = [n \in L .. m + 1 |-> IF n = L THEN a ELSE step[<<g[n - 1], n>>]]
        <3>1. g = [n \in L .. m + 1 |-> g[n]]
            OBVIOUS
        <3> HIDE DEF g
        <3> QED BY <2>8, <3>1
    <2>10. Upto(m + 1)
        <3> HIDE DEF g
        <3> QED BY <2>7, <2>9
    <2> QED BY <2>10, <2>3
<1>3. Nat \subseteq Good
    <2> HIDE DEF Good
    <2> QED BY <1>1, <1>2, NatInd
<1>4. N - L \in Nat /\ L + (N - L) = N
    OBVIOUS
<1>5. Upto(N)
    <2> HIDE DEF Upto
    <2> QED BY <1>3, <1>4
<1>6. PICK f \in [L .. N -> S] :
          f = [n \in L .. N |-> IF n = L THEN a ELSE step[<<f[n - 1], n>>]]
    BY <1>5
<1>7. f[L] = a
    BY <1>6
<1>8. \A n \in (L .. N) \ {L} : f[n] = step[<<f[n - 1], n>>]
    BY <1>6
<1> QED BY <1>7, <1>8 DEF Computed

\* The rounds of two loops do the same.
InStep(f, g, N) == \A n \in 1 .. N : f[n - 1] = g[n - 1] => f[n] = g[n]

\* Two loops that start in one state and whose rounds do the same are in the same
\* state after every round.
LEMMA Agree ==
    ASSUME NEW N \in Nat, NEW f, NEW g, f[0] = g[0], InStep(f, g, N)
    PROVE  \A n \in 0 .. N : f[n] = g[n]
<1> DEFINE Same == {n \in Nat : n <= N => f[n] = g[n]}
<1>1. 0 \in Same
    OBVIOUS
<1>2. ASSUME NEW n \in Nat, n \in Same PROVE n + 1 \in Same
    <2> SUFFICES ASSUME n + 1 <= N PROVE f[n + 1] = g[n + 1]
        OBVIOUS
    <2>1. f[n] = g[n]
        BY <1>2
    <2>2. PICK m \in 1 .. N : m = n + 1
        OBVIOUS
    <2>3. m - 1 = n
        BY <2>2
    <2> QED BY <2>1, <2>2, <2>3 DEF InStep
<1>3. Nat \subseteq Same
    <2> HIDE DEF Same
    <2> QED BY <1>1, <1>2, NatInd
<1> QED BY <1>3

-----------------------------------------------------------------------------
(* One entry a camera                                                        *)

\* What the user sees of the entry i of a list.
Entry(list, i) == Named(list[i].id, list[i].name)

\* The first entries of their cameras, of the first n of a list.
Firsts(list, n) == {i \in FirstOfCamera(list) : i <= n}

\* The channels show those first entries, in their order and up to the limit: what
\* ChannelsAsListed says, with the place of each entry.
Shown(chs, list, n) ==
    LET cameras == Cardinality(Firsts(list, n))
    IN /\ Len(chs) = IF cameras < MaxChannels THEN cameras ELSE MaxChannels
       /\ \A k \in 1 .. Len(chs) :
            \E i \in Firsts(list, n) : Before(list, i) = k - 1 /\ chs[k] = Entry(list, i)
       /\ \A i \in Firsts(list, n) : Before(list, i) < MaxChannels =>
            /\ Before(list, i) + 1 \in 1 .. Len(chs)
            /\ chs[Before(list, i) + 1] = Entry(list, i)

\* One more entry makes at most one more camera, and stands after all that came
\* before.
LEMMA Counted ==
    ASSUME NEW U, NEW list \in Seq(U), NEW n \in 1 .. Len(list)
    PROVE  /\ IsFiniteSet(Firsts(list, n - 1)) /\ Cardinality(Firsts(list, n - 1)) \in Nat
           /\ n \in FirstOfCamera(list) =>
                /\ Firsts(list, n) = Firsts(list, n - 1) \cup {n}
                /\ Cardinality(Firsts(list, n)) = Cardinality(Firsts(list, n - 1)) + 1
                /\ Before(list, n) = Cardinality(Firsts(list, n - 1))
           /\ n \notin FirstOfCamera(list) => Firsts(list, n) = Firsts(list, n - 1)
           /\ \A i \in Firsts(list, n - 1) :
                Before(list, i) \in Nat /\ Before(list, i) < Cardinality(Firsts(list, n - 1))
<1>1. DOMAIN list = 1 .. Len(list) /\ Len(list) \in Nat /\ FirstOfCamera(list) \subseteq Nat
    BY LenProperties DEF FirstOfCamera
<1>2. IsFiniteSet(Firsts(list, n - 1))
    <2>1. Firsts(list, n - 1) \subseteq 1 .. Len(list)
        BY <1>1 DEF Firsts, FirstOfCamera
    <2>2. IsFiniteSet(1 .. Len(list))
        BY <1>1, FS_Interval
    <2> QED BY <2>1, <2>2, FS_Subset
<1>3. Cardinality(Firsts(list, n - 1)) \in Nat
    BY <1>2, FS_CardinalityType
<1>4. ASSUME n \in FirstOfCamera(list)
      PROVE  /\ Firsts(list, n) = Firsts(list, n - 1) \cup {n}
             /\ Cardinality(Firsts(list, n)) = Cardinality(Firsts(list, n - 1)) + 1
             /\ Before(list, n) = Cardinality(Firsts(list, n - 1))
    <2>1. Firsts(list, n) = Firsts(list, n - 1) \cup {n}
        BY <1>1, <1>4 DEF Firsts
    <2>2. n \notin Firsts(list, n - 1)
        BY DEF Firsts
    <2>3. {j \in FirstOfCamera(list) : j < n} = Firsts(list, n - 1)
        BY <1>1 DEF Firsts
    <2>4. Cardinality(Firsts(list, n - 1) \cup {n}) = Cardinality(Firsts(list, n - 1)) + 1
        BY <1>2, <2>2, FS_AddElement
    <2> QED BY <2>1, <2>3, <2>4 DEF Before
<1>5. n \notin FirstOfCamera(list) => Firsts(list, n) = Firsts(list, n - 1)
    BY <1>1 DEF Firsts
<1>6. ASSUME NEW i \in Firsts(list, n - 1)
      PROVE  Before(list, i) \in Nat /\ Before(list, i) < Cardinality(Firsts(list, n - 1))
    <2> DEFINE B == {j \in FirstOfCamera(list) : j < i}
    <2>1. i \in Nat /\ i <= n - 1 /\ B \subseteq Firsts(list, n - 1) \ {i}
        BY <1>1 DEF Firsts
    <2>2. IsFiniteSet(Firsts(list, n - 1) \ {i})
          /\ Cardinality(Firsts(list, n - 1) \ {i}) = Cardinality(Firsts(list, n - 1)) - 1
        BY <1>2, FS_RemoveElement
    <2>3. IsFiniteSet(B) /\ Cardinality(B) <= Cardinality(Firsts(list, n - 1) \ {i})
        BY <2>1, <2>2, FS_Subset
    <2>4. Cardinality(B) \in Nat
        BY <2>3, FS_CardinalityType
    <2>5. Before(list, i) = Cardinality(B)
        BY DEF Before
    <2> HIDE DEF B
    <2> QED BY <1>3, <2>2, <2>3, <2>4, <2>5
<1> QED BY <1>2, <1>3, <1>4, <1>5, <1>6

\* An entry that is not the first of its camera comes after the one that is.
LEMMA Repeated ==
    ASSUME NEW U, NEW list \in Seq(U), NEW n \in 1 .. Len(list), list[n].id # NoText,
           n \notin FirstOfCamera(list)
    PROVE  \E i \in Firsts(list, n - 1) : CameraOf(list[i].id) = CameraOf(list[n].id)
<1> DEFINE Like == {j \in Nat : j \in 1 .. n - 1 /\ list[j].id # NoText
                                /\ CameraOf(list[j].id) = CameraOf(list[n].id)}
<1>1. DOMAIN list = 1 .. Len(list) /\ Len(list) \in Nat
    BY LenProperties
<1>2. Like # {}
    BY <1>1 DEF FirstOfCamera
<1>3. PICK i \in Like : \A j \in Like : ~(<<j, i>> \in Less)
    <2>1. Like \subseteq Nat
        OBVIOUS
    <2> HIDE DEF Like
    <2> QED BY <1>2, <2>1, LessWF, WFMin
<1>4. i \in FirstOfCamera(list)
    <2>1. i \in DOMAIN list /\ list[i].id # NoText
        BY <1>1
    <2>2. ASSUME NEW j \in 1 .. i - 1, list[j].id # NoText
          PROVE  CameraOf(list[j].id) # CameraOf(list[i].id)
        <3>1. j < i /\ j \in Nat /\ i \in Nat /\ j \in 1 .. n - 1
            OBVIOUS
        <3>2. j \notin Like
            <4> HIDE DEF Like
            <4>1. <<j, i>> \in Less
                BY <3>1 DEF Less
            <4> QED BY <4>1, <1>3
        <3> QED BY <3>1, <3>2, <2>2
    <2> QED BY <2>1, <2>2 DEF FirstOfCamera
<1> QED BY <1>4 DEF Firsts

\* A round of the loop over the channels shows the next entry, unless its camera is
\* shown or the limit is reached (the set `seen` and the break of connect).
LEMMA Round ==
    ASSUME NEW U, NEW list \in Seq(U), NEW n \in 1 .. Len(list), list[n].id # NoText,
           NEW E, NEW d \in Seq(E), Shown(d, list, n - 1), Entry(list, n) \in E
    PROVE  Shown(KeepFirst(d, Entry(list, n)), list, n)
<1> DEFINE F == Firsts(list, n - 1)
           x == Entry(list, n)
           cameras == Cardinality(F)
<1>0. MaxChannels \in Nat \ {0} /\ Len(d) \in Nat /\ DOMAIN d = 1 .. Len(d) /\ cameras \in Nat
    BY XmlAssumption, LenProperties, Counted
<1>1. /\ Len(d) = IF cameras < MaxChannels THEN cameras ELSE MaxChannels
      /\ \A k \in 1 .. Len(d) : \E i \in F : Before(list, i) = k - 1 /\ d[k] = Entry(list, i)
      /\ \A i \in F : Before(list, i) < MaxChannels =>
            Before(list, i) + 1 \in 1 .. Len(d) /\ d[Before(list, i) + 1] = Entry(list, i)
    BY DEF Shown
<1>2. \A i \in F : Before(list, i) \in Nat /\ Before(list, i) < cameras
    BY Counted
<1>3. \A i : Entry(list, i).id = list[i].id
    BY DEF Entry, Named
<1>4. CASE n \notin FirstOfCamera(list)
    <2>1. Firsts(list, n) = F
        BY <1>4, Counted
    <2>2. PICK i \in F : CameraOf(list[i].id) = CameraOf(list[n].id)
        BY <1>4, Repeated
    <2>3. CASE Before(list, i) < MaxChannels
        <3>1. PICK k \in 1 .. Len(d) : d[k] = Entry(list, i)
            <4> HIDE DEF F, cameras
            <4> QED BY <1>1, <2>3
        <3>2. CameraOf(d[k].id) = CameraOf(x.id)
            BY <3>1, <2>2, <1>3
        <3>3. KeepFirst(d, x) = d
            BY <3>2, <1>0 DEF KeepFirst
        <3> QED BY <3>3, <2>1 DEF Shown
    <2>4. CASE ~(Before(list, i) < MaxChannels)
        <3>1. Len(d) = MaxChannels
            <4> HIDE DEF F, cameras
            <4> QED BY <1>0, <1>1, <1>2, <2>4
        <3>2. KeepFirst(d, x) = d
            BY <3>1 DEF KeepFirst
        <3> QED BY <3>2, <2>1 DEF Shown
    <2> QED BY <2>3, <2>4
<1>5. CASE n \in FirstOfCamera(list)
    <2>1. /\ Firsts(list, n) = F \cup {n} /\ Cardinality(Firsts(list, n)) = cameras + 1
          /\ Before(list, n) = cameras
        BY <1>5, Counted
    <2>2. CASE Len(d) = MaxChannels
        <3>1. KeepFirst(d, x) = d
            BY <2>2 DEF KeepFirst
        <3>2. cameras >= MaxChannels
            <4> HIDE DEF F, cameras
            <4> QED BY <1>0, <1>1, <2>2
        <3>3. Shown(d, list, n)
            <4> HIDE DEF F, cameras
            <4>1. Len(d) = IF cameras + 1 < MaxChannels THEN cameras + 1 ELSE MaxChannels
                BY <1>0, <2>2, <3>2
            <4>2. \A k \in 1 .. Len(d) : \E i \in F \cup {n} : Before(list, i) = k - 1 /\ d[k] = Entry(list, i)
                BY <1>1
            <4>3. \A i \in F \cup {n} : Before(list, i) < MaxChannels =>
                    Before(list, i) + 1 \in 1 .. Len(d) /\ d[Before(list, i) + 1] = Entry(list, i)
                BY <1>0, <1>1, <2>1, <3>2
            <4> QED BY <2>1, <4>1, <4>2, <4>3 DEF Shown
        <3> QED BY <3>1, <3>3
    <2>3. CASE Len(d) # MaxChannels
        <3> DEFINE e == Append(d, x)
        <3>1. cameras < MaxChannels /\ Len(d) = cameras
            <4> HIDE DEF F, cameras
            <4> QED BY <1>0, <1>1, <2>3
        <3>2. ASSUME NEW k \in DOMAIN d PROVE CameraOf(d[k].id) # CameraOf(x.id)
            <4>1. PICK i \in F : d[k] = Entry(list, i)
                <5> HIDE DEF F, cameras, x
                <5> QED BY <1>0, <1>1
            <4>2. i \in 1 .. n - 1 /\ list[i].id # NoText
                BY LenProperties DEF Firsts, FirstOfCamera
            <4>3. CameraOf(list[i].id) # CameraOf(list[n].id)
                BY <4>2, <1>5 DEF FirstOfCamera
            <4> QED BY <4>1, <4>3, <1>3
        <3>3. KeepFirst(d, x) = e
            BY <2>3, <3>2 DEF KeepFirst
        <3>4. Len(e) = cameras + 1 /\ e[cameras + 1] = x /\ \A k \in 1 .. cameras : e[k] = d[k]
            <4>1. x \in E
                OBVIOUS
            <4> HIDE DEF x, F, cameras
            <4> QED BY <3>1, <4>1, AppendProperties
        <3>5. Shown(e, list, n)
            <4> HIDE DEF F, cameras, e, x
            <4>1. Len(e) = IF cameras + 1 < MaxChannels THEN cameras + 1 ELSE MaxChannels
                BY <1>0, <3>1, <3>4
            <4>2. ASSUME NEW k \in 1 .. Len(e)
                  PROVE  \E i \in F \cup {n} : Before(list, i) = k - 1 /\ e[k] = Entry(list, i)
                <5>1. CASE k \in 1 .. cameras
                    BY <1>0, <1>1, <3>1, <3>4, <5>1
                <5>2. CASE k = cameras + 1
                    BY <1>0, <2>1, <3>4, <5>2 DEF x
                <5> QED BY <5>1, <5>2, <1>0, <3>4
            <4>3. ASSUME NEW i \in F \cup {n}, Before(list, i) < MaxChannels
                  PROVE  Before(list, i) + 1 \in 1 .. Len(e) /\ e[Before(list, i) + 1] = Entry(list, i)
                <5>1. CASE i \in F
                    <6>1. Before(list, i) + 1 \in 1 .. Len(d) /\ d[Before(list, i) + 1] = Entry(list, i)
                        BY <1>1, <4>3, <5>1
                    <6> QED BY <6>1, <1>0, <3>1, <3>4
                <5>2. CASE i = n
                    BY <1>0, <2>1, <3>4, <5>2 DEF x
                <5> QED BY <5>1, <5>2
            <4> QED BY <2>1, <4>1, <4>2, <4>3 DEF Shown
        <3> QED BY <3>3, <3>5
    <2> QED BY <2>2, <2>3
<1> QED BY <1>4, <1>5
\* No two channels are of one camera.
Distinct(chs) ==
    \A j, k \in DOMAIN chs : j # k => CameraOf(chs[j].id) # CameraOf(chs[k].id)

\* A round of the loop keeps the channels distinct.
LEMMA Kept ==
    ASSUME NEW E, NEW d \in Seq(E), Distinct(d), NEW ch \in E
    PROVE  KeepFirst(d, ch) \in Seq(E) /\ Distinct(KeepFirst(d, ch))
<1>1. CASE KeepFirst(d, ch) = d
    BY <1>1
<1>2. CASE KeepFirst(d, ch) # d
    <2> DEFINE e == Append(d, ch)
    <2>1. KeepFirst(d, ch) = e /\ \A k \in DOMAIN d : CameraOf(d[k].id) # CameraOf(ch.id)
        BY <1>2 DEF KeepFirst
    <2>2. /\ e \in Seq(E) /\ DOMAIN e = 1 .. Len(d) + 1 /\ e[Len(d) + 1] = ch
          /\ \A k \in 1 .. Len(d) : e[k] = d[k]
        BY AppendProperties
    <2>3. DOMAIN d = 1 .. Len(d) /\ Len(d) \in Nat
        BY LenProperties
    <2> HIDE DEF e
    <2>4. ASSUME NEW j \in DOMAIN e, NEW k \in DOMAIN e, j # k
          PROVE  CameraOf(e[j].id) # CameraOf(e[k].id)
        <3>1. CASE j \in DOMAIN d /\ k \in DOMAIN d
            BY <3>1, <2>2, <2>3, <2>4 DEF Distinct
        <3>2. CASE j \in DOMAIN d /\ k = Len(d) + 1
            BY <3>2, <2>1, <2>2, <2>3
        <3>3. CASE k \in DOMAIN d /\ j = Len(d) + 1
            BY <3>3, <2>1, <2>2, <2>3
        <3> QED BY <3>1, <3>2, <3>3, <2>2, <2>3, <2>4
    <2> QED BY <2>1, <2>2, <2>4 DEF Distinct
<1> QED BY <1>1, <1>2

\* The loop over the channels: its states, all distinct, and its result.
LEMMA Deduped ==
    ASSUME NEW E, NEW chs \in Seq(E)
    PROVE  \E f : /\ \A n \in 0 .. Len(chs) : f[n] \in Seq(E) /\ Distinct(f[n])
                  /\ f[0] = <<>>
                  /\ \A n \in 1 .. Len(chs) : f[n] = KeepFirst(f[n - 1], chs[n])
                  /\ OnePerCamera(chs) = f[Len(chs)]
<1> DEFINE N == Len(chs)
           S == {d \in Seq(E) : Distinct(d)}
           step == [p \in S \X (0 .. N) |-> IF p[2] = 0 THEN <<>> ELSE KeepFirst(p[1], chs[p[2]])]
           deduped == CHOOSE g : g = [n \in 0 .. N |-> IF n = 0 THEN <<>> ELSE KeepFirst(g[n - 1], chs[n])]
<1>0. N \in Nat
    BY LenProperties
<1>1. OnePerCamera(chs) = deduped[N]
    BY DEF OnePerCamera
<1>2. <<>> \in S
    BY EmptySeq DEF Distinct
<1>3. \A d \in S, n \in 1 .. N : KeepFirst(d, chs[n]) \in S
    BY Kept, ElementOfSeq
<1>4. step \in [S \X (0 .. N) -> S]
    <2> HIDE DEF S
    <2> QED BY <1>2, <1>3
<1>5. PICK f \in [0 .. N -> S] : f[0] = <<>> /\ \A n \in (0 .. N) \ {0} : f[n] = step[<<f[n - 1], n>>]
    <2>1. 0 \in Nat /\ 0 <= N
        OBVIOUS
    <2> HIDE DEF S, step, N
    <2>2. PICK f : Computed(f, S, 0, N, <<>>, step)
        BY <2>1, <1>0, <1>2, <1>4, Recursion
    <2> QED BY <2>2 DEF Computed
<1>6. ASSUME NEW n \in 1 .. N PROVE f[n] = KeepFirst(f[n - 1], chs[n])
    <2> HIDE DEF S, N
    <2>1. f[n - 1] \in S /\ n \in 0 .. N /\ n # 0
        BY <1>0
    <2>2. <<f[n - 1], n>> \in S \X (0 .. N)
        BY <2>1
    <2>3. step[<<f[n - 1], n>>] = KeepFirst(f[n - 1], chs[n])
        BY <2>1, <2>2
    <2>4. f[n] = step[<<f[n - 1], n>>]
        <3> HIDE DEF step
        <3> QED BY <2>1, <1>5
    <2> QED BY <2>3, <2>4
<1>7. f = [n \in 0 .. N |-> IF n = 0 THEN <<>> ELSE KeepFirst(f[n - 1], chs[n])]
    <2> HIDE DEF S, step, N
    <2> QED BY <1>0, <1>5, <1>6
<1>8. deduped = [n \in 0 .. N |-> IF n = 0 THEN <<>> ELSE KeepFirst(deduped[n - 1], chs[n])]
    <2> HIDE DEF S, step
    <2> QED BY <1>7
<1>9. \A n \in 0 .. N : deduped[n] \in S
    <2>1. deduped[0] \in S
        <3> HIDE DEF S, step, deduped
        <3> QED BY <1>2, <1>8
    <2>2. \A n \in (0 .. N) \ {0} : deduped[n - 1] \in S => deduped[n] \in S
        <3> HIDE DEF S, step, deduped
        <3> QED BY <1>3, <1>8
    <2>3. 0 \in Nat
        OBVIOUS
    <2> HIDE DEF S, step, deduped, N
    <2> QED BY <2>1, <2>2, <2>3, <1>0, Stays
<1> HIDE DEF step, deduped
<1>10. deduped[0] = <<>> /\ \A n \in 1 .. N : deduped[n] = KeepFirst(deduped[n - 1], chs[n])
    <2> HIDE DEF S, N
    <2> QED BY <1>0, <1>8
<1> QED BY <1>1, <1>9, <1>10

\* The loop over the channels leaves one entry a camera, whatever the entries are.
LEMMA OnePerCameraOf ==
    ASSUME NEW E, NEW chs \in Seq(E)
    PROVE  OnePerCamera(chs) \in Seq(E) /\ Distinct(OnePerCamera(chs))
<1>1. Len(chs) \in 0 .. Len(chs)
    BY LenProperties
<1> QED BY <1>1, Deduped

\* Without entries there are no channels.
LEMMA OnePerCameraEmpty == OnePerCamera(<<>>) = <<>>
<1>1. <<>> \in Seq({}) /\ Len(<<>>) = 0
    BY EmptySeq
<1> QED BY <1>1, Deduped

\* One entry more is one round more.
LEMMA OnePerCameraAppend ==
    ASSUME NEW E, NEW chs \in Seq(E), NEW ch \in E
    PROVE  OnePerCamera(Append(chs, ch)) = KeepFirst(OnePerCamera(chs), ch)
<1> DEFINE N == Len(chs)
           more == Append(chs, ch)
<1>1. /\ N \in Nat /\ more \in Seq(E) /\ Len(more) = N + 1 /\ more[N + 1] = ch
      /\ \A n \in 1 .. N : more[n] = chs[n]
    BY LenProperties, AppendProperties
<1> HIDE DEF N, more
<1>2. PICK f : /\ f[0] = <<>> /\ \A n \in 1 .. N : f[n] = KeepFirst(f[n - 1], chs[n])
               /\ OnePerCamera(chs) = f[N]
    BY Deduped DEF N
<1>3. PICK g : /\ g[0] = <<>> /\ \A n \in 1 .. N + 1 : g[n] = KeepFirst(g[n - 1], more[n])
               /\ OnePerCamera(more) = g[N + 1]
    BY <1>1, Deduped
<1>4. \A n \in 0 .. N : f[n] = g[n]
    <2>1. ASSUME NEW n \in 1 .. N, f[n - 1] = g[n - 1] PROVE f[n] = g[n]
        <3>1. n \in 1 .. N + 1 /\ more[n] = chs[n]
            BY <1>1
        <3>2. f[n] = KeepFirst(f[n - 1], chs[n]) /\ g[n] = KeepFirst(g[n - 1], chs[n])
            BY <1>2, <1>3, <3>1
        <3> QED BY <2>1, <3>2
    <2>2. f[0] = g[0] /\ N \in Nat
        BY <1>1, <1>2, <1>3
    <2>3. InStep(f, g, N)
        BY <2>1 DEF InStep
    <2> QED BY <2>2, <2>3, Agree
<1>5. N \in 0 .. N /\ N + 1 \in 1 .. N + 1 /\ (N + 1) - 1 = N
    BY <1>1
<1>6. g[N + 1] = KeepFirst(g[N], ch)
    BY <1>1, <1>3, <1>5
<1> QED BY <1>2, <1>3, <1>4, <1>5, <1>6 DEF more
-----------------------------------------------------------------------------
(* The document and its reader                                               *)

\* The elements of a document, one after another: what each adds to the events.
LEMMA Flattened ==
    ASSUME NEW E, NEW seqs \in Seq(Seq(E))
    PROVE  \E f : /\ \A i \in 0 .. Len(seqs) : f[i] \in Seq(E)
                  /\ f[0] = <<>>
                  /\ \A i \in 1 .. Len(seqs) : f[i] = f[i - 1] \o seqs[i]
                  /\ FlattenSeq(seqs) = f[Len(seqs)]
<1>0. PICK N \in Nat : N = Len(seqs)
    BY LenProperties
<1>1. CASE N = 0
    <2>1. seqs = <<>>
        BY <1>0, <1>1, EmptySeq
    <2>2. FlattenSeq(seqs) = <<>>
        BY <1>0, <1>1, <2>1 DEF FlattenSeq
    <2> DEFINE f == [i \in {0} |-> <<>>]
    <2>3. f[0] = <<>> /\ 0 .. N = {0} /\ 1 .. N = {} /\ <<>> \in Seq(E)
        BY <1>1, EmptySeq
    <2> HIDE DEF f
    <2> QED BY <1>0, <1>1, <2>2, <2>3
<1>2. CASE N # 0
    <2> DEFINE S == Seq(E)
               step == [p \in S \X (1 .. N) |-> p[1] \o seqs[p[2]]]
               flatten == CHOOSE g : g = [i \in 1 .. N |-> IF i = 1 THEN seqs[i] ELSE g[i - 1] \o seqs[i]]
    <2>1. FlattenSeq(seqs) = flatten[N]
        BY <1>0, <1>2 DEF FlattenSeq
    <2>2. \A i \in 1 .. N : seqs[i] \in S
        BY <1>0, ElementOfSeq
    <2>3. \A d \in S, i \in 1 .. N : d \o seqs[i] \in S
        BY <2>2, ConcatProperties
    <2>4. step \in [S \X (1 .. N) -> S]
        <3> HIDE DEF S
        <3> QED BY <2>3
    <2>5. PICK f : Computed(f, S, 1, N, seqs[1], step)
        <3>1. 1 \in Nat /\ 1 <= N /\ 1 \in 1 .. N
            BY <1>2
        <3> HIDE DEF S, step
        <3> QED BY <3>1, <2>2, <2>4, Recursion
    <2>6. f \in [1 .. N -> S] /\ f[1] = seqs[1] /\ \A i \in (1 .. N) \ {1} : f[i] = step[<<f[i - 1], i>>]
        <3> HIDE DEF S, step
        <3> QED BY <2>5 DEF Computed
    <2>7. ASSUME NEW i \in (1 .. N) \ {1} PROVE f[i] = f[i - 1] \o seqs[i]
        <3> HIDE DEF S
        <3>1. f[i - 1] \in S
            BY <2>6
        <3>2. <<f[i - 1], i>> \in S \X (1 .. N)
            BY <3>1
        <3>3. step[<<f[i - 1], i>>] = f[i - 1] \o seqs[i]
            BY <3>2
        <3>4. f[i] = step[<<f[i - 1], i>>]
            <4> HIDE DEF step
            <4> QED BY <2>6
        <3> QED BY <3>3, <3>4
    <2>8. f = [i \in 1 .. N |-> IF i = 1 THEN seqs[i] ELSE f[i - 1] \o seqs[i]]
        <3> HIDE DEF S, step
        <3> QED BY <2>6, <2>7
    <2>9. flatten = [i \in 1 .. N |-> IF i = 1 THEN seqs[i] ELSE flatten[i - 1] \o seqs[i]]
        <3> HIDE DEF S, step
        <3> QED BY <2>8
    <2>10. \A i \in 1 .. N : flatten[i] \in S
        <3> HIDE DEF S, step, flatten
        <3>1. 1 \in Nat /\ 1 \in 1 .. N
            BY <1>2
        <3>2. flatten[1] \in S
            BY <2>2, <2>9, <3>1
        <3>3. \A i \in (1 .. N) \ {1} : flatten[i - 1] \in S => flatten[i] \in S
            <4>1. \A i \in (1 .. N) \ {1} : flatten[i] = flatten[i - 1] \o seqs[i]
                BY <2>9
            <4> QED BY <2>3, <4>1
        <3>4. N \in Nat
            OBVIOUS
        <3> QED BY ONLY <3>1, <3>2, <3>3, <3>4, Stays, Zenon
    <2> HIDE DEF step, flatten
    <2> DEFINE g == [i \in 0 .. N |-> IF i = 0 THEN <<>> ELSE flatten[i]]
    <2>11. \A i \in 0 .. N : g[i] \in Seq(E)
        BY <2>10, EmptySeq
    <2>12. g[0] = <<>> /\ g[N] = FlattenSeq(seqs)
        BY <1>2, <2>1
    <2>13. ASSUME NEW i \in 1 .. N PROVE g[i] = g[i - 1] \o seqs[i]
        <3>1. CASE i = 1
            <4>1. flatten[1] = seqs[1] /\ 0 \in 0 .. N /\ 1 \in 0 .. N
                BY <2>9, <3>1
            <4>2. g[1] = seqs[1] /\ g[0] = <<>>
                BY <4>1
            <4> QED BY <4>2, <3>1, <2>2, ConcatEmptySeq
        <3>2. CASE i # 1
            <4>1. i - 1 \in 1 .. N /\ i - 1 # 0 /\ i # 0
                BY <3>2
            <4>2. g[i] = flatten[i] /\ g[i - 1] = flatten[i - 1]
                BY <4>1
            <4>3. flatten[i] = flatten[i - 1] \o seqs[i]
                BY <2>9, <3>2
            <4> QED BY <4>2, <4>3
        <3> QED BY <3>1, <3>2
    <2> HIDE DEF g
    <2> QED BY <1>0, <2>11, <2>12, <2>13
<1> QED BY <1>1, <1>2

\* The events of a document whose texts are of T.
Tags == {"", "StreamingChannelList", "StreamingChannel", "id", "channelName", "enabled"}
Events(T) == [kind : {"start", "end", "text"}, tag : Tags, text : T]
\* What parse_channels makes of them: its entries, and the variables of its loop.
Entries(T) == {Named(id, name) : id \in T, name \in T}
Parsers(T) == [in_ch : BOOLEAN, in_id : BOOLEAN, in_name : BOOLEAN,
               ch_id : T, ch_name : T, channels : Seq(Entries(T))]

\* An event of the loop of parse_channels keeps its variables well-formed.
LEMMA EventRead ==
    ASSUME NEW T, NoText \in T, NEW p \in Parsers(T), NEW event \in Events(T)
    PROVE  ReadEvent(p, event) \in Parsers(T)
<1> DEFINE C == Entries(T)
<1>1. p.channels \in Seq(C) /\ p.ch_id \in T /\ p.ch_name \in T
      /\ p.in_ch \in BOOLEAN /\ p.in_id \in BOOLEAN /\ p.in_name \in BOOLEAN
    BY DEF Parsers
<1>2. event.kind \in {"start", "end", "text"} /\ event.text \in T
    BY DEF Events
<1>3. Append(p.channels, Named(p.ch_id, p.ch_name)) \in Seq(C)
    <2>1. Named(p.ch_id, p.ch_name) \in C
        BY <1>1 DEF Entries
    <2> HIDE DEF C
    <2> QED BY <1>1, <2>1, AppendProperties
<1>4. ReadStart(p, event.tag) \in Parsers(T)
    BY <1>1, <1>2 DEF ReadStart, Parsers
<1>5. ReadChars(p, event.text) \in Parsers(T)
    BY <1>1, <1>2 DEF ReadChars, Parsers
<1>6. ReadEnd(p, event.tag) \in Parsers(T)
    BY <1>1, <1>2, <1>3 DEF ReadEnd, Parsers
<1> QED BY <1>2, <1>4, <1>5, <1>6 DEF ReadEvent

\* The loop of parse_channels over the events doc, from the variables p.
Run(p, doc) ==
    LET parser[n \in 0 .. Len(doc)] == IF n = 0 THEN p ELSE ReadEvent(parser[n - 1], doc[n])
    IN parser[Len(doc)]

\* Its states, and its result.
Running(f, T, p, doc) ==
    /\ \A n \in 0 .. Len(doc) : f[n] \in Parsers(T)
    /\ f[0] = p
    /\ \A n \in 1 .. Len(doc) : f[n] = ReadEvent(f[n - 1], doc[n])
    /\ Run(p, doc) = f[Len(doc)]

\* The loop has states, for every document.
LEMMA Parsed ==
    ASSUME NEW T, NoText \in T, NEW doc \in Seq(Events(T)), NEW p0 \in Parsers(T)
    PROVE  \E f : Running(f, T, p0, doc)
<1> DEFINE S == Parsers(T)
           N == Len(doc)
           step == [q \in S \X (0 .. N) |-> IF q[2] = 0 THEN p0 ELSE ReadEvent(q[1], doc[q[2]])]
           parser == CHOOSE g : g = [n \in 0 .. N |-> IF n = 0 THEN p0 ELSE ReadEvent(g[n - 1], doc[n])]
<1>0. N \in Nat
    BY LenProperties
<1>1. Run(p0, doc) = parser[N]
    BY DEF Run
<1>2. p0 \in S
    OBVIOUS
<1>3. \A p \in S, n \in 1 .. N : ReadEvent(p, doc[n]) \in S
    BY ElementOfSeq, EventRead
<1>4. step \in [S \X (0 .. N) -> S]
    <2> HIDE DEF S
    <2> QED BY <1>2, <1>3
<1>5. PICK f \in [0 .. N -> S] : f[0] = p0 /\ \A n \in (0 .. N) \ {0} : f[n] = step[<<f[n - 1], n>>]
    <2>1. 0 \in Nat /\ 0 <= N
        OBVIOUS
    <2> HIDE DEF S, step, N
    <2>2. PICK f : Computed(f, S, 0, N, p0, step)
        BY <2>1, <1>0, <1>2, <1>4, Recursion
    <2> QED BY <2>2 DEF Computed
<1>6. ASSUME NEW n \in 1 .. N PROVE f[n] = ReadEvent(f[n - 1], doc[n])
    <2> HIDE DEF S, N
    <2>1. f[n - 1] \in S /\ n \in 0 .. N /\ n # 0
        BY <1>0
    <2>2. <<f[n - 1], n>> \in S \X (0 .. N)
        BY <2>1
    <2>3. step[<<f[n - 1], n>>] = ReadEvent(f[n - 1], doc[n])
        BY <2>1, <2>2
    <2>4. f[n] = step[<<f[n - 1], n>>]
        <3> HIDE DEF step
        <3> QED BY <2>1, <1>5
    <2> QED BY <2>3, <2>4
<1>7. f = [n \in 0 .. N |-> IF n = 0 THEN p0 ELSE ReadEvent(f[n - 1], doc[n])]
    <2> HIDE DEF S, step, N
    <2> QED BY <1>0, <1>5, <1>6
<1>8. parser = [n \in 0 .. N |-> IF n = 0 THEN p0 ELSE ReadEvent(parser[n - 1], doc[n])]
    <2> HIDE DEF S, step
    <2> QED BY <1>7
<1>9. \A n \in 0 .. N : parser[n] \in S
    <2>1. parser[0] \in S
        <3> HIDE DEF S, step, parser
        <3> QED BY <1>2, <1>8
    <2>2. \A n \in (0 .. N) \ {0} : parser[n - 1] \in S => parser[n] \in S
        <3> HIDE DEF S, step, parser
        <3> QED BY <1>3, <1>8
    <2>3. 0 \in Nat
        OBVIOUS
    <2> HIDE DEF S, step, parser, N
    <2> QED BY <2>1, <2>2, <2>3, <1>0, Stays
<1> HIDE DEF step, parser
<1>10. parser[0] = p0 /\ \A n \in 1 .. N : parser[n] = ReadEvent(parser[n - 1], doc[n])
    <2> HIDE DEF S, N
    <2> QED BY <1>0, <1>8
<1>11. Running(parser, T, p0, doc)
    BY <1>1, <1>9, <1>10 DEF Running
<1> QED BY <1>11

\* Its result is well-formed.
LEMMA RunParser ==
    ASSUME NEW T, NoText \in T, NEW doc \in Seq(Events(T)), NEW p \in Parsers(T)
    PROVE  Run(p, doc) \in Parsers(T)
<1>1. Len(doc) \in 0 .. Len(doc)
    BY LenProperties
<1>2. PICK f : Running(f, T, p, doc)
    BY Parsed
<1> QED BY <1>1, <1>2 DEF Running

\* Without events nothing changes.
LEMMA RunEmpty ==
    ASSUME NEW T, NoText \in T, NEW p \in Parsers(T)
    PROVE  Run(p, <<>>) = p
<1>1. <<>> \in Seq(Events(T)) /\ Len(<<>>) = 0
    BY EmptySeq
<1>2. PICK f : Running(f, T, p, <<>>)
    BY <1>1, Parsed
<1> QED BY <1>1, <1>2 DEF Running

\* One event is one round.
LEMMA RunOne ==
    ASSUME NEW T, NoText \in T, NEW event \in Events(T), NEW p \in Parsers(T)
    PROVE  Run(p, <<event>>) = ReadEvent(p, event)
<1>1. <<event>> \in Seq(Events(T)) /\ Len(<<event>>) = 1 /\ <<event>>[1] = event
    OBVIOUS
<1>2. PICK f : f[0] = p /\ (\A n \in 1 .. 1 : f[n] = ReadEvent(f[n - 1], <<event>>[n]))
               /\ Run(p, <<event>>) = f[1]
    <2>1. PICK f : Running(f, T, p, <<event>>)
        BY <1>1, Parsed
    <2> QED BY <1>1, <2>1 DEF Running
<1>3. f[1] = ReadEvent(f[1 - 1], <<event>>[1]) /\ 1 - 1 = 0
    BY <1>2
<1> QED BY <1>1, <1>2, <1>3

\* Events that follow one another are read one after another.
LEMMA RunConcat ==
    ASSUME NEW T, NoText \in T, NEW d \in Seq(Events(T)), NEW e \in Seq(Events(T)), NEW p \in Parsers(T)
    PROVE  Run(p, d \o e) = Run(Run(p, d), e)
<1> DEFINE N == Len(d)
           M == Len(e)
           c == d \o e
           q == Run(p, d)
<1>1. /\ N \in Nat /\ M \in Nat /\ c \in Seq(Events(T)) /\ Len(c) = N + M
      /\ \A n \in 1 .. N : c[n] = d[n]
      /\ \A n \in 1 .. M : c[N + n] = e[n]
    <2>1. /\ N \in Nat /\ M \in Nat /\ c \in Seq(Events(T)) /\ Len(c) = N + M
          /\ \A n \in 1 .. N + M : c[n] = IF n <= N THEN d[n] ELSE e[n - N]
        BY LenProperties, ConcatProperties
    <2> HIDE DEF N, M, c
    <2>2. \A n \in 1 .. N : c[n] = d[n]
        BY <2>1
    <2>3. ASSUME NEW n \in 1 .. M PROVE c[N + n] = e[n]
        <3>1. N + n \in 1 .. N + M /\ ~(N + n <= N) /\ (N + n) - N = n
            BY <2>1
        <3> QED BY <2>1, <3>1
    <2> QED BY <2>1, <2>2, <2>3
<1>2. q \in Parsers(T)
    BY RunParser
<1>3. PICK f : f[0] = p /\ (\A n \in 1 .. N : f[n] = ReadEvent(f[n - 1], d[n])) /\ q = f[N]
    <2>1. PICK f : Running(f, T, p, d)
        BY Parsed
    <2> QED BY <2>1 DEF Running
<1>4. PICK g : g[0] = q /\ (\A n \in 1 .. M : g[n] = ReadEvent(g[n - 1], e[n])) /\ Run(q, e) = g[M]
    <2> HIDE DEF q
    <2>1. PICK g : Running(g, T, q, e)
        BY <1>2, Parsed
    <2> QED BY <2>1 DEF Running
<1> HIDE DEF N, M, c, q
<1>5. PICK h : h[0] = p /\ (\A n \in 1 .. N + M : h[n] = ReadEvent(h[n - 1], c[n])) /\ Run(p, c) = h[N + M]
    <2>1. PICK h : Running(h, T, p, c)
        BY <1>1, Parsed
    <2> QED BY <1>1, <2>1 DEF Running
<1>6. \A n \in 0 .. N : f[n] = h[n]
    <2>1. ASSUME NEW n \in 1 .. N, f[n - 1] = h[n - 1] PROVE f[n] = h[n]
        <3>1. n \in 1 .. N + M /\ c[n] = d[n]
            BY <1>1
        <3>2. f[n] = ReadEvent(f[n - 1], d[n]) /\ h[n] = ReadEvent(h[n - 1], d[n])
            BY <1>3, <1>5, <3>1
        <3> QED BY <2>1, <3>2
    <2>2. f[0] = h[0] /\ N \in Nat
        BY <1>1, <1>3, <1>5
    <2>3. InStep(f, h, N)
        BY <2>1 DEF InStep
    <2> QED BY <2>2, <2>3, Agree
<1> DEFINE k == [n \in 0 .. M |-> h[N + n]]
<1>7. \A n \in 0 .. M : g[n] = k[n]
    <2>1. ASSUME NEW n \in 1 .. M, g[n - 1] = k[n - 1] PROVE g[n] = k[n]
        <3>1. N + n \in 1 .. N + M /\ (N + n) - 1 = N + (n - 1) /\ n - 1 \in 0 .. M /\ n \in 0 .. M
            BY <1>1
        <3>2. h[N + n] = ReadEvent(h[N + (n - 1)], e[n])
            BY <1>1, <1>5, <3>1
        <3>3. k[n] = h[N + n] /\ k[n - 1] = h[N + (n - 1)]
            BY <3>1
        <3> HIDE DEF k
        <3> QED BY <1>4, <2>1, <3>2, <3>3
    <2>2. g[0] = k[0]
        <3>1. k[0] = h[N] /\ N \in 0 .. N
            BY <1>1
        <3> HIDE DEF k
        <3> QED BY <1>3, <1>4, <1>6, <3>1
    <2> HIDE DEF k
    <2>3. InStep(g, k, M) /\ M \in Nat
        BY <1>1, <2>1 DEF InStep
    <2> QED BY <2>2, <2>3, Agree
<1>8. g[M] = h[N + M]
    <2>1. M \in 0 .. M
        BY <1>1
    <2>2. k[M] = h[N + M]
        BY <2>1
    <2> HIDE DEF k
    <2> QED BY <1>7, <2>1, <2>2
<1> QED BY <1>4, <1>5, <1>8 DEF c, q

\* A sequence of one.
LEMMA One ==
    ASSUME NEW S, NEW x \in S
    PROVE  <<x>> \in Seq(S)
OBVIOUS

\* An element is a sequence of events, when its content is.
LEMMA ElementSeq ==
    ASSUME NEW T, NoText \in T, NEW tag \in Tags, NEW content \in Seq(Events(T))
    PROVE  Element(tag, content) \in Seq(Events(T))
<1>1. StartOf(tag) \in Events(T) /\ EndOf(tag) \in Events(T)
    BY DEF StartOf, EndOf, Events
<1>2. <<StartOf(tag)>> \in Seq(Events(T)) /\ <<EndOf(tag)>> \in Seq(Events(T))
    BY <1>1, One
<1>3. <<StartOf(tag)>> \o content \in Seq(Events(T))
    BY <1>2, ConcatProperties
<1>4. (<<StartOf(tag)>> \o content) \o <<EndOf(tag)>> \in Seq(Events(T))
    BY <1>2, <1>3, ConcatProperties
<1> QED BY <1>4 DEF Element

\* An element with a text is one, also when the text is missing.
LEMMA TextElementSeq ==
    ASSUME NEW T, NoText \in T, NEW tag \in Tags, NEW text \in T
    PROVE  TextElement(tag, text) \in Seq(Events(T))
<1>1. Chars(text) \in Events(T)
    BY DEF Chars, Events, Tags
<1>2. <<Chars(text)>> \in Seq(Events(T)) /\ <<>> \in Seq(Events(T))
    BY <1>1, One, EmptySeq
<1> QED BY <1>2, ElementSeq DEF TextElement

\* The element of one entry of the device's list.
EntryElement(entry) ==
    Element("StreamingChannel", TextElement("id", entry.id) \o TextElement("channelName", entry.name)
                                \o TextElement("enabled", "true"))

\* That element is a sequence of events.
LEMMA EntryElementSeq ==
    ASSUME NEW T, NoText \in T, "true" \in T, NEW entry, entry.id \in T, entry.name \in T
    PROVE  EntryElement(entry) \in Seq(Events(T))
<1>1. {"id", "channelName", "enabled", "StreamingChannel"} \subseteq Tags
    BY DEF Tags
<1>2. /\ TextElement("id", entry.id) \in Seq(Events(T))
      /\ TextElement("channelName", entry.name) \in Seq(Events(T))
      /\ TextElement("enabled", "true") \in Seq(Events(T))
    BY <1>1, TextElementSeq
<1>3. TextElement("id", entry.id) \o TextElement("channelName", entry.name) \in Seq(Events(T))
    BY <1>2, ConcatProperties
<1>4. (TextElement("id", entry.id) \o TextElement("channelName", entry.name))
         \o TextElement("enabled", "true") \in Seq(Events(T))
    BY <1>2, <1>3, ConcatProperties
<1> QED BY <1>1, <1>4, ElementSeq DEF EntryElement

\* An element is read as its start, its content and its end.
LEMMA RunElement ==
    ASSUME NEW T, NoText \in T, NEW tag \in Tags, NEW content \in Seq(Events(T)), NEW p \in Parsers(T)
    PROVE  Run(p, Element(tag, content)) = ReadEnd(Run(ReadStart(p, tag), content), tag)
<1> DEFINE s == <<StartOf(tag)>>
           e == <<EndOf(tag)>>
<1>1. StartOf(tag) \in Events(T) /\ EndOf(tag) \in Events(T)
    BY DEF StartOf, EndOf, Events
<1>2. s \in Seq(Events(T)) /\ e \in Seq(Events(T))
    BY <1>1, One
<1>3. Run(p, s) = ReadStart(p, tag) /\ Run(p, s) \in Parsers(T)
    <2>1. ReadEvent(p, StartOf(tag)) = ReadStart(p, tag)
        BY DEF ReadEvent, StartOf
    <2> QED BY <1>1, <1>2, <2>1, RunOne, RunParser
<1>4. s \o content \in Seq(Events(T)) /\ Run(p, s \o content) = Run(Run(p, s), content)
    <2> HIDE DEF s
    <2> QED BY <1>2, ConcatProperties, RunConcat
<1>5. Run(p, s \o content) \in Parsers(T)
    <2> HIDE DEF s
    <2> QED BY <1>4, RunParser
<1>6. Run(p, (s \o content) \o e) = Run(Run(p, s \o content), e)
    <2> HIDE DEF s, e
    <2> QED BY <1>2, <1>4, RunConcat
<1>7. \A q \in Parsers(T) : Run(q, e) = ReadEnd(q, tag)
    <2> SUFFICES ASSUME NEW q \in Parsers(T) PROVE Run(q, e) = ReadEnd(q, tag)
        OBVIOUS
    <2>1. ReadEvent(q, EndOf(tag)) = ReadEnd(q, tag)
        BY DEF ReadEvent, EndOf
    <2> QED BY <1>1, <2>1, RunOne
<1>8. Element(tag, content) = (s \o content) \o e
    BY DEF Element
<1> HIDE DEF s, e
<1> QED BY <1>3, <1>4, <1>5, <1>6, <1>7, <1>8

\* An element with a text is read as its start, the text if there is one, and its end.
LEMMA RunTextElement ==
    ASSUME NEW T, NoText \in T, NEW tag \in Tags, NEW text \in T, NEW p \in Parsers(T),
           ReadStart(p, tag) \in Parsers(T)
    PROVE  Run(p, TextElement(tag, text))
            = ReadEnd(IF text = NoText THEN ReadStart(p, tag) ELSE ReadChars(ReadStart(p, tag), text), tag)
<1>1. Chars(text) \in Events(T)
    BY DEF Chars, Events, Tags
<1>2. <<Chars(text)>> \in Seq(Events(T)) /\ <<>> \in Seq(Events(T))
    BY <1>1, One, EmptySeq
<1>3. Run(ReadStart(p, tag), <<>>) = ReadStart(p, tag)
    BY RunEmpty
<1>4. Run(ReadStart(p, tag), <<Chars(text)>>) = ReadChars(ReadStart(p, tag), text)
    <2>1. \A q : ReadEvent(q, Chars(text)) = ReadChars(q, text)
        BY DEF ReadEvent, Chars
    <2> QED BY <1>1, <2>1, RunOne
<1> QED BY <1>2, <1>3, <1>4, RunElement DEF TextElement

\* Between the elements of two entries no flag of parse_channels is set.
Idle(p) == ~p.in_ch /\ ~p.in_id /\ ~p.in_name

\* The element of an entry adds it to the channels, with its own id and name and
\* no one else's, unless it has no id (ch_id and ch_name are cleared at its start).
LEMMA RunEntry ==
    ASSUME NEW T, NoText \in T, "true" \in T, NEW entry, entry.id \in T, entry.name \in T,
           NEW p \in Parsers(T), Idle(p)
    PROVE  LET q == Run(p, EntryElement(entry))
           IN /\ Idle(q)
              /\ q.channels = IF entry.id = NoText THEN p.channels
                              ELSE Append(p.channels, Named(entry.id, entry.name))
<1> DEFINE E == Events(T)
           id == TextElement("id", entry.id)
           name == TextElement("channelName", entry.name)
           enabled == TextElement("enabled", "true")
           p1 == [p EXCEPT !.in_ch = TRUE, !.ch_id = NoText, !.ch_name = NoText]
           p2 == [p1 EXCEPT !.ch_id = entry.id]
           p3 == [p2 EXCEPT !.ch_name = entry.name]
<1>1. /\ "id" \in Tags /\ "channelName" \in Tags /\ "enabled" \in Tags /\ "StreamingChannel" \in Tags
    BY DEF Tags
<1>2. id \in Seq(Events(T)) /\ name \in Seq(Events(T)) /\ enabled \in Seq(Events(T))
    BY <1>1, TextElementSeq
<1>3. /\ p1 \in Parsers(T) /\ p2 \in Parsers(T) /\ p3 \in Parsers(T)
      /\ ReadStart(p, "StreamingChannel") = p1
    BY DEF Parsers, ReadStart
<1>4. Run(p1, id) = p2
    <2> DEFINE s == [p1 EXCEPT !.in_id = TRUE]
    <2>1. ReadStart(p1, "id") = s /\ s \in Parsers(T)
        BY <1>3 DEF ReadStart, Parsers
    <2>2. ReadEnd(s, "id") = [s EXCEPT !.in_id = FALSE]
        BY DEF ReadEnd
    <2>3. ReadEnd(ReadChars(s, entry.id), "id") = p2
        BY DEF ReadEnd, ReadChars, Parsers, Idle
    <2>4. entry.id = NoText => [s EXCEPT !.in_id = FALSE] = p2
        BY DEF Parsers, Idle
    <2> QED BY <1>1, <1>3, <2>1, <2>2, <2>3, <2>4, RunTextElement
<1>5. Run(p2, name) = p3
    <2> DEFINE s == [p2 EXCEPT !.in_name = TRUE]
    <2>1. ReadStart(p2, "channelName") = s /\ s \in Parsers(T)
        BY <1>3 DEF ReadStart, Parsers
    <2>2. ReadEnd(s, "channelName") = [s EXCEPT !.in_name = FALSE]
        BY DEF ReadEnd
    <2>3. ReadEnd(ReadChars(s, entry.name), "channelName") = p3
        BY DEF ReadEnd, ReadChars, Parsers, Idle
    <2>4. entry.name = NoText => [s EXCEPT !.in_name = FALSE] = p3
        BY DEF Parsers, Idle
    <2> QED BY <1>1, <1>3, <2>1, <2>2, <2>3, <2>4, RunTextElement
<1>6. Run(p3, enabled) = p3
    <2>1. ReadStart(p3, "enabled") = p3 /\ ReadEnd(p3, "enabled") = p3
        BY DEF ReadStart, ReadEnd
    <2>2. ReadChars(p3, "true") = p3
        BY DEF ReadChars, Parsers, Idle
    <2> HIDE DEF p3
    <2> QED BY <1>1, <1>3, <2>1, <2>2, RunTextElement
<1>7. Run(p1, (id \o name) \o enabled) = p3
    <2> HIDE DEF id, name, enabled, p1, p2, p3
    <2>1. id \o name \in Seq(Events(T)) /\ Run(p1, id \o name) = p3
        BY <1>2, <1>3, <1>4, <1>5, ConcatProperties, RunConcat
    <2> QED BY <1>2, <1>3, <1>6, <2>1, RunConcat
<1>8. (id \o name) \o enabled \in Seq(Events(T))
    <2> HIDE DEF id, name, enabled
    <2>1. id \o name \in Seq(Events(T))
        BY <1>2, ConcatProperties
    <2> QED BY <1>2, <2>1, ConcatProperties
<1>9. Run(p, EntryElement(entry)) = ReadEnd(p3, "StreamingChannel")
    <2>1. EntryElement(entry) = Element("StreamingChannel", (id \o name) \o enabled)
        BY DEF EntryElement
    <2> HIDE DEF id, name, enabled, p1, p2, p3
    <2> QED BY <1>1, <1>3, <1>7, <1>8, <2>1, RunElement
<1>10. /\ ReadEnd(p3, "StreamingChannel").in_ch = FALSE
       /\ ReadEnd(p3, "StreamingChannel").in_id = p.in_id
       /\ ReadEnd(p3, "StreamingChannel").in_name = p.in_name
       /\ ReadEnd(p3, "StreamingChannel").channels
            = IF entry.id = NoText THEN p.channels ELSE Append(p.channels, Named(entry.id, entry.name))
    BY DEF ReadEnd, Parsers
<1> QED BY <1>9, <1>10 DEF Idle

-----------------------------------------------------------------------------
(* The channels                                                              *)

\* The document of a list of any length is read and reduced to the channels the user
\* is to see.  Entry by entry of the document, the channels read so far, reduced to
\* one a camera, are Shown.
LEMMA DocumentShown ==
    ASSUME NEW T, NoText \in T, "true" \in T, NEW U, NEW list \in Seq(U),
           \A i \in DOMAIN list : list[i].id \in T /\ list[i].name \in T
    PROVE  LET chs == OnePerCamera(ParseChannels(ChannelDocument(list)))
           IN chs \in Seq(Entries(T)) /\ Distinct(chs) /\ Shown(chs, list, Len(list))
<1> DEFINE N == Len(list)
           seqs == [i \in DOMAIN list |-> EntryElement(list[i])]
           State(d) == Run(Parser, d)
           Chs(d) == OnePerCamera(State(d).channels)
<1>1. N \in Nat /\ DOMAIN list = 1 .. N
    BY LenProperties
<1>2. \A i \in 1 .. N : EntryElement(list[i]) \in Seq(Events(T))
    BY <1>1, EntryElementSeq
<1>3. seqs \in Seq(Seq(Events(T))) /\ Len(seqs) = N /\ \A i \in 1 .. N : seqs[i] = EntryElement(list[i])
    <2> HIDE DEF N
    <2> QED BY <1>1, <1>2
<1>4. PICK f : /\ \A i \in 0 .. N : f[i] \in Seq(Events(T))
               /\ f[0] = <<>>
               /\ \A i \in 1 .. N : f[i] = f[i - 1] \o seqs[i]
               /\ FlattenSeq(seqs) = f[N]
    <2> HIDE DEF seqs, N
    <2> QED BY <1>3, Flattened
<1>5. Parser \in Parsers(T) /\ Idle(Parser) /\ Parser.channels = <<>>
    BY EmptySeq DEF Parser, Parsers, Idle
<1> HIDE DEF N, seqs
<1>6. \A i \in 0 .. N : State(f[i]) \in Parsers(T)
    BY <1>4, <1>5, RunParser
<1> DEFINE Done == {i \in Nat : i <= N => Idle(State(f[i])) /\ Shown(Chs(f[i]), list, i)}
<1>7. 0 \in Done
    <2>1. State(f[0]) = Parser
        BY <1>4, <1>5, RunEmpty
    <2>2. Chs(f[0]) = <<>>
        BY <2>1, <1>5, OnePerCameraEmpty
    <2>3. Firsts(list, 0) = {} /\ Cardinality(Firsts(list, 0)) = 0
        <3>1. Firsts(list, 0) = {}
            BY <1>1 DEF Firsts, FirstOfCamera
        <3> QED BY <3>1, FS_EmptySet
    <2>4. Shown(<<>>, list, 0)
        BY <2>3, XmlAssumption DEF Shown
    <2> HIDE DEF State, Chs
    <2> QED BY <2>1, <2>2, <2>4, <1>5
<1>8. ASSUME NEW m \in Nat, m \in Done PROVE m + 1 \in Done
    <2> SUFFICES ASSUME m + 1 <= N
                 PROVE  Idle(State(f[m + 1])) /\ Shown(Chs(f[m + 1]), list, m + 1)
        OBVIOUS
    <2>1. PICK i \in 1 .. N : i = m + 1 /\ i - 1 = m
        BY <1>1
    <2> DEFINE p == State(f[m])
               s == State(f[i])
               entry == list[i]
    <2>2. p \in Parsers(T) /\ Idle(p) /\ Shown(Chs(f[m]), list, i - 1) /\ f[m] \in Seq(Events(T))
        BY <1>1, <1>4, <1>6, <1>8, <2>1
    <2>3. entry.id \in T /\ entry.name \in T
        BY <1>1
    <2>4. s = Run(p, EntryElement(entry))
        <3>1. f[i] = f[m] \o EntryElement(entry)
            BY <1>3, <1>4, <2>1
        <3>2. EntryElement(entry) \in Seq(Events(T))
            BY <1>2
        <3> HIDE DEF entry
        <3> QED BY <2>2, <3>1, <3>2, <1>5, RunConcat
    <2>5. Idle(s) /\ s.channels = IF entry.id = NoText THEN p.channels
                                  ELSE Append(p.channels, Named(entry.id, entry.name))
        <3> HIDE DEF p, s, entry
        <3> QED BY <2>2, <2>3, <2>4, RunEntry
    <2>6. p.channels \in Seq(Entries(T)) /\ Entry(list, i) = Named(entry.id, entry.name)
          /\ Entry(list, i) \in Entries(T)
        <3>1. p.channels \in Seq(Entries(T))
            <4> HIDE DEF p
            <4> QED BY <2>2 DEF Parsers
        <3> QED BY <3>1, <2>3 DEF Entry, Entries
    <2>7. CASE entry.id = NoText
        <3>1. Chs(f[i]) = Chs(f[m])
            BY <2>5, <2>7
        <3>2. i \notin FirstOfCamera(list)
            BY <2>7 DEF FirstOfCamera
        <3>3. i \in 1 .. Len(list)
            BY DEF N
        <3>4. Firsts(list, i) = Firsts(list, i - 1)
            BY <3>2, <3>3, Counted
        <3>5. Shown(Chs(f[i]), list, i)
            <4> HIDE DEF Chs
            <4> QED BY <2>2, <3>1, <3>4 DEF Shown
        <3> HIDE DEF Chs
        <3> QED BY <2>1, <2>5, <3>5
    <2>8. CASE entry.id # NoText
        <3>1. Chs(f[i]) = KeepFirst(Chs(f[m]), Entry(list, i))
            <4>1. OnePerCamera(Append(p.channels, Entry(list, i))) = KeepFirst(OnePerCamera(p.channels), Entry(list, i))
                <5> HIDE DEF p
                <5> QED BY <2>6, OnePerCameraAppend
            <4> QED BY <2>5, <2>6, <2>8, <4>1
        <3>2. Chs(f[m]) \in Seq(Entries(T))
            <4> HIDE DEF State
            <4> QED BY <2>6, OnePerCameraOf
        <3>3. i \in 1 .. Len(list)
            BY DEF N
        <3>4. Shown(Chs(f[i]), list, i)
            <4> HIDE DEF Chs
            <4> QED BY <2>2, <2>6, <2>8, <3>1, <3>2, <3>3, Round
        <3> HIDE DEF Chs
        <3> QED BY <2>1, <2>5, <3>4
    <2> QED BY <2>7, <2>8
<1>9. Idle(State(f[N])) /\ Shown(Chs(f[N]), list, N)
    <2>1. Nat \subseteq Done
        <3> HIDE DEF Done
        <3> QED BY <1>7, <1>8, NatInd
    <2> HIDE DEF State, Chs
    <2> QED BY <1>1, <2>1
<1>10. ParseChannels(ChannelDocument(list)) = State(f[N]).channels
    <2> DEFINE tag == "StreamingChannelList"
    <2>1. ChannelDocument(list) = Element(tag, f[N])
        BY <1>4, Zenon DEF ChannelDocument, EntryElement, seqs
    <2>2. ReadStart(Parser, tag) = Parser /\ \A p : ReadEnd(p, tag) = p
        BY DEF ReadStart, ReadEnd
    <2>3. tag \in Tags /\ f[N] \in Seq(Events(T))
        BY <1>1, <1>4 DEF Tags
    <2>4. Run(Parser, Element(tag, f[N])) = Run(Parser, f[N])
        <3> HIDE DEF tag
        <3> QED BY <1>5, <2>2, <2>3, RunElement
    <2>5. \A d : ParseChannels(d) = Run(Parser, d).channels
        BY DEF ParseChannels, Run
    <2> QED BY <2>1, <2>4, <2>5
<1>11. State(f[N]).channels \in Seq(Entries(T))
    <2>1. State(f[N]) \in Parsers(T)
        BY <1>1, <1>6
    <2> HIDE DEF State
    <2> QED BY <2>1 DEF Parsers
<1>12. Chs(f[N]) \in Seq(Entries(T)) /\ Distinct(Chs(f[N]))
    <2> HIDE DEF State
    <2> QED BY <1>11, OnePerCameraOf
<1> HIDE DEF State
<1> QED BY <1>9, <1>10, <1>12 DEF N

\* The invariant of the list of channels.
ListInv ==
    /\ DOMAIN channels = 1 .. Len(channels)
    /\ listed \in Lists \cup {<<>>}
    /\ Distinct(channels)
    /\ Shown(channels, listed, Len(listed))

\* It holds of every list a device sends.
LEMMA ListShown ==
    ASSUME NEW list \in Lists
    PROVE  LET chs == OnePerCamera(ParseChannels(ChannelDocument(list)))
           IN DOMAIN chs = 1 .. Len(chs) /\ Distinct(chs) /\ Shown(chs, list, Len(list))
<1> DEFINE T == {NoText, "true"} \cup {list[i].id : i \in DOMAIN list} \cup {list[i].name : i \in DOMAIN list}
           chs == OnePerCamera(ParseChannels(ChannelDocument(list)))
<1>1. list \in Seq(Range(list))
    BY LoginAssumption
<1>2. NoText \in T /\ "true" \in T /\ \A i \in DOMAIN list : list[i].id \in T /\ list[i].name \in T
    OBVIOUS
<1> HIDE DEF T
<1>3. chs \in Seq(Entries(T)) /\ Distinct(chs) /\ Shown(chs, list, Len(list))
    BY <1>1, <1>2, DocumentShown
<1> HIDE DEF chs
<1>4. DOMAIN chs = 1 .. Len(chs)
    BY <1>3, LenProperties
<1> QED BY <1>3, <1>4 DEF chs

\* It holds of no channels.
LEMMA NothingShown == DOMAIN <<>> = 1 .. Len(<<>>) /\ Distinct(<<>>) /\ Shown(<<>>, <<>>, Len(<<>>))
<1>1. Firsts(<<>>, 0) = {}
    BY DEF Firsts, FirstOfCamera
<1>2. Cardinality({}) = 0
    BY FS_EmptySet
<1>3. DOMAIN <<>> = 1 .. Len(<<>>) /\ Len(<<>>) = 0 /\ DOMAIN <<>> = {}
    OBVIOUS
<1>4. Shown(<<>>, <<>>, 0)
    <2>1. 1 .. Len(<<>>) = {}
        BY <1>3
    <2>2. Cardinality(Firsts(<<>>, 0)) = 0
        BY <1>1, <1>2
    <2> QED BY <1>1, <1>3, <2>1, <2>2, XmlAssumption DEF Shown
<1> QED BY <1>3, <1>4 DEF Distinct

\* It holds at every time.
LEMMA ListAlways == Spec => []ListInv
<1>1. Init => ListInv
    BY NothingShown DEF Init, ListInv
<1>2. ListInv /\ [Next]_vars => ListInv'
    <2> SUFFICES ASSUME ListInv, [Next]_vars PROVE ListInv'
        OBVIOUS
    <2>1. CASE UNCHANGED <<channels, listed>>
        BY <2>1 DEF ListInv, Distinct, Shown
    <2>2. CASE channels' = <<>> /\ listed' = <<>>
        BY <2>2, NothingShown DEF ListInv
    <2>3. ASSUME NEW list \in Lists, listed' = list,
                 channels' = OnePerCamera(ParseChannels(ChannelDocument(list)))
          PROVE  ListInv'
        BY <2>3, ListShown DEF ListInv
    <2>4. CASE Requests
        BY <2>1, <2>2, <2>3, <2>4 DEF Requests, listVars
    <2>5. CASE Next /\ ~Requests
        BY <2>1, <2>2, <2>5 DEF Next, User, Connect, Accept, ConnectWith, Reject, ChangeLanguage,
              Disconnect, EditForm, Restart, RenewCert, listVars
    <2>6. CASE UNCHANGED vars
        BY <2>1, <2>6 DEF vars, listVars
    <2> QED BY <2>4, <2>5, <2>6
<1> QED BY <1>1, <1>2, PTL DEF Spec

\* Different cameras have different numbers, when their ids are numbers: sdk_channel_for
\* and the loop over the channels divide them alike.
LEMMA DistinctNumbers ==
    Distinct(channels) => NumbersDistinct
<1> SUFFICES ASSUME Distinct(channels),
                    NEW j \in DOMAIN channels, NEW k \in DOMAIN channels, j # k,
                    {channels[j].id.number, channels[k].id.number} \cap {NoNumber} = {},
                    ~channels[j].id.spaced, ~channels[k].id.spaced
             PROVE  SdkChannelFor(channels[j].id) # SdkChannelFor(channels[k].id)
    BY DEF NumbersDistinct
<1>1. channels[j].id.number # NoNumber /\ channels[k].id.number # NoNumber
    OBVIOUS
<1>2. CameraOf(channels[j].id) # CameraOf(channels[k].id)
    BY DEF Distinct
<1> QED BY <1>1, <1>2 DEF CameraOf, SdkChannelFor

\* Two cells of the grid never play one camera, as long as the ids are numbers,
\* whatever documents the device sends (connect, parse_channels, sdk_channel_for).
THEOREM NumbersDistinctAlways == Spec => []NumbersDistinct
<1>1. ListInv => NumbersDistinct
    BY DistinctNumbers DEF ListInv
<1> QED BY <1>1, ListAlways, PTL

\* The user sees each camera of the list once, in its order, with the id and the
\* name of its first entry, up to the limit (parse_channels, connect).
THEOREM ChannelsAsListedAlways == Spec => []ChannelsAsListed
<1>1. ListInv => ChannelsAsListed
    <2> SUFFICES ASSUME ListInv PROVE ChannelsAsListed
        OBVIOUS
    <2>1. listed \in Seq(Range(listed))
        BY LoginAssumption, EmptySeq DEF ListInv
    <2>2. DOMAIN listed = 1 .. Len(listed) /\ Len(listed) \in Nat
        BY <2>1, LenProperties
    <2>3. Firsts(listed, Len(listed)) = FirstOfCamera(listed)
        BY <2>2 DEF Firsts, FirstOfCamera
    <2> QED BY <2>3 DEF ListInv, Shown, ChannelsAsListed, Entry
<1> QED BY <1>1, ListAlways, PTL
=============================================================================
