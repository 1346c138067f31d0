-------------------------- MODULE ZeroCascadeProofs --------------------------
(* Proofs about ZeroCascade: whatever the SDK accepts or refuses, and for any  *)
(* URLs, probes, devices and handles, the calls for the Canal Zero keep to     *)
(* SdkProtocol, and none of the attempts is skipped.  The first rests on       *)
(* OwnsPreview: the SDK plays the one preview whose handle the object has, but *)
(* for those that the SDK refused to stop; the second on what the list of the  *)
(* attempts contains, and on Progress.                                         *)
EXTENDS ZeroCascade, SequenceTheorems, TLAPS

\* No attempt leaves a preview behind that the object does not know, and outside
\* of a session or without its window there is none (start_zero_channel, Drop).
OwnsPreview ==
    /\ pc \in {"out", "idle", "ensure", "probe", "try", "logout"} /\ window \in BOOLEAN
    /\ zero_channel \in Handle \cup {NoHandle} /\ playing \subseteq Handle
    /\ lost \subseteq playing
    /\ playing \ lost = {zero_channel} \ {NoHandle}
    /\ zero_channel # NoHandle => pc = "idle" /\ window
    /\ pc \in {"ensure", "probe", "try"} => window

\* stop_zero_channel leaves no preview of its own, and takes none that is not.
LEMMA StopPreviewKeeps ==
    ASSUME OwnsPreview, StopPreview
    PROVE  /\ zero_channel' = NoHandle
           /\ playing' \subseteq Handle /\ lost' \subseteq playing' /\ playing' \ lost' = {}
BY CascadeAssumption DEF OwnsPreview, StopPreview, sdkVars

\* Before the first login there is no preview.
LEMMA OwnsInit == Init => OwnsPreview
BY CascadeAssumption DEF Init, OwnsPreview

\* Every step keeps the account of the previews.
LEMMA OwnsNext == OwnsPreview /\ [Next]_vars => OwnsPreview'
<1> SUFFICES ASSUME OwnsPreview, [Next]_vars PROVE OwnsPreview'
    OBVIOUS
<1> USE CascadeAssumption
<1>1. CASE Login
    BY <1>1 DEF Login, OwnsPreview, callVars, sdkVars
<1>2. CASE MapWindow
    BY <1>2 DEF MapWindow, OwnsPreview, callVars, sdkVars
<1>3. CASE StartZeroChannel
    <2>1. pc' \in {"idle", "ensure"} /\ window' = window /\ window
        BY <1>3 DEF StartZeroChannel, OwnsPreview
    <2> QED BY <1>3, <2>1, StopPreviewKeeps DEF StartZeroChannel, OwnsPreview
<1>4. CASE EnsureZeroChannelEnabled
    BY <1>4 DEF EnsureZeroChannelEnabled, OwnsPreview, callVars, sdkVars
<1>5. CASE ZeroMakeKeyFrame
    BY <1>5 DEF ZeroMakeKeyFrame, OwnsPreview, sdkVars
<1>6. CASE Refused
    BY <1>6 DEF Refused, OwnsPreview, sdkVars
<1>7. CASE Accepted
    <2>1. PICK h \in Handle \ playing : zero_channel' = h /\ playing' = playing \cup {h}
        BY <1>7 DEF Accepted
    <2>2. zero_channel = NoHandle /\ lost' = lost /\ window' = window /\ window /\ pc' = "idle"
        BY <1>7 DEF Accepted, OwnsPreview
    <2> QED BY <2>1, <2>2 DEF OwnsPreview
<1>8. CASE StopZeroChannel \/ Drop
    <2>1. pc' \in {"idle", "logout"} /\ window' = window
        BY <1>8 DEF StopZeroChannel, Drop
    <2> QED BY <1>8, <2>1, StopPreviewKeeps DEF StopZeroChannel, Drop, OwnsPreview
<1>9. CASE Logout
    BY <1>9 DEF Logout, OwnsPreview, callVars
<1>10. CASE UNCHANGED vars
    BY <1>10 DEF vars, callVars, sdkVars, OwnsPreview
<1> QED BY <1>1, <1>2, <1>3, <1>4, <1>5, <1>6, <1>7, <1>8, <1>9, <1>10 DEF Next, Call

\* A refused stop leaves a lost preview, an accepted one none, and neither another one
\* that is kept (stop_zero_channel).
LEMMA StopImplements ==
    ASSUME OwnsPreview, StopPreview, pc # "out", pc' # "out", window' = window
    PROVE  Protocol!Stop
<1>1. playing' \ lost' = {} /\ lost \subseteq lost' /\ lost' \subseteq lost \cup (playing \ lost)
    BY CascadeAssumption DEF OwnsPreview, StopPreview, sdkVars
<1> QED BY <1>1 DEF Protocol!Stop, OfZero

\* Every step is one of the protocol, or changes nothing it sees.
LEMMA StepImplements == OwnsPreview /\ OwnsPreview' /\ [Next]_vars => [Protocol!Next]_(Protocol!vars)
<1> SUFFICES ASSUME OwnsPreview, OwnsPreview', [Next]_vars
             PROVE  [Protocol!Next]_(Protocol!vars)
    OBVIOUS
<1> USE DEF Protocol!Next, Protocol!vars
<1>1. CASE Login
    <2>1. UNCHANGED <<playing, lost, window>> /\ pc = "out" /\ pc' = "idle"
        BY <1>1 DEF Login, sdkVars
    <2> QED BY <2>1 DEF Protocol!Login, OfZero
<1>2. CASE MapWindow
    <2>1. playing \ lost = {} /\ UNCHANGED <<pc, playing, lost>> /\ window' = ~window
        BY <1>2, CascadeAssumption DEF MapWindow, OwnsPreview, sdkVars
    <2> QED BY <2>1 DEF Protocol!Open, Protocol!Close, OfZero
<1>3. CASE StartZeroChannel \/ StopZeroChannel \/ Drop
    <2>1. StopPreview /\ pc # "out" /\ pc' # "out" /\ window' = window
        BY <1>3 DEF StartZeroChannel, StopZeroChannel, Drop
    <2> QED BY <2>1, StopImplements
<1>4. CASE EnsureZeroChannelEnabled \/ ZeroMakeKeyFrame \/ Refused
    <2>1. UNCHANGED <<playing, lost, window>> /\ pc # "out" /\ pc' # "out"
        BY <1>4 DEF EnsureZeroChannelEnabled, ZeroMakeKeyFrame, Refused, sdkVars
    <2> QED BY <2>1
<1>5. CASE Accepted
    <2>1. PICK h \in Handle \ playing : zero_channel' = h /\ playing' = playing \cup {h}
        BY <1>5 DEF Accepted
    <2>2. playing \ lost = {} /\ playing' \ lost' = {h} /\ lost' = lost /\ window' = window /\ window
          /\ pc # "out" /\ pc' # "out"
        BY <1>5, <2>1, CascadeAssumption DEF Accepted, OwnsPreview
    <2> QED BY <2>2 DEF Protocol!Start, OfZero
<1>6. CASE Logout
    <2>1. playing \ lost = {} /\ playing' = {} /\ lost' = {} /\ window' = window
          /\ pc # "out" /\ pc' = "out"
        BY <1>6, CascadeAssumption DEF Logout, OwnsPreview
    <2> QED BY <2>1 DEF Protocol!Logout, OfZero
<1>7. CASE UNCHANGED vars
    BY <1>7 DEF vars, sdkVars
<1> QED BY <1>1, <1>2, <1>3, <1>4, <1>5, <1>6, <1>7 DEF Next, Call

\* The SDK plays the preview whose handle the object has and those it refused to
\* stop, and no other (start_zero_channel, stop_zero_channel).
THEOREM OwnsPreviewAlways == Spec => []OwnsPreview
BY OwnsInit, OwnsNext, PTL DEF Spec

\* The search for the Canal Zero never starts a preview beside one it has, plays one
\* outside of its session or without its window, or logs out before it asked for the
\* stop; a preview whose stop was refused ends with the logout (start_zero_channel, Drop).
THEOREM ImplementsProtocol == Spec => ProtocolSpec
<1>1. Init => Protocol!Init
    BY DEF Init, Protocol!Init, OfZero
<1> QED BY <1>1, OwnsPreviewAlways, StepImplements, PTL DEF Spec, ProtocolSpec, Protocol!Spec

-----------------------------------------------------------------------------
(* The list of the attempts                                                *)

Link == {"RTSP", "TCP"}
Attempt ==
    [api : {"V40"}, ch : Nat, stream : {"main", "sub"}, link : Link, pm : Nat, dt : Nat, pt : Nat]
    \cup [api : {"V30"}, ch : Nat, stream : {"main", "sub"}, pt : Nat]
    \cup [api : {"Special"}, url : STRING, link : Link]
    \cup [api : {"SpecialCallback"}, url : STRING]

\* Those that play in the window.
Windowed == {a \in Attempt : a.api # "SpecialCallback"}

\* What is in two lists is in the one after the other.
LEMMA Joined ==
    ASSUME NEW S, NEW s \in Seq(S), NEW t \in Seq(S)
    PROVE  /\ s \o t \in Seq(S) /\ Len(s \o t) = Len(s) + Len(t)
           /\ \A i \in DOMAIN s : (s \o t)[i] = s[i]
           /\ ToSet(s \o t) = ToSet(s) \cup ToSet(t)
<1>1. /\ s \o t \in Seq(S) /\ Len(s \o t) = Len(s) + Len(t)
      /\ DOMAIN s = 1 .. Len(s) /\ DOMAIN t = 1 .. Len(t) /\ DOMAIN (s \o t) = 1 .. Len(s) + Len(t)
      /\ Len(s) \in Nat /\ Len(t) \in Nat
      /\ \A i \in 1 .. Len(s) + Len(t) : (s \o t)[i] = IF i <= Len(s) THEN s[i] ELSE t[i - Len(s)]
  BY ConcatProperties
<1>2. ToSet(s \o t) \subseteq ToSet(s) \cup ToSet(t)
  BY <1>1 DEF ToSet
<1>3. ToSet(s) \subseteq ToSet(s \o t)
  BY <1>1 DEF ToSet
<1>4. ToSet(t) \subseteq ToSet(s \o t)
  <2> SUFFICES ASSUME NEW j \in 1 .. Len(t) PROVE t[j] \in ToSet(s \o t)
    BY <1>1 DEF ToSet
  <2>1. Len(s) + j \in 1 .. Len(s) + Len(t) /\ (s \o t)[Len(s) + j] = t[j]
    BY <1>1
  <2>. QED
    BY <1>1, <2>1 DEF ToSet
<1>. QED
  BY <1>1, <1>2, <1>3, <1>4

\* The fourteen calls for a channel number, and the six of stage [c].
LEMMA VariationsList ==
    ASSUME NEW ch \in Nat
    PROVE  /\ Variations(ch) \in Seq(Windowed) /\ Len(Variations(ch)) = 14
           /\ RtspVariations(ch) \in Seq(Windowed) /\ Len(RtspVariations(ch)) = 6
BY DEF Variations, RtspVariations, V40, V30, Windowed, Attempt, Link

\* What an index of a list points to is in it.
LEMMA Member ==
    ASSUME NEW S, NEW s \in Seq(S), NEW m \in 1 .. Len(s)
    PROVE  s[m] \in S /\ s[m] \in ToSet(s)
BY DEF ToSet

\* Every channel number is offered in all its variations.
LEMMA AllVariationsList ==
    ASSUME NEW chs \in Seq(Nat)
    PROVE  /\ AllVariations(chs) \in Seq(Windowed)
           /\ ToSet(AllVariations(chs)) = UNION {ToSet(Variations(ch)) : ch \in ToSet(chs)}
<1> DEFINE K == 1 .. 14 * Len(chs)
           at(i) == (i - 1) \div 14 + 1
           vr(i) == ((i - 1) % 14) + 1
<1>1. DOMAIN chs = 1 .. Len(chs) /\ Len(chs) \in Nat /\ \A k \in DOMAIN chs : chs[k] \in Nat
  OBVIOUS
<1>2. \A i \in K : at(i) \in DOMAIN chs /\ vr(i) \in 1 .. 14
  BY <1>1
<1>3. ASSUME NEW ch \in Nat, NEW m \in 1 .. 14
      PROVE  Variations(ch)[m] \in ToSet(Variations(ch)) /\ Variations(ch)[m] \in Windowed
  <2>1. Variations(ch) \in Seq(Windowed) /\ DOMAIN Variations(ch) = 1 .. 14 /\ Len(Variations(ch)) = 14
    BY VariationsList
  <2>2. m \in 1 .. Len(Variations(ch))
    BY <2>1
  <2>. QED
    BY <2>1, <2>2, Member
<1>4. AllVariations(chs) = [i \in K |-> Variations(chs[at(i)])[vr(i)]]
  BY DEF AllVariations
<1> HIDE DEF at, vr
<1>5. \A i \in K : chs[at(i)] \in ToSet(chs) /\ chs[at(i)] \in Nat
  BY <1>1, <1>2 DEF ToSet
<1>6. \A i \in K : /\ Variations(chs[at(i)])[vr(i)] \in ToSet(Variations(chs[at(i)]))
                   /\ Variations(chs[at(i)])[vr(i)] \in Windowed
  BY <1>2, <1>3, <1>5
<1>7. AllVariations(chs) \in Seq(Windowed)
  BY <1>1, <1>4, <1>6
<1>8. ToSet(AllVariations(chs)) \subseteq UNION {ToSet(Variations(ch)) : ch \in ToSet(chs)}
  <2> SUFFICES ASSUME NEW i \in K
               PROVE  Variations(chs[at(i)])[vr(i)] \in UNION {ToSet(Variations(ch)) : ch \in ToSet(chs)}
    BY <1>4 DEF ToSet
  <2>. QED
    BY <1>5, <1>6
<1>9. ASSUME NEW k \in DOMAIN chs, NEW m \in 1 .. 14
      PROVE  Variations(chs[k])[m] \in ToSet(AllVariations(chs))
  <2>1. k \in Nat \ {0} /\ m \in Nat \ {0} /\ k <= Len(chs) /\ m <= 14
    BY <1>1
  <2>2. PICK i \in Nat : i = 14 * (k - 1) + m
    BY <2>1
  <2>3. i \in K
    BY <1>1, <2>1, <2>2
  <2>4. at(i) = k /\ vr(i) = m
    <3> DEFINE q == k - 1
               j == m - 1
    <3>1. q \in Nat /\ j \in 0 .. 13 /\ k = q + 1 /\ m = j + 1
      BY <2>1
    <3> HIDE DEF q, j
    <3>2. i - 1 = 14 * q + j
      BY <2>2, <3>1
    <3>3. (14 * q + j) \div 14 = q /\ (14 * q + j) % 14 = j
      BY <3>1
    <3>. QED
      BY <3>1, <3>2, <3>3 DEF at, vr
  <2>5. AllVariations(chs)[i] = Variations(chs[k])[m] /\ i \in DOMAIN AllVariations(chs)
    BY <1>4, <2>3, <2>4
  <2>. QED
    BY <2>5 DEF ToSet
<1>10. UNION {ToSet(Variations(ch)) : ch \in ToSet(chs)} \subseteq ToSet(AllVariations(chs))
  <2> SUFFICES ASSUME NEW k \in DOMAIN chs, NEW m \in DOMAIN Variations(chs[k])
               PROVE  Variations(chs[k])[m] \in ToSet(AllVariations(chs))
    BY DEF ToSet
  <2>1. DOMAIN Variations(chs[k]) = 1 .. 14
    BY <1>1, VariationsList
  <2>. QED
    BY <1>9, <2>1
<1>. QED
  BY <1>7, <1>8, <1>10

\* A candidate that is there already is not added again (cand.contains).
LEMMA Added ==
    ASSUME NEW cand \in Seq(Nat), NEW ch \in Nat
    PROVE  AddNew(cand, ch) \in Seq(Nat) /\ ToSet(AddNew(cand, ch)) = ToSet(cand) \cup {ch}
<1>1. CASE ch \in ToSet(cand)
  BY <1>1 DEF AddNew
<1>2. CASE ch \notin ToSet(cand)
  <2>1. Append(cand, ch) = cand \o <<ch>>
    OBVIOUS
  <2>2. <<ch>> \in Seq(Nat) /\ ToSet(<<ch>>) = {ch}
    BY DEF ToSet
  <2>3. cand \o <<ch>> \in Seq(Nat) /\ ToSet(cand \o <<ch>>) = ToSet(cand) \cup ToSet(<<ch>>)
    BY <2>2, Joined
  <2>. QED
    BY <1>2, <2>1, <2>2, <2>3 DEF AddNew
<1>. QED
  BY <1>1, <1>2

\* The candidates that the doc comment of zero_channel_candidates names.
LEMMA CandidatesList ==
    ASSUME NEW d \in Devices
    PROVE  /\ Candidates(d) \in Seq(Nat)
           /\ ToSet(Candidates(d)) =
                {128 + i : i \in 1 .. d.byZeroChanNum}
                \cup {d.byStartDChan + d.byIPChanNum, d.byStartChan + d.byChanNum + d.byIPChanNum,
                      d.byStartChan + d.byChanNum, d.byStartDChan, 1}
<1>1. /\ d.byZeroChanNum \in Nat /\ d.byStartChan \in Nat /\ d.byChanNum \in Nat
      /\ d.byStartDChan \in Nat /\ d.byIPChanNum \in Nat
  <2>1. d \in [byZeroChanNum : 0 .. 255, byStartChan : 0 .. 255, byChanNum : 0 .. 255,
               byStartDChan : 0 .. 255, byIPChanNum : 0 .. 255]
    BY CascadeAssumption
  <2>. QED
    BY <2>1
<1>n. /\ d.byStartDChan + d.byIPChanNum \in Nat /\ d.byStartChan + d.byChanNum \in Nat
      /\ d.byStartChan + d.byChanNum + d.byIPChanNum \in Nat /\ 1 \in Nat
  BY <1>1
<1> DEFINE zero == [i \in 1 .. d.byZeroChanNum |-> 128 + i]
           cand1 == AddNew(zero, d.byStartDChan + d.byIPChanNum)
           cand2 == AddNew(cand1, d.byStartChan + d.byChanNum + d.byIPChanNum)
           cand3 == AddNew(cand2, d.byStartChan + d.byChanNum)
           cand4 == AddNew(cand3, d.byStartDChan)
<1>2. zero \in Seq(Nat) /\ ToSet(zero) = {128 + i : i \in 1 .. d.byZeroChanNum}
  BY <1>1 DEF ToSet
<1> HIDE DEF zero
<1>3. cand1 \in Seq(Nat) /\ ToSet(cand1) = ToSet(zero) \cup {d.byStartDChan + d.byIPChanNum}
  BY <1>1, <1>n, <1>2, Added
<1> HIDE DEF cand1
<1>4. cand2 \in Seq(Nat) /\ ToSet(cand2) = ToSet(cand1) \cup {d.byStartChan + d.byChanNum + d.byIPChanNum}
  BY <1>1, <1>n, <1>3, Added
<1> HIDE DEF cand2
<1>5. cand3 \in Seq(Nat) /\ ToSet(cand3) = ToSet(cand2) \cup {d.byStartChan + d.byChanNum}
  BY <1>1, <1>n, <1>4, Added
<1> HIDE DEF cand3
<1>6. cand4 \in Seq(Nat) /\ ToSet(cand4) = ToSet(cand3) \cup {d.byStartDChan}
  BY <1>1, <1>n, <1>5, Added
<1> HIDE DEF cand4
<1>7. AddNew(cand4, 1) \in Seq(Nat) /\ ToSet(AddNew(cand4, 1)) = ToSet(cand4) \cup {1}
  BY <1>n, <1>6, Added
<1>8. Candidates(d) = AddNew(cand4, 1)
  BY DEF Candidates, zero, cand1, cand2, cand3, cand4
<1>. QED
  BY <1>2, <1>3, <1>4, <1>5, <1>6, <1>7, <1>8

\* Stages [a] to [c], then [d], then [e]: no attempt that the comments of
\* start_zero_channel name is missing, and the first three play in the window.
LEMMA CascadeList ==
    ASSUME NEW d \in Devices, NEW confirmed \in Seq(Nat)
    PROVE  /\ WindowStages(confirmed) \in Seq(Windowed) /\ Len(WindowStages(confirmed)) > 0
           /\ ToSet(WindowStages(confirmed)) = InWindow(d, confirmed)
           /\ Cascade(d, confirmed) \in Seq(Attempt)
           /\ Len(Cascade(d, confirmed)) >= Len(WindowStages(confirmed))
           /\ \A i \in DOMAIN WindowStages(confirmed) : Cascade(d, confirmed)[i] = WindowStages(confirmed)[i]
           /\ ToSet(Cascade(d, confirmed)) =
                InWindow(d, confirmed) \cup {WithCallback(url) : url \in ToSet(Urls)} \cup General(d)
<1> DEFINE rtsp == [i \in DOMAIN Urls |-> Special(Urls[i], "RTSP")]
           tcp == [i \in DOMAIN Urls |-> Special(Urls[i], "TCP")]
           a == rtsp \o tcp
           b == AllVariations(confirmed)
           ab == a \o b
           abc1 == ab \o RtspVariations(1)
           w == abc1 \o RtspVariations(0)
           e == AllVariations(Candidates(d))
           wd == w \o CallbackStage
<1>1. /\ rtsp \in Seq(Windowed) /\ ToSet(rtsp) = {Special(url, "RTSP") : url \in ToSet(Urls)}
      /\ tcp \in Seq(Windowed) /\ ToSet(tcp) = {Special(url, "TCP") : url \in ToSet(Urls)}
  <2>1. Urls \in Seq(STRING) /\ DOMAIN Urls = 1 .. Len(Urls) /\ Len(Urls) \in Nat
    BY CascadeAssumption
  <2>2. \A url \in STRING : \A link \in Link : Special(url, link) \in Windowed
    BY DEF Special, Windowed, Attempt
  <2>3. ASSUME NEW i \in 1 .. Len(Urls)
        PROVE  Special(Urls[i], "RTSP") \in Windowed /\ Special(Urls[i], "TCP") \in Windowed
    <3>1. Urls[i] \in STRING
      BY <2>1
    <3>. QED
      BY <2>2, <3>1 DEF Link
  <2>4. rtsp \in Seq(Windowed)
    BY <2>1, <2>3
  <2>5. tcp \in Seq(Windowed)
    BY <2>1, <2>3
  <2>. QED
    BY <2>1, <2>4, <2>5 DEF ToSet
<1>2. CallbackStage \in Seq(Attempt) /\ ToSet(CallbackStage) = {WithCallback(url) : url \in ToSet(Urls)}
  BY CascadeAssumption DEF CallbackStage, WithCallback, Attempt, ToSet
<1> HIDE DEF rtsp, tcp
<1>3. a \in Seq(Windowed) /\ ToSet(a) = {Special(url, link) : url \in ToSet(Urls), link \in {"RTSP", "TCP"}}
  BY <1>1, Joined
<1>4. b \in Seq(Windowed) /\ ToSet(b) = UNION {ToSet(Variations(ch)) : ch \in ToSet(confirmed)}
  BY AllVariationsList
<1> HIDE DEF a, b
<1>5. ab \in Seq(Windowed) /\ ToSet(ab) = ToSet(a) \cup ToSet(b)
  BY <1>3, <1>4, Joined
<1> HIDE DEF ab
<1>6. abc1 \in Seq(Windowed) /\ ToSet(abc1) = ToSet(ab) \cup ToSet(RtspVariations(1))
  BY <1>5, VariationsList, Joined
<1> HIDE DEF abc1
<1>7. w \in Seq(Windowed) /\ ToSet(w) = ToSet(abc1) \cup ToSet(RtspVariations(0)) /\ Len(w) > 0
  <2>1. RtspVariations(0) \in Seq(Windowed) /\ Len(RtspVariations(0)) = 6 /\ Len(abc1) \in Nat
    BY <1>6, VariationsList
  <2>2. /\ w \in Seq(Windowed) /\ Len(w) = Len(abc1) + Len(RtspVariations(0))
        /\ ToSet(w) = ToSet(abc1) \cup ToSet(RtspVariations(0))
    BY <1>6, <2>1, Joined
  <2> HIDE DEF w
  <2>n. Len(w) = Len(abc1) + 6 /\ Len(abc1) \in Nat
    BY <2>1, <2>2
  <2>3. Len(w) > 0
    BY <2>n
  <2>. QED
    BY <2>2, <2>3
<1> HIDE DEF w
<1>8. ToSet(w) = InWindow(d, confirmed)
  <2>1. ToSet(w) = ((ToSet(a) \cup ToSet(b)) \cup ToSet(RtspVariations(1))) \cup ToSet(RtspVariations(0))
    BY <1>5, <1>6, <1>7, Zenon
  <2>2. InWindow(d, confirmed) = ToSet(a) \cup ToSet(b) \cup ToSet(RtspVariations(1)) \cup ToSet(RtspVariations(0))
    BY <1>3, <1>4 DEF InWindow
  <2>. QED
    BY <2>1, <2>2
<1>9. w = WindowStages(confirmed)
  BY DEF w, abc1, ab, a, b, rtsp, tcp, WindowStages
<1>10. Windowed \subseteq Attempt
  BY DEF Windowed
<1>11. w \in Seq(Attempt)
  BY <1>7, <1>10
<1>12. e \in Seq(Attempt) /\ ToSet(e) = General(d)
  <2>1. e \in Seq(Windowed) /\ ToSet(e) = UNION {ToSet(Variations(ch)) : ch \in ToSet(Candidates(d))}
    BY CandidatesList, AllVariationsList
  <2>. QED
    BY <1>10, <2>1, CandidatesList DEF General
<1> HIDE DEF e
<1>13. /\ wd \in Seq(Attempt) /\ Len(wd) = Len(w) + Len(CallbackStage)
       /\ \A i \in DOMAIN w : wd[i] = w[i]
       /\ ToSet(wd) = ToSet(w) \cup ToSet(CallbackStage)
  BY <1>2, <1>11, Joined
<1> HIDE DEF wd
<1>14. /\ wd \o e \in Seq(Attempt) /\ Len(wd \o e) = Len(wd) + Len(e)
       /\ \A i \in DOMAIN wd : (wd \o e)[i] = wd[i]
       /\ ToSet(wd \o e) = ToSet(wd) \cup ToSet(e)
  <2>1. wd \in Seq(Attempt) /\ e \in Seq(Attempt)
    BY <1>12, <1>13
  <2>. QED
    BY <2>1, Joined
<1>15. Cascade(d, confirmed) = wd \o e
  BY <1>9 DEF Cascade, wd, e
<1>16. /\ Len(w) \in Nat /\ Len(CallbackStage) \in Nat /\ Len(e) \in Nat
       /\ DOMAIN w = 1 .. Len(w) /\ DOMAIN wd = 1 .. Len(wd)
  BY <1>2, <1>11, <1>12, <1>13
<1>17. DOMAIN w \subseteq DOMAIN wd /\ Len(wd \o e) >= Len(w)
  BY <1>13, <1>14, <1>16
<1>. QED
  BY <1>2, <1>7, <1>8, <1>9, <1>12, <1>13, <1>14, <1>15, <1>17

-----------------------------------------------------------------------------
(* How far a call of start_zero_channel has come                           *)

\* A result is that of the attempts for the device and the confirmed channels that
\* the call began with: neither changes before the next call.
Progress ==
    /\ v30 \in Devices /\ zero_key_ok \in Seq(Nat) /\ probes \in Nat /\ tried \in Nat
    /\ pc \in {"ensure", "probe"} => tried = 0
    /\ pc = "try" => tried < Len(Attempts)
    /\ result = "failed" => pc = "idle" /\ tried = Len(Attempts)
    /\ result = "started" => pc = "idle" /\ tried < Len(Attempts)

LEMMA ProgressInit == Init => Progress
BY EmptySeq DEF Init, Progress

LEMMA ProgressNext == Progress /\ [Next]_vars => Progress'
<1> SUFFICES ASSUME Progress, [Next]_vars PROVE Progress'
  OBVIOUS
<1> USE DEF Progress
<1>1. UNCHANGED <<v30, zero_key_ok>> => Attempts' = Attempts
  BY DEF Attempts
<1>2. CASE Login
  BY <1>2 DEF Login, callVars
<1>3. CASE MapWindow \/ Logout \/ UNCHANGED vars
  BY <1>1, <1>3 DEF MapWindow, Logout, callVars, vars
<1>4. CASE StartZeroChannel
  <2>1. <<>> \in Seq(Nat)
    BY EmptySeq
  <2>. QED
    BY <1>4, <2>1 DEF StartZeroChannel
<1>5. CASE EnsureZeroChannelEnabled
  BY <1>1, <1>5 DEF EnsureZeroChannelEnabled, callVars
<1>6. CASE ZeroMakeKeyFrame
  <2>1. zero_key_ok' \in Seq(Nat) /\ probes' \in Nat
    <3>1. probes' \in 1 .. Len(Probed) /\ Probed[probes'] \in Nat
      BY <1>6, CascadeAssumption DEF ZeroMakeKeyFrame
    <3>2. Append(zero_key_ok, Probed[probes']) \in Seq(Nat)
      BY <3>1
    <3>3. zero_key_ok' \in {zero_key_ok, Append(zero_key_ok, Probed[probes'])}
      BY <1>6 DEF ZeroMakeKeyFrame
    <3>. QED
      BY <3>1, <3>2, <3>3
  <2>2. UNCHANGED <<v30, tried, result>> /\ tried = 0 /\ pc' \in {"try", "probe"} /\ pc = "probe"
    BY <1>6 DEF ZeroMakeKeyFrame
  <2>3. Len(Attempts') > 0
    <3>1. Cascade(v30', zero_key_ok') \in Seq(Attempt)
          /\ Len(WindowStages(zero_key_ok')) > 0
          /\ Len(Cascade(v30', zero_key_ok')) >= Len(WindowStages(zero_key_ok'))
          /\ Len(WindowStages(zero_key_ok')) \in Nat /\ Len(Cascade(v30', zero_key_ok')) \in Nat
      BY <2>1, <2>2, CascadeList
    <3>. QED
      BY <3>1 DEF Attempts
  <2>. QED
    BY <2>1, <2>2, <2>3
<1>7. CASE Refused
  <2>1. UNCHANGED <<v30, zero_key_ok, probes>> /\ tried' = tried + 1 /\ pc = "try" /\ Attempts' = Attempts
    BY <1>1, <1>7 DEF Refused
  <2>2. Len(Attempts) \in Nat
    BY CascadeList DEF Attempts
  <2>3. tried < Len(Attempts) /\ result \notin {"failed", "started"}
    BY <2>1
  <2>4. CASE tried' = Len(Attempts)
    BY <1>7, <2>1, <2>2, <2>3, <2>4 DEF Refused
  <2>5. CASE tried' # Len(Attempts)
    <3>1. tried' < Len(Attempts) /\ UNCHANGED <<pc, result>>
      BY <1>7, <2>1, <2>2, <2>3, <2>5 DEF Refused
    <3>. QED
      BY <2>1, <2>3, <3>1
  <2>. QED
    BY <2>4, <2>5
<1>8. CASE Accepted
  BY <1>1, <1>8 DEF Accepted
<1>9. CASE StopZeroChannel \/ Drop
  BY <1>1, <1>9 DEF StopZeroChannel, Drop
<1>. QED
  BY <1>2, <1>3, <1>4, <1>5, <1>6, <1>7, <1>8, <1>9 DEF Next, Call

\* The user is told that there is no Canal Zero only after every attempt that the
\* comments name was refused, and it is played without a window only after all of
\* those in the window were (start_zero_channel).
THEOREM NothingSkippedAlways == Spec => []NothingSkipped
<1>1. Progress => NothingSkipped
  <2> SUFFICES ASSUME Progress PROVE NothingSkipped
    OBVIOUS
  <2> DEFINE refused == {Attempts[i] : i \in 1 .. tried}
             w == WindowStages(zero_key_ok)
  <2>1. /\ w \in Seq(Windowed) /\ ToSet(w) = InWindow(v30, zero_key_ok)
        /\ Attempts \in Seq(Attempt) /\ Len(Attempts) >= Len(w)
        /\ \A i \in DOMAIN w : Attempts[i] = w[i]
        /\ ToSet(Attempts) = InWindow(v30, zero_key_ok)
             \cup {WithCallback(url) : url \in ToSet(Urls)} \cup General(v30)
    BY CascadeList DEF Attempts, Progress
  <2>2. tried \in Nat /\ Len(Attempts) \in Nat /\ Len(w) \in Nat
        /\ DOMAIN Attempts = 1 .. Len(Attempts) /\ DOMAIN w = 1 .. Len(w)
    BY <2>1 DEF Progress
  <2> HIDE DEF w
  <2>3. ASSUME result = "failed" PROVE ToSet(Attempts) \subseteq refused
    BY <2>2, <2>3 DEF Progress, ToSet
  <2>4. ASSUME result = "started", Attempts[tried + 1].api = "SpecialCallback"
        PROVE  ToSet(w) \subseteq refused
    <3>1. tried + 1 \notin DOMAIN w
      <4> SUFFICES ASSUME tried + 1 \in DOMAIN w PROVE FALSE
        OBVIOUS
      <4>1. w[tried + 1] \in Windowed
        BY <2>1, <2>2, Member
      <4>. QED
        BY <2>1, <2>4, <4>1 DEF Windowed
    <3>2. Len(w) <= tried
      BY <2>2, <3>1
    <3>3. ASSUME NEW i \in DOMAIN w PROVE w[i] \in refused
      <4>1. i \in 1 .. tried /\ w[i] = Attempts[i]
        BY <2>1, <2>2, <3>2
      <4>. QED
        BY <4>1
    <3>. QED
      BY <3>3 DEF ToSet
  <2>5. result = "failed" => InWindow(v30, zero_key_ok) \cup General(v30)
                               \cup {WithCallback(url) : url \in ToSet(Urls)} \subseteq refused
    BY <2>1, <2>3
  <2>6. result = "started" /\ Attempts[tried + 1].api = "SpecialCallback" =>
           InWindow(v30, zero_key_ok) \subseteq refused
    BY <2>1, <2>4
  <2>. QED
    BY <2>5, <2>6 DEF NothingSkipped
<1>. QED
  BY <1>1, ProgressInit, ProgressNext, PTL DEF Spec
=============================================================================
