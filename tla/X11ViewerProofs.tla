-------------------------- MODULE X11ViewerProofs --------------------------
(***************************************************************************)
(* Proofs about X11Viewer, for every number of channels, every set of      *)
(* layouts and capacities, and every combination of environment failures.  *)
(***************************************************************************)
EXTENDS X11Viewer, FiniteSetTheorems, TLAPS

-----------------------------------------------------------------------------
(* Type correctness                                                        *)

LEMMA KeyFacts ==
    /\ Channel \subseteq Cell
    /\ \A l \in Layout : Slots(l) \subseteq Cell
    /\ ZcSlot \notin Cell /\ None \notin Channel
    /\ Cell \subseteq Int
    /\ 0 \in Channel
BY ViewerAssumption DEF Channel, Cell, Slots, ZcSlot, None

\* A refused stop leaves its preview playing; nothing else does.
LEMMA StopFacts ==
    ASSUME NEW P, StopRealPlay(P)
    PROVE  /\ previews' = previews \ P
           /\ lost \subseteq lost' /\ lost' \subseteq lost \cup P
BY DEF StopRealPlay, Refusals

LEMMA ZeroPreviewsOnly == ZeroPreviews \subseteq {ZeroPreview}
BY DEF ZeroPreviews

\* A start finds no entry of its channel, and so has nothing to stop first.
LEMMA StartFacts ==
    ASSUME NEW c, NEW k, NEW ok, c \notin MultiActive, StartChannel(c, k, ok)
    PROVE  \E new \in SUBSET {[ch |-> c, win |-> k]} :
              /\ chans' = chans \cup new /\ previews' = previews \cup new
              /\ lost' = lost
<1>1. {p \in chans : p.ch = c} = {}
  BY DEF MultiActive
<1>2. \A R \in Refusals({}) : R = {}
  BY DEF Refusals
<1>. QED
  BY <1>1, <1>2 DEF StartChannel

\* A step of a teardown, of the panel or of a frame leaves every variable in
\* its type; the steps that build a function are spelled out.
LEMMA TypeStep == TypeOK /\ [Next]_vars => TypeOK'
<1> SUFFICES ASSUME TypeOK, [Next]_vars PROVE TypeOK'
  OBVIOUS
<1> USE ViewerAssumption, KeyFacts DEF TypeOK, uiVars, ctlVars, x11Vars, sdkVars, Outcome
<1>1. CASE UNCHANGED vars
  BY <1>1 DEF vars
<1>2. CASE Connect
  BY <1>2 DEF Connect, ObtainXid, NoSlots
<1>3. CASE Exit
  BY <1>3 DEF Exit, NoSlots
<1>4. CASE BeginFrame
  BY <1>4 DEF BeginFrame, ObtainXid
<1>5. CASE BeginLayoutChange
  BY <1>5, ZenonT(60) DEF BeginLayoutChange, NewSlots, ObtainXid, LiveChannels, Assigned
<1>6. CASE NoClick \/ EndStart \/ EndPending
  BY <1>6 DEF NoClick, EndStart, EndPending
<1>7. CASE View
  BY <1>7 DEF View, Ensure, HideExcept
<1>8. CASE DropChannels \/ DropZero \/ DropSession
  <2>1. CASE DropChannels
    BY <2>1, StopFacts DEF DropChannels
  <2>2. CASE DropZero
    <3>1. previews' \subseteq previews /\ lost' \subseteq lost \cup {ZeroPreview}
      BY <2>2, StopFacts, ZeroPreviewsOnly DEF DropZero
    <3>. QED
      BY <2>2, <3>1 DEF DropZero
  <2>3. CASE DropSession
    BY <2>3 DEF DropSession
  <2>. QED
    BY <1>8, <2>1, <2>2, <2>3
<1>9. CASE DropWindows
  BY <1>9 DEF DropWindows, NoWindows
<1>10. CASE StartPendingZero
  <2>1. /\ pc' \in {"pending", ret} /\ scan' \in {scan, pending}
        /\ zeroFlag' \in BOOLEAN /\ zero' \in BOOLEAN
        /\ previews' \subseteq previews \cup {ZeroPreview} /\ lost' = lost
    BY <1>10 DEF StartPendingZero
  <2>. QED
    BY <1>10, <2>1 DEF StartPendingZero
<1>11. ASSUME NEW c \in Channel, StartStream(c) PROVE TypeOK'
  BY <1>11, ZenonT(60) DEF StartStream, NewMulti, LoginOutcome
<1>12. ASSUME NEW c \in Channel, StartPending(c) PROVE TypeOK'
  <2>1. KeysOf(c) \subseteq Cell
    BY DEF KeysOf
  <2>2. ASSUME NEW k \in Cell, NEW ok, c \notin MultiActive, StartChannel(c, k, ok)
        PROVE  /\ chans' \subseteq Preview
               /\ previews' \cup lost' \subseteq Preview \cup {ZeroPreview}
    <3>1. [ch |-> c, win |-> k] \in Preview
      BY DEF Preview
    <3>. QED
      BY <2>2, <3>1, StartFacts
  <2>3. chans' \subseteq Preview /\ previews' \cup lost' \subseteq Preview \cup {ZeroPreview}
    BY <1>12, <2>1, <2>2, ZenonT(60) DEF StartPending
  <2>4. pending' \subseteq Channel
    BY <1>12 DEF StartPending
  <2>. QED
    BY <1>12, <2>3, <2>4 DEF StartPending
<1>13. CASE Disconnect
  BY <1>13 DEF Disconnect, NoSlots
<1>14. CASE StartAll
  <2>1. CASE UNCHANGED <<slots, todo, after>> /\ pc' = "panicked"
    BY <1>14, <2>1 DEF StartAll
  <2>2. CASE pc' = "start"
    <3>1. /\ DOMAIN slots' = DOMAIN slots
          /\ slots' \in [DOMAIN slots -> Channel \cup {None}]
          /\ todo' \subseteq Channel /\ after' = "view"
      BY <1>14, <2>2 DEF StartAll, Unassigned
    <3>. QED
      BY <1>14, <2>2, <3>1 DEF StartAll
  <2>. QED
    BY <1>14, <2>1, <2>2 DEF StartAll
<1>15. CASE StopAll
  <2>1. win' \in [Key -> {"none", "hidden", "shown"}]
    BY <1>15 DEF StopAll, StopStreams
  <2>. QED
    BY <1>15, <2>1, StopFacts DEF StopAll, StopStreams, NoSlots
<1>16. CASE ZeroOn
  <2>1. win' \in [Key -> {"none", "hidden", "shown"}]
    BY <1>16 DEF ZeroOn, HideExcept
  <2>2. \E old \in SUBSET chans : chans' = chans \ old /\ StopRealPlay(old)
    BY <1>16 DEF ZeroOn
  <2>3. /\ chans' \subseteq chans /\ previews' \subseteq previews
        /\ lost' \subseteq lost \cup chans
    BY <2>2, StopFacts
  <2>4. session' \in BOOLEAN /\ orphan' \in BOOLEAN /\ manager' \in BOOLEAN /\ zeroFlag' \in BOOLEAN
    BY <1>16 DEF ZeroOn, NewMulti, LoginOutcome
  <2>. QED
    BY <1>16, <2>1, <2>3, <2>4 DEF ZeroOn, NoSlots
<1>17. CASE ZeroOff
  <2>1. previews' \subseteq previews /\ lost' \subseteq lost \cup {ZeroPreview}
    BY <1>17, StopFacts, ZeroPreviewsOnly DEF ZeroOff
  <2>. QED
    BY <1>17, <2>1 DEF ZeroOff
<1>23. CASE ZeroOffWindow
  BY <1>23 DEF ZeroOffWindow, NoSlots
<1>18. ASSUME NEW l \in Layout, SelectLayout(l) PROVE TypeOK'
  BY <1>18 DEF SelectLayout
<1>19. ASSUME NEW c \in Channel, ClickChannel(c) PROVE TypeOK'
  BY <1>19 DEF ClickChannel
<1>20. ASSUME NEW c \in Channel, CheckChannel(c) PROVE TypeOK'
  BY <1>20 DEF CheckChannel
<1>21. ASSUME NEW c \in Channel, UncheckChannel(c) PROVE TypeOK'
  <2>1. win' \in [Key -> {"none", "hidden", "shown"}]
    BY <1>21 DEF UncheckChannel, StopStreams
  <2>2. /\ chans' \subseteq chans /\ previews' \subseteq previews
        /\ lost' \subseteq lost \cup chans
    BY <1>21, StopFacts DEF UncheckChannel, StopStreams
  <2>. QED
    BY <1>21, <2>1, <2>2 DEF UncheckChannel, StopStreams
<1>22. CASE Stopped
  BY <1>22 DEF Stopped, vars
<1>. QED
  BY <1>1, <1>2, <1>3, <1>4, <1>5, <1>6, <1>7, <1>8, <1>9, <1>10, <1>11, <1>12,
     <1>13, <1>14, <1>15, <1>16, <1>17, <1>18, <1>19, <1>20, <1>21, <1>22, <1>23
  DEF Next, System, UserClick

\* The state of the viewer keeps its types, for every value of the constants.
THEOREM TypeCorrect == Spec => []TypeOK
<1>1. Init => TypeOK
  BY ViewerAssumption DEF Init, TypeOK, NoSlots, NoWindows
<1>. QED
  BY <1>1, TypeStep, PTL DEF Spec

-----------------------------------------------------------------------------
(* grid_slots never shows a channel twice                                  *)

\* The rank of an element tells it from every other element of a finite set.
LEMMA RankInjective ==
    ASSUME NEW S \in SUBSET Int, IsFiniteSet(S), NEW x \in S, NEW y \in S,
           Rank(x, S) = Rank(y, S)
    PROVE  x = y
<1>1. ASSUME NEW a \in S, NEW b \in S, a < b PROVE Rank(a, S) # Rank(b, S)
  <2> DEFINE A == {z \in S : z < a}
             B == {z \in S : z < b}
  <2>1. A \subseteq B /\ a \in B /\ a \notin A
    <3>1. S \subseteq Int
      OBVIOUS
    <3>2. \A z \in S : z < a => z < b
      BY <1>1, <3>1
    <3>3. ~(a < a)
      BY <3>1
    <3>. QED
      BY <1>1, <3>2, <3>3
  <2>2. IsFiniteSet(B)
    <3>1. B \in SUBSET S
      OBVIOUS
    <3>. QED
      BY <3>1, FS_Subset
  <2>3. A \in SUBSET B /\ A # B
    BY <2>1
  <2>4. Cardinality(A) # Cardinality(B)
    <3> HIDE DEF A, B
    <3>. QED
      BY <2>2, <2>3, FS_Subset
  <2>. QED
    BY <2>4 DEF Rank
<1>2. x \in Int /\ y \in Int
  OBVIOUS
<1>3. ~(x < y) /\ ~(y < x)
  BY <1>1
<1>. QED
  BY <1>2, <1>3

LEMMA SlotsFinite == ASSUME NEW l \in Layout PROVE IsFiniteSet(Slots(l))
BY ViewerAssumption, FS_Interval DEF Slots

\* The steps that assign slots do so one channel to one slot.
LEMMA SlotsStep == TypeOK /\ SlotsDistinct /\ [Next]_vars => SlotsDistinct'
<1> SUFFICES ASSUME TypeOK, SlotsDistinct, [Next]_vars PROVE SlotsDistinct'
  OBVIOUS
<1> USE DEF TypeOK, SlotsDistinct, uiVars
<1>1. CASE UNCHANGED <<slots, saved>>
  BY <1>1
<1>2. CASE Connect \/ Exit \/ Disconnect
  BY <1>2 DEF Connect, Exit, Disconnect, NoSlots
<1>3. CASE BeginLayoutChange
  <2>1. /\ slots' = [s \in Slots(layout) |->
                       IF \E c \in LiveChannels : NewPlace(c) = s
                       THEN CHOOSE c \in LiveChannels : NewPlace(c) = s ELSE None]
        /\ saved' = saved
    BY <1>3 DEF BeginLayoutChange, NewSlots
  <2>2. \A s \in Slots(layout) : slots'[s] = None \/ NewPlace(slots'[s]) = s
    BY <2>1
  <2>. QED
    BY <2>1, <2>2
<1>4. CASE StopAll \/ ZeroOn \/ ZeroOffWindow
  BY <1>4 DEF StopAll, ZeroOn, ZeroOffWindow, NoSlots
<1>5. ASSUME NEW c \in Channel, CheckChannel(c) PROVE SlotsDistinct'
  BY <1>5 DEF CheckChannel, IsAssigned, Assigned, LeastEmpty
<1>6. ASSUME NEW c \in Channel, UncheckChannel(c) PROVE SlotsDistinct'
  BY <1>6 DEF UncheckChannel
<1>7. CASE StartAll /\ pc' = "start"
  <2>1. /\ slots' = [s \in DOMAIN slots |->
                       IF s \in EmptySlots /\ \E c \in Unassigned : Takes(c, s)
                       THEN CHOOSE c \in Unassigned : Takes(c, s) ELSE slots[s]]
        /\ saved' = saved
    BY <1>7 DEF StartAll
  <2>2. IsFiniteSet(EmptySlots) /\ EmptySlots \in SUBSET Int
    BY SlotsFinite, FS_Subset, KeyFacts DEF EmptySlots
  <2>3. \A c \in Unassigned, s, t \in EmptySlots : Takes(c, s) /\ Takes(c, t) => s = t
    BY <2>2, RankInjective DEF Takes
  <2>4. \A s \in DOMAIN slots : slots[s] \notin Unassigned
    BY KeyFacts DEF Unassigned, IsAssigned, Assigned
  <2>5. \A s \in DOMAIN slots :
           \/ s \in EmptySlots /\ slots'[s] \in Unassigned /\ Takes(slots'[s], s)
           \/ slots'[s] = slots[s]
    BY <2>1
  <2>. QED
    BY <2>1, <2>3, <2>4, <2>5
<1>8. CASE StartAll /\ pc' # "start"
  BY <1>8 DEF StartAll
<1>. QED
  <2>1. CASE View \/ Stopped \/ UNCHANGED vars \/ NoClick \/ BeginFrame \/ ZeroOff
    BY <2>1, <1>1 DEF View, Stopped, vars, NoClick, BeginFrame, ZeroOff
  <2>2. CASE DropChannels \/ DropZero \/ DropSession \/ DropWindows
    BY <2>2, <1>1 DEF DropChannels, DropZero, DropSession, DropWindows
  <2>3. CASE EndStart \/ EndPending \/ StartPendingZero
    BY <2>3, <1>1 DEF EndStart, EndPending, StartPendingZero, ZeroReady
  <2>4. CASE \E c \in Channel : StartStream(c) \/ StartPending(c) \/ ClickChannel(c)
    BY <2>4, <1>1 DEF StartStream, StartPending, ClickChannel
  <2>5. CASE \E l \in Layout : SelectLayout(l)
    BY <2>5, <1>1 DEF SelectLayout
  <2>. QED
    BY <1>2, <1>3, <1>4, <1>5, <1>6, <1>7, <1>8, <2>1, <2>2, <2>3, <2>4, <2>5
    DEF Next, System, UserClick

-----------------------------------------------------------------------------
(* The inductive invariant, part by part                                   *)

LEMMA PreviewFacts ==
    /\ ZeroPreview \notin Preview /\ ZeroPreview.win = ZcSlot
    /\ ZeroPreview.ch \notin Channel
    /\ \A p \in Preview : p.ch \in Channel /\ p.win \in Cell /\ p.win # ZcSlot
BY KeyFacts, ViewerAssumption DEF ZeroPreview, Preview, ZcSlot, Channel

LEMMA ControlStep == TypeOK /\ ControlInv /\ [Next]_vars => ControlInv'
<1> SUFFICES ASSUME TypeOK, ControlInv, [Next]_vars PROVE ControlInv'
  OBVIOUS
<1> USE DEF ControlInv, uiVars, x11Vars, sdkVars
<1>1. CASE UNCHANGED vars \/ Stopped
  BY <1>1 DEF vars, ctlVars, Stopped
<1>2. CASE Connect \/ Exit \/ BeginFrame \/ BeginLayoutChange \/ Disconnect
  BY <1>2 DEF Connect, Exit, BeginFrame, BeginLayoutChange, Disconnect, ctlVars
<1>3. CASE NoClick \/ View \/ EndStart
  BY <1>3 DEF TypeOK, NoClick, View, EndStart
<1>4. CASE DropChannels \/ DropZero \/ DropSession \/ DropWindows
  BY <1>4 DEF DropChannels, DropZero, DropSession, DropWindows
<1>5. CASE EndPending
  BY <1>5 DEF TypeOK, EndPending
<1>6. CASE StartPendingZero
  BY <1>6 DEF TypeOK, StartPendingZero, ZeroReady
<1>7. CASE StartAll \/ StopAll \/ ZeroOn \/ ZeroOff \/ ZeroOffWindow
  BY <1>7 DEF StartAll, StopAll, ZeroOn, ZeroOff, ZeroOffWindow
<1>8. ASSUME NEW c \in Channel, StartStream(c) PROVE ControlInv'
  <2>1. pc = "start" /\ scan' = scan /\ pc' \in {"start", "zeroPending"}
    BY <1>8 DEF StartStream
  <2>. QED
    BY <2>1
<1>11. ASSUME NEW c \in Channel, StartPending(c) PROVE ControlInv'
  <2>1. /\ pc = "pending" /\ pc' = pc /\ session' = session
        /\ scan' = scan \ {c} /\ pending \ {c} \subseteq pending'
    BY <1>11 DEF StartPending
  <2>. QED
    BY <2>1
<1>9. ASSUME NEW c \in Channel, ClickChannel(c) \/ CheckChannel(c) \/ UncheckChannel(c)
      PROVE  ControlInv'
  BY <1>9 DEF ClickChannel, CheckChannel, UncheckChannel
<1>10. ASSUME NEW l \in Layout, SelectLayout(l) PROVE ControlInv'
  BY <1>10 DEF SelectLayout
<1>. QED
  BY <1>1, <1>2, <1>3, <1>4, <1>5, <1>6, <1>7, <1>8, <1>9, <1>10, <1>11
  DEF Next, System, UserClick

LEMMA LoginStep == TypeOK /\ ControlInv /\ LoginInv /\ [Next]_vars => LoginInv'
<1> SUFFICES ASSUME TypeOK, ControlInv, LoginInv, [Next]_vars PROVE LoginInv'
  OBVIOUS
<1> USE DEF LoginInv, uiVars, x11Vars, sdkVars
<1>1. CASE UNCHANGED vars \/ Stopped
  BY <1>1 DEF vars, ctlVars, Stopped
<1>2. CASE Connect \/ Exit \/ BeginFrame \/ BeginLayoutChange \/ Disconnect
  BY <1>2 DEF Connect, Exit, BeginFrame, BeginLayoutChange, Disconnect, ctlVars
<1>3. CASE NoClick \/ View \/ EndStart \/ EndPending
  BY <1>3 DEF NoClick, View, EndStart, EndPending
<1>4. CASE DropChannels \/ DropZero \/ DropSession
  BY <1>4 DEF DropChannels, DropZero, DropSession
<1>5. CASE DropWindows
  BY <1>5 DEF DropWindows, ControlInv
<1>6. CASE StartPendingZero
  BY <1>6 DEF StartPendingZero, ZeroReady
<1>7. CASE StartAll \/ StopAll \/ ZeroOn \/ ZeroOff \/ ZeroOffWindow
  BY <1>7 DEF StartAll, StopAll, ZeroOn, ZeroOff, ZeroOffWindow
<1>8. ASSUME NEW c \in Channel, StartStream(c) \/ StartPending(c) PROVE LoginInv'
  BY <1>8 DEF StartStream, StartPending
<1>9. ASSUME NEW c \in Channel, ClickChannel(c) \/ CheckChannel(c) \/ UncheckChannel(c)
      PROVE  LoginInv'
  BY <1>9 DEF ClickChannel, CheckChannel, UncheckChannel
<1>10. ASSUME NEW l \in Layout, SelectLayout(l) PROVE LoginInv'
  BY <1>10 DEF SelectLayout
<1>. QED
  BY <1>1, <1>2, <1>3, <1>4, <1>5, <1>6, <1>7, <1>8, <1>9, <1>10
  DEF Next, System, UserClick

LEMMA ZeroStep ==
    TypeOK /\ ControlInv /\ ZeroNeedsCheckbox /\ [Next]_vars => ZeroNeedsCheckbox'
<1> SUFFICES ASSUME TypeOK, ControlInv, ZeroNeedsCheckbox, [Next]_vars
             PROVE  ZeroNeedsCheckbox'
  OBVIOUS
<1> USE DEF ZeroNeedsCheckbox, uiVars, sdkVars
<1>1. CASE UNCHANGED <<zero, zeroFlag>>
  BY <1>1
<1>2. CASE DropZero \/ DropWindows
  BY <1>2 DEF DropZero, DropWindows, ControlInv
<1>3. CASE ZeroOn \/ ZeroOff \/ ZeroOffWindow
  BY <1>3 DEF ZeroOn, ZeroOff, ZeroOffWindow, ControlInv
<1>4. CASE StartPendingZero
  <2>1. UNCHANGED <<zero, zeroFlag>> \/ (zero' = zeroFlag')
    BY <1>4 DEF StartPendingZero, ZeroReady
  <2>. QED
    BY <2>1
<1>. QED
  <2>1. CASE UNCHANGED vars \/ Stopped \/ Connect \/ Exit \/ BeginFrame \/ BeginLayoutChange
    BY <2>1, <1>1 DEF vars, Stopped, Connect, Exit, BeginFrame, BeginLayoutChange
  <2>2. CASE NoClick \/ View \/ EndStart \/ EndPending \/ DropChannels \/ DropSession
    BY <2>2, <1>1 DEF NoClick, View, EndStart, EndPending, DropChannels, DropSession
  <2>3. CASE Disconnect \/ StartAll \/ StopAll
    BY <2>3, <1>1 DEF Disconnect, StartAll, StopAll
  <2>4. CASE \E c \in Channel : StartStream(c) \/ StartPending(c)
    BY <2>4, <1>1 DEF StartStream, StartPending
  <2>5. CASE \/ \E c \in Channel : ClickChannel(c) \/ CheckChannel(c) \/ UncheckChannel(c)
             \/ \E l \in Layout : SelectLayout(l)
    BY <2>5, <1>1 DEF ClickChannel, CheckChannel, UncheckChannel, SelectLayout
  <2>. QED
    BY <1>2, <1>3, <1>4, <2>1, <2>2, <2>3, <2>4, <2>5 DEF Next, System, UserClick

\* A channel leaves rx only with its preview and its pending entry.
LEMMA StreamsStep ==
    TypeOK /\ IInv /\ [Next]_vars => StreamsOwned'
<1> SUFFICES ASSUME TypeOK, IInv, [Next]_vars PROVE StreamsOwned'
  OBVIOUS
<1> USE DEF IInv, StreamsOwned, MultiActive, uiVars, sdkVars
<1>1. CASE UNCHANGED <<chans, pending, rx>>
  BY <1>1
<1>2. CASE Connect
  <2>1. pending = {} /\ chans = {}
    BY <1>2 DEF Connect, LoginInv, PreviewInv, NoOrphanPreview
  <2>. QED
    BY <1>2, <2>1 DEF Connect
<1>3. CASE DropChannels \/ DropWindows
  BY <1>3 DEF DropChannels, DropWindows, ControlInv
<1>4. CASE StopAll
  BY <1>4 DEF StopAll, StopStreams
<1>5. ASSUME NEW c \in Channel, UncheckChannel(c) PROVE StreamsOwned'
  BY <1>5 DEF UncheckChannel, StopStreams
<1>6. CASE ZeroOn
  BY <1>6 DEF ZeroOn
<1>7. ASSUME NEW c \in Channel, StartStream(c) PROVE StreamsOwned'
  <2>1. chans' = chans /\ rx \subseteq rx'
    BY <1>7 DEF StartStream
  <2>2. pending' = pending \/ (pending' = pending \cup {c} /\ rx' = rx \cup {c})
    BY <1>7 DEF StartStream
  <2>. QED
    BY <2>1, <2>2
<1>8. ASSUME NEW c \in Channel, StartPending(c) PROVE StreamsOwned'
  <2>1. pending' \subseteq pending /\ rx' = rx /\ c \in rx
    BY <1>8 DEF StartPending, ControlInv
  <2>2. CASE chans' = chans
    BY <2>1, <2>2
  <2>3. ASSUME NEW k \in KeysOf(c), NEW ok \in Outcome("play"), StartChannel(c, k, ok)
        PROVE  StreamsOwned'
    <3>1. \/ chans' = {p \in chans : p.ch # c}
          \/ chans' = {p \in chans : p.ch # c} \cup {[ch |-> c, win |-> k]}
      BY <2>3 DEF StartChannel
    <3>. QED
      BY <2>1, <3>1
  <2>. QED
    BY <1>8, <2>2, <2>3 DEF StartPending
<1>. QED
  <2>1. CASE UNCHANGED vars \/ Stopped \/ Exit \/ BeginFrame \/ BeginLayoutChange
    BY <2>1, <1>1 DEF vars, Stopped, Exit, BeginFrame, BeginLayoutChange
  <2>2. CASE NoClick \/ View \/ EndStart \/ EndPending \/ DropZero \/ DropSession
    BY <2>2, <1>1 DEF NoClick, View, EndStart, EndPending, DropZero, DropSession
  <2>3. CASE Disconnect \/ StartAll \/ ZeroOff \/ ZeroOffWindow \/ StartPendingZero
    BY <2>3, <1>1 DEF Disconnect, StartAll, ZeroOff, ZeroOffWindow, StartPendingZero, ZeroReady
  <2>4. CASE \/ \E c \in Channel : ClickChannel(c) \/ CheckChannel(c)
             \/ \E l \in Layout : SelectLayout(l)
    BY <2>4, <1>1 DEF ClickChannel, CheckChannel, SelectLayout
  <2>. QED
    BY <1>2, <1>3, <1>4, <1>5, <1>6, <1>7, <1>8, <2>1, <2>2, <2>3, <2>4
    DEF Next, System, UserClick

\* stop_stream after the slot was cleared destroys no window: no slot holds the
\* channel any more.
LEMMA ClearedSlotsKeepWindows ==
    ASSUME TypeOK, NEW S, NEW sl, \A s \in DOMAIN sl : sl[s] \notin S, StopStreams(S, sl)
    PROVE  win' = win
BY DEF TypeOK, StopStreams

\* Previews only ever leave the SDK together with their entry in the viewer,
\* and windows and sessions only after the previews.
LEMMA PreviewStep == TypeOK /\ IInv /\ [Next]_vars => PreviewInv'
<1> SUFFICES ASSUME TypeOK, IInv, [Next]_vars PROVE PreviewInv'
  OBVIOUS
<1> USE PreviewFacts
    DEF IInv, PreviewInv, NoOrphanPreview, PreviewWindowExists, ZeroPreviews,
        uiVars, sdkVars, x11Vars
<1>0. chans \subseteq Preview /\ ZeroPreview \notin chans /\ win \in [Key -> {"none", "hidden", "shown"}]
  BY DEF TypeOK
<1>1. CASE UNCHANGED <<session, chans, zero, previews, lost, win>>
  BY <1>1
<1>2. CASE View
  <2>1. \A p \in previews : p.win \in Key
    BY DEF TypeOK, Key
  <2>2. \A k \in Key : win[k] # "none" => win'[k] # "none"
    BY <1>0, <1>2 DEF View, Ensure, HideExcept
  <2>. QED
    BY <1>2, <2>1, <2>2 DEF View
<1>3. CASE DropChannels
  BY <1>0, <1>3, StopFacts DEF DropChannels
<1>4. CASE DropZero \/ DropSession \/ DropWindows
  BY <1>4, StopFacts DEF DropZero, DropSession, DropWindows, ControlInv
<1>5. CASE StopAll
  <2>1. win' = win
    BY <1>5, ClearedSlotsKeepWindows, KeyFacts DEF StopAll, NoSlots, Assigned
  <2>. QED
    BY <1>0, <1>5, <2>1, StopFacts DEF StopAll, StopStreams
<1>6. ASSUME NEW c \in Channel, UncheckChannel(c) PROVE PreviewInv'
  <2>1. \A s \in DOMAIN slots' : slots'[s] \notin {c}
    BY <1>6, KeyFacts DEF UncheckChannel, SlotsDistinct
  <2>2. win' = win
    BY <1>6, <2>1, ClearedSlotsKeepWindows DEF UncheckChannel
  <2>. QED
    BY <1>0, <1>6, <2>2, StopFacts DEF UncheckChannel, StopStreams
<1>7. CASE ZeroOn
  <2>1. \A k \in Key : win[k] # "none" => win'[k] # "none"
    BY <1>0, <1>7 DEF ZeroOn, HideExcept
  <2>2. \A p \in previews : p.win \in Key
    BY DEF TypeOK, Key
  <2>3. \E old \in SUBSET chans :
           /\ chans' = chans \ old /\ previews' = previews \ old
           /\ lost' \subseteq lost \cup old
    BY <1>7, StopFacts DEF ZeroOn
  <2>4. zero' = zero /\ (session => session')
    BY <1>7 DEF ZeroOn, NewMulti
  <2>. QED
    BY <1>0, <2>1, <2>2, <2>3, <2>4
<1>8. CASE ZeroOff
  <2>1. UNCHANGED <<chans, win, session>> /\ zero' = FALSE
    BY <1>8 DEF ZeroOff
  <2>2. previews' = previews \ ZeroPreviews /\ lost' \subseteq lost \cup ZeroPreviews
    BY <1>8, StopFacts DEF ZeroOff
  <2>. QED
    BY <1>0, <2>1, <2>2
<1>12. CASE ZeroOffWindow
  <2>1. ~zero /\ UNCHANGED sdkVars /\ win' = [win EXCEPT ![ZcSlot] = "none"]
    BY <1>12 DEF ZeroOffWindow, ControlInv
  <2>2. \A p \in chans : win'[p.win] = win[p.win]
    BY <1>0, <2>1 DEF Key
  <2>. QED
    BY <1>0, <2>1, <2>2
<1>9. ASSUME NEW c \in Channel, StartStream(c) PROVE PreviewInv'
  <2>1. UNCHANGED <<chans, zero, previews, lost, win>> /\ (session => session')
    BY <1>9 DEF StartStream, NewMulti
  <2>. QED
    BY <2>1
<1>10. CASE StartPendingZero
  BY <1>0, <1>10 DEF StartPendingZero, ZeroReady
<1>11. ASSUME NEW c \in Channel, StartPending(c) PROVE PreviewInv'
  <2>1. session /\ UNCHANGED <<session, zero, win>>
    BY <1>11 DEF StartPending, ControlInv
  <2>2. CASE UNCHANGED <<chans, previews, lost>>
    BY <2>1, <2>2
  <2>3. ASSUME NEW k \in KeysOf(c), NEW ok \in Outcome("play"),
               win[k] # "none", c \notin MultiActive, StartChannel(c, k, ok)
        PROVE  PreviewInv'
    BY <1>0, <2>1, <2>3, StartFacts
  <2>. QED
    BY <1>11, <2>2, <2>3 DEF StartPending
<1>. QED
  <2>1. CASE UNCHANGED vars \/ Stopped \/ Exit \/ BeginFrame \/ BeginLayoutChange \/ Connect
    BY <2>1, <1>1 DEF vars, Stopped, Exit, BeginFrame, BeginLayoutChange, Connect
  <2>2. CASE NoClick \/ EndStart \/ EndPending \/ Disconnect \/ StartAll
    BY <2>2, <1>1 DEF NoClick, EndStart, EndPending, Disconnect, StartAll
  <2>3. CASE \/ \E c \in Channel : ClickChannel(c) \/ CheckChannel(c)
             \/ \E l \in Layout : SelectLayout(l)
    BY <2>3, <1>1 DEF ClickChannel, CheckChannel, SelectLayout
  <2>. QED
    BY <1>2, <1>3, <1>4, <1>5, <1>6, <1>7, <1>8, <1>9, <1>10, <1>11, <1>12, <2>1, <2>2,
       <2>3
    DEF Next, System, UserClick

\* Every reachable state satisfies the inductive invariant.
THEOREM Invariance == Spec => [](TypeOK /\ IInv)
<1>1. Init => TypeOK /\ IInv
  BY ViewerAssumption
  DEF Init, TypeOK, IInv, ControlInv, PreviewInv, NoOrphanPreview, ZeroPreviews,
      PreviewWindowExists, LoginInv, SlotsDistinct, StreamsOwned, MultiActive,
      ZeroNeedsCheckbox, NoSlots, NoWindows
<1>2. TypeOK /\ IInv /\ [Next]_vars => (TypeOK /\ IInv)'
  BY TypeStep, ControlStep, PreviewStep, LoginStep, SlotsStep, StreamsStep, ZeroStep
  DEF IInv
<1>. QED
  BY <1>1, <1>2, PTL DEF Spec

-----------------------------------------------------------------------------
(* The safety properties                                                   *)

\* No window is destroyed under a preview that was not asked to stop before.
THEOREM PreviewWindowExistsAlways == Spec => []PreviewWindowExists
<1>1. TypeOK /\ IInv => PreviewWindowExists
  BY DEF IInv, PreviewInv
<1>. QED
  BY <1>1, Invariance, PTL

\* What nobody asked to stop is listed, and what plays, a preview that refused to stop
\* included, plays in a session that the viewer logs out.
THEOREM NoOrphanPreviewAlways == Spec => []NoOrphanPreview
<1>1. TypeOK /\ IInv => NoOrphanPreview
  BY DEF IInv, PreviewInv
<1>. QED
  BY <1>1, Invariance, PTL

\* Nothing of the X11 mode survives a return to the login screen.
THEOREM LoginScreenOwnsNothingAlways == Spec => []LoginScreenOwnsNothing
<1>1. TypeOK /\ IInv => LoginScreenOwnsNothing
  BY DEF IInv, PreviewInv, NoOrphanPreview, LoginInv, LoginScreenOwnsNothing
<1>. QED
  BY <1>1, Invariance, PTL

\* The slots stay distinct, and the saved ones with them.
THEOREM SlotsDistinctAlways == Spec => []SlotsDistinct
<1>1. TypeOK /\ IInv => SlotsDistinct
  BY DEF IInv
<1>. QED
  BY <1>1, Invariance, PTL

\* A channel that plays or waits has its stream state taken, and is listed once.
THEOREM StreamsOwnedAlways == Spec => []StreamsOwned
<1>1. TypeOK /\ IInv => StreamsOwned
  BY DEF IInv
<1>. QED
  BY <1>1, Invariance, PTL

\* The mosaic never plays with its checkbox unticked.
THEOREM ZeroNeedsCheckboxAlways == Spec => []ZeroNeedsCheckbox
<1>1. TypeOK /\ IInv => ZeroNeedsCheckbox
  BY DEF IInv
<1>. QED
  BY <1>1, Invariance, PTL

-----------------------------------------------------------------------------
(* The grid without Canal Zero: the layout, the slots and what plays agree *)

\* Where the UI thread is while the layout on the screen is the one grid_slots was
\* made for (show_viewer): only the rest of the frame of a click may see another.
InStart    == pc = "start" \/ (pc \in {"zeroPending", "pending"} /\ ret = "start")
InTeardown == pc \in {"dropChannels", "dropZero", "dropSession", "dropWindows"}

LayoutInv ==
    /\ ~zeroFlag
    /\ connected => DOMAIN slots = Slots(prevLayout)
    /\ ~connected => layout = prevLayout
    /\ pc = "panel" \/ InStart \/ (InTeardown /\ goal # "exit") => layout = prevLayout

\* A stream state is given back with the last of what the channel has (stop_stream,
\* the layout change): only within a teardown it is still taken.
RxInv == pc \notin {"dropZero", "dropSession", "dropWindows"} => rx \subseteq MultiActive \cup pending

\* The channels start_stream is still to be called for are in slots already.
StartInv ==
    /\ pc \in {"frame", "panel", "view"} \/ (pc \in {"zeroPending", "pending"} /\ ret = "frame")
          => Assigned(slots) \subseteq MultiActive \cup pending
    /\ InStart => Assigned(slots) \subseteq MultiActive \cup pending \cup todo
    /\ InTeardown /\ goal = "layout" => Assigned(slots) \subseteq todo
    /\ InTeardown /\ goal = "disconnect" => Assigned(slots) = {}

\* Without Canal Zero grid_slots has the length of the layout it was made for.
LEMMA LayoutStep ==
    ASSUME ~UseZero, TypeOK, IInv, LayoutInv, [Next]_vars
    PROVE  LayoutInv'
<1> USE DEF TypeOK, LayoutInv, InStart, InTeardown, uiVars
<1>1. CASE UNCHANGED vars \/ Stopped
  BY <1>1 DEF Stopped, vars, ctlVars
<1>2. CASE Connect \/ Exit \/ BeginFrame \/ Disconnect
  BY <1>2 DEF Connect, Exit, BeginFrame, Disconnect, NoSlots, ctlVars
<1>3. CASE BeginLayoutChange
  BY <1>3 DEF BeginLayoutChange, NewSlots
<1>4. CASE NoClick \/ View \/ EndStart \/ EndPending
  BY <1>4 DEF NoClick, View, EndStart, EndPending
<1>5. CASE DropChannels \/ DropZero \/ DropSession \/ DropWindows
  BY <1>5 DEF DropChannels, DropZero, DropSession, DropWindows, IInv, LoginInv
<1>6. CASE StartAll
  BY <1>6 DEF StartAll
<1>7. CASE StopAll
  BY <1>7 DEF StopAll, NoSlots
<1>8. CASE ZeroOn \/ ZeroOff \/ ZeroOffWindow
  BY <1>8 DEF ZeroOn, ZeroOff, ZeroOffWindow, IInv, ControlInv
<1>9. CASE StartPendingZero
  <2>1. /\ UNCHANGED <<zeroFlag, connected, layout, prevLayout, slots, ret, goal>>
        /\ pc = "zeroPending" /\ (pc' = ret \/ pc' = "pending")
    BY <1>9 DEF StartPendingZero, ZeroReady
  <2>. QED
    BY <2>1
<1>10. ASSUME NEW c \in Channel, StartStream(c) PROVE LayoutInv'
  <2>1. /\ UNCHANGED <<zeroFlag, connected, layout, prevLayout, slots, goal>>
        /\ pc = "start" /\ pc' \in {"start", "zeroPending"}
    BY <1>10 DEF StartStream
  <2>. QED
    BY <2>1
<1>11. ASSUME NEW c \in Channel, StartPending(c) PROVE LayoutInv'
  BY <1>11 DEF StartPending
<1>12. ASSUME NEW c \in Channel, ClickChannel(c) \/ CheckChannel(c) \/ UncheckChannel(c)
       PROVE  LayoutInv'
  BY <1>12 DEF ClickChannel, CheckChannel, UncheckChannel
<1>13. ASSUME NEW l \in Layout, SelectLayout(l) PROVE LayoutInv'
  BY <1>13 DEF SelectLayout, IInv, LoginInv
<1>. QED
  BY <1>1, <1>2, <1>3, <1>4, <1>5, <1>6, <1>7, <1>8, <1>9, <1>10, <1>11, <1>12, <1>13
  DEF Next, System, UserClick

\* A preview starts in the window of its channel's place, and the place of a channel
\* that plays is not given to another one before its preview is stopped.
LEMMA CameraStep ==
    ASSUME ~UseZero, TypeOK, IInv, LayoutInv, CameraInItsSlot, [Next]_vars
    PROVE  CameraInItsSlot'
<1> USE DEF CameraInItsSlot, uiVars, sdkVars
<1>0. \A p \in chans : p.ch \in Channel /\ p.ch # None
  BY KeyFacts, PreviewFacts DEF TypeOK
<1>1. CASE UNCHANGED <<layout, prevLayout, slots, chans>> /\ (pc # "dropChannels" \/ pc' = pc)
  BY <1>1
<1>2. CASE Connect
  <2>1. chans' = {}
    BY <1>2 DEF Connect, IInv, LoginInv, PreviewInv, NoOrphanPreview
  <2>. QED
    BY <2>1
<1>3. CASE Exit \/ BeginLayoutChange \/ Disconnect
  BY <1>3 DEF Exit, BeginLayoutChange, Disconnect
<1>4. CASE DropChannels
  BY <1>4 DEF DropChannels
<1>5. CASE StartAll
  <2>1. CASE slots' = slots
    BY <1>5, <2>1 DEF StartAll
  <2>2. CASE slots' = [s \in DOMAIN slots |->
                         IF s \in EmptySlots /\ \E c \in Unassigned : Takes(c, s)
                         THEN CHOOSE c \in Unassigned : Takes(c, s) ELSE slots[s]]
    <3>1. \A s \in DOMAIN slots : slots[s] # None => slots'[s] = slots[s]
      BY <2>2 DEF EmptySlots
    <3>2. UNCHANGED <<layout, prevLayout, chans>> /\ pc = "panel" /\ layout # Single
      BY <1>5 DEF StartAll
    <3>3. DOMAIN slots' = DOMAIN slots
      BY <2>2
    <3>. QED
      BY <1>0, <3>1, <3>2, <3>3
  <2>. QED
    BY <1>5, <2>1, <2>2 DEF StartAll
<1>6. CASE StopAll
  <2>1. pc = "panel" /\ layout # Single /\ layout = prevLayout
    BY <1>6 DEF StopAll, LayoutInv
  <2>2. \A p \in chans : p.ch \in Assigned(slots)
    BY <1>0, <2>1 DEF Assigned
  <2>3. chans' = {}
    BY <1>6, <2>2 DEF StopAll, StopStreams
  <2>. QED
    BY <2>3
<1>7. CASE ZeroOn \/ ZeroOff \/ ZeroOffWindow
  BY <1>7 DEF ZeroOn, ZeroOff, ZeroOffWindow, LayoutInv, IInv, ControlInv
<1>8. CASE StartPendingZero
  BY <1>8, <1>1 DEF StartPendingZero, ZeroReady
<1>9. ASSUME NEW c \in Channel, StartPending(c) PROVE CameraInItsSlot'
  <2>1. UNCHANGED <<layout, prevLayout, slots, pc>> /\ pc = "pending"
    BY <1>9 DEF StartPending
  <2>2. CASE chans' = chans
    BY <2>1, <2>2
  <2>3. ASSUME NEW k \in KeysOf(c), NEW ok \in Outcome("play"), StartChannel(c, k, ok)
        PROVE  CameraInItsSlot'
    <3>1. \A p \in chans' : p \in chans \/ p = [ch |-> c, win |-> k]
      BY <2>3 DEF StartChannel
    <3>. QED
      BY <2>1, <3>1 DEF KeysOf
  <2>. QED
    BY <1>9, <2>2, <2>3 DEF StartPending
<1>10. ASSUME NEW c \in Channel, CheckChannel(c) PROVE CameraInItsSlot'
  <2>1. PICK s \in DOMAIN slots : slots[s] = None /\ slots' = [slots EXCEPT ![s] = c]
    BY <1>10 DEF CheckChannel, LeastEmpty
  <2>2. DOMAIN slots' = DOMAIN slots /\ \A t \in DOMAIN slots : slots[t] # None => slots'[t] = slots[t]
    BY <2>1
  <2>3. UNCHANGED <<layout, prevLayout, chans>> /\ pc = "panel"
    BY <1>10 DEF CheckChannel
  <2>. QED
    BY <1>0, <2>2, <2>3
<1>11. ASSUME NEW c \in Channel, UncheckChannel(c) PROVE CameraInItsSlot'
  <2>1. PICK s \in DOMAIN slots : slots[s] = c /\ slots' = [slots EXCEPT ![s] = None]
    BY <1>11 DEF UncheckChannel
  <2>2. DOMAIN slots' = DOMAIN slots /\ \A t \in DOMAIN slots : slots[t] # c => slots'[t] = slots[t]
    BY <2>1
  <2>3. /\ UNCHANGED <<layout, prevLayout>> /\ pc = "panel" /\ layout # Single
        /\ chans' = {p \in chans : p.ch # c}
    BY <1>11 DEF UncheckChannel, StopStreams
  <2>. QED
    BY <2>2, <2>3
<1>12. ASSUME NEW l \in Layout, SelectLayout(l) PROVE CameraInItsSlot'
  BY <1>12 DEF SelectLayout, LayoutInv
<1>. QED
  <2>1. CASE UNCHANGED vars \/ Stopped \/ BeginFrame \/ NoClick \/ View \/ EndStart \/ EndPending
    BY <2>1, <1>1 DEF vars, Stopped, ctlVars, BeginFrame, NoClick, View, EndStart, EndPending
  <2>2. CASE DropZero \/ DropSession \/ DropWindows
    BY <2>2, <1>1 DEF DropZero, DropSession, DropWindows
  <2>3. CASE \E c \in Channel : StartStream(c) \/ ClickChannel(c)
    BY <2>3, <1>1 DEF StartStream, ClickChannel
  <2>. QED
    BY <1>2, <1>3, <1>4, <1>5, <1>6, <1>7, <1>8, <1>9, <1>10, <1>11, <1>12, <2>1, <2>2, <2>3
    DEF Next, System, UserClick

\* A pass over the waiting channels loses none: it plays, or it waits on.
LEMMA StartPendingKeeps ==
    ASSUME NEW c \in Channel, StartPending(c)
    PROVE  MultiActive \cup pending \subseteq MultiActive' \cup pending'
<1>1. CASE c \in MultiActive /\ chans' = chans /\ pending' = pending \ {c}
  BY <1>1 DEF MultiActive
<1>2. CASE UNCHANGED <<pending, chans>>
  BY <1>2 DEF MultiActive
<1>3. ASSUME NEW k \in KeysOf(c), NEW ok \in Outcome("play"), c \notin MultiActive,
             StartChannel(c, k, ok), pending' = IF ok THEN pending \ {c} ELSE pending
      PROVE  MultiActive \cup pending \subseteq MultiActive' \cup pending'
  <2>1. chans \subseteq chans'
    BY <1>3 DEF StartChannel, MultiActive
  <2>2. ok => [ch |-> c, win |-> k] \in chans'
    BY <1>3 DEF StartChannel
  <2>3. MultiActive \subseteq MultiActive' /\ (ok => c \in MultiActive')
    BY <2>1, <2>2 DEF MultiActive
  <2>. QED
    BY <1>3, <2>3
<1>. QED
  BY <1>1, <1>2, <1>3 DEF StartPending

\* Without failing logins a stream state is taken by what plays or waits only.
LEMMA RxStep ==
    ASSUME ~UseZero, Faults \cap {"login", "key"} = {},
           TypeOK, IInv, LayoutInv, RxInv, [Next]_vars
    PROVE  RxInv'
<1> USE DEF RxInv, MultiActive, uiVars, sdkVars
<1>1. CASE UNCHANGED <<chans, pending, rx>> /\ (pc \notin {"dropZero", "dropSession", "dropWindows"} \/ pc' = pc)
  BY <1>1
<1>2. CASE Connect
  BY <1>2 DEF Connect
<1>3. CASE DropChannels \/ DropZero \/ DropSession \/ DropWindows
  BY <1>3 DEF DropChannels, DropZero, DropSession, DropWindows
<1>4. ASSUME NEW S, StopStreams(S, slots'), pc = "panel"
      PROVE  RxInv'
  BY <1>4 DEF StopStreams
<1>5. CASE StopAll
  BY <1>4, <1>5 DEF StopAll
<1>6. ASSUME NEW c \in Channel, UncheckChannel(c) PROVE RxInv'
  BY <1>4, <1>6 DEF UncheckChannel
<1>7. CASE ZeroOn \/ ZeroOff \/ ZeroOffWindow
  BY <1>7 DEF ZeroOn, ZeroOff, ZeroOffWindow, LayoutInv, IInv, ControlInv
<1>8. ASSUME NEW c \in Channel, StartStream(c) PROVE RxInv'
  <2>1. pc = "start" /\ chans' = chans
    BY <1>8 DEF StartStream
  <2>2. \/ UNCHANGED <<rx, pending>>
        \/ rx' = rx \cup {c} /\ pending' = pending \cup {c}
    BY <1>8 DEF StartStream, LoginOutcome
  <2>. QED
    BY <2>1, <2>2
<1>9. ASSUME NEW c \in Channel, StartPending(c) PROVE RxInv'
  <2>1. pc = "pending" /\ rx' = rx
    BY <1>9 DEF StartPending
  <2>2. MultiActive \cup pending \subseteq MultiActive' \cup pending'
    BY <1>9, StartPendingKeeps
  <2>. QED
    BY <2>1, <2>2
<1>. QED
  <2>1. CASE UNCHANGED vars \/ Stopped \/ BeginFrame \/ BeginLayoutChange \/ Exit \/ Disconnect
    BY <2>1, <1>1 DEF vars, Stopped, ctlVars, BeginFrame, BeginLayoutChange, Exit, Disconnect
  <2>2. CASE NoClick \/ View \/ EndStart \/ EndPending \/ StartPendingZero \/ StartAll
    BY <2>2, <1>1 DEF NoClick, View, EndStart, EndPending, StartPendingZero, ZeroReady, StartAll
  <2>3. CASE \/ \E c \in Channel : ClickChannel(c) \/ CheckChannel(c)
             \/ \E l \in Layout : SelectLayout(l)
    BY <2>3, <1>1 DEF ClickChannel, CheckChannel, SelectLayout
  <2>. QED
    BY <1>2, <1>3, <1>5, <1>6, <1>7, <1>8, <1>9, <2>1, <2>2, <2>3
    DEF Next, System, UserClick

\* The loop of show_viewer that gives out the slots of a new layout, and "Start all",
\* leave no channel in a slot that start_stream is not called for.
LEMMA StartStep ==
    ASSUME ~UseZero, Faults \cap {"login", "key"} = {},
           TypeOK, IInv, LayoutInv, RxInv, StartInv, [Next]_vars
    PROVE  StartInv'
<1> USE DEF TypeOK, StartInv, InStart, InTeardown, uiVars, sdkVars
<1>1. CASE UNCHANGED vars \/ Stopped
  BY <1>1 DEF Stopped, vars, ctlVars, MultiActive, Assigned
<1>2. CASE Connect \/ Exit \/ Disconnect
  <2>1. Assigned(slots') = {}
    BY <1>2 DEF Connect, Exit, Disconnect, NoSlots, Assigned
  <2>2. CASE Connect
    BY <2>1, <2>2 DEF Connect, ctlVars
  <2>3. CASE Exit \/ Disconnect
    BY <2>1, <2>3 DEF Exit, Disconnect
  <2>. QED
    BY <1>2, <2>2, <2>3
<1>3. CASE BeginFrame \/ NoClick
  BY <1>3 DEF BeginFrame, NoClick, MultiActive, Assigned
<1>4. CASE View \/ EndStart
  BY <1>4 DEF View, EndStart, MultiActive, Assigned
<1>5. CASE EndPending
  BY <1>5 DEF EndPending, MultiActive, Assigned
<1>6. CASE BeginLayoutChange
  <2>1. Assigned(slots') \subseteq LiveChannels
    BY <1>6 DEF BeginLayoutChange, NewSlots, Assigned
  <2>. QED
    BY <1>6, <2>1 DEF BeginLayoutChange
<1>7. CASE DropChannels \/ DropZero \/ DropSession
  BY <1>7 DEF DropChannels, DropZero, DropSession, MultiActive, Assigned
<1>8. CASE DropWindows
  BY <1>8 DEF DropWindows, MultiActive, Assigned
<1>9. CASE StartPendingZero
  <2>1. /\ UNCHANGED <<slots, chans, pending, todo, ret, goal>>
        /\ pc = "zeroPending" /\ (pc' = ret \/ pc' = "pending")
    BY <1>9 DEF StartPendingZero, ZeroReady
  <2>. QED
    BY <2>1 DEF MultiActive, Assigned
<1>10. CASE StopAll
  <2>1. Assigned(slots') = {} /\ pc' = "view"
    BY <1>10 DEF StopAll, NoSlots, Assigned
  <2>. QED
    BY <2>1
<1>11. CASE ZeroOn \/ ZeroOff \/ ZeroOffWindow
  BY <1>11 DEF ZeroOn, ZeroOff, ZeroOffWindow, LayoutInv, IInv, ControlInv
<1>12. CASE StartAll
  <2>1. CASE pc' = "panicked"
    BY <2>1
  <2>2. CASE pc' = "start" /\ pc = "panel" /\ UNCHANGED <<chans, pending>>
    <3>1. \A s \in DOMAIN slots' : slots'[s] \in todo' \/ slots'[s] = slots[s]
      BY <1>12, <2>2 DEF StartAll
    <3>2. DOMAIN slots' = DOMAIN slots
      BY <1>12, <2>2 DEF StartAll
    <3>3. Assigned(slots') \subseteq Assigned(slots) \cup todo'
      BY <3>1, <3>2 DEF Assigned
    <3>. QED
      BY <2>2, <3>3 DEF MultiActive
  <2>. QED
    BY <1>12, <2>1, <2>2 DEF StartAll
<1>13. ASSUME NEW c \in Channel, StartStream(c) PROVE StartInv'
  <2>1. /\ pc = "start" /\ UNCHANGED <<chans, slots>> /\ todo' = todo \ {c}
        /\ pc' \in {"start", "zeroPending"} /\ ret' = "start"
    BY <1>13 DEF StartStream
  <2>2. c \in MultiActive \cup pending' /\ pending \subseteq pending'
    BY <1>13 DEF StartStream, LoginOutcome, RxInv
  <2>. QED
    BY <2>1, <2>2 DEF MultiActive
<1>14. ASSUME NEW c \in Channel, StartPending(c) PROVE StartInv'
  <2>1. UNCHANGED <<pc, ret, goal, todo, slots>> /\ pc = "pending"
    BY <1>14 DEF StartPending
  <2>2. MultiActive \cup pending \subseteq MultiActive' \cup pending'
    BY <1>14, StartPendingKeeps
  <2>. QED
    BY <2>1, <2>2
<1>15. ASSUME NEW c \in Channel, ClickChannel(c) PROVE StartInv'
  BY <1>15 DEF ClickChannel, MultiActive
<1>16. ASSUME NEW c \in Channel, CheckChannel(c) PROVE StartInv'
  <2>1. Assigned(slots') \subseteq Assigned(slots) \cup {c}
    BY <1>16 DEF CheckChannel, Assigned
  <2>. QED
    BY <1>16, <2>1 DEF CheckChannel, MultiActive
<1>17. ASSUME NEW c \in Channel, UncheckChannel(c) PROVE StartInv'
  <2>1. Assigned(slots') \subseteq Assigned(slots) \ {c}
    BY <1>17, KeyFacts DEF UncheckChannel, Assigned, IInv, SlotsDistinct
  <2>2. pending' = pending \ {c} /\ MultiActive' = MultiActive \ {c}
    BY <1>17 DEF UncheckChannel, StopStreams, MultiActive
  <2>3. pc = "panel" /\ pc' = "view"
    BY <1>17 DEF UncheckChannel
  <2>. QED
    BY <2>1, <2>2, <2>3
<1>18. ASSUME NEW l \in Layout, SelectLayout(l) PROVE StartInv'
  BY <1>18 DEF SelectLayout, MultiActive
<1>. QED
  BY <1>1, <1>2, <1>3, <1>4, <1>5, <1>6, <1>7, <1>8, <1>9, <1>10, <1>11, <1>12, <1>13,
     <1>14, <1>15, <1>16, <1>17, <1>18
  DEF Next, System, UserClick

\* Without Canal Zero the layout, the slots and the previews agree, whatever fails.
THEOREM GridInvariance ==
    ASSUME ~UseZero PROVE Spec => [](LayoutInv /\ CameraInItsSlot)
<1>1. Init => LayoutInv /\ CameraInItsSlot
  BY DEF Init, LayoutInv, InStart, InTeardown, CameraInItsSlot
<1>2. /\ TypeOK /\ IInv /\ LayoutInv /\ CameraInItsSlot /\ [Next]_vars
      => LayoutInv' /\ CameraInItsSlot'
  BY LayoutStep, CameraStep
<1>. QED
  BY <1>1, <1>2, Invariance, PTL DEF Spec

\* grid_slots has one entry per cell of the layout on the screen.
THEOREM SlotsFitLayoutAlways ==
    ASSUME ~UseZero PROVE Spec => []SlotsFitLayout
<1>1. LayoutInv => SlotsFitLayout
  BY DEF LayoutInv, SlotsFitLayout
<1>. QED
  BY <1>1, GridInvariance, PTL

\* Every preview is drawn where grid_slots says its channel is.
THEOREM CameraInItsSlotAlways ==
    ASSUME ~UseZero PROVE Spec => []CameraInItsSlot
BY GridInvariance, PTL

\* What start_stream was called for plays or waits, if logins do not fail.
THEOREM StartInvariance ==
    ASSUME ~UseZero, Faults \cap {"login", "key"} = {} PROVE Spec => [](RxInv /\ StartInv)
<1>1. Init => RxInv /\ StartInv
  BY DEF Init, RxInv, StartInv, InStart, InTeardown, Assigned, NoSlots
<1>2. TypeOK /\ IInv /\ LayoutInv /\ RxInv /\ StartInv /\ [Next]_vars => RxInv' /\ StartInv'
  BY RxStep, StartStep
<1>. QED
  BY <1>1, <1>2, Invariance, GridInvariance, PTL DEF Spec

\* No stream state stays taken by a channel that neither plays nor waits.
THEOREM NoStuckStreamAlways ==
    ASSUME ~UseZero, Faults \cap {"login", "key"} = {} PROVE Spec => []NoStuckStream
<1>1. RxInv => NoStuckStream
  BY DEF RxInv, NoStuckStream
<1>. QED
  BY <1>1, StartInvariance, PTL

\* A slot of the grid shows a channel that plays or waits to.
THEOREM SlotsStreamAlways ==
    ASSUME ~UseZero, Faults \cap {"login", "key"} = {} PROVE Spec => []SlotsStream
<1>1. StartInv => SlotsStream
  BY DEF StartInv, SlotsStream
<1>. QED
  BY <1>1, StartInvariance, PTL

-----------------------------------------------------------------------------
(* The viewer implements the protocol of the SDK and the X server          *)

\* Every step of the viewer is a call the protocol allows, or none.
LEMMA ProtocolStep ==
    TypeOK /\ IInv /\ (TypeOK /\ IInv)' /\ [Next]_vars => [Protocol!Next]_(Protocol!vars)
<1> SUFFICES ASSUME TypeOK, IInv, TypeOK', IInv', [Next]_vars
             PROVE  [Protocol!Next]_(Protocol!vars)
  OBVIOUS
<1> DEFINE wins == {k \in Key : win[k] # "none"}
<1> USE DEF Protocol!vars, uiVars, sdkVars, x11Vars
<1>0. \A p \in previews : p.win \in Key
  BY PreviewFacts DEF TypeOK, Key
<1>1. CASE UNCHANGED <<session, previews, lost, win>>
  BY <1>1
<1>2. ASSUME NEW P, StopRealPlay(P), P \subseteq previews, UNCHANGED <<session, wins>>
      PROVE  Protocol!Next
  <2>1. /\ previews' \subseteq previews /\ lost \subseteq lost'
        /\ lost' \subseteq lost \cup (previews \ previews')
    BY <1>2, StopFacts
  <2>. QED
    BY <1>2, <2>1 DEF Protocol!Next, Protocol!Stop
<1>16. ASSUME UNCHANGED <<session, previews, lost>>, wins' \subseteq wins
       PROVE  Protocol!Next
  <2>1. \A p \in previews : p.win \in wins'
    BY <1>0, <1>16 DEF IInv, PreviewInv, PreviewWindowExists
  <2>. QED
    BY <1>16, <2>1 DEF Protocol!Next, Protocol!Close
<1>17. chans \subseteq previews /\ ZeroPreviews \subseteq previews
  BY DEF IInv, PreviewInv, NoOrphanPreview
<1>3. CASE View
  <2>1. wins \subseteq wins'
    BY <1>3 DEF View, Ensure, HideExcept, TypeOK
  <2>. QED
    BY <1>3, <2>1 DEF View, Protocol!Next, Protocol!Open
<1>4. CASE DropChannels \/ DropZero
  <2>1. \/ StopRealPlay(chans) \/ StopRealPlay(ZeroPreviews)
    BY <1>4 DEF DropChannels, DropZero
  <2>2. UNCHANGED <<session, wins>>
    BY <1>4 DEF DropChannels, DropZero
  <2>. QED
    BY <1>2, <1>17, <2>1, <2>2
<1>5. CASE DropSession
  <2>1. previews = {}
    BY <1>5 DEF DropSession, IInv, ControlInv, PreviewInv, NoOrphanPreview, ZeroPreviews
  <2>2. session' = FALSE /\ lost' = {} /\ UNCHANGED <<previews, win>> /\ session \in BOOLEAN
    BY <1>5 DEF DropSession, TypeOK
  <2>3. session = FALSE => lost = {}
    BY DEF IInv, PreviewInv, NoOrphanPreview
  <2>. QED
    BY <2>1, <2>2, <2>3 DEF Protocol!Next, Protocol!Logout
<1>6. CASE DropWindows
  BY <1>16, <1>6 DEF DropWindows, NoWindows
<1>7. CASE StopAll
  <2>1. win' = win
    BY <1>7, ClearedSlotsKeepWindows, KeyFacts DEF StopAll, NoSlots, Assigned
  <2>2. \E P \in SUBSET chans : StopRealPlay(P)
    BY <1>7 DEF StopAll, StopStreams
  <2>. QED
    BY <1>2, <1>7, <1>17, <2>1, <2>2 DEF StopAll
<1>8. ASSUME NEW c \in Channel, UncheckChannel(c) PROVE Protocol!Next
  <2>1. \A s \in DOMAIN slots' : slots'[s] \notin {c}
    BY <1>8, KeyFacts DEF UncheckChannel, IInv, SlotsDistinct, TypeOK
  <2>2. win' = win
    BY <1>8, <2>1, ClearedSlotsKeepWindows DEF UncheckChannel
  <2>3. \E P \in SUBSET chans : StopRealPlay(P)
    BY <1>8 DEF UncheckChannel, StopStreams
  <2>. QED
    BY <1>2, <1>8, <1>17, <2>2, <2>3 DEF UncheckChannel
<1>9. CASE ZeroOn
  <2>1. wins' = wins
    BY <1>9 DEF ZeroOn, HideExcept, TypeOK
  <2>2. PICK P \in SUBSET chans : StopRealPlay(P)
    BY <1>9 DEF ZeroOn
  <2>3. CASE session' = session
    BY <1>2, <1>17, <2>1, <2>2, <2>3
  <2>4. CASE session' # session
    <3>1. ~session /\ session' = TRUE
      BY <1>9, <2>4 DEF ZeroOn, NewMulti, TypeOK
    <3>2. previews = {} /\ lost = {} /\ P = {}
      BY <1>17, <2>2, <3>1 DEF IInv, PreviewInv, NoOrphanPreview
    <3>3. previews' = {} /\ lost' = {}
      BY <2>2, <3>2, StopFacts
    <3>. QED
      BY <2>1, <3>1, <3>2, <3>3 DEF Protocol!Next, Protocol!Login
  <2>. QED
    BY <2>3, <2>4
<1>10. CASE ZeroOff
  BY <1>2, <1>10, <1>17 DEF ZeroOff
<1>18. CASE ZeroOffWindow
  <2>1. wins' \subseteq wins
    BY <1>18 DEF ZeroOffWindow, TypeOK
  <2>. QED
    BY <1>16, <1>18, <2>1 DEF ZeroOffWindow
<1>11. ASSUME NEW c \in Channel, StartStream(c) PROVE [Protocol!Next]_(Protocol!vars)
  <2>1. UNCHANGED <<previews, lost, win>>
    BY <1>11 DEF StartStream
  <2>2. session' = session \/ (~session /\ session' = TRUE)
    BY <1>11 DEF StartStream, NewMulti, TypeOK
  <2>. QED
    BY <2>1, <2>2 DEF Protocol!Next, Protocol!Login
<1>12. ASSUME NEW p, previews' = previews \cup {p}, session, UNCHANGED <<session, lost, win>>,
              p.win \in wins, \A q \in previews : q.ch # p.ch
       PROVE  Protocol!Next
  BY <1>12 DEF Protocol!Next, Protocol!Start
<1>13. CASE StartPendingZero
  <2>1. CASE previews' = previews
    BY <1>13, <1>1, <2>1 DEF StartPendingZero, ZeroReady
  <2>2. CASE previews' # previews
    <3>1. /\ session /\ win[ZcSlot] # "none" /\ ~zero
          /\ previews' = previews \cup {ZeroPreview} /\ UNCHANGED <<session, lost, win>>
      BY <1>13, <2>2 DEF StartPendingZero, ZeroReady
    <3>2. ZeroPreview.win \in wins
      BY <3>1, PreviewFacts DEF Key
    <3>3. \A q \in previews : q.ch # ZeroPreview.ch
      BY <3>1, PreviewFacts
      DEF IInv, PreviewInv, NoOrphanPreview, ZeroPreviews, TypeOK
    <3>. QED
      BY <1>12, <3>1, <3>2, <3>3
  <2>. QED
    BY <2>1, <2>2
<1>14. ASSUME NEW c \in Channel, StartPending(c) PROVE [Protocol!Next]_(Protocol!vars)
  <2>0. session /\ UNCHANGED <<session, win>>
    BY <1>14 DEF StartPending, IInv, ControlInv
  <2>1. CASE UNCHANGED <<previews, lost>>
    BY <1>1, <2>0, <2>1
  <2>2. ASSUME NEW k \in KeysOf(c), NEW ok, win[k] # "none", c \notin MultiActive,
               StartChannel(c, k, ok)
        PROVE  [Protocol!Next]_(Protocol!vars)
    <3> DEFINE new == [ch |-> c, win |-> k]
    <3>1. lost' = lost /\ (previews' = previews \/ previews' = previews \cup {new})
      BY <2>2, StartFacts
    <3>2. \A q \in previews : q.ch # c
      BY <2>2, PreviewFacts
      DEF IInv, PreviewInv, NoOrphanPreview, ZeroPreviews, MultiActive
    <3>3. k \in wins
      BY <2>2, KeyFacts DEF KeysOf, TypeOK, Key
    <3>4. new.win \in wins /\ \A q \in previews : q.ch # new.ch
      BY <3>2, <3>3
    <3>5. CASE previews' = previews
      BY <1>1, <2>0, <3>1, <3>5
    <3> HIDE DEF new, wins
    <3>. QED
      BY <1>12, <2>0, <3>1, <3>4, <3>5
  <2>. QED
    BY <1>14, <2>1, <2>2 DEF StartPending
<1>. QED
  <2>1. CASE UNCHANGED vars \/ Stopped \/ Exit \/ BeginFrame \/ BeginLayoutChange \/ Connect
    BY <2>1, <1>1 DEF vars, Stopped, Exit, BeginFrame, BeginLayoutChange, Connect
  <2>2. CASE NoClick \/ EndStart \/ EndPending \/ Disconnect \/ StartAll
    BY <2>2, <1>1 DEF NoClick, EndStart, EndPending, Disconnect, StartAll
  <2>3. CASE \/ \E c \in Channel : ClickChannel(c) \/ CheckChannel(c)
             \/ \E l \in Layout : SelectLayout(l)
    BY <2>3, <1>1 DEF ClickChannel, CheckChannel, SelectLayout
  <2>. QED
    BY <1>3, <1>4, <1>5, <1>6, <1>7, <1>8, <1>9, <1>10, <1>11, <1>13, <1>14, <1>18, <2>1,
       <2>2, <2>3
    DEF Next, System, UserClick

\* X11Viewer implements SdkProtocol: sessions, windows and previews are used in the
\* order the SDK and the X server ask for, whatever they refuse; a stop that is refused
\* leaves a lost preview and nothing else behind.
THEOREM ImplementsProtocol == Spec => ProtocolSpec
<1>1. Init => Protocol!Init
  BY DEF Init, Protocol!Init, NoWindows
<1>. QED
  BY <1>1, Invariance, ProtocolStep, PTL DEF Spec, ProtocolSpec, Protocol!Spec

\* In every behaviour of SdkProtocol what plays is in a session, and what was not asked
\* to stop is in a window that exists, one per channel.
LEMMA ProtocolSafe == Protocol!Spec => []Protocol!Safe
<1>1. Protocol!Init => Protocol!Safe
  BY DEF Protocol!Init, Protocol!Safe
<1>2. Protocol!Safe /\ [Protocol!Next]_(Protocol!vars) => Protocol!Safe'
  <2> SUFFICES ASSUME Protocol!Safe, [Protocol!Next]_(Protocol!vars) PROVE Protocol!Safe'
    OBVIOUS
  <2> USE DEF Protocol!Safe
  <2>1. CASE Protocol!Login \/ Protocol!Logout \/ Protocol!Open
    BY <2>1 DEF Protocol!Login, Protocol!Logout, Protocol!Open
  <2>2. CASE Protocol!Start
    <3>1. PICK p \in previews' :
             /\ previews' = previews \cup {p} /\ p.win \in {k \in Key : win[k] # "none"}
             /\ \A q \in previews : q.ch # p.ch
      BY <2>2 DEF Protocol!Start
    <3>. QED
      BY <2>2, <3>1 DEF Protocol!Start
  <2>3. CASE Protocol!Stop
    <3>1. /\ previews' \cup lost' \subseteq previews \cup lost
          /\ previews' \subseteq previews
      BY <2>3 DEF Protocol!Stop
    <3>. QED
      BY <2>3, <3>1 DEF Protocol!Stop
  <2>5. CASE Protocol!Close
    BY <2>5 DEF Protocol!Close
  <2>4. CASE UNCHANGED Protocol!vars
    BY <2>4 DEF Protocol!vars
  <2>. QED
    BY <2>1, <2>2, <2>3, <2>4, <2>5 DEF Protocol!Next
<1>. QED
  BY <1>1, <1>2, PTL DEF Protocol!Spec

\* So the viewer never leaves a preview outside a session, never destroys a window under
\* one it did not ask the SDK to stop, and never starts a channel that has such a one
\* (hcnetsdk_x11_multi.rs, x11_embed.rs).
THEOREM SdkUsedSafely == Spec => []Protocol!Safe
BY ImplementsProtocol, ProtocolSafe, PTL DEF ProtocolSpec
=============================================================================
