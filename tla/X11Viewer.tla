----------------------------- MODULE X11Viewer -----------------------------
(***************************************************************************)
(* The viewer of main.rs in its HCNetSDK-X11 mode, with the two objects it *)
(* drives: HCNetSDKX11Multi (one SDK login session and its previews) and   *)
(* X11WindowManager (the overlay windows the SDK draws into).              *)
(*                                                                         *)
(* One UI thread runs update() once per frame.  The SDK renders from       *)
(* threads of its own, so what it can observe is every point BETWEEN two   *)
(* calls the UI thread makes: a frame is therefore split into the calls    *)
(* that reach the SDK or the X server, in program order, by the control    *)
(* state pc.  The user makes at most one click per frame.                  *)
(*                                                                         *)
(* Channels are indices of channels[]; an index stands for its SDK channel *)
(* number too, connect() having removed channels with equal numbers.       *)
(***************************************************************************)
EXTENDS Integers, FiniteSets

CONSTANTS
    NCh,        \* number of channels the device lists (connect keeps at most 17)
    Layout,     \* the layouts the user may select
    Single,     \* the layout that shows the focused channel only
    Capacity,   \* [Layout -> number of grid slots]
    Faults,     \* which environment failures this instance admits
    MaxLost,    \* bound: previews the SDK refused to stop, in one session
    UseZero     \* whether the user may tick the Canal Zero checkbox

FaultKinds == {"xid", "login", "key", "play", "stop", "zero", "window"}

ASSUME ViewerAssumption ==
    /\ NCh \in 1..17
    /\ Single \in Layout
    /\ Capacity \in [Layout -> 1..16]
    /\ Capacity[Single] = 1
    /\ Faults \subseteq FaultKinds
    /\ MaxLost \in Nat
    /\ UseZero \in BOOLEAN

Channel == 0 .. (NCh - 1)
None    == -1
ZcSlot  == 999                      \* window key of Canal Zero
Slots(l) == 0 .. (Capacity[l] - 1)
Cell    == Channel \cup UNION {Slots(l) : l \in Layout}
Key     == Cell \cup {ZcSlot}      \* keys of X11WindowManager.windows

\* What an SDK preview is to the rest of the program: which channel it shows
\* and which overlay window it draws into.
Preview     == [ch : Channel, win : Cell]
ZeroPreview == [ch |-> ZcSlot, win |-> ZcSlot]

\* The results an environment call may have in this instance.
Outcome(f) == IF f \in Faults THEN BOOLEAN ELSE {TRUE}

VARIABLES
    pc,         \* where the UI thread is in update()
    ret,        \* where it goes after try_start_pending_x11_streams
    after,      \* where it goes once every start_stream of todo was made
    goal,       \* why everything is torn down: "layout", "disconnect" or "exit"
    todo,       \* channels start_stream is still to be called for
    scan,       \* entries of x11_pending the current pass has not looked at
    connected,  \* api.is_some()
    layout,     \* layout_mode
    prevLayout, \* prev_layout
    focused,    \* focused_channel
    slots,      \* grid_slots: slot -> channel or None; its domain is 0..len-1
    saved,      \* saved_grid_slots
    pending,    \* x11_pending
    rx,         \* channels whose StreamState holds a frame_rx
    zeroFlag,   \* zero_channel_active
    xid,        \* x11_main_xid.is_some()
    manager,    \* x11_manager.is_some()
    win,        \* its windows: "none", "hidden" (unmapped) or "shown"
    session,    \* hcnetsdk_x11_multi.is_some(): the SDK session it owns
    chans,      \* HCNetSDKX11Multi.channels
    zero,       \* HCNetSDKX11Multi.zero_channel.is_some()
    previews,   \* the previews running inside the SDK that nobody asked to stop
    lost,       \* those that play on: the SDK refused to stop them
    orphan      \* an SDK login session exists that no object will log out

uiVars    == <<connected, layout, prevLayout, focused, slots, saved, pending, rx, zeroFlag>>
ctlVars   == <<pc, ret, after, goal, todo, scan>>
x11Vars   == <<xid, manager, win>>
sdkVars   == <<session, chans, zero, previews, lost, orphan>>
vars      == <<uiVars, ctlVars, x11Vars, sdkVars>>

-----------------------------------------------------------------------------
(* Queries                                                                 *)

Assigned(sl)  == {sl[s] : s \in DOMAIN sl} \ {None}
IsAssigned(c) == c \in Assigned(slots)

MultiActive == {p.ch : p \in chans}
Active(c)   == c \in MultiActive \/ c \in pending

ZeroPreviews == IF zero THEN {ZeroPreview} ELSE {}

NoSlots(D) == [s \in D |-> None]
NoWindows  == [k \in Key |-> "none"]

\* Position of x in the increasing order of the set S.
Rank(x, S) == Cardinality({y \in S : y < x})

LeastEmpty(s, sl) ==
    /\ s \in DOMAIN sl /\ sl[s] = None
    /\ \A t \in DOMAIN sl : sl[t] = None => s <= t

-----------------------------------------------------------------------------
(* HCNetSDKX11Multi and X11WindowManager, as the handlers call them        *)

\* HCNetSDKX11Multi::new: a login, then the secret key.  A failing key drops
\* the session on the floor: no object exists yet whose Drop would log out.
NewMulti(ok) ==
    \/ /\ ok
       /\ session' = TRUE
       /\ UNCHANGED orphan
    \/ /\ ~ok
       /\ UNCHANGED session
       /\ \/ "login" \in Faults /\ UNCHANGED orphan
          \/ "key" \in Faults /\ orphan' = TRUE

LoginOutcome == IF Faults \cap {"login", "key"} # {} THEN BOOLEAN ELSE {TRUE}

\* NET_DVR_StopRealPlay for the previews P.  The SDK may refuse it; no caller looks
\* at the result, each drops the handle: that preview plays until the logout.
Refusals(P) ==
    IF "stop" \in Faults
    THEN {R \in SUBSET P : Cardinality(lost \cup R) <= MaxLost}
    ELSE {{}}

StopRealPlay(P) ==
    /\ previews' = previews \ P
    /\ \E refused \in Refusals(P) : lost' = lost \cup refused

\* start_channel: an entry of the same channel is stopped first; the new one is
\* pushed only when NET_DVR_RealPlay_V40 succeeds.
StartChannel(c, w, ok) ==
    LET old == {p \in chans : p.ch = c}
        new == IF ok THEN {[ch |-> c, win |-> w]} ELSE {}
    IN  /\ chans'    = (chans \ old) \cup new
        /\ previews' = (previews \ old) \cup new
        /\ \E refused \in Refusals(old) : lost' = lost \cup refused

\* Mutated forms: the windows do go and the previews stay; x11_pending keeps the
\* channel; its frame_rx is kept.
StopStreamsWindowsOnly(S, sl) ==
    /\ win' = [k \in Key |-> IF k \in DOMAIN slots /\ slots[k] \in S
                              THEN "none" ELSE win[k]]
    /\ pending' = pending \ S /\ rx' = rx \ S
    /\ UNCHANGED <<chans, previews, lost>>

StopStreamsKeepPending(S, sl) ==
    /\ chans' = {p \in chans : p.ch \notin S}
    /\ previews' = {p \in previews : p.ch \notin S}
    /\ rx' = rx \ S
    /\ UNCHANGED <<win, pending, lost>>

StopStreamsKeepRx(S, sl) ==
    /\ chans' = {p \in chans : p.ch \notin S}
    /\ previews' = {p \in previews : p.ch \notin S}
    /\ pending' = pending \ S
    /\ UNCHANGED <<win, rx, lost>>

\* stop_stream, for every channel of S in turn: the preview, the window of the
\* slot that STILL holds the channel in sl, the pending entry, the frame_rx.
StopStreams(S, sl) ==
    LET old  == {p \in chans : p.ch \in S}
        held == {s \in DOMAIN sl : sl[s] \in S}
    IN  /\ chans'    = chans \ old
        /\ StopRealPlay(old)
        /\ win'      = [k \in Key |-> IF k \in held THEN "none" ELSE win[k]]
        /\ pending'  = pending \ S
        /\ rx'       = rx \ S

\* Mutated form: only windows there are already are mapped and raised.
EnsureExisting(K, w) ==
    win' = [k \in Key |-> IF k \in K /\ w[k] # "none" THEN "shown" ELSE w[k]]


\* ensure_window: create the window, or map and raise the one there is; with
\* the "window" fault the X server may refuse to create those of failed.
Ensure(K, w) ==
    \E failed \in IF "window" \in Faults THEN SUBSET K ELSE {{}} :
        win' = [k \in Key |-> IF k \in K /\ (w[k] # "none" \/ k \notin failed)
                              THEN "shown" ELSE w[k]]

HideExcept(K) ==
    [k \in Key |-> IF k \notin K /\ win[k] = "shown" THEN "hidden" ELSE win[k]]

-----------------------------------------------------------------------------
Init ==
    /\ pc = "frame" /\ ret = "frame" /\ after = "view" /\ goal = "exit"
    /\ todo = {} /\ scan = {}
    /\ connected = FALSE /\ layout = Single /\ prevLayout = Single
    /\ focused = None
    /\ slots = NoSlots({}) /\ saved = NoSlots({})
    /\ pending = {} /\ rx = {} /\ zeroFlag = FALSE
    /\ xid = FALSE /\ manager = FALSE /\ win = NoWindows
    /\ session = FALSE /\ chans = {} /\ zero = FALSE /\ previews = {}
    /\ lost = {} /\ orphan = FALSE

-----------------------------------------------------------------------------
(* update(): the start of a frame                                          *)

\* The main window's XID is looked for until it is found.
ObtainXid == xid' \in (IF xid THEN {TRUE} ELSE Outcome("xid"))

\* connect(), once the device answered both requests.
Connect ==
    /\ pc = "frame" /\ ~connected
    /\ ObtainXid
    /\ connected' = TRUE
    /\ rx' = {}
    /\ focused' = 0
    /\ slots' = NoSlots(Slots(layout))
    /\ UNCHANGED <<layout, prevLayout, saved, pending, zeroFlag, ctlVars,
                   manager, win, sdkVars>>

\* show_viewer's prologue when the layout is the one of the last frame.
BeginFrame ==
    /\ pc = "frame" /\ connected /\ layout = prevLayout
    /\ ObtainXid
    /\ manager' = (manager \/ xid')
    /\ pc' = "panel"
    /\ UNCHANGED <<ret, after, goal, todo, scan, uiVars, win, sdkVars>>

\* show_viewer after the user selected another layout: the active channels, in
\* slot order and then in channel order, take the slots of the new layout; the
\* session and the windows are torn down and every active channel restarted.
LiveChannels == Assigned(slots) \cup {c \in Channel : Active(c)}
OldPlace(c) ==
    IF IsAssigned(c) THEN CHOOSE s \in DOMAIN slots : slots[s] = c ELSE c + ZcSlot
NewPlace(c) == Cardinality({d \in LiveChannels : OldPlace(d) < OldPlace(c)})

\* Mutated form: no padding, as if the vector were not resized.
NewSlotsUnpadded ==
    [s \in 0 .. (Cardinality(LiveChannels) - 1) |->
        CHOOSE c \in LiveChannels : NewPlace(c) = s]

NewSlots ==
    [s \in Slots(layout) |->
        IF \E c \in LiveChannels : NewPlace(c) = s
        THEN CHOOSE c \in LiveChannels : NewPlace(c) = s
        ELSE None]

BeginLayoutChange ==
    /\ pc = "frame" /\ connected /\ layout # prevLayout
    /\ ObtainXid
    /\ prevLayout' = layout
    /\ slots' = NewSlots
    /\ todo' = LiveChannels
    /\ goal' = "layout" /\ after' = "panel" /\ pc' = "dropChannels"
    /\ UNCHANGED <<ret, scan, connected, layout, focused, saved, pending, rx,
                   zeroFlag, manager, win, sdkVars>>

\* on_exit, which begins as Disconnect does.
Exit ==
    /\ pc = "frame"
    /\ slots' = NoSlots(DOMAIN slots)
    /\ goal' = "exit" /\ pc' = "dropChannels"
    /\ UNCHANGED <<ret, after, todo, scan, connected, layout, prevLayout, focused,
                   saved, pending, rx, zeroFlag, x11Vars, sdkVars>>

-----------------------------------------------------------------------------
(* hcnetsdk_x11_multi = None, then x11_manager = None                      *)

\* Mutated form: Drop logs out without stop_zero_channel.
DropChannelsOnly ==
    /\ pc = "dropChannels"
    /\ previews' = previews \ chans /\ chans' = {}
    /\ pc' = "dropSession"
    /\ UNCHANGED <<ret, after, goal, todo, scan, uiVars, x11Vars, session, zero, lost,
                   orphan>>

\* Drop, 1: stop_all drains channels and stops each preview.
DropChannels ==
    /\ pc = "dropChannels"
    /\ StopRealPlay(chans)
    /\ chans' = {}
    /\ pc' = "dropZero"
    /\ UNCHANGED <<ret, after, goal, todo, scan, uiVars, x11Vars, session, zero, orphan>>

\* Mutated form: the entry is dropped, its preview is not stopped.
DropZeroEntry ==
    /\ pc = "dropZero" /\ pc' = "dropSession"
    /\ zero' = FALSE
    /\ UNCHANGED <<ret, after, goal, todo, scan, uiVars, x11Vars, session, chans,
                   previews, lost, orphan>>

\* Drop, 2: stop_zero_channel.
DropZero ==
    /\ pc = "dropZero"
    /\ StopRealPlay(ZeroPreviews)
    /\ zero' = FALSE
    /\ pc' = "dropSession"
    /\ UNCHANGED <<ret, after, goal, todo, scan, uiVars, x11Vars, session, chans, orphan>>

\* Drop, 3: logout, which ends what plays in the session.
DropSession ==
    /\ pc = "dropSession"
    /\ session' = FALSE /\ lost' = {}
    /\ pc' = "dropWindows"
    /\ UNCHANGED <<ret, after, goal, todo, scan, uiVars, x11Vars, chans, zero, previews,
                   orphan>>

\* The manager's windows are destroyed with it; the stream states are cleared.
DropWindows ==
    /\ pc = "dropWindows"
    /\ win' = NoWindows
    /\ pending' = {} /\ rx' = {}
    /\ \/ /\ goal = "layout"
          /\ manager' = xid
          /\ pc' = "start"
          /\ UNCHANGED <<connected, focused, zeroFlag>>
       \/ /\ goal = "disconnect"
          /\ manager' = FALSE /\ zeroFlag' = FALSE
          /\ connected' = FALSE /\ focused' = None
          /\ pc' = "view"
       \/ /\ goal = "exit"
          /\ manager' = FALSE /\ zeroFlag' = FALSE
          /\ pc' = "closed"
          /\ UNCHANGED <<connected, focused>>
    /\ UNCHANGED <<ret, after, goal, todo, scan, layout, prevLayout, slots, saved,
                   xid, sdkVars>>

-----------------------------------------------------------------------------
(* The side panel: at most one click per frame                             *)

NoClick ==
    /\ pc = "panel" /\ pc' = "view"
    /\ UNCHANGED <<ret, after, goal, todo, scan, uiVars, x11Vars, sdkVars>>

\* Mutated form: hcnetsdk_x11_multi is not set to None.
DisconnectKeepsSession ==
    /\ pc = "panel"
    /\ slots' = NoSlots(DOMAIN slots)
    /\ goal' = "disconnect" /\ pc' = "dropWindows"
    /\ UNCHANGED <<ret, after, todo, scan, connected, layout, prevLayout, focused,
                   saved, pending, rx, zeroFlag, x11Vars, sdkVars>>

Disconnect ==
    /\ pc = "panel"
    /\ slots' = NoSlots(DOMAIN slots)
    /\ goal' = "disconnect" /\ pc' = "dropChannels"
    /\ UNCHANGED <<ret, after, todo, scan, connected, layout, prevLayout, focused,
                   saved, pending, rx, zeroFlag, x11Vars, sdkVars>>

\* The rest of this frame already runs with the new layout_mode.
SelectLayout(l) ==
    /\ pc = "panel" /\ l # layout
    /\ layout' = l
    /\ pc' = "view"
    /\ UNCHANGED <<ret, after, goal, todo, scan, connected, prevLayout, focused,
                   slots, saved, pending, rx, zeroFlag, x11Vars, sdkVars>>

\* Mutated form: focused_channel is set to the channel's number.
ClickChannelNumber(c) ==
    /\ pc = "panel" /\ layout = Single
    /\ focused' = c + 1
    /\ todo' = {} /\ after' = "view" /\ pc' = "start"
    /\ UNCHANGED <<ret, goal, scan, connected, layout, prevLayout, slots, saved,
                   pending, rx, zeroFlag, x11Vars, sdkVars>>

\* A click in the list of the Single layout.
ClickChannel(c) ==
    /\ pc = "panel" /\ layout = Single
    /\ focused' = c
    /\ todo' = IF Active(c) THEN {} ELSE {c}
    /\ after' = "view" /\ pc' = "start"
    /\ UNCHANGED <<ret, goal, scan, connected, layout, prevLayout, slots, saved,
                   pending, rx, zeroFlag, x11Vars, sdkVars>>

\* Mutated form: start_stream is given the slot instead of the channel.
CheckChannelStartsSlot(c) ==
    /\ pc = "panel" /\ layout # Single /\ ~IsAssigned(c)
    /\ \E s \in DOMAIN slots :
          /\ LeastEmpty(s, slots)
          /\ slots' = [slots EXCEPT ![s] = c]
          /\ todo' = {s} \cap Channel
    /\ after' = "view" /\ pc' = "start"
    /\ UNCHANGED <<ret, goal, scan, connected, layout, prevLayout, focused, saved,
                   pending, rx, zeroFlag, x11Vars, sdkVars>>

\* Ticking a channel of a grid layout: the first empty slot, if there is one.
CheckChannel(c) ==
    /\ pc = "panel" /\ layout # Single /\ ~IsAssigned(c)
    /\ \E s \in DOMAIN slots :
          /\ LeastEmpty(s, slots)
          /\ slots' = [slots EXCEPT ![s] = c]
    /\ todo' = {c} /\ after' = "view" /\ pc' = "start"
    /\ UNCHANGED <<ret, goal, scan, connected, layout, prevLayout, focused, saved,
                   pending, rx, zeroFlag, x11Vars, sdkVars>>

\* Unticking it: the slot is cleared, and then stop_stream is called.
UncheckChannel(c) ==
    /\ pc = "panel" /\ layout # Single
    /\ \E s \in DOMAIN slots :
          /\ slots[s] = c
          /\ slots' = [slots EXCEPT ![s] = None]
    /\ StopStreams({c}, slots')
    /\ pc' = "view"
    /\ UNCHANGED <<ret, after, goal, todo, scan, connected, layout, prevLayout,
                   focused, saved, zeroFlag, xid, manager, session, zero, orphan>>

\* "Start all": the unassigned channels below the capacity take the empty slots
\* in order.  A slot of the layout that lies beyond the end of grid_slots counts
\* as empty too, and storing into it is an index out of bounds.
EmptySlots == {s \in Slots(layout) : s \in DOMAIN slots => slots[s] = None}
\* Mutated form: channels that already have a slot are given another one.
UnassignedOrNot == {c \in Channel : c < Capacity[layout]}

Unassigned == {c \in Channel : c < Capacity[layout] /\ ~IsAssigned(c)}
Takes(c, s) == Rank(c, Unassigned) = Rank(s, EmptySlots)

StartAll ==
    /\ pc = "panel" /\ layout # Single
    /\ \/ /\ \A c \in Unassigned, s \in EmptySlots : Takes(c, s) => s \in DOMAIN slots
          /\ slots' = [s \in DOMAIN slots |->
                         IF s \in EmptySlots /\ \E c \in Unassigned : Takes(c, s)
                         THEN CHOOSE c \in Unassigned : Takes(c, s)
                         ELSE slots[s]]
          /\ todo' = {c \in Unassigned : \E s \in EmptySlots : Takes(c, s)}
          /\ after' = "view" /\ pc' = "start"
       \/ /\ \E c \in Unassigned, s \in EmptySlots : Takes(c, s) /\ s \notin DOMAIN slots
          /\ pc' = "panicked"
          /\ UNCHANGED <<slots, todo, after>>
    /\ UNCHANGED <<ret, goal, scan, connected, layout, prevLayout, focused, saved,
                   pending, rx, zeroFlag, x11Vars, sdkVars>>

StopAll ==
    /\ pc = "panel" /\ layout # Single
    /\ slots' = NoSlots(DOMAIN slots)
    /\ StopStreams(Assigned(slots), slots')
    /\ pc' = "view"
    /\ UNCHANGED <<ret, after, goal, todo, scan, connected, layout, prevLayout,
                   focused, saved, zeroFlag, xid, manager, session, zero, orphan>>

\* Ticking Canal Zero (start_zero_channel): the channels in slots are stopped,
\* nothing stays pending, every window is unmapped.  The mosaic itself starts
\* later, when the render loop has created its window.
ZeroOn ==
    /\ pc = "panel" /\ UseZero /\ ~zeroFlag
    /\ saved' = slots
    /\ slots' = NoSlots(DOMAIN slots)
    /\ LET S   == Assigned(slots)
           old == {p \in chans : p.ch \in S}
       IN  /\ chans' = chans \ old
           /\ StopRealPlay(old)
           /\ rx' = rx \ S
    /\ pending' = {}
    /\ win' = HideExcept({})
    /\ \/ /\ ~xid
          /\ UNCHANGED <<zeroFlag, manager, session, orphan>>
       \/ /\ xid
          /\ \E ok \in IF session THEN {TRUE} ELSE LoginOutcome :
                /\ IF session THEN UNCHANGED <<session, orphan>> ELSE NewMulti(ok)
                /\ manager' = (manager \/ ok)
                /\ zeroFlag' = ok
    /\ pc' = "view"
    /\ UNCHANGED <<ret, after, goal, todo, scan, connected, layout, prevLayout,
                   focused, xid, zero>>

\* Mutated form: the window goes under the playing mosaic.
ZeroOffWindowFirst ==
    /\ pc = "panel" /\ zeroFlag
    /\ win' = [win EXCEPT ![ZcSlot] = "none"]
    /\ pc' = "view"
    /\ UNCHANGED <<ret, after, goal, todo, scan, uiVars, xid, manager, sdkVars>>

\* Unticking it (stop_zero_channel): the mosaic is stopped ...
ZeroOff ==
    /\ pc = "panel" /\ zeroFlag
    /\ StopRealPlay(ZeroPreviews)
    /\ zero' = FALSE
    /\ pc' = "zeroWindow"
    /\ UNCHANGED <<ret, after, goal, todo, scan, uiVars, x11Vars, session, chans, orphan>>

\* ... then its window is destroyed; the slots come back, their streams do not.
ZeroOffWindow ==
    /\ pc = "zeroWindow" /\ pc' = "view"
    /\ win' = [win EXCEPT ![ZcSlot] = "none"]
    /\ slots' = saved /\ saved' = NoSlots({})
    /\ zeroFlag' = FALSE
    /\ UNCHANGED <<ret, after, goal, todo, scan, connected, layout, prevLayout,
                   focused, pending, rx, xid, manager, sdkVars>>

-----------------------------------------------------------------------------
(* start_stream                                                            *)

\* frame_rx is set before anything can fail; a failed login leaves it set and
\* the channel not pending.
StartStream(c) ==
    /\ pc = "start" /\ c \in todo
    /\ todo' = todo \ {c}
    /\ ret' = "start"
    /\ \/ /\ c \in rx
          /\ UNCHANGED <<pc, rx, pending, session, orphan>>
       \/ /\ c \notin rx /\ ~xid
          /\ rx' = rx \cup {c} /\ pending' = pending \cup {c}
          /\ UNCHANGED <<pc, session, orphan>>
       \/ /\ c \notin rx /\ xid
          /\ rx' = rx \cup {c}
          /\ \E ok \in IF session THEN {TRUE} ELSE LoginOutcome :
                /\ IF session THEN UNCHANGED <<session, orphan>> ELSE NewMulti(ok)
                /\ pending' = IF ok THEN pending \cup {c} ELSE pending
                /\ pc' = IF ok THEN "zeroPending" ELSE "start"
    /\ UNCHANGED <<after, goal, scan, connected, layout, prevLayout, focused, slots,
                   saved, zeroFlag, x11Vars, chans, zero, previews, lost>>

EndStart ==
    /\ pc = "start" /\ todo = {}
    /\ pc' = after
    /\ UNCHANGED <<ret, after, goal, todo, scan, uiVars, x11Vars, sdkVars>>

-----------------------------------------------------------------------------
(* try_start_pending_x11_streams                                           *)

\* Its first part: the mosaic, once its window exists.
ZeroReady == zeroFlag /\ win[ZcSlot] # "none" /\ ~zero

StartPendingZero ==
    /\ pc = "zeroPending"
    /\ \/ /\ ~session
          /\ pc' = ret
          /\ UNCHANGED <<scan, zeroFlag, zero, previews>>
       \/ /\ session
          /\ scan' = pending
          /\ pc' = "pending"
          /\ \/ /\ ZeroReady
                /\ \E ok \in Outcome("zero") :
                      /\ zero' = ok /\ zeroFlag' = ok
                      /\ previews' = IF ok THEN previews \cup {ZeroPreview} ELSE previews
             \/ /\ ~ZeroReady
                /\ UNCHANGED <<zeroFlag, zero, previews>>
    /\ UNCHANGED <<ret, after, goal, todo, connected, layout, prevLayout, focused,
                   slots, saved, pending, rx, x11Vars, session, chans, lost, orphan>>

\* Mutated form: the channel is the window key in every layout.
KeysOfChannel(c) == {c}

\* The window key a channel is shown under: itself, or the slot that holds it.
KeysOf(c) ==
    IF layout = Single THEN {c} ELSE {s \in DOMAIN slots : slots[s] = c}

\* Its loop: an entry already playing is dropped, one whose window exists is
\* started, one that failed or has no window stays pending.
StartPending(c) ==
    /\ pc = "pending" /\ c \in scan
    /\ scan' = scan \ {c}
    /\ \/ /\ c \in MultiActive
          /\ pending' = pending \ {c}
          /\ UNCHANGED <<chans, previews, lost>>
       \/ /\ c \notin MultiActive
          /\ \E k \in KeysOf(c), ok \in Outcome("play") :
                /\ win[k] # "none"
                /\ StartChannel(c, k, ok)
                /\ pending' = IF ok THEN pending \ {c} ELSE pending
       \/ /\ c \notin MultiActive
          /\ \A k \in KeysOf(c) : win[k] = "none"
          /\ UNCHANGED <<pending, chans, previews, lost>>
    /\ UNCHANGED <<pc, ret, after, goal, todo, connected, layout, prevLayout, focused,
                   slots, saved, rx, zeroFlag, x11Vars, session, zero, orphan>>

EndPending ==
    /\ pc = "pending" /\ scan = {}
    /\ pc' = ret
    /\ UNCHANGED <<ret, after, goal, todo, scan, uiVars, x11Vars, sdkVars>>

-----------------------------------------------------------------------------
(* The central panel: show_single_view and show_multi_view                 *)

View ==
    /\ pc = "view"
    /\ ret' = "frame" /\ pc' = "zeroPending"
    /\ \/ /\ ~manager
          /\ UNCHANGED win
       \/ /\ manager /\ zeroFlag
          /\ Ensure({ZcSlot}, win)
       \/ /\ manager /\ ~zeroFlag /\ layout = Single
          /\ Ensure({focused}, HideExcept({focused}))
       \/ /\ manager /\ ~zeroFlag /\ layout # Single
          /\ Ensure(Slots(layout), win)
    /\ UNCHANGED <<after, goal, todo, scan, uiVars, xid, manager, sdkVars>>

-----------------------------------------------------------------------------
UserClick ==
    \/ Disconnect \/ StartAll \/ StopAll \/ ZeroOn \/ ZeroOff
    \/ \E l \in Layout : SelectLayout(l)
    \/ \E c \in Channel : ClickChannel(c) \/ CheckChannel(c) \/ UncheckChannel(c)

System ==
    \/ BeginFrame \/ BeginLayoutChange \/ NoClick \/ ZeroOffWindow \/ View
    \/ DropChannels \/ DropZero \/ DropSession \/ DropWindows
    \/ EndStart \/ StartPendingZero \/ EndPending
    \/ \E c \in Channel : StartStream(c) \/ StartPending(c)

Stopped == pc \in {"closed", "panicked"} /\ UNCHANGED vars

Next == System \/ UserClick \/ Connect \/ Exit \/ Stopped

Spec == Init /\ [][Next]_vars

\* update() asks for a repaint in every frame of the viewer, so frames keep
\* coming and each runs to its end; the user owes nothing.  The X server and the
\* device do not refuse the same window or preview for ever.
FairSpec ==
    /\ Spec /\ WF_vars(System)
    /\ SF_vars(View /\ \A s \in Slots(layout) : win'[s] # "none")
    /\ \A c \in Channel : SF_vars(StartPending(c) /\ c \in {p.ch : p \in chans'})

-----------------------------------------------------------------------------
(* Properties                                                              *)

\* Type invariant of the viewer's state.
TypeOK ==
    /\ pc \in {"frame", "panel", "zeroWindow", "view", "start", "zeroPending", "pending",
               "dropChannels", "dropZero", "dropSession", "dropWindows",
               "closed", "panicked"}
    /\ ret \in {"frame", "start"} /\ after \in {"panel", "view"}
    /\ goal \in {"layout", "disconnect", "exit"}
    /\ todo \subseteq Channel /\ scan \subseteq Channel
    /\ connected \in BOOLEAN /\ layout \in Layout /\ prevLayout \in Layout
    /\ focused \in Channel \cup {None}
    /\ DOMAIN slots \subseteq Cell /\ slots \in [DOMAIN slots -> Channel \cup {None}]
    /\ DOMAIN saved \subseteq Cell /\ saved \in [DOMAIN saved -> Channel \cup {None}]
    /\ pending \subseteq Channel /\ rx \subseteq Channel /\ zeroFlag \in BOOLEAN
    /\ xid \in BOOLEAN /\ manager \in BOOLEAN
    /\ win \in [Key -> {"none", "hidden", "shown"}]
    /\ session \in BOOLEAN /\ zero \in BOOLEAN /\ orphan \in BOOLEAN
    /\ chans \subseteq Preview
    /\ previews \cup lost \subseteq Preview \cup {ZeroPreview}

\* The program never destroys a window under a preview it has not asked the SDK to
\* stop: every path that destroys overlay windows (layout change, Disconnect, Canal
\* Zero off, exit) stops the previews that draw into them first, call by call.
PreviewWindowExists == \A p \in previews : win[p.win] # "none"

\* A preview nobody asked to stop can be stopped: HCNetSDKX11Multi lists it.  And
\* none runs outside a session that is logged out in the end, not even one whose
\* stop was refused: the handle of that is gone, the session's is not.
NoOrphanPreview ==
    /\ previews = chans \cup ZeroPreviews
    /\ previews \cup lost # {} => session


\* On the login screen, where the stream method may be switched to one whose
\* stop path knows nothing of X11, no X11 resource is left behind.
LoginScreenOwnsNothing ==
    (pc = "frame" /\ ~connected) =>
        /\ ~session /\ previews \cup lost = {}
        /\ ~manager /\ win = NoWindows
        /\ pending = {} /\ rx = {} /\ ~zeroFlag

\* The mosaic plays only while its checkbox is ticked: the user can stop it.
ZeroNeedsCheckbox == zero => zeroFlag

\* No channel is shown in two slots, nor would be after Canal Zero ends.
SlotsDistinct ==
    \A sl \in {slots, saved} : \A s, t \in DOMAIN sl :
        sl[s] = sl[t] /\ sl[s] # None => s = t

\* One preview per channel, and a channel that plays or waits to has its stream
\* state taken, so that no second start_stream is let through for it.
StreamsOwned ==
    /\ \A p, q \in chans : p.ch = q.ch => p = q
    /\ MultiActive \cup pending \subseteq rx

\* Every preview is drawn where grid_slots says its channel is; in the Single
\* layout, in the window of the channel.
CameraInItsSlot ==
    (layout = prevLayout /\ pc # "dropChannels") =>
        \A p \in chans :
            IF layout = Single THEN p.win = p.ch
            ELSE p.win \in DOMAIN slots /\ slots[p.win] = p.ch

\* grid_slots has one entry per cell of the layout on the screen.
SlotsFitLayout ==
    (connected /\ layout = prevLayout) => DOMAIN slots = Slots(layout)

\* A stream state is taken only by a channel that plays or waits to: another
\* click can start any other channel.
NoStuckStream == pc = "frame" => rx \subseteq MultiActive \cup pending

\* A channel shown in a slot of the grid plays as soon as the frame ends, or
\* waits to: a slot never shows a channel nobody is going to start.
SlotsStream == pc = "frame" => Assigned(slots) \subseteq MultiActive \cup pending

\* A channel waiting for the window of its grid slot is started in the end,
\* whatever the user clicks on meanwhile, unless it is removed from the grid.
PendingStarts ==
    \A c \in Channel :
        (c \in pending /\ IsAssigned(c)) ~>
            \/ c \in MultiActive
            \/ c \notin pending \/ ~IsAssigned(c)
            \/ layout = Single

\* The viewer uses the SDK and the X server as their protocol asks: every call
\* it makes is one the protocol allows in that state.
Protocol == INSTANCE SdkProtocol WITH
                windows <- {k \in Key : win[k] # "none"}

ProtocolSpec == Protocol!Spec

-----------------------------------------------------------------------------
(* The inductive invariant behind the safety properties                    *)

\* How far a teardown has come, and what an entry of the pending pass is.
ControlInv ==
    /\ pc \in {"dropZero", "dropSession", "dropWindows"} => chans = {}
    /\ pc \in {"dropSession", "dropWindows"} => ~zero
    /\ pc = "dropWindows" => ~session
    /\ pc = "zeroWindow" => ~zero /\ zeroFlag
    /\ IF pc = "pending" THEN session /\ scan \subseteq pending ELSE scan = {}

\* The previews of the SDK, their session and their windows.
PreviewInv ==
    /\ NoOrphanPreview
    /\ PreviewWindowExists

\* Without an api nothing is held, and the frame has only a way to its end.
LoginInv ==
    ~connected =>
        /\ ~session /\ ~manager /\ win = NoWindows
        /\ pending = {} /\ rx = {} /\ ~zeroFlag
        /\ pc \in {"frame", "view", "zeroPending", "dropChannels", "dropZero",
                   "dropSession", "dropWindows", "closed"}
        /\ pc = "zeroPending" => ret = "frame"
        /\ pc \in {"dropChannels", "dropZero", "dropSession", "dropWindows"} =>
              goal = "exit"

IInv == ControlInv /\ PreviewInv /\ LoginInv /\ SlotsDistinct /\ StreamsOwned
        /\ ZeroNeedsCheckbox
=============================================================================
