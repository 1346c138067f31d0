------------------------------ MODULE ZeroCascade ------------------------------
(***************************************************************************)
(* How HCNetSDKX11Multi finds the preview of the Canal Zero                *)
(* (hcnetsdk_x11_multi.rs): start_zero_channel enables it on the device,   *)
(* probes channel numbers, and offers the SDK one way to play it after     *)
(* another until it accepts one.  Each call of the SDK is a step; the SDK  *)
(* and the device answer as they like.  X11Viewer has the whole of it as   *)
(* one step that succeeds or fails.                                        *)
(***************************************************************************)
EXTENDS Naturals, Sequences, SequencesExt

CONSTANTS
    Urls,       \* generate_zero_channel_rtsp_urls
    Probed,     \* the channel numbers asked for a key frame
    Devices,    \* what the login may tell of the device (NET_DVR_DEVICEINFO_V30)
    Handle,     \* the handles of the SDK
    NoHandle,   \* None
    Faults      \* what may fail: "config", "stop"

FaultKinds == {"config", "stop"}

\* The fields of NET_DVR_DEVICEINFO_V30 that the search reads are u8.
ASSUME CascadeAssumption ==
    /\ NoHandle \notin Handle /\ Faults \subseteq FaultKinds
    /\ Urls \in Seq(STRING) /\ Probed \in Seq(Nat)
    /\ Devices \subseteq [byZeroChanNum : 0 .. 255, byStartChan : 0 .. 255, byChanNum : 0 .. 255,
                          byStartDChan : 0 .. 255, byIPChanNum : 0 .. 255]

Outcome(f) == IF f \in Faults THEN BOOLEAN ELSE {TRUE}

VARIABLES
    pc,             \* "out", "idle", "ensure", "probe", "try" or "logout"
    v30,            \* device_info.struDeviceV30
    zero_channel,   \* the handle in the Option, or NoHandle
    zero_key_ok,    \* the channels that answered the probe
    probes,         \* channels probed in this call
    tried,          \* attempts refused in this call
    result,         \* history: how the last call ended, or "none"
    enabled,        \* the device: byEnable
    window,         \* the overlay window exists
    playing,        \* the SDK: the handles of running previews
    lost            \* history: those whose NET_DVR_StopRealPlay was refused

callVars == <<zero_key_ok, probes, tried, result>>
sdkVars  == <<playing, lost>>
vars     == <<pc, v30, zero_channel, callVars, enabled, window, sdkVars>>

-----------------------------------------------------------------------------
(* The attempts, in their order                                            *)

V40(ch, stream, link, pm, dt, pt) ==
    [api |-> "V40", ch |-> ch, stream |-> stream, link |-> link, pm |-> pm, dt |-> dt, pt |-> pt]
V30(ch, stream, pt) == [api |-> "V30", ch |-> ch, stream |-> stream, pt |-> pt]
Special(url, link) == [api |-> "Special", url |-> url, link |-> link]
WithCallback(url) == [api |-> "SpecialCallback", url |-> url]

\* try_variations_for
Variations(ch) ==
    << V40(ch, "main", "TCP", 0, 0, 0), V40(ch, "main", "TCP", 1, 0, 0), V40(ch, "main", "TCP", 2, 0, 0),
       V40(ch, "main", "TCP", 0, 1, 0), V40(ch, "main", "RTSP", 0, 0, 1), V40(ch, "main", "RTSP", 0, 1, 1),
       V40(ch, "sub", "RTSP", 0, 0, 0), V40(ch, "sub", "TCP", 0, 0, 0), V40(ch, "sub", "TCP", 0, 1, 0),
       V40(ch, "sub", "RTSP", 0, 1, 1),
       V30(ch, "main", 0), V30(ch, "sub", 0), V30(ch, "main", 1), V30(ch, "sub", 1) >>

\* try_zero_rtsp_variations
RtspVariations(ch) ==
    << V30(ch, "main", 1), V30(ch, "sub", 1),
       V40(ch, "main", "RTSP", 0, 0, 0), V40(ch, "sub", "RTSP", 0, 0, 0),
       V40(ch, "main", "TCP", 1, 0, 0), V40(ch, "main", "TCP", 2, 0, 0) >>

\* All of them for each channel number, one number after another.
AllVariations(chs) ==
    [i \in 1 .. 14 * Len(chs) |-> Variations(chs[(i - 1) \div 14 + 1])[((i - 1) % 14) + 1]]

AddNew(cand, ch) == IF ch \in ToSet(cand) THEN cand ELSE Append(cand, ch)

\* zero_channel_candidates: the numbers of its loop are all new.
Candidates(d) ==
    LET zero == [i \in 1 .. d.byZeroChanNum |-> 128 + i]
        cand1 == AddNew(zero, d.byStartDChan + d.byIPChanNum)
        cand2 == AddNew(cand1, d.byStartChan + d.byChanNum + d.byIPChanNum)
        cand3 == AddNew(cand2, d.byStartChan + d.byChanNum)
        cand4 == AddNew(cand3, d.byStartDChan)
    IN AddNew(cand4, 1)

\* The stages [a], [b] and [c] of start_zero_channel, which play it in the window.
WindowStages(confirmed) ==
    [i \in DOMAIN Urls |-> Special(Urls[i], "RTSP")] \o [i \in DOMAIN Urls |-> Special(Urls[i], "TCP")]
    \o AllVariations(confirmed)
    \o RtspVariations(1) \o RtspVariations(0)

\* Stage [d], without a window.
CallbackStage == [i \in DOMAIN Urls |-> WithCallback(Urls[i])]

\* Mutated form: the general candidates are left out when channels were confirmed.
CascadeConfirmed(d, confirmed) ==
    WindowStages(confirmed) \o CallbackStage
    \o (IF confirmed = <<>> THEN AllVariations(Candidates(d)) ELSE <<>>)

\* All stages; the last, [e], are the general candidates.
Cascade(d, confirmed) ==
    WindowStages(confirmed) \o CallbackStage \o AllVariations(Candidates(d))

-----------------------------------------------------------------------------
Init ==
    /\ pc = "out" /\ v30 \in Devices
    /\ zero_channel = NoHandle
    /\ zero_key_ok = <<>> /\ probes = 0 /\ tried = 0 /\ result = "none"
    /\ enabled \in BOOLEAN /\ window = FALSE
    /\ playing = {} /\ lost = {}

\* HCNetSDKX11Multi::new, for the device of the form.
Login ==
    /\ pc = "out" /\ pc' = "idle"
    /\ v30' \in Devices
    /\ UNCHANGED <<zero_channel, callVars, enabled, window, sdkVars>>

\* The window is created before the preview starts and goes after it was stopped
\* (X11Viewer has the windows).
MapWindow ==
    /\ pc \in {"out", "idle"} /\ zero_channel = NoHandle
    /\ window' = ~window
    /\ UNCHANGED <<pc, v30, zero_channel, callVars, enabled, sdkVars>>

\* stop_zero_channel takes the handle out of the Option before it asks the SDK, so
\* that a refusal loses it.
StopPreview ==
    /\ zero_channel' = NoHandle
    /\ \/ zero_channel = NoHandle /\ UNCHANGED sdkVars
       \/ zero_channel # NoHandle /\ playing' = playing \ {zero_channel} /\ UNCHANGED lost
       \/ /\ zero_channel # NoHandle /\ "stop" \in Faults
          /\ lost' = lost \cup {zero_channel} /\ UNCHANGED playing

\* Mutated form: the preview that runs is not stopped first.
StartZeroChannelAgain ==
    /\ pc = "idle" /\ window
    /\ zero_channel' = NoHandle /\ UNCHANGED sdkVars
    /\ zero_key_ok' = <<>> /\ probes' = 0 /\ tried' = 0
    /\ IF v30.byZeroChanNum = 0 THEN pc' = "idle" /\ result' = "unsupported"
                                ELSE pc' = "ensure" /\ result' = "none"
    /\ UNCHANGED <<v30, enabled, window>>

\* start_zero_channel, up to its first call of the SDK.
StartZeroChannel ==
    /\ pc = "idle" /\ window
    /\ StopPreview
    /\ zero_key_ok' = <<>> /\ probes' = 0 /\ tried' = 0
    /\ IF v30.byZeroChanNum = 0 THEN pc' = "idle" /\ result' = "unsupported"
                                ELSE pc' = "ensure" /\ result' = "none"
    /\ UNCHANGED <<v30, enabled, window>>

\* ensure_zero_channel_enabled with force_enable; an error is logged.
EnsureZeroChannelEnabled ==
    /\ pc = "ensure" /\ pc' = "probe"
    /\ \E read, written \in Outcome("config") : enabled' = (enabled \/ (read /\ written))
    /\ UNCHANGED <<v30, zero_channel, callVars, window, sdkVars>>

\* zero_make_key_frame of the next channel number.
ZeroMakeKeyFrame ==
    /\ pc = "probe" /\ probes < Len(Probed)
    /\ probes' = probes + 1
    /\ zero_key_ok' \in {zero_key_ok, Append(zero_key_ok, Probed[probes'])}
    /\ pc' = IF probes' = Len(Probed) THEN "try" ELSE "probe"
    /\ UNCHANGED <<v30, zero_channel, tried, result, enabled, window, sdkVars>>

Attempts == Cascade(v30, zero_key_ok)

\* The SDK refuses the next attempt: there is another one, or start_zero_channel bails.
Refused ==
    /\ pc = "try"
    /\ tried' = tried + 1
    /\ IF tried' = Len(Attempts) THEN pc' = "idle" /\ result' = "failed"
                                 ELSE UNCHANGED <<pc, result>>
    /\ UNCHANGED <<v30, zero_channel, zero_key_ok, probes, enabled, window, sdkVars>>

\* The SDK accepts the next attempt: the stages that follow are left out.
Accepted ==
    /\ pc = "try"
    /\ \E h \in Handle \ playing : zero_channel' = h /\ playing' = playing \cup {h}
    /\ pc' = "idle" /\ result' = "started"
    /\ UNCHANGED <<v30, zero_key_ok, probes, tried, enabled, window, lost>>

\* stop_zero_channel, from the checkbox.
StopZeroChannel ==
    /\ pc = "idle"
    /\ StopPreview
    /\ result' = "none"
    /\ UNCHANGED <<pc, v30, zero_key_ok, probes, tried, enabled, window>>

\* Drop: the preview is stopped, whatever the SDK says.
Drop ==
    /\ pc = "idle" /\ pc' = "logout"
    /\ StopPreview
    /\ result' = "none"
    /\ UNCHANGED <<v30, zero_key_ok, probes, tried, enabled, window>>

\* NET_DVR_Logout, which ends what is left in the session.
Logout ==
    /\ pc = "logout" /\ pc' = "out"
    /\ playing' = {} /\ lost' = {}
    /\ UNCHANGED <<v30, zero_channel, callVars, enabled, window>>

-----------------------------------------------------------------------------
Call == \/ StartZeroChannel \/ EnsureZeroChannelEnabled \/ ZeroMakeKeyFrame
        \/ Refused \/ Accepted

Next == Login \/ MapWindow \/ Call \/ StopZeroChannel \/ Drop \/ Logout

Spec == Init /\ [][Next]_vars

-----------------------------------------------------------------------------
(* Properties                                                              *)

\* The attempts that the comment of start_zero_channel lists, in a window and not.
InWindow(d, confirmed) ==
    {Special(url, link) : url \in ToSet(Urls), link \in {"RTSP", "TCP"}}
    \cup (UNION {ToSet(Variations(ch)) : ch \in ToSet(confirmed)})
    \cup ToSet(RtspVariations(1)) \cup ToSet(RtspVariations(0))
General(d) ==
    UNION {ToSet(Variations(ch)) :
           ch \in {128 + i : i \in 1 .. d.byZeroChanNum}
                  \cup {d.byStartDChan + d.byIPChanNum, d.byStartChan + d.byChanNum + d.byIPChanNum,
                        d.byStartChan + d.byChanNum, d.byStartDChan, 1}}

\* The user is told that there is no Canal Zero only after the SDK refused every way
\* to play it; and it is played without a window only after the SDK refused
\* every one of the stages [a] to [c], which play it in the window.
NothingSkipped ==
    LET refused == {Attempts[i] : i \in 1 .. tried}
    IN /\ result = "failed" =>
            InWindow(v30, zero_key_ok) \cup General(v30)
            \cup {WithCallback(url) : url \in ToSet(Urls)} \subseteq refused
       /\ result = "started" /\ Attempts[tried + 1].api = "SpecialCallback" =>
            InWindow(v30, zero_key_ok) \subseteq refused

\* Call by call, start_zero_channel keeps to what SdkProtocol allows.  A preview
\* whose stop was refused is lost, because nobody has its handle, and one without a
\* window counts for the window it was started for.
OfZero(handles) == {[ch |-> 0, win |-> "zero", handle |-> h] : h \in handles}

Protocol == INSTANCE SdkProtocol WITH
    session  <- pc # "out",
    windows  <- IF window THEN {"zero"} ELSE {},
    previews <- OfZero(playing \ lost),
    lost     <- OfZero(lost)

ProtocolSpec == Protocol!Spec
=============================================================================
