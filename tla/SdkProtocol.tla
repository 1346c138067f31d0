---------------------------- MODULE SdkProtocol ----------------------------
(***************************************************************************)
(* What the program promises the SDK and the X server, call by call: the   *)
(* order in which hcnetsdk.rs and x11_embed.rs may be used.  A login opens *)
(* a session; a preview is started in a session, on a window that exists,  *)
(* one per channel; a session ends when every preview in it was asked to   *)
(* stop, a window is destroyed when every preview that draws into it was.  *)
(*                                                                         *)
(* The SDK may refuse to stop a preview.  The program drops the handle all *)
(* the same, so such a preview is lost: it plays on, in a window nobody    *)
(* keeps for it, until the logout ends it.  That the window of a start is  *)
(* mapped (x11_multi.rs) is not promised: the Single layout breaks it.     *)
(***************************************************************************)
VARIABLES
    session,    \* logged in
    windows,    \* the overlay windows that exist
    previews,   \* the running previews nobody asked to stop, [ch, win]
    lost        \* those that play on after a stop the SDK refused

vars == <<session, windows, previews, lost>>

Init == session = FALSE /\ windows = {} /\ previews = {} /\ lost = {}

\* NET_DVR_Login_V40
Login ==
    /\ ~session
    /\ session' = TRUE
    /\ UNCHANGED <<windows, previews, lost>>

\* NET_DVR_Logout, which ends what is lost
Logout ==
    /\ session /\ previews = {}
    /\ session' = FALSE /\ lost' = {}
    /\ UNCHANGED <<windows, previews>>

\* XCreateWindow, for every cell that has no window yet
Open ==
    /\ windows \subseteq windows'
    /\ UNCHANGED <<session, previews, lost>>

\* NET_DVR_RealPlay_V40 and its variants
Start ==
    /\ session
    /\ \E p \in previews' :
          /\ previews' = previews \cup {p}
          /\ p.win \in windows
          /\ \A q \in previews : q.ch # p.ch
    /\ UNCHANGED <<session, windows, lost>>

\* NET_DVR_StopRealPlay, once for each preview that goes
Stop ==
    /\ previews' \subseteq previews
    /\ lost \subseteq lost' /\ lost' \subseteq lost \cup (previews \ previews')
    /\ UNCHANGED <<session, windows>>

\* XDestroyWindow
Close ==
    /\ windows' \subseteq windows
    /\ \A p \in previews : p.win \in windows'
    /\ UNCHANGED <<session, previews, lost>>

Next == Login \/ Logout \/ Open \/ Start \/ Stop \/ Close

Spec == Init /\ [][Next]_vars

\* What the protocol keeps out of the SDK: a preview in no session, be it lost, one
\* nobody asked to stop in a destroyed window, and two such of one channel.
Safe ==
    /\ previews \cup lost # {} => session
    /\ \A p \in previews : p.win \in windows
    /\ \A p, q \in previews : p.ch = q.ch => p = q
=============================================================================
