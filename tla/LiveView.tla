------------------------------ MODULE LiveView ------------------------------
(***************************************************************************)
(* What the viewer promises of the channels it decodes itself, whatever    *)
(* threads and queues lie behind: the picture a channel shows was decoded  *)
(* by the stream that channel has now, never by one that was stopped.      *)
(* Every start of a stream has an identity of its own.                     *)
(***************************************************************************)
EXTENDS Naturals

CONSTANTS
    Chan,       \* channels
    Stream      \* identities of streams; 0, "none", is not one of them

VARIABLES
    stream,     \* the stream of each channel
    picture     \* the stream that decoded the picture each channel shows

vars == <<stream, picture>>

Init == stream = [c \in Chan |-> 0] /\ picture = [c \in Chan |-> 0]

\* A stream no other channel has; the channel shows nothing yet.
Start(c) ==
    /\ stream[c] = 0 /\ picture[c] = 0
    /\ \E s \in Stream : /\ \A d \in Chan : stream[d] # s
                         /\ stream' = [stream EXCEPT ![c] = s]
    /\ UNCHANGED picture

Show(c) ==
    /\ stream[c] # 0
    /\ picture' = [picture EXCEPT ![c] = stream[c]]
    /\ UNCHANGED stream

\* Some channels stop, and their pictures go with them.
Stop(C) ==
    /\ stream'  = [c \in Chan |-> IF c \in C THEN 0 ELSE stream[c]]
    /\ picture' = [c \in Chan |-> IF c \in C THEN 0 ELSE picture[c]]

\* A layout change: the streams of some channels are replaced.
Replace(c) ==
    /\ stream[c] # 0
    /\ \E s \in Stream : /\ \A d \in Chan : stream[d] # s
                         /\ stream' = [stream EXCEPT ![c] = s]
    /\ picture' = [picture EXCEPT ![c] = 0]

Next == \/ \E c \in Chan : Start(c) \/ Show(c) \/ Replace(c)
        \/ \E C \in SUBSET Chan : Stop(C)

Spec == Init /\ [][Next]_vars

\* A channel shows nothing but its own, present stream, and no two channels
\* share one.
Fresh ==
    /\ \A c \in Chan : picture[c] \in {0, stream[c]}
    /\ \A c, d \in Chan : stream[c] = stream[d] /\ stream[c] # 0 => c = d
=============================================================================
