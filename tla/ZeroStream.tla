------------------------------ MODULE ZeroStream ------------------------------
(***************************************************************************)
(* zero_channel_stream_loop (playctrl_stream.rs): one thread that looks    *)
(* for the id under which a recorder has its zero channel.  Each failure   *)
(* of run_zero_channel is classified by the text of the error: give up,    *)
(* take the next id, or wait and try the same id again, 1, 2, 4 ... 30 s.  *)
(* A session that is established reads packets (NalBuffer) until it ends.  *)
(*                                                                         *)
(* An error is the set of the words that classify_zero_channel_error looks *)
(* for and finds in it.  The text quotes the answer of the recorder, so the *)
(* digits of a nonce or a session may be among them.                       *)
(***************************************************************************)
EXTENDS NalBuffer

CONSTANTS
    Ids,        \* channel_ids_to_try
    Errors      \* the errors run_zero_channel returns

ASSUME ZeroAssumption == Ids \in Seq(STRING) /\ Ids # <<>>

VARIABLES
    code,       \* there is a verification code
    pc,         \* "try", "loop", "read" (within a session), "sleep", "ended" or
                \* "panicked"
    n,          \* the position of the present id
    backoff_secs,
    remaining,  \* of sleep_with_stop, in seconds
    id_errors,
    stop,
    served      \* history: a session ended normally

idVars      == <<n, backoff_secs, remaining, id_errors>>
vars        == <<code, pc, idVars, stop, served, bufVars>>

MAX_BACKOFF_SECS == 30
Least(a, b) == IF a < b THEN a ELSE b

\* classify_zero_channel_error: the first of its lists that has a word of the error.
Classify(e) ==
    IF e \cap {"953", "404", "461", "462"} # {} THEN "NotSupported"
    ELSE IF e \cap {"401", "403", "unauthorized"} # {} THEN "AuthFailed"
    ELSE IF e \cap {"refused", "timed out", "timeout"} # {} THEN "ConnectionRefused"
    ELSE IF e \cap {"describe failed", "setup failed"} # {} THEN "NotSupported"
    ELSE "StreamError"

-----------------------------------------------------------------------------
Init ==
    /\ code \in BOOLEAN /\ pc = (IF code THEN "try" ELSE "ended")
    /\ n = 1 /\ backoff_secs = 1 /\ remaining = 0 /\ id_errors = <<>> /\ stop = FALSE
    /\ served = FALSE
    /\ nal_buf = <<>> /\ frame_count = 0 /\ decoded = 0

NoteError(c) == id_errors' = Append(id_errors, <<Ids[n], c>>)

\* The break of the inner loop: the next id, with a backoff of its own.
NextId ==
    /\ IF n < Len(Ids) THEN pc' = "try" /\ n' = n + 1 ELSE pc' = "ended" /\ n' = n
    /\ backoff_secs' = 1
    /\ UNCHANGED remaining

\* sleep_with_stop, and the backoff of the next time.
WaitLonger ==
    /\ pc' = "sleep" /\ remaining' = backoff_secs
    /\ backoff_secs' = Least(2 * backoff_secs, MAX_BACKOFF_SECS)
    /\ UNCHANGED <<n, id_errors>>

\* Mutated form: a refused connection ends the search.
HandleRefused(c) ==
    \/ c = "NotSupported" /\ NoteError(c) /\ NextId
    \/ /\ c \in {"AuthFailed", "ConnectionRefused"} /\ NoteError(c)
       /\ pc' = "ended" /\ UNCHANGED <<n, backoff_secs, remaining>>
    \/ c = "StreamError" /\ WaitLonger

\* What the loop does with a classified error.
Handle(c) ==
    \/ c \in {"NotSupported", "ConnectionRefused"} /\ NoteError(c) /\ NextId
    \/ /\ c = "AuthFailed" /\ NoteError(c)
       /\ pc' = "ended" /\ UNCHANGED <<n, backoff_secs, remaining>>
    \/ c = "StreamError" /\ WaitLonger

\* RtspSession::connect and the decoder: a session, an error, or a panic (a text
\* quoted from an answer is cut inside a character).
Connect ==
    /\ pc = "try" /\ ~stop
    /\ \/ /\ pc' = "loop" /\ Fresh(nal_buf', frame_count', decoded')
          /\ UNCHANGED idVars
       \/ pc' = "panicked" /\ UNCHANGED <<idVars, bufVars>>
       \/ \E e \in Errors : Handle(Classify(e)) /\ UNCHANGED bufVars
    /\ UNCHANGED <<code, stop, served>>

\* Both loops look at the flag before a session.
SeeStop ==
    /\ pc = "try" /\ stop /\ pc' = "ended"
    /\ UNCHANGED <<code, idVars, stop, served, bufVars>>

\* The loop of the session looks at the flag and waits for a packet.
AwaitPacket ==
    /\ pc = "loop" /\ ~stop /\ pc' = "read"
    /\ UNCHANGED <<code, idVars, stop, served, bufVars>>

\* A packet; the first decoded picture needs a scaler, whose failure is the only
\* error of a session that is established.
ReadPacket ==
    /\ pc = "read"
    /\ \E part \in Part, size \in Sizes : RtpPacket(part, size)
    /\ \/ pc' = "loop" /\ UNCHANGED idVars
       \/ decoded' # decoded /\ Handle(Classify({}))
    /\ UNCHANGED <<code, stop, served>>

\* Ok: the flag is set, the stream ends, or reading fails.
EndSession ==
    /\ pc = "read" \/ (pc = "loop" /\ stop)
    /\ pc' = "ended" /\ served' = TRUE
    /\ UNCHANGED <<code, idVars, stop, bufVars>>

\* sleep_with_stop, in steps of a second instead of 100 ms.
Sleep ==
    /\ pc = "sleep"
    /\ remaining' = IF stop THEN 0 ELSE remaining - 1
    /\ pc' = IF remaining' = 0 THEN "try" ELSE "sleep"
    /\ UNCHANGED <<code, n, backoff_secs, id_errors, stop, served, bufVars>>

SetStop ==
    /\ ~stop /\ stop' = TRUE
    /\ UNCHANGED <<code, pc, idVars, served, bufVars>>

-----------------------------------------------------------------------------
Session == AwaitPacket \/ ReadPacket \/ EndSession

Thread == Connect \/ SeeStop \/ Session \/ Sleep

Next == Thread \/ SetStop

Spec == Init /\ [][Next]_vars

-----------------------------------------------------------------------------
(* Properties                                                              *)

\* The search does not give up early: the thread only returns by itself when a session
\* ended normally, an error was classified as a rejected password (AuthFailed) or every
\* id has its error in the summary.
EveryIdTried ==
    code /\ pc = "ended" /\ ~stop /\ ~served
    /\ (\A i \in DOMAIN id_errors : id_errors[i][2] # "AuthFailed")
    => Len(id_errors) = Len(Ids)
=============================================================================
