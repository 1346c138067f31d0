--------------------------- MODULE ZeroStreamProofs ---------------------------
(* Proofs about ZeroStream, for any list of ids, any errors and any sizes and   *)
(* limits of the buffer: the search for the zero channel does not give up       *)
(* early, and the decoder gets the bytes in order.                              *)
EXTENDS ZeroStream, TLAPS

\* The classes of errors that occur (ZeroChannelError).
Class == {"NotSupported", "AuthFailed", "ConnectionRefused", "StreamError"}

\* Each id before the present one has left one error (zero_channel_stream_loop).
OneErrorEach ==
    /\ pc \in {"try", "loop", "read", "sleep", "ended", "panicked"} /\ n \in 1 .. Len(Ids)
    /\ id_errors \in Seq(STRING \X Class)
    /\ pc \notin {"ended", "panicked"} => Len(id_errors) = n - 1

SearchInv == OneErrorEach /\ EveryIdTried

\* The pieces that wait are numbered after those the decoder got and up to the
\* packets of the session (run_zero_channel).
Numbered ==
    /\ \A i \in DOMAIN nal_buf : nal_buf[i].n <= frame_count
    /\ decoded <= frame_count

BufferInv == BufferTypeOK /\ Numbered /\ InOrder

\* The list of ids has a length (channel_ids_to_try).
LEMMA IdsLength == Len(Ids) \in Nat \ {0} /\ \A i \in 1 .. Len(Ids) : Ids[i] \in STRING
BY ZeroAssumption

\* Every error has a class (classify_zero_channel_error).
LEMMA ClassifyClass == \A e : Classify(e) \in Class
BY DEF Classify, Class

\* id_errors.push adds one error (zero_channel_stream_loop).
LEMMA NoteErrorAddsOne ==
    ASSUME OneErrorEach, NEW c \in Class, NoteError(c)
    PROVE  id_errors' \in Seq(STRING \X Class) /\ Len(id_errors') = Len(id_errors) + 1
<1>1. <<Ids[n], c>> \in STRING \X Class
    BY IdsLength DEF OneErrorEach
<1> QED BY <1>1 DEF NoteError, OneErrorEach

\* The search ends where the errors say: one for each id, or the password is denied
\* (the match on the classified error).
LEMMA HandleKeeps ==
    ASSUME SearchInv, pc \in {"try", "read"}, NEW e, Handle(Classify(e)),
           UNCHANGED <<code, served, stop>>
    PROVE  SearchInv'
<1>0. ASSUME NEW c \in Class, NoteError(c)
      PROVE  id_errors' \in Seq(STRING \X Class) /\ Len(id_errors') = Len(id_errors) + 1
    BY <1>0, NoteErrorAddsOne DEF SearchInv
<1> USE IdsLength DEF SearchInv, OneErrorEach, EveryIdTried
<1>1. Len(id_errors) = n - 1 /\ n \in Nat
    OBVIOUS
<1>2. CASE /\ Classify(e) \in {"NotSupported", "ConnectionRefused"}
           /\ NoteError(Classify(e)) /\ NextId
    <2>1. id_errors' \in Seq(STRING \X Class) /\ Len(id_errors') = n
        BY <1>0, <1>1, <1>2, ClassifyClass
    <2>3. n' \in 1 .. Len(Ids) /\ pc' \in {"try", "ended"} /\ (pc' # "ended" => n' = n + 1)
        BY <1>1, <1>2 DEF NextId
    <2>4. pc' = "ended" => n = Len(Ids)
        BY <1>1, <1>2 DEF NextId
    <2>5. pc' # "ended" => Len(id_errors') = n' - 1
        BY <1>1, <2>1, <2>3
    <2>7. OneErrorEach'
        BY <2>1, <2>3, <2>5
    <2>6. EveryIdTried'
        BY <2>1, <2>4
    <2> QED BY <2>6, <2>7
<1>3. CASE /\ Classify(e) = "AuthFailed" /\ NoteError(Classify(e))
           /\ pc' = "ended" /\ UNCHANGED <<n, backoff_secs, remaining>>
    <2>1. id_errors' \in Seq(STRING \X Class) /\ Len(id_errors') = n
        BY <1>0, <1>1, <1>3, ClassifyClass
    <2>2. id_errors'[n][2] = "AuthFailed"
        BY <1>1, <1>3 DEF NoteError
    <2>3. n \in DOMAIN id_errors'
        BY <1>1, <2>1
    <2> QED BY <1>3, <2>1, <2>2, <2>3
<1>4. CASE Classify(e) = "StreamError" /\ WaitLonger
    BY <1>1, <1>4 DEF WaitLonger
<1> QED BY <1>2, <1>3, <1>4 DEF Handle

\* The search starts with the first id and without errors.
LEMMA SearchInit == Init => SearchInv
BY IdsLength DEF Init, SearchInv, OneErrorEach, EveryIdTried

\* Every step of the thread and of its owner keeps what the search rests on.
LEMMA SearchNext == SearchInv /\ [Next]_vars => SearchInv'
<1> SUFFICES ASSUME SearchInv, [Next]_vars PROVE SearchInv'
    OBVIOUS
<1> USE DEF SearchInv, OneErrorEach, EveryIdTried, idVars
<1>1. CASE Connect
    <2>1. pc = "try" /\ UNCHANGED <<code, stop, served>>
        BY <1>1 DEF Connect
    <2>2. CASE pc' = "loop" /\ UNCHANGED idVars
        BY <2>1, <2>2
    <2>4. CASE pc' = "panicked" /\ UNCHANGED idVars
        BY <2>1, <2>4
    <2>3. CASE \E e \in Errors : Handle(Classify(e))
        BY <2>1, <2>3, HandleKeeps
    <2> QED BY <1>1, <2>2, <2>3, <2>4 DEF Connect
<1>2. CASE SeeStop
    BY <1>2 DEF SeeStop
<1>3. CASE Session
    <2>1. CASE AwaitPacket
        BY <2>1 DEF AwaitPacket
    <2>2. CASE ReadPacket
        <3>1. pc = "read" /\ UNCHANGED <<code, stop, served>>
            BY <2>2 DEF ReadPacket
        <3>3. CASE pc' = "loop" /\ UNCHANGED idVars
            BY <3>1, <3>3
        <3>4. CASE Handle(Classify({}))
            <4>1. Classify({}) = "StreamError"
                BY DEF Classify
            <4>2. WaitLonger
                BY <3>4, <4>1 DEF Handle
            <4> QED BY <3>1, <4>2 DEF WaitLonger
        <3> QED BY <2>2, <3>3, <3>4 DEF ReadPacket
    <2>3. CASE EndSession
        BY <2>3 DEF EndSession
    <2> QED BY <1>3, <2>1, <2>2, <2>3 DEF Session
<1>4. CASE Sleep
    BY <1>4 DEF Sleep
<1>5. CASE SetStop
    BY <1>5 DEF SetStop
<1>6. CASE UNCHANGED vars
    BY <1>6 DEF vars
<1> QED BY <1>1, <1>2, <1>3, <1>4, <1>5, <1>6 DEF Next, Thread

\* A session starts with an empty buffer.
LEMMA FreshKeeps ==
    ASSUME nal_buf' = <<>>, frame_count' = 0, decoded' = 0
    PROVE  BufferInv'
BY DEF BufferInv, BufferTypeOK, Numbered, InOrder

\* What is put together from a packet is in order, and its last piece is not newer
\* than the packet (the match on the NAL type).
LEMMA AssembledInOrder ==
    ASSUME BufferInv, NEW p \in Piece \cup [n : Nat, part : {"other"}, size : Sizes],
           p.n = frame_count + 1
    PROVE  LET buf == Assembled(p) IN
           /\ buf \in Seq(Piece)
           /\ \A i \in DOMAIN buf : /\ decoded < buf[i].n /\ buf[i].n <= frame_count + 1
                                   /\ \A j \in 1 .. i - 1 : buf[j].n < buf[i].n
<1>0. ASSUME NEW i \in DOMAIN nal_buf PROVE nal_buf[i].n \in Nat
    <2>1. nal_buf[i] \in Piece
        BY DEF BufferInv, BufferTypeOK
    <2> QED BY <2>1 DEF Piece
<1> USE DEF BufferInv, BufferTypeOK, Numbered, InOrder, Piece
<1>1. CASE p.part = "start"
    <2>1. Assembled(p) = <<p>>
        BY <1>1 DEF Assembled
    <2> QED BY <1>1, <2>1
<1>2. CASE p.part = "other"
    <2>1. Assembled(p) = nal_buf
        BY <1>2 DEF Assembled
    <2> QED BY <1>0, <2>1
<1>3. CASE p.part \notin {"start", "other"}
    <2>1. Assembled(p) = Append(nal_buf, p)
        BY <1>3 DEF Assembled
    <2>2. p \in Piece /\ Append(nal_buf, p) \in Seq(Piece)
        BY <1>3
    <2>3. ASSUME NEW i \in DOMAIN Append(nal_buf, p)
          PROVE  \/ i \in DOMAIN nal_buf /\ Append(nal_buf, p)[i] = nal_buf[i]
                 \/ i = Len(nal_buf) + 1 /\ Append(nal_buf, p)[i] = p
        OBVIOUS
    <2>4. ASSUME NEW i \in DOMAIN Append(nal_buf, p), NEW j \in 1 .. i - 1
          PROVE  /\ j \in DOMAIN nal_buf /\ Append(nal_buf, p)[j] = nal_buf[j]
        BY <2>3
    <2> QED BY <1>0, <2>1, <2>2, <2>3, <2>4
<1> QED BY <1>1, <1>2, <1>3

\* A packet, sent to the decoder or not, keeps the order (send_packet, clear).
LEMMA RtpPacketKeeps ==
    ASSUME BufferInv, NEW part \in Part, NEW size \in Sizes, RtpPacket(part, size)
    PROVE  BufferInv'
<1> DEFINE p == [n |-> frame_count', part |-> part, size |-> size]
           buf == Assembled(p)
<1>1. frame_count' = frame_count + 1 /\ frame_count \in Nat /\ SendPacket(buf)
    BY DEF RtpPacket, BufferInv, BufferTypeOK
<1>2. p \in Piece \cup [n : Nat, part : {"other"}, size : Sizes] /\ p.n = frame_count + 1
    BY <1>1 DEF Piece, Part
<1>3. /\ buf \in Seq(Piece)
      /\ \A i \in DOMAIN buf : /\ decoded < buf[i].n /\ buf[i].n <= frame_count + 1
                              /\ \A j \in 1 .. i - 1 : buf[j].n < buf[i].n
    BY <1>2, AssembledInOrder
<1> HIDE DEF buf
<1>4. CASE Ready(buf)
    <2>1. nal_buf' = <<>> /\ decoded' = buf[Len(buf)].n /\ buf # <<>>
        BY <1>1, <1>4 DEF SendPacket, Ready
    <2>2. Len(buf) \in DOMAIN buf /\ buf[Len(buf)] \in Piece
        BY <1>3, <2>1
    <2>3. decoded' \in Nat /\ decoded' <= frame_count'
        BY <1>1, <1>3, <2>1, <2>2 DEF Piece
    <2> QED BY <1>1, <2>1, <2>3 DEF BufferInv, BufferTypeOK, Numbered, InOrder
<1>5. CASE ~Ready(buf)
    <2>1. nal_buf' = buf /\ decoded' = decoded
        BY <1>1, <1>5 DEF SendPacket
    <2>2. ~ (buf # <<>> /\ Length(buf) > Large)
        BY <1>5 DEF Ready
    <2> QED BY <1>1, <1>3, <2>1, <2>2 DEF BufferInv, BufferTypeOK, Numbered, InOrder
<1> QED BY <1>4, <1>5

\* Every step of the thread keeps what the order of the bytes rests on.
LEMMA BufferNext == BufferInv /\ [Next]_vars => BufferInv'
<1> SUFFICES ASSUME BufferInv, [Next]_vars PROVE BufferInv'
    OBVIOUS
<1>1. CASE UNCHANGED bufVars
    BY <1>1 DEF bufVars, BufferInv, BufferTypeOK, Numbered, InOrder
<1>2. CASE Connect
    BY <1>1, <1>2, FreshKeeps DEF Connect, Fresh
<1>3. CASE ReadPacket
    BY <1>3, RtpPacketKeeps DEF ReadPacket
<1> QED BY <1>1, <1>2, <1>3 DEF Next, Thread, Session, SeeStop, AwaitPacket, EndSession, Sleep, SetStop, vars

\* The thread only returns by itself when a session ended normally, the password was
\* denied, or every id has its error in the summary (zero_channel_stream_loop).
THEOREM EveryIdTriedAlways == Spec => []EveryIdTried
<1>1. SearchInv => EveryIdTried
    BY DEF SearchInv
<1> QED BY <1>1, SearchInit, SearchNext, PTL DEF Spec

\* The decoder gets the bytes of a session in their order and once at most, and the
\* buffer keeps its limit (run_zero_channel).
THEOREM InOrderAlways == Spec => []InOrder
<1>1. Init => BufferInv
    BY DEF Init, BufferInv, BufferTypeOK, Numbered, InOrder
<1>2. BufferInv => InOrder
    BY DEF BufferInv
<1> QED BY <1>1, <1>2, BufferNext, PTL DEF Spec
=============================================================================
