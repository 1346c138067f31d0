------------------------------ MODULE NalBuffer ------------------------------
(***************************************************************************)
(* The packet loop of run_zero_channel (playctrl_stream.rs): RTP payloads  *)
(* are put together to Annex B in nal_buf, which goes to the decoder when  *)
(* it is longer than 1024 bytes, or at every 30th packet when it is longer *)
(* than 100.  ZeroStream runs it as the session of an id.                  *)
(*                                                                         *)
(* A piece of the buffer is the payload of one packet: a whole NAL unit    *)
(* (or the several of a STAP-A), or the start, the middle or the end of    *)
(* one that is fragmented (FU-A).  Sizes are in units.                     *)
(***************************************************************************)
EXTENDS Naturals, Sequences, SequencesExt

CONSTANTS
    Sizes,      \* sizes of a payload
    Large,      \* 1024 bytes
    Small,      \* 100 bytes
    Period,     \* 30 packets
    MaxPackets  \* bound on the packets of a session

ASSUME BufferAssumption ==
    /\ Sizes \subseteq Nat \ {0} /\ {Large, Small, MaxPackets} \subseteq Nat
    /\ Period \in Nat \ {0}

VARIABLES
    nal_buf,
    frame_count,
    decoded     \* history: the number of the last piece the decoder got

bufVars == <<nal_buf, frame_count, decoded>>

Part == {"whole", "start", "middle", "end", "other"}
Piece == [n : Nat, part : Part \ {"other"}, size : Sizes]

Length(buf) == FoldSeq(LAMBDA p, sum : p.size + sum, 0, buf)

-----------------------------------------------------------------------------
\* A session begins.
Fresh(buf, count, last) == buf = <<>> /\ count = 0 /\ last = 0

\* The match on the NAL type: a start clears the buffer, the rest is appended, and
\* a type it does not know adds nothing.
Assembled(p) ==
    CASE p.part = "start" -> <<p>>
      [] p.part = "other" -> nal_buf
      [] OTHER -> Append(nal_buf, p)

\* Whether the buffer goes to the decoder after this packet.
Ready(buf) ==
    buf # <<>> /\ (Length(buf) > Large \/ (frame_count' % Period = 0 /\ Length(buf) > Small))

\* Mutated form: the buffer is kept when it was sent.
SendKeeping(buf) ==
    IF Ready(buf) THEN nal_buf' = buf /\ decoded' = buf[Len(buf)].n
                  ELSE nal_buf' = buf /\ UNCHANGED decoded

\* send_packet and clear.
SendPacket(buf) ==
    IF Ready(buf) THEN nal_buf' = <<>> /\ decoded' = buf[Len(buf)].n
                  ELSE nal_buf' = buf /\ UNCHANGED decoded

\* A packet of the camera: fragments may come in any order, with others lost, or
\* between whole units.
RtpPacket(part, size) ==
    /\ frame_count < MaxPackets
    /\ frame_count' = frame_count + 1
    /\ SendPacket(Assembled([n |-> frame_count', part |-> part, size |-> size]))

-----------------------------------------------------------------------------
(* Properties                                                              *)

BufferTypeOK ==
    /\ nal_buf \in Seq(Piece) /\ frame_count \in Nat /\ decoded \in Nat

\* The decoder gets the bytes in the order of the camera, and none twice; and what
\* waits for it between two packets never grows past its limit.
InOrder ==
    /\ \A i \in DOMAIN nal_buf :
        /\ decoded < nal_buf[i].n
        /\ \A j \in 1 .. i - 1 : nal_buf[j].n < nal_buf[i].n
    /\ ~ (nal_buf # <<>> /\ Length(nal_buf) > Large)
=============================================================================
