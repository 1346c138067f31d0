---------------------------- MODULE MCZeroCascade ----------------------------
(* Instances of ZeroCascade for TLC: two URLs for the 12 of the code, three   *)
(* of its eight probes, and three recorders: without a Canal Zero, with one    *)
(* and analog cameras, and with two and a range of IP cameras.                 *)
EXTENDS ZeroCascade, TLC

TwoUrls == <<"/Streaming/channels/001", "/zeroChannel=1">>
SomeProbes == <<1, 33, 129>>

Device(zero, startChan, chans, startDChan, ip) ==
    [byZeroChanNum |-> zero, byStartChan |-> startChan, byChanNum |-> chans,
     byStartDChan |-> startDChan, byIPChanNum |-> ip]

Recorders == {Device(0, 1, 4, 33, 0), Device(1, 1, 8, 0, 0), Device(2, 1, 0, 33, 16)}

Symmetric == Permutations(Handle)
=============================================================================
