--------------------------- MODULE MCStreamWorker ---------------------------
(* Instances of StreamWorker for TLC: the real queue holds 2 frames and the  *)
(* real wait has 20 ticks of 100 ms, each of which looks at the stop flag.   *)
EXTENDS StreamWorker, TLC

Symmetric == Permutations(Chan)
=============================================================================
