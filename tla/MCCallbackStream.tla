-------------------------- MODULE MCCallbackStream --------------------------
(* Instances of CallbackStream for TLC.  The real capacities are 64 and 2,   *)
(* and PlayM4 has some hundred ports: what matters is that each can run out. *)
EXTENDS CallbackStream, TLC

Symmetric == Permutations(Chan)
=============================================================================
