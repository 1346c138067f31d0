---------------------------- MODULE MCRtspSession ----------------------------
(* Instances of RtspSession for TLC. *)
EXTENDS RtspSession

AllFaults == {"refused", "status", "drop", "challenge", "lateBody", "early", "text"}
=============================================================================
