---------------------------- MODULE MCDigestAuth ----------------------------
(* An instance of DigestAuth for TLC: the two paths of the login. *)
EXTENDS DigestAuth

LoginPaths == {"deviceInfo", "channels"}
=============================================================================
