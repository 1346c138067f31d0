----------------------------- MODULE MCZeroStream -----------------------------
(* Instances of ZeroStream for TLC. *)
EXTENDS ZeroStream

ThreeIds == <<"001", "0", "1">>

\* A 401 whose nonce holds 404, a 454 whose session holds 401.
Quoting == { {"401", "unauthorized", "describe failed", "404"}, {"setup failed", "401"} }

\* 404 of DESCRIBE, 454 of SETUP, 461 of SETUP, a refused connection, a wrong
\* password, and what no list knows (PLAY, a reset connection, a host name).
Known == { {"404", "describe failed"}, {"setup failed"}, {"461", "setup failed"},
           {"refused"}, {"401", "unauthorized", "describe failed"}, {"403"}, {} } \cup Quoting
=============================================================================
