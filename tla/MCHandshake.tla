---------------------------- MODULE MCHandshake ----------------------------
(* Bounds for Handshake: two releases, with and without build metadata; one  *)
(* reading per tail field; agents that send no tail, part of it, and more    *)
(* than this release knows.                                                  *)
EXTENDS Handshake

MCValues == {"set"}
MCUnknown == "unknown"
MCBuilds == {0, 3, 6}
=============================================================================
