---------------------------- MODULE MCHandshake ----------------------------
(* Handshake for TLC. *)
EXTENDS Handshake
=============================================================================
