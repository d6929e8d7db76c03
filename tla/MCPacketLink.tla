---------------------------- MODULE MCPacketLink ----------------------------
(* PacketLink for TLC. *)
EXTENDS PacketLink
=============================================================================
