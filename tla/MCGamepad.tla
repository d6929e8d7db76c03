----------------------------- MODULE MCGamepad ------------------------------
(* Gamepad for TLC. *)
EXTENDS Gamepad
=============================================================================
