---------------------------- MODULE MCRadioInput ----------------------------
(* RadioInput for TLC: the safety run leaves out what follows Settle, which *)
(* only repeats, without losses and events, what can happen before it.      *)
EXTENDS RadioInput

Troubled == trouble # 0
=============================================================================
