---------------------------- MODULE MCShellLink -----------------------------
(* Instances of ShellLink for TLC. *)
EXTENDS ShellLink
=============================================================================
