----------------------------- MODULE MCActuation -----------------------------
(* An instance of Actuation for TLC: one key, the ends and the middle of the  *)
(* range of depths, and one record with a field out of range.                 *)
EXTENDS Actuation

Depths == {0, 1, 5, 20, 39}
Stored == {[step |-> 6, gap |-> 1, rt |-> 0, rtLast |-> 3, over |-> 39]}
=============================================================================
