------------------------------ MODULE MCScanner ------------------------------
(* Instances of Scanner for TLC: how many failing exchanges, changes of the   *)
(* matrix, and wishes (settings, requests, power, restarts) may come, more of *)
(* one kind or of another.                                                    *)
EXTENDS Scanner

Trouble == {[fault |-> 2, key |-> 2, wish |-> 1], [fault |-> 1, key |-> 1, wish |-> 2]}
=============================================================================
