------------------------------ MODULE Channel -------------------------------
(***************************************************************************)
(* What the stream promises to its users in one direction: frames arrive   *)
(* in the order sent, each at most once, and none is missing as long as    *)
(* the session lasts.  At most two are under way: one that waits to be     *)
(* acknowledged and one that waits to be read.                             *)
(***************************************************************************)
EXTENDS Integers, Sequences

CONSTANT Frames

VARIABLES
  open,     \* the session that carries the frames
  frames    \* the frames sent and not yet read

vars == <<open, frames>>

Init == frames = <<>>

Send ==
  /\ Len(frames) < 2
  /\ \E f \in Frames : frames' = Append(frames, f)
  /\ UNCHANGED open

Read == frames # <<>> /\ frames' = Tail(frames) /\ UNCHANGED open

\* Only a change of session loses frames, the latest first.
Change ==
  /\ open' # open
  /\ \E n \in 0..Len(frames) : frames' = SubSeq(frames, 1, n)

Next == Send \/ Read \/ Change

Spec == Init /\ [][Next]_vars
=============================================================================
