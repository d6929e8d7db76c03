------------------------------ MODULE Sessions ------------------------------
(***************************************************************************)
(* What the handshake of radio/src/apex_connection.c promises to the rest  *)
(* of the radio code, whoever restarts and whatever is lost: the receiver  *)
(* enters a session first, and the keyboard can only follow it into that   *)
(* session, once, before it gives the attempt up.  Handshake implements    *)
(* this with messages; RadioInput assumes it, and implements it too.       *)
(***************************************************************************)
CONSTANTS Session, NoSession

VARIABLES
  kbdSession,   \* the session the keyboard is in, or NoSession
  rcvSession,   \* the session the receiver is in, or NoSession
  offer         \* the session the keyboard may still enter, or NoSession

vars == <<kbdSession, rcvSession, offer>>

Init == kbdSession = NoSession /\ rcvSession = NoSession /\ offer = NoSession

\* The receiver enters a session while the keyboard is in none; the keyboard
\* may have given up the attempt in the meantime.
RcvEnter ==
  /\ rcvSession = NoSession /\ kbdSession = NoSession
  /\ \E s \in Session : rcvSession' = s /\ offer' \in {s, NoSession}
  /\ UNCHANGED kbdSession

KbdEnter ==
  /\ kbdSession = NoSession /\ offer # NoSession
  /\ kbdSession' = offer
  /\ offer' = NoSession
  /\ UNCHANGED rcvSession

\* Leaving a session, or an attempt at one, takes the offer with it.
KbdLeave ==
  /\ kbdSession' = NoSession /\ offer' = NoSession
  /\ UNCHANGED rcvSession

\* The keyboard may still follow into a session the receiver has left.
RcvLeave ==
  /\ rcvSession' = NoSession
  /\ offer' \in {offer, NoSession}
  /\ UNCHANGED kbdSession

\* The last message of an attempt is lost after the receiver has left.
Withdraw == offer' = NoSession /\ UNCHANGED <<kbdSession, rcvSession>>

Next == RcvEnter \/ KbdEnter \/ KbdLeave \/ RcvLeave \/ Withdraw

Spec == Init /\ [][Next]_vars

TypeOK ==
  /\ kbdSession \in Session \cup {NoSession}
  /\ rcvSession \in Session \cup {NoSession}
  /\ offer \in Session \cup {NoSession}

(* Two ends that are both in a session are in the same one, and an offer    *)
(* that the receiver has not left is for the session it is in.              *)
Agreement ==
  /\ kbdSession # NoSession /\ rcvSession # NoSession => kbdSession = rcvSession
  /\ offer # NoSession => kbdSession = NoSession /\ rcvSession \in {offer, NoSession}
=============================================================================
