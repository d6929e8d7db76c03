----------------------------- MODULE Handshake -----------------------------
(***************************************************************************)
(* The handshake that opens a radio session: radio/src/apex_connection.c   *)
(* driven by the radio threads of both ends (apex_radio_probe.c).  Every   *)
(* message carries the nonces it is about and is authenticated, so a       *)
(* message is just its kind and its nonces.                                *)
(*                                                                         *)
(*   keyboard            HELLO(k)  ->              receiver                *)
(*   WAIT_CHALLENGE   <- CHALLENGE(k,r)            WAIT_HELLO              *)
(*   WAIT_READY          CONFIRM(k,r) ->           WAIT_CONFIRM            *)
(*   ESTABLISHED      <- READY(k,r)                ESTABLISHED             *)
(*                                                                         *)
(* A packet travels straight into the one DMA buffer of the other radio,   *)
(* and is lost if the buffer is taken.  In an open session the keyboard    *)
(* sends DATA and the receiver answers it, whatever the packet is for.     *)
(* A nonce is 16 random bytes: it is new wherever it could still be        *)
(* recognised, and numbers nothing refers to any more are reused to keep   *)
(* the model finite.                                                       *)
(***************************************************************************)
EXTENDS Integers

CONSTANT
  MaxTrouble        \* a bound on losses and timeouts by loss, or Unbounded

Unbounded == -1

ASSUME TroubleAssumption == MaxTrouble \in Nat \cup {Unbounded}

VARIABLES
  kbd,      \* the keyboard's struct apex_connection
  rcv,      \* the receiver's struct apex_connection
  toRcv,    \* the packet in the receiver's DMA buffer, or None
  toKbd,    \* the packet in the keyboard's DMA buffer, or None
  trouble   \* how many packets may still be lost, and ends be put off by that

vars == <<kbd, rcv, toRcv, toKbd, trouble>>

Zero == 0             \* the nonce of memset and of a HELLO's second field
Nonces == 1..5        \* more than the places that can hold one at a time
None == [kind |-> "NONE", kn |-> Zero, rn |-> Zero]
KbdStates == {"OFF", "WAIT_CHALLENGE", "WAIT_READY", "ESTABLISHED"}
RcvStates == {"OFF", "WAIT_HELLO", "WAIT_CONFIRM", "ESTABLISHED"}
Connection(states) == [state : states, kn : Nonces \cup {Zero}, rn : Nonces \cup {Zero}]
Message(kinds) == [kind : kinds, kn : Nonces, rn : Nonces \cup {Zero}]

TypeOK ==
  /\ kbd \in Connection(KbdStates)
  /\ rcv \in Connection(RcvStates)
  /\ toRcv \in Message({"HELLO", "CONFIRM", "DATA"}) \cup {None}
  /\ toKbd \in Message({"CHALLENGE", "READY", "DATA"}) \cup {None}
  /\ trouble \in Nat \cup {Unbounded}

Init ==
  /\ kbd = [state |-> "OFF", kn |-> Zero, rn |-> Zero]
  /\ rcv = [state |-> "OFF", kn |-> Zero, rn |-> Zero]
  /\ toRcv = None /\ toKbd = None
  /\ trouble = MaxTrouble

Disturb ==
  /\ trouble # 0
  /\ trouble' = IF trouble = Unbounded THEN trouble ELSE trouble - 1

-----------------------------------------------------------------------------
(* apex_connection_start, emit and the radio *)

\* Mutation: the two nonces change places.
EmitSwapped(c, kind) == [kind |-> kind, kn |-> c.rn, rn |-> c.kn]

\* emit(): a HELLO carries no receiver nonce.
Emit(c, kind) == [kind |-> kind, kn |-> c.kn, rn |-> IF kind = "HELLO" THEN Zero ELSE c.rn]

Put(buffer, message) == IF buffer = None THEN message ELSE buffer

\* Both nonces a message is about are the ones of the connection.
SameNonces(m, c) == m.kn = c.kn /\ m.rn = c.rn

FreshKbdNonce == CHOOSE n \in Nonces : n \notin {kbd.kn, rcv.kn, toRcv.kn, toKbd.kn}
FreshRcvNonce == CHOOSE n \in Nonces : n \notin {kbd.rn, rcv.rn, toRcv.rn, toKbd.rn}

\* new_session() also empties the radio's own buffer.
KbdStart ==
  /\ kbd' = [state |-> "WAIT_CHALLENGE", kn |-> FreshKbdNonce, rn |-> Zero]
  /\ toKbd' = None
  /\ UNCHANGED <<rcv, toRcv>>

RcvStart ==
  /\ rcv' = [state |-> "WAIT_HELLO", kn |-> Zero, rn |-> FreshRcvNonce]
  /\ toRcv' = None
  /\ UNCHANGED <<kbd, toKbd>>

KbdPowerUp == kbd.state = "OFF" /\ KbdStart /\ UNCHANGED trouble
RcvPowerUp == rcv.state = "OFF" /\ RcvStart /\ UNCHANGED trouble

-----------------------------------------------------------------------------
(* The keyboard *)

\* apex_connection_request every few milliseconds until the session is open,
\* and from then on the packets of the session.
Requests == [WAIT_CHALLENGE |-> "HELLO", WAIT_READY |-> "CONFIRM", ESTABLISHED |-> "DATA"]

KbdSend ==
  /\ toKbd = None /\ kbd.state # "OFF"
  /\ toRcv' = Put(toRcv, Emit(kbd, Requests[kbd.state]))
  /\ UNCHANGED <<kbd, rcv, toKbd, trouble>>

\* Mutation: a READY opens the session whatever nonces it carries.
ReadyUnchecked == toKbd.kind = "READY"

AcceptsReady ==
  toKbd.kind = "READY" /\ SameNonces(toKbd, kbd)
    /\ kbd.state \in {"WAIT_READY", "ESTABLISHED"}

\* apex_connection_receive as the keyboard, and the reply it asks for.
KbdReceive ==
  /\ toKbd # None
  /\ toKbd' = None
  /\ LET confirmed == [kbd EXCEPT !.state = "WAIT_READY", !.rn = toKbd.rn]
     IN  \/ /\ toKbd.kind = "CHALLENGE" /\ toKbd.kn = kbd.kn
            /\ kbd.state = "WAIT_CHALLENGE"
            /\ kbd' = confirmed
            /\ toRcv' = Put(toRcv, Emit(confirmed, "CONFIRM"))
         \/ /\ toKbd.kind = "CHALLENGE" /\ SameNonces(toKbd, kbd)
            /\ kbd.state = "WAIT_READY"
            /\ toRcv' = Put(toRcv, Emit(kbd, "CONFIRM"))
            /\ UNCHANGED kbd
         \/ /\ AcceptsReady
            /\ kbd' = [kbd EXCEPT !.state = "ESTABLISHED"]
            /\ UNCHANGED toRcv
         \/ /\ ~AcceptsReady
            /\ toKbd.kind = "CHALLENGE" =>
                 /\ ~(toKbd.kn = kbd.kn /\ kbd.state = "WAIT_CHALLENGE")
                 /\ ~(SameNonces(toKbd, kbd) /\ kbd.state = "WAIT_READY")
            /\ UNCHANGED <<kbd, toRcv>>
  /\ UNCHANGED <<rcv, trouble>>

\* 400 ms (100 ms in a session) without a valid packet, because the receiver
\* is not, or no longer, in the attempt or session of the keyboard.
KbdHopeless ==
  /\ kbd.state \in {"WAIT_READY", "ESTABLISHED"}
  /\ ~(rcv.state \in {"WAIT_CONFIRM", "ESTABLISHED"} /\ SameNonces(rcv, kbd))

KbdSilence == KbdHopeless /\ KbdStart /\ UNCHANGED trouble

\* A timeout although the receiver is there, a reset of the session, or
\* 1500 ms of discovery that met nobody.
KbdTimeout == kbd.state # "OFF" /\ Disturb /\ KbdStart

-----------------------------------------------------------------------------
(* The receiver *)

\* Mutation: only the first CONFIRM is answered, not its repetitions.
AnswersConfirmOnce ==
  toRcv.kind = "CONFIRM" /\ SameNonces(toRcv, rcv) /\ rcv.state = "WAIT_CONFIRM"

AcceptsHello == toRcv.kind = "HELLO" /\ rcv.state = "WAIT_HELLO"
RepeatsHello ==
  toRcv.kind = "HELLO" /\ rcv.state = "WAIT_CONFIRM" /\ toRcv.kn = rcv.kn
AnswersConfirm ==
  toRcv.kind = "CONFIRM" /\ SameNonces(toRcv, rcv)
    /\ rcv.state \in {"WAIT_CONFIRM", "ESTABLISHED"}
AnswersData ==
  toRcv.kind = "DATA" /\ SameNonces(toRcv, rcv) /\ rcv.state = "ESTABLISHED"

\* apex_connection_receive as the receiver, and the reply it asks for.
RcvReceive ==
  /\ toRcv # None
  /\ toRcv' = None
  /\ LET challenged == [rcv EXCEPT !.state = "WAIT_CONFIRM", !.kn = toRcv.kn]
     IN  \/ /\ AcceptsHello
            /\ rcv' = challenged
            /\ toKbd' = Put(toKbd, Emit(challenged, "CHALLENGE"))
         \/ /\ RepeatsHello
            /\ toKbd' = Put(toKbd, Emit(rcv, "CHALLENGE"))
            /\ UNCHANGED rcv
         \/ /\ AnswersConfirm
            /\ rcv' = [rcv EXCEPT !.state = "ESTABLISHED"]
            /\ toKbd' = Put(toKbd, Emit(rcv, "READY"))
         \/ /\ AnswersData
            /\ toKbd' = Put(toKbd, Emit(rcv, "DATA"))
            /\ UNCHANGED rcv
         \/ /\ ~AcceptsHello /\ ~RepeatsHello /\ ~AnswersConfirm /\ ~AnswersData
            /\ UNCHANGED <<rcv, toKbd>>
  /\ UNCHANGED <<kbd, trouble>>

RcvHopeless ==
  \/ /\ rcv.state = "WAIT_CONFIRM"
     /\ ~(kbd.kn = rcv.kn /\ (kbd.state = "WAIT_CHALLENGE" \/ kbd.rn = rcv.rn))
  \/ /\ rcv.state = "ESTABLISHED"
     /\ ~SameNonces(kbd, rcv)

RcvSilence == RcvHopeless /\ RcvStart /\ UNCHANGED trouble

RcvTimeout == rcv.state # "OFF" /\ Disturb /\ RcvStart

-----------------------------------------------------------------------------
LosePacket ==
  /\ Disturb
  /\ \/ toRcv # None /\ toRcv' = None /\ UNCHANGED toKbd
     \/ toKbd # None /\ toKbd' = None /\ UNCHANGED toRcv
  /\ UNCHANGED <<kbd, rcv>>

Settle == trouble # 0 /\ trouble' = 0 /\ UNCHANGED <<kbd, rcv, toRcv, toKbd>>

Keyboard == KbdPowerUp \/ KbdSend \/ KbdReceive \/ KbdSilence
Receiver == RcvPowerUp \/ RcvReceive \/ RcvSilence
Environment == KbdTimeout \/ RcvTimeout \/ LosePacket \/ Settle

Next == Keyboard \/ Receiver \/ Environment

Spec == Init /\ [][Next]_vars

(* The threads of both ends loop for ever: they read what arrives, repeat   *)
(* their request and run their timeouts.                                    *)
Fairness ==
  /\ WF_vars(KbdPowerUp) /\ WF_vars(KbdReceive) /\ WF_vars(KbdSend)
  /\ WF_vars(KbdSilence)
  /\ WF_vars(RcvPowerUp) /\ WF_vars(RcvReceive) /\ WF_vars(RcvSilence)

FairSpec == Spec /\ Fairness

-----------------------------------------------------------------------------
(* Properties *)

NoSession == <<Zero, Zero>>
Session == Nonces \X Nonces
SessionOf(c) == IF c.state = "ESTABLISHED" THEN <<c.kn, c.rn>> ELSE NoSession

\* The keyboard can still open its session: the receiver is in it, or its
\* READY has arrived and has not been read.
Offer ==
  IF /\ kbd.state = "WAIT_READY"
     /\ \/ rcv.state = "ESTABLISHED" /\ SameNonces(rcv, kbd)
        \/ toKbd.kind = "READY" /\ SameNonces(toKbd, kbd)
  THEN <<kbd.kn, kbd.rn>> ELSE NoSession

Promise == INSTANCE Sessions
  WITH kbdSession <- SessionOf(kbd), rcvSession <- SessionOf(rcv), offer <- Offer

(* The handshake keeps what the rest of the radio code relies on, whatever  *)
(* is lost and whoever restarts: the receiver opens a session first and the *)
(* keyboard only ever follows it into that one.                             *)
ImplementsSessions == Promise!Spec

Together == kbd.state = "ESTABLISHED" /\ rcv.state = "ESTABLISHED" /\ SameNonces(kbd, rcv)

(* Once nothing is lost any more, the two ends open a session with each     *)
(* other and keep it: no combination of half-open attempts blocks them.     *)
EventuallyTogether == trouble = 0 ~> []Together
=============================================================================
