--------------------------- MODULE HandshakeProofs ---------------------------
(***************************************************************************)
(* The handshake keeps its promise, whatever is lost and whoever restarts. *)
(*                                                                         *)
(* The argument rests on the two DMA buffers: an end that has a packet to  *)
(* read sends nothing before it has read it, so that the buffers are never *)
(* both taken.  What the receiver finds is then what the keyboard, in the  *)
(* state it is in, would send again, or it is left over from before the    *)
(* keyboard started over.  A CONFIRM therefore meets a keyboard that waits *)
(* for this very session, or one that has given it up.                     *)
(***************************************************************************)
EXTENDS Handshake, TLAPS

-----------------------------------------------------------------------------
(* What follows from the promise alone, for any set of sessions             *)

CONSTANTS AnySession, Nowhere
VARIABLES mine, theirs, offered

Any == INSTANCE Sessions
  WITH Session <- AnySession, NoSession <- Nowhere,
       kbdSession <- mine, rcvSession <- theirs, offer <- offered

(* Two ends that are both in a session are in the same one, for any set of  *)
(* sessions: what new_session and apex_connection_receive must never break. *)
THEOREM SessionsAgree == Any!Spec => [](Any!TypeOK /\ Any!Agreement)
<1> DEFINE Inv == Any!TypeOK /\ Any!Agreement
<1>1. Any!Init => Inv
  BY DEF Any!Init, Any!TypeOK, Any!Agreement
<1>2. Inv /\ [Any!Next]_Any!vars => Inv'
  <2> SUFFICES ASSUME Any!TypeOK, Any!Agreement, [Any!Next]_Any!vars PROVE Inv'
    OBVIOUS
  <2> USE DEF Any!TypeOK, Any!Agreement
  <2>1. CASE Any!RcvEnter
    BY <2>1 DEF Any!RcvEnter
  <2>2. CASE Any!KbdEnter
    BY <2>2 DEF Any!KbdEnter
  <2>3. CASE Any!KbdLeave
    BY <2>3 DEF Any!KbdLeave
  <2>4. CASE Any!RcvLeave
    BY <2>4 DEF Any!RcvLeave
  <2>5. CASE Any!Withdraw
    BY <2>5 DEF Any!Withdraw
  <2>6. CASE UNCHANGED Any!vars
    BY <2>6 DEF Any!vars
  <2> QED BY <2>1, <2>2, <2>3, <2>4, <2>5, <2>6 DEF Any!Next
<1> QED BY <1>1, <1>2, PTL DEF Any!Spec

-----------------------------------------------------------------------------
(* The inductive invariant                                                  *)

\* Only one of the two buffers is ever taken.
OneBuffer == toRcv = None \/ toKbd = None

\* An end that has begun has a nonce, and one that took its peer's has both.
HasNonces ==
  /\ kbd.state = "OFF" => kbd.kn = Zero
  /\ kbd.state # "OFF" => kbd.kn \in Nonces
  /\ kbd.state \in {"WAIT_READY", "ESTABLISHED"} => kbd.rn \in Nonces
  /\ rcv.state # "OFF" => rcv.rn \in Nonces
  /\ rcv.state \in {"WAIT_CONFIRM", "ESTABLISHED"} => rcv.kn \in Nonces
  /\ toKbd # None => toKbd.rn \in Nonces

\* What the keyboard sends, and sends again until it has an answer.
Request == Emit(kbd, Requests[kbd.state])

\* What the receiver is about to read is the keyboard's present request, or one
\* from before the keyboard started over.
RequestIsCurrent ==
  toRcv # None =>
    \/ kbd.state # "OFF" /\ toRcv = Request
    \/ kbd.state = "WAIT_CHALLENGE" /\ toRcv.kn # kbd.kn

\* Before the keyboard has answered its challenge no session can be open.
NotYetOpen ==
  kbd.state = "WAIT_CHALLENGE" /\ rcv.state = "ESTABLISHED" => rcv.kn # kbd.kn

HandshakeInv == TypeOK /\ OneBuffer /\ HasNonces /\ RequestIsCurrent /\ NotYetOpen

(* There is always a nonce that nothing holds.                              *)
LEMMA FreshNonce ==
  ASSUME NEW a, NEW c, NEW d, NEW e
  PROVE  LET n == CHOOSE n \in Nonces : n \notin {a, c, d, e}
         IN  n \in Nonces /\ n \notin {a, c, d, e}
<1>1. \E n \in Nonces : n \notin {a, c, d, e}
  BY DEF Nonces
<1> QED BY <1>1

LEMMA FreshNonces ==
  /\ FreshKbdNonce \in Nonces /\ FreshKbdNonce \notin {kbd.kn, rcv.kn, toRcv.kn, toKbd.kn}
  /\ FreshRcvNonce \in Nonces /\ FreshRcvNonce \notin {kbd.rn, rcv.rn, toRcv.rn, toKbd.rn}
  BY FreshNonce DEF FreshKbdNonce, FreshRcvNonce

LEMMA InvInit == Init => HandshakeInv
  BY TroubleAssumption DEF Init, HandshakeInv, TypeOK, OneBuffer, HasNonces, RequestIsCurrent,
     NotYetOpen, Connection, KbdStates, RcvStates, Zero

(* The keyboard starts over with a nonce that nothing holds: what is under  *)
(* way is now left over, and the receiver is in none of its sessions.       *)
LEMMA KbdStartInv ==
  ASSUME HandshakeInv, KbdStart, trouble' \in Nat \cup {Unbounded}
  PROVE  HandshakeInv'
<1> DEFINE n == FreshKbdNonce
<1>1. n \in Nonces /\ n \notin {kbd.kn, rcv.kn, toRcv.kn, toKbd.kn}
  BY FreshNonces
<1> HIDE DEF n
<1>2. /\ kbd' = [state |-> "WAIT_CHALLENGE", kn |-> n, rn |-> Zero]
      /\ toKbd' = None /\ rcv' = rcv /\ toRcv' = toRcv
  BY DEF KbdStart, n
<1>3. TypeOK'
  BY <1>1, <1>2 DEF HandshakeInv, TypeOK, Connection, KbdStates, Zero
<1>4. RequestIsCurrent' /\ NotYetOpen'
  BY <1>1, <1>2 DEF RequestIsCurrent, NotYetOpen
<1>5. OneBuffer' /\ HasNonces'
  BY <1>1, <1>2 DEF HandshakeInv, OneBuffer, HasNonces
<1> QED BY <1>3, <1>4, <1>5 DEF HandshakeInv

(* The receiver starts over with a nonce that nothing holds.                *)
LEMMA RcvStartInv ==
  ASSUME HandshakeInv, RcvStart, trouble' \in Nat \cup {Unbounded}
  PROVE  HandshakeInv'
<1> DEFINE n == FreshRcvNonce
<1>1. n \in Nonces
  BY FreshNonces
<1> HIDE DEF n
<1>2. /\ rcv' = [state |-> "WAIT_HELLO", kn |-> Zero, rn |-> n]
      /\ toRcv' = None /\ kbd' = kbd /\ toKbd' = toKbd
  BY DEF RcvStart, n
<1>3. TypeOK'
  BY <1>1, <1>2 DEF HandshakeInv, TypeOK, Connection, RcvStates, Zero
<1>4. RequestIsCurrent' /\ NotYetOpen' /\ OneBuffer' /\ HasNonces'
  BY <1>1, <1>2 DEF HandshakeInv, RequestIsCurrent, NotYetOpen, OneBuffer, HasNonces
<1> QED BY <1>3, <1>4 DEF HandshakeInv

(* What the keyboard requests is a message to the receiver.                 *)
LEMMA RequestType ==
  ASSUME NEW k \in Connection(KbdStates), k.kn \in Nonces,
         NEW kind \in {"HELLO", "CONFIRM", "DATA"}
  PROVE  Emit(k, kind) \in Message({"HELLO", "CONFIRM", "DATA"})
  BY DEF Emit, Connection, Message

LEMMA RequestKinds ==
  ASSUME NEW s \in KbdStates, s # "OFF"
  PROVE  /\ Requests[s] \in {"HELLO", "CONFIRM", "DATA"}
         /\ Requests[s] = "HELLO" <=> s = "WAIT_CHALLENGE"
         /\ Requests[s] = "CONFIRM" <=> s = "WAIT_READY"
         /\ Requests[s] = "DATA" <=> s = "ESTABLISHED"
  BY DEF KbdStates, Requests

LEMMA KbdSendInv == ASSUME HandshakeInv, KbdSend PROVE HandshakeInv'
<1>1. Request \in Message({"HELLO", "CONFIRM", "DATA"})
  <2>1. kbd.state \in KbdStates /\ kbd.state # "OFF"
    BY DEF HandshakeInv, TypeOK, Connection, KbdSend
  <2> QED BY <2>1, RequestKinds, RequestType DEF Request, HandshakeInv, TypeOK, HasNonces
<1>2. toRcv' \in {toRcv, Request} /\ (toRcv' = toRcv \/ toRcv = None)
  BY DEF KbdSend, Put, Request
<1>3. UNCHANGED <<kbd, rcv, toKbd, trouble>> /\ toKbd = None /\ kbd.state # "OFF"
  BY DEF KbdSend
<1>4. Request' = Request
  BY <1>3 DEF Request, Emit
<1> QED BY <1>1, <1>2, <1>3, <1>4
        DEF HandshakeInv, TypeOK, OneBuffer, HasNonces, RequestIsCurrent, NotYetOpen

LEMMA KbdReceiveInv == ASSUME HandshakeInv, KbdReceive PROVE HandshakeInv'
<1>0. toRcv = None /\ toKbd # None /\ toKbd' = None /\ UNCHANGED <<rcv, trouble>>
  BY DEF KbdReceive, HandshakeInv, OneBuffer
<1>1. CASE /\ toKbd.kind = "CHALLENGE" /\ toKbd.kn = kbd.kn /\ kbd.state = "WAIT_CHALLENGE"
           /\ kbd' = [kbd EXCEPT !.state = "WAIT_READY", !.rn = toKbd.rn]
           /\ toRcv' = Put(toRcv, Emit(kbd', "CONFIRM"))
  <2>1. /\ kbd' \in Connection(KbdStates) /\ kbd'.state = "WAIT_READY"
        /\ kbd'.kn = kbd.kn /\ kbd.kn \in Nonces /\ kbd'.rn \in Nonces
    BY <1>0, <1>1 DEF HandshakeInv, TypeOK, HasNonces, Connection, KbdStates, Message
  <2>2. toRcv' = Emit(kbd', "CONFIRM")
    BY <1>0, <1>1 DEF Put
  <2>3. toRcv' = Request'
    BY <2>1, <2>2 DEF Request, Requests
  <2>4. toRcv' \in Message({"HELLO", "CONFIRM", "DATA"})
    BY <2>1, <2>2, RequestType
  <2> QED BY <1>0, <2>1, <2>3, <2>4
          DEF HandshakeInv, TypeOK, OneBuffer, HasNonces, RequestIsCurrent, NotYetOpen
<1>2. CASE /\ kbd.state = "WAIT_READY" /\ UNCHANGED kbd
           /\ toRcv' = Put(toRcv, Emit(kbd, "CONFIRM"))
  <2>1. toRcv' = Emit(kbd, "CONFIRM")
    BY <1>0, <1>2 DEF Put
  <2>2. toRcv' = Request'
    BY <1>2, <2>1 DEF Request, Requests
  <2>3. toRcv' \in Message({"HELLO", "CONFIRM", "DATA"})
    BY <1>2, <2>1, RequestType DEF HandshakeInv, TypeOK, HasNonces
  <2> QED BY <1>0, <1>2, <2>2, <2>3
          DEF HandshakeInv, TypeOK, OneBuffer, HasNonces, RequestIsCurrent, NotYetOpen
<1>3. CASE /\ AcceptsReady /\ kbd' = [kbd EXCEPT !.state = "ESTABLISHED"] /\ UNCHANGED toRcv
  BY <1>0, <1>3 DEF HandshakeInv, TypeOK, OneBuffer, HasNonces, RequestIsCurrent, NotYetOpen,
                    Connection, KbdStates, AcceptsReady
<1>4. CASE UNCHANGED <<kbd, toRcv>>
  BY <1>0, <1>4 DEF HandshakeInv, TypeOK, OneBuffer, HasNonces, RequestIsCurrent, NotYetOpen
<1> QED BY <1>1, <1>2, <1>3, <1>4 DEF KbdReceive

(* What the receiver answers is a message to the keyboard.                  *)
LEMMA AnswerType ==
  ASSUME NEW r \in Connection(RcvStates), r.kn \in Nonces, r.rn \in Nonces,
         NEW kind \in {"CHALLENGE", "READY", "DATA"}
  PROVE  /\ Emit(r, kind) \in Message({"CHALLENGE", "READY", "DATA"})
         /\ Emit(r, kind) = [kind |-> kind, kn |-> r.kn, rn |-> r.rn]
  BY DEF Emit, Connection, Message

(* The receiver's answer goes into an empty buffer.                         *)
LEMMA RcvReceiveInv == ASSUME HandshakeInv, RcvReceive PROVE HandshakeInv'
<1>0. toKbd = None /\ toRcv # None /\ toRcv' = None /\ UNCHANGED <<kbd, trouble>>
  BY DEF RcvReceive, HandshakeInv, OneBuffer
<1>1. toRcv \in Message({"HELLO", "CONFIRM", "DATA"})
  BY <1>0 DEF HandshakeInv, TypeOK
<1>2. ASSUME NEW kind \in {"CHALLENGE", "READY", "DATA"},
             rcv' \in Connection(RcvStates), rcv'.kn \in Nonces, rcv'.rn \in Nonces,
             toKbd' = Put(toKbd, Emit(rcv', kind)), NotYetOpen'
      PROVE  HandshakeInv'
  <2>1. toKbd' = Emit(rcv', kind)
    BY <1>0, <1>2 DEF Put
  <2>2. toKbd' \in Message({"CHALLENGE", "READY", "DATA"}) /\ toKbd'.rn \in Nonces
    BY <1>2, <2>1, AnswerType
  <2> QED BY <1>0, <1>2, <2>2 DEF HandshakeInv, TypeOK, OneBuffer, HasNonces, RequestIsCurrent
<1>3. CASE /\ AcceptsHello /\ rcv' = [rcv EXCEPT !.state = "WAIT_CONFIRM", !.kn = toRcv.kn]
           /\ toKbd' = Put(toKbd, Emit(rcv', "CHALLENGE"))
  <2>1. /\ rcv' \in Connection(RcvStates) /\ rcv'.kn \in Nonces /\ rcv'.rn \in Nonces
        /\ NotYetOpen'
    BY <1>1, <1>3 DEF HandshakeInv, TypeOK, HasNonces, AcceptsHello, Connection, RcvStates,
                      Message, NotYetOpen
  <2> QED BY <1>2, <1>3, <2>1
<1>4. CASE RepeatsHello /\ toKbd' = Put(toKbd, Emit(rcv, "CHALLENGE")) /\ UNCHANGED rcv
  BY <1>0, <1>2, <1>4 DEF RepeatsHello, HandshakeInv, TypeOK, HasNonces, NotYetOpen
<1>5. CASE /\ AnswersConfirm /\ rcv' = [rcv EXCEPT !.state = "ESTABLISHED"]
           /\ toKbd' = Put(toKbd, Emit(rcv, "READY"))
  <2>1. kbd.state = "WAIT_CHALLENGE" => rcv.kn # kbd.kn
    BY <1>0, <1>5 DEF AnswersConfirm, SameNonces, HandshakeInv, RequestIsCurrent, Request,
                      Requests, Emit
  <2>2. /\ rcv' \in Connection(RcvStates) /\ rcv'.kn = rcv.kn /\ rcv'.rn = rcv.rn
        /\ rcv.kn \in Nonces /\ rcv.rn \in Nonces
    BY <1>5 DEF AnswersConfirm, HandshakeInv, TypeOK, HasNonces, Connection, RcvStates
  <2>3. Emit(rcv, "READY") = Emit(rcv', "READY")
    BY <2>2 DEF Emit
  <2>4. NotYetOpen'
    BY <1>0, <2>1, <2>2 DEF NotYetOpen
  <2> QED BY <1>2, <1>5, <2>2, <2>3, <2>4
<1>6. CASE AnswersData /\ toKbd' = Put(toKbd, Emit(rcv, "DATA")) /\ UNCHANGED rcv
  BY <1>0, <1>2, <1>6 DEF AnswersData, HandshakeInv, TypeOK, HasNonces, NotYetOpen
<1>7. CASE UNCHANGED <<rcv, toKbd>>
  BY <1>0, <1>7 DEF HandshakeInv, TypeOK, OneBuffer, HasNonces, RequestIsCurrent, NotYetOpen
<1> QED BY <1>3, <1>4, <1>5, <1>6, <1>7 DEF RcvReceive

LEMMA InvNext == HandshakeInv /\ [Next]_vars => HandshakeInv'
<1> SUFFICES ASSUME HandshakeInv, [Next]_vars PROVE HandshakeInv'
  OBVIOUS
<1>0. (Disturb \/ UNCHANGED trouble) => trouble' \in Nat \cup {Unbounded}
  BY DEF Disturb, HandshakeInv, TypeOK, Unbounded
<1>1. CASE KbdPowerUp \/ KbdSilence \/ KbdTimeout
  BY <1>0, <1>1, KbdStartInv DEF KbdPowerUp, KbdSilence, KbdTimeout
<1>2. CASE RcvPowerUp \/ RcvSilence \/ RcvTimeout
  BY <1>0, <1>2, RcvStartInv DEF RcvPowerUp, RcvSilence, RcvTimeout
<1>3. CASE LosePacket
  BY <1>0, <1>3 DEF LosePacket, HandshakeInv, TypeOK, OneBuffer, HasNonces, RequestIsCurrent,
                    Request, Emit, NotYetOpen
<1>4. CASE Settle
  BY <1>4 DEF Settle, HandshakeInv, TypeOK, OneBuffer, HasNonces, RequestIsCurrent,
              Request, Emit, NotYetOpen
<1>5. CASE UNCHANGED vars
  BY <1>5 DEF vars, HandshakeInv, TypeOK, OneBuffer, HasNonces, RequestIsCurrent,
              Request, Emit, NotYetOpen
<1> QED BY <1>1, <1>2, <1>3, <1>4, <1>5, KbdSendInv, KbdReceiveInv, RcvReceiveInv
        DEF Next, Keyboard, Receiver, Environment

-----------------------------------------------------------------------------
(* The refinement                                                           *)

(* A session that is open, or on offer, is a session.                       *)
LEMMA SessionIs ==
  ASSUME HandshakeInv
  PROVE  /\ kbd.state = "ESTABLISHED" => SessionOf(kbd) \in Session
         /\ rcv.state = "ESTABLISHED" => SessionOf(rcv) \in Session
         /\ Offer # NoSession => kbd.state = "WAIT_READY" /\ Offer = <<kbd.kn, kbd.rn>>
         /\ Offer \in Session \cup {NoSession}
         /\ NoSession \notin Session
  BY DEF HandshakeInv, HasNonces, SessionOf, Session, Offer, NoSession, Nonces, Zero

(* Starting over, the keyboard leaves its session and drops its attempt.    *)
LEMMA KbdStartRefines ==
  ASSUME KbdStart PROVE Promise!KbdLeave
<1>1. kbd'.state = "WAIT_CHALLENGE" /\ rcv' = rcv
  BY DEF KbdStart
<1> QED BY <1>1 DEF Promise!KbdLeave, SessionOf, Offer, NoSession

(* Starting over, the receiver leaves a session the keyboard may still      *)
(* follow into.                                                             *)
LEMMA RcvStartRefines ==
  ASSUME RcvStart PROVE Promise!RcvLeave
<1>1. rcv'.state = "WAIT_HELLO" /\ UNCHANGED <<kbd, toKbd>>
  BY DEF RcvStart
<1> QED BY <1>1 DEF Promise!RcvLeave, SessionOf, Offer, NoSession, SameNonces

(* A READY that the keyboard accepts was on offer; nothing else it receives *)
(* opens a session or makes an offer.                                       *)
LEMMA KbdReceiveRefines ==
  ASSUME HandshakeInv, KbdReceive PROVE [Promise!Next]_Promise!vars
<1>0. toRcv = None /\ toKbd # None /\ toKbd' = None /\ UNCHANGED rcv
  BY DEF KbdReceive, HandshakeInv, OneBuffer
<1>1. CASE /\ toKbd.kn = kbd.kn /\ kbd.state = "WAIT_CHALLENGE"
           /\ kbd' = [kbd EXCEPT !.state = "WAIT_READY", !.rn = toKbd.rn]
  <2>1. kbd'.state = "WAIT_READY" /\ kbd'.kn = kbd.kn
    BY <1>1 DEF HandshakeInv, TypeOK, Connection
  <2>2. ~(rcv.state = "ESTABLISHED" /\ SameNonces(rcv, kbd'))
    BY <1>1, <2>1 DEF SameNonces, HandshakeInv, NotYetOpen
  <2>3. Offer = NoSession /\ Offer' = NoSession
    BY <1>0, <1>1, <2>1, <2>2 DEF Offer, SameNonces, None
  <2> QED BY <1>0, <1>1, <2>1, <2>3 DEF Promise!vars, SessionOf
<1>2. CASE UNCHANGED kbd /\ ~AcceptsReady
  <2>1. Offer' = Offer
    BY <1>0, <1>2 DEF Offer, SameNonces, AcceptsReady, None
  <2> QED BY <1>0, <1>2, <2>1 DEF Promise!vars, SessionOf
<1>3. CASE AcceptsReady /\ kbd' = [kbd EXCEPT !.state = "ESTABLISHED"]
  <2>1. kbd'.state = "ESTABLISHED" /\ kbd'.kn = kbd.kn /\ kbd'.rn = kbd.rn
    BY <1>3 DEF HandshakeInv, TypeOK, Connection
  <2>2. Offer' = NoSession /\ SessionOf(kbd') = <<kbd.kn, kbd.rn>>
    BY <2>1 DEF Offer, SessionOf
  <2>3. CASE kbd.state = "WAIT_READY"
    <3>1. Offer = <<kbd.kn, kbd.rn>> /\ SessionOf(kbd) = NoSession
      BY <1>3, <2>3 DEF Offer, SessionOf, AcceptsReady
    <3>2. Offer # NoSession
      BY <2>3, <3>1 DEF HandshakeInv, HasNonces, NoSession, Nonces, Zero
    <3>3. Promise!KbdEnter
      BY <1>0, <2>2, <3>1, <3>2 DEF Promise!KbdEnter, SessionOf
    <3> QED BY <3>3 DEF Promise!Next
  <2>4. CASE kbd.state = "ESTABLISHED"
    BY <1>0, <2>1, <2>2, <2>4 DEF Promise!vars, Offer, SessionOf
  <2> QED BY <1>3, <2>3, <2>4 DEF AcceptsReady
<1> QED BY <1>1, <1>2, <1>3 DEF KbdReceive, AcceptsReady

(* A CONFIRM finds the keyboard waiting for this very session, or starting  *)
(* over: the receiver enters, and only this session can be on offer.        *)
LEMMA RcvReceiveRefines ==
  ASSUME HandshakeInv, RcvReceive PROVE [Promise!Next]_Promise!vars
<1>0. toKbd = None /\ toRcv # None /\ toRcv' = None /\ UNCHANGED kbd
  BY DEF RcvReceive, HandshakeInv, OneBuffer
<1>1. CASE /\ UNCHANGED rcv
           /\ \/ toKbd' = toKbd
              \/ \E kind \in {"CHALLENGE", "DATA"} : toKbd' = Emit(rcv, kind)
  <2>1. toKbd'.kind # "READY" /\ toKbd.kind # "READY"
    BY <1>0, <1>1 DEF Emit, None
  <2>2. Offer' = Offer
    BY <1>0, <1>1, <2>1 DEF Offer, SameNonces
  <2> QED BY <1>0, <1>1, <2>2 DEF Promise!vars, SessionOf
<1>2. CASE /\ AcceptsHello /\ rcv' = [rcv EXCEPT !.state = "WAIT_CONFIRM", !.kn = toRcv.kn]
           /\ toKbd' = Emit(rcv', "CHALLENGE")
  <2>1. rcv'.state = "WAIT_CONFIRM" /\ rcv.state = "WAIT_HELLO"
    BY <1>2 DEF AcceptsHello, HandshakeInv, TypeOK, Connection
  <2>2. toKbd'.kind # "READY" /\ toKbd.kind # "READY"
    BY <1>0, <1>2 DEF Emit, None
  <2>3. Offer = NoSession /\ Offer' = NoSession
    BY <1>0, <2>1, <2>2 DEF Offer
  <2> QED BY <1>0, <2>1, <2>3 DEF Promise!vars, SessionOf
<1>3. CASE /\ AnswersConfirm /\ rcv' = [rcv EXCEPT !.state = "ESTABLISHED"]
           /\ toKbd' = Emit(rcv, "READY")
  <2>1. /\ rcv'.state = "ESTABLISHED" /\ rcv'.kn = rcv.kn /\ rcv'.rn = rcv.rn
        /\ rcv.kn \in Nonces /\ rcv.rn \in Nonces
    BY <1>3 DEF AnswersConfirm, HandshakeInv, TypeOK, HasNonces, Connection
  <2>2. toKbd'.kn = rcv.kn /\ toKbd'.rn = rcv.rn /\ toKbd.kind # "READY"
    BY <1>0, <1>3 DEF Emit, None
  <2>3. SessionOf(rcv)' = <<rcv.kn, rcv.rn>>
    BY <2>1 DEF SessionOf
  <2>4. CASE rcv.state = "ESTABLISHED"
    <3>1. Offer' = Offer
      BY <1>0, <2>1, <2>2, <2>4 DEF Offer, SameNonces
    <3> QED BY <1>0, <2>3, <2>4, <3>1 DEF Promise!vars, SessionOf
  <2>5. CASE rcv.state = "WAIT_CONFIRM"
    <3>1. SessionOf(rcv) = NoSession /\ SessionOf(rcv)' \in Session
      BY <2>1, <2>3, <2>5 DEF SessionOf, Session
    <3>2. kbd.state # "ESTABLISHED"
      BY <1>0, <1>3 DEF AnswersConfirm, HandshakeInv, RequestIsCurrent, Request, Requests, Emit
    <3>3. SessionOf(kbd) = NoSession /\ UNCHANGED SessionOf(kbd)
      BY <1>0, <3>2 DEF SessionOf
    <3>4. Offer' \in {SessionOf(rcv)', NoSession}
      BY <1>0, <2>1, <2>2, <2>3 DEF Offer, SameNonces
    <3>5. Promise!RcvEnter
      BY <3>1, <3>3, <3>4 DEF Promise!RcvEnter
    <3> QED BY <3>5 DEF Promise!Next
  <2> QED BY <1>3, <2>4, <2>5 DEF AnswersConfirm
<1>4. \A m : Put(toKbd, m) = m
  BY <1>0 DEF Put
<1> QED BY <1>0, <1>1, <1>2, <1>3, <1>4 DEF RcvReceive

(* A lost READY withdraws an offer the receiver has left; other losses      *)
(* change nothing.                                                          *)
LEMMA LosePacketRefines ==
  ASSUME LosePacket PROVE [Promise!Next]_Promise!vars
<1>1. UNCHANGED <<kbd, rcv>> /\ (toKbd' = None \/ toKbd' = toKbd)
  BY DEF LosePacket
<1>2. Offer' \in {Offer, NoSession}
  BY <1>1 DEF Offer, SameNonces, None
<1>3. CASE Offer' = NoSession
  BY <1>1, <1>3 DEF Promise!Withdraw, Promise!Next, SessionOf
<1>4. CASE Offer' = Offer
  BY <1>1, <1>4 DEF Promise!vars, SessionOf
<1> QED BY <1>2, <1>3, <1>4

LEMMA InitRefines == Init => Promise!Init
  BY DEF Init, Promise!Init, SessionOf, Offer, NoSession

LEMMA NextRefines ==
  HandshakeInv /\ [Next]_vars => [Promise!Next]_Promise!vars
<1> SUFFICES ASSUME HandshakeInv, [Next]_vars PROVE [Promise!Next]_Promise!vars
  OBVIOUS
<1>1. CASE KbdPowerUp \/ KbdSilence \/ KbdTimeout
  BY <1>1, KbdStartRefines DEF KbdPowerUp, KbdSilence, KbdTimeout, Promise!Next
<1>2. CASE RcvPowerUp \/ RcvSilence \/ RcvTimeout
  BY <1>2, RcvStartRefines DEF RcvPowerUp, RcvSilence, RcvTimeout, Promise!Next
<1>3. CASE KbdSend \/ Settle \/ UNCHANGED vars
  BY <1>3 DEF KbdSend, Settle, vars, Promise!vars, SessionOf, Offer, SameNonces
<1> QED BY <1>1, <1>2, <1>3, KbdReceiveRefines, RcvReceiveRefines, LosePacketRefines
        DEF Next, Keyboard, Receiver, Environment

(* The handshake keeps what the rest of the radio code relies on, whatever  *)
(* is lost, whoever restarts and however often: the receiver opens a session*)
(* first, and the keyboard only ever follows it into that one.              *)
THEOREM HandshakeKeepsPromise == Spec => ImplementsSessions
  BY InvInit, InvNext, InitRefines, NextRefines, PTL DEF Spec, ImplementsSessions, Promise!Spec

(* So two ends of the handshake that are both in a session are in the same. *)
THEOREM EndsAgree == Spec => []Promise!Agreement
<1> DEFINE Inv == Promise!TypeOK /\ Promise!Agreement
<1>1. Promise!Init => Inv
  BY DEF Promise!Init, Promise!TypeOK, Promise!Agreement
<1>2. Inv /\ [Promise!Next]_Promise!vars => Inv'
  <2> SUFFICES ASSUME Promise!TypeOK, Promise!Agreement, [Promise!Next]_Promise!vars PROVE Inv'
    OBVIOUS
  <2> QED
    BY DEF Promise!TypeOK, Promise!Agreement, Promise!Next, Promise!RcvEnter, Promise!KbdEnter,
           Promise!KbdLeave, Promise!RcvLeave, Promise!Withdraw, Promise!vars
<1> QED BY <1>1, <1>2, HandshakeKeepsPromise, PTL DEF ImplementsSessions, Promise!Spec
=============================================================================
