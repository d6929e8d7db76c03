----------------------------- MODULE PacketLink -----------------------------
(***************************************************************************)
(* What the radio threads (radio/src/apex_radio_probe.c) do with the       *)
(* counters of a session: reports and acknowledgements, the packets they   *)
(* encode ahead of time (prepared_input, prepared_ack), and whatever else  *)
(* uses a counter in between: poll packets of the keyboard, which stand    *)
(* for the gamepad, the shell and the hopping clock as well, and the       *)
(* receiver's own answers to the shell and to the clock.                   *)
(*                                                                         *)
(* Packets in the air may be lost, reordered and repeated, which is more   *)
(* than one radio channel does and what apex_packet.h promises to bear.    *)
(* The handshake is reduced to its outcome as in RadioInput: the receiver  *)
(* opens a session whose id nothing refers to, the keyboard may follow.    *)
(* USB takes reports from the receiver's buffer in one step.               *)
(***************************************************************************)
EXTENDS Delivery, Packet, FiniteSets

CONSTANTS
  Session,          \* the ids of sessions
  AirMax,           \* how many packets are under way at most
  MaxTrouble        \* a bound on the events of the environment

ASSUME LinkAssumption ==
  /\ NoSession \notin Session
  /\ AirMax \in Nat /\ MaxTrouble \in Nat

VARIABLES
  session,      \* the session record of each end (connection.session)
  offer,        \* the session the keyboard may establish, or NoSession
  air,          \* the packets under way
  queue,        \* the keyboard's report queue
  tx,           \* the keyboard's view of the receiver (delivery_tx)
  resync,       \* the keyboard's queue overflowed: it must start over
  prepared,     \* the packet each end has encoded ahead, or None
  rx,           \* the receiver's report buffer
  trouble,      \* how many events of the environment may still come
  sealed,       \* history: the nonces used for encryption
  reused,       \* history: a nonce has been used twice
  taken,        \* history: the nonces in the air that have been decoded
  replayed      \* history: a packet has been decoded twice

kbdVars == <<queue, tx>>
history == <<sealed, reused, taken, replayed>>
vars == <<session, offer, air, prepared, resync, kbdVars, rx, trouble, history>>

None == [type |-> "none"]

Bodies ==
  [frames : Seq(Frame)] \cup AckType
PacketTypes == {"input", "ack", "poll"}
Packets ==
  [session : Session, role : Roles, counter : Nat, type : PacketTypes, body : Bodies]

TypeOK ==
  /\ session \in [Roles -> SessionType(Session)]
  /\ offer \in Session \cup {NoSession}
  /\ air \in SUBSET Packets
  /\ queue \in QueueType /\ tx \in TxType /\ resync \in BOOLEAN
  /\ prepared \in [Roles -> Packets \cup {None}]
  /\ rx \in RxType
  /\ trouble \in Nat
  /\ reused \in BOOLEAN /\ replayed \in BOOLEAN

Init ==
  /\ session = [r \in Roles |-> SessionClear] /\ offer = NoSession /\ air = {}
  /\ queue = ZeroQueue /\ tx = TxReset /\ resync = FALSE
  /\ prepared = [r \in Roles |-> None] /\ rx = RxReset
  /\ trouble = MaxTrouble
  /\ sealed = {} /\ reused = FALSE /\ taken = {} /\ replayed = FALSE

Disturb == trouble > 0 /\ trouble' = trouble - 1

Kbd == session[KEYBOARD]
Rcv == session[RECEIVER]

-----------------------------------------------------------------------------
(* Encoding and sending *)

Nonce(p) == <<p.session, p.role, p.counter>>

\* One use of apex_connection_encode by an end; p is its packet.
Encodes(role, p) ==
  /\ session' = [session EXCEPT ![role] = Encoded(@)]
  /\ sealed' = sealed \cup {Nonce(p)}
  /\ reused' = (reused \/ Nonce(p) \in sealed)

EncodesNothing == UNCHANGED <<session, sealed, reused>>

\* A packet leaves, and is lost when the air is full; or radio_send refuses
\* it (-EAGAIN): the window of the slot is closed, the channel is another, or
\* the clock's deadline has passed.
Leaves(p, left) == air' = IF Cardinality(left) < AirMax THEN left \cup {p} ELSE left
Refused(left) == air' = left

\* Mutation: a packet encoded ahead is sent whatever was encoded since.
PreparedCurrentAnyway(role) ==
  LET p == prepared[role]
  IN  p # None /\ p.session = session[role].id

\* Any later encode, or a new session, invalidates what was encoded ahead.
PreparedCurrent(role) ==
  LET p == prepared[role]
  IN  /\ p # None
      /\ p.counter + 1 = session[role].tx_counter
      /\ p.session = session[role].id

-----------------------------------------------------------------------------
(* Sessions: new_session, and the outcome of the handshake *)

\* What is under way to this end goes with radio_stop.
Clear(role) ==
  /\ air' = {p \in air : p.role = role}
  /\ taken' = {n \in taken : n[2] = role}
  /\ session' = [session EXCEPT ![role] = SessionClear]
  /\ prepared' = [prepared EXCEPT ![role] = None]

\* The history keeps the nonces of the sessions an end is in or may still enter;
\* with the keys of the others nobody can encrypt.
SealedIn(ids) == {n \in sealed : n[1] \in ids}

KbdNewSession ==
  /\ Clear(KEYBOARD)
  /\ offer' = NoSession /\ resync' = FALSE
  /\ queue' = Disconnect(queue) /\ tx' = TxReset
  /\ sealed' = SealedIn({Rcv.id})
  /\ UNCHANGED <<rx, reused, replayed>>

RcvNewSession ==
  /\ Clear(RECEIVER)
  /\ rx' = RxReset
  /\ sealed' = SealedIn({Kbd.id, offer})
  /\ UNCHANGED <<offer, resync, kbdVars, reused, replayed>>

\* Mutation: an end that cannot send any more is still heard.
SilentWhenApart == Kbd.id # Rcv.id

\* Nothing valid need reach the other end any more: a session that only one
\* end is in, or one whose counters are used up at either end.
Silent == Kbd.id # Rcv.id \/ \E r \in Roles : ~CanEncode(session[r])

KbdRestart == resync /\ KbdNewSession /\ UNCHANGED trouble
KbdSilence == Ready(Kbd) /\ Silent /\ KbdNewSession /\ UNCHANGED trouble
KbdTimeout == Disturb /\ KbdNewSession
RcvSilence == Ready(Rcv) /\ Silent /\ Rcv.id # offer /\ RcvNewSession /\ UNCHANGED trouble
RcvTimeout == Disturb /\ RcvNewSession

Referenced ==
  {p.session : p \in air} \cup {session[r].id : r \in Roles}
  \cup {prepared[r].session : r \in {x \in Roles : prepared[x] # None}}

\* The nonces of a handshake are random: a new id refers to nothing before it.
RcvEstablish ==
  /\ ~Ready(Rcv) /\ ~Ready(Kbd)
  /\ \E s \in Session \ Referenced :
       /\ session' = [session EXCEPT ![RECEIVER] = SessionInit(s)]
       /\ offer' = s
       /\ sealed' = {n \in sealed : n[1] # s}
  /\ UNCHANGED <<air, prepared, resync, kbdVars, rx, trouble, reused, taken, replayed>>

KbdEstablish ==
  /\ ~Ready(Kbd) /\ offer # NoSession
  /\ session' = [session EXCEPT ![KEYBOARD] = SessionInit(offer)]
  /\ offer' = NoSession
  /\ queue' = StartSession(queue)
  /\ UNCHANGED <<air, prepared, tx, resync, rx, trouble, history>>

-----------------------------------------------------------------------------
(* The keyboard: reports, polls, and the report encoded ahead *)

Publish(t, d) ==
  /\ Disturb
  /\ queue' = Push(queue, t, d)
  /\ resync' = (resync \/ PushOverflows(queue, t, d))
  /\ UNCHANGED <<session, offer, air, prepared, tx, rx, history>>

\* What is encoded for the receiver when no report is due.
KbdPacket(frames) ==
  IF frames # <<>> THEN Encode(Kbd, KEYBOARD, "input", [frames |-> frames])
  ELSE Encode(Kbd, KEYBOARD, "poll", [frames |-> <<>>])

\* input_prepare_take: the packet encoded ahead if it carries just these frames.
UsesPrepared(frames) ==
  /\ Len(frames) = 1
  /\ PreparedCurrent(KEYBOARD)
  /\ prepared[KEYBOARD].body.frames[1].seq = frames[1].seq

\* delivery_tx.sent is only advanced by a transmission that took place.
Sends(frames, p) ==
  \/ Leaves(p, air) /\ tx' = IF frames = <<>> \/ frames[Len(frames)].seq <= tx.sent THEN tx
                             ELSE [tx EXCEPT !.sent = frames[Len(frames)].seq]
  \/ Refused(air) /\ UNCHANGED tx

\* The reports that are due, unless the clock comes first (apex_hop_link_next).
KbdSend ==
  /\ Ready(Kbd)
  /\ \E frames \in {Batch(tx, queue), <<>>} :
       \/ /\ UsesPrepared(frames)
          /\ Sends(frames, prepared[KEYBOARD])
          /\ prepared' = [prepared EXCEPT ![KEYBOARD] = None]
          /\ EncodesNothing
       \/ /\ ~UsesPrepared(frames) /\ CanEncode(Kbd)
          /\ Sends(frames, KbdPacket(frames))
          /\ prepared' = IF Len(frames) = 1 THEN [prepared EXCEPT ![KEYBOARD] = None]
                         ELSE prepared
          /\ Encodes(KEYBOARD, KbdPacket(frames))
  /\ UNCHANGED <<offer, queue, resync, rx, trouble, taken, replayed>>

\* input_prepare_next: the report after the last one sent, if it is the last
\* of the queue; its counter stays used even if it is never sent.
NextReport == {i \in 1..Len(queue.frames) : queue.frames[i].seq = tx.sent + 1}

\* Mutation: the counter of a packet that was encoded ahead is given back.
KbdPrepareRewinds ==
  /\ Ready(Kbd) /\ ~resync /\ ~PreparedCurrent(KEYBOARD)
  /\ queue.online /\ Len(queue.frames) \in NextReport /\ CanEncode(Kbd)
  /\ LET p == Encode(Kbd, KEYBOARD, "input", [frames |-> <<queue.frames[Len(queue.frames)]>>])
     IN  /\ sealed' = sealed \cup {Nonce(p)} /\ reused' = (reused \/ Nonce(p) \in sealed)
         /\ prepared' = [prepared EXCEPT ![KEYBOARD] = p]
  /\ UNCHANGED <<session, offer, air, resync, kbdVars, rx, trouble, taken, replayed>>

KbdPrepare ==
  /\ Ready(Kbd) /\ ~resync /\ ~PreparedCurrent(KEYBOARD)
  /\ queue.online /\ Len(queue.frames) \in NextReport /\ CanEncode(Kbd)
  /\ LET p == Encode(Kbd, KEYBOARD, "input", [frames |-> <<queue.frames[Len(queue.frames)]>>])
     IN  Encodes(KEYBOARD, p) /\ prepared' = [prepared EXCEPT ![KEYBOARD] = p]
  /\ UNCHANGED <<offer, air, resync, kbdVars, rx, trouble, taken, replayed>>

\* A packet arrives, and may arrive again; "left" is what stays in the air.
Arrives(p, left) ==
  \/ left = air \ {p} /\ UNCHANGED trouble
  \/ left = air /\ Disturb

Valid(role, p) ==
  Decodable(session[role], role, p) /\ ~IsReplay(session[role], p.counter)

Takes(p) ==
  /\ taken' = {Nonce(q) : q \in {q \in air' : Nonce(q) \in taken \cup {Nonce(p)}}}
  /\ replayed' = (replayed \/ Nonce(p) \in taken)

\* input_packet: apex_delivery_ack_unpack, then apex_delivery_apply.
KbdReceive(p) ==
  /\ Valid(KEYBOARD, p) /\ Arrives(p, air') /\ Takes(p)
  /\ session' = [session EXCEPT ![KEYBOARD] = Decoded(@, p.counter)]
  /\ IF p.type = "ack" /\ p.body \in AckType /\ Applicable(tx, p.body)
     THEN tx' = Apply(tx, p.body) /\ queue' = Pop(queue, p.body.completed)
     ELSE UNCHANGED <<tx, queue>>
  /\ UNCHANGED <<offer, resync, prepared, rx, sealed, reused>>

-----------------------------------------------------------------------------
(* The receiver: acknowledgements, now and encoded ahead *)

\* The frames of a packet that follow the buffer's, as far as there is room
\* (rx_sequence and the buffer agree while the session lasts).
Accepted(frames) ==
  LET f[i \in 0..Len(frames)] == IF i = 0 THEN rx ELSE Receive(f[i - 1], frames[i])
  IN  f[Len(frames)]

\* ack_prepared_matches
AckPrepared(ack) == PreparedCurrent(RECEIVER) /\ prepared[RECEIVER].body = ack

\* The receiver takes p, encodes what is in "made" and tries to send "reply".
RcvTakes(p, buffer, made, reply) ==
  /\ Valid(RECEIVER, p)
  /\ \E left \in {air, air \ {p}} :
       /\ Arrives(p, left)
       /\ Refused(left) \/ \E q \in reply : Leaves(q, left)
  /\ Takes(p)
  /\ rx' = buffer
  /\ session' = [session EXCEPT ![RECEIVER] =
                   IF made = {} THEN Decoded(@, p.counter) ELSE Encoded(Decoded(@, p.counter))]
  /\ sealed' = sealed \cup {Nonce(q) : q \in made}
  /\ reused' = (reused \/ \E q \in made : Nonce(q) \in sealed)
  /\ UNCHANGED <<offer, resync, kbdVars>>

Reply(type, body) == IF CanEncode(Rcv) THEN {Encode(Rcv, RECEIVER, type, body)} ELSE {}

\* input_packet, input_ack: the acknowledgement encoded ahead goes out if it
\* says what is true now, and is given up otherwise.
RcvAcknowledge(p) ==
  LET buffer == IF p.type = "input" THEN Accepted(p.body.frames) ELSE rx
      made == IF AckPrepared(Status(buffer)) THEN {} ELSE Reply("ack", Status(buffer))
  IN  /\ RcvTakes(p, buffer, made,
                  IF AckPrepared(Status(buffer)) THEN {prepared[RECEIVER]} ELSE made)
      /\ prepared' = [prepared EXCEPT ![RECEIVER] = None]

\* The answer to a shell packet carries the status as well, that to the clock
\* or the map does not; neither looks at what was encoded ahead.
RcvAnswer(p) ==
  /\ p.type = "poll"
  /\ \E made \in {Reply("ack", Status(rx)), Reply("poll", [frames |-> <<>>])} :
       RcvTakes(p, rx, made, made)
  /\ UNCHANGED prepared

RcvReceive(p) == RcvAcknowledge(p) \/ RcvAnswer(p)

\* ack_prepare_next: what the answer to the next report will be, if USB takes
\* no report before it.
Predicted == [Status(rx) EXCEPT !.accepted = @ + 1, !.free = @ - 1]

RcvPrepare ==
  /\ Ready(Rcv)
  /\ IF Status(rx).free = 0 THEN
       /\ prepared[RECEIVER] # None
       /\ prepared' = [prepared EXCEPT ![RECEIVER] = None] /\ EncodesNothing
     ELSE
       /\ ~AckPrepared(Predicted)
       /\ IF CanEncode(Rcv)
          THEN LET p == Encode(Rcv, RECEIVER, "ack", Predicted)
               IN  Encodes(RECEIVER, p) /\ prepared' = [prepared EXCEPT ![RECEIVER] = p]
          ELSE /\ prepared[RECEIVER] # None
               /\ prepared' = [prepared EXCEPT ![RECEIVER] = None] /\ EncodesNothing
  /\ UNCHANGED <<offer, air, resync, kbdVars, rx, trouble, taken, replayed>>

\* USB takes the oldest report of the buffer.
Completes ==
  /\ rx.frames # <<>>
  /\ rx' = Complete(rx, Head(rx.frames).seq)
  /\ UNCHANGED <<session, offer, air, prepared, resync, kbdVars, trouble, history>>

\* A packet is lost, or refused where it arrives.
Lose(p) ==
  /\ \/ Disturb
     \/ ~Valid(Peer(p.role), p) /\ UNCHANGED trouble
  /\ air' = air \ {p}
  /\ taken' = taken \ {Nonce(p)}
  /\ UNCHANGED <<session, offer, prepared, resync, kbdVars, rx, sealed, reused, replayed>>

-----------------------------------------------------------------------------
PublishAny == \E t \in Types : \E d \in Reports(t) : Publish(t, d)

Receives == \E p \in air : IF p.role = KEYBOARD THEN RcvReceive(p) ELSE KbdReceive(p)
Loses == \E p \in air : Lose(p)

Next ==
  \/ KbdRestart \/ KbdSilence \/ KbdTimeout \/ KbdEstablish
  \/ RcvSilence \/ RcvTimeout \/ RcvEstablish
  \/ PublishAny
  \/ KbdSend \/ KbdPrepare \/ Receives \/ RcvPrepare \/ Completes \/ Loses

Spec == Init /\ [][Next]_vars

\* The threads leave and enter sessions, and no packet stays in the air for ever.
KbdRenews == KbdRestart \/ KbdSilence \/ KbdEstablish
RcvRenews == RcvSilence \/ RcvEstablish
Fairness == WF_vars(KbdRenews) /\ WF_vars(RcvRenews) /\ WF_vars(Loses)
FairSpec == Spec /\ Fairness

-----------------------------------------------------------------------------
(* No key and nonce encrypt two packets: not by packets encoded ahead and   *)
(* given up, by batches, clocks or polls in between, nor by a session that  *)
(* one end leaves and enters again (apex_packet.h, input_prepare_next).     *)
NonceNeverReused == ~reused

(* No packet is delivered twice, however late or often it arrives.          *)
NeverReplayed == ~replayed

(* What leaves is what would be encoded now: the newest packet of the       *)
(* session, so that packets leave in the order of their counters, with the  *)
(* report that is next in the queue, or with what the receiver has accepted *)
(* and completed at this moment.                                            *)
PreparedIsCurrent ==
  [][\A p \in air' \ air :
       /\ p.session = session'[p.role].id
       /\ p.counter + 1 = session'[p.role].tx_counter
       /\ p.type = "input" => p.body.frames = Batch(tx, queue)
       /\ p.type = "ack" => p.body = Status(rx')]_vars

(* When the counters of one end or of both are used up, the ends leave the  *)
(* session: a time comes when neither holds a session that is used up.      *)
CountersRenewed ==
  (\E r \in Roles : ~CanEncode(session[r])) ~> (\A r \in Roles : CanEncode(session[r]))
=============================================================================
