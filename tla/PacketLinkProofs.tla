--------------------------- MODULE PacketLinkProofs ---------------------------
(***************************************************************************)
(* Theorems about PacketLink, for every number of sessions, every window,  *)
(* every last counter and every number of disturbances.  A nonce is fresh  *)
(* because the counters of a session only grow and an offered session has  *)
(* not been used by the keyboard; a packet is delivered once because what  *)
(* has been taken from the air stays a replay for the session it was taken *)
(* in.  What leaves is current because the report encoded ahead is the one *)
(* the queue still has under its number.                                   *)
(***************************************************************************)
EXTENDS PacketLink, SequenceTheorems, TLAPS

PacketOK(p) == p.session \in Session /\ p.role \in Roles /\ p.counter \in Nat

SessionsOK ==
  /\ session \in [Roles -> SessionType(Session)]
  /\ offer \in Session \cup {NoSession}
  /\ offer # NoSession => session[KEYBOARD].id # offer

PacketsOK ==
  /\ \A p \in air : PacketOK(p)
  /\ DOMAIN prepared = Roles
  /\ \A r \in Roles : prepared[r] # None => PacketOK(prepared[r])

\* Every nonce of a running session lies behind its counter; the keyboard has
\* used none of the session it may establish.
Fresh(n) ==
  /\ n[1] = session[n[2]].id => n[3] < session[n[2]].tx_counter
  /\ n[2] = KEYBOARD /\ offer # NoSession => n[1] # offer

NoncesOK ==
  /\ ~reused
  /\ \A s \in Session, r \in Roles, c \in Nat : <<s, r, c>> \in sealed => Fresh(<<s, r, c>>)

\* What was taken is still in the air, is a replay where it was taken, and
\* does not belong to the session the keyboard may establish.
Taken(n) ==
  /\ n \in {Nonce(p) : p \in air}
  /\ n[1] = session[Peer(n[2])].id => IsReplay(session[Peer(n[2])], n[3])
  /\ n[2] = RECEIVER /\ offer # NoSession => n[1] # offer

TakenOK == ~replayed /\ \A n \in taken : Taken(n)

IInv == SessionsOK /\ PacketsOK /\ NoncesOK /\ TakenOK

USE DEF kbdVars, history

-----------------------------------------------------------------------------
(* The operators of Packet *)

LEMMA RolesDiffer == KEYBOARD # RECEIVER /\ \A r \in Roles : Peer(r) \in Roles /\ Peer(Peer(r)) = r
  BY DEF KEYBOARD, RECEIVER, Roles, Peer

LEMMA EncodedTyped ==
  ASSUME NEW s \in SessionType(Session)
  PROVE  /\ Encoded(s) \in SessionType(Session) /\ Encoded(s).id = s.id
         /\ Encoded(s).tx_counter = s.tx_counter + 1
         /\ Encoded(s).rx_highest = s.rx_highest /\ Encoded(s).rx_seen = s.rx_seen
  BY DEF Encoded, SessionType

LEMMA NewTyped ==
  /\ SessionClear \in SessionType(Session) /\ SessionClear.id = NoSession
  /\ \A i \in Session : /\ SessionInit(i) \in SessionType(Session) /\ SessionInit(i).id = i
                        /\ SessionInit(i).tx_counter = 1
  BY DEF SessionClear, SessionInit, SessionType

LEMMA DecodedTyped ==
  ASSUME NEW s \in SessionType(Session), NEW d \in Nat, ~IsReplay(s, d)
  PROVE  /\ Decoded(s, d) \in SessionType(Session) /\ Decoded(s, d).id = s.id
         /\ Decoded(s, d).tx_counter = s.tx_counter
         /\ Decoded(s, d).rx_highest = (IF d > s.rx_highest THEN d ELSE s.rx_highest)
         /\ Decoded(s, d).rx_seen =
              IF d > s.rx_highest
              THEN {0} \cup {g \in Gaps : \E h \in s.rx_seen : g = h + (d - s.rx_highest)}
              ELSE s.rx_seen \cup {s.rx_highest - d}
<1> DEFINE shifted == {0} \cup {g \in Gaps : \E h \in s.rx_seen : g = h + (d - s.rx_highest)}
<1> DEFINE added == s.rx_seen \cup {s.rx_highest - d}
<1>0. s.rx_highest \in Nat /\ s.rx_seen \in SUBSET Gaps
  BY DEF SessionType
<1>1. shifted \in SUBSET Gaps
  BY PacketAssumption DEF Gaps
<1>2. CASE d > s.rx_highest
  <2>1. Decoded(s, d) = [s EXCEPT !.rx_seen = shifted, !.rx_highest = d]
    BY <1>2 DEF Decoded, SessionType
  <2> HIDE DEF shifted
  <2>2. /\ Decoded(s, d) \in SessionType(Session) /\ Decoded(s, d).id = s.id
        /\ Decoded(s, d).tx_counter = s.tx_counter
        /\ Decoded(s, d).rx_highest = d /\ Decoded(s, d).rx_seen = shifted
    BY <1>1, <2>1 DEF SessionType
  <2> QED
    BY <1>2, <2>2 DEF shifted
<1>3. CASE ~(d > s.rx_highest)
  <2>1. Decoded(s, d) = [s EXCEPT !.rx_seen = added]
    BY <1>3 DEF Decoded, SessionType
  <2>2. s.rx_highest - d \in Gaps
    BY <1>0, <1>3, PacketAssumption DEF IsReplay, Gaps
  <2>3. added \in SUBSET Gaps
    BY <1>0, <2>2
  <2> HIDE DEF added
  <2>4. /\ Decoded(s, d) \in SessionType(Session) /\ Decoded(s, d).id = s.id
        /\ Decoded(s, d).tx_counter = s.tx_counter
        /\ Decoded(s, d).rx_highest = s.rx_highest /\ Decoded(s, d).rx_seen = added
    BY <2>1, <2>3 DEF SessionType
  <2> QED
    BY <1>3, <2>4 DEF added
<1> QED
  BY <1>2, <1>3

\* What is a replay stays one, and so does what has just been taken.
LEMMA ReplayStays ==
  ASSUME NEW s \in SessionType(Session), NEW d \in Nat, ~IsReplay(s, d),
         NEW c \in Nat, IsReplay(s, c) \/ c = d
  PROVE  IsReplay(Decoded(s, d), c)
<1>0. s.rx_highest \in Nat /\ s.rx_seen \in SUBSET Gaps
  BY DEF SessionType
<1>1. CASE d > s.rx_highest
  <2>1. /\ Decoded(s, d).rx_highest = d
        /\ Decoded(s, d).rx_seen =
             {0} \cup {g \in Gaps : \E h \in s.rx_seen : g = h + (d - s.rx_highest)}
    BY <1>1, DecodedTyped
  <2>2. CASE c = d
    BY <2>1, <2>2, PacketAssumption DEF IsReplay
  <2>3. CASE IsReplay(s, c)
    <3>1. c <= s.rx_highest /\ c <= d
      BY <1>0, <1>1, <2>3 DEF IsReplay
    <3>2. CASE d - c >= ReplayWindow
      BY <2>1, <3>1, <3>2 DEF IsReplay
    <3>3. CASE ~(d - c >= ReplayWindow)
      <4>1. s.rx_highest - c \in s.rx_seen
        BY <1>0, <1>1, <2>3, <3>1, <3>3, PacketAssumption DEF IsReplay
      <4>2. d - c \in Gaps /\ d - c = (s.rx_highest - c) + (d - s.rx_highest)
        BY <1>0, <3>1, <3>3, PacketAssumption DEF Gaps
      <4>3. d - c \in Decoded(s, d).rx_seen
        BY <2>1, <4>1, <4>2
      <4> QED
        BY <2>1, <3>1, <4>3 DEF IsReplay
    <3> QED
      BY <3>2, <3>3
  <2> QED
    BY <2>2, <2>3
<1>2. CASE ~(d > s.rx_highest)
  <2>1. /\ Decoded(s, d).rx_highest = s.rx_highest
        /\ Decoded(s, d).rx_seen = s.rx_seen \cup {s.rx_highest - d}
    BY <1>2, DecodedTyped
  <2> QED
    BY <1>0, <1>2, <2>1 DEF IsReplay
<1> QED
  BY <1>1, <1>2

-----------------------------------------------------------------------------
(* What the steps have in common *)

\* The sessions keep what they have received.
SameReceived ==
  /\ \A r \in Roles : /\ session'[r].id = session[r].id
                      /\ session'[r].rx_highest = session[r].rx_highest
                      /\ session'[r].rx_seen = session[r].rx_seen
  /\ UNCHANGED offer

LEMMA EncodesFresh ==
  ASSUME SessionsOK, NoncesOK, NEW r \in Roles, NEW p, Ready(session[r]), Encodes(r, p),
         p.session = session[r].id, p.role = r, p.counter = session[r].tx_counter,
         UNCHANGED offer
  PROVE  SessionsOK' /\ NoncesOK' /\ SameReceived /\ PacketOK(p)
<1>1. session[r] \in SessionType(Session) /\ session' = [session EXCEPT ![r] = Encoded(session[r])]
  BY DEF SessionsOK, Encodes
<1>2. /\ session' \in [Roles -> SessionType(Session)] /\ SameReceived
      /\ session'[r].tx_counter = session[r].tx_counter + 1
      /\ \A q \in Roles : q # r => session'[q] = session[q]
  BY <1>1, EncodedTyped DEF SessionsOK, SameReceived
<1>3. SessionsOK'
  BY <1>2 DEF SessionsOK, SameReceived, Roles
<1>4. p.session \in Session /\ p.counter \in Nat /\ PacketOK(p)
  BY <1>1 DEF SessionType, Ready, PacketOK
<1>5. Nonce(p) = <<session[r].id, r, session[r].tx_counter>>
  BY DEF Nonce
<1>6. Nonce(p) \notin sealed
  <2> SUFFICES ASSUME Nonce(p) \in sealed PROVE FALSE
    OBVIOUS
  <2>1. Fresh(Nonce(p))
    BY <1>4, <1>5 DEF NoncesOK
  <2>2. session[r].tx_counter < session[r].tx_counter
    BY <1>5, <2>1 DEF Fresh
  <2> QED
    BY <1>4, <2>2
<1>7. ~reused'
  BY <1>6 DEF Encodes, NoncesOK
<1>8. ASSUME NEW t \in Session, NEW q \in Roles, NEW c \in Nat, <<t, q, c>> \in sealed'
      PROVE  Fresh(<<t, q, c>>)'
  <2>1. CASE <<t, q, c>> \in sealed
    <3>1. Fresh(<<t, q, c>>)
      BY <2>1 DEF NoncesOK
    <3>2. session[q].tx_counter \in Nat /\ session'[q].tx_counter >= session[q].tx_counter
      BY <1>1, <1>2 DEF SessionsOK, SessionType
    <3>3. session'[q].tx_counter \in Nat
      BY <1>2 DEF SessionType
    <3> QED
      BY <1>2, <3>1, <3>2, <3>3 DEF Fresh, SameReceived
  <2>2. CASE <<t, q, c>> = Nonce(p)
    <3>1. t = session[r].id /\ q = r /\ c = session[r].tx_counter
      BY <1>5, <2>2
    <3> QED
      BY <1>2, <1>4, <3>1 DEF Fresh, SameReceived, SessionsOK
  <2> QED
    BY <1>8, <2>1, <2>2 DEF Encodes
<1>9. NoncesOK'
  BY <1>7, <1>8 DEF NoncesOK
<1> QED
  BY <1>2, <1>3, <1>4, <1>9

\* What was taken remains taken while no session changes what it received
\* and nothing leaves the air.
LEMMA TakenStays ==
  ASSUME PacketsOK, TakenOK, SameReceived, air \subseteq air', UNCHANGED <<taken, replayed>>
  PROVE  TakenOK'
<1>1. ASSUME NEW n \in taken PROVE Taken(n)'
  <2>1. Taken(n)
    BY <1>1 DEF TakenOK
  <2>2. PICK p \in air : n = Nonce(p)
    BY <2>1 DEF Taken
  <2>3. n \in {Nonce(q) : q \in air'}
    BY <2>2
  <2>4. n[2] \in Roles /\ Peer(n[2]) \in Roles
    BY <2>2, RolesDiffer DEF Nonce, PacketsOK, PacketOK
  <2> QED
    BY <2>1, <2>3, <2>4 DEF Taken, SameReceived, IsReplay
<1> QED
  BY <1>1 DEF TakenOK

\* The same for an end that takes packet p.
LEMMA TakesOnce ==
  ASSUME SessionsOK, PacketsOK, TakenOK, NEW p \in air, NEW r \in Roles, p.role = Peer(r),
         Valid(r, p), Takes(p), UNCHANGED offer,
         \A q \in Roles : q # r => session'[q] = session[q],
         session'[r].id = session[r].id,
         session'[r].rx_highest = Decoded(session[r], p.counter).rx_highest,
         session'[r].rx_seen = Decoded(session[r], p.counter).rx_seen
  PROVE  TakenOK'
<1>1. /\ session[r] \in SessionType(Session) /\ p.counter \in Nat /\ p.session = session[r].id
      /\ p.session \in Session /\ ~IsReplay(session[r], p.counter)
  BY DEF SessionsOK, PacketsOK, PacketOK, Valid, Decodable
<1>2. Nonce(p) = <<session[r].id, Peer(r), p.counter>>
  BY <1>1 DEF Nonce
<1>3. Nonce(p) \notin taken
  <2> SUFFICES ASSUME Nonce(p) \in taken PROVE FALSE
    OBVIOUS
  <2>1. Taken(Nonce(p))
    BY DEF TakenOK
  <2> QED
    BY <1>1, <1>2, <2>1, RolesDiffer DEF Taken
<1>4. ~replayed'
  BY <1>3 DEF Takes, TakenOK
<1>5. ASSUME NEW c \in Nat, IsReplay(session[r], c) \/ c = p.counter
      PROVE  IsReplay(session'[r], c)
  <2>1. IsReplay(Decoded(session[r], p.counter), c)
    BY <1>1, <1>5, ReplayStays
  <2> QED
    BY <2>1 DEF IsReplay
<1>6. ASSUME NEW n \in taken' PROVE Taken(n)'
  <2>1. PICK q \in air' : n = Nonce(q) /\ n \in taken \cup {Nonce(p)}
    BY <1>6 DEF Takes
  <2>2. CASE n \in taken
    <3>1. Taken(n)
      BY <2>2 DEF TakenOK
    <3>2. PICK o \in air : n = Nonce(o)
      BY <3>1 DEF Taken
    <3>3. n[2] \in Roles /\ Peer(n[2]) \in Roles /\ n[3] \in Nat
      BY <3>2, RolesDiffer DEF Nonce, PacketsOK, PacketOK
    <3>4. n[1] = session'[Peer(n[2])].id => IsReplay(session'[Peer(n[2])], n[3])
      BY <1>5, <3>1, <3>3 DEF Taken
    <3> QED
      BY <2>1, <3>1, <3>4 DEF Taken
  <2>3. CASE n = Nonce(p)
    <3>1. n[1] = session[r].id /\ n[2] = Peer(r) /\ n[3] = p.counter /\ Peer(n[2]) = r
      BY <1>2, <2>3, RolesDiffer
    <3>2. IsReplay(session'[r], p.counter)
      BY <1>1, <1>5
    <3>3. n[2] = RECEIVER => r = KEYBOARD
      BY <3>1, RolesDiffer DEF Peer, Roles
    <3> QED
      BY <2>1, <3>1, <3>2, <3>3 DEF Taken, SessionsOK
  <2> QED
    BY <2>1, <2>2, <2>3
<1> QED
  BY <1>4, <1>6 DEF TakenOK

-----------------------------------------------------------------------------
(* One lemma for each action *)

LEMMA InitIInv == Init => IInv
  BY NewTyped, RolesDiffer DEF Init, IInv, SessionsOK, PacketsOK, NoncesOK, TakenOK,
     Roles

\* An end leaves its session.
LEMMA ClearIInv ==
  ASSUME IInv, NEW r \in Roles, Clear(r), offer' = (IF r = KEYBOARD THEN NoSession ELSE offer),
         sealed' \subseteq sealed, UNCHANGED <<reused, replayed>>
  PROVE  IInv'
<1> USE DEF IInv
<1>1. /\ session' = [session EXCEPT ![r] = SessionClear]
      /\ session' \in [Roles -> SessionType(Session)] /\ session'[r].id = NoSession
      /\ \A q \in Roles : q # r => session'[q] = session[q]
  BY NewTyped DEF Clear, SessionsOK
<1>2. SessionsOK'
  BY <1>1, RolesDiffer DEF SessionsOK, Roles
<1>3. PacketsOK'
  BY DEF Clear, PacketsOK
<1>4. NoncesOK'
  <2>1. ASSUME NEW t \in Session, NEW q \in Roles, NEW c \in Nat, <<t, q, c>> \in sealed'
        PROVE  Fresh(<<t, q, c>>)'
    BY <1>1, <2>1, LinkAssumption DEF NoncesOK, Fresh
  <2> QED
    BY <2>1 DEF NoncesOK
<1>5. ASSUME NEW n \in taken' PROVE Taken(n)'
  <2>1. n \in taken /\ n[2] = r /\ Taken(n)
    BY <1>5 DEF Clear, TakenOK
  <2>2. PICK p \in air : n = Nonce(p)
    BY <2>1 DEF Taken
  <2>3. p.role = r /\ n[1] \in Session /\ Peer(n[2]) \in Roles
    BY <2>1, <2>2, RolesDiffer DEF Nonce, PacketsOK, PacketOK
  <2>4. n \in {Nonce(q) : q \in air'}
    BY <2>2, <2>3 DEF Clear
  <2>5. Peer(n[2]) # r
    BY <2>1, RolesDiffer DEF Peer, Roles
  <2> QED
    BY <1>1, <2>1, <2>3, <2>4, <2>5, LinkAssumption DEF Taken
<1>6. TakenOK'
  BY <1>5 DEF TakenOK
<1> QED
  BY <1>2, <1>3, <1>4, <1>6

LEMMA KbdNewSessionIInv == IInv /\ KbdNewSession => IInv'
  BY ClearIInv, RolesDiffer DEF KbdNewSession, SealedIn, Roles

LEMMA RcvNewSessionIInv == IInv /\ RcvNewSession => IInv'
  BY ClearIInv, RolesDiffer DEF RcvNewSession, SealedIn, Roles

LEMMA RcvEstablishIInv == IInv /\ RcvEstablish => IInv'
<1> SUFFICES ASSUME IInv, RcvEstablish PROVE IInv'
  OBVIOUS
<1> USE DEF IInv
<1>1. PICK s \in Session \ Referenced :
        /\ session' = [session EXCEPT ![RECEIVER] = SessionInit(s)]
        /\ offer' = s
        /\ sealed' = {n \in sealed : n[1] # s}
  BY DEF RcvEstablish
<1>2. /\ ~Ready(Kbd) /\ UNCHANGED <<air, prepared, reused, taken, replayed>>
      /\ RECEIVER \in Roles /\ KEYBOARD \in Roles
  BY RolesDiffer DEF RcvEstablish, Roles
<1>3. /\ session' \in [Roles -> SessionType(Session)] /\ session'[RECEIVER].id = s
      /\ session'[RECEIVER].tx_counter = 1 /\ session'[KEYBOARD] = session[KEYBOARD]
  BY <1>1, <1>2, NewTyped, RolesDiffer DEF SessionsOK
<1>4. \A p \in air : p.session # s
  BY DEF Referenced
<1>5. SessionsOK'
  BY <1>1, <1>2, <1>3, LinkAssumption DEF SessionsOK, Ready, Kbd
<1>6. PacketsOK'
  BY <1>2 DEF PacketsOK
<1>7. ASSUME NEW t \in Session, NEW q \in Roles, NEW c \in Nat, <<t, q, c>> \in sealed'
      PROVE  Fresh(<<t, q, c>>)'
  <2>1. t # s /\ <<t, q, c>> \in sealed
    BY <1>1, <1>7
  <2>2. Fresh(<<t, q, c>>)
    BY <2>1 DEF NoncesOK
  <2> QED
    BY <1>1, <1>3, <2>1, <2>2, RolesDiffer DEF Fresh, Roles
<1>8. NoncesOK'
  BY <1>2, <1>7 DEF NoncesOK
<1>9. ASSUME NEW n \in taken' PROVE Taken(n)'
  <2>1. Taken(n)
    BY <1>2, <1>9 DEF TakenOK
  <2>2. PICK p \in air : n = Nonce(p)
    BY <2>1 DEF Taken
  <2>3. n[1] # s /\ n[2] \in Roles /\ Peer(n[2]) \in Roles
    BY <1>4, <2>2, RolesDiffer DEF Nonce, PacketsOK, PacketOK
  <2> QED
    BY <1>1, <1>2, <1>3, <2>1, <2>3, RolesDiffer DEF Taken, Roles
<1>10. TakenOK'
  BY <1>2, <1>9 DEF TakenOK
<1> QED
  BY <1>5, <1>6, <1>8, <1>10

LEMMA KbdEstablishIInv == IInv /\ KbdEstablish => IInv'
<1> SUFFICES ASSUME IInv, KbdEstablish PROVE IInv'
  OBVIOUS
<1> USE DEF IInv
<1>1. /\ offer \in Session /\ offer' = NoSession
      /\ session' = [session EXCEPT ![KEYBOARD] = SessionInit(offer)]
      /\ UNCHANGED <<air, prepared, sealed, reused, taken, replayed>>
      /\ RECEIVER \in Roles /\ KEYBOARD \in Roles
  BY DEF KbdEstablish, SessionsOK, Roles
<1>2. /\ session' \in [Roles -> SessionType(Session)] /\ session'[KEYBOARD].id = offer
      /\ session'[KEYBOARD].tx_counter = 1 /\ session'[RECEIVER] = session[RECEIVER]
  BY <1>1, NewTyped, RolesDiffer DEF SessionsOK
<1>3. SessionsOK'
  BY <1>1, <1>2 DEF SessionsOK
<1>4. PacketsOK'
  BY <1>1 DEF PacketsOK
<1>5. ASSUME NEW t \in Session, NEW q \in Roles, NEW c \in Nat, <<t, q, c>> \in sealed'
      PROVE  Fresh(<<t, q, c>>)'
  <2>1. Fresh(<<t, q, c>>)
    BY <1>1, <1>5 DEF NoncesOK
  <2>2. q = KEYBOARD => t # offer
    BY <1>1, <2>1, LinkAssumption DEF Fresh
  <2> QED
    BY <1>1, <1>2, <2>1, <2>2 DEF Fresh, Roles
<1>6. NoncesOK'
  BY <1>1, <1>5 DEF NoncesOK
<1>7. ASSUME NEW n \in taken' PROVE Taken(n)'
  <2>1. Taken(n)
    BY <1>1, <1>7 DEF TakenOK
  <2>2. PICK p \in air : n = Nonce(p)
    BY <2>1 DEF Taken
  <2>3. n[2] \in Roles /\ Peer(n[2]) \in Roles
    BY <2>2, RolesDiffer DEF Nonce, PacketsOK, PacketOK
  <2>4. n[2] = RECEIVER => n[1] # offer
    BY <1>1, <2>1, LinkAssumption DEF Taken
  <2> QED
    BY <1>1, <1>2, <2>1, <2>3, <2>4, RolesDiffer DEF Taken, Roles, Peer
<1>8. TakenOK'
  BY <1>1, <1>7 DEF TakenOK
<1> QED
  BY <1>3, <1>4, <1>6, <1>8

\* A step that changes none of the sessions, nonces and packets.
LEMMA QuietIInv ==
  ASSUME IInv, UNCHANGED <<session, offer, air, prepared, history>>
  PROVE  IInv'
<1>1. SessionsOK' /\ PacketsOK'
  BY DEF IInv, SessionsOK, PacketsOK
<1>2. NoncesOK'
  BY DEF IInv, NoncesOK, Fresh
<1>3. TakenOK'
  BY DEF IInv, TakenOK, Taken
<1> QED
  BY <1>1, <1>2, <1>3 DEF IInv

LEMMA SendsGrows ==
  ASSUME NEW frames, NEW p, Sends(frames, p)
  PROVE  air' \in {air, air \cup {p}}
  BY DEF Sends, Leaves, Refused

LEMMA KbdSendIInv == IInv /\ KbdSend => IInv'
<1> SUFFICES ASSUME IInv, KbdSend PROVE IInv'
  OBVIOUS
<1> USE DEF IInv
<1>0. PICK frames \in {Batch(tx, queue), <<>>} :
      /\ KEYBOARD \in Roles /\ UNCHANGED <<offer, taken, replayed>> /\ Ready(Kbd)
      /\ \/ /\ UsesPrepared(frames)
            /\ Sends(frames, prepared[KEYBOARD])
            /\ prepared' = [prepared EXCEPT ![KEYBOARD] = None]
            /\ EncodesNothing
         \/ /\ Sends(frames, KbdPacket(frames))
            /\ prepared' \in {prepared, [prepared EXCEPT ![KEYBOARD] = None]}
            /\ Encodes(KEYBOARD, KbdPacket(frames))
  BY DEF KbdSend, Roles
<1>1. DOMAIN prepared' = Roles /\ \A r \in Roles : prepared'[r] # None => PacketOK(prepared'[r])
  BY <1>0 DEF PacketsOK
<1>2. CASE UsesPrepared(frames) /\ Sends(frames, prepared[KEYBOARD]) /\ EncodesNothing
  <2>1. PacketOK(prepared[KEYBOARD])
    BY <1>0, <1>2 DEF UsesPrepared, PreparedCurrent, PacketsOK
  <2>2. air' \in {air, air \cup {prepared[KEYBOARD]}}
    BY <1>2, SendsGrows
  <2>3. PacketsOK'
    BY <1>1, <2>1, <2>2 DEF PacketsOK, PacketOK
  <2>4. SessionsOK' /\ NoncesOK' /\ SameReceived
    BY <1>0, <1>2 DEF EncodesNothing, SessionsOK, NoncesOK, Fresh, SameReceived
  <2>5. TakenOK'
    BY <1>0, <2>2, <2>4, TakenStays
  <2> QED
    BY <2>3, <2>4, <2>5
<1>3. CASE Sends(frames, KbdPacket(frames)) /\ Encodes(KEYBOARD, KbdPacket(frames))
  <2>1. /\ KbdPacket(frames).session = session[KEYBOARD].id /\ KbdPacket(frames).role = KEYBOARD
        /\ KbdPacket(frames).counter = session[KEYBOARD].tx_counter
    BY DEF KbdPacket, Encode, Kbd
  <2>2. SessionsOK' /\ NoncesOK' /\ SameReceived /\ PacketOK(KbdPacket(frames))
    BY <1>0, <1>3, <2>1, EncodesFresh DEF Kbd
  <2>3. air' \in {air, air \cup {KbdPacket(frames)}}
    BY <1>3, SendsGrows
  <2>4. PacketsOK'
    BY <1>1, <2>2, <2>3 DEF PacketsOK, PacketOK
  <2>5. TakenOK'
    BY <1>0, <2>2, <2>3, TakenStays
  <2> QED
    BY <2>2, <2>4, <2>5
<1> QED
  BY <1>0, <1>2, <1>3

\* Encoding ahead, by either end.
LEMMA PreparesIInv ==
  ASSUME IInv, NEW r \in Roles, NEW p, Ready(session[r]), Encodes(r, p),
         p.session = session[r].id, p.role = r, p.counter = session[r].tx_counter,
         prepared' = [prepared EXCEPT ![r] = p], UNCHANGED <<offer, air, taken, replayed>>
  PROVE  IInv'
<1> USE DEF IInv
<1>1. SessionsOK' /\ NoncesOK' /\ SameReceived /\ PacketOK(p)
  BY EncodesFresh
<1>2. PacketsOK'
  BY <1>1 DEF PacketsOK, PacketOK
<1>3. TakenOK'
  BY <1>1, TakenStays
<1> QED
  BY <1>1, <1>2, <1>3

LEMMA KbdPrepareIInv == IInv /\ KbdPrepare => IInv'
<1> SUFFICES ASSUME IInv, KbdPrepare PROVE IInv'
  OBVIOUS
<1> DEFINE p == Encode(Kbd, KEYBOARD, "input", [frames |-> <<queue.frames[Len(queue.frames)]>>])
<1>1. /\ Encodes(KEYBOARD, p) /\ prepared' = [prepared EXCEPT ![KEYBOARD] = p]
      /\ Ready(session[KEYBOARD]) /\ UNCHANGED <<offer, air, taken, replayed>>
      /\ KEYBOARD \in Roles
  BY DEF KbdPrepare, Kbd, Roles
<1>2. /\ p.session = session[KEYBOARD].id /\ p.role = KEYBOARD
      /\ p.counter = session[KEYBOARD].tx_counter
  BY DEF Encode, Kbd
<1> HIDE DEF p
<1> QED
  BY <1>1, <1>2, PreparesIInv

LEMMA RcvPrepareIInv == IInv /\ RcvPrepare => IInv'
<1> SUFFICES ASSUME IInv, RcvPrepare PROVE IInv'
  OBVIOUS
<1> DEFINE p == Encode(Rcv, RECEIVER, "ack", Predicted)
<1>1. /\ Ready(session[RECEIVER]) /\ UNCHANGED <<offer, air, taken, replayed>> /\ RECEIVER \in Roles
      /\ \/ prepared' = [prepared EXCEPT ![RECEIVER] = None] /\ EncodesNothing
         \/ Encodes(RECEIVER, p) /\ prepared' = [prepared EXCEPT ![RECEIVER] = p]
  BY DEF RcvPrepare, Rcv, Roles
<1>2. /\ p.session = session[RECEIVER].id /\ p.role = RECEIVER
      /\ p.counter = session[RECEIVER].tx_counter
  BY DEF Encode, Rcv
<1> HIDE DEF p
<1>3. CASE prepared' = [prepared EXCEPT ![RECEIVER] = None] /\ EncodesNothing
  <2>1. SessionsOK' /\ NoncesOK' /\ SameReceived
    BY <1>1, <1>3 DEF IInv, EncodesNothing, SessionsOK, NoncesOK, Fresh, SameReceived
  <2>2. PacketsOK'
    BY <1>1, <1>3 DEF IInv, PacketsOK
  <2>3. TakenOK'
    BY <1>1, <2>1, TakenStays DEF IInv
  <2> QED
    BY <2>1, <2>2, <2>3 DEF IInv
<1>4. CASE Encodes(RECEIVER, p) /\ prepared' = [prepared EXCEPT ![RECEIVER] = p]
  BY <1>1, <1>2, <1>4, PreparesIInv
<1> QED
  BY <1>1, <1>3, <1>4

LEMMA KbdReceiveIInv ==
  ASSUME IInv, NEW p \in air, p.role # KEYBOARD, KbdReceive(p)
  PROVE  IInv'
<1> USE DEF IInv
<1> DEFINE s == session[KEYBOARD]
<1>0. /\ KEYBOARD \in Roles /\ p.role = Peer(KEYBOARD) /\ PacketOK(p)
      /\ Valid(KEYBOARD, p) /\ Takes(p) /\ air' \in {air, air \ {p}}
      /\ session' = [session EXCEPT ![KEYBOARD] = Decoded(s, p.counter)]
      /\ UNCHANGED <<offer, prepared, sealed, reused>>
  BY DEF KbdReceive, Arrives, PacketsOK, PacketOK, Roles, Peer
<1>1. s \in SessionType(Session) /\ p.counter \in Nat /\ ~IsReplay(s, p.counter)
  BY <1>0 DEF SessionsOK, Valid, PacketOK
<1>2. /\ session' \in [Roles -> SessionType(Session)]
      /\ session'[KEYBOARD] = Decoded(s, p.counter)
      /\ session'[KEYBOARD].id = s.id /\ session'[KEYBOARD].tx_counter = s.tx_counter
      /\ \A q \in Roles : q # KEYBOARD => session'[q] = session[q]
  BY <1>0, <1>1, DecodedTyped DEF SessionsOK
<1>3. SessionsOK'
  BY <1>0, <1>2 DEF SessionsOK
<1>4. PacketsOK'
  BY <1>0 DEF PacketsOK, PacketOK
<1>5. NoncesOK'
  BY <1>0, <1>2 DEF NoncesOK, Fresh
<1>6. TakenOK'
  BY <1>0, <1>2, TakesOnce
<1> QED
  BY <1>3, <1>4, <1>5, <1>6

\* What the receiver encodes has its next counter; what it sends is that or
\* what it encoded ahead.
Made(made) ==
  \A q \in made : /\ CanEncode(Rcv)
                  /\ q.session = Rcv.id /\ q.role = RECEIVER /\ q.counter = Rcv.tx_counter

LEMMA ReplyMade ==
  ASSUME NEW type, NEW body
  PROVE  Made(Reply(type, body))
  BY DEF Reply, Made, Encode

LEMMA RcvTakesSteps ==
  ASSUME IInv, NEW p \in air, p.role = KEYBOARD, NEW buffer, NEW made, NEW reply,
         RcvTakes(p, buffer, made, reply)
  PROVE  /\ PacketOK(p) /\ p.role = Peer(RECEIVER) /\ Valid(RECEIVER, p)
         /\ Takes(p) /\ UNCHANGED <<offer, kbdVars>> /\ rx' = buffer
         /\ air' \subseteq air \cup reply
         /\ session' \in [Roles -> SessionType(Session)]
         /\ session'[RECEIVER].id = Rcv.id
         /\ session'[RECEIVER].rx_highest = Decoded(Rcv, p.counter).rx_highest
         /\ session'[RECEIVER].rx_seen = Decoded(Rcv, p.counter).rx_seen
         /\ session'[RECEIVER].tx_counter
              = IF made = {} THEN Rcv.tx_counter ELSE Rcv.tx_counter + 1
         /\ \A q \in Roles : q # RECEIVER => session'[q] = session[q]
<1> DEFINE decoded == Decoded(Rcv, p.counter)
<1>1. /\ PacketOK(p) /\ p.role = Peer(RECEIVER) /\ Valid(RECEIVER, p) /\ RECEIVER \in Roles
  BY RolesDiffer DEF RcvTakes, IInv, PacketsOK, Roles, Peer
<1>2. /\ Rcv = session[RECEIVER] /\ Rcv \in SessionType(Session) /\ p.counter \in Nat
      /\ ~IsReplay(Rcv, p.counter)
  BY <1>1 DEF IInv, SessionsOK, Valid, PacketOK, Rcv
<1>3. /\ decoded \in SessionType(Session) /\ decoded.id = Rcv.id
      /\ decoded.tx_counter = Rcv.tx_counter
  BY <1>2, DecodedTyped
<1>4. /\ session' = [session EXCEPT ![RECEIVER] = IF made = {} THEN decoded ELSE Encoded(decoded)]
      /\ Takes(p) /\ UNCHANGED <<offer, kbdVars>> /\ rx' = buffer
  BY <1>2 DEF RcvTakes
<1>5. air' \subseteq air \cup reply
  BY DEF RcvTakes, Refused, Leaves
<1> HIDE DEF decoded
<1>6. /\ session' \in [Roles -> SessionType(Session)] /\ session'[RECEIVER].id = Rcv.id
      /\ session'[RECEIVER].rx_highest = decoded.rx_highest
      /\ session'[RECEIVER].rx_seen = decoded.rx_seen
      /\ session'[RECEIVER].tx_counter = IF made = {} THEN Rcv.tx_counter ELSE Rcv.tx_counter + 1
      /\ \A q \in Roles : q # RECEIVER => session'[q] = session[q]
  <2>1. CASE made = {}
    BY <1>1, <1>3, <1>4, <2>1 DEF IInv, SessionsOK
  <2>2. CASE made # {}
    BY <1>1, <1>3, <1>4, <2>2, EncodedTyped DEF IInv, SessionsOK
  <2> QED
    BY <2>1, <2>2
<1> QED
  BY <1>1, <1>4, <1>5, <1>6 DEF decoded

LEMMA RcvTakesIInv ==
  ASSUME IInv, NEW p \in air, p.role = KEYBOARD, NEW buffer, NEW made, NEW reply,
         RcvTakes(p, buffer, made, reply), Made(made),
         \A q \in reply : q \in made \/ (q = prepared[RECEIVER] /\ q # None),
         prepared' \in {prepared, [prepared EXCEPT ![RECEIVER] = None]}
  PROVE  IInv'
<1> USE DEF IInv
<1>1. /\ RECEIVER \in Roles /\ KEYBOARD \in Roles /\ Rcv = session[RECEIVER]
      /\ Rcv \in SessionType(Session) /\ Rcv.tx_counter \in Nat
  BY DEF Roles, SessionsOK, SessionType, Rcv
<1>2. /\ PacketOK(p) /\ p.role = Peer(RECEIVER) /\ Valid(RECEIVER, p)
      /\ Takes(p) /\ UNCHANGED offer
      /\ air' \subseteq air \cup reply
      /\ session' \in [Roles -> SessionType(Session)]
      /\ session'[RECEIVER].id = Rcv.id
      /\ session'[RECEIVER].rx_highest = Decoded(Rcv, p.counter).rx_highest
      /\ session'[RECEIVER].rx_seen = Decoded(Rcv, p.counter).rx_seen
      /\ session'[RECEIVER].tx_counter
           = IF made = {} THEN Rcv.tx_counter ELSE Rcv.tx_counter + 1
      /\ \A q \in Roles : q # RECEIVER => session'[q] = session[q]
  BY RcvTakesSteps
<1>3. /\ sealed' = sealed \cup {Nonce(q) : q \in made}
      /\ reused' = (reused \/ \E q \in made : Nonce(q) \in sealed)
  BY DEF RcvTakes
<1>4. \A q \in made : PacketOK(q) /\ Nonce(q) = <<Rcv.id, RECEIVER, Rcv.tx_counter>>
  BY <1>1 DEF Made, PacketOK, Nonce, CanEncode, Ready, SessionType
<1>5. PacketsOK'
  <2>1. \A q \in reply : PacketOK(q)
    BY <1>1, <1>4 DEF PacketsOK
  <2>2. \A q \in air' : PacketOK(q)
    BY <1>2, <2>1 DEF PacketsOK
  <2>3. DOMAIN prepared' = Roles /\ \A r \in Roles : prepared'[r] # None => PacketOK(prepared'[r])
    BY DEF PacketsOK
  <2> QED
    BY <2>2, <2>3 DEF PacketsOK, PacketOK
<1>6. SessionsOK'
  BY <1>2, RolesDiffer DEF SessionsOK, Roles
<1>7. TakenOK'
  BY <1>1, <1>2, TakesOnce
<1>8. \A q \in made : Nonce(q) \notin sealed
  <2> SUFFICES ASSUME NEW q \in made, Nonce(q) \in sealed PROVE FALSE
    OBVIOUS
  <2>1. Nonce(q) = <<Rcv.id, RECEIVER, Rcv.tx_counter>> /\ Rcv.id \in Session
    BY <1>4 DEF Made, PacketOK
  <2>2. Fresh(<<Rcv.id, RECEIVER, Rcv.tx_counter>>)
    BY <1>1, <2>1 DEF NoncesOK
  <2> QED
    BY <1>1, <2>2 DEF Fresh
<1>9. ~reused'
  BY <1>3, <1>8 DEF NoncesOK
<1>10. ASSUME NEW t \in Session, NEW q \in Roles, NEW c \in Nat, <<t, q, c>> \in sealed'
       PROVE  Fresh(<<t, q, c>>)'
  <2>1. CASE <<t, q, c>> \in sealed
    <3>1. Fresh(<<t, q, c>>)
      BY <2>1 DEF NoncesOK
    <3> QED
      BY <1>1, <1>2, <3>1 DEF Fresh
  <2>2. CASE <<t, q, c>> \notin sealed
    <3>1. PICK m \in made : <<t, q, c>> = Nonce(m)
      BY <1>3, <1>10, <2>2
    <3>2. t = Rcv.id /\ q = RECEIVER /\ c = Rcv.tx_counter /\ made # {}
      BY <1>4, <3>1
    <3> QED
      BY <1>1, <1>2, <3>2, RolesDiffer DEF Fresh
  <2> QED
    BY <2>1, <2>2
<1>11. NoncesOK'
  BY <1>9, <1>10 DEF NoncesOK
<1> QED
  BY <1>5, <1>6, <1>7, <1>11

LEMMA RcvReceiveIInv ==
  ASSUME IInv, NEW p \in air, p.role = KEYBOARD, RcvReceive(p)
  PROVE  IInv'
<1>1. CASE RcvAcknowledge(p)
  <2> DEFINE buffer == IF p.type = "input" THEN Accepted(p.body.frames) ELSE rx
  <2> DEFINE ahead == AckPrepared(Status(buffer))
  <2> DEFINE made == IF ahead THEN {} ELSE Reply("ack", Status(buffer))
  <2> DEFINE reply == IF ahead THEN {prepared[RECEIVER]} ELSE made
  <2>1. RcvTakes(p, buffer, made, reply) /\ prepared' = [prepared EXCEPT ![RECEIVER] = None]
    BY <1>1 DEF RcvAcknowledge
  <2>2. Made(made)
    BY ReplyMade DEF Made
  <2>3. ahead => prepared[RECEIVER] # None
    BY DEF AckPrepared, PreparedCurrent
  <2>4. \A q \in reply : q \in made \/ (q = prepared[RECEIVER] /\ q # None)
    BY <2>3
  <2> HIDE DEF buffer, made, reply
  <2> QED
    BY <2>1, <2>2, <2>4, RcvTakesIInv
<1>2. CASE RcvAnswer(p)
  <2>1. PICK made \in {Reply("ack", Status(rx)), Reply("poll", [frames |-> <<>>])} :
          RcvTakes(p, rx, made, made)
    BY <1>2 DEF RcvAnswer
  <2>2. UNCHANGED prepared
    BY <1>2 DEF RcvAnswer
  <2>3. Made(made)
    BY ReplyMade
  <2> QED
    BY <2>1, <2>2, <2>3, RcvTakesIInv
<1> QED
  BY <1>1, <1>2 DEF RcvReceive

LEMMA LoseIInv ==
  ASSUME IInv, NEW p \in air, Lose(p)
  PROVE  IInv'
<1> USE DEF IInv
<1>1. /\ air' = air \ {p} /\ taken' = taken \ {Nonce(p)}
      /\ UNCHANGED <<session, offer, prepared, sealed, reused, replayed>>
  BY DEF Lose
<1>2. SessionsOK' /\ PacketsOK' /\ NoncesOK'
  BY <1>1 DEF SessionsOK, PacketsOK, PacketOK, NoncesOK, Fresh
<1>3. ASSUME NEW n \in taken' PROVE Taken(n)'
  <2>1. Taken(n) /\ n # Nonce(p)
    BY <1>1, <1>3 DEF TakenOK
  <2>2. PICK q \in air : n = Nonce(q)
    BY <2>1 DEF Taken
  <2>3. q \in air'
    BY <1>1, <2>1, <2>2
  <2> QED
    BY <1>1, <2>1, <2>2, <2>3 DEF Taken
<1>4. TakenOK'
  BY <1>1, <1>3 DEF TakenOK
<1> QED
  BY <1>2, <1>4

LEMMA NextIInv == IInv /\ [Next]_vars => IInv'
<1> SUFFICES ASSUME IInv, [Next]_vars PROVE IInv'
  OBVIOUS
<1>1. CASE KbdRestart \/ KbdSilence \/ KbdTimeout
  BY <1>1, KbdNewSessionIInv DEF KbdRestart, KbdSilence, KbdTimeout
<1>2. CASE RcvSilence \/ RcvTimeout
  BY <1>2, RcvNewSessionIInv DEF RcvSilence, RcvTimeout
<1>3. CASE KbdEstablish
  BY <1>3, KbdEstablishIInv
<1>4. CASE RcvEstablish
  BY <1>4, RcvEstablishIInv
<1>5. CASE PublishAny
  BY <1>5, QuietIInv DEF PublishAny, Publish
<1>6. CASE KbdSend
  BY <1>6, KbdSendIInv
<1>7. CASE KbdPrepare
  BY <1>7, KbdPrepareIInv
<1>8. CASE Receives
  BY <1>8, KbdReceiveIInv, RcvReceiveIInv DEF Receives
<1>9. CASE RcvPrepare
  BY <1>9, RcvPrepareIInv
<1>10. CASE Completes
  BY <1>10, QuietIInv DEF Completes
<1>11. CASE Loses
  BY <1>11, LoseIInv DEF Loses
<1>12. CASE UNCHANGED vars
  BY <1>12, QuietIInv DEF vars
<1> QED
  BY <1>1, <1>2, <1>3, <1>4, <1>5, <1>6, <1>7, <1>8, <1>9, <1>10, <1>11, <1>12 DEF Next

LEMMA Invariance == Spec => []IInv
  BY InitIInv, NextIInv, PTL DEF Spec

-----------------------------------------------------------------------------
(* No nonce of a session encrypts two packets (NonceNeverReused).            *)
THEOREM NoncesAreFresh == Spec => []NonceNeverReused
<1>1. IInv => NonceNeverReused
  BY DEF IInv, NoncesOK, NonceNeverReused
<1> QED
  BY <1>1, Invariance, PTL

(* No packet is delivered twice (NeverReplayed).                             *)
THEOREM DeliveredOnce == Spec => []NeverReplayed
<1>1. IInv => NeverReplayed
  BY DEF IInv, TakenOK, NeverReplayed
<1> QED
  BY <1>1, Invariance, PTL

-----------------------------------------------------------------------------
(* What leaves is current.  A report that was encoded ahead is the one that *)
(* the queue has under its number, for as long as the session lasts: the    *)
(* queue numbers upwards and never changes a report it holds.               *)

\* The queue has no other report with the number of f, nor will it have one.
Fits(q, f) ==
  /\ f.seq < q.next
  /\ \A i \in 1..Len(q.frames) : q.frames[i].seq = f.seq => q.frames[i] = f

QueueOK(q) ==
  /\ q \in QueueType
  /\ q.online => q.next >= 1
  /\ \A i \in 1..Len(q.frames) : Fits(q, q.frames[i])

KbdAhead(p) ==
  /\ Ready(Kbd) /\ p.role = KEYBOARD /\ p.type = "input"
  /\ \E f \in Frame : p.body.frames = <<f>> /\ Fits(queue, f)

RcvAhead(p) == p.role = RECEIVER /\ p.type = "ack"

AheadInv ==
  /\ QueueOK(queue) /\ tx \in TxType
  /\ prepared[KEYBOARD] # None => KbdAhead(prepared[KEYBOARD])
  /\ prepared[RECEIVER] # None => RcvAhead(prepared[RECEIVER])

LEMMA ReportsTyped ==
  /\ \A t \in Types : Reports(t) \subseteq AllReports
  /\ Released \in [Types -> AllReports]
  BY QueueAssumption DEF AllReports, Reports, Released, Types

LEMMA EmptyFacts ==
  /\ QueueOK(ZeroQueue) /\ TxReset \in TxType
  /\ \A q : QueueOK(q) => QueueOK(Disconnect(q))
<1>1. <<>> \in Seq(Frame) /\ Len(<<>>) = 0
  OBVIOUS
<1>2. QueueOK(ZeroQueue) /\ TxReset \in TxType
  BY <1>1, ReportsTyped, QueueAssumption, DeliveryAssumption
     DEF QueueOK, ZeroQueue, QueueType, TxReset, TxType, Seqs
<1>3. ASSUME NEW q, QueueOK(q) PROVE QueueOK(Disconnect(q))
  BY <1>1, <1>3 DEF QueueOK, QueueType, Disconnect
<1> QED
  BY <1>2, <1>3

\* A report that is enqueued takes the next number.
LEMMA EnqueueKeeps ==
  ASSUME NEW q, QueueOK(q), q.next >= 1, NEW t \in Types, NEW d \in AllReports
  PROVE  /\ QueueOK(Enqueue(q, t, d)) /\ Enqueue(q, t, d).next >= 1
         /\ \A f \in Frame : Fits(q, f) => Fits(Enqueue(q, t, d), f)
<1> DEFINE g == [seq |-> q.next, type |-> t, data |-> d]
<1> DEFINE e == Enqueue(q, t, d)
<1>0. /\ q.frames \in Seq(Frame) /\ q.next \in Nat /\ Len(q.frames) \in Nat
      /\ q.latest \in [Types -> AllReports] /\ q.online \in BOOLEAN
  BY DEF QueueOK, QueueType
<1>1. CASE CannotEnqueue(q)
  BY <1>1 DEF Enqueue
<1>2. CASE ~CannotEnqueue(q)
  <2>1. q.next \in 1..(SeqMax - 1) /\ q.next + 1 \in 0..SeqMax /\ g \in Frame
    BY <1>2, QueueAssumption DEF CannotEnqueue, QueueOK, QueueType, Frame
  <2>2. e = [frames |-> Append(q.frames, g), latest |-> q.latest,
             next |-> q.next + 1, online |-> q.online]
    BY <1>2 DEF Enqueue
  <2>3. g.seq = q.next
    OBVIOUS
  <2> HIDE DEF g, e
  <2>4. /\ e.frames = Append(q.frames, g) /\ e.next = q.next + 1
        /\ e.frames \in Seq(Frame) /\ Len(e.frames) = Len(q.frames) + 1
        /\ e.frames[Len(q.frames) + 1] = g
        /\ \A i \in 1..Len(q.frames) : e.frames[i] = q.frames[i]
    BY <1>0, <2>1, <2>2, AppendProperties
  <2>5. e \in QueueType
    BY <1>0, <2>1, <2>2, <2>4 DEF QueueType
  <2>6. \A i \in 1..Len(e.frames) : i \in 1..Len(q.frames) \/ i = Len(q.frames) + 1
    BY <1>0, <2>4
  <2>7. ASSUME NEW f \in Frame, Fits(q, f) PROVE Fits(e, f)
    <3>1. f.seq \in Nat /\ f.seq < q.next
      BY <2>7, QueueAssumption DEF Fits, Frame
    <3>2. f.seq < e.next
      BY <1>0, <2>4, <3>1
    <3>3. ASSUME NEW i \in 1..Len(e.frames), e.frames[i].seq = f.seq PROVE e.frames[i] = f
      <4>1. CASE i \in 1..Len(q.frames)
        BY <2>4, <2>7, <3>3, <4>1 DEF Fits
      <4>2. CASE i = Len(q.frames) + 1
        BY <1>0, <2>3, <2>4, <3>1, <3>3, <4>2
      <4> QED
        BY <2>6, <4>1, <4>2
    <3> QED
      BY <3>2, <3>3 DEF Fits
  <2>8. e.next >= 1
    BY <1>0, <2>4
  <2>9. ASSUME NEW i \in 1..Len(e.frames) PROVE Fits(e, e.frames[i])
    <3>1. CASE i \in 1..Len(q.frames)
      <4>1. e.frames[i] = q.frames[i] /\ q.frames[i] \in Frame /\ Fits(q, q.frames[i])
        BY <1>0, <2>4, <3>1, ElementOfSeq DEF QueueOK
      <4> QED
        BY <2>7, <4>1
    <3>2. CASE i = Len(q.frames) + 1
      <4>1. e.frames[i] = g /\ g.seq < e.next
        BY <1>0, <2>3, <2>4, <3>2
      <4>2. ASSUME NEW j \in 1..Len(q.frames) PROVE e.frames[j].seq # g.seq
        <5>1. e.frames[j] = q.frames[j] /\ q.frames[j] \in Frame /\ q.frames[j].seq < q.next
          BY <1>0, <2>4, <4>2, ElementOfSeq DEF QueueOK, Fits
        <5> QED
          BY <1>0, <2>3, <5>1, QueueAssumption DEF Frame
      <4> QED
        BY <2>4, <2>6, <4>1, <4>2 DEF Fits
    <3> QED
      BY <2>6, <3>1, <3>2
  <2>nonempty. QueueOK(e)
    BY <2>5, <2>8, <2>9 DEF QueueOK
  <2> QED
    BY <2>7, <2>8, <2>nonempty DEF e
<1> QED
  BY <1>1, <1>2

LEMMA PushKeeps ==
  ASSUME NEW q, QueueOK(q), NEW t \in Types, NEW d \in AllReports
  PROVE  /\ QueueOK(Push(q, t, d))
         /\ \A f \in Frame : Fits(q, f) => Fits(Push(q, t, d), f)
<1> DEFINE seen == [q EXCEPT !.latest[t] = d]
<1>1. /\ seen \in QueueType /\ seen.online = q.online
      /\ seen.frames = q.frames /\ seen.next = q.next
  BY DEF QueueOK, QueueType
<1>2. Push(q, t, d) \in {q, seen, Enqueue(seen, t, d)}
      /\ (Push(q, t, d) = Enqueue(seen, t, d) \/ Push(q, t, d) = seen \/ Push(q, t, d) = q)
      /\ (~q.online => Push(q, t, d) \in {q, seen})
  BY DEF Push
<1> HIDE DEF seen
<1>3. QueueOK(seen) /\ \A f \in Frame : Fits(q, f) => Fits(seen, f)
  BY <1>1 DEF QueueOK, Fits
<1>4. q.online => /\ QueueOK(Enqueue(seen, t, d))
                  /\ \A f \in Frame : Fits(seen, f) => Fits(Enqueue(seen, t, d), f)
  BY <1>1, <1>3, EnqueueKeeps DEF QueueOK
<1> QED
  BY <1>2, <1>3, <1>4

LEMMA StartKeeps ==
  ASSUME NEW q, QueueOK(q) PROVE QueueOK(StartSession(q))
<1> DEFINE fresh == [frames |-> <<>>, latest |-> q.latest, next |-> 1, online |-> TRUE]
<1> DEFINE one == Enqueue(fresh, "keyboard", q.latest["keyboard"])
<1>1. /\ q.latest["keyboard"] \in AllReports /\ q.latest["consumer"] \in AllReports
      /\ "keyboard" \in Types /\ "consumer" \in Types
  BY DEF QueueOK, QueueType, Types
<1>2. QueueOK(fresh) /\ fresh.next >= 1
  <2>1. <<>> \in Seq(Frame) /\ Len(<<>>) = 0
    OBVIOUS
  <2> QED
    BY <2>1, QueueAssumption DEF QueueOK, QueueType
<1>3. StartSession(q) = Enqueue(one, "consumer", q.latest["consumer"])
  BY DEF StartSession
<1> HIDE DEF fresh
<1>4. QueueOK(one) /\ one.next >= 1
  BY <1>1, <1>2, EnqueueKeeps
<1> HIDE DEF one
<1> QED
  BY <1>1, <1>3, <1>4, EnqueueKeeps

LEMMA UpToBounds ==
  ASSUME NEW q, QueueOK(q), NEW c \in Nat
  PROVE  UpTo(q, c) \in 0..Len(q.frames)
<1>1. q.frames \in Seq(Frame) /\ Len(q.frames) \in Nat
  BY DEF QueueOK, QueueType
<1>2. CASE q.frames = <<>>
  BY <1>1, <1>2 DEF UpTo
<1>3. CASE q.frames # <<>>
  <2>1. 1 \in 1..Len(q.frames)
    BY <1>1, <1>3, EmptySeq
  <2>2. q.frames[1] \in Frame
    BY <1>1, <2>1, ElementOfSeq
  <2>3. q.frames[1].seq \in Nat
    BY <2>2, QueueAssumption DEF Frame
  <2> QED
    BY <1>1, <1>3, <2>3 DEF UpTo
<1> QED
  BY <1>2, <1>3

LEMMA PopKeeps ==
  ASSUME NEW q, QueueOK(q), NEW c \in Nat
  PROVE  /\ QueueOK(Pop(q, c))
         /\ \A f \in Frame : Fits(q, f) => Fits(Pop(q, c), f)
<1> DEFINE n == UpTo(q, c)
<1> DEFINE rest == SubSeq(q.frames, n + 1, Len(q.frames))
<1>1. /\ n \in 0..Len(q.frames) /\ Len(q.frames) \in Nat /\ q.frames \in Seq(Frame)
  BY UpToBounds DEF QueueOK, QueueType
<1>2. Pop(q, c) = [q EXCEPT !.frames = rest]
  BY DEF Pop, DropFirst
<1> HIDE DEF n
<1>3. \A i \in (n + 1)..Len(q.frames) : q.frames[i] \in Frame
  BY <1>1, ElementOfSeq
<1>4. /\ rest \in Seq(Frame) /\ Len(rest) = Len(q.frames) - n
      /\ \A i \in 1..Len(q.frames) - n : rest[i] = q.frames[n + i]
  BY <1>1, <1>3, SubSeqProperties
<1> HIDE DEF rest
<1>5. /\ Pop(q, c) \in QueueType /\ Pop(q, c).frames = rest
      /\ Pop(q, c).online = q.online /\ Pop(q, c).next = q.next
  BY <1>2, <1>4 DEF QueueOK, QueueType
<1>6. \A i \in 1..Len(rest) : n + i \in 1..Len(q.frames) /\ rest[i] = q.frames[n + i]
  BY <1>1, <1>4
<1>7. \A f : Fits(q, f) => Fits(Pop(q, c), f)
  BY <1>5, <1>6 DEF Fits
<1>8. QueueOK(Pop(q, c))
  BY <1>5, <1>6, <1>7 DEF QueueOK
<1> QED
  BY <1>7, <1>8

\* A batch is a piece of the queue.
LEMMA BatchInQueue ==
  ASSUME NEW w \in TxType, NEW q, QueueOK(q)
  PROVE  /\ Batch(w, q) \in Seq(Frame)
         /\ \A i \in 1..Len(Batch(w, q)) : \E j \in 1..Len(q.frames) :
              Batch(w, q)[i] = q.frames[j]
<1> DEFINE skip == UpTo(q, w.accepted)
<1> DEFINE n == BatchSize(Len(q.frames) - skip)
<1> DEFINE b == SubSeq(q.frames, skip + 1, skip + n)
<1>1. /\ Len(q.frames) \in Nat /\ q.frames \in Seq(Frame)
      /\ w.accepted \in Nat /\ BatchMax \in Nat \ {0}
  BY QueueAssumption, DeliveryAssumption DEF QueueOK, QueueType, TxType, Seqs
<1>2. skip \in 0..Len(q.frames)
  BY <1>1, UpToBounds
<1>3. Batch(w, q) \in {b, <<>>} /\ (Batch(w, q) # <<>> => n > 0 /\ Batch(w, q) = b)
  BY DEF Batch
<1> HIDE DEF skip
<1>4. n \in 0..(Len(q.frames) - skip)
  BY <1>1, <1>2 DEF BatchSize
<1> HIDE DEF n
<1>5. CASE Batch(w, q) = <<>>
  BY <1>5
<1>6. CASE Batch(w, q) # <<>>
  <2>1. \A i \in (skip + 1)..(skip + n) : q.frames[i] \in Frame
    BY <1>1, <1>2, <1>4, ElementOfSeq
  <2>2. /\ skip + 1 \in Int /\ skip + n \in Int /\ skip + 1 <= skip + n
        /\ (skip + n) - (skip + 1) + 1 = n
    BY <1>1, <1>2, <1>3, <1>4, <1>6
  <2>3. /\ b \in Seq(Frame) /\ Len(b) = n
        /\ \A i \in 1..n : b[i] = q.frames[(skip + 1) + i - 1]
    BY <2>1, <2>2, SubSeqProperties
  <2> HIDE DEF b
  <2>4. \A i \in 1..n : (skip + 1) + i - 1 \in 1..Len(q.frames)
    BY <1>1, <1>2, <1>4
  <2> QED
    BY <1>3, <1>6, <2>3, <2>4
<1> QED
  BY <1>5, <1>6

\* A step that keeps the session and whatever fits the queue.
LEMMA AheadStays ==
  ASSUME AheadInv, QueueOK(queue'), tx' \in TxType, session'[KEYBOARD].id = session[KEYBOARD].id,
         \A f \in Frame : Fits(queue, f) => Fits(queue', f),
         prepared'[KEYBOARD] \in {None, prepared[KEYBOARD]},
         prepared'[RECEIVER] # None => RcvAhead(prepared'[RECEIVER])
  PROVE  AheadInv'
<1>1. ASSUME prepared'[KEYBOARD] # None PROVE KbdAhead(prepared[KEYBOARD])'
  <2>1. prepared'[KEYBOARD] = prepared[KEYBOARD] /\ KbdAhead(prepared[KEYBOARD])
    BY <1>1 DEF AheadInv
  <2>2. PICK f \in Frame : prepared[KEYBOARD].body.frames = <<f>> /\ Fits(queue, f)
    BY <2>1 DEF KbdAhead
  <2>3. Fits(queue', f)
    BY <2>2
  <2>4. Ready(Kbd)'
    BY <2>1 DEF KbdAhead, Ready, Kbd
  <2> QED
    BY <2>1, <2>2, <2>3, <2>4 DEF KbdAhead
<1> QED
  BY <1>1 DEF AheadInv, RcvAhead

\* An end that starts over forgets what it encoded.
LEMMA ClearAhead ==
  ASSUME IInv, AheadInv, NEW r \in Roles, Clear(r),
         \/ r = KEYBOARD /\ queue' = Disconnect(queue) /\ tx' = TxReset
         \/ r = RECEIVER /\ UNCHANGED <<queue, tx>>
  PROVE  AheadInv'
<1>1. /\ prepared' = [prepared EXCEPT ![r] = None] /\ DOMAIN prepared = Roles
      /\ session' = [session EXCEPT ![r] = SessionClear] /\ DOMAIN session = Roles
      /\ KEYBOARD \in Roles /\ RECEIVER \in Roles /\ KEYBOARD # RECEIVER
  BY RolesDiffer DEF Clear, IInv, PacketsOK, SessionsOK, Roles
<1>2. CASE r = KEYBOARD
  <2>1. QueueOK(queue') /\ tx' \in TxType
    BY <1>1, <1>2, EmptyFacts DEF AheadInv
  <2>2. prepared'[KEYBOARD] = None /\ prepared'[RECEIVER] = prepared[RECEIVER]
    BY <1>1, <1>2
  <2> QED
    BY <2>1, <2>2 DEF AheadInv, RcvAhead
<1>3. CASE r = RECEIVER
  <2>1. /\ prepared'[RECEIVER] = None /\ prepared'[KEYBOARD] = prepared[KEYBOARD]
        /\ session'[KEYBOARD].id = session[KEYBOARD].id /\ UNCHANGED <<queue, tx>>
    BY <1>1, <1>3
  <2> QED
    BY <2>1, AheadStays DEF AheadInv
<1> QED
  BY <1>2, <1>3, RolesDiffer DEF Roles

LEMMA EstablishAhead ==
  ASSUME IInv, AheadInv, RcvEstablish \/ KbdEstablish
  PROVE  AheadInv'
<1>0. /\ DOMAIN session = Roles /\ KEYBOARD \in Roles /\ RECEIVER \in Roles
      /\ KEYBOARD # RECEIVER
  BY RolesDiffer DEF IInv, SessionsOK, Roles
<1>1. CASE RcvEstablish
  <2>1. session'[KEYBOARD] = session[KEYBOARD] /\ UNCHANGED <<prepared, queue, tx>>
    BY <1>0, <1>1 DEF RcvEstablish
  <2> QED
    BY <2>1, AheadStays DEF AheadInv
<1>2. CASE KbdEstablish
  <2>1. prepared[KEYBOARD] = None /\ UNCHANGED <<prepared, tx>> /\ queue' = StartSession(queue)
    BY <1>2 DEF KbdEstablish, AheadInv, KbdAhead
  <2>2. QueueOK(queue')
    BY <2>1, StartKeeps DEF AheadInv
  <2> QED
    BY <2>1, <2>2 DEF AheadInv, RcvAhead
<1> QED
  BY <1>1, <1>2

LEMMA PublishAhead == ASSUME AheadInv, PublishAny PROVE AheadInv'
<1>1. PICK t \in Types, d \in AllReports : queue' = Push(queue, t, d)
  BY ReportsTyped DEF PublishAny, Publish
<1>2. UNCHANGED <<session, prepared, tx>>
  BY DEF PublishAny, Publish
<1>3. QueueOK(queue') /\ \A f \in Frame : Fits(queue, f) => Fits(queue', f)
  BY <1>1, PushKeeps DEF AheadInv
<1> QED
  BY <1>2, <1>3, AheadStays DEF AheadInv

\* What Encodes does to an end's session.
LEMMA EncodesSession ==
  ASSUME IInv, NEW r \in Roles, NEW p, Encodes(r, p)
  PROVE  /\ \A q \in Roles : session'[q].id = session[q].id
         /\ session'[r].tx_counter = session[r].tx_counter + 1
<1>1. session[r] \in SessionType(Session) /\ session' = [session EXCEPT ![r] = Encoded(session[r])]
  BY DEF IInv, SessionsOK, Encodes
<1> QED
  BY <1>1, EncodedTyped DEF IInv, SessionsOK

LEMMA KbdSendAhead == ASSUME IInv, AheadInv, KbdSend PROVE AheadInv'
<1>1. KEYBOARD \in Roles /\ RECEIVER \in Roles /\ KEYBOARD # RECEIVER /\ DOMAIN prepared = Roles
  BY RolesDiffer DEF Roles, IInv, PacketsOK
<1>2. Batch(tx, queue) \in Seq(Frame)
  BY BatchInQueue DEF AheadInv
<1>3. PICK frames \in {Batch(tx, queue), <<>>} :
      /\ prepared' \in {prepared, [prepared EXCEPT ![KEYBOARD] = None]} /\ UNCHANGED queue
      /\ EncodesNothing \/ Encodes(KEYBOARD, KbdPacket(frames))
      /\ tx' \in {tx} \cup (IF frames = <<>> THEN {}
                            ELSE {[tx EXCEPT !.sent = frames[Len(frames)].seq]})
  BY DEF KbdSend, Sends, Leaves, Refused
<1>4. session'[KEYBOARD].id = session[KEYBOARD].id
  BY <1>1, <1>3, EncodesSession DEF EncodesNothing
<1>5. tx' \in TxType
  <2>1. CASE frames = <<>>
    BY <1>3, <2>1 DEF AheadInv
  <2>2. CASE frames # <<>>
    <3>1. Len(frames) \in 1..Len(frames)
      BY <1>2, <2>2, EmptySeq
    <3>2. frames[Len(frames)] \in Frame
      BY <1>2, <2>2, <3>1, ElementOfSeq
    <3>3. frames[Len(frames)].seq \in Seqs
      BY <3>2, QueueAssumption DEF Frame, Seqs
    <3> QED
      BY <1>3, <2>2, <3>3 DEF AheadInv, TxType
  <2> QED
    BY <2>1, <2>2
<1>6. prepared'[KEYBOARD] \in {None, prepared[KEYBOARD]} /\ prepared'[RECEIVER] = prepared[RECEIVER]
  BY <1>1, <1>3
<1> QED
  BY <1>3, <1>4, <1>5, <1>6, AheadStays DEF AheadInv

LEMMA KbdPrepareAhead == ASSUME IInv, AheadInv, KbdPrepare PROVE AheadInv'
<1> DEFINE last == queue.frames[Len(queue.frames)]
<1> DEFINE p == Encode(Kbd, KEYBOARD, "input", [frames |-> <<last>>])
<1>1. /\ KEYBOARD \in Roles /\ RECEIVER \in Roles /\ KEYBOARD # RECEIVER
      /\ DOMAIN prepared = Roles
  BY RolesDiffer DEF Roles, IInv, PacketsOK
<1>2. /\ Encodes(KEYBOARD, p) /\ prepared' = [prepared EXCEPT ![KEYBOARD] = p]
      /\ Ready(Kbd) /\ UNCHANGED kbdVars
      /\ Len(queue.frames) \in 1..Len(queue.frames) /\ queue.frames[Len(queue.frames)].seq = tx.sent + 1
  BY DEF KbdPrepare, NextReport
<1>3. p.role = KEYBOARD /\ p.type = "input" /\ p.body.frames = <<last>>
  BY DEF Encode
<1> HIDE DEF p
<1>4. last \in Frame /\ Fits(queue, last)
  BY <1>2, ElementOfSeq DEF AheadInv, QueueOK, QueueType
<1>5. Ready(Kbd)'
  BY <1>1, <1>2, EncodesSession DEF Ready, Kbd
<1> HIDE DEF last
<1>6. Fits(queue', last)
  BY <1>2, <1>4
<1>7. prepared'[KEYBOARD] = p /\ prepared'[RECEIVER] = prepared[RECEIVER]
  BY <1>1, <1>2
<1>8. KbdAhead(prepared[KEYBOARD])'
  BY <1>3, <1>4, <1>5, <1>6, <1>7 DEF KbdAhead
<1> QED
  BY <1>2, <1>7, <1>8 DEF AheadInv, RcvAhead

LEMMA RcvPrepareAhead == ASSUME IInv, AheadInv, RcvPrepare PROVE AheadInv'
<1> DEFINE p == Encode(Rcv, RECEIVER, "ack", Predicted)
<1>1. /\ KEYBOARD \in Roles /\ RECEIVER \in Roles /\ KEYBOARD # RECEIVER
      /\ DOMAIN prepared = Roles
  BY RolesDiffer DEF Roles, IInv, PacketsOK
<1>2. /\ UNCHANGED kbdVars
      /\ \/ prepared' = [prepared EXCEPT ![RECEIVER] = None] /\ EncodesNothing
         \/ Encodes(RECEIVER, p) /\ prepared' = [prepared EXCEPT ![RECEIVER] = p]
  BY DEF RcvPrepare
<1>3. p.role = RECEIVER /\ p.type = "ack"
  BY DEF Encode
<1> HIDE DEF p
<1>4. session'[KEYBOARD].id = session[KEYBOARD].id
  BY <1>1, <1>2, EncodesSession DEF EncodesNothing
<1>5. /\ prepared'[KEYBOARD] = prepared[KEYBOARD]
      /\ prepared'[RECEIVER] # None => RcvAhead(prepared'[RECEIVER])
  BY <1>1, <1>2, <1>3 DEF RcvAhead
<1> QED
  BY <1>2, <1>4, <1>5, AheadStays DEF AheadInv

LEMMA KbdReceiveAhead ==
  ASSUME IInv, AheadInv, NEW p \in air, p.role # KEYBOARD, KbdReceive(p)
  PROVE  AheadInv'
<1> DEFINE s == session[KEYBOARD]
<1>1. /\ session' = [session EXCEPT ![KEYBOARD] = Decoded(s, p.counter)] /\ UNCHANGED prepared
      /\ \/ UNCHANGED <<tx, queue>>
         \/ p.body \in AckType /\ tx' = Apply(tx, p.body) /\ queue' = Pop(queue, p.body.completed)
  BY DEF KbdReceive
<1>2. s \in SessionType(Session) /\ p.counter \in Nat /\ ~IsReplay(s, p.counter) /\ KEYBOARD \in Roles
  BY DEF KbdReceive, IInv, SessionsOK, PacketsOK, PacketOK, Valid, Roles
<1>3. session'[KEYBOARD].id = session[KEYBOARD].id
  BY <1>1, <1>2, DecodedTyped DEF IInv, SessionsOK
<1>4. CASE UNCHANGED <<tx, queue>>
  BY <1>1, <1>3, <1>4, AheadStays DEF AheadInv
<1>5. CASE p.body \in AckType /\ tx' = Apply(tx, p.body) /\ queue' = Pop(queue, p.body.completed)
  <2>0. /\ p.body.accepted \in Seqs /\ p.body.completed \in Seqs /\ p.body.free \in 0..Capacity
        /\ tx \in TxType
    BY <1>5 DEF AckType, AheadInv
  <2>1. p.body.completed \in Nat /\ tx' \in TxType
    <3>1. Apply(tx, p.body) = [sent |-> tx.sent, accepted |-> p.body.accepted,
                               completed |-> p.body.completed, free |-> p.body.free]
      <4>1. Apply(tx, p.body) = [tx EXCEPT !.accepted = p.body.accepted,
                                 !.completed = p.body.completed, !.free = p.body.free]
        BY DEF Apply
      <4> QED
        BY <2>0, <4>1, Zenon DEF TxType
    <3> QED
      BY <1>5, <2>0, <3>1, QueueAssumption DEF TxType, Seqs
  <2>2. QueueOK(queue') /\ \A f \in Frame : Fits(queue, f) => Fits(queue', f)
    BY <1>5, <2>1, PopKeeps DEF AheadInv
  <2> QED
    BY <1>1, <1>3, <2>1, <2>2, AheadStays DEF AheadInv
<1> QED
  BY <1>1, <1>4, <1>5

LEMMA RcvReceiveAhead ==
  ASSUME IInv, AheadInv, NEW p \in air, RcvReceive(p)
  PROVE  AheadInv'
<1>1. /\ KEYBOARD \in Roles /\ RECEIVER \in Roles /\ KEYBOARD # RECEIVER
      /\ DOMAIN prepared = Roles /\ DOMAIN session = Roles
  BY RolesDiffer DEF Roles, IInv, PacketsOK, SessionsOK
<1>2. /\ prepared' \in {prepared, [prepared EXCEPT ![RECEIVER] = None]} /\ UNCHANGED kbdVars
      /\ session'[KEYBOARD] = session[KEYBOARD]
  BY <1>1 DEF RcvReceive, RcvAcknowledge, RcvAnswer, RcvTakes
<1> QED
  BY <1>1, <1>2, AheadStays DEF AheadInv

LEMMA InitAhead == Init => AheadInv
  BY EmptyFacts DEF Init, AheadInv, Roles

LEMMA NextAhead == IInv /\ AheadInv /\ [Next]_vars => AheadInv'
<1> SUFFICES ASSUME IInv, AheadInv, [Next]_vars PROVE AheadInv'
  OBVIOUS
<1>1. CASE KbdRestart \/ KbdSilence \/ KbdTimeout
  BY <1>1, ClearAhead DEF KbdRestart, KbdSilence, KbdTimeout, KbdNewSession, Roles
<1>2. CASE RcvSilence \/ RcvTimeout
  BY <1>2, ClearAhead DEF RcvSilence, RcvTimeout, RcvNewSession, Roles
<1>3. CASE KbdEstablish \/ RcvEstablish
  BY <1>3, EstablishAhead
<1>4. CASE PublishAny
  BY <1>4, PublishAhead
<1>5. CASE KbdSend \/ KbdPrepare
  BY <1>5, KbdSendAhead, KbdPrepareAhead
<1>6. CASE Receives
  BY <1>6, KbdReceiveAhead, RcvReceiveAhead DEF Receives
<1>7. CASE RcvPrepare
  BY <1>7, RcvPrepareAhead
<1>8. CASE Completes \/ Loses \/ UNCHANGED vars
  <2>1. UNCHANGED <<session, queue, tx, prepared>>
    BY <1>8 DEF Completes, Loses, Lose, vars
  <2> QED
    BY <2>1, AheadStays DEF AheadInv
<1> QED
  BY <1>1, <1>2, <1>3, <1>4, <1>5, <1>6, <1>7, <1>8 DEF Next

LEMMA AheadInvariance == Spec => []AheadInv
  BY InitAhead, NextAhead, Invariance, PTL DEF Spec

-----------------------------------------------------------------------------
(* The packets that a step puts into the air *)

LeavesCurrent ==
  \A p \in air' \ air :
    /\ p.session = session'[p.role].id
    /\ p.counter + 1 = session'[p.role].tx_counter
    /\ p.type = "input" => p.body.frames = Batch(tx, queue)
    /\ p.type = "ack" => p.body = Status(rx')

LEMMA KbdSendCurrent == ASSUME IInv, AheadInv, KbdSend PROVE LeavesCurrent
<1>1. PICK frames \in {Batch(tx, queue), <<>>} :
      /\ Ready(Kbd) /\ KEYBOARD \in Roles
      /\ \/ /\ UsesPrepared(frames) /\ Sends(frames, prepared[KEYBOARD]) /\ EncodesNothing
         \/ Sends(frames, KbdPacket(frames)) /\ Encodes(KEYBOARD, KbdPacket(frames))
  BY DEF KbdSend, Roles
<1>2. frames # <<>> =>
        /\ frames = Batch(tx, queue) /\ frames \in Seq(Frame)
        /\ \A i \in 1..Len(frames) : \E j \in 1..Len(queue.frames) : frames[i] = queue.frames[j]
  BY <1>1, BatchInQueue DEF AheadInv
<1>3. CASE UsesPrepared(frames) /\ Sends(frames, prepared[KEYBOARD]) /\ EncodesNothing
  <2> DEFINE p == prepared[KEYBOARD]
  <2>1. /\ Len(frames) = 1 /\ p # None /\ p.session = session[KEYBOARD].id
        /\ p.counter + 1 = session[KEYBOARD].tx_counter
        /\ p.body.frames[1].seq = frames[1].seq
    BY <1>3 DEF UsesPrepared, PreparedCurrent
  <2>nonempty. frames # <<>>
    <3>1. Len(<<>>) # 1
      OBVIOUS
    <3> QED
      BY <2>1, <3>1, Zenon
  <2>2. KbdAhead(p)
    BY <2>1 DEF AheadInv
  <2>3. PICK f \in Frame : p.body.frames = <<f>> /\ Fits(queue, f)
    BY <2>2 DEF KbdAhead
  <2>4. PICK j \in 1..Len(queue.frames) : frames[1] = queue.frames[j]
    BY <1>2, <2>1, <2>nonempty
  <2>5. f.seq = frames[1].seq
    BY <2>1, <2>3
  <2>6. frames[1] = f
    BY <2>3, <2>4, <2>5 DEF Fits
  <2>7. p.body.frames = frames
    BY <1>2, <2>1, <2>3, <2>6, <2>nonempty
  <2>8. air' \in {air, air \cup {p}} /\ UNCHANGED session
    BY <1>3, SendsGrows DEF EncodesNothing
  <2>9. p.role = KEYBOARD /\ p.type = "input"
    BY <2>2 DEF KbdAhead
  <2> HIDE DEF p
  <2> QED
    BY <1>2, <2>1, <2>7, <2>8, <2>9, <2>nonempty DEF LeavesCurrent
<1>4. CASE Sends(frames, KbdPacket(frames)) /\ Encodes(KEYBOARD, KbdPacket(frames))
  <2> DEFINE p == KbdPacket(frames)
  <2>1. /\ p.session = session[KEYBOARD].id /\ p.role = KEYBOARD
        /\ p.counter = session[KEYBOARD].tx_counter /\ p.type # "ack"
        /\ p.type = "input" => p.body.frames = frames /\ frames # <<>>
    BY DEF KbdPacket, Encode, Kbd
  <2>2. air' \in {air, air \cup {p}}
    BY <1>4, SendsGrows
  <2>3. /\ session'[KEYBOARD].id = session[KEYBOARD].id
        /\ session'[KEYBOARD].tx_counter = session[KEYBOARD].tx_counter + 1
    BY <1>1, <1>4, EncodesSession
  <2> HIDE DEF p
  <2> QED
    BY <1>2, <2>1, <2>2, <2>3 DEF LeavesCurrent
<1> QED
  BY <1>1, <1>3, <1>4

\* The receiver sends what it just made, or what it has encoded ahead and
\* makes nothing.
LEMMA RcvTakesCurrent ==
  ASSUME IInv, AheadInv, NEW p \in air, p.role = KEYBOARD, NEW buffer, NEW made, NEW reply,
         RcvTakes(p, buffer, made, reply), Made(made),
         \A q \in made : q.type # "input" /\ (q.type = "ack" => q.body = Status(buffer)),
         reply = made \/ (/\ reply = {prepared[RECEIVER]} /\ made = {}
                         /\ PreparedCurrent(RECEIVER)
                         /\ prepared[RECEIVER].body = Status(buffer))
  PROVE  LeavesCurrent
<1>1. Rcv = session[RECEIVER] /\ RECEIVER \in Roles
  BY DEF Rcv, Roles
<1>2. /\ air' \subseteq air \cup reply /\ rx' = buffer
      /\ session'[RECEIVER].id = Rcv.id
      /\ session'[RECEIVER].tx_counter = IF made = {} THEN Rcv.tx_counter ELSE Rcv.tx_counter + 1
  BY RcvTakesSteps
<1>3. ASSUME NEW q \in air' \ air
      PROVE  /\ q.role = RECEIVER /\ q.type # "input"
             /\ q.type = "ack" => q.body = Status(buffer)
             /\ q.session = session'[RECEIVER].id
             /\ q.counter + 1 = session'[RECEIVER].tx_counter
  <2>1. q \in reply
    BY <1>2
  <2>2. CASE reply = made
    <3>1. q \in made /\ made # {}
      BY <2>1, <2>2
    <3> QED
      BY <1>2, <3>1 DEF Made
  <2>3. CASE reply = {prepared[RECEIVER]} /\ made = {} /\ PreparedCurrent(RECEIVER)
             /\ prepared[RECEIVER].body = Status(buffer)
    <3>1. q = prepared[RECEIVER] /\ q # None /\ q.session = Rcv.id /\ q.counter + 1 = Rcv.tx_counter
      BY <1>1, <2>1, <2>3 DEF PreparedCurrent
    <3>2. RcvAhead(q)
      BY <3>1 DEF AheadInv
    <3> QED
      BY <1>2, <2>3, <3>1, <3>2 DEF RcvAhead
  <2> QED
    BY <2>2, <2>3
<1> QED
  BY <1>2, <1>3 DEF LeavesCurrent

LEMMA ReplyKinds ==
  ASSUME NEW type, NEW body
  PROVE  \A q \in Reply(type, body) : q.type = type /\ q.body = body
  BY DEF Reply, Encode

LEMMA RcvReceiveCurrent ==
  ASSUME IInv, AheadInv, NEW p \in air, p.role = KEYBOARD, RcvReceive(p)
  PROVE  LeavesCurrent
<1>1. CASE RcvAcknowledge(p)
  <2> DEFINE buffer == IF p.type = "input" THEN Accepted(p.body.frames) ELSE rx
  <2> DEFINE ahead == AckPrepared(Status(buffer))
  <2> DEFINE made == IF ahead THEN {} ELSE Reply("ack", Status(buffer))
  <2> DEFINE reply == IF ahead THEN {prepared[RECEIVER]} ELSE made
  <2>1. RcvTakes(p, buffer, made, reply)
    BY <1>1 DEF RcvAcknowledge
  <2>2. Made(made)
    BY ReplyMade DEF Made
  <2>3. \A q \in made : q.type = "ack" /\ q.body = Status(buffer)
    BY ReplyKinds
  <2>4. reply = made \/ (/\ reply = {prepared[RECEIVER]} /\ made = {}
                        /\ PreparedCurrent(RECEIVER)
                        /\ prepared[RECEIVER].body = Status(buffer))
    BY DEF AckPrepared
  <2> HIDE DEF buffer, made, reply
  <2> QED
    BY <2>1, <2>2, <2>3, <2>4, RcvTakesCurrent
<1>2. CASE RcvAnswer(p)
  <2>1. PICK made \in {Reply("ack", Status(rx)), Reply("poll", [frames |-> <<>>])} :
          RcvTakes(p, rx, made, made)
    BY <1>2 DEF RcvAnswer
  <2>2. Made(made)
    BY ReplyMade
  <2>3. \A q \in made : q.type # "input" /\ (q.type = "ack" => q.body = Status(rx))
    BY ReplyKinds
  <2> QED
    BY <2>1, <2>2, <2>3, RcvTakesCurrent
<1> QED
  BY <1>1, <1>2 DEF RcvReceive

LEMMA NextCurrent == IInv /\ AheadInv /\ [Next]_vars => [LeavesCurrent]_vars
<1> SUFFICES ASSUME IInv, AheadInv, [Next]_vars PROVE LeavesCurrent
  OBVIOUS
<1>1. CASE KbdSend
  BY <1>1, KbdSendCurrent
<1>2. CASE Receives
  <2>1. PICK p \in air : IF p.role = KEYBOARD THEN RcvReceive(p) ELSE KbdReceive(p)
    BY <1>2 DEF Receives
  <2>2. CASE p.role = KEYBOARD
    BY <2>1, <2>2, RcvReceiveCurrent
  <2>3. CASE p.role # KEYBOARD
    BY <2>1, <2>3 DEF KbdReceive, Arrives, LeavesCurrent
  <2> QED
    BY <2>2, <2>3
<1>3. CASE air' \subseteq air
  BY <1>3 DEF LeavesCurrent
<1>4. ASSUME ~KbdSend, ~Receives PROVE air' \subseteq air
  BY <1>4 DEF Next, KbdRestart, KbdSilence, KbdTimeout, KbdNewSession, Clear,
     RcvSilence, RcvTimeout, RcvNewSession, RcvEstablish, KbdEstablish, PublishAny,
     Publish, KbdPrepare, RcvPrepare, Completes, Loses, Lose, vars
<1> QED
  BY <1>1, <1>2, <1>3, <1>4

(* What leaves is what would be encoded now: the newest packet of the        *)
(* session, with the reports that are next in the queue, or with what the    *)
(* receiver has accepted and completed (PreparedIsCurrent).                  *)
THEOREM WhatLeavesIsCurrent == Spec => PreparedIsCurrent
<1>1. Spec => [][LeavesCurrent]_vars
  BY NextCurrent, Invariance, AheadInvariance, PTL DEF Spec
<1> QED
  BY <1>1 DEF PreparedIsCurrent, LeavesCurrent
=============================================================================
