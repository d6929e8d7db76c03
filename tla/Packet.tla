------------------------------- MODULE Packet -------------------------------
(***************************************************************************)
(* Encrypted packets, radio/src/apex_packet.c, as operators on one end's   *)
(* session record.  A packet is what its header says (session, role,       *)
(* counter, type) and its body; authentication is taken as perfect: who    *)
(* does not hold the session cannot make a packet of it.  The bit map      *)
(* rx_seen is the set of the gaps below rx_highest that have been taken.   *)
(***************************************************************************)
EXTENDS Naturals

CONSTANTS
  CounterMax,       \* UINT32_MAX: the counter no packet carries
  ReplayWindow,     \* the 64 bits of rx_seen
  NoSession         \* the id of a session that is not ready

ASSUME PacketAssumption ==
  /\ CounterMax \in Nat /\ CounterMax >= 2
  /\ ReplayWindow \in Nat \ {0}

KEYBOARD == "keyboard"
RECEIVER == "receiver"
Roles == {KEYBOARD, RECEIVER}
Peer(role) == IF role = KEYBOARD THEN RECEIVER ELSE KEYBOARD

Gaps == 0..(ReplayWindow - 1)
SessionType(ids) ==
  [id : ids \cup {NoSession}, tx_counter : Nat, rx_highest : Nat, rx_seen : SUBSET Gaps]

\* apex_session_clear; "ready" is that the session has an id
SessionClear == [id |-> NoSession, tx_counter |-> 0, rx_highest |-> 0, rx_seen |-> {}]
SessionInit(id) == [id |-> id, tx_counter |-> 1, rx_highest |-> 0, rx_seen |-> {}]
Ready(s) == s.id # NoSession

\* apex_packet_encode: the last counter ends the session (APEX_PACKET_REKEY).
CanEncode(s) == Ready(s) /\ s.tx_counter # CounterMax
Encode(s, role, type, body) ==
  [session |-> s.id, role |-> role, counter |-> s.tx_counter, type |-> type, body |-> body]
Encoded(s) == [s EXCEPT !.tx_counter = @ + 1]

\* apex_packet_decode before the replay check: the id names the key.
Decodable(s, role, p) ==
  /\ Ready(s)
  /\ p.session = s.id /\ p.role = Peer(role)
  /\ p.counter # 0 /\ p.counter # CounterMax

\* Mutation: a counter that lies below the window is taken for a new one.
IsReplayWithinWindow(s, counter) ==
  counter <= s.rx_highest /\ s.rx_highest - counter \in s.rx_seen

IsReplay(s, counter) ==
  /\ counter <= s.rx_highest
  /\ \/ s.rx_highest - counter >= ReplayWindow
     \/ s.rx_highest - counter \in s.rx_seen

\* A newer counter shifts the window, an older one sets its bit.
Decoded(s, counter) ==
  IF counter > s.rx_highest
  THEN [s EXCEPT !.rx_seen = {0} \cup {g \in Gaps : \E h \in @ : g = h + (counter - s.rx_highest)},
                 !.rx_highest = counter]
  ELSE [s EXCEPT !.rx_seen = @ \cup {s.rx_highest - counter}]
=============================================================================
