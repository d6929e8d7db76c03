--------------------------- MODULE GamepadProofs ----------------------------
(***************************************************************************)
(* The host never sees the stick go back, for every number of positions,   *)
(* every range of counters and any number of packets under way.            *)
(*                                                                         *)
(* A position passes four places: the air, pad.current, pad.sending and    *)
(* the host.  The invariant orders them: what is behind in this row is     *)
(* neutral or not older.  Of the packets under way only those with newer   *)
(* counters count, and only while the receiver is in the session; what the *)
(* keyboard sends next is neutral or the newest position of all.           *)
(***************************************************************************)
EXTENDS Gamepad, TLAPS

\* Of the receiver's record only the two positions matter.
IsPad(p) ==
  {"current", "sending"} \subseteq DOMAIN p /\ p.current \in Nat /\ p.sending \in Nat

SampleType == [on : BOOLEAN, fresh : BOOLEAN, report : Nat]
PacketType == [counter : Nat, on : BOOLEAN, report : Nat]

Types ==
  /\ gamepad \in SampleType /\ IsPad(pad)
  /\ up \in [Ends -> BOOLEAN]
  /\ counter \in Nat /\ rxCounter \in Nat /\ published \in Nat /\ shown \in Nat
  /\ \A p \in air : p \in PacketType

\* The keyboard's sample is the last position published, and nothing is newer.
Newest ==
  /\ gamepad.fresh => gamepad.report = published
  /\ pad.current <= published /\ pad.sending <= published /\ shown <= published
  /\ \A p \in air : p.report <= published /\ p.counter < counter

\* Of two packets, the one with the newer counter has the newer position.
AirOrdered ==
  \A p, q \in air : p.counter < q.counter => q.report = Neutral \/ p.report <= q.report

\* A position that is not older than what the receiver has.
NotOlder(r) ==
  \/ r = Neutral
  \/ pad.current <= r /\ pad.sending <= r /\ shown <= r

\* What the receiver would still take is not older than what it has.
AirLater ==
  up["receiver"] => \A p \in air : rxCounter < p.counter => NotOlder(p.report)

\* In the receiver the report under way comes before the current one.
PadOrdered ==
  /\ pad.current # Neutral => pad.sending <= pad.current /\ shown <= pad.current
  /\ pad.sending # Neutral => shown <= pad.sending

Ordered == Types /\ Newest /\ AirOrdered /\ AirLater /\ PadOrdered

ForwardStep == hostPad' # hostPad /\ hostPad' # Neutral => hostPad' >= shown

LEMMA OrderedInit == Init => Ordered
<1> SUFFICES ASSUME Init PROVE Ordered
  OBVIOUS
<1>1. Types
  BY DEF Init, Types, SampleType, IsPad, Neutral
<1>2. Newest /\ AirOrdered /\ AirLater /\ PadOrdered
  BY DEF Init, Newest, AirOrdered, AirLater, PadOrdered, Neutral
<1> QED
  BY <1>1, <1>2 DEF Ordered

-----------------------------------------------------------------------------
(* Updates of the receiver's record. *)

LEMMA ReleasedPad ==
  ASSUME NEW p, IsPad(p)
  PROVE  IsPad(Released(p)) /\ Released(p).current = Neutral
         /\ Released(p).sending = p.sending
BY DEF Released, IsPad, Neutral

LEMMA BusyPad ==
  ASSUME NEW p, IsPad(p), NEW b
  PROVE  IsPad([p EXCEPT !.busy = b]) /\ [p EXCEPT !.busy = b].current = p.current
         /\ [p EXCEPT !.busy = b].sending = p.sending
BY DEF IsPad

LEMMA DirtyPad ==
  ASSUME NEW p, IsPad(p), NEW b
  PROVE  IsPad([p EXCEPT !.dirty = b]) /\ [p EXCEPT !.dirty = b].current = p.current
         /\ [p EXCEPT !.dirty = b].sending = p.sending
BY DEF IsPad

LEMMA ReadyPad ==
  ASSUME NEW p, IsPad(p), NEW b
  PROVE  IsPad([p EXCEPT !.ready = b]) /\ [p EXCEPT !.ready = b].current = p.current
         /\ [p EXCEPT !.ready = b].sending = p.sending
BY DEF IsPad

LEMMA UndonePad ==
  ASSUME NEW p, IsPad(p)
  PROVE  IsPad(Undone(p)) /\ Undone(p).current = p.current /\ Undone(p).sending = p.sending
<1> DEFINE q == [p EXCEPT !.busy = FALSE]
           b == p.dirty \/ p.busy
<1>1. IsPad(q) /\ q.current = p.current /\ q.sending = p.sending
  BY BusyPad
<1>2. Undone(p) = [q EXCEPT !.dirty = b]
  BY DEF Undone
<1> HIDE DEF q, b
<1> QED
  BY <1>1, <1>2, DirtyPad, ZenonT(40)

LEMMA DownPad ==
  ASSUME NEW p, IsPad(p)
  PROVE  IsPad(Down(p)) /\ Down(p).current = p.current /\ Down(p).sending = p.sending
<1> DEFINE q == Undone(p)
           r == [q EXCEPT !.ready = FALSE]
<1>1. IsPad(q) /\ q.current = p.current /\ q.sending = p.sending
  BY UndonePad
<1>2. Down(p) = [r EXCEPT !.dirty = TRUE]
  BY DEF Down
<1> HIDE DEF q
<1>3. IsPad(r) /\ r.current = p.current /\ r.sending = p.sending
  BY <1>1, ReadyPad, Zenon
<1> HIDE DEF r
<1> QED
  BY <1>2, <1>3, DirtyPad, ZenonT(40)

-----------------------------------------------------------------------------
(* Steps. *)

\* The receiver's record forgets its position or keeps it.
LEMMA PadSteps ==
  ASSUME Ordered,
         IsPad(pad'), pad'.current \in {Neutral, pad.current}, pad'.sending = pad.sending,
         up' \in [Ends -> BOOLEAN],
         up'["receiver"] => up["receiver"] /\ rxCounter' = rxCounter,
         rxCounter' \in Nat,
         air' \subseteq air,
         gamepad' \in SampleType, gamepad'.fresh => gamepad.fresh /\ gamepad'.report = gamepad.report,
         published' = published, counter' = counter, shown' = shown
  PROVE  Ordered'
<1>1. Types'
  BY DEF Ordered, Types
<1>2. Newest'
  BY DEF Ordered, Types, Newest, IsPad, Neutral
<1>3. AirOrdered'
  BY DEF Ordered, AirOrdered
<1>4. AirLater'
  BY DEF Ordered, Types, AirLater, NotOlder, IsPad, PacketType, Neutral
<1>5. PadOrdered'
  BY DEF Ordered, Types, PadOrdered, IsPad, Neutral
<1> QED
  BY <1>1, <1>2, <1>3, <1>4, <1>5 DEF Ordered

LEMMA PayloadNew ==
  ASSUME Ordered
  PROVE  Payload \in PacketType /\ Payload.counter = counter
         /\ Payload.report \in {Neutral, published}
<1>1. gamepad \in SampleType /\ counter \in Nat /\ published \in Nat
  BY DEF Ordered, Types
<1>2. gamepad.fresh => gamepad.report = published
  BY DEF Ordered, Newest
<1> QED
  BY <1>1, <1>2 DEF Payload, PacketType, SampleType, Neutral

LEMMA Keeps ==
  ASSUME Ordered, [Next]_vars
  PROVE  Ordered' /\ ForwardStep
<1> USE DEF Ordered
<1>t. Types
  OBVIOUS
<1>p. IsPad(pad) /\ gamepad \in SampleType /\ up \in [Ends -> BOOLEAN]
      /\ rxCounter \in Nat
  BY DEF Types
<1>1. CASE UNCHANGED vars
  <2>1. Ordered'
    BY <1>1, <1>p, PadSteps DEF vars, kbdVars, usbVars
  <2> QED
    BY <1>1, <2>1 DEF vars, usbVars, ForwardStep
<1>2. ASSUME NEW on \in BOOLEAN, SetEnabled(on) PROVE Ordered' /\ ForwardStep
  <2>1. gamepad' \in SampleType /\ ~gamepad'.fresh
    BY <1>2 DEF SetEnabled, SampleType, Neutral
  <2>2. Ordered'
    BY <1>2, <1>p, <2>1, PadSteps DEF SetEnabled, usbVars
  <2> QED
    BY <1>2, <2>2 DEF SetEnabled, usbVars, ForwardStep
<1>3. CASE Publish
  <2>1. Types'
    BY <1>3 DEF Publish, Types, SampleType, usbVars
  <2>2. Newest'
    BY <1>3 DEF Publish, Types, Newest, IsPad, PacketType, usbVars
  <2>3. AirOrdered' /\ AirLater' /\ PadOrdered' /\ ForwardStep
    BY <1>3 DEF Publish, AirOrdered, AirLater, NotOlder, PadOrdered, usbVars, ForwardStep
  <2> QED
    BY <2>1, <2>2, <2>3
<1>4. CASE SampleAges
  <2>1. gamepad' \in SampleType /\ ~gamepad'.fresh
    BY <1>4, <1>p DEF SampleAges, SampleType
  <2>2. Ordered'
    BY <1>4, <1>p, <2>1, PadSteps DEF SampleAges, usbVars
  <2> QED
    BY <1>4, <2>2 DEF SampleAges, usbVars, ForwardStep
<1>5. CASE Poll
  <2>1. Payload \in PacketType /\ Payload.counter = counter
        /\ Payload.report \in {Neutral, published}
    BY PayloadNew
  <2>2. air' = air \cup {Payload} /\ counter' = counter + 1
    BY <1>5 DEF Poll
  <2>3. UNCHANGED <<kbdVars, up, rxCounter, pad, usbVars>>
    BY <1>5 DEF Poll
  <2>4. Types'
    BY <2>1, <2>2, <2>3 DEF Types, kbdVars, usbVars
  <2>5. Newest'
    BY <2>1, <2>2, <2>3 DEF Types, Newest, PacketType, IsPad, kbdVars, usbVars, Neutral
  <2>6. AirOrdered'
    BY <2>1, <2>2, <2>3 DEF Types, Newest, AirOrdered, PacketType, Neutral
  <2>7. AirLater'
    <3>0. pad.current <= published /\ pad.sending <= published /\ shown <= published
      BY DEF Newest
    <3>1. NotOlder(Payload.report)
      BY <2>1, <3>0 DEF NotOlder
    <3>2. up["receiver"] => \A p \in air' : rxCounter < p.counter => NotOlder(p.report)
      BY <2>2, <3>1 DEF AirLater
    <3> QED
      BY <2>3, <3>2 DEF AirLater, NotOlder, usbVars
  <2>8. PadOrdered' /\ ForwardStep
    BY <2>3 DEF PadOrdered, usbVars, ForwardStep
  <2> QED
    BY <2>4, <2>5, <2>6, <2>7, <2>8
<1>6. ASSUME NEW e \in Ends, MustLeave(e) \/ LosesLink(e) PROVE Ordered' /\ ForwardStep
  <2>1. Leave(e)
    BY <1>6 DEF MustLeave, LosesLink
  <2>2. UNCHANGED <<published, counter, air, shown, hostPad>>
        /\ up' \in [Ends -> BOOLEAN] /\ ~up'[e] /\ (up'["receiver"] => up["receiver"])
    BY <2>1, <1>p DEF Leave, usbVars, Ends
  <2>3. CASE e = "keyboard"
    <3>1. gamepad' \in SampleType /\ ~gamepad'.fresh
      BY <2>1, <2>3, <1>p DEF Leave, SampleType
    <3>2. UNCHANGED <<rxCounter, pad>>
      BY <2>1, <2>3 DEF Leave
    <3>3. Ordered'
      BY <2>2, <3>1, <3>2, <1>p, PadSteps
    <3> QED
      BY <3>3, <2>2 DEF ForwardStep
  <2>4. CASE e # "keyboard"
    <3>1. e = "receiver" /\ rxCounter' = 0 /\ pad' = Released(pad) /\ gamepad' = gamepad
      BY <2>1, <2>4 DEF Leave, Ends
    <3>2. IsPad(pad') /\ pad'.current = Neutral /\ pad'.sending = pad.sending
      BY <3>1, <1>p, ReleasedPad
    <3>3. Ordered'
      BY <2>2, <3>1, <3>2, <1>p, PadSteps
    <3> QED
      BY <3>3, <2>2 DEF ForwardStep
  <2> QED
    BY <2>3, <2>4
<1>7. CASE Join
  <2>1. Types' /\ Newest'
    BY <1>7 DEF Join, Types, Newest, kbdVars, usbVars
  <2>2. AirOrdered' /\ AirLater' /\ PadOrdered' /\ ForwardStep
    BY <1>7 DEF Join, AirOrdered, AirLater, PadOrdered, usbVars, ForwardStep
  <2> QED
    BY <2>1, <2>2
<1>8. ASSUME NEW p \in air, Lose(p) PROVE Ordered' /\ ForwardStep
  <2>1. Ordered'
    BY <1>8, <1>p, PadSteps DEF Lose, kbdVars, usbVars
  <2> QED
    BY <1>8, <2>1 DEF Lose, usbVars, ForwardStep
<1>9. ASSUME NEW p \in air, Receive(p), ~Newer(p.counter) PROVE Ordered' /\ ForwardStep
  <2>1. air' \subseteq air /\ UNCHANGED <<rxCounter, pad, up, gamepad, published, counter, shown, hostPad>>
    BY <1>9 DEF Receive, kbdVars
  <2>2. Ordered'
    BY <2>1, <1>p, PadSteps
  <2> QED
    BY <2>1, <2>2 DEF ForwardStep
<1>10. ASSUME NEW p \in air, Receive(p), Newer(p.counter) PROVE Ordered' /\ ForwardStep
  <2> DEFINE r == IF p.on THEN p.report ELSE Neutral
  <2>1. p \in PacketType /\ rxCounter < p.counter /\ p.report <= published
    BY <1>10 DEF Types, Newest, Newer, PacketType
  <2>2. up["receiver"] /\ air' \subseteq air /\ rxCounter' = p.counter
        /\ UNCHANGED <<up, gamepad, published, counter, shown, hostPad>>
    BY <1>10 DEF Receive, kbdVars
  <2>3. pad' = [pad EXCEPT !.live = p.on, !.dirty = TRUE, !.current = r]
    BY <1>10 DEF Receive, Applied
  <2>4. r \in Nat /\ r \in {Neutral, p.report} /\ p.on \in BOOLEAN
    BY <2>1 DEF PacketType, Neutral
  <2> HIDE DEF r
  <2>5. IsPad(pad') /\ pad'.current = r /\ pad'.sending = pad.sending
    BY <2>3, <2>4, <1>p DEF IsPad
  <2>6. NotOlder(p.report)
    BY <2>1, <2>2, <1>10 DEF AirLater
  <2>7. Types'
    BY <2>1, <2>2, <2>5 DEF Types, PacketType
  <2>8. Newest'
    BY <2>1, <2>2, <2>4, <2>5 DEF Types, Newest, Neutral
  <2>9. AirOrdered'
    BY <2>2 DEF AirOrdered
  <2>10. AirLater'
    BY <2>1, <2>2, <2>4, <2>5, <1>10 DEF Types, AirLater, NotOlder, AirOrdered, PacketType, IsPad, Neutral
  <2>11. PadOrdered'
    BY <2>2, <2>4, <2>5, <2>6 DEF Types, PadOrdered, NotOlder, IsPad, Neutral
  <2> QED
    BY <2>2, <2>7, <2>8, <2>9, <2>10, <2>11 DEF ForwardStep
<1>11. CASE PadExpires
  <2>1. IsPad(pad') /\ pad'.current = Neutral /\ pad'.sending = pad.sending
    BY <1>11, <1>p, ReleasedPad DEF PadExpires
  <2>2. Ordered'
    BY <1>11, <2>1, <1>p, PadSteps DEF PadExpires, kbdVars, usbVars
  <2> QED
    BY <1>11, <2>2 DEF PadExpires, usbVars, ForwardStep
<1>12. CASE PadSubmit
  <2>1. IsPad(pad') /\ pad'.current = pad.current /\ pad'.sending = pad.current
    BY <1>12, <1>p DEF PadSubmit, IsPad
  <2>2. UNCHANGED <<gamepad, up, counter, air, rxCounter, published, shown, hostPad>>
    BY <1>12 DEF PadSubmit, kbdVars, usbVars
  <2>3. Types' /\ Newest' /\ AirOrdered' /\ ForwardStep
    BY <2>1, <2>2 DEF Types, Newest, AirOrdered, ForwardStep
  <2>4. AirLater'
    <3>1. ASSUME NEW r, NotOlder(r) PROVE (NotOlder(r))'
      BY <2>1, <2>2, <3>1 DEF NotOlder
    <3> QED
      BY <2>2, <3>1 DEF AirLater
  <2>5. PadOrdered'
    BY <2>1, <2>2, <1>p DEF PadOrdered, IsPad
  <2> QED
    BY <2>3, <2>4, <2>5
<1>13. CASE PadDone
  <2>1. IsPad(pad') /\ pad'.current = pad.current /\ pad'.sending = pad.sending
    BY <1>13, <1>p, BusyPad DEF PadDone
  <2>2. shown' \in {shown, pad.sending} /\ (pad.sending # Neutral => shown' = pad.sending)
    BY <1>13 DEF PadDone
  <2>3. hostPad' = pad.sending /\ UNCHANGED <<gamepad, up, counter, air, rxCounter, published>>
    BY <1>13 DEF PadDone, kbdVars
  <2>4. Types' /\ Newest' /\ AirOrdered'
    BY <2>1, <2>2, <2>3 DEF Types, Newest, AirOrdered, IsPad
  <2>5. AirLater'
    BY <2>1, <2>2, <2>3 DEF AirLater, NotOlder
  <2>6. PadOrdered'
    BY <2>1, <2>2, <1>p DEF Types, PadOrdered, IsPad
  <2>7. ForwardStep
    BY <2>3, <1>p DEF Types, PadOrdered, ForwardStep, IsPad
  <2> QED
    BY <2>4, <2>5, <2>6, <2>7
<1>14. CASE PadFails
  <2>1. IsPad(pad') /\ pad'.current = pad.current /\ pad'.sending = pad.sending
    BY <1>14, <1>p, UndonePad DEF PadFails
  <2>2. Ordered'
    BY <1>14, <2>1, <1>p, PadSteps DEF PadFails, kbdVars, usbVars
  <2> QED
    BY <1>14, <2>2 DEF PadFails, usbVars, ForwardStep
<1>15. ASSUME UsbDown, UNCHANGED <<kbdVars, up, counter, air, rxCounter, shown>>
       PROVE  Ordered' /\ ForwardStep
  <2> DEFINE q == Down(pad)
  <2>1. IsPad(q) /\ q.current = pad.current /\ q.sending = pad.sending
    BY <1>p, DownPad
  <2>2. pad' = Released(q) /\ hostPad' = Neutral
    BY <1>15 DEF UsbDown
  <2> HIDE DEF q
  <2>3. IsPad(pad') /\ pad'.current = Neutral /\ pad'.sending = pad.sending
    BY <2>1, <2>2, ReleasedPad
  <2>4. Ordered'
    BY <1>15, <2>3, <1>p, PadSteps DEF kbdVars
  <2> QED
    BY <2>2, <2>4 DEF ForwardStep
<1>16. CASE ReconfigureStart
  <2>1. CASE usb.target = usb.present
    <3>1. UNCHANGED <<pad, gamepad, up, counter, air, rxCounter, published, shown, hostPad>>
      BY <1>16, <2>1 DEF ReconfigureStart, kbdVars
    <3>2. Ordered'
      BY <3>1, <1>p, PadSteps
    <3> QED
      BY <3>1, <3>2 DEF ForwardStep
  <2>2. CASE usb.target # usb.present
    BY <1>15, <1>16, <2>2 DEF ReconfigureStart
  <2> QED
    BY <2>1, <2>2
<1>17. CASE ReconfigureEnd \/ ReconfigureFails
  <2>1. UNCHANGED <<pad, gamepad, up, counter, air, rxCounter, published, shown, hostPad>>
    BY <1>17 DEF ReconfigureEnd, ReconfigureFails, kbdVars
  <2>2. Ordered'
    BY <2>1, <1>p, PadSteps
  <2> QED
    BY <2>1, <2>2 DEF ForwardStep
<1>18. CASE Configured
  <2> DEFINE q == Released(pad)
             b == usb.present
  <2>1. IsPad(q) /\ q.current = Neutral /\ q.sending = pad.sending
    BY <1>p, ReleasedPad
  <2>2. pad' = [q EXCEPT !.ready = b]
        /\ UNCHANGED <<gamepad, up, counter, air, rxCounter, published, shown, hostPad>>
    BY <1>18 DEF Configured, kbdVars
  <2> HIDE DEF q, b
  <2>3. IsPad(pad') /\ pad'.current = Neutral /\ pad'.sending = pad.sending
    BY <2>1, <2>2, ReadyPad
  <2>4. Ordered'
    BY <2>2, <2>3, <1>p, PadSteps
  <2> QED
    BY <2>2, <2>4 DEF ForwardStep
<1>19. CASE Unconfigured
  BY <1>15, <1>19 DEF Unconfigured
<1>20. QED
  BY <1>1, <1>2, <1>3, <1>4, <1>5, <1>6, <1>7, <1>8, <1>9, <1>10, <1>11, <1>12, <1>13, <1>14,
     <1>16, <1>17, <1>18, <1>19 DEF Next

\* NeverBackwards: a position the host acts on is never followed by an older
\* one, whatever the radio loses, reorders and repeats and however often the
\* USB device goes down and up.
THEOREM StickNeverGoesBack == Spec => NeverBackwards
<1>1. Init => Ordered
  BY OrderedInit
<1>2. Ordered /\ [Next]_vars => Ordered'
  BY Keeps
<1>3. Ordered /\ [Next]_vars => [hostPad' # Neutral => hostPad' >= shown]_hostPad
  BY Keeps DEF ForwardStep
<1> QED
  BY <1>1, <1>2, <1>3, PTL DEF Spec, NeverBackwards
=============================================================================
