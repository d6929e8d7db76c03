------------------------------ MODULE Gamepad -------------------------------
(***************************************************************************)
(* The wireless game controller, from the key depths the keyboard          *)
(* publishes (apex-zmk-g4b/src/gamepad_g4b.c) through the unacknowledged   *)
(* radio packets that carry it (radio/src/apex_radio_probe.c) to the       *)
(* receiver's USB interface (dongle/src/gamepad.c), which the receiver     *)
(* adds and removes by bringing its whole USB device down and up           *)
(* (dongle/src/usb.c), ending the radio session each time.                 *)
(*                                                                         *)
(* The session is reduced to its outcome: both ends join, packets of it    *)
(* may be lost, reordered and repeated, either end may leave.  Reports of  *)
(* keys, which go before the gamepad, and the wired gamepad are left out.  *)
(***************************************************************************)
EXTENDS Integers, FiniteSets

CONSTANTS
  Positions,        \* the positions published, in the order 1..Positions
  CounterMax,       \* the last packet counter of a session
  AirMax,           \* how many packets are under way at most
  MaxToggles,       \* how often the user turns the gamepad on or off
  MaxTrouble        \* a bound on the failures of links and USB

ASSUME GamepadAssumption ==
  {Positions, CounterMax, AirMax, MaxToggles, MaxTrouble} \subseteq Nat

VARIABLES
  gpEnabled,    \* gp_enabled, what the user chose
  gamepad,      \* gamepad_enabled, gamepad_fresh, gamepad_report
  up,           \* an end is in the session
  counter,      \* the counter of the keyboard's next packet
  air,          \* the gamepad packets of the session
  rxCounter,    \* gamepad_rx_counter
  resync,       \* the receiver's thread was asked for a new session
  pad,          \* dongle/src/gamepad.c: current, dirty, live, ready, busy
  usb,          \* dongle/src/usb.c: gamepad_target, gamepad_present, class_work;
                \* the host has configured the device
  hostPad,      \* the position the USB host acts on
  published,    \* how many positions were published
  toggles,      \* how often the gamepad may still be turned on or off
  trouble,      \* how many failures may still come
  shown,        \* history: the latest position the host acted on
  failed        \* history: a change of interfaces failed

kbdVars == <<gpEnabled, gamepad, published, toggles>>
usbVars == <<usb, hostPad, shown, failed>>
vars == <<kbdVars, up, counter, air, rxCounter, resync, pad, usbVars, trouble>>

Neutral == 0
Position == 0..Positions
Ends == {"keyboard", "receiver"}

TypeOK ==
  /\ gpEnabled \in BOOLEAN
  /\ gamepad \in [on : BOOLEAN, fresh : BOOLEAN, report : Position]
  /\ up \in [Ends -> BOOLEAN]
  /\ counter \in 1..CounterMax + 1 /\ rxCounter \in 0..CounterMax
  /\ air \subseteq [counter : 1..CounterMax, on : BOOLEAN, report : Position]
  /\ resync \in BOOLEAN
  /\ pad \in [current : Position, dirty : BOOLEAN, live : BOOLEAN, ready : BOOLEAN,
              busy : BOOLEAN, sending : Position]
  /\ usb \in [target : BOOLEAN, present : BOOLEAN, work : BOOLEAN,
              bringing : {"none", "on", "off"}, configured : BOOLEAN]
  /\ hostPad \in Position /\ shown \in Position /\ published \in Position
  /\ toggles \in 0..MaxToggles /\ trouble \in 0..MaxTrouble
  /\ failed \in BOOLEAN

Init ==
  /\ gpEnabled = FALSE
  /\ gamepad = [on |-> FALSE, fresh |-> FALSE, report |-> Neutral]
  /\ up = [e \in Ends |-> FALSE] /\ counter = 1 /\ air = {}
  /\ rxCounter = 0 /\ resync = FALSE
  /\ pad = [current |-> Neutral, dirty |-> FALSE, live |-> FALSE, ready |-> FALSE,
            busy |-> FALSE, sending |-> Neutral]
  /\ usb = [target |-> FALSE, present |-> FALSE, work |-> FALSE, bringing |-> "none",
            configured |-> FALSE]
  /\ hostPad = Neutral /\ shown = Neutral
  /\ published = 0 /\ toggles = MaxToggles /\ trouble = MaxTrouble
  /\ failed = FALSE

Trouble == trouble > 0 /\ trouble' = trouble - 1

-----------------------------------------------------------------------------
(* The keyboard. *)

\* g4b_gamepad_set_enabled.
SetEnabled(on) ==
  /\ toggles > 0 /\ toggles' = toggles - 1
  /\ on # gpEnabled /\ gpEnabled' = on
  /\ gamepad' = [on |-> on, fresh |-> FALSE, report |-> Neutral]
  /\ UNCHANGED <<up, counter, air, rxCounter, resync, pad, usbVars, published, trouble>>

\* Mutation of Publish: gp_enabled is not looked at under the lock.
PublishAnyway ==
  /\ published < Positions
  /\ published' = published + 1
  /\ gamepad' = [on |-> TRUE, fresh |-> TRUE, report |-> published + 1]
  /\ UNCHANGED <<gpEnabled, toggles, up, counter, air, rxCounter, resync, pad, usbVars,
                 trouble>>

\* g4b_gamepad_publish, by the scanner's thread.
Publish ==
  /\ gpEnabled
  /\ published < Positions
  /\ published' = published + 1
  /\ gamepad' = [on |-> TRUE, fresh |-> TRUE, report |-> published + 1]
  /\ UNCHANGED <<gpEnabled, toggles, up, counter, air, rxCounter, resync, pad, usbVars,
                 trouble>>

\* 100 ms without a publication: the next packet says neutral.
SampleAges ==
  /\ gamepad.fresh
  /\ gamepad' = [gamepad EXCEPT !.fresh = FALSE]
  /\ UNCHANGED <<gpEnabled, published, toggles, up, counter, air, rxCounter, resync, pad,
                 usbVars, trouble>>

\* Mutation of Payload: the age of the sample is not looked at.
PayloadHeld == [counter |-> counter, on |-> gamepad.on, report |-> gamepad.report]

\* The position the keyboard's next packet carries.
Payload ==
  [counter |-> counter, on |-> gamepad.on,
   report  |-> IF gamepad.on /\ gamepad.fresh THEN gamepad.report ELSE Neutral]

Poll ==
  /\ up["keyboard"] /\ counter <= CounterMax
  /\ Cardinality(air) < AirMax
  /\ air' = air \cup {Payload}
  /\ counter' = counter + 1
  /\ UNCHANGED <<kbdVars, up, rxCounter, resync, pad, usbVars, trouble>>

-----------------------------------------------------------------------------
(* The session. *)

\* new_session at one end: the receiver lets go of everything.
Released(p) == [p EXCEPT !.live = FALSE, !.current = Neutral, !.dirty = TRUE]

Leave(e) ==
  /\ up' = [up EXCEPT ![e] = FALSE]
  /\ IF e = "keyboard"
     THEN /\ gamepad' = [gamepad EXCEPT !.fresh = FALSE]
          /\ UNCHANGED <<rxCounter, resync, pad>>
     ELSE /\ rxCounter' = 0 /\ resync' = FALSE /\ pad' = Released(pad)
          /\ UNCHANGED gamepad
  /\ UNCHANGED <<gpEnabled, published, toggles, counter, air, usbVars>>

\* The other end is gone, the counters are used up, or a new session was asked for.
MustLeave(e) ==
  /\ \/ \E o \in Ends : up[e] /\ ~up[o]
     \/ e = "keyboard" /\ up[e] /\ counter > CounterMax
     \/ e = "receiver" /\ resync
  /\ Leave(e)
  /\ UNCHANGED trouble

\* An end gives up for lack of answers.
LosesLink(e) == Trouble /\ up[e] /\ Leave(e)

Join ==
  /\ \A e \in Ends : ~up[e]
  /\ ~resync
  /\ up' = [e \in Ends |-> TRUE]
  /\ counter' = 1 /\ air' = {}
  /\ UNCHANGED <<kbdVars, rxCounter, resync, pad, usbVars, trouble>>

Lose(p) ==
  /\ air' = air \ {p}
  /\ UNCHANGED <<kbdVars, up, counter, rxCounter, resync, pad, usbVars, trouble>>

-----------------------------------------------------------------------------
(* The receiver: packets, and the report that waits for USB. *)

\* Mutation of Newer: the replay window alone decides.
NewerUnlessReplayed(c) == TRUE

\* apex_gamepad_newer: packets come in any order, positions must not.
Newer(c) == c > rxCounter

\* receiver_usb_gamepad: another target needs the work item.
UsbTarget(on) ==
  [usb EXCEPT !.target = on, !.work = @ \/ on # usb.target]

\* apex_radio_gamepad_receive.
Applied(p) ==
  [pad EXCEPT !.live = p.on, !.dirty = TRUE, !.current = IF p.on THEN p.report ELSE Neutral]

\* A gamepad packet in the radio's thread.
Receive(p) ==
  /\ up["receiver"]
  /\ air' = air \ {p}
  /\ IF Newer(p.counter)
     THEN /\ rxCounter' = p.counter
          /\ pad' = Applied(p)
          /\ usb' = UsbTarget(p.on)
     ELSE UNCHANGED <<rxCounter, pad, usb>>
  /\ UNCHANGED <<kbdVars, up, counter, resync, hostPad, shown, failed, trouble>>

\* receiver_gamepad_poll, its first part: 100 ms without a packet.
PadExpires ==
  /\ pad.live
  /\ pad' = Released(pad)
  /\ UNCHANGED <<kbdVars, up, counter, air, rxCounter, resync, usbVars, trouble>>

\* The rest of it.  A refused submission leaves the report dirty, as it was.
PadSubmit ==
  /\ pad.ready /\ ~pad.busy /\ pad.dirty
  /\ pad' = [pad EXCEPT !.busy = TRUE, !.dirty = FALSE, !.sending = pad.current]
  /\ UNCHANGED <<kbdVars, up, counter, air, rxCounter, resync, usbVars, trouble>>

\* report_done: the host has read the report.
PadDone ==
  /\ pad.busy
  /\ pad' = [pad EXCEPT !.busy = FALSE]
  /\ hostPad' = pad.sending
  /\ shown' = IF pad.sending = Neutral THEN shown ELSE pad.sending
  /\ UNCHANGED <<kbdVars, up, counter, air, rxCounter, resync, usb, failed, trouble>>

\* report_done: the transfer has failed, and the report is due again.
Undone(p) == [p EXCEPT !.busy = FALSE, !.dirty = p.dirty \/ p.busy]

PadFails ==
  /\ Trouble /\ pad.busy
  /\ pad' = Undone(pad)
  /\ UNCHANGED <<kbdVars, up, counter, air, rxCounter, resync, usbVars>>

-----------------------------------------------------------------------------
(* The receiver: its interfaces. *)

\* USB goes down: transfers fail, iface_ready(false) of both interfaces, the
\* host forgets the controller.
Down(p) == [Undone(p) EXCEPT !.ready = FALSE, !.dirty = TRUE]

UsbDown ==
  /\ pad' = Released(Down(pad))
  /\ resync' = TRUE
  /\ hostPad' = Neutral

\* reconfigure, until usbd_shutdown.
ReconfigureStart ==
  /\ usb.work /\ usb.bringing = "none"
  /\ IF usb.target = usb.present
     THEN /\ usb' = [usb EXCEPT !.work = FALSE]
          /\ UNCHANGED <<pad, resync, hostPad>>
     ELSE /\ usb' = [usb EXCEPT !.work = FALSE,
                       !.configured = FALSE,
                       !.bringing = IF usb.target THEN "on" ELSE "off"]
          /\ UsbDown
  /\ UNCHANGED <<kbdVars, up, counter, air, rxCounter, shown, failed, trouble>>

\* reconfigure, from bring_up on: the target may have changed meanwhile.
Again == (usb.bringing = "on") # usb.target

ReconfigureEnd ==
  /\ usb.bringing # "none"
  /\ usb' = [usb EXCEPT !.bringing = "none", !.present = usb.bringing = "on",
               !.work = @ \/ Again]
  /\ UNCHANGED <<kbdVars, up, counter, air, rxCounter, resync, pad, hostPad, shown,
                 failed, trouble>>

ReconfigureFails ==
  /\ Trouble /\ usb.bringing # "none"
  /\ usb' = [usb EXCEPT !.bringing = "none", !.work = @ \/ Again]
  /\ failed' = TRUE
  /\ UNCHANGED <<kbdVars, up, counter, air, rxCounter, resync, pad, hostPad, shown>>

\* The host configures the device: iface_ready(true) of the keyboard, and of
\* the gamepad if it is there.
Configured ==
  /\ usb.bringing = "none" /\ ~usb.configured
  /\ usb' = [usb EXCEPT !.configured = TRUE]
  /\ pad' = [Released(pad) EXCEPT !.ready = usb.present]
  /\ resync' = TRUE
  /\ UNCHANGED <<kbdVars, up, counter, air, rxCounter, hostPad, shown, failed, trouble>>

\* The host leaves the configuration, or the cable is pulled.
Unconfigured ==
  /\ Trouble /\ usb.configured
  /\ usb' = [usb EXCEPT !.configured = FALSE]
  /\ UsbDown
  /\ UNCHANGED <<kbdVars, up, counter, air, rxCounter, shown, failed>>

-----------------------------------------------------------------------------
Next ==
  \/ \E on \in BOOLEAN : SetEnabled(on)
  \/ Publish \/ SampleAges \/ Poll
  \/ \E e \in Ends : MustLeave(e) \/ LosesLink(e)
  \/ Join
  \/ \E p \in air : Lose(p) \/ Receive(p)
  \/ PadExpires \/ PadSubmit \/ PadDone \/ PadFails
  \/ ReconfigureStart \/ ReconfigureEnd \/ ReconfigureFails
  \/ Configured \/ Unconfigured

Spec == Init /\ [][Next]_vars

\* The threads run, the host polls, and of a session's packets some arrive.
Fairness ==
  /\ WF_vars(SampleAges) /\ WF_vars(Poll) /\ WF_vars(Join)
  /\ \A e \in Ends : WF_vars(MustLeave(e))
  /\ SF_vars(\E p \in air : Receive(p))
  /\ WF_vars(PadExpires /\ \E e \in Ends : ~up[e])
  /\ WF_vars(PadSubmit) /\ WF_vars(PadDone)
  /\ WF_vars(ReconfigureStart) /\ WF_vars(ReconfigureEnd) /\ WF_vars(Configured)

FairSpec == Spec /\ Fairness

-----------------------------------------------------------------------------
(* Properties. *)

\* The host never sees the stick go back: whatever the radio reorders and
\* USB repeats, a position is never followed by an older one, not even with
\* neutral ones between (apex_gamepad_newer: "absolute axes must not").
NeverBackwards == [][hostPad' # Neutral => hostPad' >= shown]_hostPad

\* Once the user's hand is off the keys the controller rests: after the last
\* publication the host ends at neutral and stays there, whichever packets
\* are lost and whichever transfers fail (the 100 ms rules of
\* apex_radio_probe.c and gamepad.c, and dirty after a failed transfer).
PadReleased == <>[](hostPad = Neutral)

\* The receiver's interfaces end as the user left the keyboard's switch,
\* unless bringing USB up failed, although each change ends the session that
\* announced it, and a change may be asked for in the middle of another.
ControllerFollows == <>[](usb.present = gpEnabled \/ failed)
=============================================================================
