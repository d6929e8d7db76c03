------------------------------ MODULE HopLink ------------------------------
(***************************************************************************)
(* How the two radios find each other's channel and stay on it: discovery  *)
(* and timeouts (radio/src/apex_radio_probe.c), the exchange of the map    *)
(* and of the clock (radio/src/apex_hop_link.c) and the hop schedule       *)
(* (radio/src/apex_hop.c).                                                 *)
(*                                                                         *)
(* Time is explicit and counted in slots of 20 ms.  In every slot the      *)
(* keyboard makes the exchange its state calls for, and both clocks        *)
(* advance; what a thread must do at once (start over after a timeout) is  *)
(* done before the next slot.  Receivers only answer, within milliseconds, *)
(* so a request and its answer are one step, which may lose either.  The   *)
(* microseconds within a slot are left out: the sync packet carries them   *)
(* and the windows of apex_hop_link.c keep traffic away from the boundary. *)
(*                                                                         *)
(* Nonces are reduced to whether an end's copy of its peer's nonce is the  *)
(* one the peer now uses (peer); what a session's identifier chooses is    *)
(* its schedule.                                                           *)
(***************************************************************************)
EXTENDS Integers

CONSTANTS
  Schedules,    \* the offsets and strides session identifiers choose
  LastSlot,     \* the last number of a slot (UINT32_MAX)
  ReconnectTime \* slots without trouble after which the link must be up

Count == 4
Channels == <<6, 26, 50, 74>>
Search == <<74, 6, 50, 26>>

KbdDwell == 15          \* 300 ms on a discovery channel
RcvDwell == 2           \* 40 ms
DiscoveryTimeout == 75  \* 1500 ms
HandshakeTimeout == 20  \* 400 ms
LinkTimeout == 5        \* 100 ms
Holdover == 5           \* 100 ms
StartSlot == 5

(* install makes the stride coprime to the number of channels.             *)
ASSUME ScheduleAssumption ==
  /\ Schedules # {}
  /\ Schedules \subseteq [offset : 0..(Count - 1), stride : {1, 3}]

ASSUME TimeAssumption ==
  /\ LastSlot \in Nat /\ LastSlot >= StartSlot
  /\ ReconnectTime \in Nat

VARIABLES
  kbd,      \* the keyboard's connection, hop_link and last_valid
  rcv,      \* the receiver's
  quiet     \* slots since the last trouble, up to ReconnectTime

vars == <<kbd, rcv, quiet>>

KbdStates == {"WAIT_CHALLENGE", "WAIT_READY", "ESTABLISHED", "PAUSED"}
RcvStates == {"WAIT_HELLO", "WAIT_CONFIRM", "ESTABLISHED", "PAUSED"}
ChannelSet == {6, 26, 50, 74}
Outcomes == {"answered", "heard", "lost"}

TypeOK ==
  /\ kbd \in [state : KbdStates, silence : 0..DiscoveryTimeout, channel : ChannelSet,
              peer : BOOLEAN, schedule : Schedules,
              mapAcked : BOOLEAN, syncAcked : BOOLEAN, slot : 0..(LastSlot + 1)]
  /\ rcv \in [state : RcvStates, silence : 0..DiscoveryTimeout, channel : ChannelSet,
              peer : BOOLEAN, schedule : Schedules,
              hasMap : BOOLEAN, running : BOOLEAN, slot : 0..(LastSlot + 1),
              age : 0..Holdover]
  /\ quiet \in 0..ReconnectTime

AnySchedule == CHOOSE s \in Schedules : TRUE

KbdStart ==
  [state |-> "WAIT_CHALLENGE", silence |-> 0, channel |-> Search[1], peer |-> FALSE,
   schedule |-> AnySchedule, mapAcked |-> FALSE, syncAcked |-> FALSE, slot |-> 0]
RcvStart ==
  [state |-> "WAIT_HELLO", silence |-> 0, channel |-> Search[1], peer |-> FALSE,
   schedule |-> AnySchedule, hasMap |-> FALSE, running |-> FALSE, slot |-> 0, age |-> 0]

Init == kbd = KbdStart /\ rcv = RcvStart /\ quiet = 0

-----------------------------------------------------------------------------
(* Channels *)

Discovery(dwell, elapsed) == Search[1 + ((elapsed \div dwell) % Count)]

ChannelAt(schedule, slot) ==
  Channels[1 + ((schedule.offset + (slot % Count) * schedule.stride) % Count)]

\* apex_hop_link_ready, before the clock expires
KbdHops == kbd.state = "ESTABLISHED" /\ kbd.mapAcked /\ kbd.slot >= StartSlot
RcvHops == rcv.state = "ESTABLISHED" /\ rcv.running /\ rcv.slot >= StartSlot

\* The receiver's dwell for the keyboard too: two equal scans.
KbdChannelSameDwell ==
  IF kbd.state = "WAIT_CHALLENGE" THEN Discovery(RcvDwell, kbd.silence)
  ELSE IF KbdHops THEN ChannelAt(kbd.schedule, kbd.slot)
  ELSE kbd.channel

KbdChannel ==
  IF kbd.state = "WAIT_CHALLENGE" THEN Discovery(KbdDwell, kbd.silence)
  ELSE IF KbdHops THEN ChannelAt(kbd.schedule, kbd.slot)
  ELSE kbd.channel

RcvChannel ==
  IF rcv.state = "WAIT_HELLO" THEN Discovery(RcvDwell, rcv.silence)
  ELSE IF RcvHops THEN ChannelAt(rcv.schedule, rcv.slot)
  ELSE rcv.channel

Meet == rcv.state # "PAUSED" /\ KbdChannel = RcvChannel
Shared == kbd.peer /\ rcv.peer

-----------------------------------------------------------------------------
(* Starting over *)

Timeout(state) ==
  CASE state \in {"WAIT_HELLO", "WAIT_CHALLENGE"} -> DiscoveryTimeout
    [] state = "ESTABLISHED" -> LinkTimeout
    [] OTHER -> HandshakeTimeout

KbdExpired ==
  /\ kbd.state # "PAUSED"
  /\ \/ kbd.silence >= Timeout(kbd.state)
     \/ KbdHops /\ ~kbd.syncAcked
     \/ kbd.slot > LastSlot

\* A receiver that never stops predicting the keyboard's clock.
RcvExpiredBySilence ==
  /\ rcv.state # "PAUSED"
  /\ rcv.silence >= Timeout(rcv.state) \/ rcv.slot > LastSlot

RcvExpired ==
  /\ rcv.state # "PAUSED"
  /\ \/ rcv.silence >= Timeout(rcv.state)
     \/ rcv.running /\ rcv.age >= Holdover
     \/ rcv.slot > LastSlot

KbdNewSession == kbd' = KbdStart /\ rcv' = [rcv EXCEPT !.peer = FALSE]
RcvNewSession == rcv' = RcvStart /\ kbd' = [kbd EXCEPT !.peer = FALSE]

\* The end of the slot numbers counts as trouble.
KbdRestart ==
  /\ KbdExpired /\ KbdNewSession
  /\ quiet' = IF kbd.slot > LastSlot THEN 0 ELSE quiet

RcvRestart ==
  /\ RcvExpired /\ RcvNewSession
  /\ quiet' = IF rcv.slot > LastSlot THEN 0 ELSE quiet

\* apex_radio_request_session, or the end of a pause
KbdRequest == KbdNewSession /\ quiet' = 0
RcvRequest == RcvNewSession /\ quiet' = 0

KbdPause == kbd' = [kbd EXCEPT !.state = "PAUSED"] /\ quiet' = 0 /\ UNCHANGED rcv
RcvPause == rcv' = [rcv EXCEPT !.state = "PAUSED"] /\ quiet' = 0 /\ UNCHANGED kbd

-----------------------------------------------------------------------------
(* The exchange of one slot *)

InTime == ~KbdExpired /\ ~RcvExpired

\* Both clocks advance to the next slot.
Passes(k, r, intact) ==
  /\ InTime
  /\ kbd' = IF k.state = "PAUSED" THEN k
            ELSE [k EXCEPT !.silence = @ + 1, !.slot = IF k.mapAcked THEN @ + 1 ELSE 0]
  /\ rcv' = IF r.state = "PAUSED" THEN r
            ELSE [r EXCEPT !.silence = @ + 1,
                           !.slot = IF r.running THEN @ + 1 ELSE 0,
                           !.age = IF r.running THEN @ + 1 ELSE 0]
  /\ quiet' = IF ~intact \/ rcv.state = "PAUSED" THEN 0
              ELSE IF quiet = ReconnectTime THEN quiet ELSE quiet + 1

\* A receiver that goes on scanning while it waits for CONFIRM.
HelloHeardScanning(schedule) ==
  IF rcv.state = "WAIT_HELLO"
  THEN [rcv EXCEPT !.state = "WAIT_CONFIRM", !.silence = 0, !.peer = TRUE,
                   !.schedule = schedule]
  ELSE [rcv EXCEPT !.silence = 0]

\* Whoever accepts a message of the handshake stays on its channel.
HelloHeard(schedule) ==
  IF rcv.state = "WAIT_HELLO"
  THEN [rcv EXCEPT !.state = "WAIT_CONFIRM", !.silence = 0, !.peer = TRUE,
                   !.channel = RcvChannel, !.schedule = schedule]
  ELSE [rcv EXCEPT !.silence = 0]

Challenged(schedule) ==
  [kbd EXCEPT !.state = "WAIT_READY", !.silence = 0, !.peer = TRUE,
              !.channel = KbdChannel, !.schedule = schedule]

Hello(outcome, schedule) ==
  /\ kbd.state = "WAIT_CHALLENGE"
  /\ LET heard == /\ outcome # "lost" /\ Meet
                  /\ rcv.state = "WAIT_HELLO" \/ (rcv.state = "WAIT_CONFIRM" /\ rcv.peer)
         r == IF heard THEN HelloHeard(schedule) ELSE rcv
         k == IF heard /\ outcome = "answered" THEN Challenged(r.schedule) ELSE kbd
     IN  Passes(k, r, outcome = "answered")

Confirm(outcome) ==
  /\ kbd.state = "WAIT_READY"
  /\ LET heard == /\ outcome # "lost" /\ Meet /\ Shared
                  /\ rcv.state \in {"WAIT_CONFIRM", "ESTABLISHED"}
         r == IF heard THEN [rcv EXCEPT !.state = "ESTABLISHED", !.silence = 0] ELSE rcv
         k == IF heard /\ outcome = "answered"
              THEN [kbd EXCEPT !.state = "ESTABLISHED", !.silence = 0] ELSE kbd
     IN  Passes(k, r, outcome = "answered")

\* The clock starts with the answer, which is where slot 0 begins.
OfferMap(outcome) ==
  /\ kbd.state = "ESTABLISHED" /\ ~kbd.mapAcked
  /\ LET heard == /\ outcome # "lost" /\ Meet /\ Shared
                  /\ rcv.state = "ESTABLISHED" /\ ~rcv.running
         answered == heard /\ outcome = "answered"
         r == IF heard
              THEN [rcv EXCEPT !.hasMap = TRUE, !.silence = IF answered THEN -1 ELSE 0]
              ELSE rcv
         k == IF answered
              THEN [kbd EXCEPT !.mapAcked = TRUE, !.silence = -1, !.slot = -1] ELSE kbd
     IN  Passes(k, r, outcome = "answered")

\* apex_hop_accept_sync
AcceptsSync ==
  /\ rcv.state = "ESTABLISHED" /\ rcv.hasMap
  /\ rcv.running => kbd.slot = rcv.slot     \* within APEX_HOP_SYNC_SKEW_US

\* An anchor one slot late.
SyncHeardLate == [rcv EXCEPT !.running = TRUE, !.slot = kbd.slot - 1, !.age = 0, !.silence = 0]

SyncHeard == [rcv EXCEPT !.running = TRUE, !.slot = kbd.slot, !.age = 0, !.silence = 0]

\* One clock update in each slot and, once the keyboard hops, its data.
Exchange(sync, data) ==
  /\ kbd.state = "ESTABLISHED" /\ kbd.mapAcked
  /\ LET syncHeard == sync # "lost" /\ Meet /\ Shared /\ AcceptsSync
         dataHeard == data # "lost" /\ Meet /\ Shared /\ KbdHops /\ RcvHops
         synced == IF syncHeard THEN SyncHeard ELSE rcv
         r == IF dataHeard THEN [synced EXCEPT !.silence = 0] ELSE synced
         syncAck == syncHeard /\ sync = "answered"
         ack == syncAck \/ (dataHeard /\ data = "answered")
         k == [kbd EXCEPT !.syncAcked = @ \/ syncAck,
                          !.silence = IF ack THEN 0 ELSE @]
     IN  Passes(k, r, sync = "answered" /\ data = "answered")

\* A paused keyboard is silent.
Silent == kbd.state = "PAUSED" /\ Passes(kbd, rcv, FALSE)

Slot ==
  \/ \E o \in Outcomes, s \in Schedules : Hello(o, s)
  \/ \E o \in Outcomes : Confirm(o) \/ OfferMap(o)
  \/ \E s, d \in Outcomes : Exchange(s, d)
  \/ Silent

Next ==
  \/ KbdRestart \/ RcvRestart
  \/ KbdRequest \/ RcvRequest \/ KbdPause \/ RcvPause
  \/ Slot

Spec == Init /\ [][Next]_vars

-----------------------------------------------------------------------------
(* Properties *)

Awake(k, r) == "PAUSED" \notin {k.state, r.state}

(* Two ends that took each other's nonces are on one channel whenever they  *)
(* exchange packets: through the handshake, on the starting channel, and    *)
(* hop by hop.  In particular the keyboard never leaves the starting channel*)
(* for a receiver that has no clock, nor is it left behind there.           *)
SameChannel ==
  Shared /\ InTime /\ Awake(kbd, rcv) => KbdChannel = RcvChannel

(* Without losses, requests or pauses the ends find each other from any     *)
(* situation, whatever channels and timeouts they are at, and hop together, *)
(* within ReconnectTime.                                                    *)
ReconnectsInTime ==
  quiet = ReconnectTime => Shared /\ (InTime => KbdHops /\ RcvHops)
-----------------------------------------------------------------------------
(* The inductive invariant behind SameChannel: what the ends have in common *)
(* once each has taken the other's nonce.                                   *)

Consistent(k, r) ==
  /\ k.peer => r.peer
  /\ r.state = "WAIT_HELLO" => ~r.peer
  /\ k.state = "WAIT_CHALLENGE" => ~k.peer
  /\ k.syncAcked => k.mapAcked
  /\ k.mapAcked => k.state \in {"ESTABLISHED", "PAUSED"}
  /\ r.running => r.state \in {"ESTABLISHED", "PAUSED"}
  /\ k.peer /\ Awake(k, r) =>
       /\ k.channel = r.channel /\ k.schedule = r.schedule
       /\ k.state = "ESTABLISHED" => r.state = "ESTABLISHED"
       /\ k.syncAcked => r.running
       /\ r.running => k.mapAcked /\ k.slot = r.slot

SessionInv == Consistent(kbd, rcv)
=============================================================================
