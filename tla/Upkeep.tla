------------------------------- MODULE Upkeep -------------------------------
(***************************************************************************)
(* What may restart the keyboard: the mode switch and the radio's owner    *)
(* (apex-zmk-g4b/src/mode_g4b.c, radio_g4b.c) and the watchdog             *)
(* (wdt_g4b.c).  One thread of cooperative priority serves both: once a    *)
(* second it reads the switch and then decides whether to feed.            *)
(*                                                                         *)
(* The radio belongs to the Bluetooth controller or, for one whole run of  *)
(* the firmware, to the driver of the dongle's link; a switch that crosses *)
(* that boundary restarts the keyboard.  Time is counted in rounds of the  *)
(* thread.  Variables named last, streak, longest and stalest are history: *)
(* no action reads them.                                                   *)
(***************************************************************************)
EXTENDS Integers

CONSTANTS
  FeedPeriod,   \* G4B_WDT_FEED_PERIOD_MS, in rounds
  Grace,        \* G4B_WDT_KEYBOARD_GRACE_MS, in rounds
  WatchdogTime,      \* the watchdog's 60 s, in rounds
  Debounce      \* G4B_MODE_DEBOUNCE

Modes == {"BT", "USB", "DONGLE"}
Failed == "FAILED"          \* G4B_SAADC_READ_FAILED
NoMode == "NONE"            \* no override: -1
Stale == 4 * FeedPeriod

VARIABLES
  cached, pending, count, primed,   \* the debounced position of the switch
  override, retained,               \* the forced mode, and its copy in NOINIT memory
  bootDongle, radio,                \* boot_is_dongle, and who has the radio
  ours,                             \* wdt_config_is_ours
  unfed, fedOnce, stopped,          \* rounds since the last feed, fed_once, wdt_stopped_for_good
  silent,                           \* rounds since the last heartbeat, or since the start
  unsampled,                        \* rounds since the last complete sample, or since the start
  last, streak, longest, stalest

modeVars == <<cached, pending, count, primed>>
bootVars == <<override, retained, bootDongle, radio, ours>>
dogVars == <<unfed, fedOnce, stopped, silent, unsampled>>
history == <<last, streak, longest, stalest>>
vars == <<modeVars, bootVars, dogVars, history>>

Larger(a, b) == IF a > b THEN a ELSE b

\* g4b_mode_get
ModeGet == IF override # NoMode THEN override ELSE cached

-----------------------------------------------------------------------------
(* Starting *)

\* g4b_mode_init, g4b_radio_init and g4b_wdt_init after a reset, with what the
\* first reading gave.  A failed reading leaves the position of the image, BT.
Boot(reading, keeps) ==
  /\ cached' = IF reading = Failed THEN "BT" ELSE reading
  /\ primed' = (reading # Failed)
  /\ pending' = "BT" /\ count' = 0
  /\ retained' = keeps /\ override' = keeps
  /\ bootDongle' = ((IF keeps # NoMode THEN keeps ELSE cached') = "DONGLE")
  /\ radio' = IF bootDongle' THEN "LEAVING" ELSE "CONTROLLER"
  /\ fedOnce' = FALSE /\ stopped' = ~ours'
  /\ unfed' = IF ours' THEN 0 ELSE unfed
  /\ silent' = 0 /\ unsampled' = 0
  /\ last' = reading /\ streak' = IF reading = Failed THEN 0 ELSE 1
  /\ longest' = 0 /\ stalest' = 0

\* The watchdog of an older image may still be running, with other settings.
Init ==
  /\ cached \in Modes /\ primed = TRUE /\ pending = "BT" /\ count = 0
  /\ override = NoMode /\ retained = NoMode
  /\ bootDongle = (cached = "DONGLE")
  /\ radio = IF bootDongle THEN "LEAVING" ELSE "CONTROLLER"
  /\ ours \in BOOLEAN
  /\ unfed = 0 /\ fedOnce = FALSE /\ stopped = ~ours
  /\ silent = 0 /\ unsampled = 0
  /\ last = cached /\ streak = 1 /\ longest = 0 /\ stalest = 0

-----------------------------------------------------------------------------
(* A round of the watchdog's thread *)

\* g4b_mode_sample: a position counts once the switch was read there Debounce
\* times running, the first of a run at once.  A failed reading changes nothing.
Sample(reading) ==
  \/ /\ reading = Failed
     /\ unsampled' = unsampled + 1
     /\ UNCHANGED <<modeVars, last, streak>>
  \/ /\ reading # Failed
     /\ unsampled' = 0
     /\ last' = reading
     /\ streak' = IF reading = last THEN streak + 1 ELSE 1
     /\ primed' = TRUE
     /\ LET settles == reading = pending /\ count + 1 >= Debounce
        IN  \/ /\ ~primed
               /\ cached' = reading
               /\ UNCHANGED <<pending, count>>
            \/ /\ primed /\ (reading = cached \/ settles)
               /\ cached' = reading /\ count' = 0
               /\ UNCHANGED pending
            \/ /\ primed /\ reading # cached /\ ~settles
               /\ pending' = reading
               /\ count' = IF reading = pending THEN count + 1 ELSE 1
               /\ UNCHANGED cached

\* The conditions of wdt_feed_once: somebody reads the switch, and the loop of
\* the keyboard runs.
Fit == unsampled' <= Stale /\ silent' < Grace /\ ours

Due == ~stopped /\ (~fedOnce \/ unfed + 1 >= FeedPeriod)

Feed ==
  /\ stopped' = (stopped \/ (Due /\ ~Fit))
  /\ fedOnce' = (fedOnce \/ (Due /\ Fit))
  /\ unfed' = IF Due /\ Fit THEN 0 ELSE unfed + 1

\* One pass of wdt_thread_main, and the second before it.
Round(reading) ==
  /\ unfed + 1 < WatchdogTime
  /\ Sample(reading)
  /\ silent' = silent + 1
  /\ Feed
  /\ longest' = Larger(longest, silent') /\ stalest' = Larger(stalest, unsampled')
  /\ UNCHANGED bootVars

\* g4b_wdt_keyboard_heartbeat, once in every turn of s3_run_keyboard.
Heartbeat ==
  /\ silent' = 0
  /\ UNCHANGED <<modeVars, bootVars, unfed, fedOnce, stopped, unsampled, history>>

\* Nobody fed it: the processor restarts, and the watchdog with it.
Bite(reading, keeps) ==
  /\ unfed + 1 >= WatchdogTime
  /\ ours' = TRUE
  /\ Boot(reading, keeps)

-----------------------------------------------------------------------------
(* The owner of the radio *)

\* mode_gate_work: the settled mode is on the other side of the boundary.
ModeGate(reading) ==
  /\ (ModeGet = "DONGLE") # bootDongle
  /\ UNCHANGED ours
  /\ Boot(reading, retained)

\* standdown_work_fn: bt_disable() works and the driver starts, or Bluetooth
\* never became ready or could not be disabled, and keeps the radio.
StandDown ==
  /\ radio = "LEAVING"
  /\ radio' \in {"DRIVER", "CONTROLLER"}
  /\ UNCHANGED <<modeVars, override, retained, bootDongle, ours, dogVars, history>>

\* g4b_mode_set_override
SetOverride(mode) ==
  /\ override' = mode /\ retained' = mode
  /\ UNCHANGED <<modeVars, bootDongle, radio, ours, dogVars, history>>

Next ==
  \/ \E reading \in Modes \cup {Failed} :
       \/ Round(reading) \/ ModeGate(reading)
       \/ \E keeps \in {retained, NoMode} : Bite(reading, keeps)
  \/ \E mode \in Modes \cup {NoMode} : SetOverride(mode)
  \/ Heartbeat \/ StandDown

Spec == Init /\ [][Next]_vars
-----------------------------------------------------------------------------
\* What the constants of wdt_g4b.c and mode_g4b.c have in common.
Settings ==
  /\ FeedPeriod \in Nat \ {0} /\ Grace \in Nat \ {0}
  /\ WatchdogTime \in Nat /\ FeedPeriod < WatchdogTime
  /\ Debounce \in Nat

(* A keyboard that hangs is restarted: neither its loop nor the readings of *)
(* the switch are ever away for longer than the grace and the watchdog's    *)
(* time together, whatever else goes on (the 90 seconds of                  *)
(* docs/CONFIGURATION.md).                                                  *)
KeepsWatch == silent < Grace + WatchdogTime /\ unsampled < Stale + WatchdogTime

(* Only a keyboard that hangs is restarted by the watchdog: in this run its *)
(* loop was silent for the whole grace, or the switch was not read for four *)
(* feed periods, or the watchdog was one of another image.                  *)
BitesTheSilent ==
  unfed + 1 >= WatchdogTime => ~ours \/ longest >= Grace \/ stalest > Stale

(* The position of the switch moves only after Debounce readings of the new *)
(* position in a row; only if the reading at the start failed, the first    *)
(* good one is taken at its word.                                           *)
Steady ==
  \A reading \in Modes \cup {Failed} :
    Round(reading) /\ cached' # cached
      => ~primed \/ (last' = cached' /\ streak' >= Debounce)

SteadyMoves == [][Steady]_vars
-----------------------------------------------------------------------------
(* The inductive invariant behind the properties *)

TypeOK ==
  /\ count \in Nat /\ streak \in Nat
  /\ unfed \in Nat /\ silent \in Nat /\ unsampled \in Nat
  /\ longest \in Nat /\ stalest \in Nat
  /\ fedOnce \in BOOLEAN /\ stopped \in BOOLEAN /\ ours \in BOOLEAN

\* Since the last feed nobody was away for longer than what a feed allows.
FedWhileFit ==
  silent < unfed + Grace /\ unsampled <= unfed + Stale /\ unfed < WatchdogTime

\* The feeder is late only when it has given up, and then for a reason.
LateIsStopped ==
  /\ ~stopped => unfed < FeedPeriod
  /\ stopped => ~ours \/ longest >= Grace \/ stalest > Stale

\* A run of readings that is being counted is the latest one.
CountIsStreak ==
  /\ count > 0 => last = pending /\ streak >= count
  /\ ~primed => count = 0

Upkept == TypeOK /\ FedWhileFit /\ LateIsStopped /\ CountIsStreak
=============================================================================
