------------------------------ MODULE Charger -------------------------------
(***************************************************************************)
(* The charger of the keyboard (apex-zmk-g4b/src/twi_g4b.c): a chip on a   *)
(* wire of its own, which keeps its registers while the keyboard restarts, *)
(* and gives them up for its defaults 40 s after a write, unless that      *)
(* watchdog is disarmed.  Its limits are set by the settings at the start, *)
(* by the scanner's thread a little later, and by the shell                *)
(* (apex_control_g4b.c, link_g4b.c); the storage controller on ZMK's       *)
(* battery work queue (battery_bq_g4b.c) stops and resumes charging so     *)
(* that the cell stays within a band.                                      *)
(*                                                                         *)
(* One transfer is one step: a mutex makes it so, but what the threads do  *)
(* between two transfers interleaves.  A transfer may fail, and a failed   *)
(* write may have reached the chip.                                        *)
(***************************************************************************)
EXTENDS Integers

CONSTANTS
  Default,      \* the limits of a chip that was reset
  Cap,          \* what configure_charge sets: 4096 mV, 1472 mA
  Limits,       \* what the shell may set
  NoOverride,   \* vreg_mv = 0
  MaxTrouble,   \* how many transfers fail, and how often the keyboard restarts
  MaxCommands   \* how many commands the shell gets

(* What the constants have to be. *)
ChargerAssumption ==
  /\ Default # Cap /\ NoOverride \notin Limits
  /\ {MaxTrouble, MaxCommands} \subseteq Nat

VARIABLES
  limits,       \* REG06 and REG04: the voltage and the current
  charging,     \* CHG_CONFIG of REG03
  watchdog,     \* the watchdog of REG07: disarmed, armed, or running
  conf,         \* where a thread is in its configuration
  shell,        \* the set_charging of the shell under way
  tick,         \* where the storage controller is
  reading,      \* the sample it works on
  override,     \* apex_ctrl.vreg_mv in RAM
  saved,        \* the same in the settings
  written,      \* history: the limits that were written last
  configured,   \* history: a configuration succeeded
  settled,      \* history: what the controller last decided by
  crossed,      \* history: the sample in hand came with trouble, or the shell
                \* set charging, or the chip was configured, since
  budget        \* what is left of the two bounds

chipVars == <<limits, charging, watchdog>>
tickVars == <<tick, reading>>
savedVars == <<override, saved>>
history == <<written, configured, settled, crossed>>
vars == <<chipVars, conf, shell, tickVars, savedVars, history, budget>>

Threads == {"boot", "shell"}
Charge == {"low", "mid", "high"}
Pair(V) == [vreg : V, ichg : V]
Known == {Default, Cap} \cup Limits

TypeOK ==
  /\ {limits, written} \subseteq Pair(Known)
  /\ {charging, configured, crossed} \subseteq BOOLEAN
  /\ watchdog \in {"disarmed", "armed", "running"}
  /\ {reading, settled} \subseteq Charge \cup {"none"}
  /\ conf \in [Threads -> {"commit", "timer", "disarm", "vreg", "ichg", "done"}]
  /\ shell \in {"idle", "enable", "disable"}
  /\ tick \in {"idle", "power", "enabled", "terminated", "stop", "stopping",
               "resume", "resuming"}
  /\ {override, saved} \subseteq Limits \cup {NoOverride}
  /\ budget \in [trouble : 0..MaxTrouble, commands : 0..MaxCommands]

Init ==
  /\ limits = [vreg |-> Default, ichg |-> Default] /\ written = limits
  /\ charging = TRUE /\ watchdog = "armed"
  /\ conf = [boot |-> "commit", shell |-> "done"] /\ shell = "idle"
  /\ tick = "idle" /\ reading = "none"
  /\ override = NoOverride /\ saved = NoOverride
  /\ configured = FALSE /\ settled = "none" /\ crossed = FALSE
  /\ budget = [trouble |-> MaxTrouble, commands |-> MaxCommands]

Spend(what) ==
  /\ budget[what] > 0
  /\ budget' = [budget EXCEPT ![what] = @ - 1]

(* Any write starts a watchdog that is armed.                              *)
Started == IF watchdog = "armed" THEN "running" ELSE watchdog
-----------------------------------------------------------------------------
(* The chip gives up its registers.                                        *)
Lapse ==
  /\ watchdog = "running" /\ watchdog' = "armed"
  /\ limits' = [vreg |-> Default, ichg |-> Default] /\ charging' = TRUE
  /\ UNCHANGED <<conf, shell, tickVars, savedVars, history, budget>>
-----------------------------------------------------------------------------
(* apex_ctrl_commit: a saved override is written when the settings were    *)
(* loaded, whether or not the chip answers, before the thread configures.  *)
Commit ==
  /\ conf.boot = "commit" /\ conf' = [conf EXCEPT !.boot = "timer"]
  /\ IF override = NoOverride THEN UNCHANGED <<chipVars, written, budget>>
     ELSE \/ /\ limits' = [limits EXCEPT !.vreg = override] /\ watchdog' = Started
             /\ written' = [written EXCEPT !.vreg = override]
             /\ UNCHANGED <<charging, budget>>
          \/ Spend("trouble") /\ UNCHANGED <<chipVars, written>>
  /\ UNCHANGED <<shell, tickVars, savedVars, configured, settled, crossed>>

(* Mutation of Following: the limits are set before the watchdog is        *)
(* disarmed.                                                               *)
FollowingLimitsFirst(s) ==
  CASE s = "timer" -> "vreg" [] s = "vreg" -> "ichg" [] s = "ichg" -> "disarm"
    [] s = "disarm" -> "done"

(* g4b_bq_configure_charge: the timer is read, the watchdog disarmed in    *)
(* what was read, then the voltage and the current are limited; the first  *)
(* transfer that fails ends it.                                            *)
Following(s) ==
  CASE s = "timer" -> "disarm" [] s = "disarm" -> "vreg" [] s = "vreg" -> "ichg"
    [] s = "ichg" -> "done"

Configuring(t) == conf[t] \in {"timer", "disarm", "vreg", "ichg"}
Wrote(field) ==
  /\ limits' = [limits EXCEPT ![field] = Cap]
  /\ written' = [written EXCEPT ![field] = Cap]
  /\ watchdog' = Started

Configure(t) ==
  /\ Configuring(t)
  /\ CASE conf[t] = "timer" -> UNCHANGED <<limits, watchdog, written>>
       [] conf[t] = "disarm" -> watchdog' = "disarmed" /\ UNCHANGED <<limits, written>>
       [] OTHER -> Wrote(conf[t])
  /\ conf' = [conf EXCEPT ![t] = Following(@)]
  /\ configured' = (configured \/ Following(conf[t]) = "done")
  /\ settled' = IF configured' # configured THEN "none" ELSE settled
  /\ crossed' = (crossed \/ configured' # configured)
  /\ UNCHANGED <<charging, shell, tickVars, savedVars, budget>>

\* The failure is not retried; the write may have reached the chip.
ConfigureFails(t) ==
  /\ Spend("trouble")
  /\ Configuring(t)
  /\ \/ UNCHANGED <<limits, watchdog, written>>
     \/ /\ conf[t] = "disarm" /\ watchdog' = "disarmed"
        /\ UNCHANGED <<limits, written>>
     \/ conf[t] \in {"vreg", "ichg"} /\ Wrote(conf[t])
  /\ conf' = [conf EXCEPT ![t] = "done"]
  /\ UNCHANGED <<charging, shell, tickVars, savedVars, configured, settled,
                 crossed>>
-----------------------------------------------------------------------------
(* The shell, one command at a time. *)
ShellFree == conf.shell = "done" /\ shell = "idle"

ShellConfigures ==
  /\ ShellFree /\ Spend("commands")
  /\ conf' = [conf EXCEPT !.shell = "timer"]
  /\ UNCHANGED <<chipVars, shell, tickVars, savedVars, history>>

\* apex_charge_set_vreg_mv keeps what was written for the next start, unless
\* the write failed after it reached the chip.
ShellLimits(field, v) ==
  /\ ShellFree /\ Spend("commands")
  /\ limits' = [limits EXCEPT ![field] = v] /\ written' = [written EXCEPT ![field] = v]
  /\ watchdog' = Started
  /\ override' \in {override, IF field = "vreg" THEN v ELSE override}
  /\ UNCHANGED <<charging, conf, shell, tickVars, saved, configured, settled,
                 crossed>>

(* g4b_bq_set_charging: REG03 is read, and written when the bit differs.   *)
ShellReads(enable) ==
  /\ ShellFree /\ Spend("commands")
  /\ shell' = IF charging = enable THEN "idle" ELSE IF enable THEN "enable" ELSE "disable"
  /\ UNCHANGED <<chipVars, conf, tickVars, savedVars, history>>

ShellWrites ==
  /\ shell # "idle" /\ shell' = "idle"
  /\ charging' = (shell = "enable") /\ watchdog' = Started
  /\ settled' = "none" /\ crossed' = TRUE
  /\ UNCHANGED <<limits, conf, tickVars, savedVars, written, configured, budget>>

\* The command fails.
ShellFails ==
  /\ Spend("trouble")
  /\ shell # "idle" /\ shell' = "idle"
  /\ UNCHANGED <<chipVars, conf, tickVars, savedVars, history>>

\* apex_ctrl_save_work, five seconds after the last change.
SaveOverride ==
  /\ saved # override /\ saved' = override
  /\ UNCHANGED <<chipVars, conf, shell, tickVars, override, history, budget>>
-----------------------------------------------------------------------------
(* bq_start_conversion: a chip that is converting is not written to.       *)
StartsConversion == watchdog' \in {watchdog, Started}

(* g4b_bq_sample_mv: the first conversion that is not zero is taken, which *)
(* may be the one before, so that it is anything the cell had lately; the  *)
(* cell is not followed.                                                   *)
Sampled == StartsConversion /\ reading' \in Charge

\* battery_bq_sample_fetch: no conversion, and nothing is controlled.
Sample ==
  /\ tick = "idle" /\ tick' = "power"
  /\ Sampled /\ crossed' = FALSE
  /\ UNCHANGED <<limits, charging, conf, shell, savedVars, written, configured, settled,
                 budget>>

\* apex_battery_read: the shell samples, and shows what it read.
ShellSamples ==
  /\ ShellFree /\ Spend("commands")
  /\ StartsConversion
  /\ UNCHANGED <<limits, charging, conf, shell, tickVars, savedVars, history>>

(* g4b_bq_storage_tick, each of whose conditions is a transfer of its own; *)
(* set_charging reads once more what it writes.                            *)
Goes(s) ==
  CASE s = "enabled" -> IF charging THEN "terminated"
                        ELSE IF reading = "low" THEN "resume" ELSE "idle"
    [] s = "terminated" -> IF reading = "high" THEN "stop" ELSE "idle"
    [] s = "stop" -> IF charging THEN "stopping" ELSE "idle"
    [] s = "resume" -> IF charging THEN "idle" ELSE "resuming"
    [] OTHER -> "idle"

\* What the controller has decided by, when a sample led it to its end.
Decided ==
  IF crossed \/ reading = "mid" THEN settled ELSE reading

\* Without power nothing is controlled; a chip that is done counts as a cell
\* that is full.
StorageTick ==
  /\ tick # "idle"
  /\ \/ /\ tick = "power" /\ tick' \in {"enabled", "idle"}
        /\ reading' = IF tick' = "idle" THEN "none" ELSE reading
        /\ UNCHANGED settled
     \/ /\ tick = "terminated" /\ charging
        /\ tick' = "stop" /\ reading' = "high" /\ UNCHANGED settled
     \/ /\ tick # "power" /\ tick' = Goes(tick)
        /\ reading' = IF tick' = "idle" THEN "none" ELSE reading
        /\ settled' = IF tick' = "idle" THEN Decided ELSE settled
  /\ charging' = CASE tick = "stopping" -> FALSE [] tick = "resuming" -> TRUE
                   [] OTHER -> charging
  /\ watchdog' = IF tick \in {"stopping", "resuming"} THEN Started ELSE watchdog
  /\ UNCHANGED <<limits, conf, shell, savedVars, written, configured, crossed,
                 budget>>

\* Status that cannot be read counts as clear, and a failed write is dropped.
StorageTickFails ==
  /\ Spend("trouble")
  /\ tick # "idle"
  /\ tick' = CASE tick = "enabled" /\ reading = "low" -> "resume"
               [] tick = "terminated" /\ reading = "high" -> "stop"
               [] OTHER -> "idle"
  /\ reading' = IF tick' = "idle" THEN "none" ELSE reading
  /\ charging' \in {charging} \cup CASE tick = "stopping" -> {FALSE}
                                     [] tick = "resuming" -> {TRUE} [] OTHER -> {}
  /\ settled' = "none" /\ crossed' = TRUE
  /\ watchdog' = IF tick \in {"stopping", "resuming"} THEN Started ELSE watchdog
  /\ UNCHANGED <<limits, conf, shell, savedVars, written, configured>>
-----------------------------------------------------------------------------
(* The keyboard restarts, and finds what was saved; the chip does not.     *)
Restart ==
  /\ Spend("trouble")
  /\ conf' = [boot |-> "commit", shell |-> "done"] /\ shell' = "idle"
  /\ tick' = "idle" /\ reading' = "none" /\ crossed' = FALSE
  /\ override' = saved
  /\ UNCHANGED <<chipVars, saved, written, configured, settled>>

Next ==
  \/ Lapse \/ Commit
  \/ \E t \in Threads : Configure(t) \/ ConfigureFails(t)
  \/ ShellConfigures \/ \E f \in {"vreg", "ichg"}, v \in Limits : ShellLimits(f, v)
  \/ \E e \in BOOLEAN : ShellReads(e)
  \/ ShellWrites \/ ShellFails \/ ShellSamples \/ SaveOverride
  \/ Sample \/ StorageTick \/ StorageTickFails \/ Restart

Spec == Init /\ [][Next]_vars
-----------------------------------------------------------------------------
(* Once the charger was configured, its limits are the ones written last,  *)
(* by whichever thread and whatever failed or restarted since: the reset   *)
(* that twi_g4b.c describes ("would work for 40 seconds and then quietly   *)
(* undo itself") never comes.                                              *)
LimitHolds == configured => limits = written

(* The cell stays within its band: once the controller had a sample at the *)
(* upper end, or the chip was done, charging is off until a sample is at   *)
(* the lower end, and the other way round, unless the shell set it or the  *)
(* controller met trouble in between.                                      *)
BandHolds ==
  configured => /\ settled = "high" => ~charging
                /\ settled = "low" => charging
=============================================================================
