----------------------------- MODULE Actuation ------------------------------
(***************************************************************************)
(* The switch settings of the keyboard (apex-zmk-g4b/src/link_g4b.c): the  *)
(* actuation ladder, the reset gap, rapid trigger and the overrides of     *)
(* single keys, as the keymap's controls, the shell and the records in     *)
(* flash move them, and the thresholds that are written into the scanner's *)
(* frames from them.  When the frames go out is the business of Scanner.   *)
(***************************************************************************)
EXTENDS Integers

CONSTANTS
  Keys,        \* scan indices
  Asked,       \* depths a user may ask of a key, in tenths of a millimetre
  Records      \* what a record read from flash may hold, sound or not

VARIABLES
  step,        \* s3_act_step
  gap,         \* s3_reset_gap
  rt, rtLast,  \* s3_rt_tenths, s3_rt_last_on
  over,        \* s3_perkey_tenths: 0, or the depth of one key
  told         \* for each key, what was last written into the frames

vars == <<step, gap, rt, rtLast, over, told>>

Ladder == <<16, 29, 46, 50, 70, 110>>     \* g4b_act_steps, from index 0
Gaps == <<2, 4, 6, 8>>                    \* g4b_reset_gaps
Travel == <<0, 0, 4, 4, 5, 6, 8, 10, 12, 14, 16, 19, 21, 24, 26, 29, 32, 35, 38, 42,
            46, 50, 54, 59, 64, 70, 76, 83, 91, 100, 110, 120, 132, 144, 156, 168,
            180, 194, 211>>               \* g4b_tenths_to_index

Clamp(low, high, x) == IF x < low THEN low ELSE IF x > high THEN high ELSE x

\* The thresholds of a key (s2_apply_actuation): bytes.
Press(key) == IF over[key] # 0 THEN Travel[over[key] + 1] ELSE Ladder[step + 1]
Release(key) == (Press(key) - Gaps[gap + 1]) % 256

\* CONFIG_APEX_G4B_RAPID_TRIGGER of g4b_usb.conf
Default == [step |-> 3, gap |-> 1, rt |-> 3, rtLast |-> 3]

Init ==
  /\ step = Default.step /\ gap = Default.gap
  /\ rt = Default.rt /\ rtLast = Default.rtLast
  /\ over = [key \in Keys |-> 0]
  /\ told = [key \in Keys |-> [press |-> 50, release |-> 46, trigger |-> rt]]

\* g4b_actuation_step
ActuationStep(delta) ==
  /\ step' = Clamp(0, 5, step + delta)
  /\ UNCHANGED <<gap, rt, rtLast, over, told>>

\* g4b_act_key_set: 0 clears the override.
ActKeySet(key, tenths) ==
  /\ over' = [over EXCEPT ![key] = IF tenths = 0 THEN 0 ELSE Clamp(2, 38, tenths)]
  /\ UNCHANGED <<step, gap, rt, rtLast, told>>

\* g4b_rapid_trigger_step: it never steps into 0, which is off.
RapidTriggerStep(delta) ==
  /\ rt' = Clamp(1, 40, rt + delta)
  /\ rtLast' = IF rt' = rt THEN rtLast ELSE rt'
  /\ UNCHANGED <<step, gap, over, told>>

\* g4b_rapid_trigger_toggle
RapidTriggerToggle ==
  /\ rt' = IF rt # 0 THEN 0 ELSE rtLast
  /\ UNCHANGED <<step, gap, rtLast, over, told>>

\* g4b_reset_point_cycle
ResetPointCycle ==
  /\ gap' = (gap + 1) % 4
  /\ UNCHANGED <<step, rt, rtLast, over, told>>

\* g4b_settings_set, after a reset: a field out of range leaves the default,
\* and an override out of range is none.
Load(r) ==
  /\ step' = IF r.step < 6 THEN r.step ELSE Default.step
  /\ gap' = IF r.gap < 4 THEN r.gap ELSE Default.gap
  /\ rt' = IF r.rt <= 40 THEN r.rt ELSE Default.rt
  /\ rtLast' = IF r.rtLast \in 1..40 THEN r.rtLast ELSE Default.rtLast
  /\ over' = [key \in Keys |-> IF r.over \in 2..38 THEN r.over ELSE 0]
  /\ UNCHANGED told

\* The replay and s3_resend_config write the frames (s2_apply_rapid_trigger).
Send ==
  /\ told' = [key \in Keys |->
                [press |-> Press(key), release |-> Release(key), trigger |-> rt]]
  /\ UNCHANGED <<step, gap, rt, rtLast, over>>

Next ==
  \/ \E delta \in {-1, 1} : ActuationStep(delta) \/ RapidTriggerStep(delta)
  \/ \E key \in Keys, tenths \in Asked : ActKeySet(key, tenths)
  \/ RapidTriggerToggle \/ ResetPointCycle \/ Send
  \/ \E r \in Records : Load(r)

Spec == Init /\ [][Next]_vars

TypeOK ==
  /\ step \in 0..5 /\ gap \in 0..3 /\ rt \in 0..40 /\ rtLast \in 1..40
  /\ over \in [Keys -> {0} \cup 2..38]
  /\ told \in [Keys -> [press : 0..255, release : 0..255, trigger : 0..40]]

(* A key without rapid trigger, the one the scanner looks at the release     *)
(* point for, is never given a release point at or above its press point: it *)
(* would chatter (link_g4b.c:493, the reset gap).                            *)
PressAboveRelease ==
  \A key \in Keys : told[key].trigger = 0 => told[key].press > told[key].release
=============================================================================
