------------------------------ MODULE Scanner -------------------------------
(***************************************************************************)
(* The keyboard's scanner thread (apex-zmk-g4b/src/link_g4b.c): one loop   *)
(* that reads key reports from the STM32 scanner, tunes it, slows it down  *)
(* when nothing happens, repairs it, and shares the bus lock of            *)
(* spim_g4b.c with the writers of the external flash (spinor_g4b.c).       *)
(*                                                                         *)
(* Each step of the loop ends where the code reads the ATTN pin, exchanges *)
(* a frame or takes the lock; keys, the keymap's callbacks, the shell and  *)
(* the flash writer may act between any two steps.  The scanner itself is  *)
(* what the code and docs/PROTOCOL.md say of it: once started (20 01 01) it *)
(* raises ATTN when the matrix changes and goes back to full speed, 0xA1   *)
(* answers with the whole matrix and lowers ATTN, 0xA2 or a frame of        *)
(* thresholds may lower it too, a running scanner rejects another 20 01 01, *)
(* and a power cycle stops it and loses what it was told.  An exchange may *)
(* fail, with or without effect.                                           *)
(***************************************************************************)
EXTENDS Naturals, FiniteSets

CONSTANTS
  Keys,             \* keys of the matrix
  Setting,          \* values of the switch settings (depth, gap, rapid trigger)
  Default,          \* the setting the firmware is built with
  Unsaved,          \* no settings record in the external flash
  MaxTrouble        \* bounds on the events ("fault", "key", "wish"), of which a behaviour has one

ASSUME ScannerAssumption ==
  Default \in Setting /\ Unsaved \notin Setting
  /\ MaxTrouble \subseteq [{"fault", "key", "wish"} -> Nat]

VARIABLES
  stm,        \* the scanner: running, matrix, ATTN, scan period, thresholds it was sent
  pc, frame,  \* where the loop is; the frame or period of the next exchange
  task,       \* what the running replay is for
  prev,       \* s3_prev_bitmap, or NoBitmap (s3_have_prev)
  keysDown,   \* s3_mode3_keys_down
  mode3,      \* the scan cadence as the loop knows it (s3_mode3_...)
  kscan,      \* the key driver: enabled, and the matrix ZMK was told
  setting, dirty,   \* the switch settings, and s3_cfg_dirty
  saved, saving,    \* the record in flash; what the writer holds, or Unsaved
  due,        \* the delayed work that saves is scheduled
  bus, nor,   \* the lock and the replay flag; the flash writer
  request,    \* what the shell asked for (s3_req_...)
  idle,       \* 0, 1, 2: active, idle, idle for long
  allowed,    \* wireless, on battery, no gamepad streaming
  missed,     \* history: a report of the matrix did not reach ZMK
  unsent,     \* history: a frame with thresholds was not delivered
  meddled,    \* history: the shell's own frame slowed the scanner down, and nothing
              \* has set its period since
  trouble     \* how many events of each kind may still come

loopVars == <<pc, frame, task, prev, keysDown, mode3>>
setVars == <<setting, dirty, saved, saving, due>>
busVars == <<bus, nor>>
envVars == <<request, idle, allowed>>
history == <<missed, unsent, meddled>>
vars == <<stm, loopVars, kscan, setVars, busVars, envVars, history, trouble>>

\* The replay: the frames that carry thresholds (0x30, 0x33, 0x35), the one that
\* starts the scanner (20 01 01), and the one that ends it and reads the keys
\* (0xA1); the frames between those two repeat the first ones.
Frames == 1..2
StartFrame == 3
LastFrame == 4
NoBitmap == {"none"}
Unknown == 0            \* g4b_mode3_expected_period = UINT32_MAX
Places == {"top", "read", "normalize", "fast", "recover", "cycle", "off", "replay",
           "service", "resetting", "raw", "light", "config", "resend", "sample", "enter", "slow", "wait", "boot"}

ScannerType ==
  [running : BOOLEAN, held : SUBSET Keys, attn : BOOLEAN, period : 1..3, config : [Frames -> Setting \cup {Unsaved}]]
Mode3Type ==
  [slow : BOOLEAN, resumed : BOOLEAN, repair : BOOLEAN, recovery : BOOLEAN,
   disabled : BOOLEAN, expected : 0..3]
KscanType == [enabled : BOOLEAN, previous : SUBSET Keys]
BusType == [owner : {"free", "g4b", "nor"}, depth : 0..2, replay : BOOLEAN]
RequestType == [reset : BOOLEAN, raw : BOOLEAN]

TypeOK ==
  /\ stm \in ScannerType /\ kscan \in KscanType
  /\ pc \in Places /\ frame \in 1..4 /\ task \in {"none", "boot", "recovery", "raw"}
  /\ prev \in (SUBSET Keys) \cup {NoBitmap} /\ keysDown \in BOOLEAN /\ mode3 \in Mode3Type
  /\ setting \in Setting /\ dirty \in BOOLEAN /\ due \in BOOLEAN
  /\ saved \in Setting \cup {Unsaved} /\ saving \in Setting \cup {Unsaved}
  /\ bus \in BusType /\ nor \in {"idle", "gate", "lock", "writing"}
  /\ request \in RequestType /\ idle \in 0..2 /\ allowed \in BOOLEAN
  /\ trouble \in [{"fault", "key", "wish"} -> Nat]
  /\ missed \in BOOLEAN /\ unsent \in BOOLEAN /\ meddled \in BOOLEAN

Forgotten == [f \in Frames |-> Unsaved]
Cadence == [slow |-> FALSE, resumed |-> FALSE, repair |-> FALSE, recovery |-> FALSE,
            disabled |-> FALSE, expected |-> 1]

\* A scanner that lost its power does not look at the keys until it is started,
\* and then reports the ones it finds down.
PowerOff(s) ==
  [running |-> FALSE, held |-> s.held, attn |-> FALSE, period |-> 1, config |-> Forgotten]
Started(s) == [s EXCEPT !.running = TRUE, !.attn = s.held # {}, !.period = 1]
Stopped(s) == [s EXCEPT !.running = FALSE, !.attn = FALSE]

\* The period is no longer the shell's when the scanner goes back to full speed.
Undone == meddled' = (meddled /\ stm'.period > 1)

Init ==
  /\ stm = PowerOff([held |-> {}])
  /\ pc = "boot" /\ frame = 1 /\ task = "none"
  /\ prev = NoBitmap /\ keysDown = FALSE /\ mode3 = Cadence
  /\ kscan = [enabled |-> FALSE, previous |-> {}]
  /\ setting = Default /\ dirty = FALSE /\ saved = Unsaved /\ saving = Unsaved /\ due = FALSE
  /\ bus = [owner |-> "free", depth |-> 0, replay |-> FALSE] /\ nor = "idle"
  /\ request = [reset |-> FALSE, raw |-> FALSE]
  /\ idle = 0 /\ allowed \in BOOLEAN
  /\ missed = FALSE /\ unsent = FALSE /\ meddled = FALSE /\ trouble \in MaxTrouble

Disturb(kind) == trouble[kind] > 0 /\ trouble' = [trouble EXCEPT ![kind] = @ - 1]
Calm == UNCHANGED trouble

-----------------------------------------------------------------------------
(* The bus lock: a recursive mutex; the replay holds it from begin to end  *)

Available == bus.owner # "nor"
Lock(owner, b) == [b EXCEPT !.owner = owner, !.depth = @ + 1]
Unlock(b) ==
  [b EXCEPT !.owner = IF b.depth = 1 THEN "free" ELSE @, !.depth = @ - 1]

\* Mutation: the flags alone keep writers away from a replay.
ReplayBeginFlags(b) == [b EXCEPT !.replay = TRUE]

ReplayBegin(b) == [Lock("g4b", b) EXCEPT !.replay = TRUE]
ReplayEnd(b) == [Unlock(b) EXCEPT !.replay = FALSE]

\* A frame is exchanged: the lock is free or the thread's own.
Exchange == Available

-----------------------------------------------------------------------------
(* The loop: key reports *)

Goto(place) == pc' = place

\* The pass begins: the heartbeat, the lighting, and the ATTN pin.
Top ==
  /\ pc = "top"
  /\ IF stm.attn
     THEN /\ Goto("read") /\ idle' = 0
          /\ mode3' = IF mode3.slow /\ ~mode3.resumed
                      THEN [mode3 EXCEPT !.resumed = TRUE, !.expected = Unknown] ELSE mode3
     ELSE Goto("normalize") /\ UNCHANGED <<idle, mode3>>
  /\ UNCHANGED <<stm, frame, task, prev, keysDown, kscan, setVars, busVars, request, allowed,
                 history, trouble>>

\* apex_g4b_kscan_ingest_bitmap
Ingested(bitmap) ==
  IF kscan.enabled THEN [kscan EXCEPT !.previous = bitmap] ELSE kscan

\* A report: a known matrix is skipped, a refused one is not remembered.
TakeReport ==
  /\ Calm /\ stm' = [stm EXCEPT !.attn = FALSE]
  /\ keysDown' = (stm.held # {})
  /\ IF prev = stm.held THEN UNCHANGED <<prev, kscan>>
     ELSE /\ kscan' = Ingested(stm.held)
          /\ prev' = IF kscan.enabled THEN stm.held ELSE prev
  /\ missed' = (kscan'.previous # stm.held)

\* More keys than fingers: dropped, but it counts as keys held.
CorruptReport ==
  /\ Disturb("fault") /\ stm' = [stm EXCEPT !.attn = FALSE]
  /\ keysDown' = TRUE /\ missed' = TRUE /\ UNCHANGED <<prev, kscan>>

FailedReport ==
  /\ Disturb("fault") /\ UNCHANGED <<keysDown, prev, kscan>>
  /\ \/ UNCHANGED <<stm, missed>>
     \/ stm' = [stm EXCEPT !.attn = FALSE] /\ missed' = TRUE

Read ==
  /\ pc = "read" /\ Exchange
  /\ TakeReport \/ CorruptReport \/ FailedReport
  /\ Goto("top")
  /\ UNCHANGED <<frame, task, mode3, setVars, busVars, envVars, unsent, meddled>>

-----------------------------------------------------------------------------
(* The scan cadence *)

\* Mutation: USB power, the switch and the gamepad do not matter.
WantedAnyway == ~dirty /\ ~keysDown /\ idle > 0

\* s3_mode3_wanted
Wanted == allowed /\ ~dirty /\ ~keysDown /\ idle > 0
\* s3_mode3_target_period: 50 ms, then 100 ms, as 2 and 3
Target == IF Wanted THEN idle + 1 ELSE 1

\* Mutation: a scanner with a key held is power-cycled as well.
NormalizeAnyway ==
  /\ pc = "normalize"
  /\ Goto(IF stm.attn THEN "top"
          ELSE IF mode3.recovery THEN "recover"
          ELSE IF mode3.repair \/ (mode3.slow /\ (mode3.resumed \/ ~Wanted)) THEN "fast"
          ELSE "service")
  /\ UNCHANGED <<stm, frame, task, prev, keysDown, mode3, kscan, setVars, busVars, envVars,
                 history, trouble>>

\* s3_mode3_normalize_if_needed, up to its exchange
Normalize ==
  /\ pc = "normalize"
  /\ Goto(IF stm.attn THEN "top"
          ELSE IF mode3.recovery THEN IF keysDown THEN "service" ELSE "recover"
          ELSE IF mode3.repair \/ (mode3.slow /\ (mode3.resumed \/ ~Wanted)) THEN "fast"
          ELSE "service")
  /\ UNCHANGED <<stm, frame, task, prev, keysDown, mode3, kscan, setVars, busVars, envVars,
                 history, trouble>>

TakesPeriod(period) == stm' = [stm EXCEPT !.period = period] /\ meddled' = FALSE

\* s3_mode3_set_period: it may fail before or after it took effect.
SetPeriod(period, succeeded, failed) ==
  \/ /\ Calm /\ mode3' = succeeded /\ TakesPeriod(period)
     /\ Goto(IF stm.attn THEN "top" ELSE IF pc = "fast" THEN "service" ELSE "wait")
  \/ /\ Disturb("fault") /\ mode3' = failed
     /\ TakesPeriod(period) \/ UNCHANGED <<stm, meddled>>
     /\ Goto("top")

Fast ==
  /\ pc = "fast" /\ Exchange
  /\ SetPeriod(1,
       [mode3 EXCEPT !.slow = FALSE, !.resumed = FALSE, !.repair = FALSE, !.expected = 1],
       [mode3 EXCEPT !.expected = Unknown, !.disabled = TRUE, !.repair = ~mode3.repair,
                     !.recovery = mode3.repair])
  /\ UNCHANGED <<frame, task, prev, keysDown, kscan, setVars, busVars, envVars, missed, unsent>>

\* s3_mode3_enter_if_needed: the period is chosen here and sent in Slow.
Enter ==
  /\ pc = "enter"
  /\ IF mode3.disabled \/ Target = 1 \/ (mode3.slow /\ mode3.expected = Target)
     THEN Goto(IF stm.attn THEN "top" ELSE "wait") /\ UNCHANGED frame
     ELSE IF stm.attn THEN Goto("top") /\ UNCHANGED frame
          ELSE Goto("slow") /\ frame' = Target
  /\ UNCHANGED <<stm, task, prev, keysDown, mode3, kscan, setVars, busVars, envVars, history,
                 trouble>>

SlowSucceeded ==
  [mode3 EXCEPT !.slow = TRUE, !.resumed = FALSE, !.expected = frame]

\* Mutation: a failed entry is taken to have had no effect.
SlowFailedHarmlessly == [mode3 EXCEPT !.disabled = TRUE]

SlowFailed ==
  [mode3 EXCEPT !.slow = TRUE, !.resumed = FALSE, !.repair = TRUE, !.disabled = TRUE,
                !.expected = Unknown]

Slow ==
  /\ pc = "slow" /\ Exchange /\ SetPeriod(frame, SlowSucceeded, SlowFailed) /\ frame' = 1
  /\ UNCHANGED <<task, prev, keysDown, kscan, setVars, busVars, envVars, missed, unsent>>

\* g4b_attn_wait: an edge or the time
Wait ==
  /\ pc = "wait" /\ Goto("top")
  /\ UNCHANGED <<stm, frame, task, prev, keysDown, mode3, kscan, setVars, busVars, envVars,
                 history, trouble>>

-----------------------------------------------------------------------------
(* The replay of the start-up frames, and what it repairs *)

\* g4b_main, at the start of the thread
Boot ==
  /\ pc = "boot" /\ Available
  /\ bus' = ReplayBegin(bus) /\ Goto("replay") /\ frame' = 1 /\ task' = "boot"
  /\ UNCHANGED <<stm, prev, keysDown, mode3, kscan, setVars, nor, envVars, history, trouble>>

\* s3_recover_scanner takes the lock, twice, which may take its time ...
Recover ==
  /\ pc = "recover" /\ Available
  /\ bus' = Lock("g4b", ReplayBegin(bus)) /\ Goto("cycle")
  /\ UNCHANGED <<stm, frame, task, prev, keysDown, mode3, kscan, setVars, nor, envVars, history,
                 trouble>>

Recovered(ok) ==
  /\ prev' = IF ok THEN NoBitmap ELSE prev
  /\ mode3' = [mode3 EXCEPT !.slow = FALSE, !.resumed = FALSE, !.recovery = FALSE,
                            !.expected = IF ok THEN 1 ELSE Unknown]

\* ... so it looks at ATTN again before it cuts the power.
Cycle ==
  /\ pc = "cycle"
  /\ \/ /\ stm.attn /\ Calm
        /\ bus' = ReplayEnd(Unlock(bus)) /\ Goto("top")
        /\ UNCHANGED stm
     \/ /\ ~stm.attn /\ Calm
        /\ stm' = PowerOff(stm) /\ Goto("off") /\ UNCHANGED bus
  /\ Undone
  /\ UNCHANGED <<frame, task, prev, keysDown, mode3, kscan, setVars, nor, envVars, missed, unsent>>

\* READY comes in time, or not.
PowerUp ==
  /\ pc = "off"
  /\ \/ /\ Calm
        /\ bus' = Unlock(bus) /\ Goto("replay") /\ frame' = 1 /\ task' = "recovery"
        /\ UNCHANGED <<prev, mode3, unsent>>
     \/ /\ Disturb("fault")
        /\ bus' = ReplayEnd(Unlock(bus)) /\ Goto("top") /\ Recovered(FALSE) /\ unsent' = TRUE
        /\ UNCHANGED <<frame, task>>
  /\ UNCHANGED <<stm, keysDown, kscan, setVars, nor, envVars, missed, meddled>>

\* s2_run_replay is over, at its end or at the frame that failed.
Replayed(ok) ==
  /\ task' = "none"
  /\ CASE task = "boot"  -> /\ bus' = ReplayEnd(bus) /\ Goto("top")
                            /\ UNCHANGED <<prev, mode3, dirty, request>>
       [] task = "recovery" -> /\ bus' = ReplayEnd(bus) /\ Goto("top") /\ Recovered(ok)
                            /\ UNCHANGED <<dirty, request>>
       [] task = "raw" -> /\ Goto("light") /\ dirty' = TRUE
                            /\ request' = [request EXCEPT !.raw = FALSE]
                            /\ UNCHANGED <<bus, prev, mode3>>

\* The frames with thresholds carry the settings of the moment they are sent
\* (s2_apply_actuation, s2_apply_rapid_trigger).
Configured(f) == [stm EXCEPT !.config[f] = setting]

\* What a frame of the replay does to the scanner.
Obeyed ==
  IF frame \in Frames THEN Configured(frame)
  ELSE IF frame = StartFrame THEN IF stm.running THEN stm ELSE Started(stm)
  ELSE [stm EXCEPT !.attn = FALSE]

\* An answer other than the recorded one ends the replay: a scanner that runs
\* already rejects its start, and the last frame expects no key to be down.
Expected ==
  /\ frame = StartFrame => ~stm.running
  /\ frame = LastFrame => stm.held = {}

Replay ==
  /\ pc = "replay" /\ Exchange
  /\ \/ /\ Calm /\ stm' = Obeyed
        /\ unsent' = (unsent /\ frame # 2)
        /\ IF Expected /\ frame # LastFrame
           THEN frame' = frame + 1 /\ UNCHANGED <<pc, task, bus, prev, mode3, dirty, request>>
           ELSE frame' = 1 /\ Replayed(Expected)
     \/ /\ Disturb("fault") /\ stm' \in {stm, Obeyed}
        /\ unsent' = (unsent \/ frame \in Frames)
        /\ frame' = 1 /\ Replayed(FALSE)
  /\ missed' = (missed \/ (frame = LastFrame /\ stm.attn /\ ~stm'.attn))
  /\ Undone
  /\ UNCHANGED <<keysDown, kscan, setting, saved, saving, due, nor, idle, allowed>>

-----------------------------------------------------------------------------
(* The shell's requests, analog readings, and the thresholds *)

\* s3_service_shell_requests: a scanner reset cuts the power for 250 ms
\* whatever keys are down.
Service ==
  /\ pc = "service"
  /\ IF request.reset
     THEN /\ stm' = PowerOff(stm) /\ Goto("resetting")
          /\ missed' = (missed \/ stm.attn \/ stm.held # {})
     ELSE /\ Goto(IF request.raw THEN "raw" ELSE "light") /\ UNCHANGED <<stm, missed>>
  /\ request' = [request EXCEPT !.reset = FALSE]
  /\ Undone
  /\ UNCHANGED <<frame, task, prev, keysDown, mode3, kscan, setVars, busVars, idle, allowed,
                 unsent, trouble>>

\* No frame starts the scanner after that: whether it does so itself, the docs
\* do not agree (PROTOCOL.md:55, APEX_CONTROL.md:188).
ResetDone ==
  /\ pc = "resetting" /\ stm' \in {stm, Started(stm)} /\ dirty' = TRUE
  /\ Goto(IF request.raw THEN "raw" ELSE "light")
  /\ UNCHANGED <<frame, task, prev, keysDown, mode3, kscan, setting, saved, saving, due, busVars,
                 envVars, history, trouble>>

\* Any frame but 0x01, 0x02 and 0x32 (cmd_scanraw): a question, or one that takes
\* the report (0xA1, 0xA2), sets a threshold, stops or starts the scanner, or sets
\* its period (20 03), of which the loop is not told.
RawFrame ==
  \/ UNCHANGED <<stm, missed, meddled>>
  \/ /\ stm' = [stm EXCEPT !.attn = FALSE]
     /\ missed' = (missed \/ stm.attn) /\ UNCHANGED meddled
  \/ /\ \E f \in Frames, value \in Setting \cup {Unsaved} : stm' = [stm EXCEPT !.config[f] = value]
     /\ UNCHANGED <<missed, meddled>>
  \/ /\ stm' = Stopped(stm)
     /\ missed' = (missed \/ stm.attn \/ stm.held # {}) /\ UNCHANGED meddled
  \/ /\ ~stm.running /\ stm' = Started(stm)
     /\ meddled' = FALSE /\ UNCHANGED missed
  \/ /\ \E period \in 1..3 : stm' = [stm EXCEPT !.period = period]
     /\ meddled' = (stm'.period > 1) /\ UNCHANGED missed

\* The replay that follows is not bracketed by g4b_extbus_replay_begin and
\* g4b_extbus_replay_end.
Raw ==
  /\ pc = "raw" /\ Exchange /\ RawFrame
  /\ Goto("replay") /\ frame' = 1 /\ task' = "raw"
  /\ UNCHANGED <<prev, keysDown, mode3, kscan, setVars, busVars, envVars, unsent, trouble>>

\* s3_analog_light, s3_analog_sample: a 0xA2, or nothing
Analog ==
  /\ pc \in {"light", "sample"}
  /\ \/ UNCHANGED <<stm, missed>>
     \/ /\ Exchange /\ stm.attn
        /\ stm' = [stm EXCEPT !.attn = FALSE]
        /\ missed' = TRUE
  /\ Goto(IF pc = "light" THEN "config" ELSE "enter")
  /\ UNCHANGED <<frame, task, prev, keysDown, mode3, kscan, setVars, busVars, envVars, unsent,
                 meddled, trouble>>

\* Mutation: the flag is lowered before it is certain that the frames go out.
ConfigDrops ==
  /\ pc = "config"
  /\ IF ~dirty THEN Goto("sample") /\ UNCHANGED unsent
     ELSE IF mode3.slow THEN Goto("top") /\ UNCHANGED unsent
     ELSE Goto("resend") /\ unsent' = FALSE
  /\ dirty' = FALSE
  /\ UNCHANGED <<stm, frame, task, prev, keysDown, mode3, kscan, setting, saved, saving, due,
                 busVars, envVars, missed, meddled, trouble>>

\* s3_cfg_dirty is lowered before the frames go out, so that a change made
\* while they do raises it again.
Config ==
  /\ pc = "config"
  /\ IF ~dirty THEN Goto("sample") /\ UNCHANGED <<dirty, frame, unsent>>
     ELSE IF mode3.slow THEN Goto("top") /\ UNCHANGED <<dirty, frame, unsent>>
     ELSE Goto("resend") /\ dirty' = FALSE /\ frame' = 1 /\ unsent' = FALSE
  /\ UNCHANGED <<stm, task, prev, keysDown, mode3, kscan, setting, saved, saving, due, busVars, envVars,
                 missed, meddled, trouble>>

\* s3_resend_config: a failure is not noticed, and ATTN is not looked at
\* between the frames, where "a config frame racing a key report loses a
\* keypress".
Resend ==
  /\ pc = "resend" /\ Exchange
  /\ \/ Calm /\ stm' = Configured(frame) /\ UNCHANGED <<missed, unsent>>
     \/ /\ Calm /\ stm.attn /\ missed' = TRUE /\ UNCHANGED unsent
        /\ stm' = [stm EXCEPT !.config[frame] = setting, !.attn = FALSE]
     \/ Disturb("fault") /\ unsent' = TRUE /\ UNCHANGED <<stm, missed>>
  /\ frame' = 3 - frame /\ Goto(IF frame = 1 THEN "resend" ELSE "sample")
  /\ UNCHANGED <<task, prev, keysDown, mode3, kscan, setVars, busVars, envVars, meddled>>

-----------------------------------------------------------------------------
(* The flash writer (the work queue that saves settings, spinor_g4b.c) *)

NorStart ==
  /\ nor = "idle" /\ due
  /\ nor' = "gate" /\ saving' = setting /\ due' = FALSE
  /\ UNCHANGED <<stm, loopVars, kscan, setting, dirty, saved, bus, envVars, history, trouble>>

\* g4b_extbus_wait_replay, and only then the lock
NorGate ==
  /\ nor = "gate" /\ ~bus.replay /\ nor' = "lock"
  /\ UNCHANGED <<stm, loopVars, kscan, setVars, bus, envVars, history, trouble>>

NorLock ==
  /\ nor = "lock" /\ bus.owner = "free"
  /\ bus' = Lock("nor", bus) /\ nor' = "writing"
  /\ UNCHANGED <<stm, loopVars, kscan, setVars, envVars, history, trouble>>

NorDone ==
  /\ nor = "writing"
  /\ bus' = Unlock(bus) /\ nor' = "idle" /\ saved' = saving /\ saving' = Unsaved
  /\ UNCHANGED <<stm, loopVars, kscan, setting, dirty, due, envVars, history, trouble>>

-----------------------------------------------------------------------------
(* The surroundings *)

\* A key goes down or comes up; the scanner, if it runs, raises ATTN and goes back
\* to full speed by itself.
MatrixChange ==
  /\ Disturb("key")
  /\ \E k \in Keys :
       stm' = [stm EXCEPT !.held = IF k \in @ THEN @ \ {k} ELSE @ \cup {k},
                          !.attn = @ \/ stm.running,
                          !.period = IF stm.running THEN 1 ELSE @]
  /\ Undone
  /\ UNCHANGED <<loopVars, kscan, setVars, busVars, envVars, missed, unsent>>

\* A keymap control or the shell moves a threshold; the record is written
\* some time after the last change (g4b_settings_mark_dirty).
Tune ==
  /\ Disturb("wish") /\ setting' \in Setting \ {setting} /\ dirty' = TRUE /\ due' = TRUE
  /\ UNCHANGED <<stm, loopVars, kscan, saved, saving, busVars, envVars, history>>

ShellRequest ==
  /\ Disturb("wish")
  /\ request' \in {[request EXCEPT !.reset = TRUE], [request EXCEPT !.raw = TRUE]}
  /\ UNCHANGED <<stm, loopVars, kscan, setVars, busVars, idle, allowed, history>>

\* Power, the switch or the gamepad
Surroundings ==
  /\ Disturb("wish") /\ allowed' = ~allowed
  /\ UNCHANGED <<stm, loopVars, kscan, setVars, busVars, request, idle, history>>

TimePasses ==
  /\ idle < 2 /\ idle' = idle + 1
  /\ UNCHANGED <<stm, loopVars, kscan, setVars, busVars, request, allowed, history, trouble>>

\* ZMK is up.
KscanEnable ==
  /\ ~kscan.enabled /\ kscan' = [kscan EXCEPT !.enabled = TRUE]
  /\ UNCHANGED <<stm, loopVars, setVars, busVars, envVars, history, trouble>>

\* A reset: the settings are loaded before the thread runs (g4b_settings_set).
Reset ==
  /\ Disturb("wish") /\ pc # "boot"
  /\ stm' = PowerOff(stm)
  /\ pc' = "boot" /\ frame' = 1 /\ task' = "none" /\ prev' = NoBitmap /\ keysDown' = FALSE
  /\ mode3' = Cadence /\ kscan' = [enabled |-> FALSE, previous |-> {}]
  /\ setting' = (IF saved = Unsaved THEN Default ELSE saved)
  /\ dirty' = (saved # Unsaved) /\ saving' = Unsaved /\ due' = FALSE
  /\ bus' = [owner |-> "free", depth |-> 0, replay |-> FALSE] /\ nor' = "idle"
  /\ request' = [reset |-> FALSE, raw |-> FALSE] /\ idle' = 0
  /\ missed' = FALSE /\ unsent' = FALSE /\ meddled' = FALSE
  /\ UNCHANGED <<saved, allowed>>

-----------------------------------------------------------------------------
Loop ==
  \/ Boot \/ Top \/ Read \/ Normalize \/ Fast \/ Recover \/ Cycle \/ PowerUp \/ Replay
  \/ Service \/ ResetDone \/ Raw \/ Analog \/ Config \/ Resend \/ Enter \/ Slow \/ Wait
Writer == NorStart \/ NorGate \/ NorLock \/ NorDone

Next ==
  \/ Loop \/ Writer
  \/ MatrixChange \/ Tune \/ ShellRequest \/ Surroundings \/ TimePasses \/ KscanEnable \/ Reset

Spec == Init /\ [][Next]_vars

\* The thread runs whenever it can; the mutex is handed to who waits for it.
Fairness == WF_vars(Loop) /\ WF_vars(NorStart) /\ WF_vars(NorGate) /\ SF_vars(NorLock)
            /\ WF_vars(NorDone)
FairSpec == Spec /\ Fairness

-----------------------------------------------------------------------------
(* While the scanner runs and no report waits, ZMK holds the keys that are     *)
(* really down, through slow scanning, repairs, power cycles and restarts,    *)
(* unless a report was refused, garbled, failed, or taken by an analog        *)
(* reading, a raw frame, a frame of thresholds, the last frame of a replay or *)
(* the shell's reset.                                                         *)
KeysAgree ==
  ~stm.running \/ stm.attn \/ missed \/ kscan.previous = stm.held

(* A scanner that is slow is known to be slow, whatever failed half way: the *)
(* loop will bring it back.  Only a period the shell sent by itself (apex     *)
(* scanraw 20 03 ..) is unknown to the loop, until a key or the loop sets it. *)
SlowIsKnown ==
  stm.period > 1 => meddled \/ (mode3.slow /\ mode3.expected \in {Unknown, stm.period})

(* No flash writer uses the bus between two frames of a replay (spim_g4b.c). *)
ReplayUndisturbed == ~(bus.replay /\ nor = "writing")

(* When the settings stay, the scanner and the flash come to hold them,      *)
(* whatever the shell sent, unless a frame failed, or a key stays down on a   *)
(* scanner waiting for its power cycle.                                      *)
SettingsSettle ==
  <>[](/\ setting = IF saved = Unsaved THEN Default ELSE saved
       /\ \/ \A f \in Frames : stm.config[f] = setting
          \/ unsent \/ (mode3.recovery /\ keysDown))

(* A slow scanner that should not be slow is brought back to full speed; if  *)
(* that fails twice, with the next key that comes up.  A period the shell     *)
(* sent is excepted: the replay after it does not set the period, and nothing *)
(* but a key or the cadence's next change of mind takes it back.             *)
FullSpeedReturns ==
  (stm.period > 1 /\ ~allowed /\ ~meddled)
    ~> (stm.period = 1 \/ allowed \/ keysDown \/ meddled)
=============================================================================
