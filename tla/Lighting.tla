------------------------------ MODULE Lighting ------------------------------
(***************************************************************************)
(* The LEDs of the keyboard: a frame staged in RAM by two writers, one of  *)
(* which owns it at a time (ZMK's underglow on its work queue and the      *)
(* effect engine on the scanner's thread), sent to a controller that       *)
(* forgets everything when its supply falls (apex-zmk-g4b/src/rgb_g4b.c);  *)
(* the fade and the cut of the supply when the keyboard is idle; and the   *)
(* requests of the shell, which that thread serves                         *)
(* (apex-zmk-g4b/src/link_g4b.c).                                          *)
(*                                                                         *)
(* A frame is two halves, so that a writer can be caught between them; a   *)
(* writer stages a whole frame, which has the same in both.                *)
(* What the overlays paint over it is left to Overlay: here one of them    *)
(* may ask for a transfer whenever it is asked.                            *)
(***************************************************************************)
EXTENDS Integers

CONSTANTS
  Pixels,       \* what a half of a frame may hold
  Black,        \* the half in which nothing is lit
  Gains,        \* the settings of current and colour balance
  DefaultGain,  \* the settings at the start
  Unset,        \* the settings of a controller that was not brought up
  FullFade,     \* the scalar of full brightness: 256 in the code
  FadeInTicks,  \* G4B_RGB_FADE_IN_MS, in turns of the loop
  FadeOutTicks, \* G4B_RGB_FADE_OUT_MS, in turns of the loop
  MaxRequests   \* how many requests the shell makes

(* What the constants have to be. *)
LightingAssumption ==
  /\ Black \in Pixels /\ DefaultGain \in Gains /\ Unset \notin Gains
  /\ {FullFade, FadeInTicks, FadeOutTicks} \subseteq Nat \ {0}
  /\ MaxRequests \in Nat

VARIABLES
  at,           \* the step of the loop of g4b_thread that comes next
  effect,       \* fx_current # G4B_FX_ZMK: the effect engine owns the frame
  writing,      \* what the work queue of the underglow is about to write
  staged,       \* rgb_pwm_frame
  pending,      \* rgb_pending
  blanked,      \* rgb_blanked
  fade,         \* rgb_fade, _target, _from, and the turns since rgb_fade_t0
  gain,         \* rgb_gcurrent and rgb_scale_*
  rail,         \* the supply of the LEDs, P0.23 and P0.19
  bus,          \* SPIM2 and its chip select are connected
  chip,         \* the controller: its settings, and the frame it shows
  wantOn,       \* the condition s3_rgb_idle_update passes on
  requests,     \* s3_req_rgb_reset, _rail, _gcc and _balance
  asked,        \* how many requests the shell may still make
  steady        \* history: the turns since wantOn changed, up to Longest

frameVars == <<effect, writing, staged>>
lightVars == <<pending, blanked, fade, gain, rail, bus, chip>>
shellVars == <<requests, asked>>
wantVars == <<wantOn, steady>>
vars == <<at, frameVars, lightVars, wantVars, shellVars>>

Longest == FadeInTicks + FadeOutTicks

Frame == Pixels \X Pixels
Whole == {f \in Frame : f[1] = f[2]}   \* what a writer stages
Cleared == <<Black, Black>>
Idle == <<>>                    \* the underglow is not writing
None == [reset |-> FALSE, rail |-> "none", gain |-> Unset]
Off == [gain |-> Unset, frame |-> Cleared, fade |-> 0]

TypeOK ==
  /\ at \in {"idle", "effect", "overlay", "flush", "show", "rest",
         "service"}
  /\ effect \in BOOLEAN /\ staged \in Frame
  /\ writing \in {Idle} \cup Frame \cup {<<p>> : p \in Pixels}
  /\ {pending, blanked, rail, bus, wantOn} \subseteq BOOLEAN
  /\ fade \in [now : 0..FullFade, target : {0, FullFade}, from : 0..FullFade,
               since : 0..FadeInTicks + FadeOutTicks]
  /\ gain \in Gains
  /\ chip \in [gain : Gains \cup {Unset}, frame : Frame, fade : 0..FullFade]
  /\ requests \in [reset : BOOLEAN, rail : {"none", "up", "down"},
                   gain : Gains \cup {Unset}]
  /\ asked \in 0..MaxRequests /\ steady \in 0..Longest

(* g4b_rgb_init, after the supplies were raised: the LEDs start dark,      *)
(* powered and at full brightness.                                        *)
Init ==
  /\ at = "idle" /\ effect \in BOOLEAN /\ writing = Idle
  /\ staged = Cleared /\ pending = FALSE /\ blanked = FALSE
  /\ fade = [now |-> FullFade, target |-> FullFade, from |-> FullFade, since |-> 0]
  /\ gain = DefaultGain
  /\ rail = TRUE /\ bus = TRUE
  /\ chip = [gain |-> gain, frame |-> Cleared, fade |-> FullFade]
  /\ wantOn \in BOOLEAN /\ steady = 0
  /\ requests = None /\ asked = MaxRequests
-----------------------------------------------------------------------------
(* The controller hears a transfer while it has its supply and the bus is  *)
(* connected; a transfer it does not hear ends by its bound.               *)
Hears == rail /\ bus

(* g4b_rgb_bringup: the page is cleared before the controller is let out   *)
(* of its shutdown with the remembered settings.                           *)
BroughtUp(g) == [gain |-> g, frame |-> Cleared, fade |-> FullFade]

(* g4b_rgb_set_blanked(true): a dark page, then the bus and the supply.    *)
Blank ==
  /\ blanked' = TRUE /\ rail' = FALSE /\ bus' = FALSE /\ chip' = Off

(* g4b_rgb_set_blanked(false): the bus, the supply, the controller, and    *)
(* the staged frame again.                                                 *)
Unblank ==
  /\ blanked' = FALSE /\ rail' = TRUE /\ bus' = TRUE
  /\ chip' = BroughtUp(gain) /\ pending' = TRUE

(* Mutation of Ramp: both ramps last as long as the longer one.            *)
RampSlow(from, target, since) ==
  LET prog == IF since >= FadeOutTicks THEN FullFade ELSE (since * FullFade) \div FadeOutTicks
  IN IF target >= from THEN from + ((target - from) * prog) \div FullFade
                       ELSE from - ((from - target) * prog) \div FullFade

(* The scalar after `since` turns of a ramp.                               *)
Ramp(from, target, since) ==
  LET rising == target > from
      dur == IF rising THEN FadeInTicks ELSE FadeOutTicks
      prog == IF since >= dur THEN FullFade ELSE (since * FullFade) \div dur
  IN IF target >= from THEN from + ((target - from) * prog) \div FullFade
                       ELSE from - ((from - target) * prog) \div FullFade

(* g4b_rgb_idle_tick.                                                      *)
IdleTick ==
  LET target == IF wantOn THEN FullFade ELSE 0
      waking == wantOn /\ blanked
      turned == target # fade.target
      from == CASE waking -> 0 [] ~waking /\ turned -> fade.now [] OTHER -> fade.from
      now == IF waking THEN 0 ELSE fade.now
      since == IF waking \/ turned THEN 0 ELSE fade.since
      settled == now = target
      next == IF settled THEN now ELSE Ramp(from, target, since)
  IN /\ fade' = [now |-> next, target |-> target, from |-> from,
                 since |-> IF settled THEN 0 ELSE since + 1]
     /\ \/ /\ waking /\ Unblank
        \/ /\ ~waking /\ next = 0 /\ target = 0 /\ ~blanked
           /\ Blank /\ pending' = (pending \/ ~settled)
        \/ /\ ~waking /\ ~(next = 0 /\ target = 0 /\ ~blanked)
           /\ pending' = (pending \/ ~settled)
           /\ UNCHANGED <<blanked, rail, bus, chip>>

(* s3_rgb_idle_update.                                                     *)
IdleUpdate ==
  /\ at = "idle" /\ at' = "effect"
  /\ IdleTick
  /\ steady' = IF steady < Longest THEN steady + 1 ELSE steady
  /\ UNCHANGED <<frameVars, gain, wantOn, shellVars>>

(* g4b_fx_tick: an effect that is due renders the whole frame.             *)
EffectTick ==
  /\ at = "effect" /\ at' = "overlay"
  /\ \/ /\ effect
        /\ staged' \in Whole
        /\ pending' = TRUE
     \/ UNCHANGED <<staged, pending>>
  /\ UNCHANGED <<effect, writing, blanked, fade, gain, rail, bus, chip, wantVars,
                 shellVars>>

(* g4b_rgb_overlay_tick, as Overlay has it.                                *)
OverlayTick ==
  /\ at = "overlay" /\ at' = "flush"
  /\ pending' \in {pending, TRUE}
  /\ UNCHANGED <<frameVars, blanked, fade, gain, rail, bus, chip, wantVars,
                 shellVars>>

(* g4b_rgb_flush: the flag is cleared before the frame is read, and a      *)
(* frame is dropped while the LEDs are blanked.                            *)
Flush ==
  /\ at = "flush"
  /\ at' = IF pending /\ ~blanked THEN "show" ELSE "service"
  /\ pending' = FALSE
  /\ UNCHANGED <<frameVars, blanked, fade, gain, rail, bus, chip, wantVars, shellVars>>

(* g4b_rgb_show: the staged frame, scaled by the fade, while the work      *)
(* queue may be writing it.                                                *)
Show ==
  /\ at = "show" /\ at' = "rest"
  /\ chip' = IF Hears THEN [chip EXCEPT !.frame[1] = staged[1], !.fade = fade.now]
                      ELSE chip
  /\ UNCHANGED <<frameVars, pending, blanked, fade, gain, rail, bus, wantVars,
                 shellVars>>

(* Mutation of ShowRest: the flag is cleared after the frame was sent.     *)
ShowRestThenClear ==
  /\ at = "rest" /\ at' = "service"
  /\ chip' = IF Hears THEN [chip EXCEPT !.frame[2] = staged[2]] ELSE chip
  /\ pending' = FALSE
  /\ UNCHANGED <<frameVars, blanked, fade, gain, rail, bus, wantVars, shellVars>>

ShowRest ==
  /\ at = "rest" /\ at' = "service"
  /\ chip' = IF Hears THEN [chip EXCEPT !.frame[2] = staged[2]] ELSE chip
  /\ UNCHANGED <<frameVars, pending, blanked, fade, gain, rail, bus, wantVars,
                 shellVars>>

(* The controller once its supply was cycled or raised: brought up, unless *)
(* the bus is parked and it hears nothing.                                 *)
Raised == IF bus THEN BroughtUp(gain) ELSE Off

(* The supply and the controller after rgb_reset, then rgb_rail.           *)
RailAfter ==
  CASE requests.rail = "none" -> rail \/ requests.reset
    [] requests.rail = "down" -> FALSE
    [] requests.rail = "up" -> TRUE
ChipAfter ==
  CASE requests.rail = "down" -> Off
    [] requests.rail = "up" -> Raised
    [] requests.rail = "none" -> IF requests.reset THEN Raised ELSE chip

(* g4b_rgb_set_gcurrent and _balance: written unless the LEDs are blanked, *)
(* to a controller that hears.                                             *)
Adjusted(c, g) == IF ~blanked /\ c.gain # Unset THEN [c EXCEPT !.gain = g] ELSE c

(* s3_service_shell_requests, when the scanner is silent: the supply is    *)
(* cycled, raised or dropped; settings are remembered, and written.        *)
Service ==
  /\ at = "service" /\ at' = "idle"
  /\ rail' = RailAfter
  /\ IF requests.gain = Unset
     THEN gain' = gain /\ chip' = ChipAfter
     ELSE gain' = requests.gain /\ chip' = Adjusted(ChipAfter, requests.gain)
  /\ requests' = None
  /\ UNCHANGED <<frameVars, pending, blanked, fade, bus, wantVars, asked>>

(* The scanner has something to say, and requests wait.                    *)
SkipService ==
  /\ at = "service" /\ at' = "idle"
  /\ UNCHANGED <<frameVars, lightVars, wantVars, shellVars>>

(* g4b_strip_update_rgb on the work queue: refused while an effect owns    *)
(* the frame; else every pixel is written, and then the frame is marked.   *)
UnderglowStarts(f) ==
  /\ writing = Idle /\ ~effect
  /\ writing' = f
  /\ UNCHANGED <<at, effect, staged, lightVars, wantVars, shellVars>>

UnderglowHalf ==
  /\ writing \in Frame
  /\ staged' = <<writing[1], staged[2]>> /\ writing' = <<writing[2]>>
  /\ UNCHANGED <<at, effect, lightVars, wantVars, shellVars>>

UnderglowEnds ==
  /\ \E p \in Pixels : writing = <<p>> /\ staged' = <<staged[1], p>>
  /\ writing' = Idle /\ pending' = TRUE
  /\ UNCHANGED <<at, effect, blanked, fade, gain, rail, bus, chip, wantVars,
                 shellVars>>

(* g4b_fx_set and g4b_fx_cycle, from a key or the shell.                   *)
ChangeEffect ==
  /\ effect' = ~effect
  /\ UNCHANGED <<at, writing, staged, lightVars, wantVars, shellVars>>

(* Keys, the switch of modes, USB and an update change what is wanted.     *)
WantChanges ==
  /\ wantOn' = ~wantOn /\ steady' = 0
  /\ UNCHANGED <<at, frameVars, lightVars, shellVars>>

(* g4b_request_rgb_reset, _rgb_rail, _rgb_gcurrent and _rgb_balance: a     *)
(* later request of a kind replaces the one that waits.                    *)
Request ==
  /\ asked > 0 /\ asked' = asked - 1
  /\ \/ requests' = [requests EXCEPT !.reset = TRUE]
     \/ \E r \in {"up", "down"} : requests' = [requests EXCEPT !.rail = r]
     \/ \E g \in Gains : requests' = [requests EXCEPT !.gain = g]
  /\ UNCHANGED <<at, frameVars, lightVars, wantVars>>

Loop == IdleUpdate \/ EffectTick \/ OverlayTick \/ Flush \/ Show \/ ShowRest
          \/ Service \/ SkipService
Underglow == (\E f \in Whole : UnderglowStarts(f)) \/ UnderglowHalf \/ UnderglowEnds
Next == Loop \/ Underglow \/ ChangeEffect \/ WantChanges \/ Request

Spec == Init /\ [][Next]_vars
-----------------------------------------------------------------------------
(* What the array shows is what was staged last: once no transfer is       *)
(* pending and the underglow is between two frames, the controller holds   *)
(* the staged frame at the present fade, whichever thread staged it, or    *)
(* nothing since it was last brought up.  (rgb_pending is cleared before   *)
(* the transfer and set after the pixels.)                                 *)
ShownIsStaged ==
  ~pending /\ at \notin {"show", "rest"} /\ ~blanked /\ rail /\ writing = Idle
    => \/ chip.frame = Cleared
       \/ chip.frame = staged /\ chip.fade = fade.now

(* A powered array that is not blanked runs with the settings that were    *)
(* asked for last, whatever the supply did in between: they are            *)
(* remembered across every cut, and written again.                         *)
ChipFollowsSettings == ~blanked /\ rail => chip.gain = gain

(* The LEDs follow what is wanted, and in time: after one turn and a ramp  *)
(* they are lit, or blanked with the bus parked, wherever the change found *)
(* the fade, and whatever the shell did to the supply meanwhile.           *)
LightFollowsWant ==
  /\ wantOn /\ steady > FadeInTicks => ~blanked /\ fade.now = FullFade
  /\ ~wantOn /\ steady > FadeOutTicks => blanked /\ ~bus
=============================================================================
