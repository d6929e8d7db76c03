------------------------------ MODULE Effects -------------------------------
(***************************************************************************)
(* The effect engine of the LEDs (apex-zmk-g4b/src/rgb_fx_g4b.c): what a   *)
(* key leaves behind and how it fades, the calibration of the heat map,    *)
(* and the dithering through which every channel goes out.                 *)
(*                                                                         *)
(* The thread of the scanner renders, and tells of keys and depths; an     *)
(* effect is selected by threads that preempt it, in the middle of a frame *)
(* too.  One channel of one LED, red, is followed to the controller; the   *)
(* effects keys do not drive are what they may send it.                    *)
(***************************************************************************)
EXTENDS Integers, FiniteSets

CONSTANTS
  Leds,         \* the LEDs
  Near,         \* the neighbours of an LED in the scan grid
  Watched,      \* the LED whose red channel is followed
  Depths,       \* the readings of a key's depth
  Hues,         \* the hues a position, a phase and chance may give
  Values,       \* the brightness they may give
  Bright,       \* fx_bright
  FadeFrames,   \* G4B_FX_FADE_FRAMES
  Waves,        \* G4B_FX_WAVES
  NoSpark,      \* no LED
  MaxTouches,   \* how many keys and readings come
  MaxFrames     \* a bound on the frames that are followed

(* What the constants have to be. *)
EffectsAssumption ==
  /\ Watched \in Leds /\ NoSpark \notin Leds /\ Near \in [Leds -> SUBSET Leds]
  /\ Depths \subseteq 0..255 /\ Hues \subseteq 0..255 /\ Values \subseteq 0..255
  /\ Bright \in 0..255
  /\ {FadeFrames, Waves} \subseteq Nat \ {0} /\ {MaxTouches, MaxFrames} \subseteq Nat

Kinds == {"reactive", "sparkle", "shockwave", "ink", "analog", "heatmap",
          "plasma", "fire", "aurora", "ripple", "rain"}
Byte == 0..255

VARIABLES
  effect,       \* fx_current
  phase,        \* the fx_phase the next frame will have, modulo 128
  glow,         \* fx_excite, fx_heat: what an LED was left with
  waves,        \* the energies of fx_waves
  nextWave,     \* fx_wave_next
  live,         \* fx_live of the watched LED
  window,       \* fx_hm_lo, fx_hm_hi, fx_hm_seen of the watched LED
  level,        \* fx_level and fx_dec of the watched LED
  resid,        \* fx_resid of the channel
  due,          \* history: what the channel was asked for, in sixteenths
  sent,         \* history: the codes the channel was sent
  quiet,        \* history: the frames since the last key
  since,        \* history: the frames since the level was last raised
  torn,         \* history: an effect was selected within a frame
  touches,      \* how many keys and readings may still come
  frames        \* how many frames may still be rendered

keyVars == <<glow, waves, nextWave, quiet>>
depthVars == <<live, window, level, since>>
channelVars == <<resid, due, sent>>
bounds == <<touches, frames>>
vars == <<effect, phase, keyVars, depthVars, channelVars, torn, bounds>>

TypeOK ==
  /\ effect \in Kinds /\ phase \in 0..127
  /\ glow \in [Leds -> Byte] /\ waves \in [0..Waves - 1 -> Byte]
  /\ nextWave \in 0..Waves - 1
  /\ live \in Byte
  /\ window \in [lo : Byte, hi : Byte, seen : BOOLEAN]
  /\ level \in [now : 0..65280, dec : 0..65281]
  /\ resid \in 0..15
  /\ due \in Nat /\ sent \in Nat /\ quiet \in Nat /\ since \in Nat /\ torn \in BOOLEAN
  /\ touches \in 0..MaxTouches /\ frames \in 0..MaxFrames

(* What fx_reset_state leaves: the calibration starts outside the range of *)
(* a reading.                                                              *)
Dark == [l \in Leds |-> 0]
Calm == [w \in 0..Waves - 1 |-> 0]
Unread == [lo |-> 255, hi |-> 0, seen |-> FALSE]
Zero == [now |-> 0, dec |-> 0]

Init ==
  /\ effect \in Kinds /\ phase \in {0, 124}
  /\ glow = Dark /\ waves = Calm /\ nextWave = 0
  /\ live = 0 /\ window = Unread /\ level = Zero /\ resid = 0
  /\ due = 0 /\ sent = 0 /\ quiet = 0 /\ since = 0 /\ torn = FALSE
  /\ touches = MaxTouches /\ frames = MaxFrames
-----------------------------------------------------------------------------
(* fx_hue, its red: full at both ends of the circle.                       *)
Red(hue) ==
  LET seg == hue \div 43
      off == (hue - seg * 43) * 6
  IN CASE seg = 0 -> 255 [] seg = 1 -> 255 - off [] seg \in {2, 3} -> 0
       [] seg = 4 -> off [] OTHER -> 255

Clamp(c) == IF c > 255 THEN 255 ELSE c

(* Mutation of Decayed: the fall is rounded down.                          *)
DecayedShort(l, inst) ==
  IF inst * 256 >= l.now
  THEN [now |-> inst * 256, dec |-> (inst * 256) \div FadeFrames]
  ELSE LET dec == IF l.dec # 0 THEN l.dec ELSE 1
       IN [l EXCEPT !.now = IF l.now > dec THEN l.now - dec ELSE 0]

(* fx_decay: rise at once and size the fall, or fall by one step.          *)
Decayed(l, inst) ==
  IF inst * 256 >= l.now
  THEN [now |-> inst * 256, dec |-> (inst * 256) \div FadeFrames + 1]
  ELSE LET dec == IF l.dec # 0 THEN l.dec ELSE 1
       IN [l EXCEPT !.now = IF l.now > dec THEN l.now - dec ELSE 0]

(* fx_render_heatmap: the window of a key that was read follows its        *)
(* extremes, its floor rising and its ceiling falling slowly; the depth    *)
(* within the window gives the heat.                                       *)
Floor == IF live < window.lo THEN live
         ELSE IF phase % 4 = 0 /\ window.lo < live THEN window.lo + 1 ELSE window.lo
Ceiling == IF live > window.hi THEN live
           ELSE IF phase = 0 /\ window.hi > Floor THEN window.hi - 1 ELSE window.hi
Heat ==
  LET p == IF live > Floor + 6 THEN live - Floor - 6 ELSE 0
      span == IF Ceiling > Floor + 20 THEN Ceiling - Floor ELSE 255
  IN Clamp((p * 255) \div span)

(* The effects that follow the depth, and the level they come to.          *)
Follows == effect = "analog" \/ (effect = "heatmap" /\ window.seen)
Instant == IF effect = "analog" THEN live ELSE Heat
LevelAfter == Decayed(level, Instant)
Lit == LevelAfter.now \div 256
-----------------------------------------------------------------------------
Fall(e, step) == IF e > step THEN e - step ELSE 0
Larger(S) == CHOOSE x \in S : \A y \in S : y <= x

(* What the LEDs are left with: a flare falls by four, sparks by two, and  *)
(* a new one may come; ink falls by two, and a neighbour lends what it has *)
(* above ten (fx_ink_merge).                                               *)
GlowAfter(spark) ==
  CASE effect = "reactive" -> [l \in Leds |-> Fall(glow[l], 4)]
    [] effect = "sparkle" -> [l \in Leds |-> IF l = spark THEN 255 ELSE Fall(glow[l], 2)]
    [] effect = "ink" -> [l \in Leds |-> Larger({Fall(glow[l], 2)}
                                           \cup {Fall(glow[n], 10) : n \in Near[l]})]
    [] OTHER -> glow

(* What the renderers of the effects ask of the channel, in sixteenths: v  *)
(* is what chance, or the strongest of the rings that meet the LED, gives. *)
PlasmaRed(hue) == Red(hue) * 12
FireRed(v) == v * 16
AuroraRed(hue, v) == (Red(hue) * v) \div 24
RippleRed(hue, v) == (Red(hue) * v) \div 24
RainRed(hue, v) == (Red(hue) * v * 16) \div 255
ShockwaveRed(hue, v) == (Red(hue) * v * 16) \div 255
InkRed(hue) == (Red(hue) * glow[Watched] * 16) \div 255
SparkleRed(spark) == 40 + GlowAfter(spark)[Watched] * 14
ReactiveRed(hue) ==
  LET e == glow[Watched]
  IN ((e * 16 + Red(hue) * (16 - e \div 16)) * e) \div 255
AnalogRed == 24 + (Red(170 + (Lit * 85) \div 255) * Lit * 14) \div 255
HeatmapRed ==
  IF Follows /\ Lit # 0
  THEN (Red(85 - (Lit * 85) \div 255) * (64 + (Lit * 191) \div 255) * 16) \div 255
  ELSE 0

Asked(hue, v, spark) ==
  CASE effect = "plasma" -> PlasmaRed(hue)
    [] effect = "fire" -> FireRed(v)
    [] effect = "aurora" -> AuroraRed(hue, v)
    [] effect = "ripple" -> RippleRed(hue, v)
    [] effect = "rain" -> RainRed(hue, v)
    [] effect = "shockwave" -> ShockwaveRed(hue, v)
    [] effect = "ink" -> InkRed(hue)
    [] effect = "sparkle" -> SparkleRed(spark)
    [] effect = "reactive" -> ReactiveRed(hue)
    [] effect = "analog" -> AnalogRed
    [] effect = "heatmap" -> HeatmapRed

Strength == IF effect = "shockwave" THEN {0} \cup {waves[w] : w \in DOMAIN waves}
            ELSE Values
Sparks == IF effect = "sparkle" THEN Leds \cup {NoSpark} ELSE {NoSpark}

(* fx_set_dithered and fx_dither: the global brightness is applied first;  *)
(* the sixteenths that do not go out are kept for later.                   *)
Scaled(value) == (value * Bright) \div 255
Carries(v) == resid + (v % 16) >= 16
Codes(v) == Clamp((v \div 16) + (IF Carries(v) THEN 1 ELSE 0))
Kept(v) == resid + (v % 16) - (IF Carries(v) THEN 16 ELSE 0)

(* The histories follow a run of frames that ask for no more than all the  *)
(* channel can give: a flare may ask for 270 codes of a hue with red in it.*)
Most == 255 * 16
Counts(value) ==
  IF value > Most THEN due' = 0 /\ sent' = 0
  ELSE due' = due + value /\ sent' = sent + Codes(value)

(* g4b_fx_tick, when a frame is due.                                       *)
Frame ==
  /\ frames > 0 /\ frames' = frames - 1
  /\ phase' = (phase + 1) % 128
  /\ quiet' = quiet + 1
  /\ \E hue \in Hues, v \in Strength, spark \in Sparks :
       LET value == Scaled(Asked(hue, v, spark))
       IN /\ Counts(value)
          /\ resid' = Kept(value)
          /\ glow' = GlowAfter(spark)
  /\ waves' = IF effect = "shockwave" THEN [w \in DOMAIN waves |-> Fall(waves[w], 1)]
              ELSE waves
  /\ window' = IF effect = "heatmap" /\ window.seen
               THEN [window EXCEPT !.lo = Floor, !.hi = Ceiling] ELSE window
  /\ level' = IF Follows THEN LevelAfter ELSE level
  /\ since' = IF ~Follows THEN since
              ELSE IF Instant * 256 >= level.now THEN 0 ELSE since + 1
  /\ UNCHANGED <<effect, nextWave, live, torn, touches>>

(* g4b_fx_key: the effect decides what a key leaves.                       *)
Key(l) ==
  /\ touches > 0 /\ touches' = touches - 1
  /\ quiet' = 0
  /\ glow' = IF effect \in {"reactive", "ink"} THEN [glow EXCEPT ![l] = 255] ELSE glow
  /\ IF effect = "shockwave"
     THEN waves' = [waves EXCEPT ![nextWave] = 255] /\ nextWave' = (nextWave + 1) % Waves
     ELSE UNCHANGED <<waves, nextWave>>
  /\ UNCHANGED <<effect, phase, depthVars, channelVars, torn, frames>>

(* g4b_fx_depth, of the watched LED.                                       *)
Depth(d) ==
  /\ touches > 0 /\ touches' = touches - 1
  /\ live' = d /\ window' = [window EXCEPT !.seen = TRUE]
  /\ UNCHANGED <<effect, phase, keyVars, level, since, channelVars, torn, frames>>

(* g4b_fx_set and g4b_fx_cycle: nothing of the effect that is left stays.  *)
Selected(e) ==
  /\ touches > 0 /\ touches' = touches - 1
  /\ effect' = e
  /\ waves' = Calm /\ nextWave' = 0
  /\ due' = 0 /\ sent' = 0 /\ quiet' = 0 /\ since' = 0
  /\ UNCHANGED <<phase, frames>>

Select(e) ==
  /\ Selected(e)
  /\ glow' = Dark /\ live' = 0 /\ window' = Unread /\ level' = Zero /\ resid' = 0
  /\ UNCHANGED torn

(* The same, in the middle of a frame or of a reading: what the thread of  *)
(* the scanner had read before, it writes after the reset.                 *)
SelectWithin(e) ==
  /\ frames > 0
  /\ Selected(e)
  /\ \E S \in SUBSET Leds :
       /\ effect = "ink" \/ Cardinality(S) <= 1
       /\ glow' = IF effect \in {"reactive", "sparkle", "ink"}
                  THEN [l \in Leds |-> IF l \in S THEN GlowAfter(NoSpark)[l] ELSE 0]
                  ELSE Dark
  /\ \E hue \in Hues, v \in Strength :
       resid' \in {0, Kept(Scaled(Asked(hue, v, NoSpark)))}
  /\ level' \in {Zero} \cup IF Follows THEN {[LevelAfter EXCEPT !.dec = 0]} ELSE {}
  /\ window' \in {Unread, [Unread EXCEPT !.seen = TRUE]}
               \cup IF effect = "heatmap" /\ window.seen
                    THEN {[Unread EXCEPT !.lo = Floor, !.hi = Ceiling]} ELSE {}
  /\ live' = 0 /\ torn' = TRUE

Next ==
  \/ Frame
  \/ \E l \in Leds : Key(l)
  \/ \E d \in Depths : Depth(d)
  \/ \E e \in Kinds : Select(e) \/ SelectWithin(e)

Spec == Init /\ [][Next]_vars
-----------------------------------------------------------------------------
(* "Averaged over a handful of frames the channel sits between two codes": *)
(* over any run of frames of an effect that asks for no more than all the  *)
(* channel can give, it was sent what it was asked for to within one code, *)
(* also when a frame was cut by the switch of effects.                     *)
DitherIsExact == sent * 16 < due + 16 /\ due < sent * 16 + 16

(* A key's light goes out: the strongest spot a key leaves falls with      *)
(* every frame, also while it spreads to its neighbours and rings overlap, *)
(* so that 255 frames after the last key nothing of it is left.            *)
LightFades ==
  ~torn /\ effect # "sparkle"
    => /\ \A l \in Leds : glow[l] = 0 \/ glow[l] + 2 * quiet <= 255
       /\ \A w \in DOMAIN waves : waves[w] = 0 \/ waves[w] + quiet <= 255

(* "So the fade always lasts ~5 s regardless of the peak height": a level  *)
(* that was not raised for FADE_FRAMES frames is black.  (A level written  *)
(* back over the reset has lost its decrement, and takes much longer.)     *)
FadeEnds == ~torn /\ since >= FadeFrames => level.now = 0

(* The window of a key is never inside out once a frame has used it, so    *)
(* that heat is measured within it; whatever the floor and the ceiling     *)
(* leak between the readings, and also when a reading cut the reset.       *)
WindowHolds == window.lo <= window.hi \/ window.hi = 0
=============================================================================
