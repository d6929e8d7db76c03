------------------------------ MODULE MCParts -------------------------------
(***************************************************************************)
(* Eight parts that share no state the models keep, for TLC: the channel   *)
(* hopping of the link, pairing, and of the keyboard the LEDs, what is     *)
(* painted over their effects, the effects, the flash, the charger and the *)
(* depth of a key.  A behaviour is one of one part, chosen at the start;   *)
(* the others rest in an initial state.                                    *)
(***************************************************************************)
EXTENDS HopLink

CONSTANTS
  Pixels, Black, Gains, DefaultGain, Unset, FullFade, FadeInTicks, FadeOutTicks,
  MaxRequests,
  Keys, FlashSlots, FlashTicks, UpdateTicks, NoKey,
  Leds, Watched, Depths, Hues, Values, Bright, FadeFrames, Waves, NoSpark,
  MaxTouches, MaxFrames,
  Sectors, RingSlots, SeqMod, MaxCrashes, FlashTrouble,
  Default, Cap, Limits, NoOverride, ChargerTrouble, MaxCommands,
  Raws, ValidLo, ValidHi, MinSpan, MaxSamples, MaxRestarts,
  Parts, Deadline, MaxRuns, PairingTrouble

VARIABLES
  part,
  at, owned, writing, staged, pending, blanked, fade, gain, rail, bus, chip,
  wantOn, requests, asked, steady,
  flashes, update, fn, prev, marked, turn, painted, toggled, crossed,
  effect, phase, glow, waves, nextWave, live, window, level, resid, due, sent,
  calm, since, torn, touches, frames,
  cells, busy, step, ops, waiting, cursor, last, crashes, newest, saved, early,
  unread, broken, trouble,
  limits, charging, watchdog, conf, shell, tick, reading, override, stored,
  written, configured, settled, mixed, chances,
  ema, range, locked, axis, light, dirty, snapshot, record, seen, before, lowered,
  readings,
  tool, wire, rx, answer, store, radio, runs, reported, kept, restarted, mishaps

\* Two schedules that differ in every slot; the LEDs are in a row.
TwoSchedules == {[offset |-> 0, stride |-> 1], [offset |-> 2, stride |-> 3]}
Near == [l \in Leds |-> Leds \cap {l - 1, l + 1}]

L == INSTANCE Lighting WITH effect <- owned
O == INSTANCE Overlay WITH Slots <- FlashSlots, pending <- marked, at <- turn
E == INSTANCE Effects WITH quiet <- calm
N == INSTANCE NorFlash WITH Slots <- RingSlots, MaxTrouble <- FlashTrouble
C == INSTANCE Charger WITH MaxTrouble <- ChargerTrouble, saved <- stored,
                           crossed <- mixed, budget <- chances
D == INSTANCE KeyDepth WITH saved <- record, budget <- readings
P == INSTANCE Pairing WITH MaxTrouble <- PairingTrouble, trouble <- mishaps

hopVars == vars
lightVars == <<at, owned, writing, staged, pending, blanked, fade, gain, rail, bus,
               chip, wantOn, requests, asked, steady>>
overlayVars == <<flashes, update, fn, prev, marked, turn, painted, toggled, crossed>>
effectVars == <<effect, phase, glow, waves, nextWave, live, window, level, resid, due,
                sent, calm, since, torn, touches, frames>>
flashVars == <<cells, busy, step, ops, waiting, cursor, last, crashes, newest, saved,
               early, unread, broken, trouble>>
chargerVars == <<limits, charging, watchdog, conf, shell, tick, reading, override,
                 stored, written, configured, settled, mixed, chances>>
depthVars == <<ema, range, locked, axis, light, dirty, snapshot, record, seen, before,
               lowered, readings>>
pairVars == <<tool, wire, rx, answer, store, radio, runs, reported, kept, restarted,
              mishaps>>
partsVars == <<part, hopVars, lightVars, overlayVars, effectVars, flashVars, chargerVars,
               depthVars, pairVars>>

ASSUME PartsAssumption ==
  /\ L!LightingAssumption /\ O!OverlayAssumption /\ E!EffectsAssumption
  /\ N!NorFlashAssumption /\ C!ChargerAssumption /\ D!KeyDepthAssumption
  /\ P!PairingAssumption

\* The state a part rests in.
Resting ==
  /\ part # "lighting" => ~owned /\ wantOn
  /\ part # "effects" => effect = "plasma" /\ phase = 0
  /\ part # "flash" => cells[N!Mark] = N!Blank
  /\ part # "pairing" => store["receiver"] = P!None

PartsInit ==
  /\ part \in {"hopping", "lighting", "overlay", "effects", "flash", "charger",
               "depth", "pairing"}
  /\ Init /\ L!Init /\ O!Init /\ E!Init /\ N!Init /\ C!Init /\ D!Init /\ P!Init
  /\ Resting

PartsNext ==
  \/ /\ part = "hopping" /\ Next
     /\ UNCHANGED <<part, lightVars, overlayVars, effectVars, flashVars,
                   chargerVars, depthVars, pairVars>>
  \/ /\ part = "lighting" /\ L!Next
     /\ UNCHANGED <<part, hopVars, overlayVars, effectVars, flashVars,
                   chargerVars, depthVars, pairVars>>
  \/ /\ part = "overlay" /\ O!Next
     /\ UNCHANGED <<part, hopVars, lightVars, effectVars, flashVars,
                   chargerVars, depthVars, pairVars>>
  \/ /\ part = "effects" /\ E!Next
     /\ UNCHANGED <<part, hopVars, lightVars, overlayVars, flashVars,
                   chargerVars, depthVars, pairVars>>
  \/ /\ part = "flash" /\ N!Next
     /\ UNCHANGED <<part, hopVars, lightVars, overlayVars, effectVars,
                   chargerVars, depthVars, pairVars>>
  \/ /\ part = "charger" /\ C!Next
     /\ UNCHANGED <<part, hopVars, lightVars, overlayVars, effectVars,
                   flashVars, depthVars, pairVars>>
  \/ /\ part = "depth" /\ D!Next
     /\ UNCHANGED <<part, hopVars, lightVars, overlayVars, effectVars,
                   flashVars, chargerVars, pairVars>>
  \/ /\ part = "pairing" /\ P!Next
     /\ UNCHANGED <<part, hopVars, lightVars, overlayVars, effectVars,
                   flashVars, chargerVars, depthVars>>

PartsSpec == PartsInit /\ [][PartsNext]_partsVars
-----------------------------------------------------------------------------
(* The properties are those of the modules, which say what each means;     *)
(* those of HopLink, SameChannel and ReconnectsInTime, need no other name. *)

(* The LEDs show what was staged last, with the settings asked for last.   *)
ArrayIsCurrent == L!ShownIsStaged /\ L!ChipFollowsSettings

(* The LEDs are lit, or blanked, in time after what is wanted changed.     *)
LightFollowsWant == L!LightFollowsWant

(* The keys toggled last flash, and nothing stays painted that is over.    *)
OverlayIsCurrent == O!NewestFlash /\ O!OverlayCleared

(* What a key leaves in the LEDs is gone in the time the code promises,    *)
(* and the channels get what they are asked for.                           *)
EffectsFade == E!LightFades /\ E!FadeEnds /\ E!WindowHolds /\ E!DitherIsExact

(* The flash keeps the crash that was written last, and the settings.      *)
FlashIsKept == N!CrashIsNewest /\ N!SettingsKept

(* The charger keeps its limits, and the cell its band.                    *)
ChargeIsBounded == C!LimitHolds /\ C!BandHolds

(* The range of a key is what was measured and is kept, its axis steady.   *)
DepthIsKept == D!RangeIsMeasured /\ D!TrustIsKept /\ D!TrustIsSaved /\ D!AxisIsSteady

(* A pair that was reported is one, and nothing else loses a pair.         *)
PairIsKept == P!PairedIsPaired /\ P!OnlyLateIsLate /\ P!StoreIsKept
=============================================================================
