------------------------------ MODULE KeyDepth ------------------------------
(***************************************************************************)
(* The depth of a key of the game controller                               *)
(* (apex-zmk-g4b/src/link_g4b.c): the raw readings of the scanner, which   *)
(* the LEDs and the axis take turns to ask for and which go through one    *)
(* filter; the range that is learned from them, and trusted once it is     *)
(* wide enough; the position of the axis within it; and the range kept in  *)
(* the settings for the next start.                                        *)
(*                                                                         *)
(* The thread of the scanner samples; ZMK's work queue saves, and reads    *)
(* the two ends of the range one after the other.                          *)
(***************************************************************************)
EXTENDS Integers

CONSTANTS
  Raws,         \* what the scanner answers with
  ValidLo,      \* G4B_A2_VALID_LO
  ValidHi,      \* G4B_A2_VALID_HI
  MinSpan,      \* G4B_GP_MIN_SPAN
  MaxSamples,   \* a bound on the readings
  MaxRestarts   \* how often the keyboard restarts

(* What the constants have to be. *)
KeyDepthAssumption ==
  /\ {ValidLo, ValidHi, MinSpan, MaxSamples, MaxRestarts} \subseteq Nat
  /\ 0 < ValidLo /\ ValidLo < ValidHi /\ 1 < MinSpan /\ Raws \subseteq Nat

VARIABLES
  ema,          \* g4b_depth_ema of the key, 0 when unseen
  range,        \* s3_a2_min, _max, _max_cand and _max_pend
  locked,       \* s3_gp_locked
  axis,         \* the filtered reading and the position last published
  light,        \* the depth the LEDs were last told
  dirty,        \* the save is scheduled
  snapshot,     \* what the save has read of the range
  saved,        \* the range in the settings, 0 and 0 when there is none
  seen,         \* history: the lowest and the highest reading there ever was
  before,       \* history: the axis, and the range it was in, one sample ago
  lowered,      \* history: the range came to be trusted by its lower end
  budget        \* the readings and restarts that may still come

axisVars == <<locked, axis, before>>
saveVars == <<dirty, snapshot, saved>>
vars == <<ema, range, axisVars, light, saveVars, seen, lowered, budget>>

Full == 1024
Unseen == [lo |-> 0, hi |-> 0, cand |-> 0, pend |-> FALSE]
NoRange == [lo |-> 0, hi |-> 0]
Nowhere == [v |-> 0, pos |-> 0]

Valid(v) == ValidLo <= v /\ v <= ValidHi
Trusted(r) == r.lo # 0 /\ r.hi >= r.lo + MinSpan

TypeOK ==
  /\ ema \in 0..ValidHi /\ locked \in BOOLEAN /\ light \in 0..255
  /\ range \in [lo : 0..ValidHi, hi : 0..ValidHi, cand : 0..ValidHi, pend : BOOLEAN]
  /\ axis \in [v : 0..ValidHi, pos : 0..Full] /\ before.axis \in [v : 0..ValidHi, pos : 0..Full]
  /\ dirty \in BOOLEAN /\ saved \in [lo : 0..ValidHi, hi : 0..ValidHi]
  /\ snapshot \in [reading : BOOLEAN, lo : 0..ValidHi]
  /\ seen \in [low : 0..ValidHi + 1, high : 0..ValidHi] /\ lowered \in BOOLEAN
  /\ budget \in [samples : 0..MaxSamples, restarts : 0..MaxRestarts]

Idle == [reading |-> FALSE, lo |-> 0]

Init ==
  /\ ema = 0 /\ range = Unseen /\ locked = FALSE /\ axis = Nowhere /\ light = 0
  /\ dirty = FALSE /\ snapshot = Idle /\ saved = NoRange
  /\ seen = [low |-> ValidHi + 1, high |-> 0]
  /\ before = [axis |-> Nowhere, range |-> Unseen] /\ lowered = FALSE
  /\ budget = [samples |-> MaxSamples, restarts |-> MaxRestarts]
-----------------------------------------------------------------------------
(* g4b_depth_ingest: a quarter of the way to the reading, with the         *)
(* quotient of C, which is towards zero.                                   *)
Quarter(d) == IF d >= 0 THEN d \div 4 ELSE -((-d) \div 4)
Filtered(v) == IF ema = 0 THEN v ELSE ema + Quarter(v - ema)

Noted(v) == [low |-> IF v < seen.low THEN v ELSE seen.low,
             high |-> IF v > seen.high THEN v ELSE seen.high]

(* s3_analog_sample: the lower end follows at once, the upper end after    *)
(* two readings above it.                                                  *)
Grows(f) == f > range.hi /\ range.pend /\ f >= range.cand
Learned(f) ==
  [lo |-> IF range.lo = 0 \/ f < range.lo THEN f ELSE range.lo,
   hi |-> IF Grows(f) THEN f ELSE range.hi,
   cand |-> IF f > range.hi /\ ~Grows(f) THEN f ELSE range.cand,
   pend |-> f > range.hi /\ ~Grows(f)]

(* The range is saved when its upper end grows and it is wide enough.      *)
Persists(f) == Grows(f) /\ Learned(f).hi >= Learned(f).lo + MinSpan

(* s3_gp_unit: nothing in the first twentieth of the range, all of it from *)
(* 88 % on, and no less until the key is lifted by 3 % from there.         *)
Low(r) == r.lo + ((r.hi - r.lo) * 5) \div 100
High(r) == r.lo + ((r.hi - r.lo) * 88) \div 100
Unlock(r) == High(r) - ((r.hi - r.lo) * 3) \div 100
Locks(r, f) == f > Low(r) /\ (f >= High(r) \/ (locked /\ f >= Unlock(r)))
Unit(r, f) ==
  IF f <= Low(r) THEN 0
  ELSE IF Locks(r, f) THEN Full ELSE ((f - Low(r)) * Full) \div (High(r) - Low(r))

(* s3_gp_unit_or_digital: a key whose range is not trusted is off or on.   *)
Position(r, f, pressed) == IF Trusted(r) THEN Unit(r, f) ELSE IF pressed THEN Full ELSE 0

Counted(what) == budget[what] > 0 /\ budget' = [budget EXCEPT ![what] = @ - 1]

(* s3_analog_sample and s3_gamepad_update, for a reading the scanner made; *)
(* the key map says whether the key is pressed.                            *)
Sample(v, pressed) ==
  /\ Counted("samples")
  /\ before' = [axis |-> axis, range |-> range]
  /\ IF Valid(v)
     THEN LET f == Filtered(v)
              r == Learned(f)
          IN /\ ema' = f /\ range' = r /\ seen' = Noted(v)
             /\ dirty' = (dirty \/ Persists(f))
             /\ lowered' = (lowered \/ (Trusted(r) /\ ~Trusted(range) /\ ~Grows(f)))
             /\ axis' = [v |-> f, pos |-> Position(r, f, pressed)]
             /\ locked' = IF Trusted(r) THEN Locks(r, f) ELSE locked
     ELSE /\ axis' = [axis EXCEPT !.pos = Position(range, axis.v, pressed)]
          /\ locked' = IF Trusted(range) THEN Locks(range, axis.v) ELSE locked
          /\ UNCHANGED <<ema, range, seen, dirty, lowered>>
  /\ UNCHANGED <<light, snapshot, saved>>

(* s3_analog_light: the same filter, on the way to g4b_fx_depth.           *)
Light(v) ==
  /\ Counted("samples")
  /\ Valid(v)
  /\ ema' = Filtered(v) /\ seen' = Noted(v)
  /\ light' = ((ema' - ValidLo) * 255) \div (ValidHi - ValidLo)
  /\ UNCHANGED <<range, axisVars, saveVars, lowered>>

(* g4b_settings_save_work, 30 s after the last change: g4b_gp_cal_snapshot *)
(* reads the lower end and then the upper.  Another change may schedule it *)
(* again meanwhile.                                                        *)
SaveReads ==
  /\ dirty /\ ~snapshot.reading
  /\ dirty' = FALSE /\ snapshot' = [reading |-> TRUE, lo |-> range.lo]
  /\ UNCHANGED <<ema, range, axisVars, light, saved, seen, lowered, budget>>

SaveWrites ==
  /\ snapshot.reading
  /\ saved' = [lo |-> snapshot.lo, hi |-> range.hi] /\ snapshot' = Idle
  /\ UNCHANGED <<ema, range, axisVars, light, dirty, seen, lowered, budget>>

(* Mutation of Restored: the range that is just wide enough is dropped.    *)
RestoredWider(r) ==
  IF Valid(r.lo) /\ Valid(r.hi) /\ r.hi > r.lo + MinSpan
  THEN [Unseen EXCEPT !.lo = r.lo, !.hi = r.hi] ELSE Unseen

(* g4b_gp_cal_restore: a range that is not one is learned anew.            *)
Restored(r) ==
  IF Valid(r.lo) /\ Valid(r.hi) /\ r.hi >= r.lo + MinSpan
  THEN [Unseen EXCEPT !.lo = r.lo, !.hi = r.hi] ELSE Unseen

Restart ==
  /\ Counted("restarts")
  /\ ema' = 0 /\ range' = Restored(saved) /\ locked' = FALSE /\ axis' = Nowhere
  /\ light' = 0 /\ dirty' = FALSE /\ snapshot' = Idle
  /\ before' = [axis |-> Nowhere, range |-> Unseen]
  /\ lowered' = FALSE
  /\ UNCHANGED <<saved, seen>>

Next ==
  \/ \E v \in Raws, p \in BOOLEAN : Sample(v, p)
  \/ \E v \in Raws : Light(v)
  \/ SaveReads \/ SaveWrites \/ Restart

Spec == Init /\ [][Next]_vars
-----------------------------------------------------------------------------
(* Nothing is learned that was not measured: the filter, the range and     *)
(* what was saved of it stay between the lowest and the highest reading,   *)
(* whatever was rounded, torn or restored.                                 *)
RangeIsMeasured ==
  /\ \A r \in {range, saved} : /\ r.lo # 0 => r.lo >= seen.low
                               /\ r.hi <= seen.high
  /\ ema # 0 => seen.low <= ema /\ ema <= seen.high

(* "The full travel is restored on the next boot": a range that is saved   *)
(* and wide enough makes the key analog after any start, and the range in  *)
(* use is never narrower than the saved one.                               *)
TrustIsKept ==
  Trusted(saved) => /\ Trusted(range)
                    /\ range.lo <= saved.lo /\ saved.hi <= range.hi

(* "Once the learned range crosses the trust threshold, persist it": when  *)
(* no save is due a trusted range is saved, also when the two ends were    *)
(* read on either side of a sample; unless the threshold was crossed by    *)
(* the lower end, which schedules no save.                                 *)
TrustIsSaved ==
  Trusted(range) /\ ~dirty /\ ~snapshot.reading => Trusted(saved) \/ lowered

(* The axis does not jitter: within one range, a key that went deeper has  *)
(* an axis that went no further back, and one that is at the stop stays    *)
(* there until it is lifted by 3 % of the range.                           *)
AxisIsSteady ==
  Trusted(range) /\ before.range.lo = range.lo /\ before.range.hi = range.hi
  /\ before.axis.v # 0
    => /\ axis.v >= before.axis.v => axis.pos >= before.axis.pos
       /\ axis.v <= before.axis.v => axis.pos <= before.axis.pos
       /\ before.axis.pos = Full /\ axis.v >= Unlock(range) => axis.pos = Full
=============================================================================
