---------------------------- MODULE PartsProofs -----------------------------
(***************************************************************************)
(* What holds of the parts of MCParts, for all values of their constants:  *)
(* the lighting (L), what is painted over its effects (O), the effects (E),*)
(* the flash (N), the charger (C), the depth of a key (D), pairing (P) and *)
(* the channel hopping of the link.  The parts share no state, so that     *)
(* each has an invariant of its own, which every step of the part keeps    *)
(* and a step of another part leaves alone; at the end the theorems put    *)
(* them together.  What restarts the keyboard (U), which is in no run, has *)
(* a section of its own before that.                                       *)
(***************************************************************************)
EXTENDS MCParts, Sequences, FiniteSetTheorems, WellFoundedInduction,
        SequenceTheorems, TLAPS
-----------------------------------------------------------------------------
(* Quotients, of which SMT knows little.                                    *)

(* Dividing keeps the order, and a part of a whole is at most the whole.    *)
LEMMA Division ==
  ASSUME NEW a \in Nat, NEW c \in Nat, NEW d \in Nat \ {0}, a <= c
  PROVE  a \div d <= c \div d /\ a \div d \in Nat
<1> DEFINE p == a \div d
           q == c \div d
<1>1. p \in Nat /\ q \in Nat /\ p * d <= a /\ c < (q + 1) * d
  OBVIOUS
<1> HIDE DEF p, q
<1>2. ASSUME p >= q + 1 PROVE FALSE
  <2>1. p * d >= (q + 1) * d
    BY <1>1, <1>2
  <2> QED BY <1>1, <2>1
<1>3. p <= q
  BY <1>1, <1>2
<1> QED BY <1>1, <1>3 DEF p, q

(* A part of something is less than the whole of it, in any unit.           *)
LEMMA Fraction ==
  ASSUME NEW a \in Nat, NEW d \in Nat, a < d, NEW m \in Nat \ {0}
  PROVE  (a * m) \div d \in 0..(m - 1)
<1> DEFINE q == (a * m) \div d
           n == a * m
<1>1. n \in Nat /\ n < d * m /\ d \in Nat \ {0}
  OBVIOUS
<1> HIDE DEF n
<1>2. n \div d \in Nat /\ (n \div d) * d <= n
  BY <1>1
<1>3. q \in Nat /\ q * d < d * m
  BY <1>1, <1>2 DEF n
<1> HIDE DEF q
<1>4. ASSUME q >= m PROVE FALSE
  <2>1. q * d >= m * d /\ m * d = d * m
    BY <1>1, <1>3, <1>4
  <2> QED BY <1>1, <1>3, <2>1
<1>5. q \in 0..(m - 1)
  BY <1>3, <1>4
<1> QED BY <1>5 DEF q

(* Dividing undoes a multiplication.                                        *)
LEMMA Multiple ==
  ASSUME NEW x \in Nat, NEW d \in Nat \ {0}
  PROVE  (x * d) \div d = x
<1> DEFINE n == x * d
           q == n \div d
<1>1. n \in Nat /\ n = x * d
  OBVIOUS
<1> HIDE DEF n
<1>2. q \in Nat /\ q * d <= n /\ n < (q + 1) * d
  BY <1>1
<1> HIDE DEF q
<1>3. ~(q >= x + 1)
  <2> SUFFICES ASSUME q >= x + 1 PROVE FALSE
    OBVIOUS
  <2>1. q * d >= (x + 1) * d /\ (x + 1) * d = x * d + d
    BY <1>2
  <2> QED BY <1>1, <1>2, <2>1
<1>4. ~(x >= q + 1)
  <2> SUFFICES ASSUME x >= q + 1 PROVE FALSE
    OBVIOUS
  <2>1. x * d >= (q + 1) * d
    BY <1>2
  <2> QED BY <1>1, <1>2, <2>1
<1>5. q = x
  BY <1>2, <1>3, <1>4
<1> QED BY <1>5 DEF q, n

(* A set of numbers has a least, and one below a bound a largest.           *)
LEMMA LeastIs ==
  ASSUME NEW T, T \subseteq Nat, T # {} PROVE \E x \in T : \A y \in T : x <= y
<1> DEFINE R == {s \in Nat \X Nat : s[1] < s[2]}
<1>1. IsWellFoundedOn(R, Nat)
  BY NatLessThanWellFounded, Zenon DEF OpToRel
<1> HIDE DEF R
<1>2. PICK x \in T : \A y \in T : ~ (<<y, x>> \in R)
  BY <1>1, WFMin, Zenon
<1>3. ASSUME NEW y \in T PROVE x <= y
  <2>1. x \in Nat /\ y \in Nat /\ ~ (<<y, x>> \in R)
    BY <1>2
  <2> QED BY <2>1 DEF R
<1> QED BY <1>3

LEMMA LargestIs ==
  ASSUME NEW n \in Nat, NEW T, T \subseteq 0..n, T # {}
  PROVE  \E x \in T : \A y \in T : y <= x
<1> DEFINE U == {i \in 0..n : n - i \in T}
<1>1. U \subseteq Nat /\ U # {}
  <2>1. PICK t \in T : TRUE
    OBVIOUS
  <2>2. n - t \in U
    BY <2>1
  <2> QED BY <2>2
<1>2. PICK u \in U : \A v \in U : u <= v
  BY <1>1, LeastIs
<1>3. ASSUME NEW y \in T PROVE y <= n - u
  <2>1. y \in 0..n /\ n - y \in U
    BY <1>3
  <2> QED BY <1>2, <2>1
<1> QED BY <1>2, <1>3

(* Products and quotients.                                                  *)
LEMMA Product == ASSUME NEW a \in Nat, NEW c \in Nat PROVE a * c \in Nat
  OBVIOUS

LEMMA Quotient == ASSUME NEW a \in Nat, NEW d \in Nat \ {0} PROVE a \div d \in Nat
  OBVIOUS

LEMMA QuotientAbove ==
  ASSUME NEW a \in Nat, NEW d \in Nat \ {0} PROVE a < d * (a \div d + 1)
<1>1. a = d * (a \div d) + (a % d) /\ a % d < d /\ a \div d \in Nat
  OBVIOUS
<1> DEFINE w == a \div d
<1>2. d * (w + 1) = d * w + d
  BY <1>1
<1> QED BY <1>1, <1>2

LEMMA NextStep == ASSUME NEW s \in Nat, NEW c \in Nat PROVE (s + 1) * c = s * c + c
  OBVIOUS

LEMMA FallIsShort ==
  ASSUME NEW c \in Nat, NEW s \in Nat, NEW f \in Nat, s >= f PROVE f * c <= s * c
<1>1. s = f + (s - f) /\ s - f \in Nat
  OBVIOUS
<1>2. (s - f) * c \in Nat
  BY <1>1, Product
<1>3. (f + (s - f)) * c = f * c + (s - f) * c
  BY <1>1
<1>4. f * c \in Nat /\ s * c \in Nat
  BY Product
<1> QED BY <1>1, <1>2, <1>3, <1>4

(***************************************************************************)
(* The lighting.  The fade is, at every turn, where its ramp puts it:      *)
(* between its ends, and at its end when its time is over; from this       *)
(* follow both the times of LightFollowsWant and that a blanked array is   *)
(* one that faded out. What is shown is what was staged unless a transfer  *)
(* is owed; a half that was sent is the one that is staged, unless it will *)
(* be sent again.                                                          *)
(***************************************************************************)
(* What the constants of the lighting are.                                  *)
LEMMA LightSizes ==
  /\ FullFade \in Nat \ {0} /\ FadeInTicks \in Nat \ {0} /\ FadeOutTicks \in Nat \ {0}
  /\ Black \in Pixels /\ DefaultGain \in Gains /\ Unset \notin Gains
  BY PartsAssumption DEF L!LightingAssumption

(* A ramp stays between its ends, and is over in its time.                  *)
LEMMA RampIs ==
  ASSUME NEW from \in 0..FullFade, NEW target \in {0, FullFade}, NEW turns \in Nat
  PROVE  /\ L!Ramp(from, target, turns) \in 0..FullFade
         /\ target = FullFade /\ turns >= FadeInTicks => L!Ramp(from, target, turns) = FullFade
         /\ target = 0 /\ turns >= FadeOutTicks => L!Ramp(from, target, turns) = 0
<1> DEFINE dur == IF target > from THEN FadeInTicks ELSE FadeOutTicks
           prog == IF turns >= dur THEN FullFade ELSE (turns * FullFade) \div dur
           x == IF target >= from THEN target - from ELSE from - target
           y == (x * prog) \div FullFade
<1>1. dur \in Nat \ {0}
  BY LightSizes
<1>2. prog \in 0..FullFade
  <2> HIDE DEF dur
  <2>1. CASE turns >= dur
    BY <2>1, LightSizes
  <2>2. CASE ~(turns >= dur)
    <3>1. (turns * FullFade) \div dur \in 0..(FullFade - 1)
      BY <1>1, <2>2, Fraction, LightSizes
    <3> QED BY <2>2, <3>1, LightSizes
  <2> QED BY <2>1, <2>2
<1>3. x \in 0..FullFade
  BY LightSizes
<1>4. y \in 0..x /\ (prog = FullFade => y = x)
  <2> HIDE DEF x, prog
  <2>1. x * prog \in Nat /\ x * FullFade \in Nat /\ x * prog <= x * FullFade
    BY <1>2, <1>3, LightSizes
  <2>2. (x * FullFade) \div FullFade = x
    BY <1>3, Multiple, LightSizes
  <2>3. /\ (x * prog) \div FullFade <= (x * FullFade) \div FullFade
          /\ (x * prog) \div FullFade \in Nat
    BY <2>1, Division, LightSizes
  <2> QED BY <1>3, <2>2, <2>3
<1>5. L!Ramp(from, target, turns) = IF target >= from THEN from + y ELSE from - y
  BY DEF L!Ramp
<1>6. turns >= dur => prog = FullFade
  OBVIOUS
<1> HIDE DEF prog, y
<1>7. L!Ramp(from, target, turns) \in 0..FullFade
  BY <1>3, <1>4, <1>5, LightSizes
<1>8. prog = FullFade => L!Ramp(from, target, turns) = target
  BY <1>4, <1>5, LightSizes
<1>9. CASE target > from
  BY <1>6, <1>7, <1>8, <1>9, LightSizes
<1>10. CASE target = from
  BY <1>4, <1>5, <1>10, LightSizes
<1>11. CASE target < from
  BY <1>6, <1>7, <1>8, <1>11, LightSizes
<1> QED BY <1>9, <1>10, <1>11, LightSizes

Halves == {<<p>> : p \in Pixels}
Writings == {L!Idle} \cup L!Frame \cup Halves

\* The range of a ramp, and where it is after `since` turns.
Fades == [now : 0..FullFade, target : {0, FullFade}, from : 0..FullFade, since : Nat]

LightTypes ==
  /\ at \in {"idle", "effect", "overlay", "flush", "show", "rest", "service"}
  /\ staged \in L!Frame /\ writing \in Writings /\ pending \in BOOLEAN
  /\ blanked \in BOOLEAN /\ rail \in BOOLEAN /\ bus \in BOOLEAN /\ wantOn \in BOOLEAN
  /\ fade \in Fades /\ gain \in Gains /\ steady \in Nat
  /\ chip \in [gain : Gains \cup {Unset}, frame : L!Frame, fade : 0..FullFade]
  /\ requests \in [reset : BOOLEAN, rail : {"none", "up", "down"},
                   gain : Gains \cup {Unset}]

\* The bus is parked while the LEDs are blanked, and nothing is sent then.
Powered ==
  /\ bus <=> ~blanked
  /\ at \in {"show", "rest"} => ~blanked

\* Between the halves of a transfer the first is what was staged, unless it
\* will be sent again.
HalfShown ==
  at = "rest" /\ ~pending /\ writing = L!Idle /\ rail
    => chip.frame[1] = staged[1] /\ chip.fade = fade.now

\* The fade is on its way to where it should be since the want changed.
Fading ==
  /\ blanked => fade.now = 0 /\ fade.target = 0
  /\ steady > 0 => fade.target = IF wantOn THEN FullFade ELSE 0
  /\ steady > 0 /\ wantOn => ~blanked
  /\ steady > 0 /\ ~wantOn /\ fade.now = 0 => blanked
  /\ fade.now # fade.target =>
       /\ fade.since > 0 /\ fade.since >= steady
       /\ fade.now = L!Ramp(fade.from, fade.target, fade.since - 1)

LightInv ==
  LightTypes /\ Powered /\ HalfShown /\ Fading /\ L!ShownIsStaged /\ L!ChipFollowsSettings

(* Frames are pairs, and what a writer holds is not mistaken for one.       *)
LEMMA FramesAre ==
  /\ L!Cleared \in L!Frame
  /\ \A p \in Pixels, q \in Pixels : <<p, q>> \in L!Frame
  /\ \A f \in L!Frame : f[1] \in Pixels /\ f[2] \in Pixels /\ f = <<f[1], f[2]>>
  /\ L!Idle \in Writings /\ L!Idle \notin L!Frame /\ L!Idle \notin Halves
  /\ \A f \in L!Frame : /\ f \in Writings /\ f \notin Halves
                        /\ <<f[2]>> \in Writings /\ <<f[2]>> # L!Idle
  BY LightSizes DEF L!Cleared, L!Frame, L!Idle, Halves, Writings

(* Init: nothing is staged, shown or asked for.                             *)
LEMMA LightInit == ASSUME L!Init PROVE LightInv
<1>1. LightTypes
  <2>1. fade \in Fades /\ steady \in Nat
    BY LightSizes DEF L!Init, Fades
  <2>2. chip \in [gain : Gains \cup {Unset}, frame : L!Frame, fade : 0..FullFade]
    BY LightSizes, FramesAre DEF L!Init
  <2>3. requests \in [reset : BOOLEAN, rail : {"none", "up", "down"}, gain : Gains \cup {Unset}]
    BY DEF L!Init, L!None
  <2> QED BY LightSizes, FramesAre, <2>1, <2>2, <2>3 DEF L!Init, LightTypes
<1> QED BY <1>1 DEF L!Init, LightInv, Powered, HalfShown, L!ShownIsStaged,
           L!ChipFollowsSettings, Fading

(* The step of the fade.                                                    *)
LEMMA IdleFades ==
  ASSUME LightInv, L!IdleTick, steady' = IF steady < L!Longest THEN steady + 1 ELSE steady,
         UNCHANGED wantOn
  PROVE  fade' \in Fades /\ Fading'
<1> DEFINE target == IF wantOn THEN FullFade ELSE 0
           waking == wantOn /\ blanked
           turned == target # fade.target
           from == IF waking THEN 0 ELSE IF turned THEN fade.now ELSE fade.from
           amount == IF waking THEN 0 ELSE fade.now
           turns == IF waking \/ turned THEN 0 ELSE fade.since
           there == amount = target
           next == IF there THEN amount ELSE L!Ramp(from, target, turns)
<1>1. /\ fade' = [now |-> next, target |-> target, from |-> from,
                  since |-> IF there THEN 0 ELSE turns + 1]
      /\ \/ /\ waking /\ blanked' = FALSE
         \/ /\ ~waking /\ next = 0 /\ target = 0 /\ ~blanked /\ blanked' = TRUE
         \/ /\ ~waking /\ ~(next = 0 /\ target = 0 /\ ~blanked)
            /\ blanked' = blanked
  BY DEF L!IdleTick, L!Unblank, L!Blank
<1>2. /\ fade \in Fades /\ fade.now \in 0..FullFade /\ fade.from \in 0..FullFade
      /\ fade.since \in Nat /\ fade.target \in {0, FullFade} /\ steady \in Nat
      /\ blanked \in BOOLEAN /\ wantOn \in BOOLEAN
  BY DEF LightInv, LightTypes, Fades
<1>3. /\ target \in {0, FullFade} /\ from \in 0..FullFade
      /\ amount \in 0..FullFade /\ turns \in Nat
  BY <1>2, LightSizes
<1>4. /\ waking \/ turned => steady = 0
      /\ ~waking /\ ~turned /\ ~there => turns >= steady
  BY <1>2 DEF LightInv, Fading
<1>5. waking => ~there /\ target = FullFade
  BY LightSizes
<1>6. blanked => fade.now = 0 /\ fade.target = 0
  BY DEF LightInv, Fading
<1>7. ~waking => amount = fade.now
  OBVIOUS
<1>8. target = IF wantOn THEN FullFade ELSE 0
  OBVIOUS
<1>9. waking <=> wantOn /\ blanked
  OBVIOUS
<1>10. next = IF there THEN amount ELSE L!Ramp(from, target, turns)
  OBVIOUS
<1> HIDE DEF target, from, amount, turns, next, waking
<1>11. next \in 0..FullFade
  BY <1>3, <1>10, RampIs
<1>12. fade' \in Fades
  BY <1>1, <1>3, <1>11 DEF Fades
<1>13. /\ fade'.now = next /\ fade'.target = target /\ fade'.from = from
       /\ fade'.since = IF there THEN 0 ELSE turns + 1
  BY <1>1
<1>14. steady' \in Nat /\ steady' > 0 /\ steady' <= steady + 1
  BY <1>2, LightSizes DEF L!Longest
<1>15. blanked' => next = 0 /\ target = 0
  BY <1>1, <1>2, <1>6, <1>7, <1>8, <1>9, <1>10, LightSizes
<1>16. wantOn => ~blanked'
  BY <1>1, <1>2, <1>8, <1>9, LightSizes
<1>17. ~wantOn /\ next = 0 => blanked'
  BY <1>1, <1>8, <1>9
<1>18. next # target =>
         /\ ~there /\ next = L!Ramp(from, target, (turns + 1) - 1) /\ turns + 1 >= steady'
  <2>1. next # target => ~there
    BY <1>10
  <2>2. (turns + 1) - 1 = turns
    BY <1>3
  <2>3. ~there => turns + 1 >= steady'
    BY <1>3, <1>4, <1>14, <1>2
  <2> QED BY <2>1, <2>2, <2>3, <1>10
<1>19. Fading'
  BY <1>3, <1>8, <1>13, <1>15, <1>16, <1>17, <1>18 DEF Fading
<1> QED BY <1>12, <1>19

(* The fade, which may cut the supply and bring it back.                    *)
LEMMA IdleKeeps == ASSUME LightInv, L!IdleUpdate PROVE LightInv'
<1>1. fade' \in Fades /\ Fading'
  BY IdleFades DEF L!IdleUpdate
<1>2. /\ UNCHANGED <<owned, writing, staged, gain, wantOn, requests>>
      /\ at = "idle" /\ at' = "effect"
  BY DEF L!IdleUpdate, L!frameVars, L!shellVars
<1>3. \/ /\ blanked' = FALSE /\ rail' = TRUE /\ bus' = TRUE
         /\ chip' = L!BroughtUp(gain) /\ pending' = TRUE
      \/ /\ blanked' = TRUE /\ rail' = FALSE /\ bus' = FALSE
         /\ chip' = L!Off /\ pending' \in BOOLEAN
      \/ UNCHANGED <<blanked, rail, bus, chip>> /\ pending' = TRUE
      \/ UNCHANGED <<blanked, rail, bus, chip, pending>> /\ fade'.now = fade.now
  <2> DEFINE target == IF wantOn THEN FullFade ELSE 0
             there == fade.now = target
  <2>1. \/ L!Unblank
        \/ L!Blank /\ pending' = (pending \/ ~there)
        \/ /\ UNCHANGED <<blanked, rail, bus, chip>> /\ pending' = (pending \/ ~there)
           /\ there => fade'.now = fade.now
    BY DEF L!IdleUpdate, L!IdleTick
  <2>2. CASE there
    BY <2>1, <2>2 DEF L!Unblank, L!Blank, LightInv, LightTypes
  <2>3. CASE ~there
    BY <2>1, <2>3 DEF L!Unblank, L!Blank, LightInv, LightTypes
  <2> QED BY <2>2, <2>3
<1>4. /\ L!BroughtUp(gain) \in [gain : Gains \cup {Unset}, frame : L!Frame, fade : 0..FullFade]
      /\ L!Off \in [gain : Gains \cup {Unset}, frame : L!Frame, fade : 0..FullFade]
      /\ L!BroughtUp(gain).frame = L!Cleared /\ L!BroughtUp(gain).gain = gain
  BY FramesAre, LightSizes DEF L!BroughtUp, L!Off, LightInv, LightTypes
<1>5. steady' \in Nat
  BY LightSizes DEF L!IdleUpdate, L!Longest, LightInv, LightTypes
<1>6. LightTypes'
  BY <1>1, <1>2, <1>3, <1>4, <1>5 DEF LightInv, LightTypes
<1>7. Powered' /\ HalfShown'
  BY <1>2, <1>3 DEF LightInv, Powered, HalfShown
<1>8. L!ShownIsStaged'
  BY <1>2, <1>3, <1>4 DEF LightInv, L!ShownIsStaged
<1>9. L!ChipFollowsSettings'
  BY <1>2, <1>3, <1>4 DEF LightInv, L!ChipFollowsSettings
<1> QED BY <1>1, <1>6, <1>7, <1>8, <1>9 DEF LightInv

(* The rest of the loop, up to the service of requests.                     *)
LEMMA LoopKeeps ==
  ASSUME LightInv, L!EffectTick \/ L!OverlayTick \/ L!Flush \/ L!SkipService
  PROVE  LightInv'
<1>1. UNCHANGED <<owned, writing, blanked, fade, gain, rail, bus, chip, wantOn, steady,
                  requests>>
  BY DEF L!EffectTick, L!OverlayTick, L!Flush, L!SkipService, L!frameVars, L!lightVars,
     L!wantVars, L!shellVars
<1>2. Fading'
  BY <1>1 DEF LightInv, Fading
<1>3. CASE L!EffectTick
  <2>1. staged' \in L!Frame /\ pending' \in BOOLEAN
    BY <1>3 DEF L!EffectTick, L!Whole, LightInv, LightTypes
  <2>2. pending' = TRUE \/ UNCHANGED <<staged, pending>>
    BY <1>3 DEF L!EffectTick
  <2> QED BY <1>1, <1>2, <1>3, <2>1, <2>2 DEF L!EffectTick, LightInv, LightTypes,
             Powered, HalfShown, L!ShownIsStaged, L!ChipFollowsSettings
<1>4. CASE L!OverlayTick
  <2>1. pending' \in BOOLEAN /\ (pending' \/ pending' = pending) /\ staged' = staged
        /\ at = "overlay" /\ at' = "flush"
    BY <1>4 DEF L!OverlayTick, L!frameVars, LightInv, LightTypes
  <2>2. LightTypes'
    BY <1>1, <2>1 DEF LightInv, LightTypes
  <2> QED BY <1>1, <1>2, <2>1, <2>2 DEF LightInv, Powered, HalfShown, L!ShownIsStaged,
             L!ChipFollowsSettings
<1>5. CASE L!Flush
  <2>1. /\ pending' = FALSE /\ staged' = staged /\ at = "flush"
        /\ \/ at' = "show" /\ ~blanked
           \/ at' = "service" /\ (~pending \/ blanked)
    BY <1>5 DEF L!Flush, L!frameVars
  <2>2. LightTypes'
    BY <1>1, <2>1 DEF LightInv, LightTypes
  <2> QED BY <1>1, <1>2, <2>1, <2>2 DEF LightInv, Powered, HalfShown, L!ShownIsStaged,
             L!ChipFollowsSettings
<1>6. CASE L!SkipService
  BY <1>1, <1>2, <1>6 DEF L!SkipService, L!frameVars, L!lightVars, LightInv, LightTypes,
     Powered, HalfShown, L!ShownIsStaged, L!ChipFollowsSettings
<1> QED BY <1>3, <1>4, <1>5, <1>6

(* The two halves of a transfer: the second one makes it whole.             *)
LEMMA ShowKeeps == ASSUME LightInv, L!Show \/ L!ShowRest PROVE LightInv'
<1>1. /\ UNCHANGED <<owned, writing, staged, pending, blanked, fade, gain, rail, bus,
                     wantOn, steady, requests>>
      /\ at \in {"show", "rest"}
  BY DEF L!Show, L!ShowRest, L!frameVars, L!wantVars, L!shellVars
<1>2. Fading'
  BY <1>1 DEF LightInv, Fading
<1>3. bus /\ ~blanked
  BY <1>1 DEF LightInv, Powered
<1>4. staged \in L!Frame /\ chip.frame \in L!Frame /\ fade.now \in 0..FullFade
  BY DEF LightInv, LightTypes, Fades
<1>5. CASE L!Show
  <2>1. chip' = IF rail THEN [chip EXCEPT !.frame[1] = staged[1], !.fade = fade.now] ELSE chip
    BY <1>3, <1>5 DEF L!Show, L!Hears
  <2> DEFINE shown == [chip.frame EXCEPT ![1] = staged[1]]
             faded == [chip EXCEPT !.frame = shown]
  <2>2. shown \in L!Frame /\ shown[1] = staged[1]
    BY <1>4, FramesAre DEF L!Frame
  <2>3. /\ chip' \in [gain : Gains \cup {Unset}, frame : L!Frame, fade : 0..FullFade]
        /\ chip'.gain = chip.gain
        /\ rail => chip'.frame[1] = staged[1] /\ chip'.fade = fade.now
    <3>1. rail => chip' = [faded EXCEPT !.fade = fade.now]
      BY <2>1
    <3>2. ~rail => chip' = chip
      BY <2>1
    <3> HIDE DEF shown
    <3>3. /\ faded \in [gain : Gains \cup {Unset}, frame : L!Frame, fade : 0..FullFade]
          /\ faded.gain = chip.gain /\ faded.frame = shown
      BY <2>2 DEF LightInv, LightTypes
    <3> HIDE DEF faded
    <3> QED BY <1>4, <2>2, <3>1, <3>2, <3>3 DEF LightInv, LightTypes
  <2> QED BY <1>1, <1>2, <1>3, <1>5, <2>3 DEF L!Show, LightInv, LightTypes, Powered,
             HalfShown, L!ShownIsStaged, L!ChipFollowsSettings
<1>6. CASE L!ShowRest
  <2>1. chip' = IF rail THEN [chip EXCEPT !.frame[2] = staged[2]] ELSE chip
    BY <1>3, <1>6 DEF L!ShowRest, L!Hears
  <2> DEFINE shown == [chip.frame EXCEPT ![2] = staged[2]]
  <2>2. shown \in L!Frame /\ shown = <<chip.frame[1], staged[2]>>
    <3>1. shown \in L!Frame /\ shown[1] = chip.frame[1] /\ shown[2] = staged[2]
      BY <1>4, FramesAre DEF L!Frame
    <3> QED BY <3>1, FramesAre
  <2>3. /\ chip' \in [gain : Gains \cup {Unset}, frame : L!Frame, fade : 0..FullFade]
        /\ chip'.gain = chip.gain /\ chip'.fade = chip.fade
        /\ rail => chip'.frame = <<chip.frame[1], staged[2]>>
    <3>1. rail => chip' = [chip EXCEPT !.frame = shown]
      BY <2>1
    <3>2. ~rail => chip' = chip
      BY <2>1
    <3> HIDE DEF shown
    <3> QED BY <2>2, <3>1, <3>2 DEF LightInv, LightTypes
  <2>4. ~pending /\ writing = L!Idle /\ rail => chip'.frame = staged /\ chip'.fade = fade.now
    BY <1>4, <1>6, <2>3, FramesAre DEF L!ShowRest, LightInv, HalfShown
  <2> QED BY <1>1, <1>2, <1>3, <1>6, <2>3, <2>4 DEF L!ShowRest, LightInv, LightTypes,
             Powered, HalfShown, L!ShownIsStaged, L!ChipFollowsSettings
<1> QED BY <1>5, <1>6

(* The requests of the shell: the supply, and the settings.                 *)
LEMMA ServiceKeeps == ASSUME LightInv, L!Service PROVE LightInv'
<1> DEFINE Chips == [gain : Gains \cup {Unset}, frame : L!Frame, fade : 0..FullFade]
<1>1. /\ UNCHANGED <<owned, writing, staged, pending, blanked, fade, bus, wantOn, steady>>
      /\ at = "service" /\ at' = "idle" /\ rail' = L!RailAfter /\ requests' = L!None
  BY DEF L!Service, L!frameVars, L!wantVars
<1>2. Fading'
  BY <1>1 DEF LightInv, Fading
<1>3. requests.gain \in Gains \cup {Unset} /\ gain \in Gains /\ chip \in Chips
  BY DEF LightInv, LightTypes
<1>4. L!Raised \in Chips /\ L!Off \in Chips /\ (bus => L!Raised = L!BroughtUp(gain))
  BY <1>3, FramesAre, LightSizes DEF L!Raised, L!BroughtUp, L!Off
<1>5. /\ L!ChipAfter \in Chips
      /\ ~blanked /\ L!RailAfter => \/ L!ChipAfter = chip /\ rail
                                    \/ L!ChipAfter = L!BroughtUp(gain)
  BY <1>3, <1>4 DEF L!ChipAfter, L!RailAfter, LightInv, LightTypes, Powered
<1>6. ~blanked /\ L!RailAfter => L!ChipAfter.gain = gain
  BY <1>5 DEF L!BroughtUp, LightInv, L!ChipFollowsSettings
<1>7. /\ gain' \in Gains /\ chip' \in Chips
      /\ chip'.frame = L!ChipAfter.frame /\ chip'.fade = L!ChipAfter.fade
      /\ ~blanked /\ L!RailAfter => chip'.gain = gain'
  <2>1. CASE requests.gain = Unset
    BY <1>3, <1>5, <1>6, <2>1 DEF L!Service
  <2>2. CASE requests.gain # Unset
    <3>1. /\ gain' = requests.gain /\ gain' \in Gains
          /\ chip' = L!Adjusted(L!ChipAfter, requests.gain)
      BY <1>3, <2>2 DEF L!Service
    <3> HIDE DEF Chips
    <3>2. ASSUME NEW c \in Chips, NEW g \in Gains
          PROVE  /\ L!Adjusted(c, g) \in Chips
                 /\ L!Adjusted(c, g).frame = c.frame /\ L!Adjusted(c, g).fade = c.fade
                 /\ ~blanked /\ c.gain # Unset => L!Adjusted(c, g).gain = g
      BY DEF L!Adjusted, Chips
    <3>3. ~blanked /\ L!RailAfter => L!ChipAfter.gain # Unset
      BY <1>3, <1>6, LightSizes
    <3> QED BY <1>5, <3>1, <3>2, <3>3
  <2> QED BY <2>1, <2>2
<1>8. rail' \in BOOLEAN
  BY <1>1 DEF L!RailAfter, LightInv, LightTypes
<1>9. L!None \in [reset : BOOLEAN, rail : {"none", "up", "down"}, gain : Gains \cup {Unset}]
  BY DEF L!None
<1>10. LightTypes'
  BY <1>1, <1>7, <1>8, <1>9 DEF LightInv, LightTypes
<1>11. ASSUME ~blanked, L!RailAfter
      PROVE  \/ chip'.frame = L!Cleared
             \/ chip'.frame = chip.frame /\ chip'.fade = chip.fade /\ rail
  <2>1. L!BroughtUp(gain).frame = L!Cleared
    BY DEF L!BroughtUp
  <2> HIDE DEF Chips
  <2>2. chip'.frame = L!ChipAfter.frame /\ chip'.fade = L!ChipAfter.fade
    BY <1>7
  <2>3. ~blanked /\ L!RailAfter =>
          (L!ChipAfter = chip /\ rail) \/ L!ChipAfter = L!BroughtUp(gain)
    BY <1>5
  <2> QED BY <1>11, <2>1, <2>2, <2>3
<1>12. L!ShownIsStaged'
  BY <1>1, <1>11 DEF LightInv, L!ShownIsStaged
<1> QED BY <1>1, <1>2, <1>7, <1>10, <1>12 DEF LightInv, Powered, HalfShown,
           L!ChipFollowsSettings

(* The underglow stages a frame of its own, and marks it last.              *)
LEMMA UnderglowKeeps == ASSUME LightInv, L!Underglow PROVE LightInv'
<1>1. UNCHANGED <<at, owned, blanked, fade, gain, rail, bus, chip, wantOn, steady, requests>>
  BY DEF L!Underglow, L!UnderglowStarts, L!UnderglowHalf, L!UnderglowEnds, L!lightVars,
     L!wantVars, L!shellVars
<1>2. Fading'
  BY <1>1 DEF LightInv, Fading
<1>3. /\ staged' \in L!Frame /\ writing' \in Writings /\ pending' \in BOOLEAN
      /\ writing' # L!Idle \/ pending'
  <2>1. CASE \E f \in L!Whole : L!UnderglowStarts(f)
    BY <2>1, FramesAre DEF L!UnderglowStarts, L!Whole, L!lightVars, LightInv, LightTypes
  <2>2. CASE L!UnderglowHalf
    BY <2>2, FramesAre DEF L!UnderglowHalf, L!lightVars, LightInv, LightTypes
  <2>3. CASE L!UnderglowEnds
    BY <2>3, FramesAre DEF L!UnderglowEnds, LightInv, LightTypes
  <2> QED BY <2>1, <2>2, <2>3 DEF L!Underglow
<1> QED BY <1>1, <1>2, <1>3 DEF LightInv, LightTypes, Powered, HalfShown,
           L!ShownIsStaged, L!ChipFollowsSettings

(* The user asks: nothing is served before the loop comes to it.            *)
LEMMA AskedKeeps ==
  ASSUME LightInv, L!ChangeEffect \/ L!WantChanges \/ L!Request
  PROVE  LightInv'
<1>1. UNCHANGED <<at, writing, staged, pending, blanked, fade, gain, rail, bus, chip>>
  BY DEF L!ChangeEffect, L!WantChanges, L!Request, L!frameVars, L!lightVars
<1>2. \/ UNCHANGED <<wantOn, steady>>
      \/ wantOn' \in BOOLEAN /\ steady' = 0
  BY DEF L!ChangeEffect, L!WantChanges, L!Request, L!wantVars
<1>3. requests' \in [reset : BOOLEAN, rail : {"none", "up", "down"}, gain : Gains \cup {Unset}]
  <2>1. requests \in [reset : BOOLEAN, rail : {"none", "up", "down"}, gain : Gains \cup {Unset}]
    BY DEF LightInv, LightTypes
  <2> QED BY <2>1 DEF L!ChangeEffect, L!WantChanges, L!Request, L!shellVars
<1>4. Fading'
  BY <1>1, <1>2 DEF LightInv, LightTypes, Fades, Fading
<1> QED BY <1>1, <1>2, <1>3, <1>4 DEF LightInv, LightTypes, Powered, HalfShown,
           L!ShownIsStaged, L!ChipFollowsSettings

(* Every step of the lighting keeps its invariant.                          *)
LEMMA LightNext == ASSUME LightInv, [L!Next]_lightVars PROVE LightInv'
<1>1. CASE L!Next
  BY <1>1, IdleKeeps, LoopKeeps, ShowKeeps, ServiceKeeps, UnderglowKeeps, AskedKeeps
     DEF L!Next, L!Loop
<1>2. CASE UNCHANGED lightVars
  BY <1>2 DEF lightVars, L!frameVars, L!lightVars, L!wantVars, L!shellVars, LightInv,
     LightTypes, Powered, HalfShown, L!ShownIsStaged, L!ChipFollowsSettings, Fading
<1> QED BY <1>1, <1>2

(* A fade that had its time is over.                                        *)
LEMMA FadesInTime == ASSUME LightInv PROVE L!LightFollowsWant
<1>1. /\ fade.now \in 0..FullFade /\ fade.from \in 0..FullFade
      /\ fade.since \in Nat /\ fade.target \in {0, FullFade} /\ steady \in Nat
      /\ wantOn \in BOOLEAN
  BY DEF LightInv, LightTypes, Fades
<1>2. CASE wantOn /\ steady > FadeInTicks
  <2>1. fade.target = FullFade /\ ~blanked
    BY <1>1, <1>2, LightSizes DEF LightInv, Fading
  <2>2. fade.now = FullFade
    <3>1. CASE fade.now # fade.target
      <4> DEFINE turns == fade.since - 1
      <4>1. /\ turns \in Nat /\ turns >= FadeInTicks
          /\ fade.now = L!Ramp(fade.from, fade.target, turns)
        BY <1>1, <1>2, <3>1, LightSizes DEF LightInv, Fading
      <4> HIDE DEF turns
      <4> QED BY <1>1, <2>1, <4>1, RampIs
    <3> QED BY <2>1, <3>1
  <2> QED BY <1>2, <2>1, <2>2 DEF L!LightFollowsWant
<1>3. CASE ~wantOn /\ steady > FadeOutTicks
  <2>1. fade.target = 0
    BY <1>1, <1>3, LightSizes DEF LightInv, Fading
  <2>2. fade.now = 0
    <3>1. CASE fade.now # fade.target
      <4> DEFINE turns == fade.since - 1
      <4>1. /\ turns \in Nat /\ turns >= FadeOutTicks
          /\ fade.now = L!Ramp(fade.from, fade.target, turns)
        BY <1>1, <1>3, <3>1, LightSizes DEF LightInv, Fading
      <4> HIDE DEF turns
      <4> QED BY <1>1, <2>1, <4>1, RampIs
    <3> QED BY <2>1, <3>1
  <2>3. blanked /\ ~bus
    BY <1>1, <1>3, <2>2, LightSizes DEF LightInv, Fading, Powered
  <2> QED BY <1>3, <2>3 DEF L!LightFollowsWant
<1> QED BY <1>2, <1>3 DEF L!LightFollowsWant

(***************************************************************************)
(* What is painted over the effects (O).  A flash that runs is of a key of *)
(* its own and as old as the key's last toggle; a key that lost its slot   *)
(* lost it when every slot held a key that was toggled no earlier, and the *)
(* keys in the slots, counted by an injection, are as many as the slots.   *)
(* What was painted is known to the loop until it is painted over.         *)
(***************************************************************************)
(* What the slots and the history of the overlay keep to.                   *)
FlashTypes ==
  /\ flashes \in [O!Slot -> [key : Keys \cup {NoKey}, active : BOOLEAN, age : O!Age]]
  /\ toggled \in [Keys -> O!Age]

\* A flash that runs is of a key, as old as the key's last toggle, and the only one.
OneEach ==
  /\ \A s \in O!Slot : flashes[s].active
       => flashes[s].key \in Keys /\ flashes[s].age = toggled[flashes[s].key]
  /\ \A s, t \in O!Slot : s # t /\ flashes[s].active /\ flashes[t].active
       => flashes[s].key # flashes[t].key

Newer(k) == {j \in Keys \ {k} : toggled[j] <= toggled[k]}

\* A key that has no slot has lost it to as many newer ones as there are.
Displaced ==
  \A k \in Keys : toggled[k] < FlashTicks =>
     \/ \E s \in O!Slot : flashes[s].active /\ flashes[s].key = k
     \/ Cardinality(Newer(k)) >= FlashSlots

\* What is painted is still known to be, or a frame is to come that clears it.
StillKnown == painted = "none" \/ prev \/ marked \/ crossed

OverlayInv == FlashTypes /\ OneEach /\ Displaced /\ StillKnown

LEMMA OverlaySizes ==
  /\ FlashSlots \in Nat \ {0} /\ FlashTicks \in Nat \ {0}
  /\ IsFiniteSet(Keys) /\ NoKey \notin Keys
  BY PartsAssumption DEF O!OverlayAssumption, O!IsFiniteSet, IsFiniteSet

LEMMA SameCount == ASSUME NEW S PROVE O!Cardinality(S) = Cardinality(S)
  BY Zenon DEF Cardinality, O!Cardinality

LEMMA FlashIs ==
  ASSUME FlashTypes, NEW s \in O!Slot
  PROVE  flashes[s].key \in Keys \cup {NoKey} /\ flashes[s].active \in BOOLEAN
         /\ flashes[s].age \in 0..FlashTicks
<1>1. flashes[s] \in [key : Keys \cup {NoKey}, active : BOOLEAN, age : 0..FlashTicks]
  BY DEF FlashTypes, O!Age
<1>2. flashes[s].active \in BOOLEAN
  BY <1>1, Zenon
<1> QED BY <1>1, <1>2

(* The slot a flash takes: the one of the key, else a free one, else one    *)
(* that has run as long as any.                                             *)
LEMMA SlotIs ==
  ASSUME FlashTypes, NEW k \in Keys
  PROVE  /\ O!SlotFor(k) \in O!Slot
         /\ \/ flashes[O!SlotFor(k)].active /\ flashes[O!SlotFor(k)].key = k
            \/ /\ ~ \E s \in O!Slot : flashes[s].active /\ flashes[s].key = k
               /\ \/ ~flashes[O!SlotFor(k)].active
                  \/ \A s \in O!Slot : flashes[s].active
                                       /\ flashes[s].age <= flashes[O!SlotFor(k)].age
<1> DEFINE same == {s \in O!Slot : flashes[s].active /\ flashes[s].key = k}
           free == {s \in O!Slot : ~flashes[s].active}
           oldest == {s \in O!Slot : \A t \in O!Slot :
                        \/ flashes[s].age > flashes[t].age
                        \/ flashes[s].age = flashes[t].age /\ s >= t}
           T == IF same # {} THEN same ELSE IF free # {} THEN free ELSE oldest
<1>1. O!SlotFor(k) = CHOOSE s \in T : \A t \in T : s <= t
  BY Zenon DEF O!SlotFor
<1>2. O!Slot = 0..FlashSlots - 1 /\ O!Slot \subseteq Nat /\ 0 \in O!Slot /\ FlashSlots - 1 \in Nat
  BY OverlaySizes DEF O!Slot
<1>3. oldest # {}
  <2> DEFINE ages == {flashes[s].age : s \in O!Slot}
  <2>1. ages \subseteq 0..FlashTicks /\ ages # {}
    BY <1>2, FlashIs
  <2>2. PICK a \in ages : \A y \in ages : y <= a
    BY <2>1, OverlaySizes, LargestIs
  <2> DEFINE latest == {s \in O!Slot : flashes[s].age = a}
  <2>3. latest \subseteq 0..FlashSlots - 1 /\ latest # {}
    BY <1>2, <2>2
  <2>4. PICK s \in latest : \A t \in latest : t <= s
    BY <1>2, <2>3, LargestIs
  <2>5. ASSUME NEW t \in O!Slot
        PROVE  \/ flashes[s].age > flashes[t].age
               \/ flashes[s].age = flashes[t].age /\ s >= t
    <3>1. flashes[t].age \in 0..FlashTicks /\ a \in 0..FlashTicks /\ flashes[s].age = a
      BY <2>1, <2>2, <2>4, FlashIs
    <3>2. flashes[t].age <= a
      BY <2>2
    <3>3. flashes[t].age = a => t <= s
      BY <2>4
    <3>4. s \in Nat /\ t \in Nat
      BY <1>2, <2>4
    <3> QED BY <3>1, <3>2, <3>3, <3>4
  <2> QED BY <2>4, <2>5
<1>4. T \subseteq Nat /\ T # {} /\ T \subseteq O!Slot
  BY <1>2, <1>3
<1>5. \E s \in T : \A t \in T : s <= t
  BY <1>4, LeastIs
<1>6. O!SlotFor(k) \in T
  BY <1>1, <1>5
<1>7. CASE same # {}
  BY <1>6, <1>7
<1>8. CASE same = {} /\ free # {}
  BY <1>6, <1>8
<1>9. CASE same = {} /\ free = {}
  <2>1. O!SlotFor(k) \in oldest
    BY <1>6, <1>9
  <2>2. ASSUME NEW s \in O!Slot PROVE flashes[s].active /\ flashes[s].age <= flashes[O!SlotFor(k)].age
    <3>1. flashes[s].active
      BY <1>9
    <3>2. /\ flashes[s].age \in Nat /\ flashes[O!SlotFor(k)].age \in Nat
          /\ \/ flashes[O!SlotFor(k)].age > flashes[s].age
             \/ flashes[O!SlotFor(k)].age = flashes[s].age
      BY <2>1, FlashIs
    <3> QED BY <3>1, <3>2
  <2> QED BY <1>9, <2>1, <2>2
<1> QED BY <1>7, <1>8, <1>9

LEMMA OverlayBegins == O!Init => OverlayInv
<1> SUFFICES ASSUME O!Init PROVE OverlayInv
  OBVIOUS
<1>1. FlashTicks \in Nat
  BY OverlaySizes
<1>2. FlashTypes
  <2>1. flashes = [s \in O!Slot |-> [key |-> NoKey, active |-> FALSE, age |-> FlashTicks]]
        /\ toggled = [k \in Keys |-> FlashTicks]
    BY DEF O!Init
  <2> QED BY <1>1, <2>1 DEF FlashTypes, O!Age
<1>3. \A s \in O!Slot : ~flashes[s].active
  BY DEF O!Init
<1>4. \A k \in Keys : toggled[k] = FlashTicks
  BY DEF O!Init
<1>5. painted = "none"
  BY DEF O!Init
<1> QED BY <1>1, <1>2, <1>3, <1>4, <1>5 DEF OverlayInv, OneEach, Displaced, StillKnown

(* Newer keys are counted in full.                                          *)
LEMMA NewerIs ==
  ASSUME NEW S, S \subseteq Keys
  PROVE  /\ IsFiniteSet(S) /\ Cardinality(S) \in Nat
         /\ \A T \in SUBSET S : Cardinality(T) \in Nat /\ Cardinality(T) <= Cardinality(S)
<1>1. IsFiniteSet(S)
  BY OverlaySizes, FS_Subset
<1>2. ASSUME NEW T \in SUBSET S
      PROVE  Cardinality(T) \in Nat /\ Cardinality(T) <= Cardinality(S)
  BY <1>1, FS_Subset, FS_CardinalityType
<1> QED BY <1>1, <1>2, FS_CardinalityType

LEMMA FlashKeeps == ASSUME OverlayInv, NEW k \in Keys, O!Flash(k) PROVE OverlayInv'
<1> DEFINE x == O!SlotFor(k)
<1>1. /\ flashes' = [flashes EXCEPT ![x] = [key |-> k, active |-> TRUE, age |-> 0]]
      /\ toggled' = [toggled EXCEPT ![k] = 0]
  BY DEF O!Flash
<1>2. FlashTypes
  BY DEF OverlayInv
<1>3. /\ x \in O!Slot
      /\ \/ flashes[x].active /\ flashes[x].key = k
         \/ /\ ~ \E s \in O!Slot : flashes[s].active /\ flashes[s].key = k
            /\ \/ ~flashes[x].active
               \/ \A s \in O!Slot : flashes[s].active /\ flashes[s].age <= flashes[x].age
  BY <1>2, SlotIs
<1> HIDE DEF x
<1>4. flashes \in [O!Slot -> [key : Keys \cup {NoKey}, active : BOOLEAN, age : 0..FlashTicks]]
      /\ FlashTicks \in Nat /\ NoKey \notin Keys
  BY <1>2, OverlaySizes DEF FlashTypes, O!Age
<1>5. toggled \in [Keys -> 0..FlashTicks]
  BY <1>2 DEF FlashTypes, O!Age
<1>6. /\ flashes'[x].key = k /\ flashes'[x].active /\ flashes'[x].age = 0
      /\ \A s \in O!Slot : s # x => flashes'[s] = flashes[s]
  BY <1>1, <1>3, <1>4
<1>7. toggled'[k] = 0 /\ \A j \in Keys : j # k => toggled'[j] = toggled[j]
  BY <1>1, <1>5
<1>8. FlashTypes'
  <2>1. [key |-> k, active |-> TRUE, age |-> 0]
          \in [key : Keys \cup {NoKey}, active : BOOLEAN, age : 0..FlashTicks]
    BY <1>4
  <2>2. flashes' \in [O!Slot -> [key : Keys \cup {NoKey}, active : BOOLEAN, age : 0..FlashTicks]]
    BY <1>1, <1>4, <2>1, Zenon
  <2>3. toggled' \in [Keys -> 0..FlashTicks]
    BY <1>1, <1>4, <1>5
  <2> QED BY <2>2, <2>3 DEF FlashTypes, O!Age
<1>9. OneEach
  BY DEF OverlayInv
<1>10. ASSUME NEW s \in O!Slot, s # x, flashes[s].active PROVE flashes[s].key # k
  BY <1>3, <1>9, <1>10 DEF OneEach
<1>11. OneEach'
  <2>1. ASSUME NEW s \in O!Slot, flashes'[s].active
        PROVE  flashes'[s].key \in Keys /\ flashes'[s].age = toggled'[flashes'[s].key]
    <3>1. CASE s = x
      BY <1>6, <1>7, <3>1
    <3>2. CASE s # x
      <4>1. flashes'[s] = flashes[s] /\ flashes[s].active
        BY <1>6, <2>1, <3>2
      <4>2. flashes[s].key \in Keys /\ flashes[s].age = toggled[flashes[s].key] /\ flashes[s].key # k
        BY <1>9, <1>10, <3>2, <4>1 DEF OneEach
      <4> QED BY <1>7, <4>1, <4>2
    <3> QED BY <3>1, <3>2
  <2>2. ASSUME NEW s \in O!Slot, NEW t \in O!Slot, s # t, flashes'[s].active, flashes'[t].active
        PROVE  flashes'[s].key # flashes'[t].key
    <3>1. CASE s = x
      BY <1>6, <1>10, <2>2, <3>1
    <3>2. CASE t = x
      BY <1>6, <1>10, <2>2, <3>2
    <3>3. CASE s # x /\ t # x
      BY <1>6, <1>9, <2>2, <3>3 DEF OneEach
    <3> QED BY <3>1, <3>2, <3>3
  <2> QED BY <2>1, <2>2 DEF OneEach
<1>12. Displaced'
  <2>1. SUFFICES ASSUME NEW j \in Keys, toggled'[j] < FlashTicks
                 PROVE  \/ \E s \in O!Slot : flashes'[s].active /\ flashes'[s].key = j
                        \/ Cardinality(Newer(j)') >= FlashSlots
    BY DEF Displaced
  <2>2. CASE j = k
    BY <1>3, <1>6, <2>2
  <2>3. CASE j # k
    <3>1. toggled'[j] = toggled[j] /\ toggled[j] < FlashTicks
      BY <1>7, <2>1, <2>3
    <3>2. CASE \E s \in O!Slot : flashes[s].active /\ flashes[s].key = j
      <4>1. PICK s \in O!Slot : flashes[s].active /\ flashes[s].key = j
        BY <3>2
      <4>2. CASE s # x
        BY <1>6, <4>1, <4>2
      <4>3. CASE s = x
        <5>1. \A t \in O!Slot : flashes[t].active /\ flashes[t].age <= toggled[j] /\ flashes[t].key \in Keys
          BY <1>3, <1>9, <2>3, <4>1, <4>3 DEF OneEach
        <5> DEFINE f == [t \in O!Slot |-> flashes'[t].key]
        <5>2. ASSUME NEW t \in O!Slot PROVE f[t] \in Newer(j)' /\ flashes'[t].active
          <6>1. CASE t = x
            <7>1. f[t] = k /\ flashes'[t].active
              BY <1>6, <6>1
            <7>2. toggled'[k] <= toggled'[j]
              BY <1>5, <1>7, <3>1
            <7> QED BY <2>3, <7>1, <7>2 DEF Newer
          <6>2. CASE t # x
            <7>1. f[t] = flashes[t].key /\ flashes'[t].active /\ f[t] \in Keys
              BY <1>6, <5>1, <6>2
            <7>2. f[t] # j /\ f[t] # k /\ toggled[f[t]] <= toggled[j]
              BY <1>9, <1>10, <4>1, <4>3, <5>1, <6>2, <7>1 DEF OneEach
            <7>3. toggled'[f[t]] <= toggled'[j]
              BY <1>7, <3>1, <7>1, <7>2
            <7> QED BY <7>1, <7>2, <7>3 DEF Newer
          <6> QED BY <6>1, <6>2
        <5>3. \A t, u \in O!Slot : f[t] = f[u] => t = u
          BY <1>11, <5>2 DEF OneEach
        <5>4. f \in Injection(O!Slot, Newer(j)')
          BY <5>2, <5>3 DEF Injection, IsInjective
        <5>5. IsFiniteSet(Newer(j)') /\ Cardinality(Newer(j)') \in Nat
          BY NewerIs DEF Newer
        <5>6. Cardinality(O!Slot) <= Cardinality(Newer(j)')
          BY <5>4, <5>5, FS_Injection
        <5>7. Cardinality(O!Slot) = FlashSlots
          BY OverlaySizes, FS_Interval DEF O!Slot
        <5> QED BY <5>5, <5>6, <5>7, OverlaySizes
      <4> QED BY <4>2, <4>3
    <3>3. CASE Cardinality(Newer(j)) >= FlashSlots
      <4>1. ASSUME NEW i \in Newer(j) PROVE i \in Newer(j)'
        <5>1. i \in Keys \ {j} /\ toggled[i] <= toggled[j] /\ toggled[j] \in 0..FlashTicks
          BY <1>5, <4>1 DEF Newer
        <5>2. toggled'[i] <= toggled'[j]
          BY <1>7, <3>1, <5>1
        <5> QED BY <5>1, <5>2 DEF Newer
      <4>2. Newer(j) \in SUBSET Newer(j)' /\ Newer(j)' \subseteq Keys
        BY <4>1 DEF Newer
      <4>3. Cardinality(Newer(j)) \in Nat /\ Cardinality(Newer(j)') \in Nat
            /\ Cardinality(Newer(j)) <= Cardinality(Newer(j)')
        BY <4>2, NewerIs
      <4> QED BY <3>3, <4>3, OverlaySizes
    <3> QED BY <3>1, <3>2, <3>3 DEF OverlayInv, Displaced
  <2> QED BY <2>2, <2>3
<1>13. StillKnown'
  BY Zenon DEF O!Flash, OverlayInv, StillKnown
<1> QED BY <1>8, <1>11, <1>12, <1>13 DEF OverlayInv

LEMMA OlderIs ==
  ASSUME NEW n \in 0..FlashTicks
  PROVE  /\ O!Older(n, FlashTicks) \in 0..FlashTicks
         /\ O!Older(n, FlashTicks) < FlashTicks
              => n < FlashTicks /\ O!Older(n, FlashTicks) = n + 1
  BY OverlaySizes DEF O!Older

LEMMA TickKeeps == ASSUME OverlayInv, O!Tick PROVE OverlayInv'
<1>1. /\ flashes' = [s \in O!Slot |-> [flashes[s] EXCEPT !.age = O!Older(@, FlashTicks)]]
      /\ toggled' = [k \in Keys |-> O!Older(toggled[k], FlashTicks)]
  BY DEF O!Tick
<1>2. FlashTypes /\ OneEach /\ Displaced
  BY DEF OverlayInv
<1>3. \A k \in Keys : toggled[k] \in 0..FlashTicks
  BY <1>2 DEF FlashTypes, O!Age
<1>4. ASSUME NEW s \in O!Slot
      PROVE  /\ flashes'[s] \in [key : Keys \cup {NoKey}, active : BOOLEAN, age : 0..FlashTicks]
             /\ flashes'[s].key = flashes[s].key
             /\ flashes'[s].active <=> flashes[s].active
             /\ flashes'[s].age = O!Older(flashes[s].age, FlashTicks)
  <2>1. flashes[s] \in [key : Keys \cup {NoKey}, active : BOOLEAN, age : 0..FlashTicks]
    BY <1>2 DEF FlashTypes, O!Age
  <2>2. flashes'[s] = [flashes[s] EXCEPT !.age = O!Older(flashes[s].age, FlashTicks)]
    BY <1>1
  <2>3. flashes[s].age \in 0..FlashTicks
    BY <2>1
  <2>4. O!Older(flashes[s].age, FlashTicks) \in 0..FlashTicks
    BY <2>3, OlderIs
  <2> QED BY <2>1, <2>2, <2>4
<1>5. \A k \in Keys : toggled'[k] = O!Older(toggled[k], FlashTicks)
  BY <1>1
<1>6. FlashTypes'
  <2>1. flashes' \in [O!Slot -> [key : Keys \cup {NoKey}, active : BOOLEAN, age : 0..FlashTicks]]
    BY <1>1, <1>4
  <2>2. toggled' \in [Keys -> 0..FlashTicks]
    BY <1>1, <1>3, OlderIs
  <2> QED BY <2>1, <2>2 DEF FlashTypes, O!Age
<1>7. OneEach'
  BY <1>2, <1>4, <1>5 DEF OneEach
<1>8. ASSUME NEW j \in Keys, toggled'[j] < FlashTicks
      PROVE  \/ \E s \in O!Slot : flashes'[s].active /\ flashes'[s].key = j
             \/ Cardinality(Newer(j)') >= FlashSlots
  <2>1. toggled[j] < FlashTicks /\ toggled'[j] = toggled[j] + 1
    BY <1>3, <1>5, <1>8, OlderIs
  <2>2. CASE \E s \in O!Slot : flashes[s].active /\ flashes[s].key = j
    BY <1>4, <2>2
  <2>3. CASE Cardinality(Newer(j)) >= FlashSlots
    <3>1. ASSUME NEW i \in Newer(j) PROVE i \in Newer(j)'
      <4>1. i \in Keys \ {j} /\ toggled[i] <= toggled[j]
        BY <3>1 DEF Newer
      <4>2. toggled[i] \in 0..FlashTicks /\ toggled[j] \in 0..FlashTicks
            /\ toggled'[i] = O!Older(toggled[i], FlashTicks)
        BY <1>3, <1>5, <4>1
      <4>3. toggled'[i] <= toggled'[j]
        BY <2>1, <4>1, <4>2, OverlaySizes DEF O!Older
      <4> QED BY <4>1, <4>3 DEF Newer
    <3>2. Newer(j) \in SUBSET Newer(j)' /\ Newer(j)' \subseteq Keys
      BY <3>1 DEF Newer
    <3>3. Cardinality(Newer(j)) \in Nat /\ Cardinality(Newer(j)') \in Nat
          /\ Cardinality(Newer(j)) <= Cardinality(Newer(j)')
      BY <3>2, NewerIs
    <3> QED BY <2>3, <3>3, OverlaySizes
  <2> QED BY <1>2, <2>1, <2>2, <2>3 DEF Displaced
<1>9. StillKnown'
  BY Zenon DEF O!Tick, OverlayInv, StillKnown
<1> QED BY <1>6, <1>7, <1>8, <1>9 DEF OverlayInv, Displaced

LEMMA FlushKeeps == ASSUME OverlayInv, O!Flush PROVE OverlayInv'
<1>1. FlashTypes /\ OneEach /\ Displaced /\ StillKnown
  BY DEF OverlayInv
<1>2. toggled' = toggled /\ (flashes' = flashes \/ flashes' = O!Rendered)
  BY DEF O!Flush
<1>3. ASSUME NEW s \in O!Slot
      PROVE  /\ flashes'[s] \in [key : Keys \cup {NoKey}, active : BOOLEAN, age : 0..FlashTicks]
             /\ flashes'[s].key = flashes[s].key /\ flashes'[s].age = flashes[s].age
             /\ flashes'[s].active => flashes[s].active
             /\ flashes[s].active /\ flashes[s].age < FlashTicks => flashes'[s].active
  <2>1. flashes[s] \in [key : Keys \cup {NoKey}, active : BOOLEAN, age : 0..FlashTicks]
    BY <1>1 DEF FlashTypes, O!Age
  <2>2. CASE flashes' = flashes
    BY <2>1, <2>2
  <2>3. CASE flashes' = O!Rendered
    <3>1. flashes'[s] = [flashes[s] EXCEPT !.active = O!Live(s)]
      BY <2>3 DEF O!Rendered
    <3>2. O!Live(s) \in BOOLEAN
      BY Zenon DEF O!Live
    <3>3. flashes'[s].key = flashes[s].key /\ flashes'[s].age = flashes[s].age
      BY <2>1, <3>1
    <3>4. flashes'[s].active = O!Live(s)
      BY <2>1, <3>1
    <3>5. flashes'[s] \in [key : Keys \cup {NoKey}, active : BOOLEAN, age : 0..FlashTicks]
      BY <2>1, <3>1, <3>2, Zenon
    <3>6. flashes'[s].active => flashes[s].active
      BY <3>4, Zenon DEF O!Live
    <3>7. flashes[s].active /\ flashes[s].age < FlashTicks => flashes'[s].active
      BY <3>4, Zenon DEF O!Live
    <3> QED BY <3>3, <3>5, <3>6, <3>7
  <2> QED BY <1>2, <2>2, <2>3
<1>4. FlashTypes'
  <2>1. flashes' \in [O!Slot -> [key : Keys \cup {NoKey}, active : BOOLEAN, age : 0..FlashTicks]]
    <3>1. CASE flashes' = flashes
      BY <1>1, <3>1 DEF FlashTypes, O!Age
    <3>2. CASE flashes' = O!Rendered
      <4>1. flashes' = [s \in O!Slot |-> flashes'[s]]
        BY <3>2 DEF O!Rendered
      <4> QED BY <1>3, <4>1
    <3> QED BY <1>2, <3>1, <3>2
  <2> QED BY <1>1, <1>2, <2>1 DEF FlashTypes, O!Age
<1>5. OneEach'
  BY <1>1, <1>2, <1>3 DEF OneEach
<1>6. ASSUME NEW j \in Keys, toggled'[j] < FlashTicks
      PROVE  \/ \E s \in O!Slot : flashes'[s].active /\ flashes'[s].key = j
             \/ Cardinality(Newer(j)') >= FlashSlots
  <2>1. toggled[j] < FlashTicks /\ Newer(j)' = Newer(j)
    BY <1>2, <1>6 DEF Newer
  <2>2. ASSUME NEW s \in O!Slot, flashes[s].active, flashes[s].key = j
        PROVE  flashes'[s].active /\ flashes'[s].key = j
    BY <1>1, <1>3, <2>1, <2>2 DEF OneEach
  <2> QED BY <1>1, <2>1, <2>2 DEF Displaced
<1>7. StillKnown'
  <2>1. /\ prev' = prev
        /\ marked => painted' = O!Paint /\ (crossed' <=> O!Wants /\ ~prev)
        /\ ~marked => painted' = painted /\ (crossed' <=> crossed)
    <3>1. CASE marked
      BY <3>1, Zenon DEF O!Flush
    <3>2. CASE ~marked
      BY <3>2, Zenon DEF O!Flush
    <3> QED BY <3>1, <3>2, Zenon DEF O!Flush
  <2>2. ~O!Wants => O!Paint = "none"
    BY DEF O!Wants, O!Paint
  <2>3. CASE marked
    <3>1. prev' \/ crossed' \/ painted' = "none"
      BY <2>1, <2>2, <2>3, Zenon
    <3> QED BY <3>1, Zenon DEF StillKnown
  <2>4. CASE ~marked
    <3>1. painted = "none" \/ prev \/ crossed
      BY <1>1, <2>4, Zenon DEF StillKnown
    <3>2. prev' \/ crossed' \/ painted' = "none"
      BY <2>1, <2>4, <3>1, Zenon
    <3> QED BY <3>2, Zenon DEF StillKnown
  <2> QED BY <2>3, <2>4
<1> QED BY <1>4, <1>5, <1>6, <1>7 DEF OverlayInv, Displaced

LEMMA OverlayGoesOn == OverlayInv /\ [O!Next]_overlayVars => OverlayInv'
<1> SUFFICES ASSUME OverlayInv, [O!Next]_overlayVars PROVE OverlayInv'
  OBVIOUS
<1>1. ASSUME flashes' = flashes, toggled' = toggled, StillKnown' PROVE OverlayInv'
  BY <1>1 DEF OverlayInv, FlashTypes, OneEach, Displaced, Newer
<1>2. CASE O!Progress \/ O!FnKey \/ UNCHANGED overlayVars
  <2>1. /\ flashes' = flashes /\ toggled' = toggled /\ painted' = painted
        /\ prev' = prev /\ marked' = marked /\ crossed' = crossed
    BY <1>2 DEF O!Progress, O!FnKey, overlayVars
  <2>2. StillKnown'
    BY <2>1, Zenon DEF OverlayInv, StillKnown
  <2> QED BY <1>1, <2>1, <2>2
<1>3. CASE O!BaseFrame
  <2>1. StillKnown'
    BY <1>3, Zenon DEF O!BaseFrame, StillKnown
  <2> QED BY <1>1, <1>3, <2>1 DEF O!BaseFrame
<1>4. CASE O!OverlayTick
  <2>1. StillKnown'
    BY <1>4, Zenon DEF O!OverlayTick, OverlayInv, StillKnown
  <2> QED BY <1>1, <1>4, <2>1 DEF O!OverlayTick
<1> QED BY <1>2, <1>3, <1>4, FlashKeeps, FlushKeeps, TickKeeps DEF O!Next

(* What the invariant says of what is painted.                              *)
LEMMA OverlayIs == OverlayInv => OverlayIsCurrent
<1> SUFFICES ASSUME OverlayInv PROVE OverlayIsCurrent
  OBVIOUS
<1>1. O!OverlayCleared
  BY Zenon DEF OverlayInv, StillKnown, O!OverlayCleared
<1>2. ASSUME NEW k \in Keys, toggled[k] < FlashTicks
      PROVE  \/ \E s \in O!Slot : O!Live(s) /\ flashes[s].key = k /\ flashes[s].age = toggled[k]
             \/ O!Cardinality({j \in Keys \ {k} : toggled[j] <= toggled[k]}) >= FlashSlots
  <2>1. O!Cardinality({j \in Keys \ {k} : toggled[j] <= toggled[k]}) = Cardinality(Newer(k))
    BY SameCount DEF Newer
  <2>2. CASE Cardinality(Newer(k)) >= FlashSlots
    BY <2>1, <2>2
  <2>3. ASSUME NEW s \in O!Slot, flashes[s].active, flashes[s].key = k
        PROVE  O!Live(s) /\ flashes[s].age = toggled[k]
    BY <1>2, <2>3 DEF OverlayInv, OneEach, O!Live
  <2> QED BY <1>2, <2>2, <2>3 DEF OverlayInv, Displaced
<1>3. O!NewestFlash
  BY <1>2 DEF O!NewestFlash, OverlayInv, OneEach
<1> QED BY <1>1, <1>3 DEF OverlayIsCurrent

(***************************************************************************)
(* The effects (E).  The remainder of a channel is what was asked for and  *)
(* not sent; a light that is left has fallen with every frame since the    *)
(* last key, and an effect leaves nothing to the next; what is left of a   *)
(* fade takes no more than the frames that are left of it.  An effect that *)
(* was selected within a frame may have left anything, within its range.   *)
(***************************************************************************)
LEMMA EffectSizes ==
  /\ Watched \in Leds /\ Near \in [Leds -> SUBSET Leds]
  /\ Depths \subseteq 0..255 /\ Hues \subseteq 0..255 /\ Values \subseteq 0..255
  /\ Bright \in 0..255 /\ FadeFrames \in Nat \ {0} /\ Waves \in Nat \ {0}
  BY PartsAssumption DEF E!EffectsAssumption

LEMMA RedIs == ASSUME NEW hue \in Nat PROVE E!Red(hue) \in 0..255
<1> DEFINE seg == hue \div 43
           off == (hue - seg * 43) * 6
<1>1. seg \in Nat /\ off \in 0..255
  OBVIOUS
<1> HIDE DEF seg, off
<1>2. E!Red(hue) = CASE seg = 0 -> 255 [] seg = 1 -> 255 - off [] seg \in {2, 3} -> 0
       [] seg = 4 -> off [] OTHER -> 255
  BY DEF E!Red, seg, off
<1> QED BY <1>1, <1>2

(* The remainder and the code make up what was asked for.                   *)
LEMMA DitherIs ==
  ASSUME NEW v \in Nat, resid \in 0..15
  PROVE  /\ E!Kept(v) \in 0..15 /\ E!Codes(v) \in Nat
         /\ v <= E!Most => E!Codes(v) * 16 + E!Kept(v) = v + resid
<1>1. v = 16 * (v \div 16) + (v % 16) /\ v \div 16 \in Nat /\ v % 16 \in 0..15
  OBVIOUS
<1> DEFINE w == v \div 16
           r == v % 16
<1> HIDE DEF w, r
<1>2. v = 16 * w + r /\ w \in Nat /\ r \in 0..15
  BY <1>1 DEF w, r
<1>3. /\ E!Kept(v) = resid + r - (IF resid + r >= 16 THEN 16 ELSE 0)
      /\ E!Codes(v) = E!Clamp(w + (IF resid + r >= 16 THEN 1 ELSE 0))
  BY DEF E!Kept, E!Codes, E!Carries, w, r
<1> QED BY <1>2, <1>3 DEF E!Clamp, E!Most
ShadeTypes ==
  /\ effect \in E!Kinds /\ phase \in 0..127 /\ torn \in BOOLEAN
  /\ resid \in 0..15 /\ due \in Nat /\ sent \in Nat

GlowTypes ==
  /\ glow \in [Leds -> 0..255] /\ waves \in [0..Waves - 1 -> 0..255]
  /\ nextWave \in 0..Waves - 1 /\ calm \in Nat

WindowTypes ==
  /\ live \in 0..255
  /\ window \in [lo : 0..255, hi : 0..255, seen : BOOLEAN]

LevelTypes == level \in [now : Nat, dec : Nat] /\ level.now <= 65280 /\ since \in Nat

EffectTypes == ShadeTypes /\ GlowTypes /\ WindowTypes /\ LevelTypes

\* What the remainder was when the run of frames began.
DitherOK == sent * 16 + resid - due \in 0..15

\* What effects leave to others is nothing.
GlowOK ==
  /\ E!LightFades
  /\ ~torn /\ effect \notin {"reactive", "sparkle", "ink"} => \A l \in Leds : glow[l] = 0
  /\ ~torn /\ effect # "shockwave" => \A w \in DOMAIN waves : waves[w] = 0

\* The rest of the fall is what the frames that are left take.
LevelOK ==
  ~torn => level.now = 0 \/ (level.dec > 0 /\ level.now + since * level.dec < FadeFrames * level.dec)

EffectInv == EffectTypes /\ DitherOK /\ GlowOK /\ LevelOK /\ E!WindowHolds

LEMMA ClampIs == ASSUME NEW c \in Nat PROVE E!Clamp(c) \in 0..255
  BY DEF E!Clamp

LEMMA WindowIs ==
  ASSUME EffectTypes
  PROVE  /\ E!Floor \in 0..255 /\ E!Ceiling \in 0..255
         /\ E!Floor <= E!Ceiling
         /\ E!Heat \in 0..255 /\ E!Instant \in 0..255
<1>1. /\ live \in 0..255 /\ window.lo \in 0..255 /\ window.hi \in 0..255 /\ phase \in 0..127
  BY DEF EffectTypes, WindowTypes, ShadeTypes
<1>2. E!Floor \in 0..255 /\ E!Ceiling \in 0..255 /\ E!Floor <= E!Ceiling
  <2>1. E!Floor \in 0..255 /\ (E!Floor <= live \/ E!Floor = window.lo)
        /\ (live < window.lo => E!Floor = live) /\ (live >= window.lo => E!Floor <= live)
    BY <1>1 DEF E!Floor
  <2>2. /\ live > window.hi => E!Ceiling = live
        /\ ~ (live > window.hi) => E!Ceiling = window.hi \/ (window.hi > E!Floor /\ E!Ceiling = window.hi - 1)
    BY DEF E!Ceiling
  <2> HIDE DEF E!Floor, E!Ceiling
  <2> QED BY <1>1, <2>1, <2>2
<1> DEFINE p == IF live > E!Floor + 6 THEN live - E!Floor - 6 ELSE 0
           span == IF E!Ceiling > E!Floor + 20 THEN E!Ceiling - E!Floor ELSE 255
<1>3. p \in Nat /\ span \in Nat \ {0}
  BY <1>1, <1>2
<1>4. E!Heat = E!Clamp((p * 255) \div span)
  BY DEF E!Heat
<1> HIDE DEF p, span
<1>5. (p * 255) \div span \in Nat
  BY <1>3, Product, Quotient
<1>6. E!Heat \in 0..255
  BY <1>4, <1>5, ClampIs
<1> QED BY <1>1, <1>2, <1>6 DEF E!Instant

LEMMA LevelIs ==
  ASSUME EffectTypes
  PROVE  /\ E!LevelAfter \in [now : Nat, dec : Nat] /\ E!LevelAfter.now <= 65280
         /\ E!Lit \in 0..255
<1>1. E!Instant \in 0..255
  BY WindowIs
<1>2. level \in [now : Nat, dec : Nat] /\ level.now <= 65280
  BY DEF EffectTypes, LevelTypes
<1>3. FadeFrames \in Nat \ {0}
  BY EffectSizes
<1>4. (E!Instant * 256) \div FadeFrames \in Nat
  BY <1>1, <1>3, Product, Quotient
<1>5. E!LevelAfter \in [now : Nat, dec : Nat] /\ E!LevelAfter.now <= 65280
  <2>1. CASE E!Instant * 256 >= level.now
    <3>1. E!LevelAfter = [now |-> E!Instant * 256, dec |-> (E!Instant * 256) \div FadeFrames + 1]
      BY <2>1 DEF E!LevelAfter, E!Decayed
    <3>2. (E!Instant * 256) \div FadeFrames + 1 \in Nat /\ E!Instant * 256 \in Nat /\ E!Instant * 256 <= 65280
      BY <1>1, <1>4
    <3> QED BY <3>1, <3>2
  <2>2. CASE ~ (E!Instant * 256 >= level.now)
    <3> DEFINE dec == IF level.dec # 0 THEN level.dec ELSE 1
    <3>1. E!LevelAfter = [level EXCEPT !.now = IF level.now > dec THEN level.now - dec ELSE 0]
      BY <2>2 DEF E!LevelAfter, E!Decayed
    <3>2. (IF level.now > dec THEN level.now - dec ELSE 0) \in Nat
          /\ (IF level.now > dec THEN level.now - dec ELSE 0) <= 65280
      BY <1>2
    <3> HIDE DEF dec
    <3> QED BY <1>2, <3>1, <3>2
  <2> QED BY <2>1, <2>2
<1>6. E!LevelAfter.now \in Nat /\ E!LevelAfter.now <= 65280
  BY <1>5
<1>7. E!LevelAfter.now \div 256 \in 0..255
  BY <1>6
<1> QED BY <1>5, <1>7 DEF E!Lit

LEMMA GlowIs ==
  ASSUME EffectTypes, NEW spark
  PROVE  /\ E!GlowAfter(spark) \in [Leds -> 0..255]
         /\ effect # "sparkle" => \A l \in Leds : \E m \in Leds :
              \/ effect \notin {"reactive", "ink"} /\ E!GlowAfter(spark)[l] = glow[l]
              \/ effect \in {"reactive", "ink"} /\ E!GlowAfter(spark)[l] = 0
              \/ effect \in {"reactive", "ink"} /\ E!GlowAfter(spark)[l] + 2 <= glow[m]
<1>1. glow \in [Leds -> 0..255] /\ Near \in [Leds -> SUBSET Leds]
  BY EffectSizes DEF EffectTypes, GlowTypes
<1>2. \A e \in 0..255 : /\ E!Fall(e, 4) \in 0..255 /\ (E!Fall(e, 4) = 0 \/ E!Fall(e, 4) + 2 <= e)
                        /\ E!Fall(e, 2) \in 0..255 /\ (E!Fall(e, 2) = 0 \/ E!Fall(e, 2) + 2 <= e)
                        /\ E!Fall(e, 10) \in 0..255 /\ (E!Fall(e, 10) = 0 \/ E!Fall(e, 10) + 2 <= e)
  BY DEF E!Fall
<1>3. CASE effect = "reactive"
  <2>1. E!GlowAfter(spark) = [l \in Leds |-> E!Fall(glow[l], 4)]
    BY <1>3 DEF E!GlowAfter
  <2> QED BY <1>1, <1>2, <1>3, <2>1
<1>4. CASE effect = "sparkle"
  <2>1. E!GlowAfter(spark) = [l \in Leds |-> IF l = spark THEN 255 ELSE E!Fall(glow[l], 2)]
    BY <1>4 DEF E!GlowAfter
  <2>2. ASSUME NEW l \in Leds PROVE E!GlowAfter(spark)[l] \in 0..255
    <3>1. glow[l] \in 0..255
      BY <1>1
    <3>2. E!Fall(glow[l], 2) \in 0..255
      BY <1>2, <3>1
    <3>3. E!GlowAfter(spark)[l] = IF l = spark THEN 255 ELSE E!Fall(glow[l], 2)
      BY <2>1
    <3> QED BY <3>2, <3>3
  <2>3. E!GlowAfter(spark) \in [Leds -> 0..255]
    BY <2>1, <2>2
  <2> QED BY <1>4, <2>3
<1>5. CASE effect = "ink"
  <2> DEFINE S(l) == {E!Fall(glow[l], 2)} \cup {E!Fall(glow[n], 10) : n \in Near[l]}
  <2>1. E!GlowAfter(spark) = [l \in Leds |-> E!Larger(S(l))]
    BY <1>5 DEF E!GlowAfter
  <2>2. ASSUME NEW l \in Leds
        PROVE  E!Larger(S(l)) \in 0..255 /\ \E m \in Leds : E!Larger(S(l)) = 0 \/ E!Larger(S(l)) + 2 <= glow[m]
    <3>1. S(l) \subseteq 0..255 /\ S(l) # {}
      BY <1>1, <1>2
    <3>2. \E x \in S(l) : \A y \in S(l) : y <= x
      BY <3>1, LargestIs, 255 \in Nat
    <3>3. E!Larger(S(l)) \in S(l)
      BY <3>2 DEF E!Larger
    <3>4. \A x \in S(l) : x \in 0..255 /\ \E m \in Leds : x = 0 \/ x + 2 <= glow[m]
      BY <1>1, <1>2
    <3> QED BY <3>3, <3>4
  <2> HIDE DEF S
  <2> QED BY <1>5, <2>1, <2>2
<1>6. CASE effect \notin {"reactive", "sparkle", "ink"}
  <2>1. E!GlowAfter(spark) = glow
    BY <1>6 DEF E!GlowAfter
  <2> QED BY <1>1, <1>6, <2>1
<1> QED BY <1>3, <1>4, <1>5, <1>6

LEMMA AskedIs ==
  ASSUME EffectTypes, NEW hue \in Hues, NEW v \in E!Strength, NEW spark
  PROVE  E!Scaled(E!Asked(hue, v, spark)) \in Nat
<1>1. /\ hue \in 0..255 /\ Bright \in 0..255
  BY EffectSizes
<1>2. v \in 0..255
  <2>1. Values \subseteq 0..255
    BY EffectSizes
  <2>2. v \in Values \/ v = 0 \/ \E w \in DOMAIN waves : v = waves[w]
    BY DEF E!Strength
  <2>3. \A w \in DOMAIN waves : waves[w] \in 0..255
    BY DEF EffectTypes, GlowTypes
  <2>4. CASE v \in Values BY <2>1, <2>4
  <2>5. CASE v = 0 BY <2>5
  <2>6. CASE \E w \in DOMAIN waves : v = waves[w] BY <2>3, <2>6, Zenon
  <2> QED BY <2>2, <2>4, <2>5, <2>6
<1>3. E!Red(hue) \in 0..255 /\ E!Lit \in 0..255 /\ glow[Watched] \in 0..255
  <2>1. glow \in [Leds -> 0..255] /\ Watched \in Leds
    BY EffectSizes DEF EffectTypes, GlowTypes
  <2>2. E!Red(hue) \in 0..255
    BY <1>1, RedIs
  <2>3. E!Lit \in 0..255
    BY LevelIs
  <2> QED BY <2>1, <2>2, <2>3
<1>4. E!GlowAfter(spark)[Watched] \in 0..255
  BY GlowIs, EffectSizes
<1>5. \A a, c \in 0..255 : a * c \in Nat
  BY Product
<1>6. E!AuroraRed(hue, v) \in Nat /\ E!RippleRed(hue, v) \in Nat /\ E!RainRed(hue, v) \in Nat
      /\ E!ShockwaveRed(hue, v) \in Nat
  <2>1. E!Red(hue) * v \in Nat
    BY <1>2, <1>3, <1>5
  <2> QED BY <2>1 DEF E!AuroraRed, E!RippleRed, E!RainRed, E!ShockwaveRed
<1>7. E!InkRed(hue) \in Nat
  <2>1. E!Red(hue) * glow[Watched] \in Nat
    BY <1>3, <1>5
  <2> QED BY <2>1 DEF E!InkRed
<1>8. E!ReactiveRed(hue) \in Nat
  <2> DEFINE e == glow[Watched]
             white == 16 - e \div 16
  <2>1. e \in 0..255 /\ white \in 0..255
    BY <1>3
  <2> HIDE DEF e, white
  <2>2. E!Red(hue) * white \in Nat
    BY <1>3, <1>5, <2>1
  <2>3. e * 16 + E!Red(hue) * white \in Nat
    BY <2>1, <2>2
  <2>4. (e * 16 + E!Red(hue) * white) * e \in Nat
    BY <2>1, <2>3, Product
  <2>5. ((e * 16 + E!Red(hue) * white) * e) \div 255 \in Nat
    BY <2>4, Quotient
  <2> QED BY <2>5 DEF E!ReactiveRed, e, white
<1>9. E!AnalogRed \in Nat
  <2>1. 170 + (E!Lit * 85) \div 255 \in Nat
    BY <1>3
  <2>2. E!Red(170 + (E!Lit * 85) \div 255) \in 0..255
    BY <2>1, RedIs
  <2>3. E!Red(170 + (E!Lit * 85) \div 255) * E!Lit \in Nat
    BY <1>3, <1>5, <2>2
  <2> QED BY <2>3 DEF E!AnalogRed
<1>10. E!HeatmapRed \in Nat
  <2>1. 85 - (E!Lit * 85) \div 255 \in Nat /\ 64 + (E!Lit * 191) \div 255 \in Nat
    BY <1>3
  <2>2. E!Red(85 - (E!Lit * 85) \div 255) \in Nat
    BY <2>1, RedIs
  <2>3. E!Red(85 - (E!Lit * 85) \div 255) * (64 + (E!Lit * 191) \div 255) \in Nat
    BY <2>1, <2>2, Product
  <2> QED BY <2>3 DEF E!HeatmapRed
<1>11. E!PlasmaRed(hue) \in Nat /\ E!FireRed(v) \in Nat /\ E!SparkleRed(spark) \in Nat
  BY <1>2, <1>3, <1>4 DEF E!PlasmaRed, E!FireRed, E!SparkleRed
<1>12. E!Asked(hue, v, spark) \in Nat
  BY <1>6, <1>7, <1>8, <1>9, <1>10, <1>11 DEF E!Asked, EffectTypes, ShadeTypes, E!Kinds
<1>13. E!Asked(hue, v, spark) * Bright \in Nat
  BY <1>1, <1>12, Product
<1> QED BY <1>13, Quotient DEF E!Scaled
LEMMA EffectsBegin == E!Init => EffectInv
<1> SUFFICES ASSUME E!Init PROVE EffectInv
  OBVIOUS
<1> USE DEF E!Init, E!Dark, E!Calm, E!Unread, E!Zero
<1>1. ShadeTypes
  <2>1. torn \in BOOLEAN
    BY Zenon
  <2>2. effect \in E!Kinds /\ phase \in 0..127
    OBVIOUS
  <2>3. resid \in 0..15 /\ due \in Nat /\ sent \in Nat
    OBVIOUS
  <2> QED BY <2>1, <2>2, <2>3 DEF ShadeTypes
<1>2. GlowTypes
  BY EffectSizes DEF GlowTypes
<1>3. WindowTypes
  BY DEF WindowTypes
<1>4. LevelTypes
  BY DEF LevelTypes
<1>5. DitherOK /\ LevelOK /\ E!WindowHolds
  BY DEF DitherOK, LevelOK, E!WindowHolds
<1>6. GlowOK
  BY DEF GlowOK, E!LightFades
<1> QED BY <1>1, <1>2, <1>3, <1>4, <1>5, <1>6 DEF EffectInv, EffectTypes

(* What is left alone keeps its range.                                      *)
LEMMA Same ==
  /\ ShadeTypes /\ <<effect, phase, torn, resid, due, sent>>'
                  = <<effect, phase, torn, resid, due, sent>> => ShadeTypes'
  /\ GlowTypes /\ <<glow, waves, nextWave, calm>>' = <<glow, waves, nextWave, calm>> => GlowTypes'
  /\ WindowTypes /\ <<live, window>>' = <<live, window>> => WindowTypes'
  /\ LevelTypes /\ <<level, since>>' = <<level, since>> => LevelTypes'
<1>1. ASSUME ShadeTypes, <<effect, phase, torn, resid, due, sent>>'
                  = <<effect, phase, torn, resid, due, sent>> PROVE ShadeTypes'
  <2>1. torn' \in BOOLEAN
    BY <1>1, Zenon DEF ShadeTypes
  <2> QED BY <1>1, <2>1 DEF ShadeTypes
<1>2. ASSUME GlowTypes, <<glow, waves, nextWave, calm>>' = <<glow, waves, nextWave, calm>>
      PROVE  GlowTypes'
  BY <1>2 DEF GlowTypes
<1>3. ASSUME WindowTypes, <<live, window>>' = <<live, window>> PROVE WindowTypes'
  BY <1>3 DEF WindowTypes
<1>4. ASSUME LevelTypes, <<level, since>>' = <<level, since>> PROVE LevelTypes'
  BY <1>4 DEF LevelTypes
<1> QED BY <1>1, <1>2, <1>3, <1>4

LEMMA KeyIsKept == ASSUME EffectInv, NEW l \in Leds, E!Key(l) PROVE EffectInv'
<1>1. /\ effect' = effect /\ phase' = phase /\ torn' = torn /\ resid' = resid
      /\ due' = due /\ sent' = sent /\ live' = live /\ window' = window
      /\ level' = level /\ since' = since /\ calm' = 0
  BY DEF E!Key, E!depthVars, E!channelVars
<1> DEFINE rings == 0..Waves - 1
<1>2. Waves \in Nat \ {0}
  BY EffectSizes
<1>a. glow \in [Leds -> 0..255]
  BY DEF EffectInv, EffectTypes, GlowTypes
<1>b. waves \in [rings -> 0..255] /\ nextWave \in rings
  BY DEF EffectInv, EffectTypes, GlowTypes
<1>3. /\ effect \in {"reactive", "ink"} => glow' = [glow EXCEPT ![l] = 255]
      /\ effect \notin {"reactive", "ink"} => glow' = glow
      /\ effect = "shockwave" => waves' = [waves EXCEPT ![nextWave] = 255]
                                 /\ nextWave' = (nextWave + 1) % Waves
      /\ effect # "shockwave" => waves' = waves /\ nextWave' = nextWave
  BY DEF E!Key
<1>4. glow' \in [Leds -> 0..255] /\ waves' \in [rings -> 0..255]
  <2>1. glow' = glow \/ glow' = [glow EXCEPT ![l] = 255]
    BY <1>3
  <2>2. glow' \in [Leds -> 0..255]
    BY <1>a, <2>1
  <2>3. waves' = waves \/ waves' = [waves EXCEPT ![nextWave] = 255]
    BY <1>3
  <2> HIDE DEF rings
  <2>4. waves' \in [rings -> 0..255]
    BY <1>b, <2>3
  <2> QED BY <2>2, <2>4
<1>5. nextWave' \in rings
  BY <1>2, <1>b, <1>3
<1>6. EffectTypes'
  <2>1. ShadeTypes' /\ WindowTypes' /\ LevelTypes'
    BY <1>1, Same DEF EffectInv, EffectTypes
  <2>2. GlowTypes'
    BY <1>1, <1>4, <1>5 DEF GlowTypes
  <2> QED BY <2>1, <2>2 DEF EffectTypes
<1>7. DitherOK' /\ LevelOK' /\ E!WindowHolds'
  BY <1>1 DEF EffectInv, DitherOK, LevelOK, E!WindowHolds
<1>8. GlowOK'
  <2> HIDE DEF rings
  <2>1. \A k \in Leds : glow'[k] + 2 * calm' <= 255
    BY <1>1, <1>4
  <2>2. \A w \in rings : waves'[w] + calm' <= 255
    BY <1>1, <1>4
  <2>3. DOMAIN waves' = rings
    BY <1>4
  <2>4. E!LightFades'
    BY <2>1, <2>2, <2>3, Zenon DEF E!LightFades
  <2>5. ~torn' /\ effect' \notin {"reactive", "sparkle", "ink"}
          => \A k \in Leds : glow'[k] = 0
    BY <1>1, <1>3 DEF EffectInv, GlowOK
  <2>6. ~torn' /\ effect' # "shockwave" => \A w \in DOMAIN waves' : waves'[w] = 0
    BY <1>1, <1>3 DEF EffectInv, GlowOK
  <2> QED BY <2>4, <2>5, <2>6 DEF GlowOK
<1> QED BY <1>6, <1>7, <1>8 DEF EffectInv

LEMMA DepthIsRead == ASSUME EffectInv, NEW d \in Depths, E!Depth(d) PROVE EffectInv'
<1>1. /\ effect' = effect /\ phase' = phase /\ torn' = torn /\ resid' = resid
      /\ due' = due /\ sent' = sent /\ live' = d
      /\ window' = [window EXCEPT !.seen = TRUE]
      /\ level' = level /\ since' = since /\ calm' = calm /\ glow' = glow
      /\ waves' = waves /\ nextWave' = nextWave
  BY DEF E!Depth, E!keyVars, E!channelVars
<1>2. window \in [lo : 0..255, hi : 0..255, seen : BOOLEAN] /\ d \in 0..255
  BY EffectSizes DEF EffectInv, EffectTypes, WindowTypes
<1>3. window' \in [lo : 0..255, hi : 0..255, seen : BOOLEAN]
      /\ window'.lo = window.lo /\ window'.hi = window.hi
  BY <1>1, <1>2
<1>4. EffectTypes'
  <2>1. ShadeTypes' /\ GlowTypes' /\ LevelTypes'
    BY <1>1, Same DEF EffectInv, EffectTypes
  <2>2. WindowTypes'
    BY <1>1, <1>2, <1>3 DEF WindowTypes
  <2> QED BY <2>1, <2>2 DEF EffectTypes
<1>5. DitherOK' /\ LevelOK' /\ E!WindowHolds'
  BY <1>1, <1>3 DEF EffectInv, DitherOK, LevelOK, E!WindowHolds
<1>6. GlowOK'
  BY <1>1 DEF EffectInv, GlowOK, E!LightFades
<1> QED BY <1>4, <1>5, <1>6 DEF EffectInv

LEMMA SelectedAnew == ASSUME EffectInv, NEW e \in E!Kinds, E!Select(e) PROVE EffectInv'
<1>1. /\ effect' = e /\ phase' = phase /\ torn' = torn /\ resid' = 0
      /\ due' = 0 /\ sent' = 0 /\ live' = 0 /\ window' = E!Unread
      /\ level' = E!Zero /\ since' = 0 /\ calm' = 0 /\ glow' = E!Dark
      /\ waves' = E!Calm /\ nextWave' = 0
  BY DEF E!Select, E!Selected
<1>2. ShadeTypes'
  <2>1. torn' \in BOOLEAN
    BY <1>1, Zenon DEF EffectInv, EffectTypes, ShadeTypes
  <2>2. effect' \in E!Kinds /\ phase' \in 0..127
    BY <1>1 DEF EffectInv, EffectTypes, ShadeTypes
  <2> QED BY <1>1, <2>1, <2>2 DEF ShadeTypes
<1>3. GlowTypes'
  BY <1>1, EffectSizes DEF GlowTypes, E!Dark, E!Calm
<1>4. WindowTypes'
  BY <1>1 DEF WindowTypes, E!Unread
<1>5. LevelTypes'
  BY <1>1 DEF LevelTypes, E!Zero
<1>6. DitherOK' /\ LevelOK' /\ E!WindowHolds'
  BY <1>1 DEF DitherOK, LevelOK, E!WindowHolds, E!Unread, E!Zero
<1>7. GlowOK'
  BY <1>1 DEF GlowOK, E!LightFades, E!Dark, E!Calm
<1> QED BY <1>2, <1>3, <1>4, <1>5, <1>6, <1>7 DEF EffectInv, EffectTypes

LEMMA NoneDue ==
  ASSUME NEW s, NEW d, NEW r \in 0..15, s = 0, d = 0 PROVE s * 16 + r - d \in 0..15
  OBVIOUS

LEMMA SelectedWithin ==
  ASSUME EffectInv, NEW e \in E!Kinds, E!SelectWithin(e) PROVE EffectInv'
<1>1. /\ effect' = e /\ phase' = phase /\ torn' = TRUE
      /\ due' = 0 /\ sent' = 0 /\ live' = 0 /\ since' = 0 /\ calm' = 0
      /\ waves' = E!Calm /\ nextWave' = 0
  BY DEF E!SelectWithin, E!Selected
<1>2. resid' \in 0..15
  <2>1. PICK hue \in Hues, v \in E!Strength :
          resid' \in {0, E!Kept(E!Scaled(E!Asked(hue, v, NoSpark)))}
    BY DEF E!SelectWithin
  <2>2. E!Scaled(E!Asked(hue, v, NoSpark)) \in Nat
    BY AskedIs DEF EffectInv
  <2>3. E!Kept(E!Scaled(E!Asked(hue, v, NoSpark))) \in 0..15
    BY <2>2, DitherIs DEF EffectInv, EffectTypes, ShadeTypes
  <2> QED BY <2>1, <2>3
<1>3. ShadeTypes'
  <2>1. effect' \in E!Kinds /\ phase' \in 0..127 /\ torn' \in BOOLEAN
    BY <1>1 DEF EffectInv, EffectTypes, ShadeTypes
  <2> QED BY <1>1, <1>2, <2>1 DEF ShadeTypes
<1>4. GlowTypes'
  <2>1. PICK S \in SUBSET Leds :
          glow' = IF effect \in {"reactive", "sparkle", "ink"}
                  THEN [l \in Leds |-> IF l \in S THEN E!GlowAfter(NoSpark)[l] ELSE 0]
                  ELSE E!Dark
    BY DEF E!SelectWithin
  <2>2. E!GlowAfter(NoSpark) \in [Leds -> 0..255]
    BY GlowIs DEF EffectInv
  <2>3. glow' \in [Leds -> 0..255]
    BY <2>1, <2>2 DEF E!Dark
  <2> QED BY <1>1, <2>3, EffectSizes DEF GlowTypes, E!Calm
<1>5. WindowTypes' /\ E!WindowHolds'
  <2>1. \/ window' \in {E!Unread, [E!Unread EXCEPT !.seen = TRUE]}
        \/ window' = [E!Unread EXCEPT !.lo = E!Floor, !.hi = E!Ceiling]
    BY DEF E!SelectWithin
  <2>2. E!Floor \in 0..255 /\ E!Ceiling \in 0..255 /\ E!Floor <= E!Ceiling
    BY WindowIs DEF EffectInv
  <2>3. CASE window' \in {E!Unread, [E!Unread EXCEPT !.seen = TRUE]}
    <3>1. \E b \in BOOLEAN : window' = [lo |-> 255, hi |-> 0, seen |-> b]
      BY <2>3 DEF E!Unread
    <3> QED BY <1>1, <3>1 DEF WindowTypes, E!WindowHolds
  <2>4. CASE window' = [E!Unread EXCEPT !.lo = E!Floor, !.hi = E!Ceiling]
    <3>1. window' = [lo |-> E!Floor, hi |-> E!Ceiling, seen |-> FALSE]
      BY <2>4 DEF E!Unread
    <3> QED BY <1>1, <2>2, <3>1 DEF WindowTypes, E!WindowHolds
  <2> QED BY <2>1, <2>3, <2>4
<1>6. LevelTypes'
  <2>1. level' = E!Zero \/ level' = [E!LevelAfter EXCEPT !.dec = 0]
    BY DEF E!SelectWithin
  <2>2. E!LevelAfter \in [now : Nat, dec : Nat] /\ E!LevelAfter.now <= 65280
    BY LevelIs DEF EffectInv
  <2>3. level' \in [now : Nat, dec : Nat] /\ level'.now <= 65280
    BY <2>1, <2>2 DEF E!Zero
  <2> QED BY <1>1, <2>3 DEF LevelTypes
<1>7. LevelOK' /\ GlowOK'
  BY <1>1, Zenon DEF LevelOK, GlowOK, E!LightFades
<1>8. DitherOK'
  <2>1. sent' = 0 /\ due' = 0
    BY <1>1
  <2> QED BY <1>2, <2>1, NoneDue DEF DitherOK
<1> QED BY <1>8, <1>3, <1>4, <1>5, <1>6, <1>7 DEF EffectInv, EffectTypes

LEMMA LightIsLess ==
  ASSUME NEW g \in 0..255, NEW h \in 0..255, NEW c \in Nat,
         h = 0 \/ h + 2 * c <= 255, g + 2 <= h
  PROVE  g + 2 * (c + 1) <= 255
  OBVIOUS

LEMMA FrameIsShown == ASSUME EffectInv, E!Frame PROVE EffectInv'
<1>1. /\ effect' = effect /\ phase' = (phase + 1) % 128 /\ torn' = torn
      /\ live' = live /\ nextWave' = nextWave /\ calm' = calm + 1
      /\ waves' = IF effect = "shockwave" THEN [w \in DOMAIN waves |-> E!Fall(waves[w], 1)]
                  ELSE waves
  BY DEF E!Frame
<1>2. PICK hue \in Hues, v \in E!Strength, spark \in E!Sparks :
        /\ E!Counts(E!Scaled(E!Asked(hue, v, spark)))
        /\ resid' = E!Kept(E!Scaled(E!Asked(hue, v, spark)))
        /\ glow' = E!GlowAfter(spark)
  BY DEF E!Frame
<1> DEFINE value == E!Scaled(E!Asked(hue, v, spark))
<1>3. value \in Nat
  BY AskedIs DEF EffectInv
<1>4. E!Counts(value) /\ resid' = E!Kept(value)
  BY <1>2
<1> HIDE DEF value
<1>5. resid' \in 0..15 /\ due' \in Nat /\ sent' \in Nat /\ DitherOK'
  <2>1. resid \in 0..15 /\ due \in Nat /\ sent \in Nat /\ sent * 16 + resid - due \in 0..15
    BY DEF EffectInv, EffectTypes, ShadeTypes, DitherOK
  <2>2. /\ E!Kept(value) \in 0..15 /\ E!Codes(value) \in Nat
        /\ value <= E!Most => E!Codes(value) * 16 + E!Kept(value) = value + resid
    BY <1>3, <2>1, DitherIs
  <2>3. CASE value > E!Most
    BY <1>4, <2>2, <2>3 DEF E!Counts, DitherOK
  <2>4. CASE value <= E!Most
    BY <1>3, <1>4, <2>1, <2>2, <2>4 DEF E!Counts, DitherOK, E!Most
  <2> QED BY <1>3, <2>3, <2>4 DEF E!Most
<1>6. ShadeTypes'
  <2>1. torn' \in BOOLEAN
    BY <1>1, Zenon DEF EffectInv, EffectTypes, ShadeTypes
  <2>2. effect' \in E!Kinds /\ phase' \in 0..127
    BY <1>1 DEF EffectInv, EffectTypes, ShadeTypes
  <2> QED BY <1>5, <2>1, <2>2 DEF ShadeTypes
<1>7. glow' \in [Leds -> 0..255]
  BY <1>2, GlowIs DEF EffectInv
<1>8. /\ waves \in [0..Waves - 1 -> 0..255] /\ waves' \in [0..Waves - 1 -> 0..255]
      /\ \A w \in DOMAIN waves' :
           w \in DOMAIN waves
           /\ IF effect = "shockwave" THEN waves'[w] = E!Fall(waves[w], 1) ELSE waves'[w] = waves[w]
  <2> DEFINE rings == 0..Waves - 1
  <2>1. waves \in [rings -> 0..255]
    BY DEF EffectInv, EffectTypes, GlowTypes
  <2> HIDE DEF rings
  <2>2. CASE effect = "shockwave"
    <3>1. waves' = [w \in rings |-> E!Fall(waves[w], 1)]
      BY <1>1, <2>1, <2>2
    <3>2. ASSUME NEW w \in rings PROVE E!Fall(waves[w], 1) \in 0..255
      BY <2>1 DEF E!Fall
    <3>3. waves' \in [rings -> 0..255]
      BY <3>1, <3>2
    <3> QED BY <2>1, <2>2, <3>1, <3>3 DEF rings
  <2>3. CASE effect # "shockwave"
    BY <1>1, <2>1, <2>3 DEF rings
  <2> QED BY <2>2, <2>3
<1>9. GlowTypes'
  BY <1>1, <1>7, <1>8 DEF GlowTypes, EffectInv, EffectTypes
<1>10. GlowOK'
  <2>1. SUFFICES ASSUME ~torn' PROVE
          /\ effect' # "sparkle" =>
               /\ \A l \in Leds : glow'[l] = 0 \/ glow'[l] + 2 * calm' <= 255
               /\ \A w \in DOMAIN waves' : waves'[w] = 0 \/ waves'[w] + calm' <= 255
          /\ effect' \notin {"reactive", "sparkle", "ink"} => \A l \in Leds : glow'[l] = 0
          /\ effect' # "shockwave" => \A w \in DOMAIN waves' : waves'[w] = 0
    BY Zenon DEF GlowOK, E!LightFades
  <2>2. ~torn
    BY <1>1, <2>1, Zenon
  <2>3. /\ effect # "sparkle" =>
             /\ \A l \in Leds : glow[l] = 0 \/ glow[l] + 2 * calm <= 255
             /\ \A w \in DOMAIN waves : waves[w] = 0 \/ waves[w] + calm <= 255
        /\ effect \notin {"reactive", "sparkle", "ink"} => \A l \in Leds : glow[l] = 0
        /\ effect # "shockwave" => \A w \in DOMAIN waves : waves[w] = 0
    BY <2>2, Zenon DEF EffectInv, GlowOK, E!LightFades
  <2>4. glow \in [Leds -> 0..255] /\ calm \in Nat
    BY DEF EffectInv, EffectTypes, GlowTypes
  <2>5. effect # "sparkle" => \A l \in Leds : \E m \in Leds :
          \/ effect \notin {"reactive", "ink"} /\ glow'[l] = glow[l]
          \/ effect \in {"reactive", "ink"} /\ glow'[l] = 0
          \/ effect \in {"reactive", "ink"} /\ glow'[l] + 2 <= glow[m]
    BY <1>2, GlowIs DEF EffectInv
  <2>6. ASSUME effect # "sparkle", NEW l \in Leds
        PROVE  /\ glow'[l] = 0 \/ glow'[l] + 2 * calm' <= 255
               /\ effect \notin {"reactive", "ink"} => glow'[l] = 0
    <3>1. PICK m \in Leds :
          \/ effect \notin {"reactive", "ink"} /\ glow'[l] = glow[l]
          \/ effect \in {"reactive", "ink"} /\ glow'[l] = 0
          \/ effect \in {"reactive", "ink"} /\ glow'[l] + 2 <= glow[m]
      BY <2>5, <2>6
    <3>2. glow'[l] \in 0..255 /\ glow[m] \in 0..255 /\ (glow[m] = 0 \/ glow[m] + 2 * calm <= 255)
      BY <1>7, <2>3, <2>4, <2>6
    <3>3. effect \notin {"reactive", "ink"} => glow[l] = 0
      BY <2>3, <2>6
    <3>4. glow'[l] = 0 \/ glow'[l] + 2 * (calm + 1) <= 255
      <4>1. calm \in Nat
        BY <2>4
      <4>2. CASE glow'[l] = glow[l] /\ glow[l] = 0
        BY <4>2
      <4>3. CASE glow'[l] = 0
        BY <4>3
      <4>4. CASE glow'[l] + 2 <= glow[m]
        BY <3>2, <4>1, <4>4, LightIsLess
      <4> QED BY <3>1, <3>3, <4>2, <4>3, <4>4
    <3>5. effect \notin {"reactive", "ink"} => glow'[l] = 0
      BY <3>1, <3>3
    <3>6. calm' = calm + 1
      BY <1>1
    <3> QED BY <3>4, <3>5, <3>6
  <2>7. ASSUME NEW w \in DOMAIN waves'
        PROVE  /\ effect # "sparkle" => waves'[w] = 0 \/ waves'[w] + calm' <= 255
               /\ effect # "shockwave" => waves'[w] = 0
    <3>1. w \in DOMAIN waves /\ waves[w] \in 0..255
          /\ IF effect = "shockwave" THEN waves'[w] = E!Fall(waves[w], 1) ELSE waves'[w] = waves[w]
      BY <1>8, <2>7
    <3>2. /\ effect # "sparkle" => waves[w] = 0 \/ waves[w] + calm <= 255
          /\ effect # "shockwave" => waves[w] = 0
      BY <2>3, <3>1
    <3> QED BY <1>1, <2>4, <3>1, <3>2 DEF E!Fall
  <2> QED BY <1>1, <2>6, <2>7
<1>11. WindowTypes' /\ E!WindowHolds'
  <2>1. window \in [lo : 0..255, hi : 0..255, seen : BOOLEAN] /\ live' \in 0..255
    BY <1>1 DEF EffectInv, EffectTypes, WindowTypes
  <2>2. window' = window \/ window' = [window EXCEPT !.lo = E!Floor, !.hi = E!Ceiling]
    BY DEF E!Frame
  <2>3. E!Floor \in 0..255 /\ E!Ceiling \in 0..255 /\ E!Floor <= E!Ceiling
    BY WindowIs DEF EffectInv
  <2>4. CASE window' = window
    BY <2>1, <2>4 DEF EffectInv, WindowTypes, E!WindowHolds
  <2>5. CASE window' = [window EXCEPT !.lo = E!Floor, !.hi = E!Ceiling]
    <3>1. window' \in [lo : 0..255, hi : 0..255, seen : BOOLEAN]
          /\ window'.lo = E!Floor /\ window'.hi = E!Ceiling
      BY <2>1, <2>3, <2>5
    <3> QED BY <2>1, <2>3, <3>1 DEF WindowTypes, E!WindowHolds
  <2> QED BY <2>2, <2>4, <2>5
<1>12. LevelTypes' /\ LevelOK'
  <2>1. level \in [now : Nat, dec : Nat] /\ level.now <= 65280 /\ since \in Nat
    BY DEF EffectInv, EffectTypes, LevelTypes
  <2>2. /\ ~E!Follows => level' = level /\ since' = since
        /\ E!Follows => level' = E!LevelAfter
        /\ E!Follows /\ E!Instant * 256 >= level.now => since' = 0
        /\ E!Follows /\ ~ (E!Instant * 256 >= level.now) => since' = since + 1
    BY DEF E!Frame
  <2>3. E!LevelAfter \in [now : Nat, dec : Nat] /\ E!LevelAfter.now <= 65280
    BY LevelIs DEF EffectInv
  <2>4. LevelTypes'
    BY <2>1, <2>2, <2>3 DEF LevelTypes
  <2>5. FadeFrames \in Nat \ {0} /\ E!Instant \in 0..255
    BY EffectSizes, WindowIs DEF EffectInv
  <2>0. ~torn' => ~torn
    BY <1>1, Zenon
  <2>6. CASE ~E!Follows
    <3>1. level' = level /\ since' = since
      BY <2>2, <2>6
    <3>2. ~torn' => level.now = 0 \/ (level.dec > 0 /\ level.now + since * level.dec < FadeFrames * level.dec)
      BY <2>0, Zenon DEF EffectInv, LevelOK
    <3> QED BY <2>4, <3>1, <3>2 DEF LevelOK
  <2>7. CASE E!Follows /\ E!Instant * 256 >= level.now
    <3> DEFINE top == E!Instant * 256
    <3>1. level' = [now |-> top, dec |-> top \div FadeFrames + 1] /\ since' = 0
      BY <2>2, <2>7 DEF E!LevelAfter, E!Decayed
    <3>2. top \in Nat
      BY <2>5
    <3> HIDE DEF top
    <3>3. top \div FadeFrames \in Nat /\ top < FadeFrames * (top \div FadeFrames + 1)
      BY <2>5, <3>2, Quotient, QuotientAbove
    <3>4. level'.now = top /\ level'.dec = top \div FadeFrames + 1
      BY <3>1
    <3>5. since' * level'.dec = 0
      BY <3>1, <3>3, <3>4
    <3>6. level'.dec \in Nat /\ level'.dec > 0 /\ FadeFrames * level'.dec > top
      BY <3>3, <3>4
    <3>7. level'.dec > 0 /\ level'.now + since' * level'.dec < FadeFrames * level'.dec
      <4> DEFINE all == FadeFrames * level'.dec
      <4>1. all \in Nat /\ all > top
        BY <2>5, <3>6, Product
      <4> HIDE DEF all
      <4>2. level'.now + since' * level'.dec < all
        BY <3>2, <3>4, <3>5, <4>1
      <4> QED BY <3>6, <4>2 DEF all
    <3> QED BY <2>4, <3>7, Zenon DEF LevelOK
  <2>8. CASE E!Follows /\ ~ (E!Instant * 256 >= level.now)
    <3>1. SUFFICES ASSUME ~torn PROVE
            level'.now = 0 \/ (level'.dec > 0 /\ level'.now + since' * level'.dec < FadeFrames * level'.dec)
      BY <2>0, <2>4, Zenon DEF LevelOK
    <3>2. level.now # 0
      BY <2>1, <2>5, <2>8
    <3>3. level.dec > 0 /\ level.now + since * level.dec < FadeFrames * level.dec
      BY <3>1, <3>2 DEF EffectInv, LevelOK
    <3>4. level' = [level EXCEPT !.now = IF level.now > level.dec THEN level.now - level.dec ELSE 0]
          /\ since' = since + 1
      BY <2>1, <2>2, <2>8, <3>3 DEF E!LevelAfter, E!Decayed
    <3>5. level'.dec = level.dec
          /\ level'.now = IF level.now > level.dec THEN level.now - level.dec ELSE 0
      BY <2>1, <3>4
    <3>6. (since + 1) * level.dec = since * level.dec + level.dec
      BY <2>1, NextStep
    <3>7. since * level.dec \in Nat /\ FadeFrames * level.dec \in Nat
      BY <2>1, <2>5, Product
    <3> DEFINE gone == since * level.dec
               all == FadeFrames * level.dec
               after == (since + 1) * level.dec
    <3>8. since' * level'.dec = after /\ FadeFrames * level'.dec = all
      BY <3>4, <3>5
    <3> HIDE DEF gone, all, after
    <3>9. gone \in Nat /\ all \in Nat /\ after = gone + level.dec /\ level.now + gone < all
      BY <3>3, <3>6, <3>7 DEF gone, all, after
    <3> QED BY <2>1, <3>3, <3>5, <3>8, <3>9
  <2> QED BY <2>4, <2>6, <2>7, <2>8
<1> QED BY <1>5, <1>6, <1>9, <1>10, <1>11, <1>12 DEF EffectInv, EffectTypes

LEMMA EffectsGoOn == EffectInv /\ [E!Next]_effectVars => EffectInv'
<1> SUFFICES ASSUME EffectInv, [E!Next]_effectVars PROVE EffectInv'
  OBVIOUS
<1>1. CASE E!Next
  BY <1>1, FrameIsShown, KeyIsKept, DepthIsRead, SelectedAnew, SelectedWithin DEF E!Next
<1>2. CASE UNCHANGED effectVars
  <2>1. EffectTypes'
    BY <1>2, Same DEF EffectInv, EffectTypes, effectVars
  <2>2. DitherOK' /\ GlowOK' /\ LevelOK' /\ E!WindowHolds'
    BY <1>2 DEF EffectInv, effectVars, DitherOK, GlowOK, LevelOK, E!WindowHolds, E!LightFades
  <2> QED BY <2>1, <2>2 DEF EffectInv
<1> QED BY <1>1, <1>2

(* What the invariant says of the light. *)
LEMMA EffectsFaded == EffectInv => EffectsFade
<1> SUFFICES ASSUME EffectInv PROVE EffectsFade
  OBVIOUS
<1>1. E!DitherIsExact
  BY DEF EffectInv, EffectTypes, ShadeTypes, DitherOK, E!DitherIsExact
<1>2. E!LightFades /\ E!WindowHolds
  BY DEF EffectInv, GlowOK
<1>3. E!FadeEnds
  <2>1. SUFFICES ASSUME ~torn, since >= FadeFrames PROVE level.now = 0
    BY DEF E!FadeEnds
  <2>2. level \in [now : Nat, dec : Nat] /\ since \in Nat /\ FadeFrames \in Nat
    BY EffectSizes DEF EffectInv, EffectTypes, LevelTypes
  <2>3. FadeFrames * level.dec <= since * level.dec
    BY <2>1, <2>2, FallIsShort
  <2>4. level.now = 0 \/ level.now + since * level.dec < FadeFrames * level.dec
    BY <2>1 DEF EffectInv, LevelOK
  <2>5. since * level.dec \in Nat /\ FadeFrames * level.dec \in Nat
    BY <2>2, Product
  <2> QED BY <2>2, <2>3, <2>4, <2>5
<1> QED BY <1>1, <1>2, <1>3 DEF EffectsFade

(***************************************************************************)
(* The flash.  The records of the ring lie in the order of their distance  *)
(* behind the newest, the head, each as much older in its sequence: so the *)
(* scan finds the head, whatever wrapped, and the slot the cursor is at    *)
(* may lose its record.  Best is a recursive function: that it exists, and *)
(* what it finds, is shown by way of the least slot at which it would not  *)
(* be so.  MarkOK says how far a format is, SavedOK that what is saved is  *)
(* not what is erased next, and what is waited for under way or done.      *)
(***************************************************************************)
\* The slots of the ring, and the step of the search for the best of them.
Ring == 0..RingSlots - 1

BestStep(readable, f, s) ==
  IF s = 0 THEN RingSlots
  ELSE LET b == f[s - 1]
       IN IF /\ s - 1 \in readable /\ N!IsRecord(s - 1)
             /\ b = RingSlots \/ N!Newer(cells[N!Slot(s - 1)][2], cells[N!Slot(b)][2])
          THEN s - 1 ELSE b

\* How far a slot, or a sequence, lies back; and the one after it.
Dist(n, s) == IF s <= n THEN n - s ELSE n - s + RingSlots
Back(q, d) == IF d <= q THEN q - d ELSE q - d + SeqMod
Up(n, size) == IF n + 1 = size THEN 0 ELSE n + 1

\* Slot n holds the newest record, and a slot d back one that is d older, if any.
Headed(n, q) ==
  /\ cells[N!Slot(n)] = N!Record(q, newest)
  /\ \A s \in Ring : N!IsRecord(s) => cells[N!Slot(s)][2] = Back(q, Dist(n, s))

Bare == newest = 0 /\ \A s \in Ring : ~N!IsRecord(s)

\* The operations of a dump, and what is left of a format.
Wipe == N!Erase(N!Slot(cursor.slot))
Put == N!Program(N!Slot(cursor.slot), N!Record(cursor.seq, crashes))
Rest(k) == [i \in 1..Sectors + 3 - k |-> N!Format[i + k - 1]]

\* The chip works on a cell that is torn, and nothing brings the vendor back.
ChipOK ==
  /\ cells = [p \in N!Places |-> cells[p]] /\ busy.at \in N!Places
  /\ busy # N!None => cells[busy.at] \in {N!Torn, N!Stale}
  /\ busy.value # N!Stale
  /\ cursor.slot \in Ring

OpsOK ==
  /\ step \in {"off", "mark", "format", "scan", "run", "preflight", "dump"}
  /\ step \in {"off", "mark", "scan", "preflight"} => ops = <<>> /\ ~waiting
  /\ step = "run" => \/ ops = <<>> /\ ~waiting
                     \/ \E p \in N!Nvs : ops = <<N!Erase(p)>> \/ ops = <<N!Program(p, N!Data)>>
  /\ step = "dump" => ops = <<Wipe, Put>> \/ ops = <<Put>>

NoStale == \A p \in N!Nvs : cells[p] # N!Stale

\* The operation that is waited for is under way, or was done.
Underway == busy = Head(ops) \/ (busy = N!None /\ cells[Head(ops).at] = Head(ops).value)

Formatted(k) ==
  /\ ops = Rest(k)
  /\ \A i \in 1..Sectors : i < k => cells[<<"nvs", i>>] # N!Stale
  /\ ~waiting => busy = N!None /\ (k = Sectors + 2 => cells[N!Mark] = N!Blank)
  /\ waiting => Underway

MarkOK ==
  /\ cells[N!Mark] = N!Magic \/ busy.value = N!Magic => NoStale
  /\ step = "mark" => busy = N!None
  /\ step = "format" => \E k \in 1..Sectors + 2 : Formatted(k)

SavedOK ==
  ~broken =>
    /\ step = "scan" => busy = N!None
    /\ step \in {"scan", "run"} => cells[N!Mark] = N!Magic
    /\ step = "run" /\ ~waiting => busy = N!None
    /\ step = "run" /\ ~waiting /\ ops # <<>> /\ Head(ops).value = N!Data
         => cells[Head(ops).at] = N!Blank
    /\ step = "run" /\ waiting => Underway
    /\ saved => /\ step # "format" /\ cells[N!Mark] = N!Magic
                /\ \E p \in N!Nvs : /\ cells[p] = N!Data
                                    /\ step = "run" /\ ops # <<>> /\ Head(ops).value = N!Blank
                                         => p # Head(ops).at

Known == Bare \/ \E n \in Ring, q \in 0..SeqMod - 1 : Headed(n, q)
Primed ==
  \/ Bare /\ cursor = N!Unprimed
  \/ \E n \in Ring, q \in 0..SeqMod - 1 :
       Headed(n, q) /\ cursor = [slot |-> Up(n, RingSlots), seq |-> Up(q, SeqMod)]

Dumping ==
  \/ Primed /\ ops = <<Wipe, Put>> /\ ~waiting /\ busy = N!None
  \/ Primed /\ ops = <<Wipe, Put>> /\ waiting
       /\ (busy = Wipe \/ (busy = N!None /\ cells[N!Slot(cursor.slot)] = N!Blank))
  \/ Primed /\ ops = <<Put>> /\ ~waiting /\ busy = N!None
       /\ cells[N!Slot(cursor.slot)] = N!Blank
  \/ Primed /\ ops = <<Put>> /\ waiting /\ busy = Put
  \/ /\ ops = <<Put>> /\ waiting /\ busy = N!None /\ newest = crashes
     /\ cursor.seq \in 0..SeqMod - 1 /\ Headed(cursor.slot, cursor.seq)

RingOK ==
  ~early /\ ~unread /\ ~broken =>
    /\ step # "dump" => Known /\ busy.at \notin {N!Slot(s) : s \in Ring} /\ Len(busy.value) # 3
    /\ step = "run" => last = newest /\ Primed
    /\ step = "preflight" => Primed
    /\ step = "dump" => Dumping

FlashInv == ChipOK /\ OpsOK /\ MarkOK /\ SavedOK /\ RingOK

LEMMA RingSizes ==
  /\ Sectors \in Nat \ {0} /\ RingSlots \in Nat \ {0, 1}
  /\ SeqMod \in Nat /\ SeqMod >= 2 * RingSlots /\ MaxCrashes \in Nat
  BY PartsAssumption DEF N!NorFlashAssumption

LEMMA Remainder ==
  ASSUME NEW m \in Nat \ {0}, NEW x \in Int
  PROVE  /\ x \in 0..m - 1 => x % m = x
         /\ x + m \in 0..m - 1 => x % m = x + m
         /\ x - m \in 0..m - 1 => x % m = x - m
  OBVIOUS

(* The search goes through the slots in turn.                               *)
LEMMA SearchIs ==
  ASSUME NEW readable
  PROVE  \E f : /\ f = [s \in 0..RingSlots |-> BestStep(readable, f, s)]
                /\ N!Best(readable) = f[RingSlots]
<1> DEFINE Holds(m) == \E f : f = [s \in 0..m |-> BestStep(readable, f, s)]
           Bad == {m \in Nat : ~Holds(m)}
<1>1. Holds(0)
  <2> DEFINE f == [s \in 0..0 |-> RingSlots]
  <2>1. f = [s \in 0..0 |-> BestStep(readable, f, s)]
    BY DEF BestStep
  <2> QED BY <2>1
<1>2. ASSUME NEW m \in Nat \ {0}, Holds(m - 1) PROVE Holds(m)
  <2>1. PICK f : f = [s \in 0..m - 1 |-> BestStep(readable, f, s)]
    BY <1>2
  <2> DEFINE g == [s \in 0..m |-> IF s = m THEN BestStep(readable, f, m) ELSE f[s]]
  <2>2. ASSUME NEW s \in 0..m PROVE g[s] = BestStep(readable, g, s)
    <3>1. CASE s = 0
      BY <2>1, <3>1 DEF BestStep
    <3>2. CASE s # 0
      <4>1. s - 1 \in 0..m - 1 /\ s - 1 \in 0..m /\ s - 1 # m
        BY <3>2
      <4>2. g[s - 1] = f[s - 1]
        BY <4>1
      <4>3. BestStep(readable, g, s) = BestStep(readable, f, s)
        BY <4>2 DEF BestStep
      <4>4. g[s] = BestStep(readable, f, s)
        BY <2>1
      <4> QED BY <4>3, <4>4
    <3> QED BY <3>1, <3>2
  <2>3. g = [s \in 0..m |-> g[s]]
    OBVIOUS
  <2> HIDE DEF g
  <2>4. g = [s \in 0..m |-> BestStep(readable, g, s)]
    BY <2>2, <2>3
  <2> QED BY <2>4
<1> HIDE DEF Holds
<1>3. Bad = {}
  <2>1. SUFFICES ASSUME Bad # {} PROVE FALSE
    OBVIOUS
  <2>2. PICK m \in Bad : \A y \in Bad : m <= y
    BY <2>1, LeastIs
  <2>3. m \in Nat \ {0} /\ m - 1 \in Nat /\ ~Holds(m)
    BY <1>1, <2>2
  <2>4. Holds(m - 1)
    BY <2>2, <2>3
  <2> QED BY <1>2, <2>3, <2>4
<1>4. Holds(RingSlots)
  BY <1>3, RingSizes
<1>5. N!Best(readable)
        = (CHOOSE f : f = [s \in 0..RingSlots |-> BestStep(readable, f, s)])[RingSlots]
  BY Zenon DEF N!Best, BestStep
<1> DEFINE h == CHOOSE f : f = [s \in 0..RingSlots |-> BestStep(readable, f, s)]
<1>6. h = [s \in 0..RingSlots |-> BestStep(readable, h, s)]
  BY <1>4, Zenon DEF Holds
<1> QED BY <1>5, <1>6, Zenon

LEMMA BestAmong == ASSUME NEW readable PROVE N!Best(readable) \in 0..RingSlots
<1>1. PICK f : /\ f = [s \in 0..RingSlots |-> BestStep(readable, f, s)]
               /\ N!Best(readable) = f[RingSlots]
  BY SearchIs
<1>2. \A s \in 0..RingSlots : f[s] = BestStep(readable, f, s)
  BY <1>1
<1> DEFINE Bad == {s \in 0..RingSlots : f[s] \notin 0..RingSlots}
<1>3. Bad = {}
  <2>1. SUFFICES ASSUME Bad # {} PROVE FALSE
    OBVIOUS
  <2>0. Bad \subseteq Nat
    BY RingSizes
  <2>2. PICK m \in Bad : \A y \in Bad : m <= y
    BY <2>0, <2>1, LeastIs
  <2>3. m \in 0..RingSlots /\ f[m] \notin 0..RingSlots /\ m # 0
    BY <1>2, <2>2, RingSizes DEF BestStep
  <2>4. m - 1 \in 0..RingSlots /\ ~ (m <= m - 1)
    BY <2>0, <2>3, RingSizes
  <2>5. f[m - 1] \in 0..RingSlots
    BY <2>2, <2>4
  <2>6. f[m] = m - 1 \/ f[m] = f[m - 1]
    BY <1>2, <2>3 DEF BestStep
  <2> QED BY <2>3, <2>4, <2>5, <2>6
<1>4. RingSlots \in 0..RingSlots
  BY RingSizes
<1> QED BY <1>1, <1>3, <1>4

(* Of two records of the ring the newer one is the one nearer the head.     *)
LEMMA NewerIsNearer ==
  ASSUME NEW n \in Ring, NEW q \in 0..SeqMod - 1, NEW s \in Ring, NEW b \in Ring
  PROVE  N!Newer(Back(q, Dist(n, s)), Back(q, Dist(n, b))) <=> Dist(n, s) <= Dist(n, b)
<1> DEFINE ds == Dist(n, s)
           db == Dist(n, b)
           x == Back(q, ds) - Back(q, db)
<1>1. ds \in Ring /\ db \in Ring
  BY RingSizes DEF Ring, Dist
<1> HIDE DEF ds, db
<1>2. /\ x \in Int
      /\ x = db - ds \/ x = db - ds + SeqMod \/ x = db - ds - SeqMod
      /\ x \in -(SeqMod - 1)..SeqMod - 1
  BY <1>1, RingSizes DEF Ring, Back
<1>3. /\ x \in 0..SeqMod - 1 => x % SeqMod = x
      /\ x + SeqMod \in 0..SeqMod - 1 => x % SeqMod = x + SeqMod
  BY <1>2, Remainder, RingSizes
<1>4. SeqMod \div 2 >= RingSlots /\ SeqMod \div 2 \in Nat /\ 2 * (SeqMod \div 2) <= SeqMod
  BY RingSizes
<1> HIDE DEF x
<1>5. ds <= db => x % SeqMod < SeqMod \div 2
  BY <1>1, <1>2, <1>3, <1>4, RingSizes DEF Ring
<1>6. ~ (ds <= db) => ~ (x % SeqMod < SeqMod \div 2)
  BY <1>1, <1>2, <1>3, <1>4, RingSizes DEF Ring
<1> QED BY <1>5, <1>6 DEF N!Newer, ds, db, x

(* The search finds the head of the ring.                                   *)
LEMMA BestIs ==
  ASSUME NEW n \in Ring, NEW q \in 0..SeqMod - 1, Headed(n, q) PROVE N!Best(Ring) = n
<1>1. PICK f : f = [s \in 0..RingSlots |-> BestStep(Ring, f, s)] /\ N!Best(Ring) = f[RingSlots]
  BY SearchIs
<1>2. \A s \in 0..RingSlots : f[s] = BestStep(Ring, f, s)
  BY <1>1
<1> DEFINE Nearest(b, s) == /\ b \in Ring /\ b < s /\ N!IsRecord(b)
                            /\ \A t \in Ring : t < s /\ N!IsRecord(t) => Dist(n, b) <= Dist(n, t)
           Best(s) == \/ f[s] = RingSlots /\ \A t \in Ring : t < s => ~N!IsRecord(t)
                      \/ Nearest(f[s], s)
           Bad == {s \in 0..RingSlots : ~Best(s)}
<1>3. Best(0)
  BY <1>2, RingSizes DEF BestStep, Ring
<1>4. ASSUME NEW s \in 0..RingSlots, s # 0, Best(s - 1) PROVE Best(s)
  <2> DEFINE r == s - 1
             b == f[r]
  <2>1. r \in Ring /\ r \in 0..RingSlots /\ RingSlots \notin Ring
        /\ \A t \in Ring : t < s <=> t = r \/ t < r
    BY <1>4, RingSizes DEF Ring
  <2>2. f[s] = IF /\ r \in Ring /\ N!IsRecord(r)
                  /\ b = RingSlots \/ N!Newer(cells[N!Slot(r)][2], cells[N!Slot(b)][2])
               THEN r ELSE b
    BY <1>2, <1>4 DEF BestStep
  <2>3. \/ b = RingSlots /\ \A t \in Ring : t < r => ~N!IsRecord(t)
        \/ Nearest(b, r)
    BY <1>4
  <2>0. r < s /\ r \in Int /\ s \in Int
    BY <1>4
  <2>d. \A t \in Ring : Dist(n, t) \in Nat
    BY RingSizes DEF Ring, Dist
  <2> HIDE DEF r, b
  <2>4. CASE ~N!IsRecord(r)
    <3>1. f[s] = b
      BY <2>2, <2>4
    <3>2. CASE b = RingSlots /\ \A t \in Ring : t < r => ~N!IsRecord(t)
      BY <2>1, <2>4, <3>1, <3>2
    <3>3. CASE Nearest(b, r)
      <4>1. b < s
        BY <2>0, <3>3 DEF Ring
      <4> QED BY <2>1, <2>4, <3>1, <3>3, <4>1
    <3> QED BY <2>3, <3>2, <3>3
  <2>5. CASE N!IsRecord(r) /\ b = RingSlots
    <3>1. f[s] = r /\ \A t \in Ring : t < r => ~N!IsRecord(t)
      BY <2>1, <2>2, <2>3, <2>5
    <3> QED BY <2>0, <2>1, <2>d, <2>5, <3>1
  <2>6. CASE N!IsRecord(r) /\ b # RingSlots
    <3>1. Nearest(b, r)
      BY <2>3, <2>6
    <3>2. N!Newer(cells[N!Slot(r)][2], cells[N!Slot(b)][2]) <=> Dist(n, r) <= Dist(n, b)
      <4>1. cells[N!Slot(r)][2] = Back(q, Dist(n, r)) /\ cells[N!Slot(b)][2] = Back(q, Dist(n, b))
        BY <2>1, <2>6, <3>1 DEF Headed
      <4> QED BY <2>1, <3>1, <4>1, NewerIsNearer
    <3>3. CASE Dist(n, r) <= Dist(n, b)
      <4>1. f[s] = r
        BY <2>1, <2>2, <2>6, <3>2, <3>3
      <4>2. ASSUME NEW t \in Ring, t < s, N!IsRecord(t) PROVE Dist(n, r) <= Dist(n, t)
        <5>1. t = r \/ Dist(n, b) <= Dist(n, t)
          BY <2>1, <3>1, <4>2
        <5> QED BY <2>1, <2>d, <3>1, <3>3, <5>1
      <4> QED BY <2>0, <2>1, <2>6, <4>1, <4>2
    <3>4. CASE ~ (Dist(n, r) <= Dist(n, b))
      <4>1. f[s] = b
        BY <2>2, <2>6, <3>2, <3>4
      <4>2. ASSUME NEW t \in Ring, t < s, N!IsRecord(t) PROVE Dist(n, b) <= Dist(n, t)
        <5>1. t = r \/ Dist(n, b) <= Dist(n, t)
          BY <2>1, <3>1, <4>2
        <5> QED BY <2>1, <2>d, <3>1, <3>4, <5>1
      <4>3. b < s
        BY <2>0, <3>1 DEF Ring
      <4> QED BY <3>1, <4>1, <4>2, <4>3
    <3> QED BY <3>3, <3>4
  <2> QED BY <2>4, <2>5, <2>6
<1> HIDE DEF Best
<1>5. Bad = {}
  <2>1. SUFFICES ASSUME Bad # {} PROVE FALSE
    OBVIOUS
  <2>0. Bad \subseteq Nat
    BY RingSizes
  <2>2. PICK m \in Bad : \A y \in Bad : m <= y
    BY <2>0, <2>1, LeastIs
  <2>3. m \in 0..RingSlots /\ m # 0 /\ m - 1 \in 0..RingSlots /\ ~Best(m)
    BY <1>3, <2>0, <2>2, RingSizes
  <2>4. Best(m - 1)
    BY <2>2, <2>3
  <2> QED BY <1>4, <2>3, <2>4
<1>6. Best(RingSlots)
  BY <1>5, RingSizes
<1>7. N!IsRecord(n) /\ Dist(n, n) = 0
  BY DEF Headed, N!IsRecord, N!Record, Dist, Ring
<1>8. Nearest(f[RingSlots], RingSlots)
  BY <1>6, <1>7, RingSizes DEF Best, Ring
<1>9. Dist(n, f[RingSlots]) <= 0 /\ f[RingSlots] \in Ring
  BY <1>7, <1>8, RingSizes DEF Ring
<1>10. \A s \in Ring : Dist(n, s) <= 0 => s = n
  BY RingSizes DEF Ring, Dist
<1> QED BY <1>1, <1>9, <1>10

LEMMA BareIs == ASSUME Bare PROVE N!Best(Ring) = RingSlots
<1>1. PICK f : f = [s \in 0..RingSlots |-> BestStep(Ring, f, s)] /\ N!Best(Ring) = f[RingSlots]
  BY SearchIs
<1>2. \A s \in 0..RingSlots : f[s] = BestStep(Ring, f, s)
  BY <1>1
<1> DEFINE Bad == {s \in 0..RingSlots : f[s] # RingSlots}
<1>3. Bad = {}
  <2>1. SUFFICES ASSUME Bad # {} PROVE FALSE
    OBVIOUS
  <2>0. Bad \subseteq Nat
    BY RingSizes
  <2>2. PICK m \in Bad : \A y \in Bad : m <= y
    BY <2>0, <2>1, LeastIs
  <2>3. m \in 0..RingSlots /\ f[m] # RingSlots /\ m # 0
    BY <1>2, <2>2 DEF BestStep
  <2>4. m - 1 \in 0..RingSlots /\ f[m - 1] = RingSlots
    <3>1. m - 1 \in 0..RingSlots /\ ~ (m <= m - 1)
      BY <2>0, <2>3, RingSizes
    <3> QED BY <2>2, <3>1
  <2>5. f[m] = f[m - 1]
    BY <1>2, <2>3 DEF BestStep, Bare
  <2> QED BY <2>3, <2>4, <2>5
<1>4. RingSlots \in 0..RingSlots
  BY RingSizes
<1> QED BY <1>1, <1>3, <1>4

LEMMA CellsDiffer ==
  /\ N!Blank # N!Stale /\ N!Blank # N!Torn /\ N!Blank # N!Data /\ N!Blank # N!Magic
  /\ N!Stale # N!Torn /\ N!Stale # N!Data /\ N!Stale # N!Magic
  /\ N!Torn # N!Data /\ N!Torn # N!Magic /\ N!Data # N!Magic
  /\ Len(N!Blank) # 3 /\ Len(N!Stale) # 3 /\ Len(N!Torn) # 3 /\ Len(N!Data) # 3
  /\ Len(N!Magic) # 3
  /\ \A q, i : /\ Len(N!Record(q, i)) = 3 /\ N!Record(q, i)[2] = q /\ N!Record(q, i)[3] = i
              /\ N!Record(q, i) \notin {N!Blank, N!Stale, N!Torn, N!Data, N!Magic}
  BY DEF N!Blank, N!Stale, N!Torn, N!Data, N!Magic, N!Record

LEMMA PlacesDiffer ==
  /\ N!Mark \in N!Places /\ N!Mark \notin N!Nvs /\ N!Nvs \subseteq N!Places
  /\ \A s \in Ring : N!Slot(s) \in N!Places /\ N!Slot(s) # N!Mark /\ N!Slot(s) \notin N!Nvs
  /\ \A s, t \in Ring : N!Slot(s) = N!Slot(t) => s = t
  /\ \A i \in 1..Sectors : <<"nvs", i>> \in N!Nvs
  /\ \A p \in N!Nvs : \E i \in 1..Sectors : p = <<"nvs", i>>
  BY DEF N!Mark, N!Places, N!Nvs, N!Slot, Ring

LEMMA FormatIs ==
  /\ \A i \in 1..Sectors : N!Format[i] = N!Erase(<<"nvs", i>>)
  /\ N!Format[Sectors + 1] = N!Erase(N!Mark)
  /\ N!Format[Sectors + 2] = N!Program(N!Mark, N!Magic)
  /\ N!Format = Rest(1)
<1> DEFINE wipes == [i \in 1..Sectors |-> N!Erase(<<"nvs", i>>)]
           ends == <<N!Erase(N!Mark), N!Program(N!Mark, N!Magic)>>
<1>1. wipes \in Seq({wipes[i] : i \in 1..Sectors}) /\ Len(wipes) = Sectors
  BY RingSizes
<1>2. Len(ends) = 2 /\ ends[1] = N!Erase(N!Mark) /\ ends[2] = N!Program(N!Mark, N!Magic)
  OBVIOUS
<1>3. N!Format = wipes \o ends
  BY DEF N!Format
<1>4. N!Format = [i \in 1..Sectors + 2 |-> IF i <= Sectors THEN wipes[i] ELSE ends[i - Sectors]]
  BY <1>1, <1>2, <1>3, RingSizes
<1>5. /\ \A i \in 1..Sectors : N!Format[i] = N!Erase(<<"nvs", i>>)
      /\ N!Format[Sectors + 1] = N!Erase(N!Mark)
      /\ N!Format[Sectors + 2] = N!Program(N!Mark, N!Magic)
  BY <1>2, <1>4, RingSizes
<1> HIDE DEF wipes, ends
<1>6. N!Format = [i \in 1..Sectors + 2 |-> N!Format[i]]
  BY <1>4
<1>7. Rest(1) = [i \in 1..Sectors + 2 |-> N!Format[i]]
  BY RingSizes DEF Rest
<1> QED BY <1>5, <1>6, <1>7

LEMMA RestIs ==
  ASSUME NEW k \in 1..Sectors + 2
  PROVE  /\ Head(Rest(k)) = N!Format[k] /\ Rest(k) # <<>>
         /\ k < Sectors + 2 => Tail(Rest(k)) = Rest(k + 1) /\ Rest(k + 1) # <<>>
         /\ k = Sectors + 2 => Tail(Rest(k)) = <<>>
<1> DEFINE S == {N!Format[i] : i \in 1..Sectors + 2}
<1>1. \A j \in 1..Sectors + 2 : Rest(j) \in Seq(S) /\ Len(Rest(j)) = Sectors + 3 - j
                               /\ Rest(j)[1] = N!Format[j]
  BY RingSizes DEF Rest
<1> HIDE DEF S
<1> DEFINE r == Rest(k)
<1>2. /\ r \in Seq(S) /\ Len(r) = Sectors + 3 - k /\ r[1] = N!Format[k]
      /\ Len(r) \in Nat /\ Len(r) >= 1
  BY <1>1, RingSizes
<1>3. \A i \in 1..Sectors + 3 - k : r[i] = N!Format[i + k - 1]
  BY DEF Rest
<1> HIDE DEF r
<1>4. r # <<>> /\ Head(r) = N!Format[k]
  BY <1>2
<1>5. /\ Tail(r) \in Seq(S) /\ Len(Tail(r)) = Sectors + 2 - k
      /\ \A i \in 1..Sectors + 2 - k : Tail(r)[i] = r[i + 1]
  BY <1>2, <1>4, HeadTailProperties, RingSizes
<1>6. ASSUME k < Sectors + 2 PROVE Tail(r) = Rest(k + 1) /\ Rest(k + 1) # <<>>
  <2> DEFINE t == Rest(k + 1)
  <2>1. k + 1 \in 1..Sectors + 2
    BY <1>6, RingSizes
  <2>2. t \in Seq(S) /\ Len(t) = Sectors + 2 - k /\ Len(t) \in Nat /\ Len(t) >= 1
    BY <1>1, <1>6, <2>1, RingSizes
  <2>3. \A i \in 1..Sectors + 2 - k : t[i] = N!Format[i + k]
    BY RingSizes DEF Rest
  <2>4. \A i \in 1..Sectors + 2 - k : Tail(r)[i] = N!Format[i + k]
    BY <1>3, <1>5, RingSizes
  <2> HIDE DEF t
  <2>5. Tail(r) = t
    BY <1>5, <2>2, <2>3, <2>4, SeqEqual
  <2> QED BY <2>2, <2>5 DEF t
<1>7. ASSUME k = Sectors + 2 PROVE Tail(r) = <<>>
  BY <1>5, <1>7, RingSizes, EmptySeq
<1> QED BY <1>4, <1>6, <1>7 DEF r

LEMMA OpIs ==
  /\ \A p, v : N!Program(p, v).at = p /\ N!Program(p, v).value = v
              /\ [N!Program(p, v) EXCEPT !.value = N!Torn] = N!Program(p, N!Torn)
  /\ \A p : N!Erase(p).at = p /\ N!Erase(p).value = N!Blank
           /\ N!Erase(p) = N!Program(p, N!Blank)
  /\ N!None = N!Program(N!Mark, N!Torn)
  BY DEF N!Program, N!Erase, N!None

(* A command tears one cell, which is not the vendor's unless it was.       *)
LEMMA StartIs ==
  ASSUME ChipOK, NEW p \in N!Places, NEW v, v # N!Stale, N!Start(N!Program(p, v))
  PROVE  /\ cells' = [r \in N!Places |-> cells'[r]] /\ busy'.at \in N!Places
         /\ busy'.value # N!Stale
         /\ busy' # N!None => cells'[busy'.at] \in {N!Torn, N!Stale}
         /\ busy'.value \in {busy.value, v, N!Torn}
         /\ \A r \in N!Places : \/ cells'[r] = cells[r]
                               \/ /\ r = p /\ cells'[r] \in {N!Torn, N!Stale}
                                  /\ cells'[r] = N!Stale => cells[r] = N!Stale
         /\ busy = N!None /\ (v = N!Blank \/ cells[p] = N!Blank) => busy' = N!Program(p, v)
         /\ busy = N!None => busy'.at = p /\ busy'.value \in {v, N!Torn}
<1> DEFINE op == N!Program(p, v)
<1>1. op.at = p /\ op.value = v /\ [op EXCEPT !.value = N!Torn] = N!Program(p, N!Torn)
      /\ N!Program(p, N!Torn).at = p /\ N!Program(p, N!Torn).value = N!Torn
  BY OpIs
<1>2. /\ busy # N!None => cells' = cells /\ busy' = busy
      /\ busy = N!None =>
           /\ busy' = IF op.value = N!Blank \/ cells[op.at] = N!Blank THEN op
                      ELSE [op EXCEPT !.value = N!Torn]
           /\ cells' = [cells EXCEPT ![op.at] = IF @ = N!Stale THEN N!Stale ELSE N!Torn]
  BY Zenon DEF N!Start
<1> HIDE DEF op
<1>3. CASE busy # N!None
  BY <1>2, <1>3 DEF ChipOK
<1>4. CASE busy = N!None
  <2>1. busy' = IF v = N!Blank \/ cells[p] = N!Blank THEN op ELSE N!Program(p, N!Torn)
    BY <1>1, <1>2, <1>4
  <2>2. busy'.at = p /\ busy'.value \in {v, N!Torn}
    BY <1>1, <2>1
  <2>3. cells' = [cells EXCEPT ![p] = IF cells[p] = N!Stale THEN N!Stale ELSE N!Torn]
    BY <1>1, <1>2, <1>4
  <2>4. cells = [r \in N!Places |-> cells[r]]
    BY DEF ChipOK
  <2>5. cells' = [r \in N!Places |-> cells'[r]]
    BY <2>3, <2>4
  <2>6. \A r \in N!Places : cells'[r] = IF r # p THEN cells[r]
                                       ELSE IF cells[p] = N!Stale THEN N!Stale ELSE N!Torn
    BY <2>3, <2>4
  <2> QED BY <1>4, <2>1, <2>2, <2>5, <2>6, CellsDiffer DEF op
<1> QED BY <1>3, <1>4

(* What is left alone in the ring leaves its order.                         *)
LEMMA RingAlone ==
  ASSUME newest' = newest, \A s \in Ring : cells'[N!Slot(s)] = cells[N!Slot(s)]
  PROVE  /\ Bare => Bare'
         /\ \A n \in Ring, q \in 0..SeqMod - 1 : Headed(n, q) => Headed(n, q)'
         /\ Known => Known'
         /\ Primed /\ cursor' = cursor => Primed'
<1>1. \A s \in Ring : N!IsRecord(s)' <=> N!IsRecord(s)
  BY DEF N!IsRecord
<1>2. Bare => Bare'
  BY <1>1 DEF Bare
<1>3. \A n \in Ring, q \in 0..SeqMod - 1 : Headed(n, q) => Headed(n, q)'
  BY <1>1 DEF Headed
<1> QED BY <1>2, <1>3 DEF Known, Primed

LEMMA PrimedIsKnown == Primed => Known
  BY DEF Primed, Known

(* A slot behind the head may lose its record.                              *)
LEMMA BehindTheHead ==
  ASSUME newest' = newest, NEW c \in Ring, ~N!IsRecord(c)',
         \A s \in Ring : s # c => cells'[N!Slot(s)] = cells[N!Slot(s)],
         Primed, cursor.slot = c, cursor' = cursor
  PROVE  Primed'
<1>1. \A s \in Ring : s # c => (N!IsRecord(s)' <=> N!IsRecord(s))
  BY DEF N!IsRecord
<1>2. CASE Bare /\ cursor = N!Unprimed
  BY <1>1, <1>2 DEF Bare, Primed
<1>3. ASSUME NEW n \in Ring, NEW q \in 0..SeqMod - 1, Headed(n, q),
             cursor = [slot |-> Up(n, RingSlots), seq |-> Up(q, SeqMod)]
      PROVE  Primed'
  <2>1. c = Up(n, RingSlots)
    BY <1>3
  <2>2. n # c
    BY <2>1, RingSizes DEF Up, Ring
  <2>3. Headed(n, q)'
    BY <1>1, <1>3, <2>2 DEF Headed
  <2> QED BY <1>3, <2>3 DEF Primed
<1> QED BY <1>2, <1>3 DEF Primed

(* A record written there is the new head.                                  *)
LEMMA NewHead ==
  ASSUME newest' = crashes, cursor.slot \in Ring, Primed,
         cells'[N!Slot(cursor.slot)] = N!Record(cursor.seq, crashes),
         \A s \in Ring : s # cursor.slot => cells'[N!Slot(s)] = cells[N!Slot(s)],
         cursor' = cursor
  PROVE  cursor.seq \in 0..SeqMod - 1 /\ Headed(cursor.slot, cursor.seq)'
<1> DEFINE c == cursor.slot
           z == cursor.seq
<1>0. z \in 0..SeqMod - 1
  BY RingSizes DEF Primed, Up, N!Unprimed
<1>1. \A s \in Ring : s # c => (N!IsRecord(s)' <=> N!IsRecord(s))
  BY DEF N!IsRecord
<1>2. Dist(c, c) = 0 /\ Back(z, 0) = z
  BY <1>0, RingSizes DEF Dist, Back, Ring
<1>3. cells'[N!Slot(c)][2] = z
  BY CellsDiffer
<1>4. ASSUME NEW s \in Ring, s # c, N!IsRecord(s)'
      PROVE  cells'[N!Slot(s)][2] = Back(z, Dist(c, s))
  <2>1. N!IsRecord(s) /\ cells'[N!Slot(s)] = cells[N!Slot(s)]
    BY <1>1, <1>4
  <2>2. PICK n \in Ring, q \in 0..SeqMod - 1 :
          Headed(n, q) /\ cursor = [slot |-> Up(n, RingSlots), seq |-> Up(q, SeqMod)]
    BY <2>1 DEF Primed, Bare
  <2>3. c = Up(n, RingSlots) /\ z = Up(q, SeqMod)
    BY <2>2
  <2>4. cells[N!Slot(s)][2] = Back(q, Dist(n, s))
    BY <2>1, <2>2 DEF Headed
  <2>5. Dist(n, s) \in 0..RingSlots - 2 /\ Dist(c, s) = Dist(n, s) + 1
    BY <1>4, <2>3, RingSizes DEF Dist, Up, Ring
  <2>6. Back(z, Dist(n, s) + 1) = Back(q, Dist(n, s))
    BY <2>3, <2>5, RingSizes DEF Back, Up
  <2> QED BY <2>1, <2>4, <2>5, <2>6
<1> QED BY <1>0, <1>2, <1>3, <1>4 DEF Headed

LEMMA FlashBegins == ASSUME N!Init PROVE FlashInv
<1>1. PICK m \in {N!Blank, N!Stale} :
        cells = [p \in N!Places |-> IF p \in N!Nvs THEN N!Stale
                                   ELSE IF p = N!Mark THEN m ELSE N!Blank]
  BY DEF N!Init
<1>2. /\ busy = N!None /\ step = "off" /\ ops = <<>> /\ ~waiting
      /\ cursor = N!Unprimed /\ last = 0 /\ newest = 0 /\ ~saved
  BY DEF N!Init
<1>3. busy.at = N!Mark /\ busy.value = N!Torn
  BY <1>2, OpIs
<1>4. cursor.slot = 0
  BY <1>2 DEF N!Unprimed
<1>5. ChipOK
  BY <1>1, <1>2, <1>3, <1>4, CellsDiffer, PlacesDiffer, RingSizes DEF ChipOK, Ring
<1>6. OpsOK
  BY <1>2 DEF OpsOK
<1>7. MarkOK
  BY <1>1, <1>2, <1>3, CellsDiffer, PlacesDiffer DEF MarkOK
<1>8. SavedOK
  BY <1>2 DEF SavedOK
<1>9. RingOK
  <2>1. \A s \in Ring : cells[N!Slot(s)] = N!Blank
    BY <1>1, PlacesDiffer
  <2>2. Bare
    BY <1>2, <2>1, CellsDiffer DEF Bare, N!IsRecord
  <2>3. busy.at \notin {N!Slot(s) : s \in Ring}
    BY <1>3, PlacesDiffer
  <2> QED BY <1>2, <1>3, <2>2, <2>3, CellsDiffer DEF RingOK, Known
<1> QED BY <1>5, <1>6, <1>7, <1>8, <1>9 DEF FlashInv

(* The chip ends what it does. *)
LEMMA ChipEndsKeeps == ASSUME FlashInv, N!ChipEnds PROVE FlashInv'
<1>1. /\ busy # N!None /\ busy' = N!None
      /\ cells' = [cells EXCEPT ![busy.at] = busy.value]
      /\ newest' = IF Len(busy.value) = 3 THEN busy.value[3] ELSE newest
      /\ step' = step /\ ops' = ops /\ cursor' = cursor /\ last' = last
      /\ crashes' = crashes
      /\ (waiting' <=> waiting) /\ (early' <=> early) /\ (unread' <=> unread)
      /\ (saved' <=> saved) /\ (broken' <=> broken)
  BY DEF N!ChipEnds
<1>2. ChipOK /\ OpsOK /\ MarkOK /\ SavedOK /\ RingOK
  BY DEF FlashInv
<1>3. /\ cells = [p \in N!Places |-> cells[p]] /\ busy.at \in N!Places
      /\ cells[busy.at] \in {N!Torn, N!Stale} /\ busy.value # N!Stale
  BY <1>1, <1>2 DEF ChipOK
<1>4. /\ cells'[busy.at] = busy.value
      /\ \A p \in N!Places : p # busy.at => cells'[p] = cells[p]
      /\ cells' = [p \in N!Places |-> cells'[p]]
  BY <1>1, <1>3
<1>5. busy'.at = N!Mark /\ busy'.value = N!Torn
  BY <1>1, OpIs
<1>6. ChipOK'
  BY <1>1, <1>2, <1>4, <1>5, CellsDiffer, PlacesDiffer DEF ChipOK
<1>7. OpsOK'
  BY <1>1, <1>2 DEF OpsOK, Wipe, Put
<1>8. Underway /\ ops # <<>> => Underway'
  <2>1. ASSUME Underway PROVE Underway'
    <3>1. busy = Head(ops)
      BY <1>1, <2>1 DEF Underway
    <3> QED BY <1>1, <1>4, <3>1 DEF Underway
  <2> QED BY <2>1
<1>9. MarkOK'
  <2>1. NoStale => NoStale'
    BY <1>3, <1>4, PlacesDiffer DEF NoStale
  <2>2. cells'[N!Mark] = N!Magic => NoStale
    BY <1>2, <1>4, PlacesDiffer DEF MarkOK
  <2>3. ASSUME NEW k \in 1..Sectors + 2, Formatted(k) PROVE Formatted(k)'
    <3>1. ops' = Rest(k) /\ waiting
      BY <1>1, <2>3 DEF Formatted
    <3>2. \A i \in 1..Sectors : i < k => cells'[<<"nvs", i>>] # N!Stale
      BY <1>3, <1>4, <2>3, PlacesDiffer DEF Formatted
    <3>3. Underway'
      BY <1>8, <2>3, <3>1, RestIs DEF Formatted
    <3> QED BY <1>1, <3>1, <3>2, <3>3 DEF Formatted, Rest
  <2> QED BY <1>1, <1>2, <1>5, <2>1, <2>2, <2>3, CellsDiffer DEF MarkOK
<1>10. SavedOK'
  <2>1. SUFFICES ASSUME ~broken PROVE SavedOK'
    BY <1>1 DEF SavedOK
  <2>2. cells[N!Mark] = N!Magic => cells'[N!Mark] = N!Magic
    BY <1>3, <1>4, PlacesDiffer, CellsDiffer
  <2>3. \A p \in N!Nvs : cells[p] = N!Data => cells'[p] = N!Data
    BY <1>3, <1>4, PlacesDiffer, CellsDiffer
  <2>4. step = "run" => waiting /\ Underway'
    BY <1>1, <1>2, <1>8, <2>1 DEF SavedOK, OpsOK
  <2> QED BY <1>1, <1>2, <2>1, <2>2, <2>3, <2>4 DEF SavedOK
<1>11. RingOK'
  <2>1. SUFFICES ASSUME ~early, ~unread, ~broken PROVE RingOK'
    BY <1>1 DEF RingOK
  <2>2. CASE step # "dump"
    <3>1. busy.at \notin {N!Slot(s) : s \in Ring} /\ newest' = newest
      BY <1>1, <1>2, <2>1, <2>2 DEF RingOK
    <3>2. \A s \in Ring : cells'[N!Slot(s)] = cells[N!Slot(s)]
      BY <1>4, <3>1, PlacesDiffer
    <3>3. (Known => Known') /\ (Primed => Primed')
      BY <1>1, <3>1, <3>2, RingAlone
    <3>4. busy'.at \notin {N!Slot(s) : s \in Ring} /\ Len(busy'.value) # 3
      BY <1>5, PlacesDiffer, CellsDiffer
    <3> QED BY <1>1, <1>2, <2>1, <2>2, <3>1, <3>3, <3>4 DEF RingOK
  <2>3. CASE step = "dump"
    <3> DEFINE c == cursor.slot
    <3>1. c \in Ring
      BY <1>2 DEF ChipOK
    <3>2. Dumping
      BY <1>2, <2>1, <2>3 DEF RingOK
    <3>3. CASE Primed /\ ops = <<Wipe, Put>> /\ waiting /\ busy = Wipe
      <4>1. busy.at = N!Slot(c) /\ busy.value = N!Blank
        BY <3>3, OpIs DEF Wipe
      <4>2. newest' = newest /\ cells'[N!Slot(c)] = N!Blank
        BY <1>1, <1>4, <4>1, CellsDiffer
      <4>3. Primed'
        <5>1. ~N!IsRecord(c)'
          BY <1>1, <4>2, CellsDiffer DEF N!IsRecord
        <5>2. \A s \in Ring : s # c => cells'[N!Slot(s)] = cells[N!Slot(s)]
          BY <1>4, <3>1, <4>1, PlacesDiffer
        <5> QED BY <1>1, <3>1, <3>3, <4>2, <5>1, <5>2, BehindTheHead
      <4> QED BY <1>1, <2>3, <3>3, <4>2, <4>3 DEF RingOK, Dumping, Wipe, Put
    <3>4. CASE Primed /\ ops = <<Put>> /\ waiting /\ busy = Put
      <4>1. busy.at = N!Slot(c) /\ busy.value = N!Record(cursor.seq, crashes)
        BY <3>4, OpIs DEF Put
      <4>2. newest' = crashes /\ cells'[N!Slot(c)] = N!Record(cursor.seq, crashes)
        BY <1>1, <1>4, <4>1, CellsDiffer
      <4>3. \A s \in Ring : s # c => cells'[N!Slot(s)] = cells[N!Slot(s)]
        BY <1>4, <3>1, <4>1, PlacesDiffer
      <4>4. cursor.seq \in 0..SeqMod - 1 /\ Headed(c, cursor.seq)'
        BY <1>1, <3>1, <3>4, <4>2, <4>3, NewHead
      <4> QED BY <1>1, <2>3, <3>4, <4>2, <4>4 DEF RingOK, Dumping, Put
    <3> QED BY <1>1, <3>2, <3>3, <3>4 DEF Dumping
  <2> QED BY <2>2, <2>3
<1> QED BY <1>6, <1>7, <1>9, <1>10, <1>11 DEF FlashInv

\* The operation that comes next is v, to be written to p.
Coming(p, v) ==
  /\ Head(ops) = N!Program(p, v) /\ v # N!Stale
  /\ v = N!Magic => /\ step = "format"
                    /\ \E k \in 1..Sectors + 2 : Formatted(k) /\ k > Sectors
  /\ step = "run" => p \in N!Nvs /\ v \in {N!Blank, N!Data}
  /\ step = "format" => p \in N!Nvs \cup {N!Mark} /\ v \in {N!Blank, N!Magic}
  /\ step = "dump" => p = N!Slot(cursor.slot) /\ v # N!Data
  /\ step \in {"run", "format", "dump"}

(* What is to be done, a step at a time. *)
LEMMA HeadIs ==
  ASSUME ChipOK, OpsOK, MarkOK, ops # <<>>
  PROVE  \E p \in N!Places : \E v : Coming(p, v)
<1>1. step \in {"run", "format", "dump"}
  BY DEF OpsOK
<1>2. CASE step = "run"
  <2>1. PICK p \in N!Nvs : ops = <<N!Erase(p)>> \/ ops = <<N!Program(p, N!Data)>>
    BY <1>2 DEF OpsOK
  <2>2. Head(ops) = N!Program(p, N!Blank) \/ Head(ops) = N!Program(p, N!Data)
    BY <2>1, OpIs
  <2> QED BY <1>2, <2>2, CellsDiffer, PlacesDiffer DEF Coming
<1>3. CASE step = "format"
  <2>1. PICK k \in 1..Sectors + 2 : Formatted(k)
    BY <1>3 DEF MarkOK
  <2>2. Head(ops) = N!Format[k]
    BY <2>1, RestIs DEF Formatted
  <2>3. CASE k <= Sectors
    <3>1. k \in 1..Sectors
      BY <2>3
    <3>2. Head(ops) = N!Program(<<"nvs", k>>, N!Blank)
      BY <2>2, <3>1, FormatIs, OpIs
    <3> QED BY <1>3, <3>1, <3>2, CellsDiffer, PlacesDiffer DEF Coming
  <2>4. CASE k = Sectors + 1
    <3>1. Head(ops) = N!Program(N!Mark, N!Blank)
      BY <2>2, <2>4, FormatIs, OpIs
    <3> QED BY <1>3, <3>1, CellsDiffer, PlacesDiffer DEF Coming
  <2>5. CASE k = Sectors + 2
    <3>1. Head(ops) = N!Program(N!Mark, N!Magic) /\ k > Sectors
      BY <2>2, <2>5, FormatIs, RingSizes
    <3> QED BY <1>3, <2>1, <3>1, CellsDiffer, PlacesDiffer DEF Coming
  <2> QED BY <2>3, <2>4, <2>5, RingSizes
<1>4. CASE step = "dump"
  <2>1. cursor.slot \in Ring
    BY DEF ChipOK
  <2>2. Head(ops) = Wipe \/ Head(ops) = Put
    BY <1>4 DEF OpsOK
  <2>3. Head(ops) = N!Program(N!Slot(cursor.slot), N!Blank)
        \/ Head(ops) = N!Program(N!Slot(cursor.slot), N!Record(cursor.seq, crashes))
    BY <2>2, OpIs DEF Wipe, Put
  <2> QED BY <1>4, <2>1, <2>3, CellsDiffer, PlacesDiffer DEF Coming
<1> QED BY <1>1, <1>2, <1>3, <1>4

(* An operation is sent to the chip. *)
LEMMA IssueKeeps == ASSUME FlashInv, N!Issue PROVE FlashInv'
<1>1. /\ ops # <<>> /\ ~waiting /\ waiting' /\ N!Start(Head(ops))
      /\ step' = step /\ ops' = ops /\ cursor' = cursor /\ last' = last
      /\ crashes' = crashes /\ newest' = newest
      /\ (early' <=> early) /\ (unread' <=> unread)
      /\ (saved' <=> saved) /\ (broken' <=> broken)
  BY DEF N!Issue, N!crashVars
<1>2. ChipOK /\ OpsOK /\ MarkOK /\ SavedOK /\ RingOK
  BY DEF FlashInv
<1>a. PICK p \in N!Places : \E v : Coming(p, v)
  BY <1>1, <1>2, HeadIs
<1>b. PICK v : Coming(p, v)
  BY <1>a
<1>3. /\ Head(ops) = N!Program(p, v) /\ v # N!Stale
      /\ v = N!Magic => /\ step = "format"
                        /\ \E k \in 1..Sectors + 2 : Formatted(k) /\ k > Sectors
      /\ step = "run" => p \in N!Nvs /\ v \in {N!Blank, N!Data}
      /\ step = "format" => p \in N!Nvs \cup {N!Mark} /\ v \in {N!Blank, N!Magic}
      /\ step = "dump" => p = N!Slot(cursor.slot) /\ v # N!Data
      /\ step \in {"run", "format", "dump"}
  BY <1>b DEF Coming
<1>4. /\ cells' = [r \in N!Places |-> cells'[r]] /\ busy'.at \in N!Places
      /\ busy'.value # N!Stale
      /\ busy' # N!None => cells'[busy'.at] \in {N!Torn, N!Stale}
      /\ busy'.value \in {busy.value, v, N!Torn}
      /\ \A r \in N!Places : \/ cells'[r] = cells[r]
                            \/ /\ r = p /\ cells'[r] \in {N!Torn, N!Stale}
                               /\ cells'[r] = N!Stale => cells[r] = N!Stale
      /\ busy = N!None /\ (v = N!Blank \/ cells[p] = N!Blank) => busy' = N!Program(p, v)
      /\ busy = N!None => busy'.at = p /\ busy'.value \in {v, N!Torn}
  BY <1>1, <1>2, <1>3, StartIs
<1>5. Head(ops).at = p /\ Head(ops).value = v
  BY <1>3, OpIs
<1>6. ChipOK'
  BY <1>1, <1>2, <1>4 DEF ChipOK
<1>7. OpsOK'
  BY <1>1, <1>2 DEF OpsOK, Wipe, Put
<1>8. busy = N!None /\ (v = N!Blank \/ cells[p] = N!Blank) => Underway'
  BY <1>1, <1>3, <1>4 DEF Underway
<1>9. NoStale => NoStale'
  BY <1>4, PlacesDiffer DEF NoStale
<1>10. MarkOK'
  <2>1. cells'[N!Mark] = N!Magic => NoStale
    BY <1>2, <1>4, PlacesDiffer, CellsDiffer DEF MarkOK
  <2>2. v = N!Magic => NoStale
    <3>1. ASSUME NEW k \in 1..Sectors + 2, Formatted(k), k > Sectors PROVE NoStale
      <4>1. ASSUME NEW i \in 1..Sectors PROVE cells[<<"nvs", i>>] # N!Stale
        <5>1. i < k
          BY <3>1, RingSizes
        <5> QED BY <3>1, <5>1 DEF Formatted
      <4> QED BY <4>1, PlacesDiffer DEF NoStale
    <3> QED BY <1>3, <3>1
  <2>3. busy'.value = N!Magic => NoStale
    BY <1>2, <1>4, <2>2, CellsDiffer DEF MarkOK
  <2>4. ASSUME step = "format", NEW k \in 1..Sectors + 2, Formatted(k) PROVE Formatted(k)'
    <3>1. ops' = Rest(k) /\ busy = N!None /\ (k = Sectors + 2 => cells[N!Mark] = N!Blank)
      BY <1>1, <2>4 DEF Formatted
    <3>2. \A i \in 1..Sectors : i < k => cells'[<<"nvs", i>>] # N!Stale
      BY <1>4, <2>4, PlacesDiffer DEF Formatted
    <3>3. v = N!Blank \/ cells[p] = N!Blank
      <4>1. Head(ops) = N!Format[k]
        BY <2>4, RestIs DEF Formatted
      <4>2. CASE k <= Sectors + 1
        <5>1. N!Format[k].value = N!Blank
          <6>1. CASE k \in 1..Sectors
            <7>1. N!Format[k] = N!Erase(<<"nvs", k>>)
              BY <6>1, FormatIs
            <7> QED BY <7>1, OpIs
          <6>2. CASE k = Sectors + 1
            <7>1. N!Format[k] = N!Erase(N!Mark)
              BY <6>2, FormatIs
            <7> QED BY <7>1, OpIs
          <6> QED BY <4>2, <6>1, <6>2, RingSizes
        <5> QED BY <1>5, <4>1, <5>1
      <4>3. CASE k = Sectors + 2
        <5>1. N!Format[k].at = N!Mark
          BY <4>3, FormatIs, OpIs
        <5> QED BY <1>5, <3>1, <4>1, <4>3, <5>1
      <4> QED BY <4>2, <4>3, RingSizes
    <3>4. Underway'
      BY <1>8, <3>1, <3>3
    <3> QED BY <1>1, <3>1, <3>2, <3>4 DEF Formatted, Rest
  <2>5. step' # "mark"
    BY <1>1, <1>3
  <2> QED BY <1>1, <1>2, <1>9, <2>1, <2>3, <2>4, <2>5 DEF MarkOK
<1>11. SavedOK'
  <2>1. SUFFICES ASSUME ~broken PROVE SavedOK'
    BY <1>1 DEF SavedOK
  <2>2. CASE step = "run"
    <3>1. /\ busy = N!None /\ cells[N!Mark] = N!Magic /\ p \in N!Nvs /\ p # N!Mark
          /\ v \in {N!Blank, N!Data} /\ (v = N!Data => cells[p] = N!Blank)
      BY <1>1, <1>2, <1>3, <1>5, <2>1, <2>2, PlacesDiffer DEF SavedOK
    <3>2. Underway'
      BY <1>8, <3>1
    <3>3. cells'[N!Mark] = N!Magic
      BY <1>4, <3>1, PlacesDiffer
    <3>4. ASSUME saved
          PROVE  \E r \in N!Nvs : cells'[r] = N!Data /\ (v = N!Blank => r # p)
      <4>1. PICK r \in N!Nvs : cells[r] = N!Data /\ (v = N!Blank => r # p)
        BY <1>1, <1>2, <1>5, <2>1, <2>2, <3>4 DEF SavedOK
      <4>2. r # p
        BY <3>1, <4>1, CellsDiffer
      <4> QED BY <1>4, <4>1, <4>2, PlacesDiffer
    <3>5. Head(ops').value = v /\ Head(ops').at = p
      BY <1>1, <1>5
    <3> QED BY <1>1, <2>2, <3>2, <3>3, <3>4, <3>5 DEF SavedOK
  <2>3. CASE step = "format"
    BY <1>1, <1>2, <2>1, <2>3 DEF SavedOK
  <2>4. CASE step = "dump"
    <3>1. p # N!Mark /\ p \notin N!Nvs
      BY <1>2, <1>3, <2>4, PlacesDiffer DEF ChipOK
    <3>2. cells'[N!Mark] = cells[N!Mark] /\ \A r \in N!Nvs : cells'[r] = cells[r]
      BY <1>4, <3>1, PlacesDiffer
    <3> QED BY <1>1, <1>2, <2>1, <2>4, <3>2 DEF SavedOK
  <2> QED BY <1>3, <2>2, <2>3, <2>4
<1>12. RingOK'
  <2>1. SUFFICES ASSUME ~early, ~unread, ~broken PROVE RingOK'
    BY <1>1 DEF RingOK
  <2>2. CASE step # "dump"
    <3>1. p \in N!Nvs \cup {N!Mark} /\ v \in {N!Blank, N!Data, N!Magic}
      BY <1>3, <2>2
    <3>2. \A s \in Ring : cells'[N!Slot(s)] = cells[N!Slot(s)]
      BY <1>4, <3>1, PlacesDiffer
    <3>3. (Known => Known') /\ (Primed => Primed')
      BY <1>1, <3>2, RingAlone
    <3>4. busy = N!None
      BY <1>1, <1>2, <1>3, <2>1, <2>2 DEF SavedOK, MarkOK, Formatted
    <3>5. busy'.at \notin {N!Slot(s) : s \in Ring} /\ Len(busy'.value) # 3
      BY <1>4, <3>1, <3>4, PlacesDiffer, CellsDiffer
    <3> QED BY <1>1, <1>2, <2>1, <2>2, <3>3, <3>5 DEF RingOK
  <2>3. CASE step = "dump"
    <3> DEFINE c == cursor.slot
    <3>1. c \in Ring /\ p = N!Slot(c)
      BY <1>2, <1>3, <2>3 DEF ChipOK
    <3>2. Dumping
      BY <1>2, <2>1, <2>3 DEF RingOK
    <3>3. Primed /\ busy = N!None
          /\ (ops = <<Wipe, Put>> \/ (ops = <<Put>> /\ cells[N!Slot(c)] = N!Blank))
      BY <1>1, <3>2 DEF Dumping
    <3>4. cells'[N!Slot(c)] \in {N!Torn, N!Stale} \/ cells'[N!Slot(c)] = cells[N!Slot(c)]
      BY <1>4, <3>1
    <3>5. v = N!Blank \/ cells[p] = N!Blank
      BY <1>5, <3>1, <3>3, OpIs DEF Wipe
    <3>6. busy' = Head(ops)
      BY <1>3, <1>4, <3>3, <3>5
    <3>7. busy'.at = p /\ busy' # N!None
      BY <1>4, <3>1, <3>3, OpIs, PlacesDiffer
    <3>8. ~N!IsRecord(c)'
      BY <1>1, <1>4, <3>1, <3>7, CellsDiffer DEF N!IsRecord
    <3>9. \A s \in Ring : s # c => cells'[N!Slot(s)] = cells[N!Slot(s)]
      BY <1>4, <3>1, PlacesDiffer
    <3>10. Primed'
      BY <1>1, <3>1, <3>3, <3>8, <3>9, BehindTheHead
    <3> QED BY <1>1, <2>3, <3>3, <3>6, <3>10 DEF RingOK, Dumping, Wipe, Put
  <2> QED BY <2>2, <2>3
<1> QED BY <1>6, <1>7, <1>10, <1>11, <1>12 DEF FlashInv

LEMMA UpIs == ASSUME NEW m \in Nat \ {0}, NEW x \in 0..m - 1 PROVE (x + 1) % m = Up(x, m)
<1> DEFINE y == x + 1
<1>1. y \in Int /\ (y # m => y \in 0..m - 1) /\ (y = m => y - m = 0 /\ 0 \in 0..m - 1)
  OBVIOUS
<1> HIDE DEF y
<1>2. (y # m => y % m = y) /\ (y = m => y % m = 0)
  BY <1>1, Remainder
<1> QED BY <1>2 DEF Up, y

\* The chip is done, and the next operation comes.
LEMMA DoneKeeps == ASSUME FlashInv, N!Done PROVE FlashInv'
<1>1. /\ waiting /\ ~waiting' /\ busy = N!None /\ ops' = Tail(ops)
      /\ step' = IF Tail(ops) = <<>> THEN N!After ELSE step
      /\ saved' = (saved \/ Head(ops).value = N!Data)
      /\ newest' = IF step = "dump" /\ Tail(ops) = <<>> THEN crashes ELSE newest
      /\ cells' = cells /\ busy' = busy /\ cursor' = cursor /\ last' = last
      /\ crashes' = crashes
      /\ (early' <=> early) /\ (unread' <=> unread) /\ (broken' <=> broken)
  BY DEF N!Done
<1>0. saved' <=> saved \/ Head(ops).value = N!Data
  BY <1>1, Zenon
<1>2. ChipOK /\ OpsOK /\ MarkOK /\ SavedOK /\ RingOK
  BY DEF FlashInv
<1>3. ChipOK'
  BY <1>1, <1>2 DEF ChipOK
<1>4. (NoStale <=> NoStale') /\ (cells'[N!Mark] = N!Magic => NoStale')
      /\ (busy'.value = N!Magic => NoStale')
  BY <1>1, <1>2 DEF MarkOK, NoStale
<1>5. step # "dump" => (Known => Known') /\ (Primed => Primed')
  BY <1>1, RingAlone
<1>6. CASE step = "format"
  <2>1. PICK k \in 1..Sectors + 2 : Formatted(k)
    BY <1>2, <1>6 DEF MarkOK
  <2>2. ops = Rest(k) /\ Head(ops) = N!Format[k]
    BY <2>1, RestIs DEF Formatted
  <2>3. cells[N!Format[k].at] = N!Format[k].value /\ N!Format[k].value # N!Data
    <3>1. /\ N!Format[k].value \in {N!Blank, N!Magic}
      <4>1. CASE k \in 1..Sectors
        <5>1. N!Format[k] = N!Erase(<<"nvs", k>>)
          BY <4>1, FormatIs
        <5> QED BY <5>1, OpIs
      <4>2. CASE k = Sectors + 1
        <5>1. N!Format[k] = N!Erase(N!Mark)
          BY <4>2, FormatIs
        <5> QED BY <5>1, OpIs
      <4>3. CASE k = Sectors + 2
        <5>1. N!Format[k] = N!Program(N!Mark, N!Magic)
          BY <4>3, FormatIs
        <5> QED BY <5>1, OpIs
      <4> QED BY <4>1, <4>2, <4>3, RingSizes
    <3>2. N!None.value = N!Torn
      BY OpIs
    <3>3. Head(ops) # N!None
      BY <2>2, <3>1, <3>2, CellsDiffer
    <3> QED BY <1>1, <2>1, <2>2, <3>1, <3>3, CellsDiffer DEF Formatted, Underway
  <2>4. saved' <=> saved
    BY <1>0, <2>2, <2>3
  <2>5. RingOK' \/ step' = "dump"
    BY <1>1, <1>2, <1>5, <1>6 DEF RingOK, N!After
  <2>6. CASE k < Sectors + 2
    <3>0. k + 1 \in 1..Sectors + 2
      BY <2>6, RingSizes
    <3>1. ops' = Rest(k + 1) /\ Tail(ops) # <<>> /\ step' = "format"
      <4>1. Tail(Rest(k)) = Rest(k + 1) /\ Rest(k + 1) # <<>>
        BY <2>6, RestIs
      <4> QED BY <1>1, <1>6, <2>2, <4>1
    <3>2. ASSUME NEW i \in 1..Sectors, i < k + 1 PROVE cells'[<<"nvs", i>>] # N!Stale
      <4>1. CASE i < k
        BY <1>1, <2>1, <4>1 DEF Formatted
      <4>2. CASE i = k
        <5>1. N!Format[k] = N!Erase(<<"nvs", i>>)
          BY <4>2, FormatIs
        <5> QED BY <1>1, <2>3, <5>1, OpIs, CellsDiffer
      <4> QED BY <3>2, <4>1, <4>2, RingSizes
    <3>3. k + 1 = Sectors + 2 => cells'[N!Mark] = N!Blank
      <4>1. ASSUME k = Sectors + 1 PROVE cells'[N!Mark] = N!Blank
        <5>1. N!Format[k] = N!Erase(N!Mark)
          BY <4>1, FormatIs
        <5> QED BY <1>1, <2>3, <5>1, OpIs
      <4> QED BY <4>1, RingSizes
    <3>4. Formatted(k + 1)'
      BY <1>1, <3>1, <3>2, <3>3 DEF Formatted, Rest
    <3>5. MarkOK'
      BY <1>4, <3>0, <3>1, <3>4 DEF MarkOK
    <3>6. OpsOK'
      BY <3>1 DEF OpsOK
    <3>7. SavedOK'
      BY <1>1, <1>2, <1>6, <2>4, <3>1 DEF SavedOK
    <3> QED BY <1>3, <2>5, <3>1, <3>5, <3>6, <3>7 DEF FlashInv
  <2>7. CASE k = Sectors + 2
    <3>1. ops' = <<>> /\ step' = "scan"
      BY <1>1, <1>6, <2>2, <2>7, RestIs DEF N!After
    <3>2. N!Format[k] = N!Program(N!Mark, N!Magic)
      BY <2>7, FormatIs
    <3>3. cells'[N!Mark] = N!Magic
      BY <1>1, <2>3, <3>2, OpIs
    <3>4. MarkOK'
      BY <1>4, <3>1 DEF MarkOK
    <3>5. OpsOK'
      BY <1>1, <3>1 DEF OpsOK
    <3>6. SavedOK'
      BY <1>1, <1>2, <1>6, <2>4, <3>1, <3>3 DEF SavedOK
    <3> QED BY <1>3, <2>5, <3>1, <3>4, <3>5, <3>6 DEF FlashInv
  <2> QED BY <2>6, <2>7, RingSizes
<1>7. CASE step = "run"
  <2>1. PICK p \in N!Nvs : ops = <<N!Erase(p)>> \/ ops = <<N!Program(p, N!Data)>>
    BY <1>1, <1>2, <1>7 DEF OpsOK
  <2>2. ops' = <<>> /\ step' = "run" /\ newest' = newest
    BY <1>1, <1>7, <2>1 DEF N!After
  <2>3. /\ Head(ops).at = p /\ Head(ops).value \in {N!Blank, N!Data} /\ Head(ops) # N!None
    <3>1. Head(ops) = N!Program(p, N!Blank) \/ Head(ops) = N!Program(p, N!Data)
      BY <2>1, OpIs
    <3> QED BY <3>1, OpIs, CellsDiffer
  <2>4. SavedOK'
    <3>1. SUFFICES ASSUME ~broken PROVE SavedOK'
      BY <1>1 DEF SavedOK
    <3>2. cells[N!Mark] = N!Magic /\ Underway
      BY <1>1, <1>2, <1>7, <3>1 DEF SavedOK
    <3>3. cells[p] = Head(ops).value
      BY <1>1, <2>3, <3>2 DEF Underway
    <3>4. saved' => \E r \in N!Nvs : cells[r] = N!Data
      BY <1>0, <1>2, <2>3, <3>1, <3>3 DEF SavedOK
    <3> QED BY <1>1, <2>2, <3>2, <3>4 DEF SavedOK
  <2>5. OpsOK' /\ MarkOK'
    BY <1>1, <1>4, <2>2 DEF OpsOK, MarkOK
  <2>6. RingOK'
    BY <1>1, <1>2, <1>5, <1>7, <2>2 DEF RingOK
  <2> QED BY <1>3, <2>4, <2>5, <2>6 DEF FlashInv
<1>8. CASE step = "dump"
  <2>1. ops = <<Wipe, Put>> \/ ops = <<Put>>
    BY <1>2, <1>8 DEF OpsOK
  <2>2. Head(ops).value # N!Data
    <3>1. Head(ops) = Wipe \/ Head(ops) = Put
      BY <2>1
    <3> QED BY <3>1, OpIs, CellsDiffer DEF Wipe, Put
  <2>3. saved' <=> saved
    BY <1>0, <2>2
  <2>4. CASE ops = <<Wipe, Put>>
    <3>1. ops' = <<Put>> /\ Tail(ops) # <<>> /\ step' = "dump" /\ newest' = newest
      BY <1>1, <1>8, <2>4
    <3>2. OpsOK' /\ MarkOK'
      BY <1>1, <1>4, <3>1 DEF OpsOK, MarkOK, Put
    <3>3. SavedOK'
      BY <1>1, <1>2, <1>8, <2>3, <3>1 DEF SavedOK
    <3>4. RingOK'
      <4>1. SUFFICES ASSUME ~early, ~unread, ~broken PROVE RingOK'
        BY <1>1 DEF RingOK
      <4>2. Wipe # N!None /\ <<Wipe, Put>> # <<Put>>
        <5>1. Wipe.value = N!Blank /\ N!None.value = N!Torn
          BY OpIs DEF Wipe
        <5> QED BY <5>1, CellsDiffer
      <4>3. Primed /\ cells[N!Slot(cursor.slot)] = N!Blank
        BY <1>1, <1>2, <1>8, <2>4, <4>1, <4>2 DEF RingOK, Dumping
      <4>4. Primed'
        BY <1>1, <3>1, <4>3, RingAlone
      <4>5. Dumping'
        BY <1>1, <3>1, <4>3, <4>4 DEF Dumping, Put
      <4> QED BY <3>1, <4>5 DEF RingOK
    <3> QED BY <1>3, <3>2, <3>3, <3>4 DEF FlashInv
  <2>5. CASE ops = <<Put>>
    <3>1. ops' = <<>> /\ step' = "off" /\ newest' = crashes
      BY <1>1, <1>8, <2>5 DEF N!After
    <3>2. OpsOK' /\ MarkOK'
      BY <1>1, <1>4, <3>1 DEF OpsOK, MarkOK
    <3>3. SavedOK'
      BY <1>1, <1>2, <1>8, <2>3, <3>1 DEF SavedOK
    <3>4. RingOK'
      <4>1. SUFFICES ASSUME ~early, ~unread, ~broken PROVE RingOK'
        BY <1>1 DEF RingOK
      <4>2. Put # N!None /\ <<Wipe, Put>> # <<Put>>
        <5>1. Put.at = N!Slot(cursor.slot) /\ N!None.at = N!Mark /\ cursor.slot \in Ring
          BY <1>2, OpIs DEF Put, ChipOK
        <5> QED BY <5>1, PlacesDiffer
      <4>3. /\ newest = crashes /\ cursor.seq \in 0..SeqMod - 1
            /\ Headed(cursor.slot, cursor.seq) /\ cursor.slot \in Ring
        BY <1>1, <1>2, <1>8, <2>5, <4>1, <4>2 DEF RingOK, Dumping, ChipOK
      <4>4. Known'
        <5>1. newest' = newest
          BY <3>1, <4>3
        <5>2. Known
          BY <4>3 DEF Known
        <5> QED BY <1>1, <5>1, <5>2, RingAlone
      <4>5. busy'.at \notin {N!Slot(s) : s \in Ring} /\ Len(busy'.value) # 3
        BY <1>1, OpIs, PlacesDiffer, CellsDiffer
      <4> QED BY <3>1, <4>4, <4>5 DEF RingOK
    <3> QED BY <1>3, <3>2, <3>3, <3>4 DEF FlashInv
  <2> QED BY <2>1, <2>4, <2>5
<1> QED BY <1>1, <1>2, <1>6, <1>7, <1>8 DEF OpsOK

\* The wait ends at its bound: what is said of the ring and the settings ends.
LEMMA TimesOutKeeps == ASSUME FlashInv, N!TimesOut PROVE FlashInv'
<1>1. /\ waiting /\ ~waiting' /\ ops' = <<>> /\ step' = N!After /\ broken'
      /\ cells' = cells /\ busy' = busy /\ cursor' = cursor
  BY DEF N!TimesOut, N!crashVars
<1>2. ChipOK /\ OpsOK /\ MarkOK
  BY DEF FlashInv
<1>3. step \in {"format", "run", "dump"} /\ step' \in {"scan", "run", "off"}
  BY <1>1, <1>2 DEF OpsOK, N!After
<1>4. ChipOK' /\ OpsOK'
  BY <1>1, <1>2, <1>3 DEF ChipOK, OpsOK
<1>5. MarkOK'
  BY <1>1, <1>2, <1>3 DEF MarkOK, NoStale
<1> QED BY <1>1, <1>4, <1>5 DEF FlashInv, SavedOK, RingOK

\* The marker stands, or the format begins.
LEMMA FormatBegins ==
  ASSUME ops' = N!Format, ~waiting', busy' = N!None PROVE \E k \in 1..Sectors + 2 : Formatted(k)'
<1>1. 1 \in 1..Sectors + 2 /\ 1 # Sectors + 2 /\ \A i \in 1..Sectors : ~ (i < 1)
  BY RingSizes
<1>2. Formatted(1)'
  BY <1>1, FormatIs DEF Formatted, Rest
<1> QED BY <1>1, <1>2

LEMMA ReadMarkKeeps == ASSUME FlashInv, N!ReadMark PROVE FlashInv'
<1>1. /\ step = "mark"
      /\ IF cells[N!Mark] = N!Magic THEN step' = "scan" /\ ops' = <<>>
         ELSE step' = "format" /\ ops' = N!Format
      /\ cells' = cells /\ busy' = busy /\ cursor' = cursor /\ newest' = newest
      /\ (waiting' <=> waiting) /\ (early' <=> early) /\ (unread' <=> unread)
      /\ (saved' <=> saved) /\ (broken' <=> broken)
  BY DEF N!ReadMark, N!crashVars
<1>2. ChipOK /\ OpsOK /\ MarkOK /\ SavedOK /\ RingOK
  BY DEF FlashInv
<1>3. busy' = N!None /\ ~waiting' /\ step' \in {"scan", "format"}
  BY <1>1, <1>2 DEF MarkOK, OpsOK
<1>4. ChipOK' /\ OpsOK'
  BY <1>1, <1>2, <1>3 DEF ChipOK, OpsOK
<1>5. step' = "format" => \E k \in 1..Sectors + 2 : Formatted(k)'
  BY <1>1, <1>3, FormatBegins
<1>6. MarkOK'
  BY <1>1, <1>2, <1>3, <1>5 DEF MarkOK, NoStale
<1>7. SavedOK'
  BY <1>1, <1>2, <1>3 DEF SavedOK
<1>8. RingOK'
  <2>1. Known => Known'
    BY <1>1, RingAlone
  <2> QED BY <1>1, <1>2, <1>3, <2>1 DEF RingOK
<1> QED BY <1>4, <1>6, <1>7, <1>8 DEF FlashInv

LEMMA MisreadMarkKeeps == ASSUME FlashInv, N!MisreadMark PROVE FlashInv'
<1>1. /\ step = "mark" /\ step' = "format" /\ ops' = N!Format /\ broken'
      /\ cells' = cells /\ busy' = busy /\ cursor' = cursor /\ (waiting' <=> waiting)
  BY DEF N!MisreadMark, N!crashVars
<1>2. ChipOK /\ OpsOK /\ MarkOK
  BY DEF FlashInv
<1>3. busy' = N!None /\ ~waiting'
  BY <1>1, <1>2 DEF MarkOK, OpsOK
<1>4. ChipOK' /\ OpsOK'
  BY <1>1, <1>2, <1>3 DEF ChipOK, OpsOK
<1>5. \E k \in 1..Sectors + 2 : Formatted(k)'
  BY <1>1, <1>3, FormatBegins
<1>6. MarkOK'
  BY <1>1, <1>2, <1>5 DEF MarkOK, NoStale
<1> QED BY <1>1, <1>4, <1>6 DEF FlashInv, SavedOK, RingOK

\* The scan of the ring: the cursor goes behind the newest record.
LEMMA ScannedIs ==
  ASSUME NEW readable, N!Scanned(readable) PROVE cursor'.slot \in Ring
<1>1. N!Best(readable) \in 0..RingSlots
  BY BestAmong
<1>2. CASE N!Best(readable) = RingSlots
  BY <1>2, RingSizes DEF N!Scanned, N!Unprimed, Ring
<1>3. CASE N!Best(readable) # RingSlots
  <2>1. cursor'.slot = (N!Best(readable) + 1) % RingSlots
    BY <1>3 DEF N!Scanned
  <2>2. N!Best(readable) \in Ring
    BY <1>1, <1>3, RingSizes DEF Ring
  <2>3. (N!Best(readable) + 1) % RingSlots = Up(N!Best(readable), RingSlots)
    BY <2>2, UpIs, RingSizes DEF Ring
  <2> QED BY <2>1, <2>2, <2>3, RingSizes DEF Up, Ring
<1> QED BY <1>2, <1>3

LEMMA ScanKeeps == ASSUME FlashInv, N!Scan PROVE FlashInv'
<1>1. /\ step = "scan" /\ step' = "run"
      /\ N!Scanned(IF busy = N!None THEN 0..RingSlots - 1 ELSE {})
      /\ cells' = cells /\ busy' = busy /\ ops' = ops /\ newest' = newest
      /\ (waiting' <=> waiting) /\ (early' <=> early) /\ (unread' <=> unread)
      /\ (saved' <=> saved) /\ (broken' <=> broken)
  BY DEF N!Scan
<1>2. ChipOK /\ OpsOK /\ MarkOK /\ SavedOK /\ RingOK
  BY DEF FlashInv
<1>3. ops' = <<>> /\ ~waiting'
  BY <1>1, <1>2 DEF OpsOK
<1>4. ChipOK'
  BY <1>1, <1>2, ScannedIs DEF ChipOK
<1>5. OpsOK' /\ MarkOK'
  BY <1>1, <1>2, <1>3 DEF OpsOK, MarkOK, NoStale
<1>6. SavedOK'
  BY <1>1, <1>2, <1>3 DEF SavedOK
<1>7. RingOK'
  <2>1. SUFFICES ASSUME ~early, ~unread, ~broken PROVE RingOK'
    BY <1>1 DEF RingOK
  <2>2. busy = N!None /\ N!Scanned(Ring) /\ Known
        /\ busy.at \notin {N!Slot(s) : s \in Ring} /\ Len(busy.value) # 3
    BY <1>1, <1>2, <2>1 DEF SavedOK, RingOK, Ring
  <2>3. CASE Bare
    <3>1. N!Best(Ring) = RingSlots
      BY <2>3, BareIs
    <3>2. cursor' = N!Unprimed /\ last' = 0
      BY <2>2, <3>1 DEF N!Scanned
    <3>3. Bare' /\ last' = newest'
      BY <1>1, <2>3, <3>2, RingAlone DEF Bare
    <3> QED BY <1>1, <2>2, <3>2, <3>3 DEF RingOK, Known, Primed, N!Unprimed
  <2>4. ASSUME NEW n \in Ring, NEW q \in 0..SeqMod - 1, Headed(n, q) PROVE RingOK'
    <3>1. N!Best(Ring) = n /\ n # RingSlots
      BY <2>4, BestIs, RingSizes DEF Ring
    <3>2. cells[N!Slot(n)][2] = q /\ cells[N!Slot(n)][3] = newest
      BY <2>4, CellsDiffer DEF Headed
    <3>3. (n + 1) % RingSlots = Up(n, RingSlots) /\ (q + 1) % SeqMod = Up(q, SeqMod)
      BY UpIs, RingSizes DEF Ring
    <3>4. /\ cursor' = [slot |-> Up(n, RingSlots), seq |-> Up(q, SeqMod)]
          /\ last' = newest
      BY <2>2, <3>1, <3>2, <3>3 DEF N!Scanned
    <3>5. Headed(n, q)'
      BY <1>1, <2>4, RingAlone
    <3> QED BY <1>1, <2>2, <3>4, <3>5 DEF RingOK, Known, Primed
  <2> QED BY <2>2, <2>3, <2>4 DEF Known
<1> QED BY <1>4, <1>5, <1>6, <1>7 DEF FlashInv

LEMMA ScanPartlyKeeps == ASSUME FlashInv, N!ScanPartly PROVE FlashInv'
<1>1. /\ step = "scan" /\ step' = "run" /\ unread'
      /\ \E s \in 0..RingSlots - 1 : N!Scanned((0..RingSlots - 1) \ {s})
      /\ cells' = cells /\ busy' = busy /\ ops' = ops
      /\ (waiting' <=> waiting) /\ (saved' <=> saved) /\ (broken' <=> broken)
  BY DEF N!ScanPartly
<1>2. ChipOK /\ OpsOK /\ MarkOK /\ SavedOK
  BY DEF FlashInv
<1>3. ops' = <<>> /\ ~waiting'
  BY <1>1, <1>2 DEF OpsOK
<1>4. ChipOK'
  BY <1>1, <1>2, ScannedIs DEF ChipOK
<1>5. OpsOK' /\ MarkOK'
  BY <1>1, <1>2, <1>3 DEF OpsOK, MarkOK, NoStale
<1>6. SavedOK'
  BY <1>1, <1>2, <1>3 DEF SavedOK
<1> QED BY <1>1, <1>4, <1>5, <1>6 DEF FlashInv, RingOK

\* The settings are written, and collected.
LEMMA SettingsKeep == ASSUME FlashInv, N!Save \/ N!Collect PROVE FlashInv'
<1>1. PICK p \in N!Nvs, v \in {N!Data, N!Blank} :
        /\ N!Write(N!Program(p, v))
        /\ v = N!Data => cells[p] = N!Blank
        /\ v = N!Blank => \E q \in N!Nvs \ {p} : cells[q] = N!Data
  BY OpIs, CellsDiffer DEF N!Save, N!Collect
<1>2. /\ step = "run" /\ step' = "run" /\ ops = <<>> /\ ops' = <<N!Program(p, v)>>
      /\ cells' = cells /\ busy' = busy /\ cursor' = cursor /\ newest' = newest
      /\ last' = last
      /\ (waiting' <=> waiting) /\ (early' <=> early) /\ (unread' <=> unread)
      /\ (saved' <=> saved) /\ (broken' <=> broken)
  BY <1>1 DEF N!Write, N!crashVars
<1>3. ChipOK /\ OpsOK /\ MarkOK /\ SavedOK /\ RingOK
  BY DEF FlashInv
<1>4. ~waiting
  BY <1>2, <1>3 DEF OpsOK
<1>5. ChipOK' /\ MarkOK'
  BY <1>2, <1>3 DEF ChipOK, MarkOK, NoStale
<1>6. OpsOK'
  BY <1>1, <1>2, OpIs DEF OpsOK
<1>7. SavedOK'
  <2>1. SUFFICES ASSUME ~broken PROVE SavedOK'
    BY <1>2 DEF SavedOK
  <2>2. Head(ops').at = p /\ Head(ops').value = v
    BY <1>2, OpIs
  <2>3. busy = N!None /\ cells[N!Mark] = N!Magic
    BY <1>2, <1>3, <1>4, <2>1 DEF SavedOK
  <2>4. saved => \E q \in N!Nvs : cells[q] = N!Data /\ (v = N!Blank => q # p)
    BY <1>1, <1>3, <2>1, CellsDiffer DEF SavedOK
  <2> QED BY <1>1, <1>2, <1>4, <2>2, <2>3, <2>4, CellsDiffer DEF SavedOK
<1>8. RingOK'
  <2>1. (Known => Known') /\ (Primed => Primed')
    BY <1>2, RingAlone
  <2> QED BY <1>2, <1>3, <2>1 DEF RingOK
<1> QED BY <1>5, <1>6, <1>7, <1>8 DEF FlashInv

\* A fault, which may cut a program that is being sent.
LEMMA FaultKeeps == ASSUME FlashInv, N!Fault PROVE FlashInv'
<1>1. /\ step \in {"mark", "format", "scan", "run"}
      /\ step' = "preflight" /\ ops' = <<>> /\ waiting' = FALSE
      /\ early' = (early \/ step # "run")
      /\ \/ cells' = cells /\ busy' = busy
         \/ /\ ops # <<>> /\ ~waiting /\ Head(ops).value # N!Blank
            /\ N!Start([Head(ops) EXCEPT !.value = N!Torn])
      /\ cursor' = cursor /\ newest' = newest
      /\ (unread' <=> unread) /\ (saved' <=> saved) /\ (broken' <=> broken)
  BY DEF N!Fault
<1>0. ~waiting' /\ (early' <=> early \/ step # "run")
  BY <1>1, Zenon
<1>2. ChipOK /\ OpsOK /\ MarkOK /\ SavedOK /\ RingOK
  BY DEF FlashInv
<1>3. CASE cells' = cells /\ busy' = busy
  <2>1. ChipOK' /\ OpsOK' /\ MarkOK'
    BY <1>0, <1>1, <1>2, <1>3 DEF ChipOK, OpsOK, MarkOK, NoStale
  <2>2. SavedOK'
    BY <1>1, <1>2, <1>3 DEF SavedOK
  <2>3. RingOK'
    <3>1. (Known => Known') /\ (Primed => Primed')
      BY <1>1, <1>3, RingAlone
    <3> QED BY <1>0, <1>1, <1>2, <1>3, <3>1 DEF RingOK
  <2> QED BY <2>1, <2>2, <2>3 DEF FlashInv
<1>4. CASE /\ ops # <<>> /\ ~waiting /\ Head(ops).value # N!Blank
           /\ N!Start([Head(ops) EXCEPT !.value = N!Torn])
  <2>a. PICK p \in N!Places : \E v : Coming(p, v)
    BY <1>2, <1>4, HeadIs
  <2>b. PICK v : Coming(p, v)
    BY <2>a
  <2>1. /\ Head(ops) = N!Program(p, v) /\ v # N!Stale
        /\ v = N!Magic => /\ step = "format"
                          /\ \E k \in 1..Sectors + 2 : Formatted(k) /\ k > Sectors
        /\ step = "run" => p \in N!Nvs /\ v \in {N!Blank, N!Data}
        /\ step = "format" => p \in N!Nvs \cup {N!Mark} /\ v \in {N!Blank, N!Magic}
        /\ step = "dump" => p = N!Slot(cursor.slot) /\ v # N!Data
        /\ step \in {"run", "format", "dump"}
    BY <2>b DEF Coming
  <2>2. Head(ops).at = p /\ Head(ops).value = v /\ N!Start(N!Program(p, N!Torn))
    BY <1>4, <2>1, OpIs
  <2>3. /\ cells' = [r \in N!Places |-> cells'[r]] /\ busy'.at \in N!Places
        /\ busy'.value # N!Stale
        /\ busy' # N!None => cells'[busy'.at] \in {N!Torn, N!Stale}
        /\ busy'.value \in {busy.value, N!Torn}
        /\ \A r \in N!Places : \/ cells'[r] = cells[r]
                              \/ /\ r = p /\ cells'[r] \in {N!Torn, N!Stale}
                                 /\ cells'[r] = N!Stale => cells[r] = N!Stale
        /\ busy = N!None => busy'.at = p /\ busy'.value = N!Torn
    BY <1>2, <2>2, CellsDiffer, StartIs
  <2>4. ChipOK' /\ OpsOK'
    BY <1>0, <1>1, <1>2, <2>3 DEF ChipOK, OpsOK
  <2>5. MarkOK'
    <3>1. NoStale => NoStale'
      BY <2>3, PlacesDiffer DEF NoStale
    <3>2. cells'[N!Mark] = N!Magic => NoStale
      BY <1>2, <2>3, PlacesDiffer, CellsDiffer DEF MarkOK
    <3>3. busy'.value = N!Magic => NoStale
      BY <1>2, <2>3, CellsDiffer DEF MarkOK
    <3> QED BY <1>1, <3>1, <3>2, <3>3 DEF MarkOK
  <2>6. SavedOK'
    <3>1. SUFFICES ASSUME ~broken, saved PROVE SavedOK'
      BY <1>1 DEF SavedOK
    <3>2. step = "run" /\ cells[N!Mark] = N!Magic
      BY <1>1, <1>2, <2>1, <3>1 DEF SavedOK
    <3>3. p \in N!Nvs /\ v = N!Data /\ cells[p] = N!Blank
      BY <1>2, <1>4, <2>1, <2>2, <3>1, <3>2 DEF SavedOK
    <3>4. PICK r \in N!Nvs : cells[r] = N!Data
      BY <1>2, <3>1 DEF SavedOK
    <3>5. r # p /\ p # N!Mark
      BY <3>3, <3>4, CellsDiffer, PlacesDiffer
    <3>6. cells'[N!Mark] = N!Magic /\ cells'[r] = N!Data
      BY <2>3, <3>2, <3>4, <3>5, PlacesDiffer
    <3> QED BY <1>1, <3>6 DEF SavedOK
  <2>7. RingOK'
    <3>1. SUFFICES ASSUME ~early, step = "run", ~unread, ~broken PROVE RingOK'
      BY <1>0, <1>1 DEF RingOK
    <3>2. busy = N!None /\ p \in N!Nvs
      BY <1>2, <1>4, <2>1, <3>1 DEF SavedOK
    <3>3. \A s \in Ring : cells'[N!Slot(s)] = cells[N!Slot(s)]
      BY <2>3, <3>2, PlacesDiffer
    <3>4. (Known => Known') /\ (Primed => Primed')
      BY <1>1, <3>3, RingAlone
    <3>5. busy'.at \notin {N!Slot(s) : s \in Ring} /\ Len(busy'.value) # 3
      BY <2>3, <3>2, PlacesDiffer, CellsDiffer
    <3> QED BY <1>1, <1>2, <3>1, <3>4, <3>5 DEF RingOK
  <2> QED BY <2>4, <2>5, <2>6, <2>7 DEF FlashInv
<1> QED BY <1>1, <1>3, <1>4

\* The record is written once the chip is free.
LEMMA PreflightKeeps == ASSUME FlashInv, N!Preflight PROVE FlashInv'
<1>1. /\ step = "preflight" /\ busy = N!None /\ step' = "dump" /\ ops' = <<Wipe, Put>>
      /\ cells' = cells /\ busy' = busy /\ cursor' = cursor /\ newest' = newest
      /\ crashes' = crashes
      /\ (waiting' <=> waiting) /\ (early' <=> early) /\ (unread' <=> unread)
      /\ (saved' <=> saved) /\ (broken' <=> broken)
  BY DEF N!Preflight, N!crashVars, Wipe, Put
<1>2. ChipOK /\ OpsOK /\ MarkOK /\ SavedOK /\ RingOK
  BY DEF FlashInv
<1>3. ~waiting' /\ ops' = <<Wipe', Put'>>
  BY <1>1, <1>2 DEF OpsOK, Wipe, Put
<1>4. ChipOK' /\ OpsOK' /\ MarkOK'
  BY <1>1, <1>2, <1>3 DEF ChipOK, OpsOK, MarkOK, NoStale
<1>5. SavedOK'
  BY <1>1, <1>2 DEF SavedOK
<1>6. RingOK'
  <2>1. Primed => Primed'
    BY <1>1, RingAlone
  <2> QED BY <1>1, <1>2, <1>3, <2>1 DEF RingOK, Dumping
<1> QED BY <1>4, <1>5, <1>6 DEF FlashInv

\* The processor stops, or starts.
LEMMA StopKeeps == ASSUME FlashInv, N!PreflightFails \/ N!PowerCut \/ N!Boot PROVE FlashInv'
<1>1. /\ step' \in {"off", "mark"}
      /\ cells' = cells /\ newest' = newest
      /\ busy' = busy \/ busy' = N!None
      /\ ~waiting /\ ops = <<>> => ~waiting' /\ ops' = <<>>
      /\ step \in {"preflight", "off"} \/ (~waiting' /\ ops' = <<>>)
      /\ step' = "mark" => busy' = N!None
      /\ cursor' = cursor \/ cursor' = N!Unprimed
      /\ step = "dump" => busy' = N!None
      /\ (early' <=> early) /\ (unread' <=> unread)
      /\ (saved' <=> saved) /\ (broken' <=> broken)
  BY DEF N!PreflightFails, N!PowerCut, N!Boot, N!crashVars
<1>2. ChipOK /\ OpsOK /\ MarkOK /\ SavedOK /\ RingOK
  BY DEF FlashInv
<1>3. ~waiting' /\ ops' = <<>>
  BY <1>1, <1>2 DEF OpsOK
<1>4. busy' = N!None => busy'.at = N!Mark /\ busy'.value = N!Torn
  BY OpIs
<1>5. ChipOK'
  <2>1. cursor'.slot \in Ring
    BY <1>1, <1>2, RingSizes DEF ChipOK, N!Unprimed, Ring
  <2> QED BY <1>1, <1>2, <1>4, <2>1, PlacesDiffer, CellsDiffer DEF ChipOK
<1>6. OpsOK' /\ MarkOK'
  BY <1>1, <1>2, <1>3, <1>4, CellsDiffer DEF OpsOK, MarkOK, NoStale
<1>7. SavedOK'
  BY <1>1, <1>2 DEF SavedOK
<1>8. RingOK'
  <2>1. SUFFICES ASSUME ~early, ~unread, ~broken PROVE RingOK'
    BY <1>1 DEF RingOK
  <2>2. Known
    BY <1>2, <2>1, PrimedIsKnown DEF RingOK, Dumping, Known, ChipOK
  <2>3. Known'
    BY <1>1, <2>2, RingAlone
  <2>4. busy'.at \notin {N!Slot(s) : s \in Ring} /\ Len(busy'.value) # 3
    <3>1. busy' = N!None \/ step # "dump"
      BY <1>1
    <3> QED BY <1>1, <1>2, <1>4, <2>1, <3>1, PlacesDiffer, CellsDiffer DEF RingOK
  <2> QED BY <1>1, <2>3, <2>4 DEF RingOK
<1> QED BY <1>5, <1>6, <1>7, <1>8 DEF FlashInv

LEMMA FlashStands == ASSUME FlashInv, UNCHANGED flashVars PROVE FlashInv'
<1>1. /\ cells' = cells /\ busy' = busy /\ step' = step /\ ops' = ops
      /\ cursor' = cursor /\ last' = last /\ crashes' = crashes /\ newest' = newest
      /\ (waiting' <=> waiting) /\ (early' <=> early) /\ (unread' <=> unread)
      /\ (saved' <=> saved) /\ (broken' <=> broken)
  BY DEF flashVars
<1>2. ChipOK /\ OpsOK /\ MarkOK /\ SavedOK /\ RingOK
  BY DEF FlashInv
<1>3. ChipOK' /\ OpsOK'
  BY <1>1, <1>2 DEF ChipOK, OpsOK, Wipe, Put
<1>4. MarkOK'
  BY <1>1, <1>2 DEF MarkOK, NoStale, Formatted, Underway, Rest
<1>5. SavedOK'
  BY <1>1, <1>2 DEF SavedOK, Underway
<1>6. RingOK'
  <2>1. (Known => Known') /\ (Primed => Primed')
    BY <1>1, RingAlone
  <2>2. \A n \in Ring, q \in 0..SeqMod - 1 : Headed(n, q) => Headed(n, q)'
    BY <1>1, RingAlone
  <2>3. Dumping => Dumping'
    BY <1>1, <1>2, <2>1, <2>2 DEF Dumping, Wipe, Put, ChipOK
  <2> QED BY <1>1, <1>2, <2>1, <2>3 DEF RingOK
<1> QED BY <1>3, <1>4, <1>5, <1>6 DEF FlashInv

LEMMA FlashGoesOn == ASSUME FlashInv, [N!Next]_flashVars PROVE FlashInv'
<1>1. CASE N!Next
  BY <1>1, ChipEndsKeeps, IssueKeeps, DoneKeeps, TimesOutKeeps, ReadMarkKeeps,
     MisreadMarkKeeps, ScanKeeps, ScanPartlyKeeps, SettingsKeep, FaultKeeps,
     PreflightKeeps, StopKeeps DEF N!Next
<1> QED BY <1>1, FlashStands

LEMMA FlashSays == FlashInv => FlashIsKept
<1>1. RingOK => N!CrashIsNewest
  BY DEF RingOK, N!CrashIsNewest
<1>2. MarkOK /\ SavedOK => N!SettingsKept
  BY DEF MarkOK, SavedOK, NoStale, N!SettingsKept
<1> QED BY <1>1, <1>2 DEF FlashInv, FlashIsKept

(***************************************************************************)
(* The charger.  Its watchdog is disarmed only by a configuration, and     *)
(* nothing arms it again; from then on a register holds what was written   *)
(* to it last. A configuration that went through disarmed it before it     *)
(* wrote the two limits, so that both are known when it ends.              *)
(***************************************************************************)
(* A thread that is past the watchdog found it disarmed, or disarmed it;   *)
(* what it has written since is in the chip.                               *)
ChargerPast ==
  \A t \in C!Threads :
    /\ conf[t] \in {"vreg", "ichg"} => watchdog = "disarmed"
    /\ conf[t] = "ichg" => limits.vreg = written.vreg

ChargerInv ==
  /\ limits \in C!Pair(C!Known) /\ written \in C!Pair(C!Known)
  /\ conf \in [C!Threads -> {"commit", "timer", "disarm", "vreg", "ichg", "done"}]
  /\ override \in Limits \cup {NoOverride} /\ stored \in Limits \cup {NoOverride}
  /\ ChargerPast
  /\ configured => watchdog = "disarmed" /\ limits = written

(* Init: nothing is configured yet.                                         *)
LEMMA ChargerInit == C!Init => ChargerInv
BY DEF C!Init, ChargerInv, ChargerPast, C!Threads, C!Pair, C!Known, C!savedVars

(* The start writes the voltage limit that was loaded, when there is one.   *)
LEMMA CommitKeeps == ChargerInv /\ C!Commit => ChargerInv'
<1> SUFFICES ASSUME ChargerInv, C!Commit PROVE ChargerInv'
  OBVIOUS
<1>1. CASE UNCHANGED <<limits, watchdog, written>>
  BY <1>1 DEF C!Commit, ChargerInv, ChargerPast, C!Threads, C!savedVars
<1>2. CASE /\ override # NoOverride
           /\ limits' = [limits EXCEPT !.vreg = override] /\ watchdog' = C!Started
           /\ written' = [written EXCEPT !.vreg = override]
  <2>1. limits' \in C!Pair(C!Known) /\ written' \in C!Pair(C!Known)
    BY <1>2 DEF ChargerInv, C!Pair, C!Known
  <2>2. ChargerPast'
    BY <1>2 DEF C!Commit, C!Started, ChargerInv, ChargerPast, C!Threads, C!Pair
  <2>3. (configured => watchdog = "disarmed" /\ limits = written)'
    BY <1>2 DEF C!Commit, C!Started, ChargerInv
  <2> QED BY <2>1, <2>2, <2>3 DEF C!Commit, ChargerInv, C!savedVars, C!Threads
<1> QED BY <1>1, <1>2 DEF C!Commit, C!chipVars

(* A configuration: the watchdog first, then the two limits.                *)
LEMMA ConfigureKeeps ==
  ASSUME ChargerInv, NEW t \in C!Threads, C!Configure(t) PROVE ChargerInv'
<1>1. CASE conf[t] = "timer"
  BY <1>1 DEF C!Configure, C!Configuring, C!Following, ChargerInv, ChargerPast,
     C!Threads, C!Pair, C!Known, C!savedVars
<1>2. CASE conf[t] = "disarm"
  BY <1>2 DEF C!Configure, C!Configuring, C!Following, ChargerInv, ChargerPast,
     C!Threads, C!Pair, C!Known, C!savedVars
<1>3. CASE conf[t] = "vreg"
  BY <1>3 DEF C!Configure, C!Configuring, C!Following, C!Wrote, C!Started, ChargerInv,
     ChargerPast, C!Threads, C!Pair, C!Known, C!savedVars
<1>4. CASE conf[t] = "ichg"
  <2>1. /\ watchdog = "disarmed" /\ watchdog' = "disarmed"
        /\ limits.vreg = written.vreg
        /\ limits' = [limits EXCEPT !.ichg = Cap]
        /\ written' = [written EXCEPT !.ichg = Cap]
    BY <1>4 DEF C!Configure, C!Wrote, C!Started, ChargerInv, ChargerPast
  <2>2. limits' \in C!Pair(C!Known) /\ written' \in C!Pair(C!Known)
    BY <2>1 DEF ChargerInv, C!Pair, C!Known
  <2>3. limits' = written'
    BY <2>1 DEF ChargerInv, C!Pair
  <2>4. conf' = [conf EXCEPT ![t] = "done"] /\ UNCHANGED C!savedVars
    BY <1>4 DEF C!Configure, C!Following
  <2> QED BY <2>1, <2>2, <2>3, <2>4 DEF ChargerInv, ChargerPast, C!Threads, C!savedVars
<1> QED BY <1>1, <1>2, <1>3, <1>4 DEF C!Configure, C!Configuring

(* A failed transfer ends a configuration, whatever reached the chip.       *)
LEMMA ConfigureFailsKeeps ==
  ASSUME ChargerInv, NEW t \in C!Threads, C!ConfigureFails(t) PROVE ChargerInv'
<1>1. CASE UNCHANGED <<limits, watchdog, written>>
  BY <1>1 DEF C!ConfigureFails, C!Configuring, ChargerInv, ChargerPast, C!Threads,
     C!Pair, C!Known, C!savedVars
<1>2. CASE conf[t] = "disarm" /\ watchdog' = "disarmed" /\ UNCHANGED <<limits, written>>
  BY <1>2 DEF C!ConfigureFails, ChargerInv, ChargerPast, C!Threads, C!savedVars
<1>3. CASE conf[t] \in {"vreg", "ichg"} /\ C!Wrote(conf[t])
  BY <1>3 DEF C!ConfigureFails, C!Configuring, C!Wrote, C!Started, ChargerInv,
     ChargerPast, C!Threads, C!Pair, C!Known, C!savedVars
<1> QED BY <1>1, <1>2, <1>3 DEF C!ConfigureFails

(* The shell writes one of the limits.                                      *)
LEMMA ShellLimitsKeeps ==
  ASSUME ChargerInv, NEW f \in {"vreg", "ichg"}, NEW v \in Limits, C!ShellLimits(f, v)
  PROVE  ChargerInv'
<1>1. limits' \in C!Pair(C!Known) /\ written' \in C!Pair(C!Known)
  BY DEF C!ShellLimits, ChargerInv, C!Pair, C!Known
<1>2. ChargerPast'
  BY DEF C!ShellLimits, C!Started, ChargerInv, ChargerPast, C!Threads, C!Pair, C!Known,
     C!savedVars
<1>3. (configured => watchdog = "disarmed" /\ limits = written)'
  BY DEF C!ShellLimits, C!Started, ChargerInv, C!Pair, C!Known
<1> QED BY <1>1, <1>2, <1>3 DEF C!ShellLimits, ChargerInv

(* Every step keeps the invariant: the watchdog stays disarmed, and what   *)
(* is written to a register is what it holds.                              *)
LEMMA ChargerNext == ChargerInv /\ [C!Next]_chargerVars => ChargerInv'
<1> SUFFICES ASSUME ChargerInv, [C!Next]_chargerVars PROVE ChargerInv'
  OBVIOUS
<1>1. CASE C!Lapse
  BY <1>1 DEF C!Lapse, ChargerInv, ChargerPast, C!Threads, C!Pair, C!Known, C!history,
     C!savedVars
<1>2. CASE C!Commit
  BY <1>2, CommitKeeps
<1>3. CASE \E t \in C!Threads : C!Configure(t) \/ C!ConfigureFails(t)
  BY <1>3, ConfigureKeeps, ConfigureFailsKeeps
<1>4. CASE C!ShellConfigures
  BY <1>4 DEF C!ShellConfigures, C!ShellFree, ChargerInv, ChargerPast, C!Threads,
     C!chipVars, C!savedVars, C!history
<1>5. CASE \E f \in {"vreg", "ichg"}, v \in Limits : C!ShellLimits(f, v)
  BY <1>5, ShellLimitsKeeps
<1>6. CASE (\E e \in BOOLEAN : C!ShellReads(e)) \/ C!ShellFails
  BY <1>6 DEF C!ShellReads, C!ShellFails, C!ShellFree, ChargerInv, ChargerPast,
     C!Threads, C!chipVars, C!savedVars, C!history
<1>7. CASE C!ShellWrites
  BY <1>7 DEF C!ShellWrites, C!Started, ChargerInv, ChargerPast, C!savedVars, C!history
<1>8. CASE C!SaveOverride
  BY <1>8 DEF C!SaveOverride, ChargerInv, ChargerPast, C!chipVars, C!history
<1>9. CASE C!Sample \/ C!ShellSamples
  BY <1>9 DEF C!Sample, C!ShellSamples, C!Sampled, C!StartsConversion, C!Started,
     C!ShellFree, ChargerInv, ChargerPast, C!savedVars, C!tickVars, C!history
<1>10. CASE C!StorageTick \/ C!StorageTickFails
  <2>1. UNCHANGED <<limits, written, conf, override, stored, configured>>
    BY <1>10 DEF C!StorageTick, C!StorageTickFails, C!savedVars
  <2>2. watchdog = "disarmed" => watchdog' = "disarmed"
    BY <1>10 DEF C!StorageTick, C!StorageTickFails, C!Started
  <2> QED BY <2>1, <2>2 DEF ChargerInv, ChargerPast
<1>11. CASE C!Restart
  BY <1>11 DEF C!Restart, ChargerInv, ChargerPast, C!Threads, C!chipVars
<1>12. CASE UNCHANGED chargerVars
  BY <1>12 DEF chargerVars, C!chipVars, C!savedVars, C!history, ChargerInv, ChargerPast
<1> QED
  BY <1>1, <1>2, <1>3, <1>4, <1>5, <1>6, <1>7, <1>8, <1>9, <1>10, <1>11,
     <1>12 DEF C!Next

(* Once the charger was configured, its limits are those written last, for *)
(* ever: its own reset, which comes 40 s after a write, is disarmed, and   *)
(* no interleaving of the settings, the scanner's thread, the shell, the   *)
(* storage controller, failed transfers and restarts brings it back.       *)
(***************************************************************************)
(* The band.  Once configured the chip does not lapse, so that charging is *)
(* set only by the shell and by the controller; what the controller sets   *)
(* it decided by the sample in hand, unless something crossed it.          *)
(***************************************************************************)
Band ==
  /\ tick \in {"idle", "power", "enabled", "terminated", "stop", "stopping", "resume",
               "resuming"}
  /\ mixed \in BOOLEAN /\ (mixed => settled = "none")
  /\ tick \in {"stop", "stopping"} => reading = "high"
  /\ tick \in {"resume", "resuming"} => reading = "low"
  /\ tick = "terminated" /\ ~mixed => charging
  /\ C!BandHolds

(* Init: nothing is decided yet.                                            *)
LEMMA BandInit == C!Init => Band
  BY DEF C!Init, Band, C!BandHolds

(* The storage controller goes on by one transfer.                          *)
LEMMA BandTick == ChargerInv /\ Band /\ C!StorageTick => Band'
<1> SUFFICES ASSUME ChargerInv, Band, C!StorageTick PROVE Band'
  OBVIOUS
<1>1. UNCHANGED <<configured, mixed>>
  BY DEF C!StorageTick
<1>2. CASE tick = "power"
  BY <1>1, <1>2 DEF C!StorageTick, C!Goes, Band, C!BandHolds
<1>3. CASE tick = "enabled"
  BY <1>1, <1>3 DEF C!StorageTick, C!Goes, C!Decided, Band, C!BandHolds
<1>4. CASE tick = "terminated"
  BY <1>1, <1>4 DEF C!StorageTick, C!Goes, C!Decided, Band, C!BandHolds
<1>5. CASE tick = "stop"
  BY <1>1, <1>5 DEF C!StorageTick, C!Goes, C!Decided, Band, C!BandHolds
<1>6. CASE tick = "stopping"
  BY <1>1, <1>6 DEF C!StorageTick, C!Goes, C!Decided, Band, C!BandHolds
<1>7. CASE tick = "resume"
  BY <1>1, <1>7 DEF C!StorageTick, C!Goes, C!Decided, Band, C!BandHolds
<1>8. CASE tick = "resuming"
  BY <1>1, <1>8 DEF C!StorageTick, C!Goes, C!Decided, Band, C!BandHolds
<1> QED BY <1>2, <1>3, <1>4, <1>5, <1>6, <1>7, <1>8 DEF C!StorageTick, Band

(* Every step of the charger keeps the band.                                *)
LEMMA BandNext == ChargerInv /\ Band /\ [C!Next]_chargerVars => Band'
<1> SUFFICES ASSUME ChargerInv, Band, [C!Next]_chargerVars PROVE Band'
  OBVIOUS
<1>1. CASE C!Lapse
  BY <1>1 DEF C!Lapse, ChargerInv, Band, C!BandHolds, C!tickVars, C!history
<1>2. CASE C!Commit
  BY <1>2 DEF C!Commit, Band, C!BandHolds, C!tickVars, C!chipVars
<1>3. ASSUME NEW t \in C!Threads, C!Configure(t) PROVE Band'
  <2>1. UNCHANGED <<charging, tick, reading>>
    BY <1>3 DEF C!Configure, C!tickVars
  <2>2. CASE configured' = configured
    BY <1>3, <2>1, <2>2 DEF C!Configure, Band, C!BandHolds
  <2>3. CASE configured' # configured
    BY <1>3, <2>1, <2>3 DEF C!Configure, Band, C!BandHolds
  <2> QED BY <2>2, <2>3
<1>4. ASSUME NEW t \in C!Threads, C!ConfigureFails(t) PROVE Band'
  BY <1>4 DEF C!ConfigureFails, Band, C!BandHolds, C!tickVars
<1>5. CASE C!ShellConfigures \/ (\E e \in BOOLEAN : C!ShellReads(e))
           \/ C!ShellFails \/ C!ShellSamples
  BY <1>5 DEF C!ShellConfigures, C!ShellReads, C!ShellFails, C!ShellSamples, Band,
     C!BandHolds, C!chipVars, C!tickVars, C!history
<1>6. CASE \E f \in {"vreg", "ichg"}, v \in Limits : C!ShellLimits(f, v)
  BY <1>6 DEF C!ShellLimits, Band, C!BandHolds, C!tickVars
<1>7. CASE C!ShellWrites
  BY <1>7 DEF C!ShellWrites, Band, C!BandHolds, C!tickVars
<1>8. CASE C!SaveOverride
  BY <1>8 DEF C!SaveOverride, Band, C!BandHolds, C!chipVars, C!tickVars, C!history
<1>9. CASE C!Sample
  BY <1>9 DEF C!Sample, Band, C!BandHolds
<1>10. CASE C!StorageTickFails
  BY <1>10 DEF C!StorageTickFails, Band, C!BandHolds
<1>11. CASE C!Restart
  BY <1>11 DEF C!Restart, Band, C!BandHolds, C!chipVars
<1>12. CASE UNCHANGED chargerVars
  BY <1>12 DEF chargerVars, C!chipVars, C!tickVars, C!history, Band, C!BandHolds
<1> QED
  BY <1>1, <1>2, <1>3, <1>4, <1>5, <1>6, <1>7, <1>8, <1>9, <1>10, <1>11, <1>12,
     BandTick DEF C!Next

(***************************************************************************)
(* The depth of a key.  Readings go through a filter that stays between    *)
(* the last value and the new one, so that the range only holds what was   *)
(* measured and only widens; a save that is due, or half done, is of a     *)
(* range that is trusted; and the axis is, of the last reading, where the  *)
(* range in use puts it, which is monotone in the reading.                 *)
(***************************************************************************)
(* A filtered reading is between the last one and the new one.              *)
LEMMA FilterBetween ==
  ASSUME NEW v \in Nat, ema \in Nat
  PROVE  /\ D!Filtered(v) \in Nat
         /\ ema = 0 => D!Filtered(v) = v
         /\ ema # 0 => \/ ema <= D!Filtered(v) /\ D!Filtered(v) <= v
                       \/ v <= D!Filtered(v) /\ D!Filtered(v) <= ema
  BY DEF D!Filtered, D!Quarter

Readings == ValidLo..ValidHi
Ranges == [lo : Readings \cup {0}, hi : Readings \cup {0}, cand : Readings \cup {0},
           pend : BOOLEAN]

DepthTypes ==
  /\ ema \in Readings \cup {0} /\ locked \in BOOLEAN
  /\ range \in Ranges
  /\ axis \in [v : Readings \cup {0}, pos : 0..D!Full]
  /\ dirty \in BOOLEAN /\ lowered \in BOOLEAN
  /\ snapshot \in [reading : BOOLEAN, lo : Readings \cup {0}]
  /\ record \in [lo : Readings \cup {0}, hi : Readings \cup {0}]
  /\ seen \in [low : Nat, high : Nat]

Measured ==
  /\ D!RangeIsMeasured
  /\ snapshot.lo # 0 => snapshot.lo >= seen.low
  /\ range.lo = 0 => range.hi = 0

\* A save that is due, or reads, is of a range that is trusted.
Saving ==
  /\ dirty => D!Trusted(range)
  /\ snapshot.reading =>
       /\ snapshot.lo # 0 /\ range.lo # 0 /\ range.lo <= snapshot.lo
       /\ range.hi >= snapshot.lo + MinSpan

(* How far a reading is in a range, when it is neither end of it.           *)
Between(r, f) == ((f - D!Low(r)) * D!Full) \div (D!High(r) - D!Low(r))

(* What the axis is, of the reading, the lock and the range.                *)
Follows(v, p, l, r) ==
  /\ l => v > D!Low(r) /\ v >= D!Unlock(r)
  /\ v > D!Low(r) /\ v >= D!High(r) => l
  /\ p = IF v <= D!Low(r) THEN 0 ELSE IF l THEN D!Full ELSE Between(r, v)

\* The axis is where the last reading puts it in the range in use.
AxisFollows ==
  D!Trusted(range) =>
    Follows(axis.v, axis.pos, locked, range)

DepthInv ==
  /\ DepthTypes /\ Measured /\ D!TrustIsKept /\ Saving /\ D!TrustIsSaved
  /\ AxisFollows /\ D!AxisIsSteady


(* What the constants of the depth are.                                     *)
LEMMA DepthBounds ==
  /\ ValidLo \in Nat /\ ValidHi \in Nat /\ MinSpan \in Nat
  /\ 0 < ValidLo /\ ValidLo < ValidHi /\ 1 < MinSpan /\ Raws \subseteq Nat
  BY PartsAssumption DEF D!KeyDepthAssumption

(* The axis has a length.                                                   *)
LEMMA FullIs == D!Full \in Nat \ {0}
  BY DEF D!Full

(* A valid reading stays one in the filter, between what there was.         *)
LEMMA FilteredIs ==
  ASSUME DepthTypes, Measured, NEW v \in Raws, D!Valid(v)
  PROVE  /\ D!Filtered(v) \in Readings
         /\ D!Noted(v).low <= D!Filtered(v) /\ D!Filtered(v) <= D!Noted(v).high
         /\ D!Noted(v).low <= seen.low /\ seen.high <= D!Noted(v).high
         /\ D!Noted(v) \in [low : Nat, high : Nat]
<1>1. v \in Readings /\ v \in Nat /\ ema \in Nat
  BY DepthBounds DEF D!Valid, Readings, DepthTypes
<1>2. /\ D!Noted(v) \in [low : Nat, high : Nat]
      /\ D!Noted(v).low <= seen.low /\ D!Noted(v).low <= v
      /\ D!Noted(v).high >= seen.high /\ D!Noted(v).high >= v
  BY <1>1 DEF D!Noted, DepthTypes
<1>3. ema # 0 => seen.low <= ema /\ ema <= seen.high
  BY DEF Measured, D!RangeIsMeasured
<1> QED BY <1>1, <1>2, <1>3, FilterBetween, DepthBounds DEF Readings, DepthTypes

(* What a sample does to the range: it widens, by the sample alone.         *)
LEMMA LearnedIs ==
  ASSUME range \in Ranges, NEW f \in Readings
  PROVE  /\ D!Learned(f) \in Ranges
         /\ D!Learned(f).lo \in {range.lo, f} /\ D!Learned(f).lo # 0
         /\ range.lo # 0 => D!Learned(f).lo <= range.lo
         /\ D!Learned(f).hi \in {range.hi, f} /\ D!Learned(f).hi >= range.hi
         /\ ~D!Grows(f) => D!Learned(f).hi = range.hi
  BY DepthBounds DEF D!Learned, D!Grows, Ranges, Readings

(* A range that is trusted stays so when it widens.                         *)
LEMMA WiderIsTrusted ==
  ASSUME NEW r \in Ranges, NEW l \in Nat, NEW h \in Nat, D!Trusted([lo |-> l, hi |-> h]),
         r.lo # 0, r.lo <= l, h <= r.hi
  PROVE  D!Trusted(r)
  BY DepthBounds DEF D!Trusted, Ranges, Readings

(* Init: nothing is learned.                                                *)
LEMMA DepthInit == ASSUME D!Init PROVE DepthInv
<1>1. DepthTypes
  <2>1. seen \in [low : Nat, high : Nat]
    BY DepthBounds DEF D!Init
  <2>2. axis \in [v : Readings \cup {0}, pos : 0..D!Full]
    BY DEF D!Init, D!Nowhere, D!Full
  <2>3. range \in Ranges /\ record \in [lo : Readings \cup {0}, hi : Readings \cup {0}]
    BY DEF D!Init, D!Unseen, D!NoRange, Ranges
  <2>4. snapshot \in [reading : BOOLEAN, lo : Readings \cup {0}]
    BY DEF D!Init, D!Idle
  <2> QED BY <2>1, <2>2, <2>3, <2>4 DEF D!Init, DepthTypes
<1>2. ~D!Trusted(range) /\ ~D!Trusted(record)
  BY DEF D!Init, D!Unseen, D!NoRange, D!Trusted
<1>3. Measured /\ Saving
  BY DEF D!Init, Measured, D!RangeIsMeasured, Saving, D!Unseen, D!NoRange, D!Idle
<1> QED BY <1>1, <1>2, <1>3 DEF DepthInv, D!TrustIsKept, D!TrustIsSaved, AxisFollows,
           D!AxisIsSteady

(* Where the ends of the range and the thresholds in it lie.                *)
LEMMA Thresholds ==
  ASSUME NEW r \in Ranges, D!Trusted(r)
  PROVE  /\ D!Low(r) \in Nat /\ D!High(r) \in Nat /\ D!Unlock(r) \in Int
         /\ r.lo <= D!Low(r) /\ D!Low(r) < D!Unlock(r) /\ D!Unlock(r) <= D!High(r)
  BY DepthBounds DEF D!Low, D!High, D!Unlock, D!Trusted, Ranges, Readings

(* The unit of the axis is one.                                             *)
LEMMA UnitIs ==
  ASSUME NEW r \in Ranges, D!Trusted(r), NEW f \in Nat
  PROVE  D!Unit(r, f) \in 0..D!Full
<1>1. CASE f <= D!Low(r) \/ D!Locks(r, f)
  BY <1>1 DEF D!Unit, D!Full
<1>2. CASE ~(f <= D!Low(r)) /\ ~D!Locks(r, f)
  <2>1. /\ f - D!Low(r) \in Nat /\ D!High(r) - D!Low(r) \in Nat
        /\ f - D!Low(r) < D!High(r) - D!Low(r)
    BY <1>2, Thresholds DEF D!Locks
  <2> DEFINE a == f - D!Low(r)
             d == D!High(r) - D!Low(r)
  <2>2. (a * D!Full) \div d \in 0..D!Full
    <3>1. a \in Nat /\ d \in Nat /\ a < d
      BY <2>1
    <3> HIDE DEF a, d
    <3>2. (a * D!Full) \div d \in 0..(D!Full - 1)
      BY <3>1, FullIs, Fraction
    <3> QED BY <3>2 DEF D!Full
  <2> QED BY <1>2, <2>2 DEF D!Unit
<1> QED BY <1>1, <1>2

(* So is the position, also of a key whose range is not trusted.            *)
LEMMA PositionIs ==
  ASSUME NEW r \in Ranges, NEW f \in Nat, NEW p \in BOOLEAN
  PROVE  D!Position(r, f, p) \in 0..D!Full
  BY UnitIs DEF D!Position, D!Full

(* A sample keeps the types.                                                *)
LEMMA SampleTypes ==
  ASSUME DepthTypes, Measured, NEW v \in Raws, NEW p \in BOOLEAN, D!Sample(v, p)
  PROVE  DepthTypes'
<1>1. CASE D!Valid(v)
  <2> DEFINE f == D!Filtered(v)
             r == D!Learned(f)
  <2>1. f \in Readings /\ D!Noted(v) \in [low : Nat, high : Nat]
    BY <1>1, FilteredIs
  <2>2. r \in Ranges
    BY <2>1, LearnedIs DEF DepthTypes
  <2>3. D!Position(r, f, p) \in 0..D!Full
    BY <2>1, <2>2, PositionIs, DepthBounds DEF Readings
  <2>4. /\ ema' = f /\ range' = r /\ seen' = D!Noted(v)
        /\ axis' = [v |-> f, pos |-> D!Position(r, f, p)]
        /\ dirty' = (dirty \/ D!Persists(f))
        /\ lowered' = (lowered \/ (D!Trusted(r) /\ ~D!Trusted(range) /\ ~D!Grows(f)))
        /\ locked' = IF D!Trusted(r) THEN D!Locks(r, f) ELSE locked
        /\ UNCHANGED <<snapshot, record>>
    BY <1>1 DEF D!Sample
  <2> HIDE DEF f, r
  <2>5. dirty' \in BOOLEAN /\ lowered' \in BOOLEAN
    BY <2>4 DEF DepthTypes
  <2>6. locked' \in BOOLEAN
    BY <2>4, Zenon DEF DepthTypes, D!Locks
  <2> QED BY <2>1, <2>2, <2>3, <2>4, <2>5, <2>6 DEF DepthTypes
<1>2. CASE ~D!Valid(v)
  <2>1. axis.v \in Nat
    BY DepthBounds DEF DepthTypes, Readings
  <2>2. D!Position(range, axis.v, p) \in 0..D!Full
    BY <2>1, PositionIs DEF DepthTypes
  <2>3. /\ axis' = [axis EXCEPT !.pos = D!Position(range, axis.v, p)]
        /\ locked' = IF D!Trusted(range) THEN D!Locks(range, axis.v) ELSE locked
        /\ UNCHANGED <<ema, range, seen, dirty, lowered, snapshot, record>>
    BY <1>2 DEF D!Sample
  <2>4. locked' \in BOOLEAN
    BY <2>3, Zenon DEF DepthTypes, D!Locks
  <2> QED BY <2>2, <2>3, <2>4 DEF DepthTypes
<1> QED BY <1>1, <1>2

(* A sample keeps what is learned within what was measured, and the range   *)
(* as wide as what is saved.                                                *)
LEMMA SampleLearns ==
  ASSUME DepthInv, NEW v \in Raws, NEW p \in BOOLEAN, D!Sample(v, p)
  PROVE  Measured' /\ D!TrustIsKept' /\ Saving' /\ D!TrustIsSaved'
<1>1. CASE D!Valid(v)
  <2> DEFINE f == D!Filtered(v)
             r == D!Learned(f)
  <2>1. /\ f \in Readings /\ D!Noted(v) \in [low : Nat, high : Nat]
        /\ D!Noted(v).low <= f /\ f <= D!Noted(v).high
        /\ D!Noted(v).low <= seen.low /\ seen.high <= D!Noted(v).high
    BY <1>1, FilteredIs DEF DepthInv
  <2>2. /\ r \in Ranges /\ r.lo \in {range.lo, f} /\ r.lo # 0
        /\ range.lo # 0 => r.lo <= range.lo
        /\ r.hi \in {range.hi, f} /\ r.hi >= range.hi
        /\ ~D!Grows(f) => r.hi = range.hi
    BY <2>1, LearnedIs DEF DepthInv, DepthTypes
  <2>3. /\ ema' = f /\ range' = r /\ seen' = D!Noted(v)
        /\ dirty' = (dirty \/ D!Persists(f))
        /\ lowered' = (lowered \/ (D!Trusted(r) /\ ~D!Trusted(range) /\ ~D!Grows(f)))
        /\ UNCHANGED <<snapshot, record>>
    BY <1>1 DEF D!Sample
  <2>4. D!Persists(f) <=> D!Grows(f) /\ D!Trusted(r)
    BY <2>2 DEF D!Persists, D!Trusted
  <2>5. D!Trusted(range) => D!Trusted(r)
    BY <2>2, DepthBounds DEF D!Trusted, DepthInv, DepthTypes, Ranges, Readings
  <2> HIDE DEF f, r
  <2>6. Measured'
    BY <2>1, <2>2, <2>3, DepthBounds DEF DepthInv, DepthTypes, Measured,
       D!RangeIsMeasured, Ranges, Readings
  <2>7. D!TrustIsKept'
    BY <2>2, <2>3, <2>5, DepthBounds DEF DepthInv, DepthTypes, D!TrustIsKept, D!Trusted,
       Ranges, Readings
  <2>8. Saving'
    BY <2>2, <2>3, <2>4, <2>5, DepthBounds DEF DepthInv, DepthTypes, Saving, Ranges,
       Readings
  <2>9. D!TrustIsSaved'
    <3>1. D!Trusted(r) /\ ~dirty' => D!Trusted(range) \/ lowered'
      BY <2>3, <2>4
    <3>2. lowered => lowered'
      BY <2>3
    <3> QED BY <2>3, <3>1, <3>2 DEF DepthInv, D!TrustIsSaved
  <2> QED BY <2>6, <2>7, <2>8, <2>9
<1>2. CASE ~D!Valid(v)
  <2>1. UNCHANGED <<ema, range, seen, dirty, lowered, snapshot, record>>
    BY <1>2 DEF D!Sample
  <2> QED BY <2>1 DEF DepthInv, Measured, D!RangeIsMeasured, D!TrustIsKept, Saving,
             D!TrustIsSaved
<1> QED BY <1>1, <1>2

(* Within the range the axis grows with the reading, and is not at its end. *)
LEMMA BetweenIs ==
  ASSUME NEW r \in Ranges, D!Trusted(r), NEW f \in Nat, NEW g \in Nat,
         D!Low(r) < f, f <= g, g < D!High(r)
  PROVE  /\ Between(r, f) \in 0..(D!Full - 1) /\ Between(r, g) \in 0..(D!Full - 1)
         /\ Between(r, f) <= Between(r, g)
<1> DEFINE a == f - D!Low(r)
           c == g - D!Low(r)
           d == D!High(r) - D!Low(r)
<1>1. a \in Nat /\ c \in Nat /\ d \in Nat \ {0} /\ a <= c /\ c < d /\ a < d
  BY Thresholds
<1> HIDE DEF a, c, d
<1>2. a * D!Full \in Nat /\ c * D!Full \in Nat /\ a * D!Full <= c * D!Full
  BY <1>1 DEF D!Full
<1>3. (a * D!Full) \div d \in 0..(D!Full - 1) /\ (c * D!Full) \div d \in 0..(D!Full - 1)
  BY <1>1, FullIs, Fraction
<1>4. (a * D!Full) \div d <= (c * D!Full) \div d
  BY <1>1, <1>2, Division
<1> QED BY <1>3, <1>4 DEF a, c, d, Between

(* Two readings in one range: the axis goes the way the key does.           *)
LEMMA Steady ==
  ASSUME NEW r \in Ranges, D!Trusted(r), NEW v \in Nat, NEW w \in Nat, NEW p, NEW q,
         NEW l \in BOOLEAN, NEW m \in BOOLEAN,
         Follows(v, p, l, r), Follows(w, q, m, r),
         m <=> w > D!Low(r) /\ (w >= D!High(r) \/ (l /\ w >= D!Unlock(r)))
  PROVE  /\ w >= v => q >= p
         /\ w <= v => q <= p
         /\ p = D!Full /\ w >= D!Unlock(r) => q = D!Full
<1>1. /\ D!Low(r) \in Nat /\ D!High(r) \in Nat /\ D!Unlock(r) \in Int
      /\ D!Low(r) < D!Unlock(r) /\ D!Unlock(r) <= D!High(r)
  BY Thresholds
<1>2. v > D!Low(r) /\ ~l => v < D!High(r) /\ p = Between(r, v) /\ p \in 0..(D!Full - 1)
  BY <1>1, BetweenIs DEF Follows
<1>3. w > D!Low(r) /\ ~m => w < D!High(r) /\ q = Between(r, w) /\ q \in 0..(D!Full - 1)
  BY <1>1, BetweenIs DEF Follows
<1>4. /\ v <= D!Low(r) => p = 0 /\ ~l
      /\ w <= D!Low(r) => q = 0 /\ ~m
      /\ l => p = D!Full /\ v >= D!Unlock(r) /\ v > D!Low(r)
      /\ m => q = D!Full /\ w >= D!Unlock(r) /\ w > D!Low(r)
  BY <1>1 DEF Follows
<1>5. ASSUME v > D!Low(r), ~l, w > D!Low(r), ~m
      PROVE  (w >= v => q >= p) /\ (w <= v => q <= p)
  BY <1>1, <1>2, <1>3, <1>5, BetweenIs
<1>6. v > D!Low(r) /\ v >= D!High(r) => l
  BY DEF Follows
<1> QED BY <1>1, <1>2, <1>3, <1>4, <1>5, <1>6 DEF D!Full

(* The axis of a sample follows it, and goes the way the key does.          *)
LEMMA SampleAxis ==
  ASSUME DepthInv, NEW v \in Raws, NEW p \in BOOLEAN, D!Sample(v, p)
  PROVE  AxisFollows' /\ D!AxisIsSteady'
<1>1. PICK r \in Ranges, f \in Readings \cup {0} :
        /\ range' = r /\ axis'.v = f /\ axis'.pos = D!Position(r, f, p)
        /\ locked' = IF D!Trusted(r) THEN D!Locks(r, f) ELSE locked
  <2>1. CASE D!Valid(v)
    <3>1. D!Filtered(v) \in Readings
      BY <2>1, FilteredIs DEF DepthInv
    <3>2. D!Learned(D!Filtered(v)) \in Ranges
      BY <3>1, LearnedIs DEF DepthInv, DepthTypes
    <3> QED BY <2>1, <3>1, <3>2 DEF D!Sample
  <2>2. CASE ~D!Valid(v)
    BY <2>2 DEF D!Sample, DepthInv, DepthTypes
  <2> QED BY <2>1, <2>2
<1>2. f \in Nat /\ locked \in BOOLEAN /\ axis.v \in Nat
  BY DepthBounds DEF DepthInv, DepthTypes, Readings
<1>3. CASE ~D!Trusted(r)
  BY <1>1, <1>3 DEF AxisFollows, D!AxisIsSteady
<1>4. CASE D!Trusted(r)
  <2>1. /\ axis'.pos = D!Unit(r, f) /\ (locked' <=> D!Locks(r, f))
    BY <1>1, <1>4 DEF D!Position
  <2>2. /\ D!Low(r) \in Nat /\ D!High(r) \in Nat /\ D!Unlock(r) \in Int
        /\ D!Low(r) < D!Unlock(r) /\ D!Unlock(r) <= D!High(r)
    BY <1>4, Thresholds
  <2>3. locked' \in BOOLEAN
    BY <1>1, <1>2, <1>4, Zenon DEF D!Locks
  <2>4. Follows(f, axis'.pos, locked', r)
    BY <1>2, <2>1, <2>2 DEF D!Locks, D!Unit, Between, Follows
  <2>5. AxisFollows'
    BY <1>1, <2>4 DEF AxisFollows, Follows, D!Low, D!High, D!Unlock, Between
  <2>6. ASSUME before'.range.lo = r.lo, before'.range.hi = r.hi
        PROVE  /\ f >= axis.v => axis'.pos >= axis.pos
               /\ f <= axis.v => axis'.pos <= axis.pos
               /\ axis.pos = D!Full /\ f >= D!Unlock(r) => axis'.pos = D!Full
    <3>1. range.lo = r.lo /\ range.hi = r.hi
      BY <2>6 DEF D!Sample
    <3>2. /\ D!Low(range) = D!Low(r) /\ D!High(range) = D!High(r)
          /\ D!Unlock(range) = D!Unlock(r)
          /\ D!Trusted(range)
      BY <1>4, <3>1 DEF D!Low, D!High, D!Unlock, D!Trusted
    <3>3. Follows(axis.v, axis.pos, locked, r)
      BY <3>2 DEF DepthInv, AxisFollows, Follows, Between
    <3>4. locked' <=> f > D!Low(r) /\ (f >= D!High(r) \/ (locked /\ f >= D!Unlock(r)))
      BY <2>1 DEF D!Locks
    <3> DEFINE q == axis'.pos
               m == locked'
               o == axis.pos
               w == axis.v
    <3>5. /\ Follows(w, o, locked, r) /\ Follows(f, q, m, r) /\ m \in BOOLEAN /\ w \in Nat
          /\ m <=> f > D!Low(r) /\ (f >= D!High(r) \/ (locked /\ f >= D!Unlock(r)))
      BY <1>2, <2>3, <2>4, <3>3, <3>4
    <3> HIDE DEF q, m, o, w
    <3>6. /\ f >= w => q >= o
          /\ f <= w => q <= o
          /\ o = D!Full /\ f >= D!Unlock(r) => q = D!Full
      BY <1>1, <1>2, <1>4, <3>5, Steady
    <3> QED BY <3>6 DEF q, o, w
  <2>7. before'.axis = axis
    BY DEF D!Sample
  <2> QED BY <1>1, <2>5, <2>6, <2>7 DEF D!AxisIsSteady, D!Unlock, D!High
<1> QED BY <1>3, <1>4

(* The LEDs ask for a reading too: it moves the filter and nothing else.    *)
LEMMA LightKeeps == ASSUME DepthInv, NEW v \in Raws, D!Light(v) PROVE DepthInv'
<1>1. /\ ema' \in Readings /\ seen' \in [low : Nat, high : Nat]
      /\ seen'.low <= ema' /\ ema' <= seen'.high
      /\ seen'.low <= seen.low /\ seen.high <= seen'.high
  BY FilteredIs DEF DepthInv, D!Light
<1>2. UNCHANGED <<range, locked, axis, before, dirty, snapshot, record, lowered>>
  BY DEF D!Light, D!axisVars, D!saveVars
<1>3. DepthTypes'
  BY <1>1, <1>2 DEF DepthInv, DepthTypes
<1>4. Measured'
  BY <1>1, <1>2, DepthBounds DEF DepthInv, DepthTypes, Measured, D!RangeIsMeasured,
     Ranges, Readings
<1> QED BY <1>2, <1>3, <1>4 DEF DepthInv, D!TrustIsKept, Saving, D!TrustIsSaved,
           AxisFollows, D!AxisIsSteady, Follows, Between, D!Low, D!High, D!Unlock,
           D!Trusted

(* The save reads one end of the range and then, perhaps later, the other.  *)
LEMMA SaveKeeps == ASSUME DepthInv, D!SaveReads \/ D!SaveWrites PROVE DepthInv'
<1>1. UNCHANGED <<ema, range, locked, axis, before, seen, lowered>>
  BY DEF D!SaveReads, D!SaveWrites, D!axisVars
<1>2. DepthTypes'
  <2>1. dirty' \in BOOLEAN
    BY DEF D!SaveReads, D!SaveWrites, DepthInv, DepthTypes
  <2>2. record' \in [lo : Readings \cup {0}, hi : Readings \cup {0}]
    BY DEF D!SaveReads, D!SaveWrites, DepthInv, DepthTypes, Ranges
  <2>3. snapshot' \in [reading : BOOLEAN, lo : Readings \cup {0}]
    <3>1. CASE D!SaveReads
      <4>1. range.lo \in Readings \cup {0}
        BY DEF DepthInv, DepthTypes, Ranges
      <4> QED BY <3>1, <4>1 DEF D!SaveReads
    <3>2. CASE D!SaveWrites
      BY <3>2 DEF D!SaveWrites, D!Idle
    <3> QED BY <3>1, <3>2
  <2> QED BY <1>1, <2>1, <2>2, <2>3 DEF DepthInv, DepthTypes
<1>3. Measured'
  BY <1>1 DEF D!SaveReads, D!SaveWrites, D!Idle, DepthInv, DepthTypes, Measured,
     D!RangeIsMeasured
<1>4. Saving'
  <2>1. CASE D!SaveReads
    <3>1. range.lo # 0 /\ range.hi >= range.lo + MinSpan /\ range.lo <= range.lo
      BY <2>1, DepthBounds DEF D!SaveReads, DepthInv, Saving, D!Trusted, DepthTypes,
         Ranges, Readings
    <3> QED BY <1>1, <2>1, <3>1 DEF D!SaveReads, Saving
  <2>2. CASE D!SaveWrites
    BY <1>1, <2>2 DEF D!SaveWrites, D!Idle, DepthInv, Saving, D!Trusted
  <2> QED BY <2>1, <2>2
<1>5. D!TrustIsKept' /\ D!TrustIsSaved'
  BY <1>1, DepthBounds DEF D!SaveReads, D!SaveWrites, D!Idle, DepthInv, Saving,
     D!Trusted, D!TrustIsKept, D!TrustIsSaved, DepthTypes, Ranges, Readings
<1>6. AxisFollows' /\ D!AxisIsSteady'
  BY <1>1 DEF DepthInv, AxisFollows, D!AxisIsSteady, Follows, Between, D!Low, D!High,
     D!Unlock, D!Trusted
<1> QED BY <1>2, <1>3, <1>4, <1>5, <1>6 DEF DepthInv

(* A restart takes what was saved, when it is a range.                      *)
LEMMA RestartKeeps == ASSUME DepthInv, D!Restart PROVE DepthInv'
<1> DEFINE r == D!Restored(record)
<1>1. record.lo \in Readings \cup {0} /\ record.hi \in Readings \cup {0}
  BY DEF DepthInv, DepthTypes
<1>2. \/ /\ r = [D!Unseen EXCEPT !.lo = record.lo, !.hi = record.hi] /\ D!Trusted(record)
         /\ record.lo \in Readings /\ record.hi \in Readings
      \/ r = D!Unseen /\ ~D!Trusted(record)
  BY <1>1, DepthBounds DEF D!Restored, D!Trusted, Readings, D!Valid
<1>3. /\ r \in Ranges /\ r.lo \in {0, record.lo} /\ r.hi \in {0, record.hi}
      /\ r.lo = 0 => r.hi = 0
      /\ D!Trusted(record) => r.lo = record.lo /\ r.hi = record.hi
      /\ D!Trusted(r) => D!Trusted(record)
  <2>1. CASE r = D!Unseen /\ ~D!Trusted(record)
    BY <1>1, <2>1 DEF D!Unseen, Ranges, D!Trusted
  <2>2. CASE r # D!Unseen \/ D!Trusted(record)
    <3>1. /\ r \in Ranges /\ r.lo = record.lo /\ r.hi = record.hi
      BY <1>2, <2>2 DEF D!Unseen, Ranges
    <3> QED BY <1>1, <1>2, <2>2, <3>1, DepthBounds DEF Readings, D!Trusted
  <2> QED BY <2>1, <2>2
<1>4. range' = r
  BY DEF D!Restart
<1> HIDE DEF r
<1>5. DepthTypes'
  <2>1. axis' \in [v : Readings \cup {0}, pos : 0..D!Full]
    BY DEF D!Restart, D!Nowhere, D!Full
  <2>2. snapshot' \in [reading : BOOLEAN, lo : Readings \cup {0}]
    BY DEF D!Restart, D!Idle
  <2> QED BY <1>3, <1>4, <2>1, <2>2 DEF D!Restart, DepthInv, DepthTypes
<1>6. Measured'
  BY <1>3, <1>4, DepthBounds DEF D!Restart, D!Idle, DepthInv, DepthTypes, Measured,
     D!RangeIsMeasured
<1>7. D!TrustIsKept' /\ D!TrustIsSaved' /\ Saving'
  BY <1>1, <1>3, <1>4, DepthBounds DEF D!Restart, D!Idle, D!TrustIsKept, D!TrustIsSaved,
     Saving, D!Trusted, Readings
<1>8. AxisFollows'
  <2>1. ASSUME D!Trusted(r) PROVE 0 <= D!Low(r) /\ D!Low(r) < D!High(r)
    BY <1>3, <2>1, Thresholds DEF Ranges
  <2>2. D!Trusted(r) => Follows(0, 0, FALSE, r)
    BY <1>3, <2>1, Thresholds DEF Follows
  <2>3. axis'.v = 0 /\ axis'.pos = 0 /\ locked' = FALSE
    BY DEF D!Restart, D!Nowhere
  <2> QED BY <1>4, <2>2, <2>3 DEF AxisFollows, Follows, Between, D!Low, D!High,
             D!Unlock, D!Trusted
<1>9. D!AxisIsSteady'
  BY DEF D!Restart, D!Nowhere, D!AxisIsSteady
<1> QED BY <1>5, <1>6, <1>7, <1>8, <1>9 DEF DepthInv

(* Every step of the depth keeps its invariant.                             *)
LEMMA DepthNext == ASSUME DepthInv, [D!Next]_depthVars PROVE DepthInv'
<1>1. ASSUME NEW v \in Raws, NEW p \in BOOLEAN, D!Sample(v, p) PROVE DepthInv'
  BY <1>1, SampleTypes, SampleLearns, SampleAxis DEF DepthInv
<1>2. CASE UNCHANGED depthVars
  BY <1>2 DEF depthVars, D!axisVars, D!saveVars, DepthInv, DepthTypes, Measured,
     D!RangeIsMeasured, D!TrustIsKept, Saving, D!TrustIsSaved, AxisFollows,
     D!AxisIsSteady, Follows, Between, D!Low, D!High, D!Unlock, D!Trusted
<1> QED BY <1>1, <1>2, LightKeeps, SaveKeeps, RestartKeeps DEF D!Next

(***************************************************************************)
(* Pairing.  A run of the tool that has reached the receiver has left its  *)
(* record with the keyboard, which does not receive; so that a pair that is *)
(* reported is one, and stays one until a device is asked to receive again. *)
(***************************************************************************)
(* What the constants of pairing are.                                       *)
LEMMA PairSizes ==
  /\ Parts \in Nat \ {0} /\ Deadline \in Nat \ {0} /\ MaxRuns \in Nat \ {0}
  /\ PairingTrouble \in Nat
  /\ P!Bonds \subseteq Nat \ {0} /\ P!None \notin P!Bonds /\ P!Unreadable \notin P!Bonds
  /\ P!None # P!Unreadable
  BY PartsAssumption DEF P!PairingAssumption, P!Bonds, P!None, P!Unreadable

Kept == P!Bonds \cup {P!None, P!Unreadable}
Receives == [bypass : BOOLEAN, pieces : Seq(P!Pieces), expired : BOOLEAN,
             left : 0..Deadline, scheduled : BOOLEAN, running : BOOLEAN]
Tools == [step : {"idle", "status", "write", "record", "saved"}, at : P!Devices,
          record : P!Bonds \cup {P!None}, was : [P!Devices -> Kept]]

PairTypes ==
  /\ tool \in Tools /\ wire \in [P!Devices -> Seq(P!Pieces)] /\ rx \in [P!Devices -> Receives]
  /\ store \in [P!Devices -> Kept] /\ kept \in [P!Devices -> Kept]
  /\ radio \in [P!Devices -> P!Bonds \cup {P!None}] /\ restarted \in [P!Devices -> BOOLEAN]
  /\ runs \in 0..MaxRuns /\ reported \in P!Bonds \cup {P!None}

\* A run that has reached the receiver has left its record with the keyboard.
RunIsKept ==
  /\ tool.step \in {"idle", "status"} => tool.at = "keyboard"
  /\ tool.step \in {"write", "record", "saved"} => tool.record # P!None
  /\ tool.at = "receiver" =>
       store["keyboard"] = tool.record /\ ~rx["keyboard"].bypass

\* Neither device receives while a pair is reported.
NoneReceives == reported # P!None => \A d \in P!Devices : ~rx[d].bypass

PairInv ==
  /\ PairTypes /\ RunIsKept /\ NoneReceives
  /\ P!PairedIsPaired /\ P!OnlyLateIsLate /\ P!StoreIsKept

(* There are two devices.                                                   *)
LEMMA DevicesAre ==
  /\ "keyboard" \in P!Devices /\ "receiver" \in P!Devices
  /\ \A d \in P!Devices : d = "keyboard" \/ d = "receiver"
  BY DEF P!Devices

(* A record is made of pieces, and names its bond.                          *)
LEMMA RecordIs ==
  ASSUME NEW b \in P!Bonds
  PROVE  P!Record(b) \in Seq(P!Pieces) /\ P!Record(b)[1][1] = b
  BY PairSizes DEF P!Record, P!Pieces

(* A device that does not receive, and a tool that does nothing.            *)
LEMMA QuietIs == P!Quiet \in Receives /\ P!Resting \in Tools
  BY PairSizes, DevicesAre DEF P!Quiet, Receives, P!Resting, Tools, Kept

(* The receive of one device is changed.                                    *)
LEMMA OneReceives ==
  ASSUME PairTypes, NEW d \in P!Devices, NEW r \in Receives, rx' = [rx EXCEPT ![d] = r]
  PROVE  /\ rx' \in [P!Devices -> Receives] /\ rx'[d] = r
         /\ \A e \in P!Devices : e # d => rx'[e] = rx[e]
  BY DEF PairTypes

(* Init: no device holds a record, or what it held at the factory.          *)
LEMMA PairStarts == ASSUME P!Init PROVE PairInv
<1>1. PairTypes
  BY PairSizes, QuietIs DEF P!Init, PairTypes, Kept
<1> QED BY <1>1, PairSizes DEF P!Init, PairInv, RunIsKept, NoneReceives,
           P!PairedIsPaired, P!OnlyLateIsLate, P!StoreIsKept, P!Resting, P!Quiet, P!None

(* The tool opens the ports and asks, and is stopped.                       *)
LEMMA AskKeeps ==
  ASSUME PairInv, P!Open \/ P!Abort \/ \E replace \in BOOLEAN : P!Status(replace)
  PROVE  PairInv'
<1>1. UNCHANGED <<rx, reported, store, kept, radio, restarted>>
  BY DEF P!Open, P!Status, P!Abort, P!deviceVars, P!keptVars, P!radioVars
<1>2. wire' \in [P!Devices -> Seq(P!Pieces)]
  <2>1. P!Noise \in P!Pieces
    BY DEF P!Pieces
  <2>2. CASE P!Open
    BY <2>1, <2>2 DEF P!Open, PairInv, PairTypes
  <2>3. CASE ~P!Open
    BY <2>3 DEF P!Status, P!Abort, P!deviceVars, PairInv, PairTypes
  <2> QED BY <2>2, <2>3
<1>3. /\ tool' \in Tools /\ tool'.at = "keyboard" /\ runs' \in 0..MaxRuns
      /\ tool'.step \in {"write", "record", "saved"} => tool'.record # P!None
  <2>1. CASE P!Open
    BY <2>1, QuietIs DEF P!Open, P!Resting, Tools, PairInv, PairTypes
  <2>2. CASE P!Abort
    BY <2>2, QuietIs DEF P!Abort, P!Resting, PairInv, PairTypes
  <2>3. CASE \E replace \in BOOLEAN : P!Status(replace)
    <3>1. CASE tool' = P!Resting /\ runs' = runs
      BY <3>1, QuietIs DEF P!Resting, PairInv, PairTypes
    <3>2. CASE /\ tool' = [tool EXCEPT !.step = "write", !.record = runs + 1, !.was = store]
               /\ runs' = runs + 1 /\ runs # MaxRuns
      <4>1. runs + 1 \in P!Bonds /\ runs + 1 \in 0..MaxRuns
        BY <3>2, PairSizes DEF PairInv, PairTypes, P!Bonds
      <4>2. tool.at = "keyboard"
        BY <2>3 DEF P!Status, PairInv, RunIsKept
      <4> QED BY <3>2, <4>1, <4>2, PairSizes DEF PairInv, PairTypes, Tools
    <3> QED BY <2>3, <3>1, <3>2 DEF P!Status
  <2> QED BY <2>1, <2>2, <2>3
<1>4. PairTypes'
  BY <1>1, <1>2, <1>3 DEF PairInv, PairTypes
<1> QED BY <1>1, <1>3, <1>4 DEF PairInv, RunIsKept, NoneReceives, P!PairedIsPaired,
           P!OnlyLateIsLate, P!StoreIsKept

(* The tool asks a device to receive, which loses the reported pair.        *)
LEMMA WriteKeeps == ASSUME PairInv, P!Write PROVE PairInv'
<1>1. /\ UNCHANGED <<runs, wire, answer, store, kept, radio, restarted>>
      /\ reported' = P!None /\ tool.step = "write" /\ tool.at \in P!Devices
      /\ ~rx[tool.at].bypass
  BY DEF P!Write, P!ShellReady, P!keptVars, P!radioVars, PairInv, PairTypes, Tools
<1>2. CASE tool' = P!Resting /\ rx' = rx
  BY <1>1, <1>2, QuietIs DEF P!Resting, PairInv, PairTypes, RunIsKept, NoneReceives,
     P!PairedIsPaired, P!OnlyLateIsLate, P!StoreIsKept
<1>3. CASE /\ tool' = [tool EXCEPT !.step = "record"]
           /\ rx' = [rx EXCEPT ![tool.at] = [@ EXCEPT !.bypass = TRUE, !.pieces = <<>>,
                       !.expired = FALSE, !.left = Deadline, !.scheduled = TRUE]]
  <2>1. /\ tool' \in Tools /\ tool'.at = tool.at /\ tool'.step = "record"
        /\ tool'.record = tool.record
    BY <1>3 DEF PairInv, PairTypes, Tools
  <2>2. /\ rx' \in [P!Devices -> Receives]
        /\ ~rx'[tool.at].expired
        /\ \A d \in P!Devices : d # tool.at => rx'[d] = rx[d]
    <3> DEFINE r == [rx[tool.at] EXCEPT !.bypass = TRUE, !.pieces = <<>>, !.expired = FALSE,
                                        !.left = Deadline, !.scheduled = TRUE]
    <3>1. rx' = [rx EXCEPT ![tool.at] = r]
      BY <1>3 DEF PairInv, PairTypes
    <3>2. rx[tool.at] \in Receives /\ Deadline \in 0..Deadline /\ <<>> \in Seq(P!Pieces)
      BY <1>1, PairSizes DEF PairInv, PairTypes
    <3>3. r \in Receives /\ ~r.expired
      BY <3>2 DEF Receives
    <3> HIDE DEF r
    <3> QED BY <1>1, <3>1, <3>3, OneReceives DEF PairInv
  <2>3. PairTypes'
    BY <1>1, <2>1, <2>2 DEF PairInv, PairTypes
  <2>4. RunIsKept'
    BY <1>1, <2>1, <2>2, DevicesAre DEF PairInv, RunIsKept
  <2>5. P!OnlyLateIsLate'
    BY <2>2 DEF PairInv, P!OnlyLateIsLate
  <2> QED BY <1>1, <2>3, <2>4, <2>5 DEF PairInv, NoneReceives, P!PairedIsPaired,
             P!StoreIsKept
<1> QED BY <1>2, <1>3 DEF P!Write

(* The tool sends the record.                                               *)
LEMMA SendKeeps == ASSUME PairInv, P!Send PROVE PairInv'
<1>1. /\ UNCHANGED <<runs, reported, rx, answer, store, kept, radio, restarted>>
      /\ tool.step = "record" /\ tool' = [tool EXCEPT !.step = "saved"]
  BY DEF P!Send, P!keptVars, P!radioVars
<1>2. /\ tool' \in Tools /\ tool'.at = tool.at /\ tool'.step = "saved"
      /\ tool'.record = tool.record
  BY <1>1 DEF PairInv, PairTypes, Tools
<1>3. wire' \in [P!Devices -> Seq(P!Pieces)]
  <2>1. tool.record \in P!Bonds /\ tool.at \in P!Devices
    BY <1>1 DEF PairInv, PairTypes, Tools, RunIsKept
  <2>2. wire[tool.at] \o P!Record(tool.record) \in Seq(P!Pieces)
    BY <2>1, RecordIs DEF PairInv, PairTypes
  <2> QED BY <2>1, <2>2 DEF P!Send, PairInv, PairTypes
<1>4. PairTypes'
  BY <1>1, <1>2, <1>3 DEF PairInv, PairTypes
<1> QED BY <1>1, <1>2, <1>4 DEF PairInv, RunIsKept, NoneReceives, P!PairedIsPaired,
           P!OnlyLateIsLate, P!StoreIsKept

(* The tool reads back what was saved: the second device completes a pair.  *)
LEMMA SavedKeeps == ASSUME PairInv, P!Saved PROVE PairInv'
<1> DEFINE d == tool.at
           right == answer[d] = "saved" /\ store[d] = tool.record
<1>1. /\ UNCHANGED <<runs, wire, rx, answer, store, kept, radio>>
      /\ tool.step = "saved" /\ ~rx[d].bypass
      /\ tool' = IF right /\ d = "keyboard"
                 THEN [tool EXCEPT !.step = "write", !.at = "receiver"] ELSE P!Resting
      /\ reported' = IF right /\ d = "receiver" THEN tool.record ELSE reported
      /\ restarted' = [e \in P!Devices |-> restarted[e] /\ reported' = reported]
  BY DEF P!Saved, P!ShellReady, P!deviceVars, P!keptVars
<1>2. tool \in Tools /\ d \in P!Devices /\ tool.record \in P!Bonds
  BY <1>1 DEF PairInv, PairTypes, Tools, RunIsKept
<1>3. /\ tool' \in Tools
      /\ tool'.step \in {"idle", "status"} => tool'.at = "keyboard"
      /\ tool'.step \in {"write", "record", "saved"} => tool'.record # P!None
      /\ tool'.at = "receiver" => store["keyboard"] = tool'.record /\ ~rx["keyboard"].bypass
  <2>1. CASE right /\ d = "keyboard"
    BY <1>1, <1>2, <2>1, DevicesAre, PairSizes DEF Tools
  <2>2. CASE ~(right /\ d = "keyboard")
    BY <1>1, <2>2, QuietIs DEF P!Resting
  <2> QED BY <2>1, <2>2
<1>4. reported' \in P!Bonds \cup {P!None} /\ restarted' \in [P!Devices -> BOOLEAN]
  BY <1>1, <1>2 DEF PairInv, PairTypes
<1>5. PairTypes' /\ RunIsKept'
  BY <1>1, <1>3, <1>4 DEF PairInv, PairTypes, RunIsKept
<1>6. NoneReceives' /\ P!PairedIsPaired'
  <2>1. CASE right /\ d = "receiver"
    <3>1. \A e \in P!Devices : store[e] = tool.record /\ ~rx[e].bypass
      BY <1>1, <2>1, DevicesAre DEF PairInv, RunIsKept
    <3>2. reported' # reported => \A e \in P!Devices : ~restarted'[e]
      BY <1>1
    <3>3. reported' = reported => \A e \in P!Devices : restarted'[e] => restarted[e]
      BY <1>1
    <3>4. reported' = tool.record
      BY <1>1, <2>1
    <3> QED BY <1>1, <1>2, <3>1, <3>2, <3>3, <3>4, PairSizes DEF PairInv, NoneReceives,
               P!PairedIsPaired
  <2>2. CASE ~(right /\ d = "receiver")
    BY <1>1, <2>2 DEF PairInv, NoneReceives, P!PairedIsPaired
  <2> QED BY <2>1, <2>2
<1> QED BY <1>1, <1>5, <1>6 DEF PairInv, P!OnlyLateIsLate, P!StoreIsKept

(* A device that receives belongs to no reported pair, and is not the one   *)
(* whose record the run counts on.                                          *)
LEMMA ReceiveKeeps == ASSUME PairInv, NEW d \in P!Devices, P!Receive(d) PROVE PairInv'
<1> DEFINE got == Append(rx[d].pieces, Head(wire[d]))
<1>1. /\ UNCHANGED <<tool, runs, reported, radio, restarted>>
      /\ rx[d].bypass /\ wire[d] # <<>> /\ wire' = [wire EXCEPT ![d] = Tail(@)]
  BY DEF P!Receive, P!toolVars, P!radioVars
<1>2. reported = P!None /\ ~(d = "keyboard" /\ tool.at = "receiver")
  BY <1>1 DEF PairInv, NoneReceives, RunIsKept
<1>3. wire' \in [P!Devices -> Seq(P!Pieces)] /\ got \in Seq(P!Pieces)
  <2>1. wire[d] \in Seq(P!Pieces) /\ rx[d].pieces \in Seq(P!Pieces)
    BY DEF PairInv, PairTypes, Receives
  <2>2. Tail(wire[d]) \in Seq(P!Pieces) /\ Head(wire[d]) \in P!Pieces
    BY <1>1, <2>1
  <2> QED BY <1>1, <2>1, <2>2 DEF PairInv, PairTypes
<1>4. /\ rx' \in [P!Devices -> Receives]
      /\ \A e \in P!Devices : rx'[e].bypass => rx[e].bypass
      /\ \A e \in P!Devices : rx'[e].expired = rx[e].expired /\ rx'[e].left = rx[e].left
  <2>1. CASE rx' = [rx EXCEPT ![d].pieces = got]
    BY <1>3, <2>1 DEF PairInv, PairTypes, Receives
  <2>2. CASE rx' = [rx EXCEPT ![d] = P!Ended(@)]
    <3>1. rx[d] \in Receives /\ <<>> \in Seq(P!Pieces)
      BY DEF PairInv, PairTypes
    <3> DEFINE r == P!Ended(rx[d])
    <3>2. r \in Receives /\ ~r.bypass /\ r.expired = rx[d].expired /\ r.left = rx[d].left
      BY <3>1 DEF P!Ended, Receives
    <3>3. rx' = [rx EXCEPT ![d] = r]
      BY <2>2 DEF PairInv, PairTypes
    <3> HIDE DEF r
    <3> QED BY <3>2, <3>3, OneReceives DEF PairInv
  <2> QED BY <2>1, <2>2 DEF P!Receive
<1>5. \/ UNCHANGED <<store, kept>>
      \/ \E b \in P!Bonds : P!Stored(d, b)
  <2>1. ASSUME P!ValidRecord(got) PROVE got[1][1] \in P!Bonds
    BY <2>1, RecordIs DEF P!ValidRecord
  <2> QED BY <2>1 DEF P!Receive, P!keptVars
<1>6. store' \in [P!Devices -> Kept] /\ kept' \in [P!Devices -> Kept] /\ store' = kept'
      /\ \A e \in P!Devices : e # d => store'[e] = store[e]
  BY <1>5 DEF P!Stored, PairInv, PairTypes, Kept, P!StoreIsKept
<1>7. PairTypes'
  BY <1>1, <1>3, <1>4, <1>6 DEF PairInv, PairTypes
<1>8. RunIsKept'
  BY <1>1, <1>2, <1>4, <1>6, DevicesAre DEF PairInv, RunIsKept
<1> QED BY <1>1, <1>2, <1>4, <1>6, <1>7, <1>8 DEF PairInv, NoneReceives,
           P!PairedIsPaired, P!OnlyLateIsLate, P!StoreIsKept

(* The deadline of a receive, and what a device drops.                      *)
LEMMA TimeKeeps ==
  ASSUME PairInv, NEW d \in P!Devices,
         P!Ignore(d) \/ P!Tick(d) \/ P!TimeoutStarts(d) \/ P!Timeout(d)
  PROVE  PairInv'
<1>1. UNCHANGED <<tool, runs, reported, store, kept, radio, restarted>>
  BY DEF P!Ignore, P!Tick, P!TimeoutStarts, P!Timeout, P!toolVars, P!keptVars,
     P!radioVars
<1>2. /\ rx' \in [P!Devices -> Receives]
      /\ \A e \in P!Devices : /\ rx'[e].bypass = rx[e].bypass
                              /\ rx'[e].bypass /\ rx'[e].expired => rx'[e].left = 0
  <2>1. CASE P!Ignore(d)
    BY <2>1 DEF P!Ignore, PairInv, PairTypes, P!OnlyLateIsLate
  <2>2. CASE P!Tick(d)
    <3>1. rx[d] \in Receives /\ rx[d].left - 1 \in 0..Deadline
      BY <2>2, PairSizes DEF P!Tick, PairInv, PairTypes, Receives
    <3> DEFINE r == [rx[d] EXCEPT !.left = rx[d].left - 1]
    <3>2. r \in Receives /\ r.bypass = rx[d].bypass /\ r.expired = rx[d].expired
      BY <3>1 DEF Receives
    <3>3. rx' = [rx EXCEPT ![d] = r]
      BY <2>2 DEF P!Tick, PairInv, PairTypes
    <3>4. ~(rx[d].bypass /\ rx[d].expired)
      BY <2>2 DEF P!Tick, PairInv, P!OnlyLateIsLate
    <3> HIDE DEF r
    <3> QED BY <3>2, <3>3, <3>4, OneReceives DEF PairInv, P!OnlyLateIsLate
  <2>3. CASE P!TimeoutStarts(d)
    BY <2>3 DEF P!TimeoutStarts, PairInv, PairTypes, Receives, P!OnlyLateIsLate
  <2>4. CASE P!Timeout(d)
    <3> DEFINE late == rx[d].expired \/ rx[d].left = 0
               off == [rx[d] EXCEPT !.running = FALSE]
               r == [off EXCEPT !.expired = late]
    <3>1. rx[d] \in Receives /\ late \in BOOLEAN
      BY DEF PairInv, PairTypes, Receives
    <3>2. rx' = [rx EXCEPT ![d] = r]
      BY <2>4 DEF P!Timeout, PairInv, PairTypes, Receives
    <3>3. rx[d].bypass /\ late => rx[d].left = 0
      BY DEF PairInv, P!OnlyLateIsLate
    <3> HIDE DEF late
    <3>4. off \in Receives /\ off.bypass = rx[d].bypass /\ off.left = rx[d].left
      BY <3>1 DEF Receives
    <3> HIDE DEF off
    <3>5. /\ r \in Receives /\ r.bypass = rx[d].bypass /\ r.left = rx[d].left
          /\ r.expired = late
      BY <3>1, <3>4 DEF Receives
    <3> HIDE DEF r
    <3> QED BY <3>2, <3>3, <3>5, OneReceives DEF PairInv, P!OnlyLateIsLate
  <2> QED BY <2>1, <2>2, <2>3, <2>4
<1>3. wire' \in [P!Devices -> Seq(P!Pieces)]
  <2>1. wire \in [P!Devices -> Seq(P!Pieces)]
    BY DEF PairInv, PairTypes
  <2>2. CASE P!Ignore(d)
    <3>1. Tail(wire[d]) \in Seq(P!Pieces)
      BY <2>1, <2>2 DEF P!Ignore
    <3> QED BY <2>1, <2>2, <3>1 DEF P!Ignore
  <2>3. CASE ~P!Ignore(d)
    BY <2>1, <2>3 DEF P!Tick, P!TimeoutStarts, P!Timeout
  <2> QED BY <2>2, <2>3
<1>4. PairTypes'
  BY <1>1, <1>2, <1>3 DEF PairInv, PairTypes
<1>5. RunIsKept' /\ NoneReceives' /\ P!PairedIsPaired' /\ P!StoreIsKept'
  BY <1>1, <1>2, DevicesAre DEF PairInv, RunIsKept, NoneReceives, P!PairedIsPaired,
     P!StoreIsKept
<1>6. P!OnlyLateIsLate'
  BY <1>1, <1>2 DEF P!OnlyLateIsLate
<1> QED BY <1>4, <1>5, <1>6 DEF PairInv

(* The stores are cleared, and pages that hold none are erased.             *)
LEMMA ClearKeeps ==
  ASSUME PairInv, P!StorageInit \/ \E d \in P!Devices : P!Clear(d)
  PROVE  PairInv'
<1>1. /\ UNCHANGED <<tool, runs, wire, rx, answer, radio, restarted>> /\ tool.step = "idle"
      /\ \E d \in P!Devices : P!Stored(d, P!None)
  BY DevicesAre DEF P!StorageInit, P!Clear, P!toolVars, P!deviceVars, P!radioVars
<1>2. reported' = P!None
  BY PairSizes, DevicesAre DEF P!StorageInit, P!Clear, P!toolVars, PairInv,
     P!PairedIsPaired, PairTypes
<1>3. store' \in [P!Devices -> Kept] /\ kept' \in [P!Devices -> Kept] /\ store' = kept'
  BY <1>1 DEF P!Stored, PairInv, PairTypes, Kept, P!StoreIsKept
<1>4. tool.at = "keyboard"
  BY <1>1 DEF PairInv, RunIsKept
<1> QED BY <1>1, <1>2, <1>3, <1>4 DEF PairInv, PairTypes, RunIsKept, NoneReceives,
           P!PairedIsPaired, P!OnlyLateIsLate, P!StoreIsKept

(* A restart stops the tool and a receive, and reads the store.             *)
LEMMA PairRestartKeeps ==
  ASSUME PairInv, NEW d \in P!Devices, P!Restart(d)
  PROVE  PairInv'
<1>1. UNCHANGED <<runs, reported, store, kept>> /\ tool' = P!Resting
  BY DEF P!Restart, P!keptVars
<1>2. /\ rx' \in [P!Devices -> Receives] /\ wire' \in [P!Devices -> Seq(P!Pieces)]
      /\ \A e \in P!Devices : rx'[e] \in {rx[e], P!Quiet}
  BY QuietIs DEF P!Restart, PairInv, PairTypes
<1>3. /\ radio' \in [P!Devices -> P!Bonds \cup {P!None}]
      /\ restarted' \in [P!Devices -> BOOLEAN]
      /\ radio'[d] = IF store[d] = P!Unreadable THEN P!None ELSE store[d]
      /\ \A e \in P!Devices : e # d => radio'[e] = radio[e] /\ restarted'[e] = restarted[e]
  BY DEF P!Restart, PairInv, PairTypes, Kept
<1>4. PairTypes'
  BY <1>1, <1>2, <1>3, QuietIs DEF PairInv, PairTypes
<1>5. P!PairedIsPaired'
  BY <1>1, <1>3, PairSizes DEF PairInv, PairTypes, P!PairedIsPaired
<1>6. \A e \in P!Devices : rx'[e] = rx[e] \/ (~rx'[e].bypass /\ ~rx'[e].expired)
  BY <1>2 DEF P!Quiet
<1>7. RunIsKept' /\ NoneReceives'
  BY <1>1, <1>6 DEF PairInv, RunIsKept, NoneReceives, P!Resting
<1>8. P!OnlyLateIsLate' /\ P!StoreIsKept'
  BY <1>1, <1>6 DEF PairInv, P!OnlyLateIsLate, P!StoreIsKept
<1> QED BY <1>4, <1>5, <1>7, <1>8 DEF PairInv

(* Every step of pairing keeps its invariant.                               *)
LEMMA PairNext == ASSUME PairInv, [P!Next]_pairVars PROVE PairInv'
<1>1. CASE P!Next
  BY <1>1, AskKeeps, WriteKeeps, SendKeeps, SavedKeeps, ReceiveKeeps, TimeKeeps,
     ClearKeeps, PairRestartKeeps DEF P!Next
<1>2. CASE UNCHANGED pairVars
  BY <1>2 DEF pairVars, P!toolVars, P!deviceVars, P!keptVars, P!radioVars, PairInv,
     PairTypes, RunIsKept, NoneReceives, P!PairedIsPaired, P!OnlyLateIsLate,
     P!StoreIsKept
<1> QED BY <1>1, <1>2

(***************************************************************************)
(* The channel hopping.  An exchange changes some fields of one or both    *)
(* records; Passes then moves both to the next slot.                       *)
(***************************************************************************)
USE ScheduleAssumption, TimeAssumption DEF StartSlot, Holdover, LinkTimeout,
    HandshakeTimeout, DiscoveryTimeout

KbdRecord ==
  [state : KbdStates, silence : Int, channel : ChannelSet, peer : BOOLEAN,
   schedule : Schedules, mapAcked : BOOLEAN, syncAcked : BOOLEAN, slot : Int]
RcvRecord ==
  [state : RcvStates, silence : Int, channel : ChannelSet, peer : BOOLEAN,
   schedule : Schedules, hasMap : BOOLEAN, running : BOOLEAN, slot : Int, age : Int]

(* The bounds of time in TypeOK are not needed here.                        *)
HopInv == kbd \in KbdRecord /\ rcv \in RcvRecord /\ SessionInv

(* What the next slot makes of a keyboard k.                                *)
KbdAdvances(k) ==
  /\ kbd' \in KbdRecord
  /\ kbd'.state = k.state /\ kbd'.channel = k.channel /\ kbd'.peer = k.peer
  /\ kbd'.schedule = k.schedule /\ kbd'.mapAcked = k.mapAcked
  /\ kbd'.syncAcked = k.syncAcked
  /\ k.state # "PAUSED" =>
       /\ kbd'.silence = k.silence + 1
       /\ kbd'.slot = IF k.mapAcked THEN k.slot + 1 ELSE 0

(* What it makes of a receiver r.                                           *)
RcvAdvances(r) ==
  /\ rcv' \in RcvRecord
  /\ rcv'.state = r.state /\ rcv'.channel = r.channel /\ rcv'.peer = r.peer
  /\ rcv'.schedule = r.schedule /\ rcv'.hasMap = r.hasMap /\ rcv'.running = r.running
  /\ r.state # "PAUSED" =>
       /\ rcv'.silence = r.silence + 1
       /\ rcv'.slot = IF r.running THEN r.slot + 1 ELSE 0
       /\ rcv'.age = IF r.running THEN r.age + 1 ELSE 0

(* The next slot changes only the clocks of the keyboard.                   *)
LEMMA PassesKbd ==
  ASSUME NEW k \in KbdRecord, NEW r, NEW i, Passes(k, r, i) PROVE KbdAdvances(k)
<1>1. CASE k.state = "PAUSED"
  <2>1. kbd' = k
    BY <1>1 DEF Passes
  <2> QED BY <1>1, <2>1 DEF KbdAdvances
<1>2. CASE k.state # "PAUSED"
  <2> DEFINE next == IF k.mapAcked THEN k.slot + 1 ELSE 0
             kk == [k EXCEPT !.silence = k.silence + 1]
  <2>1. kk \in KbdRecord /\ kk.state = k.state /\ kk.channel = k.channel /\ kk.peer = k.peer
        /\ kk.schedule = k.schedule /\ kk.mapAcked = k.mapAcked
        /\ kk.syncAcked = k.syncAcked /\ kk.silence = k.silence + 1
    BY DEF KbdRecord
  <2>2. kbd' = [kk EXCEPT !.slot = next]
    BY <1>2 DEF Passes, KbdRecord
  <2>3. next \in Int /\ next = IF k.mapAcked THEN k.slot + 1 ELSE 0
    BY DEF KbdRecord
  <2> HIDE DEF kk, next
  <2>4. /\ kbd' \in KbdRecord
        /\ kbd'.state = kk.state /\ kbd'.channel = kk.channel /\ kbd'.peer = kk.peer
        /\ kbd'.schedule = kk.schedule /\ kbd'.mapAcked = kk.mapAcked
        /\ kbd'.syncAcked = kk.syncAcked /\ kbd'.silence = kk.silence
        /\ kbd'.slot = next
    BY <2>1, <2>2, <2>3 DEF KbdRecord
  <2> QED BY <2>1, <2>3, <2>4 DEF KbdAdvances
<1> QED BY <1>1, <1>2

(* And of the receiver.                                                     *)
LEMMA PassesRcv ==
  ASSUME NEW k, NEW r \in RcvRecord, NEW i, Passes(k, r, i) PROVE RcvAdvances(r)
<1>1. CASE r.state = "PAUSED"
  <2>1. rcv' = r
    BY <1>1 DEF Passes
  <2> QED BY <1>1, <2>1 DEF RcvAdvances
<1>2. CASE r.state # "PAUSED"
  <2> DEFINE next == IF r.running THEN r.slot + 1 ELSE 0
             old == IF r.running THEN r.age + 1 ELSE 0
             rr == [r EXCEPT !.silence = r.silence + 1]
             rrr == [rr EXCEPT !.slot = next]
  <2>1. rr \in RcvRecord /\ rr.state = r.state /\ rr.channel = r.channel /\ rr.peer = r.peer
        /\ rr.schedule = r.schedule /\ rr.running = r.running /\ rr.hasMap = r.hasMap
        /\ rr.silence = r.silence + 1
    BY DEF RcvRecord
  <2>2. rcv' = [rrr EXCEPT !.age = old]
    BY <1>2 DEF Passes, RcvRecord
  <2>3. next \in Int /\ old \in Int
    BY DEF RcvRecord
  <2>4. /\ next = IF r.running THEN r.slot + 1 ELSE 0
        /\ old = IF r.running THEN r.age + 1 ELSE 0
    OBVIOUS
  <2> HIDE DEF rr, next, old
  <2>5. /\ rrr \in RcvRecord
        /\ rrr.state = rr.state /\ rrr.channel = rr.channel /\ rrr.peer = rr.peer
        /\ rrr.schedule = rr.schedule /\ rrr.running = rr.running
        /\ rrr.hasMap = rr.hasMap /\ rrr.silence = rr.silence /\ rrr.slot = next
    BY <2>1, <2>3 DEF RcvRecord
  <2> HIDE DEF rrr
  <2>6. /\ rcv' \in RcvRecord
        /\ rcv'.state = rrr.state /\ rcv'.channel = rrr.channel /\ rcv'.peer = rrr.peer
        /\ rcv'.schedule = rrr.schedule /\ rcv'.running = rrr.running
        /\ rcv'.hasMap = rrr.hasMap /\ rcv'.silence = rrr.silence
        /\ rcv'.slot = rrr.slot /\ rcv'.age = old
    BY <2>2, <2>3, <2>5 DEF RcvRecord
  <2> QED BY <2>1, <2>4, <2>5, <2>6 DEF RcvAdvances
<1> QED BY <1>1, <1>2

(* Both clocks advance alike, so what was consistent in one slot is in the  *)
(* next.                                                                    *)
LEMMA PassesInv ==
  ASSUME NEW k \in KbdRecord, NEW r \in RcvRecord, NEW i, Passes(k, r, i),
         Consistent(k, r)
  PROVE  HopInv'
<1>1. KbdAdvances(k) /\ RcvAdvances(r)
  BY PassesKbd, PassesRcv
<1>2. ASSUME k.peer, r.running, Awake(k, r) PROVE kbd'.slot = rcv'.slot
  BY <1>1, <1>2 DEF KbdAdvances, RcvAdvances, Consistent, Awake
<1> QED BY <1>1, <1>2 DEF KbdAdvances, RcvAdvances, HopInv, SessionInv, Consistent, Awake

(* The keyboard starts over, or is asked to.                                *)
LEMMA KbdNewFields ==
  ASSUME HopInv, KbdNewSession
  PROVE  /\ kbd' \in KbdRecord /\ ~kbd'.peer /\ kbd'.silence = 0
         /\ kbd'.state = "WAIT_CHALLENGE" /\ ~kbd'.mapAcked /\ ~kbd'.syncAcked
         /\ rcv' \in RcvRecord /\ ~rcv'.peer
         /\ rcv'.state = rcv.state /\ rcv'.running = rcv.running
         /\ rcv'.silence = rcv.silence /\ rcv'.age = rcv.age
<1>1. AnySchedule \in Schedules
  BY DEF AnySchedule
<1>2. /\ kbd' \in KbdRecord /\ ~kbd'.peer /\ kbd'.silence = 0
      /\ kbd'.state = "WAIT_CHALLENGE" /\ ~kbd'.mapAcked /\ ~kbd'.syncAcked
  BY <1>1 DEF KbdNewSession, KbdStart, KbdRecord, KbdStates, ChannelSet, Search
<1>3. /\ rcv' \in RcvRecord /\ ~rcv'.peer
      /\ rcv'.state = rcv.state /\ rcv'.running = rcv.running
      /\ rcv'.silence = rcv.silence /\ rcv'.age = rcv.age
  BY DEF HopInv, KbdNewSession, RcvRecord
<1> QED BY <1>2, <1>3

(* The receiver starts over, or is asked to.                                *)
LEMMA RcvNewFields ==
  ASSUME HopInv, RcvNewSession
  PROVE  /\ rcv' \in RcvRecord /\ ~rcv'.peer /\ ~rcv'.running
         /\ rcv'.state = "WAIT_HELLO" /\ rcv'.silence = 0
         /\ kbd' \in KbdRecord /\ ~kbd'.peer
         /\ kbd'.state = kbd.state /\ kbd'.mapAcked = kbd.mapAcked
         /\ kbd'.syncAcked = kbd.syncAcked /\ kbd'.silence = kbd.silence
         /\ kbd'.slot = kbd.slot
<1>1. AnySchedule \in Schedules
  BY DEF AnySchedule
<1>2. /\ rcv' \in RcvRecord /\ ~rcv'.peer /\ ~rcv'.running
      /\ rcv'.state = "WAIT_HELLO" /\ rcv'.silence = 0
  BY <1>1 DEF RcvNewSession, RcvStart, RcvRecord, RcvStates, ChannelSet, Search
<1>3. /\ kbd' \in KbdRecord /\ ~kbd'.peer
      /\ kbd'.state = kbd.state /\ kbd'.mapAcked = kbd.mapAcked
      /\ kbd'.syncAcked = kbd.syncAcked /\ kbd'.silence = kbd.silence
      /\ kbd'.slot = kbd.slot
  BY DEF HopInv, RcvNewSession, KbdRecord
<1> QED BY <1>2, <1>3

(* A pause ends the use of the session until a new one is started.          *)
LEMMA PauseInv == ASSUME HopInv, KbdPause \/ RcvPause PROVE HopInv'
<1>1. CASE KbdPause
  <2>1. /\ kbd' \in KbdRecord /\ kbd'.peer = kbd.peer /\ kbd'.state = "PAUSED"
        /\ kbd'.syncAcked = kbd.syncAcked /\ kbd'.mapAcked = kbd.mapAcked
        /\ rcv' = rcv
    BY <1>1 DEF HopInv, KbdPause, KbdRecord, KbdStates
  <2> QED BY <2>1 DEF HopInv, SessionInv, Consistent, Awake
<1>2. CASE RcvPause
  <2>1. /\ rcv' \in RcvRecord /\ rcv'.peer = rcv.peer /\ rcv'.state = "PAUSED"
        /\ kbd' = kbd
    BY <1>2 DEF HopInv, RcvPause, RcvRecord, RcvStates
  <2> QED BY <2>1 DEF HopInv, SessionInv, Consistent, Awake
<1> QED BY <1>1, <1>2

(* Scanning only uses the channels of the map.                              *)
LEMMA DiscoveryChannel ==
  ASSUME NEW dwell \in Nat \ {0}, NEW elapsed \in Int
  PROVE  Discovery(dwell, elapsed) \in ChannelSet
<1> DEFINE i == (elapsed \div dwell) % Count
<1>1. i \in 0..3
  BY DEF Count
<1> HIDE DEF i
<1> QED BY <1>1 DEF Discovery, Search, ChannelSet, i

(* What a receiver that hears HELLO while scanning becomes.                 *)
LEMMA HeardFields ==
  ASSUME rcv \in RcvRecord, rcv.state = "WAIT_HELLO", NEW s \in Schedules
  PROVE  LET r == HelloHeard(s)
         IN  /\ r \in RcvRecord /\ r.state = "WAIT_CONFIRM" /\ r.peer /\ r.silence = 0
             /\ r.channel = RcvChannel /\ r.running = rcv.running
<1> DEFINE c == RcvChannel
           r == HelloHeard(s)
<1>0. c \in ChannelSet
  BY DiscoveryChannel DEF RcvChannel, RcvRecord, RcvDwell
<1> HIDE DEF c
<1> DEFINE r1 == [rcv EXCEPT !.state = "WAIT_CONFIRM"]
           r2 == [r1 EXCEPT !.silence = 0]
           r3 == [r2 EXCEPT !.peer = TRUE]
           r4 == [r3 EXCEPT !.channel = c]
<1>1. r = [r4 EXCEPT !.schedule = s]
  BY DEF HelloHeard, c
<1>2. r1 \in RcvRecord /\ r1.state = "WAIT_CONFIRM" /\ r1.running = rcv.running
  BY DEF RcvRecord, RcvStates
<1> HIDE DEF r1
<1>3. r2 \in RcvRecord /\ r2.state = r1.state /\ r2.running = r1.running /\ r2.silence = 0
  BY <1>2 DEF RcvRecord
<1> HIDE DEF r2
<1>4. r3 \in RcvRecord /\ r3.state = r2.state /\ r3.running = r2.running /\ r3.peer
      /\ r3.silence = r2.silence
  BY <1>3 DEF RcvRecord
<1> HIDE DEF r3
<1>5. r4 \in RcvRecord /\ r4.state = r3.state /\ r4.running = r3.running
      /\ r4.peer = r3.peer /\ r4.channel = c /\ r4.silence = r3.silence
  BY <1>0, <1>4 DEF RcvRecord
<1> HIDE DEF r4, r
<1>6. r \in RcvRecord /\ r.state = r4.state /\ r.running = r4.running
      /\ r.peer = r4.peer /\ r.channel = r4.channel /\ r.silence = r4.silence
  BY <1>1, <1>5 DEF RcvRecord
<1> QED BY <1>2, <1>3, <1>4, <1>5, <1>6 DEF c, r

(* What a keyboard that is answered CHALLENGE becomes.                      *)
LEMMA ChallengedFields ==
  ASSUME kbd \in KbdRecord, kbd.state = "WAIT_CHALLENGE", NEW s \in Schedules
  PROVE  LET k == Challenged(s)
         IN  /\ k \in KbdRecord /\ k.state = "WAIT_READY" /\ k.silence = 0 /\ k.peer
             /\ k.channel = KbdChannel /\ k.schedule = s
             /\ k.mapAcked = kbd.mapAcked /\ k.syncAcked = kbd.syncAcked
<1> DEFINE c == KbdChannel
           k == Challenged(s)
<1>0. c \in ChannelSet
  BY DiscoveryChannel DEF KbdChannel, KbdRecord, KbdDwell
<1> HIDE DEF c
<1> DEFINE k1 == [kbd EXCEPT !.state = "WAIT_READY"]
           k2 == [k1 EXCEPT !.silence = 0]
           k3 == [k2 EXCEPT !.peer = TRUE]
           k4 == [k3 EXCEPT !.channel = c]
<1>1. k = [k4 EXCEPT !.schedule = s]
  BY DEF Challenged, c
<1>2. k1 \in KbdRecord /\ k1.state = "WAIT_READY" /\ k1.mapAcked = kbd.mapAcked
      /\ k1.syncAcked = kbd.syncAcked
  BY DEF KbdRecord, KbdStates
<1> HIDE DEF k1
<1>3. k2 \in KbdRecord /\ k2.state = k1.state /\ k2.mapAcked = k1.mapAcked
      /\ k2.syncAcked = k1.syncAcked /\ k2.silence = 0
  BY <1>2 DEF KbdRecord
<1> HIDE DEF k2
<1>4. k3 \in KbdRecord /\ k3.state = k2.state /\ k3.mapAcked = k2.mapAcked
      /\ k3.syncAcked = k2.syncAcked /\ k3.silence = k2.silence /\ k3.peer
  BY <1>3 DEF KbdRecord
<1> HIDE DEF k3
<1>5. k4 \in KbdRecord /\ k4.state = k3.state /\ k4.mapAcked = k3.mapAcked
      /\ k4.syncAcked = k3.syncAcked /\ k4.silence = k3.silence /\ k4.peer = k3.peer
      /\ k4.channel = c
  BY <1>0, <1>4 DEF KbdRecord
<1> HIDE DEF k4, k
<1>6. k \in KbdRecord /\ k.state = k4.state /\ k.mapAcked = k4.mapAcked
      /\ k.syncAcked = k4.syncAcked /\ k.silence = k4.silence /\ k.peer = k4.peer
      /\ k.channel = k4.channel /\ k.schedule = s
  BY <1>1, <1>5 DEF KbdRecord
<1> QED BY <1>2, <1>3, <1>4, <1>5, <1>6 DEF c, k

(* Whether a receiver hears the keyboard's HELLO.                           *)
HelloReaches ==
  Meet /\ (rcv.state = "WAIT_HELLO" \/ (rcv.state = "WAIT_CONFIRM" /\ rcv.peer))

(* What HELLO and CHALLENGE make of the two ends.                           *)
HelloEffect(k, r, o) ==
  \/ k = kbd /\ r = rcv /\ (o = "lost" \/ ~HelloReaches)
  \/ /\ HelloReaches
     /\ r.state = "WAIT_CONFIRM" /\ r.peer /\ r.channel = KbdChannel /\ r.silence = 0
     /\ ~r.running
     /\ \/ o # "answered" /\ k = kbd
        \/ /\ o = "answered" /\ k.state = "WAIT_READY" /\ k.peer /\ k.silence = 0
           /\ k.channel = r.channel /\ k.schedule = r.schedule
           /\ ~k.mapAcked /\ ~k.syncAcked

(* The receiver keeps the channel it heard the keyboard on, and the keyboard*)
(* takes the one it was answered on.                                        *)
LEMMA HelloStep ==
  ASSUME HopInv, NEW o, NEW s \in Schedules, Hello(o, s)
  PROVE  /\ kbd.state = "WAIT_CHALLENGE"
         /\ \E k \in KbdRecord, r \in RcvRecord :
              Passes(k, r, o = "answered") /\ HelloEffect(k, r, o)
<1> DEFINE heard == /\ o # "lost" /\ Meet
                    /\ rcv.state = "WAIT_HELLO" \/ (rcv.state = "WAIT_CONFIRM" /\ rcv.peer)
           r == IF heard THEN HelloHeard(s) ELSE rcv
           k == IF heard /\ o = "answered" THEN Challenged(r.schedule) ELSE kbd
<1>1. kbd.state = "WAIT_CHALLENGE" /\ Passes(k, r, o = "answered")
  BY DEF Hello
<1>2. CASE ~heard
  <2>1. k = kbd /\ r = rcv /\ (o = "lost" \/ ~HelloReaches)
    BY <1>2 DEF HelloReaches
  <2> HIDE DEF k, r
  <2> QED BY <1>1, <2>1 DEF HelloEffect, HopInv
<1>3. CASE heard
  <2>0. ~rcv.running
    BY <1>3 DEF HopInv, SessionInv, Consistent
  <2>1. r \in RcvRecord /\ r.state = "WAIT_CONFIRM" /\ r.peer /\ ~r.running
        /\ r.channel = KbdChannel /\ r.silence = 0
    <3>0. RcvChannel = KbdChannel
      BY <1>3 DEF Meet
    <3>1. CASE rcv.state = "WAIT_HELLO"
      <4>1. r = HelloHeard(s)
        BY <1>3
      <4> HIDE DEF r
      <4> QED BY <2>0, <3>0, <3>1, <4>1, HeardFields DEF HopInv
    <3>2. CASE rcv.state # "WAIT_HELLO"
      <4>1. rcv.state = "WAIT_CONFIRM" /\ rcv.peer /\ KbdChannel = rcv.channel
        BY <1>3, <3>0, <3>2 DEF RcvChannel, RcvHops
      <4>2. r = [rcv EXCEPT !.silence = 0]
        BY <1>3, <3>2 DEF HelloHeard
      <4> HIDE DEF r
      <4> QED BY <2>0, <4>1, <4>2 DEF HopInv, RcvRecord
    <3> QED BY <3>1, <3>2
  <2>2. HelloReaches
    BY <1>3 DEF HelloReaches
  <2>3. CASE o # "answered"
    <3>1. k = kbd /\ kbd \in KbdRecord
      BY <2>3 DEF HopInv
    <3> HIDE DEF r, k
    <3> QED BY <1>1, <2>1, <2>2, <2>3, <3>1 DEF HelloEffect
  <2>4. CASE o = "answered"
    <3>1. k = Challenged(r.schedule)
      BY <1>3, <2>4
    <3>2. r.schedule \in Schedules
      BY <2>1 DEF RcvRecord
    <3> HIDE DEF r, k
    <3>3. k \in KbdRecord /\ k.state = "WAIT_READY" /\ k.channel = r.channel
          /\ k.schedule = r.schedule /\ k.mapAcked = kbd.mapAcked /\ k.peer
          /\ k.syncAcked = kbd.syncAcked /\ k.silence = 0
      BY <1>1, <2>1, <3>1, <3>2, ChallengedFields DEF HopInv
    <3>4. ~kbd.mapAcked /\ ~kbd.syncAcked
      BY <1>1 DEF HopInv, SessionInv, Consistent
    <3> QED BY <1>1, <2>1, <2>2, <2>4, <3>3, <3>4 DEF HelloEffect
  <2> QED BY <2>3, <2>4
<1> QED BY <1>2, <1>3

(* So they have one channel and one schedule from then on.                  *)
LEMMA HelloInv ==
  ASSUME HopInv, NEW o, NEW s \in Schedules, Hello(o, s) PROVE HopInv'
<1>1. PICK k \in KbdRecord, r \in RcvRecord :
        Passes(k, r, o = "answered") /\ HelloEffect(k, r, o)
  BY HelloStep
<1>2. kbd.state = "WAIT_CHALLENGE" /\ ~kbd.peer
  BY HelloStep DEF HopInv, SessionInv, Consistent
<1>3. Consistent(k, r)
  BY <1>1, <1>2 DEF HelloEffect, HopInv, SessionInv, Consistent
<1> QED BY <1>1, <1>3, PassesInv

(* One field of a record at a time.                                         *)
LEMMA RcvSilence ==
  ASSUME NEW r \in RcvRecord, NEW n \in Int
  PROVE  LET q == [r EXCEPT !.silence = n]
         IN  /\ q \in RcvRecord /\ q.peer = r.peer /\ q.channel = r.channel
             /\ q.schedule = r.schedule /\ q.running = r.running /\ q.slot = r.slot
             /\ q.state = r.state /\ q.hasMap = r.hasMap /\ q.age = r.age
             /\ q.silence = n
  BY DEF RcvRecord

(* The same of the keyboard.                                                *)
LEMMA KbdSilence ==
  ASSUME NEW k \in KbdRecord, NEW n \in Int
  PROVE  LET q == [k EXCEPT !.silence = n]
         IN  /\ q \in KbdRecord /\ q.peer = k.peer /\ q.channel = k.channel
             /\ q.schedule = k.schedule /\ q.mapAcked = k.mapAcked
             /\ q.syncAcked = k.syncAcked /\ q.slot = k.slot /\ q.state = k.state
             /\ q.silence = n
  BY DEF KbdRecord

(* What a receiver keeps in an exchange of an established pair.             *)
RcvKeeps(r) == r.peer = rcv.peer /\ r.channel = rcv.channel /\ r.schedule = rcv.schedule

(* What the keyboard keeps.                                                 *)
KbdKeeps(k) == k.peer = kbd.peer /\ k.channel = kbd.channel /\ k.schedule = kbd.schedule

(* Whether CONFIRM is accepted, and the offer of the map.                   *)
ConfirmReaches == Meet /\ Shared /\ rcv.state \in {"WAIT_CONFIRM", "ESTABLISHED"}
OfferReaches == Meet /\ Shared /\ rcv.state = "ESTABLISHED" /\ ~rcv.running

(* What CONFIRM and READY make of the two ends.                             *)
ConfirmEffect(k, r, o) ==
  \/ k = kbd /\ r = rcv /\ (o = "lost" \/ ~ConfirmReaches)
  \/ /\ ConfirmReaches
     /\ RcvKeeps(r) /\ r.state = "ESTABLISHED" /\ r.silence = 0
     /\ r.running = rcv.running /\ r.slot = rcv.slot /\ r.age = rcv.age
     /\ r.hasMap = rcv.hasMap
     /\ KbdKeeps(k) /\ k.mapAcked = kbd.mapAcked /\ k.syncAcked = kbd.syncAcked
     /\ k.slot = kbd.slot
     /\ \/ o # "answered" /\ k = kbd
        \/ o = "answered" /\ k.state = "ESTABLISHED" /\ k.silence = 0

(* The receiver is established no later than the keyboard.                  *)
LEMMA ConfirmStep ==
  ASSUME HopInv, NEW o, Confirm(o)
  PROVE  /\ kbd.state = "WAIT_READY"
         /\ \E k \in KbdRecord, r \in RcvRecord :
              Passes(k, r, o = "answered") /\ ConfirmEffect(k, r, o)
<1> DEFINE heard == /\ o # "lost" /\ Meet /\ Shared
                    /\ rcv.state \in {"WAIT_CONFIRM", "ESTABLISHED"}
           r == IF heard THEN [rcv EXCEPT !.state = "ESTABLISHED", !.silence = 0] ELSE rcv
           k == IF heard /\ o = "answered"
                THEN [kbd EXCEPT !.state = "ESTABLISHED", !.silence = 0] ELSE kbd
<1>1. kbd.state = "WAIT_READY" /\ Passes(k, r, o = "answered")
  BY DEF Confirm
<1>2. CASE ~heard
  <2>1. k = kbd /\ r = rcv /\ (o = "lost" \/ ~ConfirmReaches)
    BY <1>2 DEF ConfirmReaches
  <2> HIDE DEF k, r
  <2> QED BY <1>1, <2>1 DEF ConfirmEffect, HopInv
<1>3. CASE heard
  <2>1. /\ r \in RcvRecord /\ RcvKeeps(r) /\ r.running = rcv.running /\ r.slot = rcv.slot
        /\ r.age = rcv.age /\ r.hasMap = rcv.hasMap
        /\ r.state = "ESTABLISHED" /\ r.silence = 0
    <3> DEFINE q == [rcv EXCEPT !.state = "ESTABLISHED"]
    <3>1. /\ q \in RcvRecord /\ RcvKeeps(q) /\ q.running = rcv.running
          /\ q.slot = rcv.slot /\ q.age = rcv.age /\ q.hasMap = rcv.hasMap
          /\ q.state = "ESTABLISHED"
      BY DEF HopInv, RcvRecord, RcvStates, RcvKeeps
    <3>2. r = [q EXCEPT !.silence = 0]
      BY <1>3
    <3> HIDE DEF q, r
    <3> QED BY <3>1, <3>2, RcvSilence DEF RcvKeeps
  <2>2. /\ k \in KbdRecord /\ KbdKeeps(k) /\ k.mapAcked = kbd.mapAcked
        /\ k.syncAcked = kbd.syncAcked /\ k.slot = kbd.slot
        /\ \/ o # "answered" /\ k = kbd
           \/ o = "answered" /\ k.state = "ESTABLISHED" /\ k.silence = 0
    <3> DEFINE q == [kbd EXCEPT !.state = "ESTABLISHED"]
    <3>1. /\ q \in KbdRecord /\ KbdKeeps(q) /\ q.mapAcked = kbd.mapAcked
          /\ q.syncAcked = kbd.syncAcked /\ q.slot = kbd.slot
          /\ q.state = "ESTABLISHED"
      BY DEF HopInv, KbdRecord, KbdStates, KbdKeeps
    <3>2. k = IF o = "answered" THEN [q EXCEPT !.silence = 0] ELSE kbd
      BY <1>3
    <3> HIDE DEF q, k
    <3>3. CASE o = "answered"
      BY <3>1, <3>2, <3>3, KbdSilence DEF KbdKeeps
    <3>4. CASE o # "answered"
      BY <3>2, <3>4 DEF KbdKeeps, HopInv
    <3> QED BY <3>3, <3>4
  <2>3. ConfirmReaches
    BY <1>3 DEF ConfirmReaches
  <2> HIDE DEF k, r
  <2> QED BY <1>1, <2>1, <2>2, <2>3 DEF ConfirmEffect
<1> QED BY <1>2, <1>3

(* So an established keyboard has an established receiver.                  *)
LEMMA ConfirmInv == ASSUME HopInv, NEW o, Confirm(o) PROVE HopInv'
<1>1. PICK k \in KbdRecord, r \in RcvRecord :
        Passes(k, r, o = "answered") /\ ConfirmEffect(k, r, o)
  BY ConfirmStep
<1>2. kbd.state = "WAIT_READY"
  BY ConfirmStep
<1>3. ConfirmReaches => rcv.peer /\ kbd.peer /\ rcv.state # "PAUSED"
  BY DEF Meet, Shared, ConfirmReaches
<1>4. Consistent(k, r)
  BY <1>1, <1>2, <1>3 DEF ConfirmEffect, RcvKeeps, KbdKeeps, HopInv, SessionInv,
     Consistent, Awake
<1> QED BY <1>1, <1>4, PassesInv

(* What the offer of the map makes of the two ends.                         *)
OfferEffect(k, r, o) ==
  \/ k = kbd /\ r = rcv /\ (o = "lost" \/ ~OfferReaches)
  \/ /\ OfferReaches
     /\ RcvKeeps(r) /\ r.state = rcv.state /\ r.running = rcv.running /\ r.hasMap
     /\ \/ o # "answered" /\ k = kbd /\ r.silence = 0
        \/ /\ o = "answered" /\ r.silence = -1
           /\ KbdKeeps(k) /\ k.state = kbd.state /\ k.syncAcked = kbd.syncAcked
           /\ k.mapAcked /\ k.silence = -1 /\ k.slot = -1

(* The keyboard starts its clock when the receiver has none.                *)
LEMMA OfferMapStep ==
  ASSUME HopInv, NEW o, OfferMap(o)
  PROVE  /\ kbd.state = "ESTABLISHED" /\ ~kbd.mapAcked
         /\ \E k \in KbdRecord, r \in RcvRecord :
              Passes(k, r, o = "answered") /\ OfferEffect(k, r, o)
<1> DEFINE heard == /\ o # "lost" /\ Meet /\ Shared
                    /\ rcv.state = "ESTABLISHED" /\ ~rcv.running
           answered == heard /\ o = "answered"
           r == IF heard
                THEN [rcv EXCEPT !.hasMap = TRUE, !.silence = IF answered THEN -1 ELSE 0]
                ELSE rcv
           k == IF answered
                THEN [kbd EXCEPT !.mapAcked = TRUE, !.silence = -1, !.slot = -1] ELSE kbd
<1>1. kbd.state = "ESTABLISHED" /\ ~kbd.mapAcked /\ Passes(k, r, o = "answered")
  BY DEF OfferMap
<1>2. CASE ~heard
  <2>1. k = kbd /\ r = rcv /\ (o = "lost" \/ ~OfferReaches)
    BY <1>2 DEF OfferReaches
  <2> HIDE DEF k, r
  <2> QED BY <1>1, <2>1 DEF OfferEffect, HopInv
<1>3. CASE heard
  <2> DEFINE n == IF o = "answered" THEN -1 ELSE 0
  <2>1. /\ r \in RcvRecord /\ RcvKeeps(r) /\ r.state = rcv.state
        /\ r.running = rcv.running /\ r.hasMap /\ r.silence = n
    <3> DEFINE q == [rcv EXCEPT !.hasMap = TRUE]
    <3>1. /\ q \in RcvRecord /\ RcvKeeps(q) /\ q.state = rcv.state
          /\ q.running = rcv.running /\ q.hasMap
      BY DEF HopInv, RcvRecord, RcvKeeps
    <3>2. r = [q EXCEPT !.silence = n] /\ n \in Int
      BY <1>3
    <3> HIDE DEF q, r, n
    <3> QED BY <3>1, <3>2, RcvSilence DEF RcvKeeps
  <2>2. OfferReaches
    BY <1>3 DEF OfferReaches
  <2>3. CASE o # "answered"
    <3>1. k = kbd /\ kbd \in KbdRecord /\ n = 0
      BY <2>3 DEF HopInv
    <3> HIDE DEF k, r
    <3> QED BY <1>1, <2>1, <2>2, <2>3, <3>1 DEF OfferEffect
  <2>4. CASE o = "answered"
    <3> DEFINE q == [kbd EXCEPT !.mapAcked = TRUE]
               p == [q EXCEPT !.silence = -1]
    <3>1. /\ q \in KbdRecord /\ KbdKeeps(q) /\ q.mapAcked
          /\ q.syncAcked = kbd.syncAcked /\ q.state = kbd.state
      BY DEF HopInv, KbdRecord, KbdKeeps
    <3>2. k = [p EXCEPT !.slot = -1] /\ -1 \in Int /\ n = -1
      BY <1>3, <2>4
    <3> HIDE DEF q, k, r, n
    <3>3. /\ p \in KbdRecord /\ p.peer = q.peer /\ p.channel = q.channel
          /\ p.schedule = q.schedule /\ p.mapAcked = q.mapAcked
          /\ p.syncAcked = q.syncAcked /\ p.state = q.state /\ p.silence = -1
      BY <3>1, <3>2, KbdSilence
    <3> HIDE DEF p
    <3>4. /\ k \in KbdRecord /\ k.peer = p.peer /\ k.channel = p.channel
          /\ k.schedule = p.schedule /\ k.mapAcked = p.mapAcked
          /\ k.syncAcked = p.syncAcked /\ k.state = p.state /\ k.silence = p.silence
          /\ k.slot = -1
      BY <3>2, <3>3 DEF KbdRecord
    <3>5. KbdKeeps(k) /\ k.state = kbd.state /\ k.syncAcked = kbd.syncAcked /\ k.mapAcked
      BY <3>1, <3>3, <3>4 DEF KbdKeeps
    <3>6. r.silence = -1 /\ k.silence = -1 /\ k.slot = -1
      BY <2>1, <3>2, <3>3, <3>4
    <3>7. OfferEffect(k, r, o)
      BY <2>1, <2>2, <2>4, <3>5, <3>6 DEF OfferEffect
    <3> QED BY <1>1, <2>1, <3>4, <3>7
  <2> QED BY <2>3, <2>4
<1> QED BY <1>2, <1>3

(* So the two clocks can only start together.                               *)
LEMMA OfferMapInv == ASSUME HopInv, NEW o, OfferMap(o) PROVE HopInv'
<1>1. PICK k \in KbdRecord, r \in RcvRecord :
        Passes(k, r, o = "answered") /\ OfferEffect(k, r, o)
  BY OfferMapStep
<1>2. kbd.state = "ESTABLISHED" /\ ~kbd.mapAcked
  BY OfferMapStep
<1>3. OfferReaches => rcv.state = "ESTABLISHED" /\ ~rcv.running
  BY DEF OfferReaches
<1>4. Consistent(k, r)
  BY <1>1, <1>2, <1>3 DEF OfferEffect, RcvKeeps, KbdKeeps, HopInv, SessionInv,
     Consistent, Awake
<1> QED BY <1>1, <1>4, PassesInv

(* What a receiver that accepts the clock becomes.                          *)
LEMMA SyncFields ==
  ASSUME HopInv
  PROVE  /\ SyncHeard \in RcvRecord /\ RcvKeeps(SyncHeard)
         /\ SyncHeard.state = rcv.state /\ SyncHeard.running
         /\ SyncHeard.slot = kbd.slot /\ SyncHeard.age = 0 /\ SyncHeard.silence = 0
         /\ SyncHeard.hasMap = rcv.hasMap
<1> DEFINE r1 == [rcv EXCEPT !.running = TRUE]
           r2 == [r1 EXCEPT !.slot = kbd.slot]
           r3 == [r2 EXCEPT !.age = 0]
           r4 == SyncHeard
<1>1. r4 = [r3 EXCEPT !.silence = 0]
  BY DEF SyncHeard
<1>2. /\ r1 \in RcvRecord /\ RcvKeeps(r1) /\ r1.state = rcv.state /\ r1.running
      /\ r1.hasMap = rcv.hasMap
  BY DEF HopInv, RcvRecord, RcvKeeps
<1> HIDE DEF r1
<1>3. /\ r2 \in RcvRecord /\ RcvKeeps(r2) /\ r2.state = r1.state
      /\ r2.running = r1.running /\ r2.slot = kbd.slot /\ r2.hasMap = r1.hasMap
  BY <1>2 DEF HopInv, RcvRecord, KbdRecord, RcvKeeps
<1> HIDE DEF r2
<1>4. /\ r3 \in RcvRecord /\ RcvKeeps(r3) /\ r3.state = r2.state
      /\ r3.running = r2.running /\ r3.slot = r2.slot /\ r3.hasMap = r2.hasMap
      /\ r3.age = 0
  BY <1>3 DEF RcvRecord, RcvKeeps
<1> HIDE DEF r3, r4
<1>5. /\ r4 \in RcvRecord /\ RcvKeeps(r4) /\ r4.state = r3.state
      /\ r4.running = r3.running /\ r4.slot = r3.slot /\ r4.hasMap = r3.hasMap
      /\ r4.age = r3.age /\ r4.silence = 0
  BY <1>1, <1>4, RcvSilence DEF RcvKeeps
<1> QED BY <1>2, <1>3, <1>4, <1>5 DEF r4

(* Whether the clock is accepted, and the data.                             *)
SyncReaches(s) == s # "lost" /\ Meet /\ Shared /\ AcceptsSync
DataReaches(d) == d # "lost" /\ Meet /\ Shared /\ KbdHops /\ RcvHops

(* What the clock and the data make of the two ends.                        *)
ExchangeEffect(k, r, s, d) ==
  /\ RcvKeeps(r) /\ r.state = rcv.state /\ r.hasMap = rcv.hasMap
  /\ r.running <=> SyncReaches(s) \/ rcv.running
  /\ r.slot = IF SyncReaches(s) THEN kbd.slot ELSE rcv.slot
  /\ r.age = IF SyncReaches(s) THEN 0 ELSE rcv.age
  /\ r.silence = IF SyncReaches(s) \/ DataReaches(d) THEN 0 ELSE rcv.silence
  /\ KbdKeeps(k) /\ k.state = kbd.state /\ k.mapAcked /\ k.slot = kbd.slot
  /\ k.syncAcked <=> kbd.syncAcked \/ (SyncReaches(s) /\ s = "answered")
  /\ k.silence = IF \/ SyncReaches(s) /\ s = "answered"
                    \/ DataReaches(d) /\ d = "answered"
                 THEN 0 ELSE kbd.silence

(* The receiver takes the keyboard's slot, and the keyboard counts on its   *)
(* clock only once it has.                                                  *)
LEMMA ExchangeStep ==
  ASSUME HopInv, NEW s, NEW d, Exchange(s, d)
  PROVE  /\ kbd.state = "ESTABLISHED" /\ kbd.mapAcked
         /\ \E k \in KbdRecord, r \in RcvRecord :
              /\ Passes(k, r, s = "answered" /\ d = "answered")
              /\ ExchangeEffect(k, r, s, d)
<1> DEFINE syncHeard == s # "lost" /\ Meet /\ Shared /\ AcceptsSync
           dataHeard == d # "lost" /\ Meet /\ Shared /\ KbdHops /\ RcvHops
           synced == IF syncHeard THEN SyncHeard ELSE rcv
           r == IF dataHeard THEN [synced EXCEPT !.silence = 0] ELSE synced
           syncAck == syncHeard /\ s = "answered"
           ack == syncAck \/ (dataHeard /\ d = "answered")
           k == [kbd EXCEPT !.syncAcked = @ \/ syncAck,
                            !.silence = IF ack THEN 0 ELSE @]
<1>1. /\ kbd.state = "ESTABLISHED" /\ kbd.mapAcked
      /\ Passes(k, r, s = "answered" /\ d = "answered")
  BY DEF Exchange
<1>2. /\ syncHeard <=> SyncReaches(s)
      /\ dataHeard <=> DataReaches(d)
  BY DEF SyncReaches, DataReaches
<1>3. /\ syncAck <=> SyncReaches(s) /\ s = "answered"
      /\ ack <=> \/ SyncReaches(s) /\ s = "answered"
                 \/ DataReaches(d) /\ d = "answered"
  BY <1>2
<1> HIDE DEF syncHeard, dataHeard, syncAck, ack
<1>4. /\ synced \in RcvRecord /\ RcvKeeps(synced) /\ synced.state = rcv.state
      /\ synced.hasMap = rcv.hasMap
      /\ synced.running <=> SyncReaches(s) \/ rcv.running
      /\ synced.slot = IF SyncReaches(s) THEN kbd.slot ELSE rcv.slot
      /\ synced.age = IF SyncReaches(s) THEN 0 ELSE rcv.age
      /\ synced.silence = IF SyncReaches(s) THEN 0 ELSE rcv.silence
  <2>1. CASE SyncReaches(s)
    <3>1. synced = SyncHeard
      BY <1>2, <2>1
    <3> HIDE DEF synced
    <3> QED BY <2>1, <3>1, SyncFields
  <2>2. CASE ~SyncReaches(s)
    <3>1. synced = rcv
      BY <1>2, <2>2
    <3> HIDE DEF synced
    <3> QED BY <2>2, <3>1 DEF HopInv, RcvKeeps
  <2> QED BY <2>1, <2>2
<1>5. /\ r \in RcvRecord /\ RcvKeeps(r) /\ r.state = rcv.state
      /\ r.hasMap = rcv.hasMap
      /\ r.running <=> SyncReaches(s) \/ rcv.running
      /\ r.slot = IF SyncReaches(s) THEN kbd.slot ELSE rcv.slot
      /\ r.age = IF SyncReaches(s) THEN 0 ELSE rcv.age
      /\ r.silence = IF SyncReaches(s) \/ DataReaches(d) THEN 0 ELSE rcv.silence
  <2> HIDE DEF synced
  <2>1. CASE DataReaches(d)
    <3>1. r = [synced EXCEPT !.silence = 0]
      BY <1>2, <2>1
    <3> HIDE DEF r
    <3>2. /\ r \in RcvRecord /\ RcvKeeps(r) /\ r.state = synced.state
          /\ r.hasMap = synced.hasMap /\ r.running = synced.running
          /\ r.slot = synced.slot /\ r.age = synced.age /\ r.silence = 0
      BY <1>4, <3>1, RcvSilence DEF RcvKeeps
    <3> QED BY <1>4, <2>1, <3>2
  <2>2. CASE ~DataReaches(d)
    <3>1. r = synced
      BY <1>2, <2>2
    <3> HIDE DEF r
    <3> QED BY <1>4, <2>2, <3>1
  <2> QED BY <2>1, <2>2
<1>6. /\ k \in KbdRecord /\ KbdKeeps(k) /\ k.state = kbd.state
      /\ k.mapAcked = kbd.mapAcked /\ k.slot = kbd.slot
      /\ k.syncAcked <=> kbd.syncAcked \/ syncAck
      /\ k.silence = IF ack THEN 0 ELSE kbd.silence
  <2> DEFINE now == kbd.syncAcked \/ syncAck
             q == [kbd EXCEPT !.syncAcked = now]
             n == IF ack THEN 0 ELSE kbd.silence
  <2>1. now \in BOOLEAN /\ (now <=> kbd.syncAcked \/ syncAck)
    OBVIOUS
  <2>2. k = [q EXCEPT !.silence = n]
    OBVIOUS
  <2>3. n \in Int /\ n = IF ack THEN 0 ELSE kbd.silence
    BY DEF HopInv, KbdRecord
  <2> HIDE DEF now, n, k
  <2>4. /\ q \in KbdRecord /\ KbdKeeps(q) /\ q.state = kbd.state
        /\ q.mapAcked = kbd.mapAcked /\ q.slot = kbd.slot /\ q.syncAcked = now
    BY <2>1 DEF HopInv, KbdRecord, KbdKeeps
  <2> HIDE DEF q
  <2>5. /\ k \in KbdRecord /\ KbdKeeps(k) /\ k.state = q.state
        /\ k.mapAcked = q.mapAcked /\ k.slot = q.slot /\ k.syncAcked = q.syncAcked
        /\ k.silence = n
    BY <2>2, <2>3, <2>4, KbdSilence DEF KbdKeeps
  <2> QED BY <2>1, <2>3, <2>4, <2>5
<1> HIDE DEF k, r
<1>7. /\ k.syncAcked <=> kbd.syncAcked \/ (SyncReaches(s) /\ s = "answered")
      /\ k.silence = IF \/ SyncReaches(s) /\ s = "answered"
                        \/ DataReaches(d) /\ d = "answered"
                     THEN 0 ELSE kbd.silence
      /\ k.mapAcked
  BY <1>1, <1>3, <1>6
<1>8. ExchangeEffect(k, r, s, d)
  BY <1>5, <1>6, <1>7 DEF ExchangeEffect
<1> QED BY <1>1, <1>5, <1>6, <1>8

(* So both clocks are at one slot, and an acknowledged clock runs.          *)
LEMMA ExchangeInv == ASSUME HopInv, NEW s, NEW d, Exchange(s, d) PROVE HopInv'
<1>1. PICK k \in KbdRecord, r \in RcvRecord :
        Passes(k, r, s = "answered" /\ d = "answered") /\ ExchangeEffect(k, r, s, d)
  BY ExchangeStep
<1>2. kbd.state = "ESTABLISHED" /\ kbd.mapAcked
  BY ExchangeStep
<1>3. SyncReaches(s) => rcv.state = "ESTABLISHED"
  BY DEF SyncReaches, AcceptsSync
<1>4. Consistent(k, r)
  BY <1>1, <1>2, <1>3 DEF ExchangeEffect, RcvKeeps, KbdKeeps, HopInv, SessionInv,
     Consistent, Awake
<1> QED BY <1>1, <1>4, PassesInv

(* Init: neither end has a session.                                         *)
LEMMA HopInit == ASSUME Init PROVE HopInv
<1>1. AnySchedule \in Schedules
  BY DEF AnySchedule
<1>2. kbd \in KbdRecord /\ rcv \in RcvRecord
  BY <1>1 DEF Init, KbdStart, RcvStart, KbdRecord, RcvRecord, KbdStates, RcvStates,
              ChannelSet, Search
<1>3. SessionInv
  BY DEF Init, KbdStart, RcvStart, SessionInv, Consistent
<1> QED BY <1>2, <1>3 DEF HopInv

(* Every step of the link keeps its invariant.                              *)
LEMMA HopNext == ASSUME HopInv, [Next]_vars PROVE HopInv'
<1>1. CASE KbdRestart \/ KbdRequest
  <2>1. KbdNewSession
    BY <1>1 DEF KbdRestart, KbdRequest
  <2> QED BY <2>1, KbdNewFields DEF HopInv, SessionInv, Consistent
<1>2. CASE RcvRestart \/ RcvRequest
  <2>1. RcvNewSession
    BY <1>2 DEF RcvRestart, RcvRequest
  <2> QED BY <2>1, RcvNewFields DEF HopInv, SessionInv, Consistent
<1>3. CASE KbdPause \/ RcvPause
  BY <1>3, PauseInv
<1>4. CASE Slot
  <2>1. CASE \E o \in Outcomes, s \in Schedules : Hello(o, s)
    BY <2>1, HelloInv
  <2>2. CASE \E o \in Outcomes : Confirm(o) \/ OfferMap(o)
    BY <2>2, ConfirmInv, OfferMapInv
  <2>3. CASE \E s, d \in Outcomes : Exchange(s, d)
    BY <2>3, ExchangeInv
  <2>4. CASE Silent
    BY <2>4, PassesInv DEF Silent, HopInv, SessionInv
  <2> QED BY <1>4, <2>1, <2>2, <2>3, <2>4 DEF Slot
<1>5. CASE UNCHANGED vars
  BY <1>5 DEF vars, HopInv, SessionInv, Consistent, Awake
<1> QED BY <1>1, <1>2, <1>3, <1>4, <1>5 DEF Next

(* An established pair agrees on schedule and slot, so also on the channel. *)
LEMMA HopSameChannel == ASSUME HopInv PROVE SameChannel
<1> SUFFICES ASSUME Shared, InTime, Awake(kbd, rcv) PROVE KbdChannel = RcvChannel
  BY DEF SameChannel
<1>1. kbd.state # "WAIT_CHALLENGE" /\ rcv.state # "WAIT_HELLO"
  BY DEF Shared, HopInv, SessionInv, Consistent
<1>2. kbd.channel = rcv.channel /\ kbd.schedule = rcv.schedule
  BY DEF Shared, HopInv, SessionInv, Consistent
<1>3. CASE KbdHops
  <2>1. kbd.syncAcked
    BY <1>3 DEF InTime, KbdExpired, Awake
  <2>2. RcvHops /\ kbd.slot = rcv.slot
    BY <1>3, <2>1 DEF KbdHops, RcvHops, Shared, HopInv, SessionInv, Consistent
  <2> QED BY <1>1, <1>2, <1>3, <2>2 DEF KbdChannel, RcvChannel
<1>4. CASE ~KbdHops
  <2>1. ~RcvHops
    BY <1>4 DEF KbdHops, RcvHops, Shared, HopInv, SessionInv, Consistent, Awake
  <2> QED BY <1>1, <1>2, <1>4, <2>1 DEF KbdChannel, RcvChannel
<1> QED BY <1>3, <1>4

(* What the ends have in common once each has taken the other's nonce.      *)
THEOREM SessionHolds == Spec => []SessionInv
<1>1. HopInv => SessionInv
  BY DEF HopInv
<1> QED BY <1>1, HopInit, HopNext, PTL DEF Spec

(* Two ends with each other's nonces are always on one channel.             *)
THEOREM SameChannelHolds == Spec => []SameChannel
  BY HopInit, HopNext, HopSameChannel, PTL DEF Spec


(***************************************************************************)
(* How soon the link is up again.  Each end has a phase: the slots it has  *)
(* scanned or, below zero, those until the silence of an old session makes *)
(* it scan.  Both grow by one in a slot, and starting over at the end of a *)
(* scan takes the phase from 75 to 0, which are on the same channels; so   *)
(* the slot in which the ends will meet is known from the two phases.      *)
(***************************************************************************)
(* Where each end scans once it has been at it for n slots.                 *)
KbdAt(n) == Discovery(KbdDwell, n % DiscoveryTimeout)
RcvAt(n) == Discovery(RcvDwell, n % DiscoveryTimeout)

(* The keyboard's five dwells; the last is on the channel of the first.     *)
LEMMA KbdDwells ==
  ASSUME NEW n \in Nat
  PROVE  LET a == n % 75
         IN  /\ a \in 0..74
             /\ a < 15 => KbdAt(n) = Search[1]
             /\ 15 <= a /\ a < 30 => KbdAt(n) = Search[2]
             /\ 30 <= a /\ a < 45 => KbdAt(n) = Search[3]
             /\ 45 <= a /\ a < 60 => KbdAt(n) = Search[4]
             /\ 60 <= a => KbdAt(n) = Search[1]
<1> DEFINE a == n % 75
           q == a \div 15
<1>1. a \in 0..74 /\ KbdAt(n) = Search[1 + (q % 4)]
  BY DEF KbdAt, Discovery, KbdDwell, Count
<1> HIDE DEF a
<1>2. /\ a < 15 => q = 0
      /\ 15 <= a /\ a < 30 => q = 1
      /\ 30 <= a /\ a < 45 => q = 2
      /\ 45 <= a /\ a < 60 => q = 3
      /\ 60 <= a => q = 4
  BY <1>1
<1>3. 0 % 4 = 0 /\ 1 % 4 = 1 /\ 2 % 4 = 2 /\ 3 % 4 = 3 /\ 4 % 4 = 0
  OBVIOUS
<1> HIDE DEF q
<1> QED BY <1>1, <1>2, <1>3 DEF a

(* The receiver's dwells, of two slots each, four in a round.               *)
LEMMA RcvDwells ==
  ASSUME NEW n \in Nat, NEW q \in Nat, NEW d \in 0..3, NEW e \in 0..1,
         n % 75 = 8 * q + 2 * d + e
  PROVE  RcvAt(n) = Search[1 + d]
<1> DEFINE a == n % 75
           p == a \div 2
<1>1. a = 8 * q + 2 * d + e /\ RcvAt(n) = Search[1 + (p % 4)]
  BY DEF RcvAt, Discovery, RcvDwell, Count
<1>2. p = 4 * q + d
  BY <1>1
<1> HIDE DEF p
<1>3. p % 4 = d
  BY <1>2
<1> QED BY <1>1, <1>3

(* A receiver that has just started scanning finds the keyboard in at most  *)
(* eight slots: where it is or, unless it is early in its dwell, where it   *)
(* goes next.                                                               *)
LEMMA RcvStartMeets ==
  ASSUME NEW n \in Nat
  PROVE  \E i \in 0..8 : /\ KbdAt(n + i) = RcvAt(i)
                         /\ (n % 75) \notin 54..59 => i <= 6
<1> DEFINE a == n % 75
<1>1. a \in 0..74
  OBVIOUS
<1>2. \A i \in 0..8 : a + i < 75 => (n + i) % 75 = a + i
  OBVIOUS
<1>3. /\ RcvAt(0) = Search[1] /\ RcvAt(2) = Search[2] /\ RcvAt(4) = Search[3]
      /\ RcvAt(6) = Search[4] /\ RcvAt(8) = Search[1]
  BY DEF RcvAt, Discovery, RcvDwell, Count
<1> HIDE DEF a
<1> DEFINE j == IF a < 15 \/ a >= 60 THEN 0
                ELSE IF a <= 27 THEN 2 ELSE IF a <= 40 THEN 4 ELSE IF a <= 53 THEN 6
                ELSE 8
<1>4. CASE a < 15 \/ a >= 60
  <2>1. KbdAt(n + 0) = Search[1]
    BY <1>1, <1>2, <1>4, KbdDwells DEF a
  <2> QED BY <1>3, <2>1
<1>5. CASE 15 <= a /\ a <= 27
  <2>1. KbdAt(n + 2) = Search[2]
    BY <1>1, <1>2, <1>5, KbdDwells
  <2> QED BY <1>3, <2>1
<1>6. CASE 28 <= a /\ a <= 40
  <2>1. KbdAt(n + 4) = Search[3]
    BY <1>1, <1>2, <1>6, KbdDwells
  <2> QED BY <1>3, <2>1
<1>7. CASE 41 <= a /\ a <= 53
  <2>1. KbdAt(n + 6) = Search[4]
    BY <1>1, <1>2, <1>7, KbdDwells
  <2> QED BY <1>3, <2>1
<1>8. CASE 54 <= a /\ a <= 59
  <2>1. KbdAt(n + 8) = Search[1]
    BY <1>1, <1>2, <1>8, KbdDwells
  <2>2. a \in 54..59
    BY <1>1, <1>8
  <2> QED BY <1>3, <2>1, <2>2 DEF a
<1> QED BY <1>1, <1>4, <1>5, <1>6, <1>7, <1>8

(* A scanning receiver is on any given channel within nine slots.           *)
LEMMA RcvVisits ==
  ASSUME NEW n \in Nat, NEW d \in 0..3
  PROVE  \E i \in 0..9 : RcvAt(n + i) = Search[1 + d] /\ (d = 0 => i <= 6)
<1> DEFINE b == n % 75
           q == b \div 8
           m == b % 8
           x == 2 * d
<1>0. b \in 0..74 /\ q \in Nat /\ m \in 0..7 /\ b = 8 * q + m /\ x \in 0..6
  OBVIOUS
<1>1. \A i \in 0..9 : (n + i) % 75 = IF b + i < 75 THEN b + i ELSE b + i - 75
  OBVIOUS
<1> HIDE DEF b, q, m
<1>2. CASE b <= 65 \/ x > b - 66
  <2>1. CASE m <= x
    <3> DEFINE i == x - m
    <3>1. i \in 0..6 /\ (n + i) % 75 = 8 * q + 2 * d + 0
      BY <1>0, <1>1, <1>2, <2>1
    <3>2. n + i \in Nat
      BY <3>1
    <3> HIDE DEF i
    <3>3. RcvAt(n + i) = Search[1 + d]
      BY <1>0, <3>1, <3>2, RcvDwells
    <3> QED BY <3>1, <3>3
  <2>2. CASE m = x + 1
    <3>1. (n + 0) % 75 = 8 * q + 2 * d + 1
      BY <1>0, <1>1, <1>2, <2>2
    <3>2. RcvAt(n + 0) = Search[1 + d]
      BY <1>0, <3>1, RcvDwells
    <3> QED BY <3>2
  <2>3. CASE m > x + 1
    <3> DEFINE i == x + 8 - m
               r == q + 1
    <3>1. i \in 0..6 /\ (n + i) % 75 = 8 * r + 2 * d + 0 /\ r \in Nat
      BY <1>0, <1>1, <1>2, <2>3
    <3>2. n + i \in Nat
      BY <3>1
    <3> HIDE DEF i, r
    <3>3. RcvAt(n + i) = Search[1 + d]
      BY <3>1, <3>2, RcvDwells
    <3> QED BY <3>1, <3>3
  <2> QED BY <1>0, <2>1, <2>2, <2>3
<1>3. CASE b > 65 /\ x <= b - 66
  <2>1. CASE d = 0 /\ b \in {72, 73}
    <3> DEFINE e == b - 72
               r == 9
    <3>1. (n + 0) % 75 = 8 * r + 2 * d + e /\ e \in 0..1 /\ r \in Nat
      BY <1>0, <1>1, <2>1
    <3> HIDE DEF e, r
    <3>2. RcvAt(n + 0) = Search[1 + d]
      BY <3>1, RcvDwells
    <3> QED BY <2>1, <3>2
  <2>2. CASE ~(d = 0 /\ b \in {72, 73})
    <3> DEFINE i == IF d = 0 /\ b < 72 THEN 72 - b ELSE 75 - b + x
               r == IF d = 0 /\ b < 72 THEN 9 ELSE 0
    <3>1. i \in 0..9 /\ (n + i) % 75 = 8 * r + 2 * d + 0 /\ r \in Nat /\ (d = 0 => i <= 6)
      BY <1>0, <1>1, <1>3, <2>2
    <3>2. n + i \in Nat
      BY <3>1
    <3> HIDE DEF i, r
    <3>3. RcvAt(n + i) = Search[1 + d]
      BY <1>0, <3>1, <3>2, RcvDwells
    <3> QED BY <3>1, <3>3
  <2> QED BY <2>1, <2>2
<1> QED BY <1>0, <1>2, <1>3

(* Two ends that scan meet: once the keyboard begins a dwell, the receiver  *)
(* comes by before the dwell is over.                                       *)
LEMMA BothScanMeet ==
  ASSUME NEW n \in Nat, NEW f \in Nat
  PROVE  \E i \in 0..25 : KbdAt(n + i) = RcvAt(f + i)
<1> DEFINE a == n % 75
           s == a % 15
           j == IF s = 0 THEN 0 ELSE 15 - s
           c == (n + j) % 75
<1>1. j \in 0..14 /\ c \in {0, 15, 30, 45, 60}
  OBVIOUS
<1> HIDE DEF j
<1>2. \A i \in 0..9 : n + j + i \in Nat /\ (n + j + i) % 75 = c + i
  BY <1>1
<1> HIDE DEF c
<1>3. \E d \in 0..3 : \A i \in 0..9 : KbdAt(n + j + i) = Search[1 + d]
  <2>1. CASE c \in {0, 60}
    <3>1. ASSUME NEW i \in 0..9 PROVE KbdAt(n + j + i) = Search[1 + 0]
      <4> DEFINE t == n + j + i
      <4>1. t \in Nat /\ t % 75 = c + i
        BY <1>2
      <4> HIDE DEF t
      <4>2. KbdAt(t) = Search[0 + 1]
        BY <2>1, <4>1, KbdDwells
      <4> QED BY <4>2 DEF t
    <3> QED BY <3>1
  <2>2. CASE c = 15
    <3>1. ASSUME NEW i \in 0..9 PROVE KbdAt(n + j + i) = Search[1 + 1]
      <4> DEFINE t == n + j + i
      <4>1. t \in Nat /\ t % 75 = c + i
        BY <1>2
      <4> HIDE DEF t
      <4>2. KbdAt(t) = Search[1 + 1]
        BY <2>2, <4>1, KbdDwells
      <4> QED BY <4>2 DEF t
    <3> QED BY <3>1
  <2>3. CASE c = 30
    <3>1. ASSUME NEW i \in 0..9 PROVE KbdAt(n + j + i) = Search[1 + 2]
      <4> DEFINE t == n + j + i
      <4>1. t \in Nat /\ t % 75 = c + i
        BY <1>2
      <4> HIDE DEF t
      <4>2. KbdAt(t) = Search[2 + 1]
        BY <2>3, <4>1, KbdDwells
      <4> QED BY <4>2 DEF t
    <3> QED BY <3>1
  <2>4. CASE c = 45
    <3>1. ASSUME NEW i \in 0..9 PROVE KbdAt(n + j + i) = Search[1 + 3]
      <4> DEFINE t == n + j + i
      <4>1. t \in Nat /\ t % 75 = c + i
        BY <1>2
      <4> HIDE DEF t
      <4>2. KbdAt(t) = Search[3 + 1]
        BY <2>4, <4>1, KbdDwells
      <4> QED BY <4>2 DEF t
    <3> QED BY <3>1
  <2> QED BY <1>1, <2>1, <2>2, <2>3, <2>4
<1>4. PICK d \in 0..3 : \A i \in 0..9 : KbdAt(n + j + i) = Search[1 + d]
  BY <1>3
<1>5. f + j \in Nat
  BY <1>1
<1>6. PICK i \in 0..9 : RcvAt(f + j + i) = Search[1 + d]
  BY <1>5, RcvVisits
<1>7. KbdAt(n + (j + i)) = RcvAt(f + (j + i)) /\ j + i \in 0..25
  <2>1. n + (j + i) = n + j + i /\ f + (j + i) = f + j + i
    BY <1>1
  <2>2. j + i \in 0..25
    BY <1>1
  <2>3. KbdAt(n + j + i) = RcvAt(f + j + i)
    BY <1>4, <1>6
  <2> QED BY <2>1, <2>2, <2>3
<1> QED BY <1>7

(* A keyboard that has just started scanning is found within six slots.     *)
LEMMA KbdStartMeets ==
  ASSUME NEW f \in Nat
  PROVE  \E i \in 0..6 : KbdAt(i) = RcvAt(f + i)
<1>1. PICK i \in 0..9 : RcvAt(f + i) = Search[1 + 0] /\ i <= 6
  BY RcvVisits
<1>2. KbdAt(i) = Search[1]
  BY <1>1, KbdDwells
<1> QED BY <1>1, <1>2
(* Whether ends at these phases meet after i slots.                         *)
Meets(p, f, i) == p + i >= 0 /\ f + i >= 0 /\ KbdAt(p + i) = RcvAt(f + i)

KbdPhase(k) ==
  IF k.state = "WAIT_CHALLENGE" THEN k.silence ELSE k.silence - Timeout(k.state)

\* A clock that runs is the receiver's first to expire.
RcvPhase(r) ==
  IF r.state = "WAIT_HELLO" THEN r.silence
  ELSE IF r.running THEN r.age - Holdover ELSE r.silence - Timeout(r.state)

(* An end starts over before it has been silent for longer than allowed, and*)
(* the keyboard hops for a receiver it has not heard from no longer than its*)
(* silence allows anyhow.                                                   *)
KbdTimes(k) ==
  k.state # "PAUSED" =>
    /\ 0 <= k.silence /\ k.silence <= Timeout(k.state)
    /\ k.state = "WAIT_READY" => k.silence >= 1
    /\ k.mapAcked => k.slot >= 0
    /\ k.mapAcked /\ ~k.syncAcked => k.slot <= k.silence

RcvTimes(r) ==
  r.state # "PAUSED" =>
    /\ 0 <= r.silence /\ r.silence <= Timeout(r.state)
    /\ r.state = "WAIT_CONFIRM" => r.silence >= 1
    /\ r.running => r.silence <= r.age /\ r.age <= Holdover

(* A receiver that heard a keyboard it could not answer waits on the channel*)
(* the keyboard had then; one whose keyboard has started over since then has*)
(* been silent for at least as long as the keyboard.                        *)
HalfOpen(k, r) ==
  Awake(k, r) =>
    /\ k.peer /\ k.mapAcked => r.hasMap
    /\ ~k.peer /\ r.peer =>
         /\ k.state = "WAIT_CHALLENGE" /\ r.state = "WAIT_CONFIRM"
         /\ r.silence <= k.silence
         /\ r.channel = Discovery(KbdDwell, k.silence - r.silence)
    /\ k.state = "WAIT_CHALLENGE" /\ r.state = "WAIT_CONFIRM" /\ ~r.peer =>
         k.silence <= r.silence

(* Ends that have answered each other in the slot before.                   *)
JustHeard(k, r) ==
  /\ k.silence <= 1 /\ r.silence <= 1 /\ (r.running => r.age <= 1)
  /\ k.mapAcked => k.syncAcked \/ k.slot = 0

(* The slots a session still needs before it hops.                          *)
SlotsLeft(k) ==
  IF k.state = "WAIT_READY" THEN StartSlot + 2
  ELSE IF k.mapAcked THEN StartSlot - k.slot ELSE StartSlot + 1

(* After q slots without trouble, what is left to do fits in the time left: *)
(* to meet, in at most 25 slots, and to set up a session.                   *)
OnCourse(k, r, q) ==
  q > 0 =>
    /\ Awake(k, r)
    /\ k.peer => JustHeard(k, r) /\ SlotsLeft(k) <= ReconnectTime - q
    /\ ~k.peer => \E i \in 0..25 : /\ i <= ReconnectTime - q - 8
                                   /\ Meets(KbdPhase(k), RcvPhase(r), i)

TimesInv == KbdTimes(kbd) /\ RcvTimes(rcv) /\ HalfOpen(kbd, rcv) /\ quiet \in Nat

(* The timeouts in slots.                                                   *)
LEMMA Timeouts ==
  /\ Timeout("WAIT_HELLO") = 75 /\ Timeout("WAIT_CHALLENGE") = 75
  /\ Timeout("WAIT_READY") = 20 /\ Timeout("WAIT_CONFIRM") = 20
  /\ Timeout("ESTABLISHED") = 5
  BY DEF Timeout

(* The times of the keyboard, one slot on.                                  *)
LEMMA KbdTimesPass ==
  ASSUME NEW k \in KbdRecord, KbdAdvances(k),
         k.state # "PAUSED" =>
           /\ -1 <= k.silence /\ k.silence < Timeout(k.state)
           /\ k.state = "WAIT_READY" => k.silence >= 0
           /\ k.mapAcked => k.slot >= -1
           /\ k.mapAcked /\ ~k.syncAcked => k.slot <= k.silence
  PROVE  KbdTimes(kbd')
<1>1. /\ kbd'.state = k.state /\ kbd'.mapAcked = k.mapAcked /\ kbd'.syncAcked = k.syncAcked
      /\ k.state # "PAUSED" =>
           /\ kbd'.silence = k.silence + 1
           /\ kbd'.slot = IF k.mapAcked THEN k.slot + 1 ELSE 0
  BY DEF KbdAdvances
<1>2. k.silence \in Int /\ k.slot \in Int /\ k.state \in KbdStates
  BY DEF KbdRecord
<1> QED BY <1>1, <1>2, Timeouts DEF KbdTimes, KbdStates

(* The times of the receiver.                                               *)
LEMMA RcvTimesPass ==
  ASSUME NEW r \in RcvRecord, RcvAdvances(r),
         r.state # "PAUSED" =>
           /\ -1 <= r.silence /\ r.silence < Timeout(r.state)
           /\ r.state = "WAIT_CONFIRM" => r.silence >= 0
           /\ r.running => r.silence <= r.age /\ r.age < Holdover
  PROVE  RcvTimes(rcv')
<1>1. /\ rcv'.state = r.state /\ rcv'.running = r.running
      /\ r.state # "PAUSED" =>
           /\ rcv'.silence = r.silence + 1
           /\ rcv'.age = IF r.running THEN r.age + 1 ELSE 0
  BY DEF RcvAdvances
<1>2. r.silence \in Int /\ r.age \in Int /\ r.state \in RcvStates
  BY DEF RcvRecord
<1> QED BY <1>1, <1>2, Timeouts DEF RcvTimes, RcvStates

(* What is left of a wait, and of a scan, in the slots before the timeout.  *)
LEMMA KbdInTime ==
  ASSUME HopInv, TimesInv, InTime, kbd.state # "PAUSED"
  PROVE  /\ kbd.silence \in 0..74 /\ kbd.silence < Timeout(kbd.state)
         /\ kbd.state = "WAIT_READY" => kbd.silence \in 1..19
         /\ kbd.state = "ESTABLISHED" => kbd.silence \in 0..4
         /\ KbdHops => kbd.syncAcked
<1>1. kbd.silence \in Int /\ kbd.state \in KbdStates
  BY DEF HopInv, KbdRecord
<1>2. kbd.silence < Timeout(kbd.state) /\ (KbdHops => kbd.syncAcked)
  <2>1. Timeout(kbd.state) \in Int
    BY <1>1, Timeouts DEF KbdStates
  <2> QED BY <1>1, <2>1 DEF InTime, KbdExpired
<1>3. KbdTimes(kbd)
  BY DEF TimesInv
<1> QED BY <1>1, <1>2, <1>3, Timeouts DEF KbdTimes, KbdStates

(* The same of the receiver.                                                *)
LEMMA RcvInTime ==
  ASSUME HopInv, TimesInv, InTime, rcv.state # "PAUSED"
  PROVE  /\ rcv.silence \in 0..74 /\ rcv.silence < Timeout(rcv.state)
         /\ rcv.state = "WAIT_CONFIRM" => rcv.silence \in 1..19
         /\ rcv.state = "ESTABLISHED" => rcv.silence \in 0..4
         /\ rcv.running => rcv.silence <= rcv.age /\ rcv.age \in 0..4
<1>1. rcv.silence \in Int /\ rcv.age \in Int /\ rcv.state \in RcvStates
  BY DEF HopInv, RcvRecord
<1>2. rcv.silence < Timeout(rcv.state) /\ (rcv.running => rcv.age < 5)
  <2>1. Timeout(rcv.state) \in Int
    BY <1>1, Timeouts DEF RcvStates
  <2> QED BY <1>1, <2>1 DEF InTime, RcvExpired
<1>3. RcvTimes(rcv)
  BY DEF TimesInv
<1> QED BY <1>1, <1>2, <1>3, Timeouts DEF RcvTimes, RcvStates

(* Passes happens in time, and counts a slot without trouble.               *)
LEMMA PassesQuiet ==
  ASSUME NEW k, NEW r, NEW i, Passes(k, r, i), quiet \in Nat
  PROVE  /\ InTime /\ quiet' \in Nat
         /\ quiet' > 0 => /\ i /\ rcv.state # "PAUSED"
                          /\ quiet' = IF quiet = ReconnectTime THEN quiet ELSE quiet + 1
<1>1. quiet' = IF ~i \/ rcv.state = "PAUSED" THEN 0
               ELSE IF quiet = ReconnectTime THEN quiet ELSE quiet + 1
  BY DEF Passes
<1>2. InTime
  BY DEF Passes
<1> QED BY <1>1, <1>2

(* Ends without a session meet within 25 slots, or are about to.            *)
LEMMA MeetSoon ==
  ASSUME HopInv, TimesInv, InTime, Awake(kbd, rcv), ~kbd.peer
  PROVE  \/ rcv.peer /\ Meet
         \/ \E i \in 0..25 : Meets(KbdPhase(kbd), RcvPhase(rcv), i)
<1> DEFINE p == KbdPhase(kbd)
           f == RcvPhase(rcv)
<1>0. kbd.state # "PAUSED" /\ rcv.state # "PAUSED" /\ kbd.state \in KbdStates
      /\ rcv.state \in RcvStates
  BY DEF Awake, HopInv, KbdRecord, RcvRecord
<1>1. /\ p \in -19..74
      /\ kbd.state = "WAIT_CHALLENGE" <=> p >= 0
      /\ kbd.state = "WAIT_CHALLENGE" => p = kbd.silence
  BY <1>0, KbdInTime, Timeouts DEF KbdPhase, KbdStates
<1>2. /\ f \in -19..74
      /\ rcv.state = "WAIT_HELLO" <=> f >= 0
      /\ f < -5 => rcv.state = "WAIT_CONFIRM"
      /\ rcv.state = "WAIT_CONFIRM" => f = rcv.silence - 20
  <2>1. rcv.state = "WAIT_CONFIRM" \/ rcv.state = "WAIT_HELLO" => ~rcv.running
    BY DEF HopInv, SessionInv, Consistent
  <2>2. CASE rcv.state = "WAIT_HELLO"
    <3>1. f = rcv.silence
      BY <2>1, <2>2 DEF RcvPhase
    <3> QED BY <1>0, <2>2, <3>1, RcvInTime
  <2>3. CASE rcv.state = "WAIT_CONFIRM"
    BY <1>0, <2>1, <2>3, RcvInTime, Timeouts DEF RcvPhase
  <2>4. CASE rcv.state = "ESTABLISHED"
    BY <1>0, <2>4, RcvInTime, Timeouts DEF RcvPhase
  <2> QED BY <1>0, <2>2, <2>3, <2>4 DEF RcvStates
<1>3. HalfOpen(kbd, rcv)
  BY DEF TimesInv
<1> HIDE DEF p, f
<1>4. CASE p >= 0 /\ f >= 0
  <2>1. p \in Nat /\ f \in Nat
    BY <1>1, <1>2, <1>4
  <2>2. PICK i \in 0..25 : KbdAt(p + i) = RcvAt(f + i)
    BY <2>1, BothScanMeet
  <2>3. Meets(p, f, i)
    BY <2>1, <2>2 DEF Meets
  <2> QED BY <2>3 DEF p, f
<1>5. CASE p < 0 /\ p <= f   \* the keyboard is the last to scan
  <2> DEFINE g == f - p
             w == 0 - p
  <2>1. g \in Nat /\ w \in 1..19
    BY <1>1, <1>2, <1>5
  <2>2. PICK i \in 0..6 : KbdAt(i) = RcvAt(g + i)
    BY <2>1, KbdStartMeets
  <2>3. p + (w + i) = i /\ f + (w + i) = g + i /\ w + i \in 0..25 /\ g + i >= 0
    BY <1>1, <1>2, <2>1
  <2> HIDE DEF g, w
  <2>4. Meets(p, f, w + i)
    BY <2>2, <2>3 DEF Meets
  <2> QED BY <2>3, <2>4 DEF p, f
<1>6. CASE f < 0 /\ f <= p   \* the receiver is
  <2> DEFINE e == p - f
             w == 0 - f
  <2>1. e \in Nat /\ w \in 1..19
    BY <1>1, <1>2, <1>6
  <2>2. PICK i \in 0..8 : KbdAt(e + i) = RcvAt(i) /\ ((e % 75) \notin 54..59 => i <= 6)
    BY <2>1, RcvStartMeets
  <2>3. CASE w + i <= 25
    <3>1. p + (w + i) = e + i /\ f + (w + i) = i /\ w + i \in 0..25 /\ e + i >= 0
      BY <1>1, <1>2, <2>1, <2>3
    <3> HIDE DEF e, w
    <3>2. Meets(p, f, w + i)
      BY <2>2, <3>1 DEF Meets
    <3> QED BY <3>1, <3>2 DEF p, f
  <2>4. CASE w + i > 25   \* it has only just heard a keyboard
    <3>0. f = 0 - w /\ e = p - f
      BY <1>1, <1>2
    <3>1. (e % 75) \in 54..59 /\ w \in 18..19 /\ f < -5
      <4> HIDE DEF e, w
      <4>1. i \in 0..8 /\ w \in 1..19 /\ w + i > 25
        BY <2>1, <2>2, <2>4
      <4>2. w \in 18..19 /\ i > 6
        BY <4>1
      <4>3. (e % 75) \in 54..59
        BY <2>2, <4>2
      <4> QED BY <3>0, <4>2, <4>3
    <3>2. rcv.state = "WAIT_CONFIRM" /\ f = rcv.silence - 20
      BY <1>2, <3>1
    <3>3. rcv.silence \in 1..2 /\ e = p + 20 - rcv.silence
      BY <1>1, <3>1, <3>2, RcvInTime, <1>0
    <3>4. p \in 35..41 /\ kbd.state = "WAIT_CHALLENGE" /\ p = kbd.silence
      <4>1. p \in -19..74 /\ e = p + 20 - rcv.silence /\ (e % 75) \in 54..59
        BY <1>1, <3>1, <3>3
      <4> HIDE DEF e
      <4>2. e \in 0..93
        BY <2>1, <3>3, <4>1
      <4>3. e % 75 = IF e < 75 THEN e ELSE e - 75
        BY <4>2
      <4>4. e \in 54..59
        BY <4>1, <4>2, <4>3
      <4>5. p \in 35..41
        BY <3>3, <4>1, <4>4
      <4> QED BY <1>1, <4>5
    <3>5. rcv.peer /\ rcv.channel = Discovery(KbdDwell, kbd.silence - rcv.silence)
      BY <1>3, <3>2, <3>3, <3>4 DEF HalfOpen
    <3>6. kbd.silence \div 15 = 2 /\ (kbd.silence - rcv.silence) \div 15 = 2
      BY <3>3, <3>4
    <3>7. KbdChannel = RcvChannel
      BY <3>2, <3>4, <3>5, <3>6 DEF KbdChannel, RcvChannel, RcvHops, Discovery, KbdDwell
    <3> QED BY <1>0, <3>5, <3>7 DEF Meet
  <2> QED BY <2>1, <2>3, <2>4
<1> QED BY <1>1, <1>2, <1>4, <1>5, <1>6

(* A meeting slot is a slot nearer in the next slot, unless it is now.      *)
LEMMA WaitOn ==
  ASSUME NEW p \in Int, NEW f \in Int, NEW i \in 1..25, Meets(p, f, i)
  PROVE  Meets(p + 1, f + 1, i - 1)
<1>1. (p + 1) + (i - 1) = p + i /\ (f + 1) + (i - 1) = f + i
  OBVIOUS
<1> QED BY <1>1 DEF Meets

(* Starting over at the end of a scan, or of a wait, changes no meeting.    *)
LEMMA StartsOver ==
  ASSUME NEW p \in Int, NEW f \in Int, NEW i \in 0..25, Meets(p, f, i)
  PROVE  /\ p = 75 => Meets(0, f, i)
         /\ f = 75 => Meets(p, 0, i)
<1>1. (75 + i) % 75 = i % 75
  OBVIOUS
<1> QED BY <1>1 DEF Meets, KbdAt, RcvAt

(* The ends that meet now scan, and the receiver hears the keyboard.        *)
LEMMA MeetNow ==
  ASSUME HopInv, TimesInv, InTime, Awake(kbd, rcv), ~kbd.peer,
         Meets(KbdPhase(kbd), RcvPhase(rcv), 0)
  PROVE  kbd.state = "WAIT_CHALLENGE" /\ HelloReaches
<1>0. kbd.state # "PAUSED" /\ rcv.state # "PAUSED" /\ kbd.state \in KbdStates
      /\ rcv.state \in RcvStates
  BY DEF Awake, HopInv, KbdRecord, RcvRecord
<1>1. kbd.state = "WAIT_CHALLENGE" /\ KbdPhase(kbd) = kbd.silence
      /\ kbd.silence \in 0..74
  <2>1. KbdPhase(kbd) >= 0
    <3>1. KbdPhase(kbd) \in Int
      BY <1>0, KbdInTime, Timeouts DEF KbdPhase, KbdStates
    <3> QED BY <3>1 DEF Meets
  <2> QED BY <1>0, <2>1, KbdInTime, Timeouts DEF KbdPhase, KbdStates
<1>2. rcv.state = "WAIT_HELLO" /\ RcvPhase(rcv) = rcv.silence /\ rcv.silence \in 0..74
  <2>1. RcvPhase(rcv) \in Int
    BY <1>0, RcvInTime, Timeouts DEF RcvPhase, RcvStates
  <2>2. RcvPhase(rcv) >= 0
    BY <2>1 DEF Meets
  <2> QED BY <1>0, <2>2, RcvInTime, Timeouts DEF RcvPhase, RcvStates
<1>3. KbdChannel = RcvChannel
  <2>1. kbd.silence % 75 = kbd.silence /\ rcv.silence % 75 = rcv.silence
    BY <1>1, <1>2
  <2>2. Discovery(KbdDwell, kbd.silence) = Discovery(RcvDwell, rcv.silence)
    BY <1>1, <1>2, <2>1 DEF Meets, KbdAt, RcvAt
  <2> QED BY <1>1, <1>2, <2>2 DEF KbdChannel, RcvChannel
<1> QED BY <1>1, <1>2, <1>3 DEF HelloReaches, Meet

(* A slot without trouble in which the ends do not reach each other.        *)
LEMMA NearerNow ==
  ASSUME ReconnectTime >= 33, HopInv, TimesInv, OnCourse(kbd, rcv, quiet),
         InTime, Awake(kbd, rcv), ~kbd.peer, ~kbd'.peer,
         ~(kbd.state = "WAIT_CHALLENGE" /\ HelloReaches),
         Awake(kbd', rcv'),
         KbdPhase(kbd') = KbdPhase(kbd) + 1, RcvPhase(rcv') = RcvPhase(rcv) + 1,
         quiet' = IF quiet = ReconnectTime THEN quiet ELSE quiet + 1
  PROVE  OnCourse(kbd', rcv', quiet')
<1> DEFINE p == KbdPhase(kbd)
           f == RcvPhase(rcv)
<1>0. kbd.state # "PAUSED" /\ rcv.state # "PAUSED" /\ kbd.state \in KbdStates
      /\ rcv.state \in RcvStates /\ quiet \in Nat
  BY DEF Awake, HopInv, KbdRecord, RcvRecord, TimesInv
<1>1. p \in Int /\ f \in Int
  BY <1>0, KbdInTime, RcvInTime, Timeouts DEF KbdPhase, RcvPhase, KbdStates, RcvStates
<1>2. ~(rcv.peer /\ Meet)
  <2>1. SUFFICES ASSUME rcv.peer, Meet PROVE FALSE
    OBVIOUS
  <2>2. kbd.state = "WAIT_CHALLENGE" /\ rcv.state = "WAIT_CONFIRM"
    BY <2>1 DEF TimesInv, HalfOpen
  <2> QED BY <2>1, <2>2 DEF HelloReaches
<1>3. \E i \in 0..25 : Meets(p, f, i) /\ (quiet > 0 => i <= ReconnectTime - quiet - 8)
  <2>1. CASE quiet > 0
    BY <2>1 DEF OnCourse
  <2>2. CASE quiet = 0
    <3>1. PICK i \in 0..25 : Meets(p, f, i)
      BY <1>2, MeetSoon
    <3> QED BY <2>2, <3>1
  <2> QED BY <1>0, <2>1, <2>2
<1>4. PICK i \in 0..25 : Meets(p, f, i) /\ (quiet > 0 => i <= ReconnectTime - quiet - 8)
  BY <1>3
<1>5. i # 0
  BY <1>4, MeetNow
<1> HIDE DEF p, f
<1>6. Meets(p + 1, f + 1, i - 1)
  BY <1>1, <1>4, <1>5, WaitOn
<1>7. i - 1 \in 0..25 /\ i - 1 <= ReconnectTime - quiet' - 8
  BY <1>0, <1>4, <1>5
<1> QED BY <1>6, <1>7 DEF OnCourse, p, f

(* The phases of ends that an exchange leaves alone.                        *)
LEMMA PhasesAdvance ==
  ASSUME NEW k \in KbdRecord, NEW r \in RcvRecord, KbdAdvances(k), RcvAdvances(r),
         Awake(k, r)
  PROVE  /\ KbdPhase(kbd') = KbdPhase(k) + 1
         /\ RcvPhase(rcv') = RcvPhase(r) + 1
         /\ Awake(kbd', rcv')
<1>1. k.state \in KbdStates \ {"PAUSED"} /\ k.silence \in Int
  BY DEF Awake, KbdRecord
<1>2. r.state \in RcvStates \ {"PAUSED"} /\ r.silence \in Int /\ r.age \in Int
  BY DEF Awake, RcvRecord
<1>3. KbdPhase(kbd') = KbdPhase(k) + 1
  BY <1>1, Timeouts DEF KbdAdvances, KbdPhase, KbdStates
<1>4. RcvPhase(rcv') = RcvPhase(r) + 1
  BY <1>2, Timeouts DEF RcvAdvances, RcvPhase, RcvStates
<1> QED BY <1>1, <1>2, <1>3, <1>4 DEF Awake, KbdAdvances, RcvAdvances

(* A session's ends hear each other, on one channel.                        *)
LEMMA PeersMeet ==
  ASSUME HopInv, InTime, Awake(kbd, rcv), kbd.peer
  PROVE  Meet /\ Shared /\ rcv.state \in {"WAIT_CONFIRM", "ESTABLISHED"}
<1>1. rcv.peer /\ rcv.state # "WAIT_HELLO"
  BY DEF HopInv, SessionInv, Consistent
<1>2. KbdChannel = RcvChannel
  BY <1>1, HopSameChannel DEF SameChannel, Shared
<1>3. rcv.state \in RcvStates \ {"PAUSED"}
  BY DEF HopInv, RcvRecord, Awake
<1> QED BY <1>1, <1>2, <1>3 DEF Meet, Shared, RcvStates

(* A slot in which nothing is heard.                                        *)
LEMMA UnheardTimes ==
  ASSUME HopInv, TimesInv, InTime, KbdAdvances(kbd), RcvAdvances(rcv)
  PROVE  KbdTimes(kbd') /\ RcvTimes(rcv') /\ HalfOpen(kbd', rcv')
<1>0. kbd \in KbdRecord /\ rcv \in RcvRecord /\ kbd.silence \in Int /\ rcv.silence \in Int
  BY DEF HopInv, KbdRecord, RcvRecord
<1>1. KbdTimes(kbd')
  <2>1. kbd.state # "PAUSED" =>
           /\ -1 <= kbd.silence /\ kbd.silence < Timeout(kbd.state)
           /\ kbd.state = "WAIT_READY" => kbd.silence >= 0
           /\ kbd.mapAcked => kbd.slot >= -1
           /\ kbd.mapAcked /\ ~kbd.syncAcked => kbd.slot <= kbd.silence
    <3>1. kbd.slot \in Int
      BY DEF HopInv, KbdRecord
    <3> QED BY <3>1, KbdInTime DEF TimesInv, KbdTimes
  <2> QED BY <1>0, <2>1, KbdTimesPass
<1>2. RcvTimes(rcv')
  <2>1. rcv.state # "PAUSED" =>
           /\ -1 <= rcv.silence /\ rcv.silence < Timeout(rcv.state)
           /\ rcv.state = "WAIT_CONFIRM" => rcv.silence >= 0
           /\ rcv.running => rcv.silence <= rcv.age /\ rcv.age < Holdover
    BY RcvInTime
  <2> QED BY <1>0, <2>1, RcvTimesPass
<1>3. HalfOpen(kbd', rcv')
  <2>1. SUFFICES ASSUME Awake(kbd', rcv') PROVE HalfOpen(kbd', rcv')
    BY DEF HalfOpen
  <2>2. Awake(kbd, rcv) /\ kbd'.silence = kbd.silence + 1 /\ rcv'.silence = rcv.silence + 1
    BY <2>1 DEF Awake, KbdAdvances, RcvAdvances
  <2>3. kbd'.silence - rcv'.silence = kbd.silence - rcv.silence
    BY <1>0, <2>2
  <2>4. /\ kbd'.state = kbd.state /\ kbd'.peer = kbd.peer /\ kbd'.mapAcked = kbd.mapAcked
        /\ rcv'.state = rcv.state /\ rcv'.peer = rcv.peer /\ rcv'.hasMap = rcv.hasMap
        /\ rcv'.channel = rcv.channel
    BY DEF KbdAdvances, RcvAdvances
  <2>5. HalfOpen(kbd, rcv)
    BY DEF TimesInv
  <2>6. ASSUME ~kbd'.peer, rcv'.peer
        PROVE  /\ kbd'.state = "WAIT_CHALLENGE" /\ rcv'.state = "WAIT_CONFIRM"
               /\ rcv'.silence <= kbd'.silence
               /\ rcv'.channel = Discovery(KbdDwell, kbd'.silence - rcv'.silence)
    BY <1>0, <2>2, <2>3, <2>4, <2>5, <2>6 DEF HalfOpen
  <2>7. ASSUME kbd'.state = "WAIT_CHALLENGE", rcv'.state = "WAIT_CONFIRM", ~rcv'.peer
        PROVE  kbd'.silence <= rcv'.silence
    BY <1>0, <2>2, <2>4, <2>5, <2>7 DEF HalfOpen
  <2>8. kbd'.peer /\ kbd'.mapAcked => rcv'.hasMap
    BY <2>2, <2>4, <2>5 DEF HalfOpen
  <2> QED BY <2>6, <2>7, <2>8 DEF HalfOpen
<1> QED BY <1>1, <1>2, <1>3

(* And what it does to the course: without trouble the ends of a session    *)
(* would have heard each other, and others are nearer to meeting.           *)
LEMMA UnheardCourse ==
  ASSUME ReconnectTime >= 33, HopInv, TimesInv, OnCourse(kbd, rcv, quiet), InTime,
         NEW k \in KbdRecord, NEW r \in RcvRecord, KbdAdvances(k), RcvAdvances(r),
         ~kbd.peer, ~k.peer,
         k.state = kbd.state, r.state = rcv.state, KbdPhase(k) = KbdPhase(kbd),
         RcvPhase(r) = RcvPhase(rcv),
         kbd.state # "PAUSED", rcv.state # "PAUSED",
         ~(kbd.state = "WAIT_CHALLENGE" /\ HelloReaches),
         quiet' = IF quiet = ReconnectTime THEN quiet ELSE quiet + 1
  PROVE  OnCourse(kbd', rcv', quiet')
<1>1. Awake(kbd, rcv) /\ Awake(k, r)
  BY DEF Awake
<1>2. ~kbd'.peer
  BY DEF KbdAdvances
<1>3. /\ KbdPhase(kbd') = KbdPhase(kbd) + 1 /\ RcvPhase(rcv') = RcvPhase(rcv) + 1
      /\ Awake(kbd', rcv')
  BY <1>1, PhasesAdvance
<1> QED BY <1>1, <1>2, <1>3, NearerNow

(* There is time for a session that is only being set up.                   *)
LEMMA TimeForSession ==
  ASSUME ReconnectTime >= 33, quiet \in Nat, OnCourse(kbd, rcv, quiet),
         NEW n \in 0..7, kbd.peer => SlotsLeft(kbd) = n + 1,
         quiet' = IF quiet = ReconnectTime THEN quiet ELSE quiet + 1, quiet' > 0
  PROVE  n <= ReconnectTime - quiet'
<1>1. CASE quiet = 0
  BY <1>1
<1>2. CASE quiet > 0 /\ kbd.peer
  BY <1>2 DEF OnCourse
<1>3. CASE quiet > 0 /\ ~kbd.peer
  <2>1. PICK i \in 0..25 : i <= ReconnectTime - quiet - 8
    BY <1>3 DEF OnCourse
  <2> QED BY <1>3, <2>1
<1> QED BY <1>1, <1>2, <1>3

(* HELLO: heard but not answered, it leaves a receiver that waits where the *)
(* keyboard was; answered, it starts a session.                             *)
LEMMA HelloTimes ==
  ASSUME HopInv, TimesInv, NEW o, NEW s \in Schedules, Hello(o, s)
  PROVE  /\ TimesInv'
         /\ ReconnectTime >= 33 /\ OnCourse(kbd, rcv, quiet) =>
              OnCourse(kbd', rcv', quiet')
<1>0. PICK k \in KbdRecord, r \in RcvRecord :
        Passes(k, r, o = "answered") /\ HelloEffect(k, r, o)
  BY HelloStep
<1>1. kbd.state = "WAIT_CHALLENGE" /\ ~kbd.peer /\ ~kbd.mapAcked
  BY HelloStep DEF HopInv, SessionInv, Consistent
<1>2. KbdAdvances(k) /\ RcvAdvances(r)
  BY <1>0, PassesKbd, PassesRcv
<1>3. /\ InTime /\ quiet \in Nat /\ quiet' \in Nat
      /\ quiet' > 0 => /\ o = "answered" /\ rcv.state # "PAUSED"
                       /\ quiet' = IF quiet = ReconnectTime THEN quiet ELSE quiet + 1
  <2>1. quiet \in Nat
    BY DEF TimesInv
  <2> QED BY <1>0, <2>1, PassesQuiet
<1>4. kbd.silence \in 0..74
  BY <1>1, <1>3, KbdInTime
<1>5. CASE k = kbd /\ r = rcv /\ (o = "lost" \/ ~HelloReaches)
  <2>1. TimesInv'
    BY <1>2, <1>3, <1>5, UnheardTimes DEF TimesInv
  <2>2. ASSUME ReconnectTime >= 33, OnCourse(kbd, rcv, quiet), quiet' > 0
        PROVE  OnCourse(kbd', rcv', quiet')
    BY <1>0, <1>1, <1>2, <1>3, <1>5, <2>2, UnheardCourse
  <2>3. quiet' <= 0 => OnCourse(kbd', rcv', quiet')
    BY <1>3 DEF OnCourse
  <2> QED BY <1>3, <2>1, <2>2, <2>3
<1>6. CASE /\ HelloReaches
           /\ r.state = "WAIT_CONFIRM" /\ r.peer /\ r.channel = KbdChannel /\ r.silence = 0
           /\ ~r.running
  <2>1. /\ RcvTimes(rcv') /\ rcv'.silence = 1 /\ rcv'.state = "WAIT_CONFIRM"
        /\ rcv'.peer /\ rcv'.channel = KbdChannel /\ ~rcv'.running
    <3>1. rcv'.silence = 1 /\ rcv'.state = "WAIT_CONFIRM" /\ ~rcv'.running
          /\ rcv'.peer /\ rcv'.channel = KbdChannel
      BY <1>2, <1>6 DEF RcvAdvances
    <3> QED BY <3>1, Timeouts DEF RcvTimes
  <2>2. CASE o # "answered" /\ k = kbd
    <3>1. kbd'.silence = kbd.silence + 1 /\ kbd'.state = "WAIT_CHALLENGE" /\ ~kbd'.peer
          /\ ~kbd'.mapAcked
      BY <1>1, <1>2, <2>2 DEF KbdAdvances
    <3>2. KbdTimes(kbd')
      BY <1>4, <3>1, Timeouts DEF KbdTimes
    <3>3. KbdChannel = Discovery(KbdDwell, kbd'.silence - rcv'.silence)
      <4>1. kbd'.silence - rcv'.silence = kbd.silence
        BY <1>4, <2>1, <3>1
      <4> QED BY <1>1, <4>1 DEF KbdChannel
    <3>4. HalfOpen(kbd', rcv')
      <4>1. rcv'.silence <= kbd'.silence
        BY <1>4, <2>1, <3>1
      <4> QED BY <2>1, <3>1, <3>3, <4>1 DEF HalfOpen
    <3>5. OnCourse(kbd', rcv', quiet')
      BY <1>3, <2>2 DEF OnCourse
    <3> QED BY <1>3, <2>1, <3>2, <3>4, <3>5 DEF TimesInv
  <2>3. CASE /\ o = "answered" /\ k.state = "WAIT_READY" /\ k.peer /\ k.silence = 0
             /\ ~k.mapAcked /\ ~k.syncAcked
    <3>1. kbd'.silence = 1 /\ kbd'.state = "WAIT_READY" /\ kbd'.peer /\ ~kbd'.mapAcked
      BY <1>2, <2>3 DEF KbdAdvances
    <3>2. KbdTimes(kbd')
      BY <3>1, Timeouts DEF KbdTimes
    <3>3. HalfOpen(kbd', rcv')
      BY <3>1 DEF HalfOpen
    <3>4. ASSUME ReconnectTime >= 33, OnCourse(kbd, rcv, quiet), quiet' > 0
          PROVE  OnCourse(kbd', rcv', quiet')
      <4>1. 7 <= ReconnectTime - quiet'
        <5>1. 7 \in 0..7 /\ (kbd.peer => SlotsLeft(kbd) = 7 + 1)
          BY <1>1
        <5>2. quiet' = IF quiet = ReconnectTime THEN quiet ELSE quiet + 1
          BY <1>3, <3>4
        <5> QED BY <1>3, <3>4, <5>1, <5>2, TimeForSession
      <4>2. SlotsLeft(kbd') = 7
        BY <3>1 DEF SlotsLeft
      <4>3. JustHeard(kbd', rcv')
        BY <2>1, <3>1 DEF JustHeard
      <4> QED BY <2>1, <3>1, <4>1, <4>2, <4>3 DEF OnCourse, Awake
    <3>5. quiet' <= 0 => OnCourse(kbd', rcv', quiet')
      BY <1>3 DEF OnCourse
    <3> QED BY <1>3, <2>1, <3>2, <3>3, <3>4, <3>5 DEF TimesInv
  <2> QED BY <1>0, <1>6, <2>2, <2>3, <1>5 DEF HelloEffect
<1> QED BY <1>0, <1>5, <1>6 DEF HelloEffect

(* CONFIRM: a session is a slot nearer to hopping.                          *)
LEMMA ConfirmTimes ==
  ASSUME HopInv, TimesInv, NEW o, Confirm(o)
  PROVE  /\ TimesInv'
         /\ ReconnectTime >= 33 /\ OnCourse(kbd, rcv, quiet) =>
              OnCourse(kbd', rcv', quiet')
<1>0. PICK k \in KbdRecord, r \in RcvRecord :
        Passes(k, r, o = "answered") /\ ConfirmEffect(k, r, o)
  BY ConfirmStep
<1>1. kbd.state = "WAIT_READY" /\ ~kbd.mapAcked
  BY ConfirmStep DEF HopInv, SessionInv, Consistent
<1>2. KbdAdvances(k) /\ RcvAdvances(r)
  BY <1>0, PassesKbd, PassesRcv
<1>3. /\ InTime /\ quiet \in Nat /\ quiet' \in Nat
      /\ quiet' > 0 => /\ o = "answered" /\ rcv.state # "PAUSED"
                       /\ quiet' = IF quiet = ReconnectTime THEN quiet ELSE quiet + 1
  <2>1. quiet \in Nat
    BY DEF TimesInv
  <2> QED BY <1>0, <2>1, PassesQuiet
<1>4. kbd.silence \in 1..19
  BY <1>1, <1>3, KbdInTime
<1>5. CASE k = kbd /\ r = rcv /\ (o = "lost" \/ ~ConfirmReaches)
  <2>1. TimesInv'
    BY <1>2, <1>3, <1>5, UnheardTimes DEF TimesInv
  <2>2. ASSUME ReconnectTime >= 33, OnCourse(kbd, rcv, quiet), quiet' > 0
        PROVE  OnCourse(kbd', rcv', quiet')
    <3>1. ~kbd.peer
      BY <1>1, <1>3, <1>5, <2>2, PeersMeet DEF ConfirmReaches, Awake
    <3> QED BY <1>0, <1>1, <1>2, <1>3, <1>5, <2>2, <3>1, UnheardCourse
  <2>3. quiet' <= 0 => OnCourse(kbd', rcv', quiet')
    BY <1>3 DEF OnCourse
  <2> QED BY <1>3, <2>1, <2>2, <2>3
<1>6. CASE /\ ConfirmReaches
           /\ RcvKeeps(r) /\ r.state = "ESTABLISHED" /\ r.silence = 0
           /\ r.running = rcv.running
           /\ KbdKeeps(k) /\ k.mapAcked = kbd.mapAcked
           /\ \/ o # "answered" /\ k = kbd
              \/ o = "answered" /\ k.state = "ESTABLISHED" /\ k.silence = 0
  <2>0. kbd.peer /\ rcv.peer /\ ~rcv.running
    BY <1>1, <1>6 DEF ConfirmReaches, Shared, Meet, HopInv, SessionInv, Consistent, Awake
  <2>1. /\ RcvTimes(rcv') /\ rcv'.silence = 1 /\ rcv'.state = "ESTABLISHED"
        /\ ~rcv'.running
    <3>1. rcv'.silence = 1 /\ rcv'.state = "ESTABLISHED" /\ ~rcv'.running
      BY <1>2, <1>6, <2>0 DEF RcvAdvances
    <3> QED BY <3>1, Timeouts DEF RcvTimes
  <2>2. kbd'.peer /\ ~kbd'.mapAcked
    BY <1>1, <1>2, <1>6, <2>0 DEF KbdAdvances, KbdKeeps
  <2>3. HalfOpen(kbd', rcv')
    BY <2>1, <2>2 DEF HalfOpen
  <2>4. CASE o # "answered" /\ k = kbd
    <3>1. kbd'.silence = kbd.silence + 1 /\ kbd'.state = "WAIT_READY"
      BY <1>1, <1>2, <2>4 DEF KbdAdvances
    <3>2. KbdTimes(kbd')
      BY <1>4, <2>2, <3>1, Timeouts DEF KbdTimes
    <3>3. OnCourse(kbd', rcv', quiet')
      BY <1>3, <2>4 DEF OnCourse
    <3> QED BY <1>3, <2>1, <2>3, <3>2, <3>3 DEF TimesInv
  <2>5. CASE o = "answered" /\ k.state = "ESTABLISHED" /\ k.silence = 0
    <3>1. kbd'.silence = 1 /\ kbd'.state = "ESTABLISHED"
      BY <1>2, <2>5 DEF KbdAdvances
    <3>2. KbdTimes(kbd')
      BY <2>2, <3>1, Timeouts DEF KbdTimes
    <3>3. ASSUME ReconnectTime >= 33, OnCourse(kbd, rcv, quiet), quiet' > 0
          PROVE  OnCourse(kbd', rcv', quiet')
      <4>1. 6 <= ReconnectTime - quiet'
        <5>1. 6 \in 0..7 /\ (kbd.peer => SlotsLeft(kbd) = 6 + 1)
          BY <1>1 DEF SlotsLeft
        <5>2. quiet' = IF quiet = ReconnectTime THEN quiet ELSE quiet + 1
          BY <1>3, <3>3
        <5> QED BY <1>3, <3>3, <5>1, <5>2, TimeForSession
      <4>2. SlotsLeft(kbd') = 6
        BY <2>2, <3>1 DEF SlotsLeft
      <4>3. JustHeard(kbd', rcv')
        BY <2>1, <2>2, <3>1 DEF JustHeard
      <4> QED BY <2>1, <2>2, <3>1, <4>1, <4>2, <4>3 DEF OnCourse, Awake
    <3>4. quiet' <= 0 => OnCourse(kbd', rcv', quiet')
      BY <1>3 DEF OnCourse
    <3> QED BY <1>3, <2>1, <2>3, <3>2, <3>3, <3>4 DEF TimesInv
  <2> QED BY <1>6, <2>4, <2>5
<1> QED BY <1>0, <1>5, <1>6 DEF ConfirmEffect

(* The offer of the map: both ends count from the boundary it sets.         *)
LEMMA OfferMapTimes ==
  ASSUME HopInv, TimesInv, NEW o, OfferMap(o)
  PROVE  /\ TimesInv'
         /\ ReconnectTime >= 33 /\ OnCourse(kbd, rcv, quiet) =>
              OnCourse(kbd', rcv', quiet')
<1>0. PICK k \in KbdRecord, r \in RcvRecord :
        Passes(k, r, o = "answered") /\ OfferEffect(k, r, o)
  BY OfferMapStep
<1>1. kbd.state = "ESTABLISHED" /\ ~kbd.mapAcked
  BY OfferMapStep
<1>2. KbdAdvances(k) /\ RcvAdvances(r)
  BY <1>0, PassesKbd, PassesRcv
<1>3. /\ InTime /\ quiet \in Nat /\ quiet' \in Nat
      /\ quiet' > 0 => /\ o = "answered" /\ rcv.state # "PAUSED"
                       /\ quiet' = IF quiet = ReconnectTime THEN quiet ELSE quiet + 1
  <2>1. quiet \in Nat
    BY DEF TimesInv
  <2> QED BY <1>0, <2>1, PassesQuiet
<1>4. kbd.silence \in 0..4
  BY <1>1, <1>3, KbdInTime
<1>5. CASE k = kbd /\ r = rcv /\ (o = "lost" \/ ~OfferReaches)
  <2>1. TimesInv'
    BY <1>2, <1>3, <1>5, UnheardTimes DEF TimesInv
  <2>2. ASSUME ReconnectTime >= 33, OnCourse(kbd, rcv, quiet), quiet' > 0
        PROVE  OnCourse(kbd', rcv', quiet')
    <3>0. Awake(kbd, rcv)
      BY <1>1, <1>3, <2>2 DEF Awake
    <3>1. ~kbd.peer
      <4>1. SUFFICES ASSUME kbd.peer PROVE FALSE
        OBVIOUS
      <4>2. rcv.state = "ESTABLISHED" /\ ~rcv.running
        BY <1>1, <3>0, <4>1 DEF HopInv, SessionInv, Consistent
      <4> QED BY <1>3, <1>5, <2>2, <3>0, <4>1, <4>2, PeersMeet DEF OfferReaches
    <3> QED BY <1>0, <1>1, <1>2, <1>3, <1>5, <2>2, <3>1, UnheardCourse
  <2>3. quiet' <= 0 => OnCourse(kbd', rcv', quiet')
    BY <1>3 DEF OnCourse
  <2> QED BY <1>3, <2>1, <2>2, <2>3
<1>6. CASE /\ OfferReaches
           /\ RcvKeeps(r) /\ r.state = rcv.state /\ r.running = rcv.running /\ r.hasMap
           /\ \/ o # "answered" /\ k = kbd /\ r.silence = 0
              \/ /\ o = "answered" /\ r.silence = -1
                 /\ KbdKeeps(k) /\ k.state = kbd.state
                 /\ k.mapAcked /\ k.silence = -1 /\ k.slot = -1
  <2>0. kbd.peer /\ ~rcv.running /\ rcv.state = "ESTABLISHED"
    BY <1>6 DEF OfferReaches, Shared
  <2>1. /\ RcvTimes(rcv') /\ rcv'.silence \in 0..1 /\ rcv'.state = "ESTABLISHED"
        /\ ~rcv'.running /\ rcv'.hasMap
    <3>1. rcv'.silence \in 0..1 /\ rcv'.state = "ESTABLISHED" /\ ~rcv'.running
          /\ rcv'.hasMap
      BY <1>2, <1>6, <2>0 DEF RcvAdvances
    <3> QED BY <3>1, Timeouts DEF RcvTimes
  <2>2. kbd'.peer /\ kbd'.state = "ESTABLISHED"
    BY <1>1, <1>2, <1>6, <2>0 DEF KbdAdvances, KbdKeeps
  <2>3. HalfOpen(kbd', rcv')
    BY <2>1, <2>2 DEF HalfOpen
  <2>4. CASE o # "answered" /\ k = kbd
    <3>1. kbd'.silence = kbd.silence + 1 /\ ~kbd'.mapAcked
      BY <1>1, <1>2, <2>4 DEF KbdAdvances
    <3>2. KbdTimes(kbd')
      BY <1>4, <2>2, <3>1, Timeouts DEF KbdTimes
    <3>3. OnCourse(kbd', rcv', quiet')
      BY <1>3, <2>4 DEF OnCourse
    <3> QED BY <1>3, <2>1, <2>3, <3>2, <3>3 DEF TimesInv
  <2>5. CASE /\ o = "answered" /\ k.state = kbd.state
             /\ k.mapAcked /\ k.silence = -1 /\ k.slot = -1
    <3>1. kbd'.silence = 0 /\ kbd'.mapAcked /\ kbd'.slot = 0
      BY <1>1, <1>2, <2>5 DEF KbdAdvances
    <3>2. KbdTimes(kbd')
      BY <2>2, <3>1, Timeouts DEF KbdTimes
    <3>3. ASSUME ReconnectTime >= 33, OnCourse(kbd, rcv, quiet), quiet' > 0
          PROVE  OnCourse(kbd', rcv', quiet')
      <4>1. 5 <= ReconnectTime - quiet'
        <5>1. 5 \in 0..7 /\ (kbd.peer => SlotsLeft(kbd) = 5 + 1)
          BY <1>1 DEF SlotsLeft
        <5>2. quiet' = IF quiet = ReconnectTime THEN quiet ELSE quiet + 1
          BY <1>3, <3>3
        <5> QED BY <1>3, <3>3, <5>1, <5>2, TimeForSession
      <4>2. SlotsLeft(kbd') = 5
        BY <2>2, <3>1 DEF SlotsLeft
      <4>3. JustHeard(kbd', rcv')
        BY <2>1, <2>2, <3>1 DEF JustHeard
      <4> QED BY <2>1, <2>2, <3>1, <4>1, <4>2, <4>3 DEF OnCourse, Awake
    <3>4. quiet' <= 0 => OnCourse(kbd', rcv', quiet')
      BY <1>3 DEF OnCourse
    <3> QED BY <1>3, <2>1, <2>3, <3>2, <3>3, <3>4 DEF TimesInv
  <2> QED BY <1>6, <2>4, <2>5
<1> QED BY <1>0, <1>5, <1>6 DEF OfferEffect

(* The clock and the data: the keyboard does not hop before its clock is    *)
(* acknowledged, and both clocks of a session go on.                        *)
LEMMA ExchangeTimes ==
  ASSUME HopInv, TimesInv, NEW s, NEW d, Exchange(s, d)
  PROVE  /\ TimesInv'
         /\ ReconnectTime >= 33 /\ OnCourse(kbd, rcv, quiet) =>
              OnCourse(kbd', rcv', quiet')
<1>0. PICK k \in KbdRecord, r \in RcvRecord :
        /\ Passes(k, r, s = "answered" /\ d = "answered")
        /\ ExchangeEffect(k, r, s, d)
  BY ExchangeStep
<1>1. kbd.state = "ESTABLISHED" /\ kbd.mapAcked
  BY ExchangeStep
<1>2. KbdAdvances(k) /\ RcvAdvances(r)
  BY <1>0, PassesKbd, PassesRcv
<1>3. /\ InTime /\ quiet \in Nat /\ quiet' \in Nat
      /\ quiet' > 0 => /\ s = "answered" /\ d = "answered" /\ rcv.state # "PAUSED"
                       /\ quiet' = IF quiet = ReconnectTime THEN quiet ELSE quiet + 1
  <2>1. quiet \in Nat
    BY DEF TimesInv
  <2> QED BY <1>0, <2>1, PassesQuiet
<1>4. kbd.silence \in 0..4 /\ (KbdHops => kbd.syncAcked)
  BY <1>1, <1>3, KbdInTime
<1>5. kbd.slot \in Int /\ rcv.age \in Int /\ rcv.slot \in Int /\ rcv.silence \in Int
  BY DEF HopInv, KbdRecord, RcvRecord
<1>6. kbd.slot >= 0 /\ (~kbd.syncAcked => kbd.slot <= kbd.silence)
  BY <1>1 DEF TimesInv, KbdTimes
<1>7. KbdTimes(kbd')
  <2>1. DataReaches(d) => kbd.syncAcked
    BY <1>4 DEF DataReaches
  <2>2. /\ k.state = "ESTABLISHED" /\ k.slot = kbd.slot
        /\ k.silence = 0 \/ k.silence = kbd.silence
        /\ ~k.syncAcked => ~kbd.syncAcked /\ k.silence = kbd.silence
    BY <1>0, <1>1, <2>1 DEF ExchangeEffect
  <2>3. -1 <= k.silence /\ k.silence < 5
    BY <1>4, <2>2
  <2> QED BY <1>2, <1>5, <1>6, <2>2, <2>3, KbdTimesPass, Timeouts
<1>8. RcvTimes(rcv')
  <2>1. /\ r.state = rcv.state
        /\ r.running <=> SyncReaches(s) \/ rcv.running
        /\ r.age = IF SyncReaches(s) THEN 0 ELSE rcv.age
        /\ r.silence = IF SyncReaches(s) \/ DataReaches(d) THEN 0 ELSE rcv.silence
    BY <1>0 DEF ExchangeEffect
  <2>2. ASSUME r.state # "PAUSED"
        PROVE  /\ -1 <= r.silence /\ r.silence < Timeout(r.state)
               /\ r.state = "WAIT_CONFIRM" => r.silence >= 0
               /\ r.running => r.silence <= r.age /\ r.age < Holdover
    <3>1. /\ rcv.silence \in 0..74 /\ rcv.silence < Timeout(rcv.state)
          /\ rcv.running => rcv.silence <= rcv.age /\ rcv.age \in 0..4
      BY <1>3, <2>1, <2>2, RcvInTime
    <3>2. Timeout(rcv.state) >= 5
      <4>1. rcv.state \in RcvStates
        BY DEF HopInv, RcvRecord
      <4> QED BY <2>1, <2>2, <4>1, Timeouts DEF RcvStates
    <3>3. 0 < Timeout(rcv.state)
      <4>1. Timeout(rcv.state) \in Int
        <5>1. rcv.state \in RcvStates
          BY DEF HopInv, RcvRecord
        <5> QED BY <2>1, <2>2, <5>1, Timeouts DEF RcvStates
      <4> QED BY <3>2, <4>1
    <3> QED BY <2>1, <3>1, <3>3
  <2> QED BY <1>2, <2>2, RcvTimesPass
<1>9. HalfOpen(kbd', rcv')
  <2>1. SUFFICES ASSUME Awake(kbd', rcv') PROVE HalfOpen(kbd', rcv')
    BY DEF HalfOpen
  <2>2. /\ kbd'.state = "ESTABLISHED" /\ kbd'.peer = kbd.peer
        /\ rcv'.state = rcv.state /\ rcv'.peer = rcv.peer /\ rcv'.hasMap = rcv.hasMap
    BY <1>0, <1>1, <1>2 DEF KbdAdvances, RcvAdvances, ExchangeEffect, RcvKeeps, KbdKeeps
  <2>3. Awake(kbd, rcv)
    BY <1>1, <2>1, <2>2 DEF Awake
  <2>4. (kbd.peer => rcv.hasMap) /\ ~(~kbd.peer /\ rcv.peer)
    BY <1>1, <2>3 DEF TimesInv, HalfOpen
  <2> QED BY <2>2, <2>4 DEF HalfOpen
<1>10. ASSUME ReconnectTime >= 33, OnCourse(kbd, rcv, quiet), quiet' > 0
       PROVE  OnCourse(kbd', rcv', quiet')
  <2>0. Awake(kbd, rcv)
    BY <1>1, <1>3, <1>10 DEF Awake
  <2>1. CASE ~kbd.peer
    <3>1. ~SyncReaches(s) /\ ~DataReaches(d)
      BY <2>1 DEF SyncReaches, DataReaches, Shared
    <3>2. /\ k.state = kbd.state /\ k.silence = kbd.silence /\ ~k.peer
          /\ r.state = rcv.state /\ r.silence = rcv.silence /\ r.age = rcv.age
          /\ r.running <=> rcv.running
      BY <1>0, <2>1, <3>1 DEF ExchangeEffect, KbdKeeps
    <3>3. KbdPhase(k) = KbdPhase(kbd) /\ RcvPhase(r) = RcvPhase(rcv)
      BY <3>2 DEF KbdPhase, RcvPhase
    <3> QED BY <1>0, <1>1, <1>2, <1>3, <1>10, <2>1, <3>2, <3>3, UnheardCourse
  <2>2. CASE kbd.peer
    <3>1. Meet /\ Shared
      BY <1>3, <2>0, <2>2, PeersMeet
    <3>2. SyncReaches(s)
      <4>1. rcv.state = "ESTABLISHED" /\ (rcv.running => kbd.slot = rcv.slot)
        BY <1>1, <2>0, <2>2 DEF HopInv, SessionInv, Consistent
      <4>2. rcv.hasMap
        BY <1>1, <2>0, <2>2 DEF TimesInv, HalfOpen
      <4> QED BY <1>3, <1>10, <3>1, <4>1, <4>2 DEF SyncReaches, AcceptsSync
    <3>3. /\ k.state = "ESTABLISHED" /\ k.peer /\ k.syncAcked /\ k.mapAcked
          /\ k.silence = 0 /\ k.slot = kbd.slot
          /\ r.state = rcv.state /\ r.silence = 0 /\ r.age = 0 /\ r.running
      BY <1>0, <1>1, <1>3, <1>10, <2>2, <3>2 DEF ExchangeEffect, KbdKeeps
    <3>4. /\ kbd'.state = "ESTABLISHED" /\ kbd'.peer /\ kbd'.syncAcked /\ kbd'.mapAcked
          /\ kbd'.silence = 1 /\ kbd'.slot = kbd.slot + 1
          /\ rcv'.state = rcv.state /\ rcv'.silence = 1 /\ rcv'.age = 1
      BY <1>2, <1>3, <1>10, <3>3 DEF KbdAdvances, RcvAdvances
    <3>5. SlotsLeft(kbd') <= ReconnectTime - quiet'
      <4>1. SlotsLeft(kbd') = 5 - (kbd.slot + 1)
        BY <3>4 DEF SlotsLeft
      <4>2. SlotsLeft(kbd) = 5 - kbd.slot
        BY <1>1 DEF SlotsLeft
      <4>3. quiet > 0 => 5 - kbd.slot <= ReconnectTime - quiet
        BY <1>10, <2>2, <4>2 DEF OnCourse
      <4> QED BY <1>3, <1>5, <1>6, <1>10, <4>1, <4>3
    <3> QED BY <1>3, <1>10, <3>4, <3>5 DEF OnCourse, JustHeard, Awake
  <2> QED BY <2>1, <2>2
<1>11. quiet' <= 0 => OnCourse(kbd', rcv', quiet')
  BY <1>3 DEF OnCourse
<1> QED BY <1>3, <1>7, <1>8, <1>9, <1>10, <1>11 DEF TimesInv

(* The keyboard starts over.  Only the end of the slot numbers makes it do  *)
(* so in a session without trouble, and it counts as trouble.               *)
LEMMA KbdNewTimes ==
  ASSUME HopInv, TimesInv, KbdRestart \/ KbdRequest
  PROVE  /\ TimesInv'
         /\ OnCourse(kbd, rcv, quiet) => OnCourse(kbd', rcv', quiet')
<1>1. /\ kbd' \in KbdRecord /\ ~kbd'.peer /\ kbd'.silence = 0
      /\ kbd'.state = "WAIT_CHALLENGE" /\ ~kbd'.mapAcked /\ ~kbd'.syncAcked
      /\ rcv' \in RcvRecord /\ ~rcv'.peer
      /\ rcv'.state = rcv.state /\ rcv'.running = rcv.running
      /\ rcv'.silence = rcv.silence /\ rcv'.age = rcv.age
  BY KbdNewFields DEF KbdRestart, KbdRequest
<1>2. quiet \in Nat /\ quiet' \in Nat /\ (quiet' = 0 \/ quiet' = quiet)
  BY DEF TimesInv, KbdRestart, KbdRequest
<1>3. TimesInv'
  <2>1. KbdTimes(kbd') /\ RcvTimes(rcv')
    BY <1>1, Timeouts DEF TimesInv, KbdTimes, RcvTimes
  <2>2. HalfOpen(kbd', rcv')
    <3>1. rcv'.state = "WAIT_CONFIRM" => rcv.silence >= 0
      BY <1>1 DEF TimesInv, RcvTimes
    <3> QED BY <1>1, <3>1 DEF HalfOpen
  <2> QED BY <1>2, <2>1, <2>2 DEF TimesInv
<1>4. ASSUME OnCourse(kbd, rcv, quiet), quiet' > 0 PROVE OnCourse(kbd', rcv', quiet')
  <2>1. /\ KbdExpired /\ kbd.slot \in Int /\ ~(kbd.slot > LastSlot)
        /\ quiet' = quiet /\ quiet > 0
    BY <1>2, <1>4 DEF KbdRestart, KbdRequest, HopInv, KbdRecord
  <2>2. Awake(kbd, rcv) /\ Awake(kbd', rcv')
    BY <1>1, <1>4, <2>1 DEF OnCourse, Awake
  <2>3. /\ kbd.state \in KbdStates \ {"PAUSED"} /\ kbd.silence \in Int
        /\ rcv.state \in RcvStates \ {"PAUSED"} /\ rcv.silence \in Int /\ rcv.age \in Int
    BY <2>2 DEF Awake, HopInv, KbdRecord, RcvRecord
  <2>4. Timeout(kbd.state) \in {5, 20, 75}
    BY <2>3, Timeouts DEF KbdStates
  <2>5. ~kbd.peer
    <3>1. SUFFICES ASSUME kbd.peer PROVE FALSE
      OBVIOUS
    <3>2. JustHeard(kbd, rcv)
      BY <1>4, <2>1, <3>1 DEF OnCourse
    <3> QED BY <2>1, <2>3, <2>4, <3>2 DEF JustHeard, KbdExpired, KbdHops
  <2>6. kbd.silence = Timeout(kbd.state)
    <3>1. KbdTimes(kbd)
      BY DEF TimesInv
    <3>2. CASE kbd.silence >= Timeout(kbd.state)
      BY <2>3, <2>4, <3>1, <3>2 DEF KbdTimes
    <3>3. CASE KbdHops /\ ~kbd.syncAcked
      <4>1. kbd.silence >= 5 /\ Timeout(kbd.state) = 5
        BY <2>1, <2>3, <3>1, <3>3, Timeouts DEF KbdTimes, KbdHops
      <4> QED BY <2>3, <3>1, <4>1 DEF KbdTimes
    <3> QED BY <2>1, <3>2, <3>3 DEF KbdExpired
  <2>7. (KbdPhase(kbd) = 75 \/ KbdPhase(kbd) = 0) /\ KbdPhase(kbd') = 0
    BY <1>1, <2>3, <2>4, <2>6, Timeouts DEF KbdPhase
  <2>8. RcvPhase(rcv') = RcvPhase(rcv) /\ RcvPhase(rcv) \in Int
    BY <1>1, <2>3, Timeouts DEF RcvPhase, RcvStates
  <2>9. PICK i \in 0..25 : /\ i <= ReconnectTime - quiet - 8
                           /\ Meets(KbdPhase(kbd), RcvPhase(rcv), i)
    BY <1>4, <2>1, <2>5 DEF OnCourse
  <2>10. Meets(KbdPhase(kbd'), RcvPhase(rcv'), i)
    <3>1. CASE KbdPhase(kbd) = 0
      BY <2>7, <2>8, <2>9, <3>1
    <3>2. CASE KbdPhase(kbd) = 75
      BY <2>7, <2>8, <2>9, <3>2, StartsOver
    <3> QED BY <2>7, <3>1, <3>2
  <2> QED BY <1>1, <2>1, <2>2, <2>9, <2>10 DEF OnCourse
<1>5. quiet' <= 0 => OnCourse(kbd', rcv', quiet')
  BY <1>2 DEF OnCourse
<1> QED BY <1>2, <1>3, <1>4, <1>5

(* The receiver starts over.                                                *)
LEMMA RcvNewTimes ==
  ASSUME HopInv, TimesInv, RcvRestart \/ RcvRequest
  PROVE  /\ TimesInv'
         /\ OnCourse(kbd, rcv, quiet) => OnCourse(kbd', rcv', quiet')
<1>1. /\ rcv' \in RcvRecord /\ ~rcv'.peer /\ ~rcv'.running
      /\ rcv'.state = "WAIT_HELLO" /\ rcv'.silence = 0
      /\ kbd' \in KbdRecord /\ ~kbd'.peer
      /\ kbd'.state = kbd.state /\ kbd'.mapAcked = kbd.mapAcked
      /\ kbd'.syncAcked = kbd.syncAcked /\ kbd'.silence = kbd.silence
      /\ kbd'.slot = kbd.slot
  BY RcvNewFields DEF RcvRestart, RcvRequest
<1>2. quiet \in Nat /\ quiet' \in Nat /\ (quiet' = 0 \/ quiet' = quiet)
  BY DEF TimesInv, RcvRestart, RcvRequest
<1>3. TimesInv'
  <2>1. KbdTimes(kbd') /\ RcvTimes(rcv')
    BY <1>1, Timeouts DEF TimesInv, KbdTimes, RcvTimes
  <2>2. HalfOpen(kbd', rcv')
    BY <1>1 DEF HalfOpen
  <2> QED BY <1>2, <2>1, <2>2 DEF TimesInv
<1>4. ASSUME OnCourse(kbd, rcv, quiet), quiet' > 0 PROVE OnCourse(kbd', rcv', quiet')
  <2>1. /\ RcvExpired /\ rcv.slot \in Int /\ ~(rcv.slot > LastSlot)
        /\ quiet' = quiet /\ quiet > 0
    BY <1>2, <1>4 DEF RcvRestart, RcvRequest, HopInv, RcvRecord
  <2>2. Awake(kbd, rcv) /\ Awake(kbd', rcv')
    BY <1>1, <1>4, <2>1 DEF OnCourse, Awake
  <2>3. /\ kbd.state \in KbdStates \ {"PAUSED"} /\ kbd.silence \in Int
        /\ rcv.state \in RcvStates \ {"PAUSED"} /\ rcv.silence \in Int /\ rcv.age \in Int
    BY <2>2 DEF Awake, HopInv, KbdRecord, RcvRecord
  <2>4. Timeout(rcv.state) \in {5, 20, 75}
    BY <2>3, Timeouts DEF RcvStates
  <2>5. ~kbd.peer
    <3>1. SUFFICES ASSUME kbd.peer PROVE FALSE
      OBVIOUS
    <3>2. JustHeard(kbd, rcv)
      BY <1>4, <2>1, <3>1 DEF OnCourse
    <3> QED BY <2>1, <2>3, <2>4, <3>2 DEF JustHeard, RcvExpired
  <2>6. /\ RcvPhase(rcv) = 75 \/ RcvPhase(rcv) = 0
        /\ RcvPhase(rcv') = 0
    <3>1. RcvTimes(rcv)
      BY DEF TimesInv
    <3>2. rcv.running => rcv.state = "ESTABLISHED"
      BY <2>3 DEF HopInv, SessionInv, Consistent
    <3>3. CASE rcv.running
      <4>1. rcv.age = 5
        BY <2>1, <2>3, <3>1, <3>2, <3>3, Timeouts DEF RcvTimes, RcvExpired
      <4> QED BY <1>1, <3>2, <3>3, <4>1 DEF RcvPhase
    <3>4. CASE ~rcv.running
      <4>1. rcv.silence = Timeout(rcv.state)
        BY <2>1, <2>3, <2>4, <3>1, <3>4 DEF RcvTimes, RcvExpired
      <4> QED BY <1>1, <2>3, <2>4, <3>4, <4>1, Timeouts DEF RcvPhase
    <3> QED BY <3>3, <3>4
  <2>7. KbdPhase(kbd') = KbdPhase(kbd) /\ KbdPhase(kbd) \in Int
    BY <1>1, <2>3, Timeouts DEF KbdPhase, KbdStates
  <2>8. PICK i \in 0..25 : /\ i <= ReconnectTime - quiet - 8
                           /\ Meets(KbdPhase(kbd), RcvPhase(rcv), i)
    BY <1>4, <2>1, <2>5 DEF OnCourse
  <2>9. Meets(KbdPhase(kbd'), RcvPhase(rcv'), i)
    <3>1. CASE RcvPhase(rcv) = 0
      BY <2>6, <2>7, <2>8, <3>1
    <3>2. CASE RcvPhase(rcv) = 75
      BY <2>6, <2>7, <2>8, <3>2, StartsOver
    <3> QED BY <2>6, <3>1, <3>2
  <2> QED BY <1>1, <2>1, <2>2, <2>8, <2>9 DEF OnCourse
<1>5. quiet' <= 0 => OnCourse(kbd', rcv', quiet')
  BY <1>2 DEF OnCourse
<1> QED BY <1>2, <1>3, <1>4, <1>5

(* A pause is trouble.                                                      *)
LEMMA PauseTimes ==
  ASSUME HopInv, TimesInv, KbdPause \/ RcvPause
  PROVE  TimesInv' /\ OnCourse(kbd', rcv', quiet')
<1>1. quiet' = 0
  BY DEF KbdPause, RcvPause
<1>2. CASE KbdPause
  <2>1. kbd'.state = "PAUSED" /\ rcv' = rcv
    BY <1>2 DEF HopInv, KbdPause, KbdRecord
  <2> QED BY <1>1, <2>1 DEF TimesInv, KbdTimes, HalfOpen, Awake, OnCourse
<1>3. CASE RcvPause
  <2>1. rcv'.state = "PAUSED" /\ kbd' = kbd
    BY <1>3 DEF HopInv, RcvPause, RcvRecord
  <2> QED BY <1>1, <2>1 DEF TimesInv, RcvTimes, HalfOpen, Awake, OnCourse
<1> QED BY <1>2, <1>3

(* Every step of the link keeps its times, and its course.                  *)
LEMMA TimesNext ==
  ASSUME HopInv, TimesInv, [Next]_vars
  PROVE  /\ TimesInv'
         /\ ReconnectTime >= 33 /\ OnCourse(kbd, rcv, quiet) =>
              OnCourse(kbd', rcv', quiet')
<1>1. CASE KbdRestart \/ KbdRequest
  BY <1>1, KbdNewTimes
<1>2. CASE RcvRestart \/ RcvRequest
  BY <1>2, RcvNewTimes
<1>3. CASE KbdPause \/ RcvPause
  BY <1>3, PauseTimes
<1>4. CASE Slot
  <2>1. CASE \E o \in Outcomes, s \in Schedules : Hello(o, s)
    BY <2>1, HelloTimes
  <2>2. CASE \E o \in Outcomes : Confirm(o) \/ OfferMap(o)
    BY <2>2, ConfirmTimes, OfferMapTimes
  <2>3. CASE \E s, d \in Outcomes : Exchange(s, d)
    BY <2>3, ExchangeTimes
  <2>4. CASE Silent
    <3>1. Passes(kbd, rcv, FALSE) /\ kbd \in KbdRecord /\ rcv \in RcvRecord
          /\ quiet \in Nat
      BY <2>4 DEF Silent, HopInv, TimesInv
    <3>2. KbdAdvances(kbd) /\ RcvAdvances(rcv) /\ InTime /\ quiet' \in Nat /\ ~(quiet' > 0)
      BY <3>1, PassesKbd, PassesRcv, PassesQuiet
    <3> QED BY <3>2, UnheardTimes DEF TimesInv, OnCourse
  <2> QED BY <1>4, <2>1, <2>2, <2>3, <2>4 DEF Slot
<1>5. CASE UNCHANGED vars
  BY <1>5 DEF vars, TimesInv, OnCourse
<1> QED BY <1>1, <1>2, <1>3, <1>4, <1>5 DEF Next

(* At first nothing has been quiet.                                         *)
LEMMA TimesInit == ASSUME Init PROVE TimesInv /\ OnCourse(kbd, rcv, quiet)
<1>1. /\ kbd.state = "WAIT_CHALLENGE" /\ kbd.silence = 0 /\ ~kbd.mapAcked /\ ~kbd.peer
      /\ rcv.state = "WAIT_HELLO" /\ rcv.silence = 0 /\ ~rcv.running /\ ~rcv.peer
      /\ quiet = 0
  BY DEF Init, KbdStart, RcvStart
<1> QED BY <1>1, Timeouts DEF TimesInv, KbdTimes, RcvTimes, HalfOpen, OnCourse

(* When the time is up, there is a session, and nothing is left of it.      *)
LEMMA CourseEnds ==
  ASSUME ReconnectTime >= 33, HopInv, OnCourse(kbd, rcv, quiet)
  PROVE  ReconnectsInTime
<1> SUFFICES ASSUME quiet = ReconnectTime PROVE Shared /\ (InTime => KbdHops /\ RcvHops)
  BY DEF ReconnectsInTime
<1>1. Awake(kbd, rcv) /\ kbd.peer /\ SlotsLeft(kbd) <= 0
  BY DEF OnCourse
<1>2. rcv.peer
  BY <1>1 DEF HopInv, SessionInv, Consistent
<1>3. kbd.state = "ESTABLISHED" /\ kbd.mapAcked /\ kbd.slot >= 5
  <2>1. kbd.state \in KbdStates \ {"PAUSED"} /\ kbd.slot \in Int
    BY <1>1 DEF HopInv, KbdRecord, Awake
  <2>2. kbd.state # "WAIT_CHALLENGE"
    BY <1>1 DEF HopInv, SessionInv, Consistent
  <2> QED BY <1>1, <2>1, <2>2 DEF SlotsLeft, KbdStates
<1>4. ASSUME InTime PROVE KbdHops /\ RcvHops
  <2>1. KbdHops
    BY <1>3 DEF KbdHops
  <2>2. kbd.syncAcked
    BY <1>1, <1>4, <2>1 DEF InTime, KbdExpired, Awake
  <2> QED BY <1>1, <1>3, <2>1, <2>2 DEF RcvHops, HopInv, SessionInv, Consistent
<1> QED BY <1>1, <1>2, <1>4 DEF Shared

(* Without losses, requests or pauses, the ends find each other from        *)
(* whatever they were doing and hop together in 33 slots, two thirds of a   *)
(* second.                                                                  *)
THEOREM ReconnectsSoon ==
  ASSUME ReconnectTime >= 33 PROVE Spec => []ReconnectsInTime
<1> DEFINE Inv == HopInv /\ TimesInv /\ OnCourse(kbd, rcv, quiet)
<1>1. Init => Inv
  BY HopInit, TimesInit
<1>2. Inv /\ [Next]_vars => Inv'
  BY HopNext, TimesNext
<1>3. Inv => ReconnectsInTime
  BY CourseEnds
<1> HIDE DEF Inv
<1> QED BY <1>1, <1>2, <1>3, PTL DEF Spec

(***************************************************************************)
(* What may restart the keyboard (U): the watchdog outlasts its feeder's   *)
(* silences but no longer ones, and a transient reading of the mode switch *)
(* moves nothing.                                                          *)
(***************************************************************************)
CONSTANTS FeedPeriod, Grace, WatchdogTime, Debounce

VARIABLES
  cached, counted, count, primed, forced, retained, bootDongle, owner, ours,
  unfed, fedOnce, stopped, silent, unsampled, lastRead, streak, longest, stalest

U == INSTANCE Upkeep WITH pending <- counted,
                          override <- forced, radio <- owner, last <- lastRead

(* The keyboard starts with everybody at work.                              *)
LEMMA InitUpkept == ASSUME U!Settings PROVE U!Init => U!Upkept
<1> SUFFICES ASSUME U!Init PROVE U!Upkept OBVIOUS
<1>1. ours \in BOOLEAN /\ stopped \in BOOLEAN /\ (stopped => ~ours) BY DEF U!Init
<1>2. U!TypeOK BY <1>1 DEF U!Init, U!TypeOK
<1>3. U!FedWhileFit BY DEF U!Settings, U!Init, U!FedWhileFit, U!Stale
<1>4. U!LateIsStopped BY <1>1 DEF U!Settings, U!Init, U!LateIsStopped
<1>5. U!CountIsStreak BY DEF U!Init, U!CountIsStreak
<1> QED BY <1>2, <1>3, <1>4, <1>5 DEF U!Upkept

(* A restart, whoever asks for it, starts all clocks anew.                  *)
LEMMA BootUpkept ==
  ASSUME U!Settings, U!Upkept, NEW position, NEW keeps, U!Boot(position, keeps),
         ours' \in BOOLEAN, ~ours' => unfed < WatchdogTime
  PROVE  U!Upkept'
<1>a. /\ ours' \in BOOLEAN /\ stopped' \in BOOLEAN
      /\ stopped' => ~ours'
      /\ ~stopped' => ours'
  BY DEF U!Boot
<1>1. U!TypeOK'
  BY <1>a DEF U!Boot, U!Upkept, U!TypeOK
<1>2. U!FedWhileFit'
  BY DEF U!Settings, U!Boot, U!Upkept, U!TypeOK, U!FedWhileFit, U!Stale
<1>3. U!LateIsStopped'
  BY <1>a DEF U!Settings, U!Boot, U!LateIsStopped
<1>4. U!CountIsStreak'
  BY DEF U!Boot, U!CountIsStreak
<1> QED BY <1>1, <1>2, <1>3, <1>4 DEF U!Upkept

(* A round feeds only while nobody was away for too long, and counts.       *)
LEMMA RoundUpkept ==
  ASSUME U!Settings, U!Upkept, NEW position, U!Round(position)
  PROVE  U!Upkept'
<1> USE U!Settings DEF U!Settings
<1>1. U!TypeOK'
  <2>1. count' \in Nat /\ streak' \in Nat /\ unsampled' \in Nat
    BY DEF U!Upkept, U!TypeOK, U!Round, U!Sample, U!modeVars
  <2> QED
    BY <2>1 DEF U!Upkept, U!TypeOK, U!Round, U!Feed, U!Larger, U!bootVars
<1>2. unsampled' <= unsampled + 1
  BY DEF U!Upkept, U!TypeOK, U!Round, U!Sample
<1>3. U!FedWhileFit'
  <2>1. CASE U!Due /\ U!Fit
    BY <1>1, <2>1 DEF U!Upkept, U!TypeOK, U!Round, U!Feed, U!Fit, U!Due, U!FedWhileFit,
       U!Stale
  <2>2. CASE ~(U!Due /\ U!Fit)
    <3>1. unfed' = unfed + 1 /\ silent' = silent + 1
      BY <2>2 DEF U!Round, U!Feed
    <3> QED
      BY <1>1, <1>2, <3>1 DEF U!Upkept, U!TypeOK, U!Round, U!FedWhileFit, U!Stale
  <2> QED BY <2>1, <2>2
<1>4. U!LateIsStopped'
  <2>1. ~stopped' => unfed' < FeedPeriod
    <3>1. CASE U!Due
      <4>1. CASE U!Fit
        BY <3>1, <4>1 DEF U!Round, U!Feed
      <4>2. CASE ~U!Fit
        BY <3>1, <4>2 DEF U!Round, U!Feed
      <4> QED BY <4>1, <4>2
    <3>2. CASE ~U!Due
      <4>1. stopped' = stopped /\ unfed' = unfed + 1
        BY <3>2 DEF U!Round, U!Feed, U!Upkept, U!TypeOK
      <4>2. stopped \/ unfed + 1 < FeedPeriod
        BY <3>2 DEF U!Due, U!Upkept, U!TypeOK
      <4> QED BY <4>1, <4>2
    <3> QED BY <3>1, <3>2
  <2>2. longest' >= longest /\ longest' >= silent'
        /\ stalest' >= stalest /\ stalest' >= unsampled' /\ ours' = ours
    BY <1>1 DEF U!Upkept, U!TypeOK, U!Round, U!Larger, U!bootVars
  <2>3. ASSUME stopped', ours' PROVE longest' >= Grace \/ stalest' > U!Stale
    <3>1. CASE stopped
      BY <1>1, <2>2, <2>3, <3>1 DEF U!Upkept, U!TypeOK, U!LateIsStopped, U!Stale
    <3>2. CASE ~stopped
      <4>1. ~U!Fit
        BY <2>3, <3>2 DEF U!Round, U!Feed, U!Upkept, U!TypeOK
      <4>2. unsampled' > U!Stale \/ silent' >= Grace
        BY <1>1, <2>2, <2>3, <4>1 DEF U!Fit, U!TypeOK, U!Stale
      <4> QED BY <1>1, <2>2, <4>2 DEF U!TypeOK, U!Stale
    <3> QED BY <3>1, <3>2
  <2> QED BY <2>1, <2>3, <1>1 DEF U!LateIsStopped, U!TypeOK
<1>5. U!CountIsStreak'
  <2>1. CASE position = U!Failed
    BY <2>1 DEF U!Upkept, U!CountIsStreak, U!Round, U!Sample, U!modeVars
  <2>2. CASE position # U!Failed
    <3>1. lastRead' = position /\ streak' = IF position = lastRead THEN streak + 1 ELSE 1
      BY <2>2 DEF U!Round, U!Sample
    <3>2. \/ counted' = counted /\ count' = count /\ ~primed /\ primed'
          \/ count' = 0
          \/ counted' = position /\ count' = IF position = counted THEN count + 1 ELSE 1
      BY <2>2 DEF U!Round, U!Sample
    <3>3. primed' BY <2>2 DEF U!Round, U!Sample
    <3> QED BY <3>1, <3>2, <3>3 DEF U!Upkept, U!TypeOK, U!CountIsStreak
  <2> QED BY <2>1, <2>2
<1> QED BY <1>1, <1>3, <1>4, <1>5 DEF U!Upkept

(* Every step keeps the invariant.                                          *)
LEMMA StepUpkept == ASSUME U!Settings, U!Upkept, [U!Next]_(U!vars) PROVE U!Upkept'
<1>1. CASE \E position \in U!Modes \cup {U!Failed} : U!Round(position)
  BY <1>1, RoundUpkept
<1>2. CASE \E position \in U!Modes \cup {U!Failed} : U!ModeGate(position)
  <2>1. PICK position : U!ModeGate(position) BY <1>2
  <2>2. ours' = ours /\ U!Boot(position, retained) BY <2>1 DEF U!ModeGate
  <2>3. ours' \in BOOLEAN /\ unfed < WatchdogTime
    BY <2>2 DEF U!Upkept, U!TypeOK, U!FedWhileFit
  <2> QED BY <2>2, <2>3, BootUpkept
<1>3. CASE \E position \in U!Modes \cup {U!Failed}, keeps \in {retained, U!NoMode} :
             U!Bite(position, keeps)
  <2>1. PICK position, keeps : U!Bite(position, keeps) BY <1>3
  <2>2. ours' = TRUE /\ U!Boot(position, keeps) BY <2>1 DEF U!Bite
  <2> QED BY <2>2, BootUpkept
<1>4. CASE U!Heartbeat
  BY <1>4 DEF U!Heartbeat, U!Upkept, U!TypeOK, U!FedWhileFit, U!LateIsStopped,
     U!CountIsStreak, U!Settings, U!Stale, U!modeVars, U!bootVars, U!history
<1>5. CASE \/ \E mode \in U!Modes \cup {U!NoMode} : U!SetOverride(mode)
           \/ U!StandDown
           \/ UNCHANGED U!vars
  BY <1>5 DEF U!SetOverride, U!StandDown, U!vars, U!Upkept, U!TypeOK, U!FedWhileFit,
     U!LateIsStopped, U!CountIsStreak, U!Stale, U!modeVars, U!bootVars, U!dogVars,
     U!history
<1> QED BY <1>1, <1>2, <1>3, <1>4, <1>5 DEF U!Next

(* So it holds always, whenever the feeder comes before the watchdog.       *)
LEMMA UpkeptHolds == ASSUME U!Settings PROVE U!Spec => []U!Upkept
<1>1. U!Init => U!Upkept BY InitUpkept
<1>2. U!Upkept /\ [U!Next]_(U!vars) => U!Upkept' BY StepUpkept
<1> QED BY <1>1, <1>2, PTL DEF U!Spec

(* For every feed period shorter than the watchdog's time, and every       *)
(* grace: a loop or a switch that nobody serves is never left so for       *)
(* longer than its grace and that time (wdt_feed_once, wdt_thread_main).   *)
THEOREM KeyboardIsWatched == ASSUME U!Settings PROVE U!Spec => []U!KeepsWatch
<1>1. U!Upkept => U!KeepsWatch
  BY DEF U!Settings, U!Upkept, U!TypeOK, U!FedWhileFit, U!KeepsWatch, U!Stale
<1> QED BY <1>1, UpkeptHolds, PTL

(* A keyboard that serves both in time is never restarted by the watchdog. *)
THEOREM OnlyTheSilentAreBitten == ASSUME U!Settings PROVE U!Spec => []U!BitesTheSilent
<1>1. U!Upkept => U!BitesTheSilent
  BY DEF U!Settings, U!Upkept, U!TypeOK, U!LateIsStopped, U!BitesTheSilent
<1> QED BY <1>1, UpkeptHolds, PTL

(* One wrong reading of the switch neither drops Bluetooth nor restarts    *)
(* the keyboard (g4b_mode_sample).                                         *)
THEOREM SwitchIsDebounced == ASSUME U!Settings PROVE U!Spec => U!SteadyMoves
<1>1. U!Upkept /\ [U!Next]_(U!vars) => [U!Steady]_(U!vars)
  <2> SUFFICES ASSUME U!Upkept, NEW position \in U!Modes \cup {U!Failed},
                      U!Round(position), cached' # cached, primed
               PROVE  lastRead' = cached' /\ streak' >= Debounce
    BY DEF U!Steady
  <2>1. /\ position = counted /\ count + 1 >= Debounce
        /\ cached' = position /\ lastRead' = position
        /\ streak' = IF position = lastRead THEN streak + 1 ELSE 1
    BY DEF U!Round, U!Sample, U!modeVars
  <2> QED
    BY <2>1 DEF U!Upkept, U!TypeOK, U!CountIsStreak, U!Settings
<1> QED BY <1>1, UpkeptHolds, PTL DEF U!Spec, U!SteadyMoves

(***************************************************************************)
(* The parts together: a behaviour is one of one part, and the others rest *)
(* in an initial state, so that what holds of each part holds of all.      *)
(***************************************************************************)
LEMMA PartsStart ==
  ASSUME PartsInit
  PROVE  Init /\ L!Init /\ O!Init /\ E!Init /\ N!Init /\ C!Init /\ D!Init /\ P!Init
  BY DEF PartsInit

(* A step of the parts is one of each part, or leaves it alone.             *)
LEMMA PartsStep ==
  ASSUME [PartsNext]_partsVars
  PROVE  /\ [Next]_hopVars /\ [L!Next]_lightVars /\ [O!Next]_overlayVars
         /\ [E!Next]_effectVars /\ [N!Next]_flashVars /\ [C!Next]_chargerVars
         /\ [D!Next]_depthVars /\ [P!Next]_pairVars
<1>1. CASE UNCHANGED partsVars
  BY <1>1 DEF partsVars
<1>2. CASE PartsNext
  BY <1>2 DEF PartsNext
<1> QED BY <1>1, <1>2

(* An array that owes no transfer shows what was staged last, with the     *)
(* settings asked for last, whatever the supply did in between.            *)
THEOREM ArrayShowsTheFrame == PartsSpec => []ArrayIsCurrent
<1>1. PartsInit => LightInv
  BY PartsStart, LightInit
<1>2. LightInv /\ [PartsNext]_partsVars => LightInv'
  BY PartsStep, LightNext
<1>3. LightInv => ArrayIsCurrent
  BY DEF LightInv, ArrayIsCurrent
<1> QED BY <1>1, <1>2, <1>3, PTL DEF PartsSpec

(* The LEDs are lit, or blanked with the bus parked, one turn and a ramp   *)
(* after what is wanted changed, for all lengths of the ramps and of the   *)
(* scalar.                                                                 *)
THEOREM LightComesInTime == PartsSpec => []LightFollowsWant
<1>1. PartsInit => LightInv
  BY PartsStart, LightInit
<1>2. LightInv /\ [PartsNext]_partsVars => LightInv'
  BY PartsStep, LightNext
<1>3. LightInv => LightFollowsWant
  BY FadesInTime DEF LightFollowsWant
<1> QED BY <1>1, <1>2, <1>3, PTL DEF PartsSpec

(* The keys toggled last are the ones that flash, each in a slot of its    *)
(* own, for any number of keys and slots; and nothing stays painted that   *)
(* the loop does not know of or is about to paint over.                    *)
THEOREM OverlayStaysCurrent == PartsSpec => []OverlayIsCurrent
<1>1. PartsInit => OverlayInv
  BY PartsStart, OverlayBegins
<1>2. OverlayInv /\ [PartsNext]_partsVars => OverlayInv'
  BY PartsStep, OverlayGoesOn
<1> QED BY <1>1, <1>2, OverlayIs, PTL DEF PartsSpec

(* A key's light is gone 255 frames after the last key, a level that is    *)
(* not raised falls to black within the frames of a fade, the window of a  *)
(* key is never inside out, and a channel is sent what it was asked for to *)
(* within one code: for all LEDs, hues, readings and numbers of frames.    *)
THEOREM EffectsDoFade == PartsSpec => []EffectsFade
<1>1. PartsInit => EffectInv
  BY PartsStart, EffectsBegin
<1>2. EffectInv /\ [PartsNext]_partsVars => EffectInv'
  BY PartsStep, EffectsGoOn
<1> QED BY <1>1, <1>2, EffectsFaded, PTL DEF PartsSpec

(* The record found at a start is that of the last crash that was written, *)
(* however often the ring and its sequence wrapped and wherever a write of *)
(* it was cut, unless a slot could not be read or the ring was not scanned *)
(* yet; a format that was cut leaves no vendor's bytes under a marker, and *)
(* the settings stay, unless the marker could not be read or the chip took *)
(* too long: for all numbers of sectors, slots, sequences and faults.      *)
THEOREM FlashStaysKept == PartsSpec => []FlashIsKept
<1>1. PartsInit => FlashInv
  BY PartsStart, FlashBegins
<1>2. FlashInv /\ [PartsNext]_partsVars => FlashInv'
  BY PartsStep, FlashGoesOn
<1> QED BY <1>1, <1>2, FlashSays, PTL DEF PartsSpec

(* Once the charger was configured its limits are those written last: its  *)
(* own reset, 40 s after a write, is disarmed, and no interleaving of the  *)
(* settings, the scanner, the shell, the storage controller, failed        *)
(* transfers and restarts brings it back.  And the cell stays within its   *)
(* band, for all limits and any amount of trouble.                         *)
THEOREM ChargeStaysBounded == PartsSpec => []ChargeIsBounded
<1>1. PartsInit => ChargerInv /\ Band
  BY PartsStart, ChargerInit, BandInit
<1>2. ChargerInv /\ Band /\ [PartsNext]_partsVars => (ChargerInv /\ Band)'
  BY PartsStep, ChargerNext, BandNext
<1>3. ChargerInv /\ Band => ChargeIsBounded
  BY DEF ChargerInv, Band, ChargeIsBounded, C!LimitHolds
<1> QED BY <1>1, <1>2, <1>3, PTL DEF PartsSpec

(* What is learned of a key was measured, a range that is trusted is kept  *)
(* and saved, and the axis goes the way the key does, for all readings and *)
(* ranges.                                                                 *)
THEOREM DepthStaysKept == PartsSpec => []DepthIsKept
<1>1. PartsInit => DepthInv
  BY PartsStart, DepthInit
<1>2. DepthInv /\ [PartsNext]_partsVars => DepthInv'
  BY PartsStep, DepthNext
<1>3. DepthInv => DepthIsKept
  BY DEF DepthInv, Measured, DepthIsKept
<1> QED BY <1>1, <1>2, <1>3, PTL DEF PartsSpec

(* A pair that was reported is one on both devices and their radios, a     *)
(* receive is late only when its own time is over, and nothing else loses  *)
(* a record, for all lengths of a record, deadlines, runs and amounts of   *)
(* trouble.                                                                *)
THEOREM PairStaysKept == PartsSpec => []PairIsKept
<1>1. PartsInit => PairInv
  BY PartsStart, PairStarts
<1>2. PairInv /\ [PartsNext]_partsVars => PairInv'
  BY PartsStep, PairNext
<1>3. PairInv => PairIsKept
  BY DEF PairInv, PairIsKept
<1> QED BY <1>1, <1>2, <1>3, PTL DEF PartsSpec
=============================================================================
