------------------------------ MODULE Overlay -------------------------------
(***************************************************************************)
(* What is painted over the effects of the LEDs                            *)
(* (apex-zmk-g4b/src/rgb_overlay_g4b.c): the legend of the Fn layer, the   *)
(* short flashes that confirm a toggle, and the progress of an update.     *)
(* Flashes are started by the threads of the keys' behaviours, under a     *)
(* spinlock; the thread of the scanner asks once a turn whether anything   *)
(* is to be painted, and paints in the flush that may follow.              *)
(***************************************************************************)
EXTENDS Integers, FiniteSets

CONSTANTS
  Keys,         \* the keys that flash
  Slots,        \* FLASH_SLOTS
  FlashTicks,   \* FLASH_TOTAL_MS, in ticks
  UpdateTicks,  \* OTA_WINDOW_MS, in ticks
  NoKey         \* a slot that never flashed

(* What the constants have to be. *)
OverlayAssumption ==
  /\ {Slots, FlashTicks, UpdateTicks} \subseteq Nat \ {0}
  /\ IsFiniteSet(Keys) /\ NoKey \notin Keys

VARIABLES
  flashes,      \* the slots: the key, active, and the ticks since it started
  update,       \* the ticks since the last progress, UpdateTicks when none
  fn,           \* the Fn layer is active
  prev,         \* overlay_prev_active
  pending,      \* rgb_pending
  at,           \* what the thread of the scanner does next
  painted,      \* what the last transfer had over the effect
  toggled,      \* history: the ticks since a key was toggled
  crossed       \* history: the last flush painted what its tick had not seen

vars == <<flashes, update, fn, prev, pending, at, painted, toggled, crossed>>

Slot == 0..Slots - 1
Age == 0..FlashTicks
Paints == {"none", "update", "legend", "flash"}

TypeOK ==
  /\ flashes \in [Slot -> [key : Keys \cup {NoKey}, active : BOOLEAN, age : Age]]
  /\ update \in 0..UpdateTicks
  /\ {fn, prev, pending} \subseteq BOOLEAN
  /\ at \in {"tick", "flush"} /\ painted \in Paints
  /\ toggled \in [Keys -> Age] /\ crossed \in BOOLEAN

Init ==
  /\ flashes = [s \in Slot |-> [key |-> NoKey, active |-> FALSE, age |-> FlashTicks]]
  /\ update = UpdateTicks /\ fn = FALSE /\ prev = FALSE /\ pending = FALSE
  /\ at = "tick" /\ painted = "none"
  /\ toggled = [k \in Keys |-> FlashTicks] /\ crossed = FALSE
-----------------------------------------------------------------------------
(* ota_active, any_flash_active and g4b_rgb_overlay_wants.                 *)
UpdateActive == update < UpdateTicks
Live(s) == flashes[s].active /\ flashes[s].age < FlashTicks
AnyFlash == \E s \in Slot : Live(s)
Wants == UpdateActive \/ fn \/ AnyFlash

(* g4b_rgb_overlay_flash: the slot already flashing the key, else the      *)
(* first free one, else the oldest (the last of several).                  *)
SlotFor(k) ==
  LET same == {s \in Slot : flashes[s].active /\ flashes[s].key = k}
      free == {s \in Slot : ~flashes[s].active}
      oldest == {s \in Slot : \A t \in Slot : \/ flashes[s].age > flashes[t].age
                                              \/ flashes[s].age = flashes[t].age /\ s >= t}
      First(S) == CHOOSE s \in S : \A t \in S : s <= t
  IN First(IF same # {} THEN same ELSE IF free # {} THEN free ELSE oldest)

Flash(k) ==
  /\ flashes' = [flashes EXCEPT ![SlotFor(k)] = [key |-> k, active |-> TRUE, age |-> 0]]
  /\ toggled' = [toggled EXCEPT ![k] = 0]
  /\ UNCHANGED <<update, fn, prev, pending, at, painted, crossed>>

(* g4b_rgb_overlay_update.                                                 *)
Progress ==
  /\ update' = 0
  /\ UNCHANGED <<flashes, fn, prev, pending, at, painted, toggled, crossed>>

FnKey ==
  /\ fn' = ~fn
  /\ UNCHANGED <<flashes, update, prev, pending, at, painted, toggled, crossed>>

(* A frame of the effect below was staged.                                 *)
BaseFrame ==
  /\ pending' = TRUE
  /\ UNCHANGED <<flashes, update, fn, prev, at, painted, toggled, crossed>>

(* Mutation of OverlayTick: a turn without an overlay asks for nothing.    *)
OverlayTickNow ==
  /\ at = "tick" /\ at' = "flush"
  /\ prev' = Wants
  /\ pending' = (pending \/ Wants)
  /\ UNCHANGED <<flashes, update, fn, painted, toggled, crossed>>

(* g4b_rgb_overlay_tick, and the flag it makes the loop set.               *)
OverlayTick ==
  /\ at = "tick" /\ at' = "flush"
  /\ prev' = Wants
  /\ pending' = (pending \/ Wants \/ prev)
  /\ UNCHANGED <<flashes, update, fn, painted, toggled, crossed>>

(* g4b_rgb_overlay_apply: an update owns the matrix; else the legend, and  *)
(* the flashes over it.  Here, the uppermost of what is painted.           *)
Paint == IF UpdateActive THEN "update"
         ELSE IF AnyFlash THEN "flash" ELSE IF fn THEN "legend" ELSE "none"

(* render_flashes: a flash whose time is over leaves its slot.             *)
Rendered == [s \in Slot |-> [flashes[s] EXCEPT !.active = Live(s)]]

(* g4b_rgb_flush and g4b_rgb_show, while the LEDs are not blanked.         *)
Flush ==
  /\ at = "flush" /\ at' = "tick"
  /\ pending' = FALSE
  /\ painted' = IF pending THEN Paint ELSE painted
  /\ flashes' = IF pending /\ Wants /\ ~UpdateActive THEN Rendered ELSE flashes
  /\ crossed' = IF pending THEN Wants /\ ~prev ELSE crossed
  /\ UNCHANGED <<update, fn, prev, toggled>>

Older(n, bound) == IF n < bound THEN n + 1 ELSE n

Tick ==
  /\ flashes' = [s \in Slot |-> [flashes[s] EXCEPT !.age = Older(@, FlashTicks)]]
  /\ toggled' = [k \in Keys |-> Older(toggled[k], FlashTicks)]
  /\ update' = Older(update, UpdateTicks)
  /\ UNCHANGED <<fn, prev, pending, at, painted, crossed>>

Next ==
  \/ \E k \in Keys : Flash(k)
  \/ Progress \/ FnKey \/ BaseFrame \/ OverlayTick \/ Flush \/ Tick

Spec == Init /\ [][Next]_vars
-----------------------------------------------------------------------------
(* The keys toggled last are the ones that flash: a key whose flash is not *)
(* over has a slot of its own, unless as many other keys as there are      *)
(* slots were toggled no earlier; and no key has two slots.                *)
NewestFlash ==
  /\ \A k \in Keys : toggled[k] < FlashTicks =>
       \/ \E s \in Slot : Live(s) /\ flashes[s].key = k /\ flashes[s].age = toggled[k]
       \/ Cardinality({j \in Keys \ {k} : toggled[j] <= toggled[k]}) >= Slots
  /\ \A s, t \in Slot : s # t /\ flashes[s].active /\ flashes[t].active
       => flashes[s].key # flashes[t].key

(* "Clears one flush after it deactivates" (link_g4b.c): when nothing is   *)
(* to be painted and the loop has nothing left to send, the array shows    *)
(* the effect alone, unless the overlay came after the turn's tick and     *)
(* went before the next (it then stays until the effect stages a frame).   *)
OverlayCleared ==
  at = "tick" /\ ~Wants /\ ~prev /\ ~pending /\ ~crossed => painted = "none"
=============================================================================
