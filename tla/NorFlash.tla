------------------------------ MODULE NorFlash ------------------------------
(***************************************************************************)
(* The external flash under the running firmware: the chip, which ignores  *)
(* every command while an erase or a program is under way                  *)
(* (apex-zmk-g4b/src/spinor_g4b.c); the one-time format of the settings    *)
(* partition, guarded by a marker (flash_spinor_g4b.c); the settings saved *)
(* there; and the ring of crash records, written by the fatal error        *)
(* handler over whatever it interrupted, and scanned at the next start     *)
(* (coredump_g4b.c).                                                       *)
(*                                                                         *)
(* Power may be cut at any step, a fault may come at any step of the       *)
(* firmware, and commands and reads may fail.  A reset leaves the chip to  *)
(* finish what it does: the bootloader takes longer than that.  How the    *)
(* flash shares its bus with the scanner is in Scanner, what the update    *)
(* keeps in it in FirmwareUpdate.                                          *)
(***************************************************************************)
EXTENDS Integers, Sequences

CONSTANTS
  Sectors,      \* the sectors of the settings partition, 1..Sectors
  Slots,        \* G4B_COREDUMP_RING_SLOTS
  SeqMod,       \* 2^16, the width of the sequence of a record
  MaxCrashes,   \* how many faults come
  MaxTrouble    \* how many commands and reads fail

(* What the constants have to be. *)
NorFlashAssumption ==
  /\ Sectors \in Nat \ {0} /\ Slots \in Nat \ {0, 1}
  /\ SeqMod \in Nat /\ SeqMod >= 2 * Slots
  /\ {MaxCrashes, MaxTrouble} \subseteq Nat

VARIABLES
  cells,        \* what the sectors hold
  busy,         \* the erase or program under way in the chip, WIP
  step,         \* what the processor is at
  ops,          \* the rest of the erases and programs it is to do
  waiting,      \* it has sent the first, and polls WIP
  cursor,       \* g4b_cd_next_slot, g4b_cd_next_seq
  last,         \* the crash of g4b_cd_last, 0 for none
  crashes,      \* history: the faults so far, which number their records
  newest,       \* history: the last crash whose record was written
  saved,        \* history: settings were saved
  early,        \* history: a fault came before the ring was scanned
  unread,       \* history: a slot of the ring could not be read
  broken,       \* history: an erase or program took too long, or the marker
                \* could not be read
  trouble       \* how many commands and reads may still fail

crashVars == <<cursor, last, crashes, newest, early, unread>>
vars == <<cells, busy, step, ops, waiting, crashVars, saved, broken, trouble>>

Nvs == {<<"nvs", s>> : s \in 1..Sectors}
Slot(s) == <<"slot", s>>
Mark == <<"mark", 0>>
Places == Nvs \cup {Mark} \cup {Slot(s) : s \in 0..Slots - 1}

\* What a sector may hold: Stale is the vendor's record, or its remains.
Blank == <<"blank">>
Stale == <<"stale">>
Torn == <<"torn">>
Data == <<"data">>
Magic == <<"magic">>
Record(seq, id) == <<"record", seq, id>>
Cells == {Blank, Stale, Torn, Data, Magic}
           \cup {Record(q, i) : q \in 0..SeqMod - 1, i \in 1..MaxCrashes}

Erase(place) == [at |-> place, value |-> Blank]
Program(place, value) == [at |-> place, value |-> value]
Ops == [at : Places, value : Cells]
None == [at |-> Mark, value |-> Torn]     \* nothing is under way

TypeOK ==
  /\ cells \in [Places -> Cells] /\ busy \in Ops
  /\ step \in {"off", "mark", "format", "scan", "run", "preflight", "dump"}
  /\ ops \in Seq(Ops) /\ waiting \in BOOLEAN
  /\ cursor \in [slot : 0..Slots - 1, seq : 0..SeqMod - 1]
  /\ {last, crashes, newest} \subseteq 0..MaxCrashes
  /\ {saved, early, unread, broken} \subseteq BOOLEAN
  /\ trouble \in 0..MaxTrouble

Unprimed == [slot |-> 0, seq |-> 1]

Init ==
  /\ cells \in {[p \in Places |-> IF p \in Nvs THEN Stale ELSE IF p = Mark THEN m ELSE Blank]
                 : m \in {Blank, Stale}}
  /\ busy = None /\ step = "off" /\ ops = <<>> /\ waiting = FALSE
  /\ cursor = Unprimed /\ last = 0 /\ crashes = 0 /\ newest = 0
  /\ saved = FALSE /\ early = FALSE /\ unread = FALSE /\ broken = FALSE
  /\ trouble = MaxTrouble

Trouble == trouble > 0 /\ trouble' = trouble - 1
-----------------------------------------------------------------------------
(* The chip. *)

\* A command: ignored while another is under way.  A program clears bits
\* only.  What it works on is torn until it is done.
Start(op) ==
  IF busy # None THEN UNCHANGED <<cells, busy>>
  ELSE /\ busy' = IF op.value = Blank \/ cells[op.at] = Blank THEN op
                  ELSE [op EXCEPT !.value = Torn]
       /\ cells' = [cells EXCEPT ![op.at] = IF @ = Stale THEN Stale ELSE Torn]

ChipEnds ==
  /\ busy # None /\ busy' = None
  /\ cells' = [cells EXCEPT ![busy.at] = busy.value]
  /\ newest' = IF Len(busy.value) = 3 THEN busy.value[3] ELSE newest
  /\ UNCHANGED <<step, ops, waiting, cursor, last, crashes, early, unread, saved,
                 broken, trouble>>
-----------------------------------------------------------------------------
(* nor_sector_erase and nor_page_program: write enable, the command, and   *)
(* the wait for WIP, bounded; g4b_spinor_dev_erase and _program end at the *)
(* first failure.                                                          *)
After == CASE step = "format" -> "scan" [] step = "dump" -> "off" [] OTHER -> step

Issue ==
  /\ ops # <<>> /\ ~waiting /\ waiting' = TRUE
  /\ Start(Head(ops))
  /\ UNCHANGED <<step, ops, crashVars, saved, broken, trouble>>

\* WIP is clear.
Done ==
  /\ waiting /\ busy = None
  /\ waiting' = FALSE /\ ops' = Tail(ops)
  /\ step' = IF Tail(ops) = <<>> THEN After ELSE step
  /\ saved' = (saved \/ Head(ops).value = Data)
  /\ newest' = IF step = "dump" /\ Tail(ops) = <<>> THEN crashes ELSE newest
  /\ UNCHANGED <<cells, busy, cursor, last, crashes, early, unread, broken, trouble>>

TimesOut ==
  /\ Trouble
  /\ waiting /\ busy # None
  /\ waiting' = FALSE /\ ops' = <<>> /\ step' = After
  /\ broken' = TRUE
  /\ UNCHANGED <<cells, busy, crashVars, saved>>
-----------------------------------------------------------------------------
(* fs_provision: the partition is erased, then the marker's sector, and    *)
(* the marker is written last.                                             *)
Format == [i \in 1..Sectors |-> Erase(<<"nvs", i>>)] \o <<Erase(Mark), Program(Mark, Magic)>>

ReadMark ==
  /\ step = "mark"
  /\ IF cells[Mark] = Magic THEN step' = "scan" /\ ops' = <<>>
                            ELSE step' = "format" /\ ops' = Format
  /\ UNCHANGED <<cells, busy, waiting, crashVars, saved, broken, trouble>>

\* A marker that cannot be read is taken for none.
MisreadMark ==
  /\ Trouble
  /\ step = "mark"
  /\ step' = "format" /\ ops' = Format
  /\ broken' = TRUE
  /\ UNCHANGED <<cells, busy, waiting, crashVars, saved>>

(* g4b_coredump_scan: the newest record by its sequence, compared at its   *)
(* width, and the cursor behind it.                                        *)
IsRecord(s) == Len(cells[Slot(s)]) = 3
Newer(a, b) == (a - b) % SeqMod < SeqMod \div 2
Best(readable) ==
  LET best[s \in 0..Slots] ==
        IF s = 0 THEN Slots
        ELSE LET b == best[s - 1]
             IN IF /\ s - 1 \in readable /\ IsRecord(s - 1)
                   /\ b = Slots \/ Newer(cells[Slot(s - 1)][2], cells[Slot(b)][2])
                THEN s - 1 ELSE b
  IN best[Slots]

Scanned(readable) ==
  LET b == Best(readable)
  IN IF b = Slots THEN cursor' = Unprimed /\ last' = 0
     ELSE /\ cursor' = [slot |-> (b + 1) % Slots, seq |-> (cells[Slot(b)][2] + 1) % SeqMod]
          /\ last' = cells[Slot(b)][3]

\* A chip that is busy answers no read.
Scan ==
  /\ step = "scan" /\ step' = "run"
  /\ Scanned(IF busy = None THEN 0..Slots - 1 ELSE {})
  /\ UNCHANGED <<cells, busy, ops, waiting, crashes, newest, early, unread, saved,
                 broken, trouble>>

ScanPartly ==
  /\ Trouble
  /\ step = "scan" /\ step' = "run"
  /\ \E s \in 0..Slots - 1 : Scanned((0..Slots - 1) \ {s})
  /\ unread' = TRUE
  /\ UNCHANGED <<cells, busy, ops, waiting, crashes, newest, early, saved, broken>>
-----------------------------------------------------------------------------
(* The settings of the running firmware: they are written to a blank       *)
(* sector, and a sector is erased when another holds them.                 *)
Write(op) ==
  /\ step = "run" /\ ops = <<>>
  /\ ops' = <<op>>
  /\ UNCHANGED <<cells, busy, step, waiting, crashVars, saved, broken, trouble>>

Save == \E p \in Nvs : cells[p] = Blank /\ Write(Program(p, Data))
Collect ==
  \E p \in Nvs : (\E q \in Nvs \ {p} : cells[q] = Data) /\ Write(Erase(p))
-----------------------------------------------------------------------------
(* k_sys_fatal_error_handler, over whatever the firmware was at: a program *)
(* that was being sent ends where it was cut.                              *)
Fault ==
  /\ crashes < MaxCrashes /\ crashes' = crashes + 1
  /\ step \in {"mark", "format", "scan", "run"}
  /\ step' = "preflight" /\ ops' = <<>> /\ waiting' = FALSE
  /\ early' = (early \/ step # "run")
  /\ \/ UNCHANGED <<cells, busy>>
     \/ /\ ops # <<>> /\ ~waiting /\ Head(ops).value # Blank
        /\ Start([Head(ops) EXCEPT !.value = Torn])
  /\ UNCHANGED <<cursor, last, newest, unread, saved, broken, trouble>>

(* Mutation of Preflight: the chip may still be busy.                      *)
PreflightAtOnce ==
  /\ step = "preflight" /\ step' = "dump"
  /\ ops' = <<Erase(Slot(cursor.slot)),
              Program(Slot(cursor.slot), Record(cursor.seq, crashes))>>
  /\ UNCHANGED <<cells, busy, waiting, crashVars, saved, broken, trouble>>

(* g4b_spinor_fault_write waits until the chip is no longer busy with what *)
(* the firmware had started.                                               *)
Preflight ==
  /\ step = "preflight" /\ busy = None
  /\ step' = "dump"
  /\ ops' = <<Erase(Slot(cursor.slot)),
              Program(Slot(cursor.slot), Record(cursor.seq, crashes))>>
  /\ UNCHANGED <<cells, busy, waiting, crashVars, saved, broken, trouble>>

PreflightFails ==
  /\ Trouble
  /\ step = "preflight" /\ step' = "off"
  /\ UNCHANGED <<cells, busy, ops, waiting, crashVars, saved, broken>>

PowerCut ==
  /\ step # "off" /\ step' = "off"
  /\ busy' = None /\ ops' = <<>> /\ waiting' = FALSE
  /\ UNCHANGED <<cells, crashVars, saved, broken, trouble>>

Boot ==
  /\ step = "off" /\ busy = None /\ step' = "mark"
  /\ cursor' = Unprimed /\ last' = 0
  /\ UNCHANGED <<cells, busy, ops, waiting, crashes, newest, early, unread, saved,
                 broken, trouble>>

Next ==
  \/ ChipEnds \/ Issue \/ Done \/ TimesOut
  \/ ReadMark \/ MisreadMark \/ Scan \/ ScanPartly \/ Save \/ Collect
  \/ Fault \/ Preflight \/ PreflightFails \/ PowerCut \/ Boot

Spec == Init /\ [][Next]_vars
-----------------------------------------------------------------------------
(* The record found at a start is that of the last crash that was written, *)
(* whatever the fault interrupted, wherever a later record was cut, and    *)
(* however often the ring and its sequence wrapped; unless a slot could    *)
(* not be read, or a fault came before the scan, whose record takes the    *)
(* first slot and the first sequence.                                      *)
CrashIsNewest == step = "run" /\ ~early /\ ~unread /\ ~broken => last = newest

(* The partition is formatted once: when the marker stands nothing of the  *)
(* vendor is left in it, wherever the format was cut; and settings that    *)
(* were saved stay, through cuts, faults and starts, unless the marker     *)
(* cannot be read (which formats it again) or an erase or program took too *)
(* long (after which the chip ignores the next, which is taken for done).  *)
SettingsKept ==
  /\ cells[Mark] = Magic => \A p \in Nvs : cells[p] # Stale
  /\ saved /\ ~broken => \E p \in Nvs : cells[p] = Data
=============================================================================
