---------------------------- MODULE ScannerProofs ----------------------------
(***************************************************************************)
(* Theorems about Scanner, for every set of keys and of settings and every *)
(* number of events.  The inductive invariant says who holds the bus lock, *)
(* and how often, at each place of the loop.                               *)
(***************************************************************************)
EXTENDS Scanner, TLAPS

\* A frame of thresholds is 1 or 2, two more end a replay; while a slow period is
\* being sent, the period stands there.
FrameOK == frame \in IF pc = "slow" THEN 2..3 ELSE IF pc = "replay" THEN 1..4 ELSE 1..2

TaskOK == pc = "replay" <=> task # "none"

\* The loop holds the lock during a replay that is bracketed, twice while it
\* recovers the scanner.
Recovering == pc \in {"cycle", "off"}
Holds == Recovering \/ (pc = "replay" /\ task # "raw")

BusOK ==
  /\ bus.owner = "g4b" <=> Holds
  /\ bus.owner = "nor" <=> nor = "writing"
  /\ bus.replay <=> Holds
  /\ bus.depth = IF bus.owner = "free" THEN 0 ELSE IF Recovering THEN 2 ELSE 1

\* A scanner that has lost its power comes back at full speed.
RestartsFast == (pc = "off" \/ (pc = "replay" /\ task = "recovery")) => stm.period = 1

IInv == TypeOK /\ FrameOK /\ TaskOK /\ BusOK /\ RestartsFast /\ SlowIsKnown

\* The groups of variables are seen through in every proof.
USE DEF loopVars, setVars, busVars, envVars, history

\* What the operators on the scanner, the lock and the cadence return.
LEMMA PeriodTyped ==
  ASSUME NEW s \in ScannerType, NEW p \in 1..3
  PROVE  [s EXCEPT !.period = p] \in ScannerType
  BY DEF ScannerType

LEMMA PowerTyped ==
  ASSUME NEW s \in ScannerType
  PROVE  PowerOff(s) \in ScannerType /\ Started(s) \in ScannerType /\ Stopped(s) \in ScannerType
<1>1. Forgotten \in [Frames -> Setting \cup {Unsaved}]
  BY DEF Forgotten
<1>2. PowerOff(s) \in ScannerType
  BY <1>1 DEF PowerOff, ScannerType
<1> DEFINE b == s.held # {}
<1>3. b \in BOOLEAN
  OBVIOUS
<1>4. [s EXCEPT !.running = TRUE, !.attn = b, !.period = 1] \in ScannerType
  <2> HIDE DEF b
  <2>1. [s EXCEPT !.running = TRUE] \in ScannerType
    BY DEF ScannerType
  <2>2. [[s EXCEPT !.running = TRUE] EXCEPT !.attn = b] \in ScannerType
    BY <1>3, <2>1 DEF ScannerType
  <2>3. [[[s EXCEPT !.running = TRUE] EXCEPT !.attn = b] EXCEPT !.period = 1] \in ScannerType
    <3>1. 1 \in 1..3
      OBVIOUS
    <3> QED
      BY <2>2, <3>1, PeriodTyped, Zenon
  <2>4. [s EXCEPT !.running = TRUE, !.attn = b, !.period = 1]
          = [[[s EXCEPT !.running = TRUE] EXCEPT !.attn = b] EXCEPT !.period = 1]
    BY DEF ScannerType
  <2> QED
    BY <2>3, <2>4
<1>5. Stopped(s) \in ScannerType
  BY DEF Stopped, ScannerType
<1> QED
  BY <1>2, <1>4, <1>5 DEF Started

LEMMA AttnTyped ==
  ASSUME NEW s \in ScannerType
  PROVE  [s EXCEPT !.attn = FALSE] \in ScannerType
  BY DEF ScannerType

LEMMA ConfigTyped ==
  ASSUME NEW s \in ScannerType, NEW f \in Frames, NEW v \in Setting \cup {Unsaved}
  PROVE  /\ [s EXCEPT !.config[f] = v] \in ScannerType
         /\ [s EXCEPT !.config[f] = v, !.attn = FALSE] \in ScannerType
<1>1. [s EXCEPT !.config[f] = v] \in ScannerType
  BY DEF ScannerType
<1>2. [s EXCEPT !.config[f] = v, !.attn = FALSE] = [[s EXCEPT !.config[f] = v] EXCEPT !.attn =
   FALSE]
  BY DEF ScannerType
<1> QED
  BY <1>1, <1>2, AttnTyped

LEMMA ObeyedTyped ==
  ASSUME stm \in ScannerType, setting \in Setting PROVE Obeyed \in ScannerType
<1>1. frame \in Frames => [stm EXCEPT !.config[frame] = setting] \in ScannerType
  BY ConfigTyped
<1> QED
  BY <1>1, PowerTyped, AttnTyped DEF Obeyed, Configured

\* What a frame of a replay, or one of the shell's, does to ATTN and the period.
LEMMA ObeyedValue ==
  ASSUME stm \in ScannerType, frame \in 1..4
  PROVE  /\ Obeyed.held = stm.held
         /\ Obeyed.period \in {1, stm.period}
         /\ Obeyed.running /\ ~stm.running => (Obeyed.attn <=> stm.held # {})
         /\ ~Obeyed.running \/ stm.running => Obeyed.running = stm.running
                                             /\ Obeyed.attn \in {FALSE, stm.attn}
         /\ frame # LastFrame => Obeyed.running # stm.running \/ Obeyed.attn = stm.attn
<1>1. CASE frame \in Frames
  <2>1. /\ Obeyed.held = stm.held /\ Obeyed.period = stm.period
        /\ Obeyed.running = stm.running /\ Obeyed.attn = stm.attn
    BY <1>1 DEF Obeyed, Configured, ScannerType
  <2> QED
    BY <2>1
<1>2. CASE frame = StartFrame /\ stm.running
  <2>1. Obeyed = stm
    BY <1>2 DEF Obeyed, Frames, StartFrame
  <2> QED
    BY <1>2, <2>1 DEF ScannerType
<1>3. CASE frame = StartFrame /\ ~stm.running
  <2>1. Obeyed = Started(stm)
    BY <1>3 DEF Obeyed, Frames, StartFrame
  <2>2. /\ Started(stm).held = stm.held /\ Started(stm).period = 1 /\ Started(stm).running
        /\ Started(stm).attn <=> stm.held # {}
    BY DEF Started, ScannerType
  <2> QED
    BY <1>3, <2>1, <2>2 DEF ScannerType
<1>4. CASE frame \notin Frames /\ frame # StartFrame
  <2>1. Obeyed = [stm EXCEPT !.attn = FALSE]
    BY <1>4 DEF Obeyed
  <2>2. /\ Obeyed.held = stm.held /\ Obeyed.period = stm.period
        /\ Obeyed.running = stm.running /\ Obeyed.attn = FALSE
    BY <2>1 DEF ScannerType
  <2>3. frame = LastFrame
    BY <1>4 DEF Frames, StartFrame, LastFrame
  <2> QED
    BY <2>2, <2>3
<1> QED
  BY <1>1, <1>2, <1>3, <1>4

LEMMA LockTyped ==
  ASSUME NEW b \in BusType, NEW o \in {"g4b", "nor"}, b.depth < 2
  PROVE  Lock(o, b) \in BusType /\ ReplayBegin(b) \in BusType
<1> DEFINE d == b.depth + 1
<1>1. d \in 0..2
  BY DEF BusType
<1>2. \A w \in {"g4b", "nor"} : [b EXCEPT !.owner = w, !.depth = d] \in BusType
  <2> HIDE DEF d
  <2> QED
    BY <1>1 DEF BusType
<1>3. \A w \in {"g4b", "nor"} : Lock(w, b) \in BusType
  BY <1>2 DEF Lock
<1>4. Lock("g4b", b) \in BusType
  BY <1>3
<1>5. ReplayBegin(b) \in BusType
  BY <1>4 DEF ReplayBegin, BusType
<1> QED
  BY <1>3, <1>5

LEMMA UnlockTyped ==
  ASSUME NEW b \in BusType, b.depth > 0
  PROVE  Unlock(b) \in BusType /\ ReplayEnd(b) \in BusType
<1> DEFINE d == b.depth - 1
<1> DEFINE o == IF b.depth = 1 THEN "free" ELSE b.owner
<1>1. d \in 0..2
  BY DEF BusType
<1>2. o \in {"free", "g4b", "nor"}
  BY DEF BusType
<1>3. [b EXCEPT !.owner = o, !.depth = d] \in BusType
  <2> HIDE DEF d, o
  <2> QED
    BY <1>1, <1>2 DEF BusType
<1>4. Unlock(b) \in BusType
  BY <1>3 DEF Unlock
<1>5. ReplayEnd(b) \in BusType
  BY <1>4 DEF ReplayEnd, BusType
<1> QED
  BY <1>4, <1>5

LEMMA CadenceTyped ==
  ASSUME NEW m \in Mode3Type, NEW e \in 0..3
  PROVE  /\ [m EXCEPT !.resumed = TRUE, !.expected = e] \in Mode3Type
         /\ [m EXCEPT !.slow = FALSE, !.resumed = FALSE, !.repair = FALSE, !.expected = e]
              \in Mode3Type
         /\ [m EXCEPT !.expected = e, !.disabled = TRUE, !.repair = ~m.repair,
                      !.recovery = m.repair] \in Mode3Type
         /\ [m EXCEPT !.slow = TRUE, !.resumed = FALSE, !.expected = e] \in Mode3Type
         /\ [m EXCEPT !.slow = TRUE, !.resumed = FALSE, !.repair = TRUE, !.disabled = TRUE,
                      !.expected = e] \in Mode3Type
         /\ [m EXCEPT !.slow = FALSE, !.resumed = FALSE, !.recovery = FALSE, !.expected = e]
              \in Mode3Type
<1>1. [m EXCEPT !.resumed = TRUE, !.expected = e] \in Mode3Type
  BY DEF Mode3Type
<1>2. [m EXCEPT !.slow = FALSE, !.resumed = FALSE, !.repair = FALSE, !.expected = e] \in Mode3Type
  BY DEF Mode3Type
<1>3. [m EXCEPT !.expected = e, !.disabled = TRUE, !.repair = ~m.repair, !.recovery = m.repair]
        \in Mode3Type
  <2> DEFINE b == ~m.repair
  <2> DEFINE c == m.repair
  <2>1. b \in BOOLEAN /\ c \in BOOLEAN
    BY DEF Mode3Type
  <2> HIDE DEF b, c
  <2>2. [m EXCEPT !.expected = e, !.disabled = TRUE, !.repair = b, !.recovery = c] \in Mode3Type
    BY <2>1 DEF Mode3Type
  <2> QED
    BY <2>2 DEF b, c
<1>4. [m EXCEPT !.slow = TRUE, !.resumed = FALSE, !.expected = e] \in Mode3Type
  BY DEF Mode3Type
<1>5. [m EXCEPT !.slow = TRUE, !.resumed = FALSE, !.repair = TRUE, !.disabled = TRUE,
                !.expected = e] \in Mode3Type
  BY DEF Mode3Type
<1>6. [m EXCEPT !.slow = FALSE, !.resumed = FALSE, !.recovery = FALSE, !.expected = e]
        \in Mode3Type
  BY DEF Mode3Type
<1> QED
  BY <1>1, <1>2, <1>3, <1>4, <1>5, <1>6

LEMMA RecoveredTyped ==
  ASSUME TypeOK, NEW ok \in BOOLEAN, Recovered(ok)
  PROVE  prev' \in (SUBSET Keys) \cup {NoBitmap} /\ mode3' \in Mode3Type
<1> DEFINE e == IF ok THEN 1 ELSE Unknown
<1>1. e \in 0..3
  BY DEF Unknown
<1>2. mode3' = [mode3 EXCEPT !.slow = FALSE, !.resumed = FALSE, !.recovery = FALSE, !.expected = e]
  BY DEF Recovered
<1>3. mode3' \in Mode3Type
  <2> HIDE DEF e
  <2> QED
    BY <1>1, <1>2, CadenceTyped DEF TypeOK
<1>4. prev' \in (SUBSET Keys) \cup {NoBitmap}
  BY DEF Recovered, TypeOK
<1> QED
  BY <1>3, <1>4

LEMMA ReplayedTyped ==
  ASSUME TypeOK, TaskOK, BusOK, pc = "replay", NEW ok \in BOOLEAN, Replayed(ok)
  PROVE  /\ pc' \in Places /\ task' = "none" /\ bus' \in BusType
         /\ prev' \in (SUBSET Keys) \cup {NoBitmap} /\ mode3' \in Mode3Type
         /\ dirty' \in BOOLEAN /\ request' \in RequestType
<1>1. CASE task = "boot"
  <2>1. bus.depth > 0
    BY <1>1 DEF BusOK, Holds, Recovering
  <2>2. bus' \in BusType
    BY <1>1, <2>1, UnlockTyped DEF Replayed, TypeOK
  <2> QED
    BY <1>1, <2>2 DEF Replayed, Goto, Places, TypeOK
<1>2. CASE task = "recovery"
  <2>1. bus.depth > 0
    BY <1>2 DEF BusOK, Holds, Recovering
  <2>2. bus' \in BusType
    BY <1>2, <2>1, UnlockTyped DEF Replayed, TypeOK
  <2>3. prev' \in (SUBSET Keys) \cup {NoBitmap} /\ mode3' \in Mode3Type
    BY <1>2, RecoveredTyped DEF Replayed
  <2> QED
    BY <1>2, <2>2, <2>3 DEF Replayed, Goto, Places, TypeOK
<1>3. CASE task = "raw"
  <2>1. request' \in RequestType
    BY <1>3 DEF Replayed, TypeOK, RequestType
  <2> QED
    BY <1>3, <2>1 DEF Replayed, Goto, Places, TypeOK
<1> QED
  BY <1>1, <1>2, <1>3 DEF TypeOK, TaskOK

\* Who holds the lock after it is taken or given back.
LEMMA LockValue ==
  ASSUME NEW b \in BusType, NEW o \in {"g4b", "nor"}
  PROVE  /\ Lock(o, b).owner = o /\ Lock(o, b).depth = b.depth + 1
         /\ Lock(o, b).replay <=> b.replay
         /\ ReplayBegin(b).owner = "g4b" /\ ReplayBegin(b).depth = b.depth + 1
         /\ ReplayBegin(b).replay
<1>1. Lock(o, b).owner = o /\ Lock(o, b).depth = b.depth + 1 /\ (Lock(o, b).replay <=> b.replay)
  BY DEF Lock, BusType
<1>2. ReplayBegin(b).owner = "g4b" /\ ReplayBegin(b).depth = b.depth + 1 /\ ReplayBegin(b).replay
  BY DEF ReplayBegin, Lock, BusType
<1> QED
  BY <1>1, <1>2

LEMMA UnlockValue ==
  ASSUME NEW b \in BusType
  PROVE  /\ Unlock(b).owner = IF b.depth = 1 THEN "free" ELSE b.owner
         /\ Unlock(b).depth = b.depth - 1
         /\ Unlock(b).replay <=> b.replay
         /\ ReplayEnd(b).owner = IF b.depth = 1 THEN "free" ELSE b.owner
         /\ ReplayEnd(b).depth = b.depth - 1 /\ ~ReplayEnd(b).replay
<1>1. /\ Unlock(b).owner = IF b.depth = 1 THEN "free" ELSE b.owner
      /\ Unlock(b).depth = b.depth - 1 /\ (Unlock(b).replay <=> b.replay)
  BY DEF Unlock, BusType
<1>2. /\ ReplayEnd(b).owner = IF b.depth = 1 THEN "free" ELSE b.owner
      /\ ReplayEnd(b).depth = b.depth - 1 /\ ~ReplayEnd(b).replay
  BY DEF ReplayEnd, Unlock, BusType
<1> QED
  BY <1>1, <1>2

LEMMA InitTypeOK == Init => TypeOK
<1> SUFFICES ASSUME Init PROVE TypeOK
  OBVIOUS
<1> USE ScannerAssumption DEF Init
<1>1. Forgotten \in [Frames -> Setting \cup {Unsaved}]
  BY DEF Forgotten
<1>2. stm \in ScannerType
  BY <1>1 DEF ScannerType, PowerOff
<1>3. kscan \in KscanType /\ bus \in BusType /\ request \in RequestType
  BY DEF KscanType, BusType, RequestType
<1>4. mode3 \in Mode3Type
  BY DEF Cadence, Mode3Type
<1>5. pc \in Places /\ frame \in 1..4 /\ task \in {"none", "boot", "recovery", "raw"}
  BY DEF Places
<1>6. prev \in (SUBSET Keys) \cup {NoBitmap} /\ keysDown \in BOOLEAN
  BY Zenon
<1>7. dirty \in BOOLEAN /\ due \in BOOLEAN /\ allowed \in BOOLEAN /\ missed \in BOOLEAN
      /\ unsent \in BOOLEAN /\ meddled \in BOOLEAN
  BY Zenon
<1>8. setting \in Setting /\ saved \in Setting \cup {Unsaved} /\ saving \in Setting \cup {Unsaved}
      /\ nor \in {"idle", "gate", "lock", "writing"} /\ idle \in 0..2
      /\ trouble \in [{"fault", "key", "wish"} -> Nat]
  OBVIOUS
<1> QED
  BY <1>2, <1>3, <1>4, <1>5, <1>6, <1>7, <1>8, Zenon DEF TypeOK

LEMMA NextTypeOK == IInv /\ [Next]_vars => TypeOK'
<1> SUFFICES ASSUME TypeOK, FrameOK, TaskOK, BusOK, [Next]_vars
             PROVE  TypeOK'
  BY DEF IInv
<1>1. CASE Boot
  <2>1. bus.depth < 2
    BY <1>1 DEF Boot, TypeOK, Available, BusOK, Holds, Recovering
  <2>2. bus' \in BusType
    BY <1>1, <2>1, LockTyped DEF Boot, TypeOK
  <2>3. pc' \in Places
    BY <1>1 DEF Boot, TypeOK, Goto, Places
  <2>4. frame' \in 1..4 /\ task' \in {"none", "boot", "recovery", "raw"}
    BY <1>1 DEF Boot, TypeOK
  <2> QED
    BY <1>1, <2>2, <2>3, <2>4 DEF Boot, TypeOK
<1>2. CASE Top
  <2>1. pc' \in Places
    BY <1>2 DEF Top, TypeOK, Goto, Places
  <2>2. idle' \in 0..2
    BY <1>2 DEF Top, TypeOK
  <2>3. Unknown \in 0..3
    BY <1>2 DEF Top, TypeOK, Unknown
  <2>4. [mode3 EXCEPT !.resumed = TRUE, !.expected = Unknown] \in Mode3Type
    BY <1>2, <2>3, CadenceTyped DEF Top, TypeOK
  <2>5. mode3' = mode3 \/ mode3' = [mode3 EXCEPT !.resumed = TRUE, !.expected = Unknown]
    BY <1>2 DEF Top, TypeOK
  <2>6. mode3' \in Mode3Type
    BY <1>2, <2>5, <2>4 DEF Top, TypeOK
  <2> QED
    BY <1>2, <2>1, <2>2, <2>5, <2>6 DEF Top, TypeOK
<1>3. CASE Read
  <2>1. pc' \in Places
    BY <1>3 DEF Read, TypeOK, Goto, Places
  <2>2. stm' \in ScannerType
    BY <1>3, AttnTyped DEF Read, TypeOK, TakeReport, CorruptReport, FailedReport
  <2>3. kscan' \in KscanType
    BY <1>3 DEF Read, TypeOK, TakeReport, CorruptReport, FailedReport, Ingested, KscanType,
       ScannerType
  <2>4. prev' \in (SUBSET Keys) \cup {NoBitmap}
    BY <1>3 DEF Read, TypeOK, TakeReport, CorruptReport, FailedReport, ScannerType
  <2>5. keysDown' \in BOOLEAN
    BY <1>3, Zenon DEF Read, TypeOK, TakeReport, CorruptReport, FailedReport
  <2>6. missed' \in BOOLEAN
    BY <1>3, Zenon DEF Read, TypeOK, TakeReport, CorruptReport, FailedReport
  <2>7. trouble' \in [{"fault", "key", "wish"} -> Nat]
    BY <1>3 DEF Read, TypeOK, Disturb, Calm, TakeReport, CorruptReport, FailedReport
  <2> QED
    BY <1>3, <2>1, <2>2, <2>3, <2>4, <2>5, <2>6, <2>7 DEF Read, TypeOK
<1>4. CASE Normalize
  <2>1. pc' \in Places
    BY <1>4 DEF Normalize, TypeOK, Goto, Places
  <2> QED
    BY <1>4, <2>1 DEF Normalize, TypeOK
<1>5. CASE Fast
  <2> DEFINE good == [mode3 EXCEPT !.slow = FALSE, !.resumed = FALSE, !.repair = FALSE,
                                   !.expected = 1]
  <2> DEFINE bad == [mode3 EXCEPT !.expected = Unknown, !.disabled = TRUE,
                                  !.repair = ~mode3.repair, !.recovery = mode3.repair]
  <2> DEFINE fast == [stm EXCEPT !.period = 1]
  <2>0. mode3 \in Mode3Type /\ stm \in ScannerType /\ Unknown \in 0..3 /\ 1 \in 0..3 /\ 1 \in 1..3
    BY DEF TypeOK, Unknown
  <2>1. good \in Mode3Type /\ bad \in Mode3Type
    BY <2>0, CadenceTyped, Zenon
  <2>2. fast \in ScannerType
    BY <2>0, PeriodTyped, Zenon
  <2>3. SetPeriod(1, good, bad)
    BY <1>5, Zenon DEF Fast
  <2> HIDE DEF good, bad, fast
  <2>4. stm' \in {stm, fast} /\ mode3' \in {good, bad}
    BY <2>3 DEF SetPeriod, TakesPeriod, fast
  <2>7. meddled' \in BOOLEAN
    BY <2>3, Zenon DEF SetPeriod, TakesPeriod, TypeOK
  <2>5. pc' \in Places
    BY <2>3 DEF SetPeriod, Goto, Places
  <2>6. trouble' \in [{"fault", "key", "wish"} -> Nat]
    BY <2>3 DEF SetPeriod, Disturb, Calm, TypeOK
  <2> QED
    BY <1>5, <2>1, <2>2, <2>4, <2>5, <2>6, <2>7 DEF Fast, TypeOK
<1>6. CASE Recover
  <2>1. bus.depth = 0
    BY <1>6 DEF Recover, TypeOK, Available, BusOK, Holds, Recovering, BusType
  <2>2. ReplayBegin(bus) \in BusType
    BY <1>6, <2>1, LockTyped DEF Recover, TypeOK
  <2>3. ReplayBegin(bus).depth = 1
    BY <1>6, <2>1 DEF Recover, TypeOK, ReplayBegin, Lock, BusType
  <2>4. bus' \in BusType
    BY <1>6, <2>3, <2>2, LockTyped DEF Recover, TypeOK
  <2>5. pc' \in Places
    BY <1>6 DEF Recover, TypeOK, Goto, Places
  <2> QED
    BY <1>6, <2>4, <2>5 DEF Recover, TypeOK
<1>7. CASE Cycle
  <2>1. bus.depth = 2 /\ bus.owner = "g4b"
    BY <1>7 DEF Cycle, TypeOK, BusOK, Holds, Recovering
  <2>2. Unlock(bus) \in BusType
    BY <1>7, <2>1, UnlockTyped DEF Cycle, TypeOK
  <2>3. Unlock(bus).depth = 1
    BY <1>7, <2>1 DEF Cycle, TypeOK, Unlock, BusType
  <2>4. bus' \in BusType
    BY <1>7, <2>3, <2>2, UnlockTyped DEF Cycle, TypeOK
  <2>5. stm' \in ScannerType
    BY <1>7, PowerTyped DEF Cycle, TypeOK
  <2>6. pc' \in Places
    BY <1>7 DEF Cycle, TypeOK, Goto, Places
  <2>7. trouble' \in [{"fault", "key", "wish"} -> Nat]
    BY <1>7 DEF Cycle, TypeOK, Disturb, Calm
  <2>8. meddled' \in BOOLEAN
    BY <1>7, Zenon DEF Cycle, Undone, TypeOK
  <2> QED
    BY <1>7, <2>4, <2>5, <2>6, <2>7, <2>8 DEF Cycle, TypeOK
<1>8. CASE PowerUp
  <2>1. \/ Calm /\ bus' = Unlock(bus) /\ Goto("replay") /\ frame' = 1 /\ task' = "recovery"
           /\ UNCHANGED <<prev, mode3, unsent>>
        \/ Disturb("fault") /\ bus' = ReplayEnd(Unlock(bus)) /\ Goto("top") /\ Recovered(FALSE)
           /\ unsent' = TRUE /\ UNCHANGED <<frame, task>>
    BY <1>8, Zenon DEF PowerUp
  <2>2. Unlock(bus) \in BusType /\ ReplayEnd(Unlock(bus)) \in BusType
    <3>1. bus.depth = 2
      BY <1>8 DEF PowerUp, BusOK, Holds, Recovering
    <3>2. Unlock(bus) \in BusType
      BY <3>1, UnlockTyped DEF TypeOK
    <3>3. Unlock(bus).depth = 1
      BY <3>1 DEF Unlock, TypeOK, BusType
    <3> QED
      BY <3>2, <3>3, UnlockTyped
  <2>3. stm' \in ScannerType
    BY <1>8, PowerTyped DEF PowerUp, TypeOK
  <2>4. CASE Calm /\ bus' = Unlock(bus) /\ Goto("replay") /\ frame' = 1 /\ task' = "recovery"
             /\ UNCHANGED <<prev, mode3, unsent>>
    BY <1>8, <2>2, <2>3, <2>4 DEF PowerUp, TypeOK, Calm, Goto, Places
  <2>5. CASE Disturb("fault") /\ bus' = ReplayEnd(Unlock(bus)) /\ Goto("top") /\ Recovered(FALSE)
             /\ unsent' = TRUE /\ UNCHANGED <<frame, task>>
    <3>1. prev' \in (SUBSET Keys) \cup {NoBitmap} /\ mode3' \in Mode3Type
      BY <2>5, RecoveredTyped, Zenon
    <3>2. UNCHANGED <<keysDown, kscan, setVars, nor, envVars, missed, meddled>>
      BY <1>8, Zenon DEF PowerUp
    <3> QED
      BY <2>2, <2>3, <2>5, <3>1, <3>2 DEF TypeOK, Disturb, Goto, Places
  <2> QED
    BY <2>1, <2>4, <2>5, Zenon
<1>9. CASE Replay
  <2>1. frame \in 1..4 /\ pc = "replay"
    BY <1>9 DEF Replay, FrameOK
  <2>2. trouble' \in [{"fault", "key", "wish"} -> Nat]
    <3>1. Calm \/ Disturb("fault")
      BY <1>9 DEF Replay
    <3> QED
      BY <3>1 DEF Calm, Disturb, TypeOK
  <2>3. stm' \in {stm, Obeyed}
    BY <1>9, Zenon DEF Replay
  <2>4. stm' \in ScannerType
    BY <2>3, ObeyedTyped DEF TypeOK
  <2>5. frame' \in 1..4
    <3>1. (frame # LastFrame /\ frame' = frame + 1) \/ frame' = 1
      BY <1>9, Zenon DEF Replay
    <3> QED
      BY <2>1, <3>1 DEF LastFrame
  <2>6. unsent' \in BOOLEAN /\ missed' \in BOOLEAN /\ meddled' \in BOOLEAN
    BY <1>9, Zenon DEF Replay, Undone, TypeOK
  <2>7. /\ pc' \in Places /\ task' \in {"none", "boot", "recovery", "raw"} /\ bus' \in BusType
        /\ prev' \in (SUBSET Keys) \cup {NoBitmap} /\ mode3' \in Mode3Type
        /\ dirty' \in BOOLEAN /\ request' \in RequestType
    <3>1. \/ UNCHANGED <<pc, task, bus, prev, mode3, dirty, request>>
          \/ \E ok \in BOOLEAN : Replayed(ok)
      <4>1. Expected \in BOOLEAN
        BY DEF Expected
      <4> QED
        BY <1>9, <4>1, Zenon DEF Replay
    <3> QED
      BY <2>1, <3>1, ReplayedTyped DEF TypeOK
  <2> QED
    BY <1>9, <2>2, <2>4, <2>5, <2>6, <2>7 DEF Replay, TypeOK
<1>10. CASE Service
  <2>1. pc' \in Places
    BY <1>10 DEF Service, TypeOK, Goto, Places
  <2>2. stm' \in ScannerType
    BY <1>10, PowerTyped DEF Service, TypeOK
  <2>3. missed' \in BOOLEAN /\ meddled' \in BOOLEAN
    BY <1>10, Zenon DEF Service, Undone, TypeOK
  <2>4. request' \in RequestType
    BY <1>10 DEF Service, TypeOK, RequestType
  <2> QED
    BY <1>10, <2>1, <2>2, <2>3, <2>4 DEF Service, TypeOK
<1>11. CASE ResetDone
  <2>1. pc' \in Places
    BY <1>11 DEF ResetDone, TypeOK, Goto, Places
  <2>2. stm' \in ScannerType
    BY <1>11, PowerTyped DEF ResetDone, TypeOK
  <2>3. dirty' \in BOOLEAN
    BY <1>11, Zenon DEF ResetDone, TypeOK
  <2> QED
    BY <1>11, <2>1, <2>2, <2>3 DEF ResetDone, TypeOK
<1>12. CASE Raw
  <2>1. pc' \in Places
    BY <1>12 DEF Raw, TypeOK, Goto, Places
  <2>2. stm' \in ScannerType
    <3>1. stm \in ScannerType
      BY DEF TypeOK
    <3>2. \/ stm' = stm \/ stm' = [stm EXCEPT !.attn = FALSE]
          \/ stm' = Stopped(stm) \/ stm' = Started(stm)
          \/ \E f \in Frames, value \in Setting \cup {Unsaved} :
                stm' = [stm EXCEPT !.config[f] = value]
          \/ \E period \in 1..3 : stm' = [stm EXCEPT !.period = period]
      BY <1>12, Zenon DEF Raw, RawFrame
    <3>3. [stm EXCEPT !.attn = FALSE] \in ScannerType /\ Stopped(stm) \in ScannerType
          /\ Started(stm) \in ScannerType
      BY <3>1, AttnTyped, PowerTyped
    <3>4. \A f \in Frames, value \in Setting \cup {Unsaved} :
            [stm EXCEPT !.config[f] = value] \in ScannerType
      BY <3>1, ConfigTyped
    <3>5. \A period \in 1..3 : [stm EXCEPT !.period = period] \in ScannerType
      BY <3>1, PeriodTyped
    <3> QED
      BY <3>1, <3>2, <3>3, <3>4, <3>5, Zenon
  <2>3. missed' \in BOOLEAN /\ meddled' \in BOOLEAN
    <3>1. (stm'.period > 1) \in BOOLEAN
      OBVIOUS
    <3> QED
      BY <1>12, <3>1, Zenon DEF Raw, RawFrame, TypeOK
  <2>4. frame' \in 1..4 /\ task' \in {"none", "boot", "recovery", "raw"}
    BY <1>12 DEF Raw, TypeOK
  <2> QED
    BY <1>12, <2>1, <2>2, <2>3, <2>4 DEF Raw, TypeOK
<1>13. CASE Analog
  <2>1. pc' \in Places
    BY <1>13 DEF Analog, TypeOK, Goto, Places
  <2>2. stm' \in ScannerType
    BY <1>13, AttnTyped DEF Analog, TypeOK
  <2>3. missed' \in BOOLEAN
    BY <1>13, Zenon DEF Analog, TypeOK
  <2> QED
    BY <1>13, <2>1, <2>2, <2>3 DEF Analog, TypeOK
<1>14. CASE Config
  <2>1. pc' \in Places
    BY <1>14 DEF Config, TypeOK, Goto, Places
  <2>2. frame' \in 1..4
    BY <1>14 DEF Config, TypeOK
  <2>3. dirty' \in BOOLEAN
    BY <1>14, Zenon DEF Config, TypeOK
  <2>4. unsent' \in BOOLEAN
    BY <1>14, Zenon DEF Config, TypeOK
  <2> QED
    BY <1>14, <2>1, <2>2, <2>3, <2>4 DEF Config, TypeOK
<1>15. CASE Resend
  <2>1. pc' \in Places
    BY <1>15 DEF Resend, TypeOK, Goto, Places
  <2>2. frame \in Frames /\ frame' \in 1..4
    BY <1>15 DEF Resend, TypeOK, FrameOK, Frames
  <2>3. [stm EXCEPT !.config[frame] = setting] \in ScannerType /\ [stm EXCEPT !.config[frame] =
     setting, !.attn = FALSE] \in ScannerType
    BY <1>15, <2>2, ConfigTyped DEF Resend, TypeOK
  <2>4. stm' \in ScannerType
    BY <1>15, <2>3 DEF Resend, TypeOK, Configured
  <2>5. missed' \in BOOLEAN
    BY <1>15, Zenon DEF Resend, TypeOK
  <2>6. unsent' \in BOOLEAN
    BY <1>15, Zenon DEF Resend, TypeOK
  <2>7. trouble' \in [{"fault", "key", "wish"} -> Nat]
    BY <1>15 DEF Resend, TypeOK, Disturb, Calm
  <2> QED
    BY <1>15, <2>1, <2>2, <2>4, <2>5, <2>6, <2>7 DEF Resend, TypeOK
<1>16. CASE Enter
  <2>1. pc' \in Places
    BY <1>16 DEF Enter, TypeOK, Goto, Places
  <2>2. frame' \in 1..4
    BY <1>16 DEF Enter, TypeOK, Target
  <2> QED
    BY <1>16, <2>1, <2>2 DEF Enter, TypeOK
<1>17. CASE Slow
  <2> DEFINE good == SlowSucceeded
  <2> DEFINE bad == SlowFailed
  <2> DEFINE paced == [stm EXCEPT !.period = frame]
  <2>0. mode3 \in Mode3Type /\ Unknown \in 0..3 /\ frame \in 0..3
    BY <1>17 DEF TypeOK, Unknown, Slow, FrameOK
  <2>1. good \in Mode3Type /\ bad \in Mode3Type
    BY <2>0, CadenceTyped, Zenon DEF SlowSucceeded, SlowFailed
  <2>2. paced \in ScannerType
    <3>1. frame \in 1..3 /\ stm \in ScannerType
      BY <1>17 DEF Slow, FrameOK, TypeOK
    <3> QED
      BY <3>1, PeriodTyped
  <2>3. SetPeriod(frame, good, bad)
    BY <1>17, Zenon DEF Slow
  <2> HIDE DEF good, bad, paced
  <2>4. stm' \in {stm, paced} /\ mode3' \in {good, bad}
    BY <2>3 DEF SetPeriod, TakesPeriod, paced
  <2>7. meddled' \in BOOLEAN
    BY <2>3, Zenon DEF SetPeriod, TakesPeriod, TypeOK
  <2>5. pc' \in Places
    BY <2>3 DEF SetPeriod, Goto, Places
  <2>6. trouble' \in [{"fault", "key", "wish"} -> Nat]
    BY <2>3 DEF SetPeriod, Disturb, Calm, TypeOK
  <2> QED
    BY <1>17, <2>1, <2>2, <2>4, <2>5, <2>6, <2>7 DEF Slow, TypeOK
<1>18. CASE Wait
  <2>1. pc' \in Places
    BY <1>18 DEF Wait, TypeOK, Goto, Places
  <2> QED
    BY <1>18, <2>1 DEF Wait, TypeOK
<1>19. CASE NorStart
  <2>1. nor' \in {"idle", "gate", "lock", "writing"} /\ saving' \in Setting \cup {Unsaved}
    BY <1>19 DEF NorStart, TypeOK
  <2>2. due' \in BOOLEAN
    BY <1>19, Zenon DEF NorStart, TypeOK
  <2> QED
    BY <1>19, <2>1, <2>2 DEF NorStart, TypeOK
<1>20. CASE NorGate
  <2>1. nor' \in {"idle", "gate", "lock", "writing"}
    BY <1>20 DEF NorGate, TypeOK
  <2> QED
    BY <1>20, <2>1 DEF NorGate, TypeOK
<1>21. CASE NorLock
  <2>1. bus.depth < 2
    BY <1>21 DEF NorLock, TypeOK, BusOK
  <2>2. bus' \in BusType
    BY <1>21, <2>1, LockTyped DEF NorLock, TypeOK
  <2>3. nor' \in {"idle", "gate", "lock", "writing"}
    BY <1>21 DEF NorLock, TypeOK
  <2> QED
    BY <1>21, <2>2, <2>3 DEF NorLock, TypeOK
<1>22. CASE NorDone
  <2>1. bus.depth > 0
    BY <1>22 DEF NorDone, TypeOK, BusOK, Recovering, Holds
  <2>2. bus' \in BusType
    BY <1>22, <2>1, UnlockTyped DEF NorDone, TypeOK
  <2>3. nor' \in {"idle", "gate", "lock", "writing"} /\ saved' \in Setting \cup {Unsaved} /\
     saving' \in Setting \cup {Unsaved}
    BY <1>22 DEF NorDone, TypeOK
  <2> QED
    BY <1>22, <2>2, <2>3 DEF NorDone, TypeOK
<1>23. CASE MatrixChange
  <2>1. PICK k \in Keys :
          stm' = [stm EXCEPT !.held = IF k \in @ THEN @ \ {k} ELSE @ \cup {k},
                             !.attn = @ \/ stm.running,
                             !.period = IF stm.running THEN 1 ELSE @]
    BY <1>23 DEF MatrixChange
  <2> DEFINE h == IF k \in stm.held THEN stm.held \ {k} ELSE stm.held \cup {k}
  <2> DEFINE b == stm.attn \/ stm.running
  <2> DEFINE p == IF stm.running THEN 1 ELSE stm.period
  <2>2. h \in SUBSET Keys /\ b \in BOOLEAN /\ p \in 1..3
    BY DEF TypeOK, ScannerType
  <2>3. stm' = [stm EXCEPT !.held = h, !.attn = b, !.period = p]
    BY <2>1 DEF TypeOK, ScannerType
  <2>4. stm' \in ScannerType
    <3> HIDE DEF h, b, p
    <3>1. stm' = [[[stm EXCEPT !.held = h] EXCEPT !.attn = b] EXCEPT !.period = p]
      BY <2>3
    <3>2. [stm EXCEPT !.held = h] \in ScannerType
      BY <2>2 DEF TypeOK, ScannerType
    <3>3. [[stm EXCEPT !.held = h] EXCEPT !.attn = b] \in ScannerType
      BY <2>2, <3>2 DEF ScannerType
    <3>4. [[[stm EXCEPT !.held = h] EXCEPT !.attn = b] EXCEPT !.period = p] \in ScannerType
      BY <2>2, <3>3, PeriodTyped, Zenon
    <3> QED
      BY <3>1, <3>4
  <2>5. trouble' \in [{"fault", "key", "wish"} -> Nat]
    BY <1>23 DEF MatrixChange, Disturb, TypeOK
  <2>6. meddled' \in BOOLEAN
    BY <1>23, Zenon DEF MatrixChange, Undone, TypeOK
  <2> QED
    BY <1>23, <2>4, <2>5, <2>6 DEF MatrixChange, TypeOK
<1>24. CASE Tune
  <2>1. setting' \in Setting
    BY <1>24 DEF Tune, TypeOK
  <2>2. dirty' \in BOOLEAN /\ due' \in BOOLEAN
    BY <1>24, Zenon DEF Tune, TypeOK
  <2>3. trouble' \in [{"fault", "key", "wish"} -> Nat]
    BY <1>24 DEF Tune, TypeOK, Disturb, Calm
  <2> QED
    BY <1>24, <2>1, <2>2, <2>3 DEF Tune, TypeOK
<1>25. CASE ShellRequest
  <2>1. request' \in RequestType
    BY <1>25 DEF ShellRequest, TypeOK, RequestType
  <2>2. trouble' \in [{"fault", "key", "wish"} -> Nat]
    BY <1>25 DEF ShellRequest, TypeOK, Disturb, Calm
  <2> QED
    BY <1>25, <2>1, <2>2 DEF ShellRequest, TypeOK
<1>26. CASE Surroundings
  <2>1. allowed' \in BOOLEAN
    BY <1>26, Zenon DEF Surroundings, TypeOK
  <2>2. trouble' \in [{"fault", "key", "wish"} -> Nat]
    BY <1>26 DEF Surroundings, TypeOK, Disturb, Calm
  <2> QED
    BY <1>26, <2>1, <2>2 DEF Surroundings, TypeOK
<1>27. CASE TimePasses
  <2>1. idle' \in 0..2
    BY <1>27 DEF TimePasses, TypeOK
  <2> QED
    BY <1>27, <2>1 DEF TimePasses, TypeOK
<1>28. CASE KscanEnable
  <2>1. kscan' \in KscanType
    BY <1>28 DEF KscanEnable, TypeOK, KscanType
  <2> QED
    BY <1>28, <2>1 DEF KscanEnable, TypeOK
<1>29. CASE Reset
  <2>1. stm' \in ScannerType
    BY <1>29, PowerTyped DEF Reset, TypeOK
  <2>2. pc' \in Places
    BY <1>29 DEF Reset, TypeOK, Places
  <2>3. frame' \in 1..4 /\ task' \in {"none", "boot", "recovery", "raw"}
    BY <1>29 DEF Reset, TypeOK
  <2>4. prev' \in (SUBSET Keys) \cup {NoBitmap}
    BY <1>29 DEF Reset, TypeOK
  <2>5. keysDown' \in BOOLEAN /\ due' \in BOOLEAN /\ missed' \in BOOLEAN /\ unsent' \in BOOLEAN
        /\ meddled' \in BOOLEAN
    BY <1>29, Zenon DEF Reset, TypeOK
  <2>6. dirty' \in BOOLEAN
    BY <1>29, Zenon DEF Reset, TypeOK
  <2>7. mode3' \in Mode3Type
    BY <1>29 DEF Reset, TypeOK, Cadence, Mode3Type
  <2>8. kscan' \in KscanType
    BY <1>29 DEF Reset, TypeOK, KscanType
  <2>9. setting' \in Setting /\ saving' \in Setting \cup {Unsaved}
    BY <1>29, ScannerAssumption DEF Reset, TypeOK
  <2>10. bus' \in BusType
    BY <1>29 DEF Reset, TypeOK, BusType
  <2>11. nor' \in {"idle", "gate", "lock", "writing"} /\ idle' \in 0..2
    BY <1>29 DEF Reset, TypeOK
  <2>12. request' \in RequestType
    BY <1>29 DEF Reset, TypeOK, RequestType
  <2>13. trouble' \in [{"fault", "key", "wish"} -> Nat]
    BY <1>29 DEF Reset, TypeOK, Disturb, Calm
  <2> QED
    BY <1>29, <2>1, <2>2, <2>3, <2>4, <2>5, <2>6, <2>7, <2>8, <2>9, <2>10, <2>11, <2>12, <2>13 DEF
       Reset, TypeOK
<1>30. CASE UNCHANGED vars
  BY <1>30 DEF vars, TypeOK
<1> QED
  BY <1>1, <1>2, <1>3, <1>4, <1>5, <1>6, <1>7, <1>8, <1>9, <1>10, <1>11, <1>12, <1>13, <1>14,
     <1>15, <1>16, <1>17, <1>18, <1>19, <1>20, <1>21, <1>22, <1>23, <1>24, <1>25, <1>26, <1>27,
     <1>28, <1>29, <1>30 DEF Next, Loop, Writer

LEMMA NextPlaces == IInv /\ [Next]_vars => (FrameOK /\ TaskOK /\ BusOK /\ RestartsFast /\
   SlowIsKnown)'
<1> SUFFICES ASSUME TypeOK, FrameOK, TaskOK, BusOK, RestartsFast, SlowIsKnown, [Next]_vars
             PROVE  (FrameOK /\ TaskOK /\ BusOK /\ RestartsFast /\ SlowIsKnown)'
  BY DEF IInv
<1> USE DEF FrameOK, TaskOK, BusOK, RestartsFast, SlowIsKnown, Holds, Recovering, Unknown
<1>1. CASE Boot
  <2>1. bus.owner = "free" /\ bus.depth = 0
    BY <1>1 DEF Boot, Available, TypeOK, BusType
  <2>2. bus'.owner = "g4b" /\ bus'.depth = 1 /\ bus'.replay
    BY <1>1, <2>1, LockValue DEF Boot, TypeOK
  <2> QED
    BY <1>1, <2>1, <2>2 DEF Boot, Goto
<1>2. CASE Top
  <2>1. stm.period > 1 => meddled \/ (mode3'.slow /\ mode3'.expected \in {0, stm.period})
    BY <1>2 DEF Top, TypeOK, Mode3Type
  <2> QED
    BY <1>2, <2>1 DEF Top, Goto
<1>3. CASE Read
  <2>1. stm'.period = stm.period
    BY <1>3 DEF Read, TakeReport, CorruptReport, FailedReport, TypeOK, ScannerType
  <2> QED
    BY <1>3, <2>1 DEF Read, Goto
<1>4. CASE Normalize
  BY <1>4 DEF Normalize, Goto
<1>5. CASE Fast
  <2>1. stm.period \in 1..3 /\ mode3 \in Mode3Type
    BY DEF TypeOK, ScannerType
  <2>2. CASE Calm
    <3>1. stm'.period = 1
      BY <1>5, <2>2 DEF Fast, SetPeriod, TakesPeriod, TypeOK, ScannerType, Calm, Disturb
    <3> QED
      BY <1>5, <3>1 DEF Fast, SetPeriod, Goto
  <2>3. CASE Disturb("fault")
    <3>1. stm'.period = 1 \/ (stm'.period = stm.period /\ (meddled' <=> meddled))
      BY <1>5 DEF Fast, SetPeriod, TakesPeriod, TypeOK, ScannerType
    <3>2. mode3' = [mode3 EXCEPT !.expected = Unknown, !.disabled = TRUE,
                                 !.repair = ~mode3.repair, !.recovery = mode3.repair]
      BY <1>5, <2>3 DEF Fast, SetPeriod, TypeOK, Calm, Disturb
    <3>3. (mode3'.slow <=> mode3.slow) /\ mode3'.expected = 0
      BY <2>1, <3>2 DEF Mode3Type
    <3> QED
      BY <1>5, <3>1, <3>3 DEF Fast, SetPeriod, Goto
  <2> QED
    BY <1>5, <2>2, <2>3 DEF Fast, SetPeriod
<1>6. CASE Recover
  <2>1. bus.owner = "free" /\ bus.depth = 0
    BY <1>6 DEF Recover, Available, TypeOK, BusType
  <2>2. ReplayBegin(bus) \in BusType /\ ReplayBegin(bus).depth = 1 /\ ReplayBegin(bus).replay
    BY <2>1, LockTyped, LockValue DEF TypeOK
  <2>3. bus'.owner = "g4b" /\ bus'.depth = 2 /\ bus'.replay
    BY <1>6, <2>2, LockValue DEF Recover
  <2> QED
    BY <1>6, <2>1, <2>3 DEF Recover, Goto
<1>7. CASE Cycle
  <2>1. bus.owner = "g4b" /\ bus.depth = 2 /\ bus.replay /\ nor # "writing"
    BY <1>7 DEF Cycle
  <2>2. CASE stm.attn
    <3>1. Unlock(bus) \in BusType /\ Unlock(bus).depth = 1
      BY <2>1, UnlockTyped, UnlockValue DEF TypeOK
    <3>2. bus' = ReplayEnd(Unlock(bus))
      BY <1>7, <2>2 DEF Cycle
    <3>3. bus'.owner = "free" /\ bus'.depth = 0 /\ ~bus'.replay
      BY <3>1, <3>2, UnlockValue
    <3>4. stm' = stm /\ (meddled' <=> meddled /\ stm.period > 1) /\ stm.period \in 1..3
      BY <1>7, <2>2 DEF Cycle, Undone, TypeOK, ScannerType
    <3>5. pc' = "top" /\ pc = "cycle" /\ UNCHANGED <<frame, task, mode3, nor>>
      BY <1>7, <2>2 DEF Cycle, Goto
    <3> QED
      BY <2>1, <3>3, <3>4, <3>5
  <2>3. CASE ~stm.attn
    <3>1. stm'.period = 1
      BY <1>7, <2>3 DEF Cycle, PowerOff
    <3> QED
      BY <1>7, <2>1, <2>3, <3>1 DEF Cycle, Goto
  <2> QED
    BY <2>2, <2>3
<1>8. CASE PowerUp
  <2>1. bus.owner = "g4b" /\ bus.depth = 2 /\ bus.replay /\ nor # "writing"
    BY <1>8 DEF PowerUp
  <2>2. stm'.period = 1
    BY <1>8 DEF PowerUp
  <2>3. Unlock(bus) \in BusType /\ Unlock(bus).depth = 1 /\ Unlock(bus).owner = "g4b"
        /\ Unlock(bus).replay
    BY <2>1, UnlockTyped, UnlockValue DEF TypeOK
  <2>4. \/ bus' = Unlock(bus) /\ pc' = "replay" /\ frame' = 1 /\ task' = "recovery"
        \/ bus' = ReplayEnd(Unlock(bus)) /\ pc' = "top" /\ UNCHANGED <<frame, task>>
    BY <1>8, Zenon DEF PowerUp, Goto
  <2>5. ReplayEnd(Unlock(bus)).owner = "free" /\ ReplayEnd(Unlock(bus)).depth = 0
        /\ ~ReplayEnd(Unlock(bus)).replay
    BY <2>3, UnlockValue
  <2>6. pc = "off" /\ nor' = nor
    BY <1>8 DEF PowerUp
  <2> QED
    BY <2>1, <2>2, <2>3, <2>4, <2>5, <2>6
<1>9. CASE Replay
  <2>1. /\ pc = "replay" /\ frame \in 1..4 /\ nor' = nor
        /\ stm'.period = 1 \/ (stm'.period = stm.period /\ (meddled' <=> meddled))
    <3>1. stm' \in {stm, Obeyed} /\ pc = "replay" /\ nor' = nor
          /\ (meddled' <=> meddled /\ stm'.period > 1)
      BY <1>9, Zenon DEF Replay, Undone
    <3>2. stm'.period \in {1, stm.period}
      BY <3>1, ObeyedValue DEF TypeOK
    <3>3. stm.period \in 1..3
      BY DEF TypeOK, ScannerType
    <3> QED
      BY <3>1, <3>2, <3>3
  <2>2. \/ frame' \in 1..4 /\ UNCHANGED <<pc, task, bus, prev, mode3, dirty, request>>
        \/ frame' = 1 /\ \E ok \in BOOLEAN : Replayed(ok)
    <3>1. Expected \in BOOLEAN
      BY DEF Expected
    <3>2. \/ frame # LastFrame /\ frame' = frame + 1
              /\ UNCHANGED <<pc, task, bus, prev, mode3, dirty, request>>
          \/ frame' = 1 /\ \E ok \in BOOLEAN : Replayed(ok)
      BY <1>9, <3>1, Zenon DEF Replay
    <3> QED
      BY <2>1, <3>2 DEF LastFrame
  <2>3. CASE frame' \in 1..4 /\ UNCHANGED <<pc, task, bus, prev, mode3, dirty, request>>
    BY <2>1, <2>3
  <2>4. ASSUME NEW ok \in BOOLEAN, frame' = 1, Replayed(ok)
        PROVE  (FrameOK /\ TaskOK /\ BusOK /\ RestartsFast /\ SlowIsKnown)'
    <3>1. CASE task = "boot"
      <4>1. bus'.owner = "free" /\ bus'.depth = 0 /\ ~bus'.replay
        BY <2>1, <2>4, <3>1, UnlockValue DEF Replayed, TypeOK
      <4> QED
        BY <2>1, <2>4, <3>1, <4>1 DEF Replayed, Goto
    <3>2. CASE task = "recovery"
      <4>1. bus'.owner = "free" /\ bus'.depth = 0 /\ ~bus'.replay
        BY <2>1, <2>4, <3>2, UnlockValue DEF Replayed, TypeOK
      <4>2. pc' = "top" /\ task' = "none"
        BY <2>4, <3>2 DEF Replayed, Goto
      <4>3. stm'.period = 1
        BY <2>1, <3>2
      <4> QED
        BY <2>1, <2>4, <3>2, <4>1, <4>2, <4>3
    <3>3. CASE task = "raw"
      BY <2>1, <2>4, <3>3 DEF Replayed, Goto
    <3> QED
      BY <2>1, <3>1, <3>2, <3>3 DEF TypeOK
  <2> QED
    BY <2>2, <2>3, <2>4
<1>10. CASE Service
  <2>1. stm'.period = 1 \/ (stm'.period = stm.period /\ (meddled' <=> meddled))
    <3>1. meddled' <=> meddled /\ stm'.period > 1
      BY <1>10 DEF Service, Undone
    <3>2. stm' \in {stm, PowerOff(stm)}
      BY <1>10 DEF Service
    <3>3. stm'.period \in {1, stm.period}
      BY <3>2 DEF PowerOff
    <3> QED
      BY <3>1, <3>3 DEF TypeOK, ScannerType
  <2>2. pc' \in {"resetting", "raw", "light"}
    BY <1>10 DEF Service, Goto
  <2> QED
    BY <1>10, <2>1, <2>2 DEF Service
<1>11. CASE ResetDone
  <2>1. stm'.period \in {1, stm.period}
    BY <1>11 DEF ResetDone, Started, TypeOK, ScannerType
  <2> QED
    BY <1>11, <2>1 DEF ResetDone, Goto
<1>12. CASE Raw
  <2>1. \/ stm'.period = stm.period /\ (meddled' <=> meddled)
        \/ stm'.period = 1
        \/ stm'.period > 1 /\ meddled'
    <3>1. stm \in ScannerType /\ RawFrame
      BY <1>12 DEF TypeOK, Raw
    <3>2. Stopped(stm).period = stm.period /\ Started(stm).period = 1
          /\ [stm EXCEPT !.attn = FALSE].period = stm.period
          /\ \A f, v : [stm EXCEPT !.config[f] = v].period = stm.period
      BY <3>1 DEF Stopped, Started, ScannerType
    <3>3. \A p \in 1..3 : [stm EXCEPT !.period = p].period = p
      BY <3>1 DEF ScannerType
    <3>4. \/ (meddled' <=> meddled)
             /\ \/ stm' = stm \/ stm' = [stm EXCEPT !.attn = FALSE] \/ stm' = Stopped(stm)
                \/ \E f, v : stm' = [stm EXCEPT !.config[f] = v]
          \/ stm' = Started(stm)
          \/ (meddled' <=> stm'.period > 1)
             /\ \E p \in 1..3 : stm' = [stm EXCEPT !.period = p]
      BY <3>1, Zenon DEF RawFrame
    <3>5. CASE (meddled' <=> meddled) /\ \E f, v : stm' = [stm EXCEPT !.config[f] = v]
      <4>1. PICK f, v : stm' = [stm EXCEPT !.config[f] = v]
        BY <3>5
      <4>2. stm'.period = stm.period
        BY <3>1, <4>1 DEF ScannerType
      <4> QED
        BY <3>5, <4>2
    <3>6. CASE (meddled' <=> stm'.period > 1) /\ \E p \in 1..3 : stm' = [stm EXCEPT !.period = p]
      <4>1. stm'.period \in 1..3
        BY <3>3, <3>6, Zenon
      <4> QED
        BY <3>6, <4>1
    <3>7. CASE (meddled' <=> meddled)
               /\ (stm' = stm \/ stm' = [stm EXCEPT !.attn = FALSE] \/ stm' = Stopped(stm))
      BY <3>2, <3>7
    <3>8. CASE stm' = Started(stm)
      BY <3>2, <3>8
    <3> QED
      BY <3>4, <3>5, <3>6, <3>7, <3>8, Zenon
  <2> QED
    BY <1>12, <2>1 DEF Raw, Goto
<1>13. CASE Analog
  <2>1. stm'.period = stm.period
    BY <1>13 DEF Analog, TypeOK, ScannerType
  <2> QED
    BY <1>13, <2>1 DEF Analog, Goto
<1>14. CASE Config
  BY <1>14 DEF Config, Goto
<1>15. CASE Resend
  <2>1. stm'.period = stm.period
    BY <1>15 DEF Resend, Configured, TypeOK, ScannerType
  <2> QED
    BY <1>15, <2>1 DEF Resend, Goto
<1>16. CASE Enter
  <2>1. Target \in 1..3
    BY DEF Target, TypeOK
  <2> QED
    BY <1>16, <2>1 DEF Enter, Goto
<1>17. CASE Slow
  <2>1. stm.period \in 1..3 /\ mode3 \in Mode3Type /\ pc = "slow" /\ frame \in 2..3
    BY <1>17 DEF TypeOK, ScannerType, Slow
  <2>2. stm' \in {stm, [stm EXCEPT !.period = frame]} /\ mode3' \in {SlowSucceeded, SlowFailed}
    BY <1>17 DEF Slow, SetPeriod, TakesPeriod
  <2>3. stm'.period \in {stm.period, frame}
    BY <2>2 DEF TypeOK, ScannerType
  <2>4. SlowSucceeded.slow /\ SlowSucceeded.expected = frame
    BY <2>1 DEF SlowSucceeded, Mode3Type
  <2>5. SlowFailed.slow /\ SlowFailed.expected = 0
    BY <2>1 DEF SlowFailed, Mode3Type
  <2>6. CASE Calm
    <3>1. mode3' = SlowSucceeded /\ stm' = [stm EXCEPT !.period = frame]
      BY <1>17, <2>6 DEF Slow, SetPeriod, TakesPeriod, Calm, Disturb, TypeOK
    <3>2. stm'.period = frame
      BY <3>1 DEF TypeOK, ScannerType
    <3> QED
      BY <1>17, <2>1, <2>4, <3>1, <3>2 DEF Slow, SetPeriod, Goto
  <2>7. CASE Disturb("fault")
    <3>1. mode3' = SlowFailed
      BY <1>17, <2>7 DEF Slow, SetPeriod, Calm, Disturb, TypeOK
    <3> QED
      BY <1>17, <2>1, <2>3, <2>5, <3>1 DEF Slow, SetPeriod, Goto
  <2> QED
    BY <1>17, <2>6, <2>7 DEF Slow, SetPeriod
<1>18. CASE Wait
  BY <1>18 DEF Wait, Goto
<1>19. CASE NorStart
  BY <1>19 DEF NorStart
<1>20. CASE NorGate
  BY <1>20 DEF NorGate
<1>21. CASE NorLock
  <2>1. bus.depth = 0 /\ ~bus.replay
    BY <1>21 DEF NorLock
  <2>2. bus'.owner = "nor" /\ bus'.depth = 1 /\ ~bus'.replay
    BY <1>21, <2>1, LockValue DEF NorLock, TypeOK
  <2> QED
    BY <1>21, <2>2 DEF NorLock
<1>22. CASE NorDone
  <2>1. bus.depth = 1 /\ ~bus.replay /\ bus.owner = "nor"
    BY <1>22 DEF NorDone
  <2>2. bus'.owner = "free" /\ bus'.depth = 0 /\ ~bus'.replay
    BY <1>22, <2>1, UnlockValue DEF NorDone, TypeOK
  <2> QED
    BY <1>22, <2>1, <2>2 DEF NorDone
<1>23. CASE MatrixChange
  <2>1. stm'.period = 1 \/ (stm'.period = stm.period /\ (meddled' <=> meddled))
    <3>1. stm'.period \in {1, stm.period} /\ (meddled' <=> meddled /\ stm'.period > 1)
      BY <1>23 DEF MatrixChange, Undone, TypeOK, ScannerType
    <3> QED
      BY <3>1 DEF TypeOK, ScannerType
  <2> QED
    BY <1>23, <2>1 DEF MatrixChange
<1>24. CASE Tune
  BY <1>24 DEF Tune
<1>25. CASE ShellRequest
  BY <1>25 DEF ShellRequest
<1>26. CASE Surroundings
  BY <1>26 DEF Surroundings
<1>27. CASE TimePasses
  BY <1>27 DEF TimePasses
<1>28. CASE KscanEnable
  BY <1>28 DEF KscanEnable
<1>29. CASE Reset
  <2>1. stm'.period = 1
    BY <1>29 DEF Reset, PowerOff
  <2> QED
    BY <1>29, <2>1 DEF Reset
<1>30. CASE UNCHANGED vars
  BY <1>30 DEF vars
<1> QED
  BY <1>1, <1>2, <1>3, <1>4, <1>5, <1>6, <1>7, <1>8, <1>9, <1>10, <1>11, <1>12, <1>13, <1>14,
     <1>15, <1>16, <1>17, <1>18, <1>19, <1>20, <1>21, <1>22, <1>23, <1>24, <1>25, <1>26, <1>27,
     <1>28, <1>29, <1>30 DEF Next, Loop, Writer

LEMMA InitIInv == Init => IInv
<1> SUFFICES ASSUME Init PROVE IInv
  OBVIOUS
<1>1. FrameOK /\ TaskOK /\ BusOK /\ RestartsFast /\ SlowIsKnown
  BY DEF Init, FrameOK, TaskOK, BusOK, RestartsFast, SlowIsKnown, Holds, Recovering, PowerOff
<1> QED
  BY <1>1, InitTypeOK DEF IInv

LEMMA NextIInv == IInv /\ [Next]_vars => IInv'
  BY NextTypeOK, NextPlaces DEF IInv

LEMMA Invariance == Spec => []IInv
  BY InitIInv, NextIInv, PTL DEF Spec

(* The scanner's state has its types (TypeOK): the recursive lock is never   *)
(* taken three times nor given back by who does not hold it.                 *)
THEOREM TypesHold == Spec => []TypeOK
<1>1. IInv => TypeOK
  BY DEF IInv
<1> QED
  BY <1>1, Invariance, PTL

(* A scanner that is slow is known to be slow (SlowIsKnown), whatever frame  *)
(* failed, with or without effect, and whenever a key or a reset came; only  *)
(* a period the shell sent past the loop is excepted.                        *)
THEOREM SlowScannerIsKnown == Spec => []SlowIsKnown
<1>1. IInv => SlowIsKnown
  BY DEF IInv
<1> QED
  BY <1>1, Invariance, PTL

(* No flash writer is on the bus between two frames of a bracketed replay     *)
(* (ReplayUndisturbed).                                                      *)
THEOREM ReplayIsUndisturbed == Spec => []ReplayUndisturbed
<1>1. IInv => ReplayUndisturbed
  BY DEF IInv, BusOK, Holds, Recovering, ReplayUndisturbed
<1> QED
  BY <1>1, Invariance, PTL
(* What the loop and ZMK were told of the keys: a loop that takes no key to  *)
(* be down has told ZMK so, and only such a loop cuts the scanner's power;   *)
(* what changes while the scanner does not run is reported when it does, and  *)
(* only a running scanner has a report to read.                              *)
Told ==
  /\ keysDown \/ missed \/ kscan.previous = {}
  /\ pc \in {"recover", "cycle"} => ~keysDown
  /\ ~stm.running => missed \/ kscan.previous = {}
  /\ stm.attn \/ pc = "read" => stm.running
  /\ pc = "resetting" => ~stm.running
  /\ KeysAgree

(* Nothing of the keys moves.                                                *)
LEMMA ToldStays ==
  ASSUME Told, stm'.held = stm.held, stm'.attn = stm.attn, stm'.running = stm.running,
         UNCHANGED <<keysDown, missed, kscan>>,
         pc' \in {"recover", "cycle"} => ~keysDown,
         pc' = "read" => stm.attn, pc' # "resetting"
  PROVE  Told'
  BY DEF Told, KeysAgree

(* Init: no key is down.                                                     *)
LEMMA InitTold == Init => Told
  BY DEF Init, Told, KeysAgree, PowerOff

(* A report: ZMK is told what the scanner answers, or it counts as missed.   *)
LEMMA ReadTold == TypeOK /\ Told /\ Read => Told'
<1> SUFFICES ASSUME TypeOK, Told, Read PROVE Told'
  OBVIOUS
<1>1. pc' = "top" /\ stm.running
  BY DEF Read, Goto, Told
<1>2. CASE TakeReport
  <2>1. stm'.held = stm.held /\ stm'.running /\ ~stm'.attn
    BY <1>1, <1>2 DEF TakeReport, TypeOK, ScannerType
  <2>2. (keysDown' <=> stm.held # {}) /\ (missed' <=> kscan'.previous # stm.held)
    BY <1>2 DEF TakeReport
  <2> QED
    BY <1>1, <2>1, <2>2 DEF Told, KeysAgree
<1>3. CASE CorruptReport
  <2>1. stm'.running /\ missed' /\ keysDown'
    BY <1>1, <1>3 DEF CorruptReport, TypeOK, ScannerType
  <2> QED
    BY <1>1, <2>1 DEF Told, KeysAgree
<1>4. CASE FailedReport
  <2>1. stm'.running /\ keysDown' = keysDown /\ kscan' = kscan
        /\ (missed' \/ (missed' = missed /\ stm' = stm))
    BY <1>1, <1>4 DEF FailedReport, TypeOK, ScannerType
  <2> QED
    BY <1>1, <2>1 DEF Told, KeysAgree
<1> QED
  BY <1>2, <1>3, <1>4 DEF Read

(* A step that may take a report away says so.                               *)
LEMMA TakingTold ==
  ASSUME Told, stm'.held = stm.held, missed => missed', UNCHANGED <<keysDown, kscan>>,
         stm'.running = stm.running, stm'.attn = stm.attn \/ (missed' /\ ~stm'.attn),
         pc' \notin {"recover", "cycle", "read", "resetting"}
  PROVE  Told'
  BY DEF Told, KeysAgree

LEMMA AnalogTold ==
  ASSUME TypeOK, Told, Analog \/ Resend PROVE Told'
<1>1. pc' \notin {"recover", "cycle", "read", "resetting"} /\ UNCHANGED <<keysDown, kscan>>
  BY DEF Analog, Resend, Goto
<1>2. /\ stm'.held = stm.held /\ stm'.running = stm.running
      /\ stm'.attn = stm.attn \/ (missed' /\ ~stm'.attn)
  BY DEF Analog, Resend, Configured, TypeOK, ScannerType
<1>3. missed => missed'
  BY DEF Analog, Resend
<1> QED
  BY <1>1, <1>2, <1>3, TakingTold

(* The scanner is started: it reports the keys it finds, or there are none.  *)
LEMMA StartTold ==
  ASSUME TypeOK, Told, ~stm.running, stm' = Started(stm),
         UNCHANGED <<keysDown, missed, kscan>>, pc' \notin {"recover", "cycle", "read", "resetting"}
  PROVE  Told'
<1>1. stm'.running /\ stm'.held = stm.held /\ (stm'.attn <=> stm.held # {})
  BY DEF Started, TypeOK, ScannerType
<1> QED
  BY <1>1 DEF Told, KeysAgree

(* The frames of the shell and of a replay.                                  *)
LEMMA RawTold == TypeOK /\ Told /\ Raw => Told'
<1> SUFFICES ASSUME TypeOK, Told, Raw PROVE Told'
  OBVIOUS
<1>1. pc' = "replay" /\ UNCHANGED <<keysDown, kscan>> /\ RawFrame
  BY DEF Raw, Goto
<1>2. CASE /\ stm'.held = stm.held /\ stm'.running = stm.running /\ (missed => missed')
           /\ stm'.attn = stm.attn \/ (missed' /\ ~stm'.attn)
  BY <1>1, <1>2, TakingTold
<1>3. CASE stm' = [stm EXCEPT !.attn = FALSE] /\ missed' = (missed \/ stm.attn)
  <2>1. stm'.held = stm.held /\ stm'.running = stm.running /\ ~stm'.attn
    BY <1>3 DEF TypeOK, ScannerType
  <2> QED
    BY <1>1, <1>3, <2>1 DEF Told, KeysAgree
<1>4. CASE stm' = Stopped(stm) /\ missed' = (missed \/ stm.attn \/ stm.held # {})
  <2>1. stm'.held = stm.held /\ ~stm'.running /\ ~stm'.attn
    BY <1>4 DEF Stopped, TypeOK, ScannerType
  <2> QED
    BY <1>1, <1>4, <2>1 DEF Told, KeysAgree
<1>5. CASE ~stm.running /\ stm' = Started(stm) /\ UNCHANGED missed
  BY <1>1, <1>5, StartTold
<1> QED
  BY <1>1, <1>2, <1>3, <1>4, <1>5 DEF RawFrame, TypeOK, ScannerType

LEMMA ReplayTold == TypeOK /\ FrameOK /\ TaskOK /\ Told /\ Replay => Told'
<1> SUFFICES ASSUME TypeOK, FrameOK, TaskOK, Told, Replay PROVE Told'
  OBVIOUS
<1>1. frame \in 1..4
  BY DEF Replay, FrameOK
<1>2. pc' \in {"replay", "top", "light"}
  <2>1. UNCHANGED pc \/ \E ok : Replayed(ok)
    BY DEF Replay
  <2> QED
    BY <2>1 DEF Replay, Replayed, Goto, TypeOK, TaskOK
<1>3. UNCHANGED <<keysDown, kscan>> /\ stm' \in {stm, Obeyed}
      /\ (missed' <=> missed \/ (frame = LastFrame /\ stm.attn /\ ~stm'.attn))
  BY Zenon DEF Replay
<1>4. CASE stm' = stm
  <2>1. missed' <=> missed
    BY <1>3, <1>4
  <2> QED
    BY <1>2, <1>3, <1>4, <2>1 DEF Told, KeysAgree
<1>5. CASE stm' = Obeyed /\ ~stm.running /\ Obeyed.running
  BY <1>1, <1>2, <1>3, <1>5, ObeyedValue DEF Told, KeysAgree, TypeOK
<1>6. CASE stm' = Obeyed /\ (stm.running \/ ~Obeyed.running)
  BY <1>1, <1>2, <1>3, <1>6, ObeyedValue DEF Told, KeysAgree, TypeOK
<1> QED
  BY <1>3, <1>4, <1>5, <1>6

(* The power goes, in a recovery or in a reset of the shell's, and comes back.*)
LEMMA PowerTold ==
  ASSUME TypeOK, Told, Cycle \/ PowerUp \/ Service \/ ResetDone \/ Reset PROVE Told'
<1>1. CASE Cycle
  <2>1. CASE stm'  = stm
    BY <1>1, <2>1 DEF Cycle, Goto, Told, KeysAgree
  <2>2. CASE stm' # stm
    BY <1>1, <2>2 DEF Cycle, Goto, PowerOff, Told, KeysAgree
  <2> QED BY <2>1, <2>2
<1>2. CASE PowerUp
  BY <1>2 DEF PowerUp, Goto, Told, KeysAgree
<1>3. CASE Service
  <2>1. CASE request.reset
    <3>1. /\ pc' = "resetting" /\ (missed' <=> missed \/ stm.attn \/ stm.held # {})
          /\ UNCHANGED <<keysDown, kscan>> /\ stm' = PowerOff(stm)
      BY <1>3, <2>1 DEF Service, Goto
    <3>4. ~stm'.running /\ ~stm'.attn
      BY <3>1 DEF PowerOff
    <3>2. ~missed' => kscan.previous = {}
      BY <3>1 DEF Told, KeysAgree
    <3> QED
      BY <3>1, <3>2, <3>4 DEF Told, KeysAgree
  <2>2. CASE ~request.reset
    BY <1>3, <2>2 DEF Service, Goto, Told, KeysAgree
  <2> QED
    BY <2>1, <2>2
<1>4. CASE ResetDone
  <2>1. pc' \in {"raw", "light"} /\ UNCHANGED <<keysDown, missed, kscan>>
    BY <1>4 DEF ResetDone, Goto
  <2>2. CASE stm' = stm
    BY <2>1, <2>2 DEF Told, KeysAgree
  <2>3. CASE stm' = Started(stm)
    <3>1. stm'.running /\ stm'.held = stm.held /\ (stm'.attn <=> stm.held # {})
      BY <2>3 DEF Started, TypeOK, ScannerType
    <3>2. missed \/ kscan.previous = {}
      BY <1>4 DEF ResetDone, Told
    <3> QED
      BY <1>4, <2>1, <3>1, <3>2 DEF Told, KeysAgree
  <2> QED
    BY <1>4, <2>2, <2>3 DEF ResetDone
<1>5. CASE Reset
  <2>1. /\ kscan'.previous = {} /\ ~stm'.running /\ ~stm'.attn
        /\ pc' = "boot"
    BY <1>5 DEF Reset, PowerOff
  <2> QED
    BY <2>1 DEF Told, KeysAgree
<1> QED
  BY <1>1, <1>2, <1>3, <1>4, <1>5

(* The other steps of the loop exchange no report.                           *)
LEMMA LoopTold ==
  ASSUME TypeOK, Told,
         Boot \/ Top \/ Normalize \/ Fast \/ Recover \/ Config \/ Enter \/ Slow \/ Wait
  PROVE  Told'
<1>1. UNCHANGED <<keysDown, missed, kscan>>
  BY DEF Boot, Top, Normalize, Fast, Recover, Config, Enter, Slow, Wait
<1>2. stm'.held = stm.held /\ stm'.attn = stm.attn /\ stm'.running = stm.running
  <2>1. CASE Fast \/ Slow
    BY <2>1 DEF Fast, Slow, SetPeriod, TakesPeriod, TypeOK, ScannerType
  <2>2. CASE ~(Fast \/ Slow)
    BY <2>2 DEF Boot, Top, Normalize, Recover, Config, Enter, Wait
  <2> QED
    BY <2>1, <2>2
<1>3. (pc' = "read" => stm.attn) /\ (pc' \in {"recover", "cycle"} => ~keysDown)
      /\ pc' # "resetting"
  <2>1. CASE Boot \/ Top \/ Config \/ Enter \/ Wait
    BY <2>1 DEF Boot, Top, Config, Enter, Wait, Goto
  <2>2. CASE Normalize
    BY <2>2 DEF Normalize, Goto
  <2>3. CASE Recover
    BY <2>3 DEF Recover, Goto, Told
  <2>4. CASE Fast \/ Slow
    BY <2>4 DEF Fast, Slow, SetPeriod, Goto
  <2> QED
    BY <2>1, <2>2, <2>3, <2>4
<1> QED
  BY <1>1, <1>2, <1>3, ToldStays

LEMMA NextTold == IInv /\ Told /\ [Next]_vars => Told'
<1> SUFFICES ASSUME TypeOK, FrameOK, TaskOK, Told, [Next]_vars PROVE Told'
  BY DEF IInv
<1>1. CASE Loop
  BY <1>1, ReadTold, AnalogTold, RawTold, ReplayTold, PowerTold, LoopTold DEF Loop
<1>2. CASE MatrixChange
  <2>1. stm'.running = stm.running /\ (stm'.attn <=> stm.attn \/ stm.running)
    BY <1>2 DEF MatrixChange, TypeOK, ScannerType
  <2>2. UNCHANGED <<pc, keysDown, missed, kscan>>
    BY <1>2 DEF MatrixChange
  <2> QED
    BY <2>1, <2>2 DEF Told, KeysAgree
<1>3. CASE KscanEnable
  BY <1>3 DEF KscanEnable, Told, KeysAgree, TypeOK, KscanType
<1>4. CASE Reset
  BY <1>4, PowerTold
<1>5. CASE Writer \/ Tune \/ ShellRequest \/ Surroundings \/ TimePasses \/ UNCHANGED vars
  BY <1>5 DEF Writer, NorStart, NorGate, NorLock, NorDone, Tune, ShellRequest, Surroundings,
              TimePasses, vars, Told, KeysAgree
<1> QED
  BY <1>1, <1>2, <1>3, <1>4, <1>5 DEF Next

(* While the scanner runs and no report waits, ZMK holds the keys that are    *)
(* down (KeysAgree): what was pressed or released while the scanner had no   *)
(* power, a frame failed or the cadence changed is made up for, for any      *)
(* number of keys and of faults.                                             *)
THEOREM KeysAreKnown == Spec => []KeysAgree
<1>1. Told => KeysAgree
  BY DEF Told
<1>2. IInv /\ Told /\ [Next]_vars => (IInv /\ Told)'
  BY NextIInv, NextTold
<1> QED
  BY <1>1, <1>2, InitIInv, InitTold, PTL DEF Spec
=============================================================================
