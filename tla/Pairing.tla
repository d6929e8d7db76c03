------------------------------ MODULE Pairing ------------------------------
(***************************************************************************)
(* Pairing: the host's tool (tools/dongle.py) makes a record and writes it *)
(* to the keyboard and then to the receiver, over the USB shell of each    *)
(* (radio/src/apex_pair_shell.c), which keep it in their stores            *)
(* (apex-zmk-g4b/src/pair_g4b.c, dongle/src/pair_store.c) and load it into *)
(* their radios when these start (radio/src/apex_radio_probe.c).           *)
(*                                                                         *)
(* A record is received in pieces that bypass the shell, within five       *)
(* seconds; a work item ends a receive that takes longer.  A record is     *)
(* valid when its pieces belong together, which stands for its checksum.   *)
(***************************************************************************)
EXTENDS Integers, Sequences

CONSTANTS
  Parts,        \* the pieces of a record
  Deadline,     \* the five seconds, in ticks
  MaxRuns,      \* how often the tool is run
  MaxTrouble    \* how often the tool is stopped, a store fails, or a device
                \* restarts

(* What the constants have to be. *)
PairingAssumption ==
  /\ {Parts, Deadline, MaxRuns} \subseteq Nat \ {0} /\ MaxTrouble \in Nat

VARIABLES
  tool,         \* pair_devices: its step, the device it is at, its record,
                \* and what the devices held when it asked
  wire,         \* the pieces under way to each device
  rx,           \* the receive of each device
  answer,       \* what a device said of the record
  store,        \* the record each device keeps
  radio,        \* the record each radio runs with
  runs,         \* how many records the tool has made
  reported,     \* history: the record the tool said it had paired
  kept,         \* history: the record each device was last told to keep
  restarted,    \* history: a device was restarted since `reported`
  trouble       \* what may still go wrong

toolVars == <<tool, runs, reported>>
deviceVars == <<wire, rx, answer>>
keptVars == <<store, kept>>
radioVars == <<radio, restarted>>
vars == <<toolVars, deviceVars, keptVars, radioVars, trouble>>

Devices == {"keyboard", "receiver"}
Bonds == 1..MaxRuns
None == 0
Unreadable == -1
Noise == <<None, None>>
Pieces == (Bonds \X (1..Parts)) \cup {Noise}
Resting == [step |-> "idle", at |-> "keyboard", record |-> None,
            was |-> [d \in Devices |-> None]]
Quiet == [bypass |-> FALSE, pieces |-> <<>>, expired |-> FALSE, left |-> 0,
          scheduled |-> FALSE, running |-> FALSE]

TypeOK ==
  /\ tool \in [step : {"idle", "status", "write", "record", "saved"}, at : Devices,
               record : Bonds \cup {None}, was : [Devices -> Bonds \cup {None}]]
  /\ wire \in [Devices -> Seq(Pieces)]
  /\ rx \in [Devices -> [bypass : BOOLEAN, pieces : Seq(Pieces), expired : BOOLEAN,
                         left : 0..Deadline, scheduled : BOOLEAN, running : BOOLEAN]]
  /\ answer \in [Devices -> {"none", "saved", "error"}]
  /\ {store, kept} \subseteq [Devices -> Bonds \cup {None, Unreadable}]
  /\ radio \in [Devices -> Bonds \cup {None}] /\ restarted \in [Devices -> BOOLEAN]
  /\ runs \in 0..MaxRuns /\ reported \in Bonds \cup {None} /\ trouble \in 0..MaxTrouble

(* The pages of a new receiver hold no store.                              *)
Init ==
  /\ tool = Resting /\ runs = 0 /\ reported = None
  /\ wire = [d \in Devices |-> <<>>] /\ rx = [d \in Devices |-> Quiet]
  /\ answer = [d \in Devices |-> "none"]
  /\ store \in {[d \in Devices |-> IF d = "receiver" THEN s ELSE None]
                 : s \in {None, Unreadable}}
  /\ kept = store
  /\ radio = [d \in Devices |-> None] /\ restarted = [d \in Devices |-> FALSE]
  /\ trouble = MaxTrouble

Trouble == trouble > 0 /\ trouble' = trouble - 1
Record(b) == [i \in 1..Parts |-> <<b, i>>]

(* apex_bond_valid.                                                        *)
ValidRecord(p) == \E b \in Bonds : p = Record(b)
-----------------------------------------------------------------------------
(* The tool. *)

(* PairClient opens both ports, and clears the line of each shell; a shell *)
(* that is bypassed takes it for data.                                     *)
Open ==
  /\ tool.step = "idle"
  /\ tool' = [Resting EXCEPT !.step = "status"]
  /\ wire' = [d \in Devices |-> IF rx[d].bypass THEN Append(wire[d], Noise) ELSE wire[d]]
  /\ answer' = [d \in Devices |-> "none"]
  /\ UNCHANGED <<rx, runs, reported, keptVars, radioVars, trouble>>

ShellReady(d) == ~rx[d].bypass /\ wire[d] = <<>>

(* The states are asked for; a pair that is to be replaced needs --replace *)
(* and a store that cannot be read ends the run.                           *)
Status(replace) ==
  /\ tool.step = "status" /\ \A d \in Devices : ShellReady(d)
  /\ IF \/ \E d \in Devices : store[d] = Unreadable
        \/ \E d \in Devices : store[d] # None /\ ~replace
        \/ runs = MaxRuns
     THEN tool' = Resting /\ UNCHANGED runs
     ELSE /\ runs' = runs + 1
          /\ tool' = [tool EXCEPT !.step = "write", !.record = runs + 1, !.was = store]
  /\ UNCHANGED <<reported, deviceVars, keptVars, radioVars, trouble>>

(* `pair write`, with `replace` when the device said it was paired: the    *)
(* receive starts from nothing.                                            *)
Write ==
  LET d == tool.at
  IN /\ tool.step = "write" /\ ShellReady(d)
     /\ reported' = None
     /\ IF store[d] = Unreadable \/ (store[d] # None /\ tool.was[d] = None)
        THEN tool' = Resting /\ UNCHANGED rx
        ELSE /\ tool' = [tool EXCEPT !.step = "record"]
             /\ rx' = [rx EXCEPT ![d] = [@ EXCEPT !.bypass = TRUE, !.pieces = <<>>,
                         !.expired = FALSE, !.left = Deadline, !.scheduled = TRUE]]
     /\ UNCHANGED <<runs, wire, answer, keptVars, radioVars, trouble>>

Send ==
  /\ tool.step = "record"
  /\ tool' = [tool EXCEPT !.step = "saved"]
  /\ wire' = [wire EXCEPT ![tool.at] = @ \o Record(tool.record)]
  /\ UNCHANGED <<runs, reported, rx, answer, keptVars, radioVars, trouble>>

(* What was saved is read back, and the other device follows.              *)
Saved ==
  LET d == tool.at
      right == answer[d] = "saved" /\ store[d] = tool.record
  IN /\ tool.step = "saved" /\ answer[d] # "none" /\ ShellReady(d)
     /\ tool' = IF right /\ d = "keyboard"
                THEN [tool EXCEPT !.step = "write", !.at = "receiver"] ELSE Resting
     /\ reported' = IF right /\ d = "receiver" THEN tool.record ELSE reported
     /\ restarted' = [e \in Devices |-> restarted[e] /\ reported' = reported]
     /\ UNCHANGED <<runs, deviceVars, keptVars, radio, trouble>>

(* It is interrupted, or waits too long for an answer.                     *)
Abort ==
  /\ Trouble
  /\ tool.step # "idle" /\ tool' = Resting
  /\ UNCHANGED <<runs, reported, deviceVars, keptVars, radioVars>>
-----------------------------------------------------------------------------
(* The devices. *)

Late(d) == rx[d].expired \/ rx[d].left = 0
Ended(r) == [r EXCEPT !.bypass = FALSE, !.pieces = <<>>, !.scheduled = FALSE]
Stored(d, b) == store' = [store EXCEPT ![d] = b] /\ kept' = [kept EXCEPT ![d] = b]

(* receive_bytes: late input ends the receive, so does what is not the     *)
(* record, or more; else it is complete, or the rest is waited for.  A work*)
(* item that already runs is not cancelled.                                *)
Receive(d) ==
  LET got == Append(rx[d].pieces, Head(wire[d]))
  IN /\ wire[d] # <<>> /\ rx[d].bypass
     /\ wire' = [wire EXCEPT ![d] = Tail(@)]
     /\ \/ /\ ~Late(d) /\ Len(got) < Parts
           /\ rx' = [rx EXCEPT ![d].pieces = got]
           /\ UNCHANGED <<answer, keptVars, trouble>>
        \/ /\ ~Late(d) /\ Len(got) = Parts /\ ValidRecord(got)
           /\ rx' = [rx EXCEPT ![d] = Ended(@)]
           /\ \/ /\ Stored(d, got[1][1]) /\ answer' = [answer EXCEPT ![d] = "saved"]
                 /\ UNCHANGED trouble
              \/ /\ Trouble /\ answer' = [answer EXCEPT ![d] = "error"]
                 /\ UNCHANGED keptVars
        \/ /\ Late(d) \/ (Len(got) = Parts /\ ~ValidRecord(got))
           /\ rx' = [rx EXCEPT ![d] = Ended(@)]
           /\ answer' = [answer EXCEPT ![d] = "error"]
           /\ UNCHANGED <<keptVars, trouble>>
     /\ UNCHANGED <<toolVars, radioVars>>

\* What arrives without a bypass is a line of the shell, and no command.
Ignore(d) ==
  /\ wire[d] # <<>> /\ ~rx[d].bypass
  /\ wire' = [wire EXCEPT ![d] = Tail(@)]
  /\ UNCHANGED <<toolVars, rx, answer, keptVars, radioVars, trouble>>

Tick(d) ==
  /\ rx[d].left > 0 /\ rx' = [rx EXCEPT ![d].left = @ - 1]
  /\ UNCHANGED <<toolVars, wire, answer, keptVars, radioVars, trouble>>

\* The work queue takes the work item, which then waits for the mutex.
TimeoutStarts(d) ==
  /\ rx[d].scheduled /\ rx[d].left = 0
  /\ rx' = [rx EXCEPT ![d].scheduled = FALSE, ![d].running = TRUE]
  /\ UNCHANGED <<toolVars, wire, answer, keptVars, radioVars, trouble>>

(* Mutation of Timeout: the deadline is not looked at again.               *)
TimeoutAtOnce(d) ==
  /\ rx[d].running
  /\ rx' = [rx EXCEPT ![d].running = FALSE, ![d].expired = TRUE]
  /\ UNCHANGED <<toolVars, wire, answer, keptVars, radioVars, trouble>>

(* timeout_work: the bypass stays until the next input, which is late.     *)
Timeout(d) ==
  /\ rx[d].running
  /\ rx' = [rx EXCEPT ![d].running = FALSE, ![d].expired = @ \/ rx[d].left = 0]
  /\ UNCHANGED <<toolVars, wire, answer, keptVars, radioVars, trouble>>

(* `pair clear confirm`, by the user.                                      *)
Clear(d) ==
  /\ tool.step = "idle" /\ ShellReady(d) /\ store[d] # Unreadable
  /\ Stored(d, None) /\ reported' = None
  /\ UNCHANGED <<tool, runs, deviceVars, radioVars, trouble>>

(* receiver_pair_storage_init: only pages that hold no store are erased; a *)
(* failure of another kind is reported.                                    *)
StorageInit ==
  /\ tool.step = "idle" /\ ShellReady("receiver")
  /\ store["receiver"] = Unreadable
  /\ Stored("receiver", None)
  /\ UNCHANGED <<toolVars, deviceVars, radioVars, trouble>>

(* A device restarts; its radio loads the record once.                     *)
Restart(d) ==
  /\ Trouble
  /\ wire' = [wire EXCEPT ![d] = <<>>] /\ rx' = [rx EXCEPT ![d] = Quiet]
  /\ answer' = [answer EXCEPT ![d] = "none"]
  /\ tool' = Resting
  /\ radio' = [radio EXCEPT ![d] = IF store[d] = Unreadable THEN None ELSE store[d]]
  /\ restarted' = [restarted EXCEPT ![d] = TRUE]
  /\ UNCHANGED <<runs, reported, keptVars>>

Next ==
  \/ Open \/ (\E replace \in BOOLEAN : Status(replace)) \/ Write \/ Send \/ Saved \/ Abort
  \/ \E d \in Devices : \/ Receive(d) \/ Ignore(d) \/ Tick(d) \/ TimeoutStarts(d)
                        \/ Timeout(d) \/ Clear(d) \/ Restart(d)
  \/ StorageInit

Spec == Init /\ [][Next]_vars
-----------------------------------------------------------------------------
(* What the tool says holds: when it reported a pair, both devices keep    *)
(* its record, and once both were restarted both radios run with it,       *)
(* whatever an earlier run left on the wires or half received.             *)
PairedIsPaired ==
  reported # None =>
    /\ \A d \in Devices : store[d] = reported
    /\ \A d \in Devices : restarted[d] => radio[d] = reported

(* A receive is late only when its own five seconds are over: the work     *)
(* item of an earlier receive, which could not be cancelled any more, does *)
(* not end it.                                                             *)
OnlyLateIsLate == \A d \in Devices : rx[d].bypass /\ rx[d].expired => rx[d].left = 0

(* "Never erase a readable store": what a device keeps is a whole record   *)
(* of the tool, the last one it was told to keep, until it is told to      *)
(* clear it.                                                               *)
StoreIsKept == store = kept
=============================================================================
