----------------------------- MODULE ShellLink ------------------------------
(***************************************************************************)
(* The maintenance traffic over the radio: the dongle's "keyboard" command *)
(* (dongle/src/keyboard_shell.c), its firmware upload (dongle/src/update.c)*)
(* and its Studio bridge (dongle/src/studio_bridge.c) all talk to the      *)
(* keyboard's shell backend (apex-zmk-g4b/src/shell_radio_g4b.c) and       *)
(* Studio transport (studio_radio_g4b.c) through one stream at each end,   *)
(* which radio/src/apex_shell_link.c guards with a lock and a generation.  *)
(*                                                                         *)
(* Threads: the radio thread of each end; on the dongle the shell (a       *)
(* command or an upload, called a job) and the bridge; on the keyboard the *)
(* radio shell and the Studio RPC thread.                                  *)
(*                                                                         *)
(* A generation is compared only with a copy taken earlier; here the copy  *)
(* is marked stale when apex_shell_link_reset increments the counter.      *)
(* Sessions and the two DMA buffers are those of RadioInput.               *)
(***************************************************************************)
EXTENDS Stream, Sequences, FiniteSets

CONSTANTS
  Parts,        \* the frames of the longest command, the blocks of the longest upload
  Studio,       \* ZMK Studio is in use
  MaxLosses,    \* a bound on the packets lost
  MaxTimeouts   \* a bound on the timeouts of the radio and of the users

ASSUME ShellLinkAssumption ==
  /\ Parts \in Nat \ {0} /\ Studio \in BOOLEAN
  /\ MaxLosses \in Nat /\ MaxTimeouts \in Nat

VARIABLES
  dongle,       \* the dongle's stream
  keyboard,     \* the keyboard's stream
  kbdSession, rcvSession, offer, rcvResync,   \* as in RadioInput
  toRcv, toKbd, \* what is in the DMA buffers
  replying,     \* the receiver's thread has yet to pack its reply
  job,          \* what the dongle's shell thread is doing
  live,         \* the bridge reads: last_activity is less than SESSION_IDLE_MS ago
  assembling,   \* the jobs whose frames are in "command" (used)
  assemblyFresh,\* assembling_generation is the current one
  shell,        \* what the keyboard's radio shell is doing
  rpc,          \* a Studio answer waits in the RPC's buffer
  executed,     \* the jobs the keyboard has executed
  losses,       \* how many packets may still be lost
  timeouts      \* how many timeouts may still come

streams == <<dongle, keyboard>>
kbdLink == <<kbdSession, offer>>
rcvLink == <<rcvSession, rcvResync>>
links == <<kbdLink, rcvLink>>
air == <<toRcv, toKbd, replying>>
host == <<job, live>>
device == <<assembling, assemblyFresh, shell, rpc, executed>>
trouble == <<losses, timeouts>>
vars == <<streams, links, air, host, device, trouble>>

NoSession == 0
Session == 1..3
Job == 1..Parts     \* job n has n frames or blocks
NoJob == 0
None == [kind |-> "none"]

FrameKinds ==
  {"COMMAND", "COMMAND_END", "OUTPUT", "RESULT", "UPDATE_DATA", "UPDATE_REPLY"}
AllFrames ==
  [kind : FrameKinds, job : Job] \cup [kind : {"STUDIO_DATA", "STUDIO_REPLY"}, job : {NoJob}]
ASSUME FramesAssumption == Frames = AllFrames

Packet == [session : Session, stream : StreamPacket]

\* left: the frames to send, and for an upload the blocks to be confirmed.
JobType ==
  [step : {"idle", "send", "read"}, kind : {"command", "update"}, id : Job \cup {NoJob},
   left : 0..Parts, fresh : BOOLEAN]
ShellType ==
  [step : {"idle", "run", "result", "block"}, id : Job \cup {NoJob}, fresh : BOOLEAN]
IdleJob == [step |-> "idle", kind |-> "command", id |-> NoJob, left |-> 0, fresh |-> FALSE]
IdleShell == [step |-> "idle", id |-> NoJob, fresh |-> FALSE]

TypeOK ==
  /\ dongle \in StreamType /\ keyboard \in StreamType
  /\ kbdSession \in Session \cup {NoSession} /\ rcvSession \in Session \cup {NoSession}
  /\ offer \in Session \cup {NoSession}
  /\ rcvResync \in BOOLEAN
  /\ toRcv \in Packet \cup {None} /\ toKbd \in Packet \cup {None} /\ replying \in BOOLEAN
  /\ job \in JobType /\ live \in BOOLEAN
  /\ assembling \in Seq(Job) /\ Len(assembling) <= Parts /\ assemblyFresh \in BOOLEAN
  /\ shell \in ShellType /\ rpc \in BOOLEAN /\ executed \subseteq Job
  /\ losses \in 0..MaxLosses /\ timeouts \in 0..MaxTimeouts

\* last_activity is 0 at power-up, which counts as recent.
Init ==
  /\ dongle = StreamReset /\ keyboard = StreamReset
  /\ kbdSession = NoSession /\ rcvSession = NoSession /\ offer = NoSession
  /\ rcvResync = FALSE
  /\ toRcv = None /\ toKbd = None /\ replying = FALSE
  /\ job = IdleJob /\ live = TRUE
  /\ assembling = <<>> /\ assemblyFresh = FALSE
  /\ shell = IdleShell /\ rpc = FALSE /\ executed = {}
  /\ losses = MaxLosses /\ timeouts = MaxTimeouts

Timeout == timeouts > 0 /\ timeouts' = timeouts - 1 /\ UNCHANGED losses

Frame(kind, id) == [kind |-> kind, job |-> id]

-----------------------------------------------------------------------------
(* The radio threads: sessions (new_session calls apex_shell_link_reset)     *)

KbdNewSession ==
  /\ keyboard' = StreamReset
  /\ kbdSession' = NoSession /\ offer' = NoSession
  /\ toKbd' = None
  /\ assemblyFresh' = FALSE /\ shell' = [shell EXCEPT !.fresh = FALSE]
  /\ UNCHANGED <<dongle, rcvLink, toRcv, replying, host, assembling, rpc, executed>>

\* The keyboard has nobody to talk to, or lost too many packets.
KbdSilence ==
  kbdSession # NoSession /\ rcvSession # kbdSession /\ KbdNewSession /\ UNCHANGED trouble
KbdTimeout == Timeout /\ KbdNewSession

KbdEstablish ==
  /\ kbdSession = NoSession /\ offer # NoSession
  /\ kbdSession' = offer /\ offer' = NoSession
  /\ UNCHANGED <<streams, rcvLink, air, host, device, trouble>>

\* Mutation: the dongle keeps the old stream in a new session.
RcvNewSessionKeepsStream ==
  /\ rcvSession' = NoSession /\ rcvResync' = FALSE
  /\ toRcv' = None /\ replying' = FALSE
  /\ job' = [job EXCEPT !.fresh = FALSE]
  /\ UNCHANGED <<streams, kbdLink, toKbd, live, device>>

RcvNewSession ==
  /\ dongle' = StreamReset
  /\ rcvSession' = NoSession /\ rcvResync' = FALSE
  /\ toRcv' = None /\ replying' = FALSE
  /\ job' = [job EXCEPT !.fresh = FALSE]
  /\ UNCHANGED <<keyboard, kbdLink, toKbd, live, device>>

RcvRestart == rcvResync /\ RcvNewSession /\ UNCHANGED trouble
RcvSilence ==
  rcvSession # NoSession /\ rcvSession \notin {kbdSession, offer} /\ RcvNewSession
    /\ UNCHANGED trouble
RcvTimeout == Timeout /\ RcvNewSession

SessionOf(packet) == IF packet = None THEN {} ELSE {packet.session}
FreshSession == CHOOSE s \in Session : s \notin SessionOf(toRcv) \cup SessionOf(toKbd)

RcvEstablish ==
  /\ rcvSession = NoSession /\ kbdSession = NoSession
  /\ rcvSession' = FreshSession /\ offer' = FreshSession
  /\ UNCHANGED <<streams, kbdSession, rcvResync, air, host, device, trouble>>

-----------------------------------------------------------------------------
(* The radio threads: SHELL packets.  The keyboard polls, the receiver answers. *)

KbdPoll ==
  /\ kbdSession # NoSession /\ toKbd = None
  /\ toRcv' = IF toRcv = None /\ ~replying
              THEN [session |-> kbdSession, stream |-> Pack(keyboard)] ELSE toRcv
  /\ UNCHANGED <<streams, links, toKbd, replying, host, device, trouble>>

\* A packet that is of another session, or refused, has no answer.
RcvReceive ==
  /\ toRcv # None /\ ~replying
  /\ toRcv' = None
  /\ IF toRcv.session = rcvSession /\ ~Refused(dongle, toRcv.stream)
     THEN dongle' = StreamReceive(dongle, toRcv.stream) /\ replying' = TRUE
     ELSE UNCHANGED <<dongle, replying>>
  /\ UNCHANGED <<keyboard, links, toKbd, host, device, trouble>>

RcvReply ==
  /\ replying /\ replying' = FALSE
  /\ toKbd' = IF toKbd = None
              THEN [session |-> rcvSession, stream |-> Pack(dongle)] ELSE toKbd
  /\ UNCHANGED <<streams, links, toRcv, host, device, trouble>>

KbdReceive ==
  /\ toKbd # None
  /\ toKbd' = None
  /\ IF toKbd.session = kbdSession /\ ~Refused(keyboard, toKbd.stream)
     THEN keyboard' = StreamReceive(keyboard, toKbd.stream)
     ELSE UNCHANGED keyboard
  /\ UNCHANGED <<dongle, links, toRcv, replying, host, device, trouble>>

LosePacket ==
  /\ losses > 0 /\ losses' = losses - 1
  /\ \/ toRcv # None /\ toRcv' = None /\ UNCHANGED toKbd
     \/ toKbd # None /\ toKbd' = None /\ UNCHANGED toRcv
  /\ UNCHANGED <<streams, links, replying, host, device, timeouts>>

-----------------------------------------------------------------------------
(* The dongle's shell thread: a command or an upload                         *)

\* A number for the job that nothing left over from an earlier one uses.
FramesOf(s) == {s.tx, s.rx} \ {NoFrame}
FramesIn(packet) == IF packet = None THEN {} ELSE {packet.stream.data} \ {NoFrame}
JobsInUse ==
  {f.job : f \in FramesOf(dongle) \cup FramesOf(keyboard) \cup FramesIn(toRcv) \cup FramesIn(toKbd)}
    \cup {assembling[i] : i \in 1..Len(assembling)} \cup {shell.id}

\* After apex_radio_request_session the radio thread (priority 0, woken by the
\* semaphore) resets before the shell thread can start another job.
JobStart ==
  /\ job.step = "idle" /\ rcvSession # NoSession /\ ~rcvResync
  /\ \E kind \in {"command", "update"}, id \in Job \ JobsInUse :
       /\ job' = [step |-> "send", kind |-> kind, id |-> id, left |-> id, fresh |-> TRUE]
       /\ executed' = executed \ {id}
  /\ UNCHANGED <<streams, links, air, live, assembling, assemblyFresh, shell, rpc, trouble>>

PartKind ==
  IF job.kind = "update" THEN "UPDATE_DATA"
  ELSE IF job.left = 1 THEN "COMMAND_END" ELSE "COMMAND"

\* What apex_shell_send checks before it puts a frame.
SendAllowed == rcvSession # NoSession /\ job.fresh

JobSend ==
  /\ job.step = "send" /\ SendAllowed /\ CanPut(dongle)
  /\ dongle' = PutFrame(dongle, Frame(PartKind, job.id))
  /\ job' = [job EXCEPT !.left = @ - 1,
                        !.step = IF job.kind = "update" \/ job.left = 1 THEN "read" ELSE "send"]
  /\ UNCHANGED <<keyboard, links, air, live, device, trouble>>

\* What the answer must be, or is -EPROTO.
Expected(f) ==
  f.kind \in (IF job.kind = "update" THEN {"UPDATE_REPLY"} ELSE {"OUTPUT", "RESULT"})

JobRead ==
  /\ job.step = "read" /\ job.fresh /\ dongle.rx # NoFrame /\ Expected(dongle.rx)
  /\ dongle' = TakeFrame(dongle)
  /\ job' = IF dongle.rx.kind = "OUTPUT" THEN job
            ELSE IF job.kind = "update" /\ job.left > 0 THEN [job EXCEPT !.step = "send"]
            ELSE IdleJob
  /\ UNCHANGED <<keyboard, links, air, live, device, trouble>>

\* Mutation: a job that failed leaves the session as it is.
JobAbandons ==
  /\ job' = IdleJob
  /\ UNCHANGED <<keyboard, links, air, live, device>>

\* failed: the session is given up, so nothing of this job is left over.
JobFails ==
  /\ job' = IdleJob /\ rcvResync' = TRUE
  /\ UNCHANGED <<keyboard, kbdLink, rcvSession, air, live, device>>

JobError ==
  /\ \/ /\ job.step = "send" /\ (~SendAllowed \/ Exhausted(dongle))
        /\ UNCHANGED dongle
     \/ /\ job.step = "read" /\ ~job.fresh
        /\ UNCHANGED dongle
     \/ /\ job.step = "read" /\ job.fresh /\ dongle.rx # NoFrame /\ ~Expected(dongle.rx)
        /\ dongle' = TakeFrame(dongle)
     \/ /\ job.step = "read" /\ job.fresh /\ job.kind = "update"   \* a refused block
        /\ dongle.rx # NoFrame /\ dongle.rx.kind = "UPDATE_REPLY"
        /\ dongle' = TakeFrame(dongle)
  /\ JobFails /\ UNCHANGED trouble

\* The host leaves an upload between two blocks, or sends what is no block.
JobCancelled ==
  /\ job.step = "send" /\ job.kind = "update" /\ job' = IdleJob
  /\ UNCHANGED <<streams, links, air, live, device, trouble>>

\* The deadline of the job.
JobTimeout == Timeout /\ job.step # "idle" /\ JobFails /\ UNCHANGED dongle

-----------------------------------------------------------------------------
(* The bridge: it takes the generation anew for every call                   *)

BridgeSend ==
  /\ Studio /\ rcvSession # NoSession
  /\ \/ CanPut(dongle) /\ dongle' = PutFrame(dongle, Frame("STUDIO_DATA", NoJob))
     \/ UNCHANGED dongle       \* the frame could not be sent, and is dropped
  /\ live' = TRUE
  /\ UNCHANGED <<keyboard, links, air, job, device, trouble>>

BridgeRead ==
  /\ live /\ dongle.rx # NoFrame
  /\ dongle' = TakeFrame(dongle)
  /\ UNCHANGED <<keyboard, links, air, host, device, trouble>>

BridgeIdle == live /\ live' = FALSE
  /\ UNCHANGED <<streams, links, air, job, device, trouble>>

-----------------------------------------------------------------------------
(* The keyboard's radio shell (transport_read, transport_write)              *)

Readable(kinds) == shell.step = "idle" /\ keyboard.rx # NoFrame /\ keyboard.rx.kind \in kinds

\* Mutation: the assembly survives a change of generation.
AssembledAnyhow == assembling

\* A new generation empties the buffer.  What does not fit makes a command fail.
Assembled == IF assemblyFresh THEN assembling ELSE <<>>

ReadCommand ==
  /\ Readable({"COMMAND", "COMMAND_END"})
  /\ keyboard' = TakeFrame(keyboard) /\ assemblyFresh' = TRUE
  /\ LET command == Append(Assembled, keyboard.rx.job)
         fits == Len(command) <= Parts
         ended == keyboard.rx.kind = "COMMAND_END"
     IN  /\ assembling' = IF fits THEN command ELSE Assembled
         /\ shell' = IF ended
              THEN [step |-> IF fits THEN "run" ELSE "result", id |-> keyboard.rx.job, fresh |-> TRUE]
              ELSE shell
         /\ executed' = IF ended /\ fits THEN executed \cup {keyboard.rx.job} ELSE executed
  /\ UNCHANGED <<dongle, links, air, host, rpc, trouble>>

ReadUpdate ==
  /\ Readable({"UPDATE_DATA"})
  /\ keyboard' = TakeFrame(keyboard) /\ assemblyFresh' = TRUE
  /\ assembling' = <<>>
  /\ shell' = [step |-> "block", id |-> keyboard.rx.job, fresh |-> TRUE]
  /\ UNCHANGED <<dongle, links, air, host, rpc, executed, trouble>>

\* The RPC will answer, if it listens; more bytes only extend its buffer.
ReadStudio ==
  /\ Readable({"STUDIO_DATA"})
  /\ keyboard' = TakeFrame(keyboard) /\ assemblyFresh' = TRUE
  /\ assembling' = Assembled
  /\ rpc' \in {TRUE, rpc}
  /\ UNCHANGED <<dongle, links, air, host, shell, executed, trouble>>

KbdSendAllowed == kbdSession # NoSession /\ shell.fresh

ShellOutput ==
  /\ shell.step = "run" /\ KbdSendAllowed /\ CanPut(keyboard)
  /\ keyboard' = PutFrame(keyboard, Frame("OUTPUT", shell.id))
  /\ shell' = [shell EXCEPT !.step = "result"]
  /\ UNCHANGED <<dongle, links, air, host, assembling, assemblyFresh, rpc, executed, trouble>>

\* The command ends without output, or its output cannot be sent.
ShellRuns ==
  /\ shell.step = "run" /\ shell' = [shell EXCEPT !.step = "result"]
  /\ UNCHANGED <<streams, links, air, host, assembling, assemblyFresh, rpc, executed, trouble>>

\* The answer to a command or to a block of an upload.
ShellAnswers ==
  /\ shell.step \in {"result", "block"}
  /\ KbdSendAllowed /\ CanPut(keyboard)
  /\ keyboard' = PutFrame(keyboard,
       Frame(IF shell.step = "result" THEN "RESULT" ELSE "UPDATE_REPLY", shell.id))
  /\ assembling' = IF shell.step = "result" THEN <<>> ELSE assembling
  /\ shell' = IdleShell
  /\ UNCHANGED <<dongle, links, air, host, assemblyFresh, rpc, executed, trouble>>

ShellGivesUp ==
  /\ shell.step \in {"result", "block"}
  /\ \/ (~KbdSendAllowed \/ Exhausted(keyboard)) /\ UNCHANGED trouble
     \/ Timeout                          \* the deadline
  /\ assembling' = IF shell.step = "result" THEN <<>> ELSE assembling
  /\ shell' = IdleShell
  /\ UNCHANGED <<streams, links, air, host, assemblyFresh, rpc, executed>>

\* radio_tx_notify: what cannot be sent is discarded.
RpcAnswers ==
  /\ rpc /\ rpc' = FALSE
  /\ \/ kbdSession # NoSession /\ CanPut(keyboard)
          /\ keyboard' = PutFrame(keyboard, Frame("STUDIO_REPLY", NoJob))
     \/ UNCHANGED keyboard
  /\ UNCHANGED <<dongle, links, air, host, assembling, assemblyFresh, shell, executed, trouble>>

-----------------------------------------------------------------------------
Sessioning ==
  KbdSilence \/ KbdEstablish \/ RcvRestart \/ RcvSilence \/ RcvEstablish
Traffic == KbdPoll \/ RcvReceive \/ RcvReply \/ KbdReceive
DongleShell == JobSend \/ JobRead \/ JobError
Bridge == BridgeSend \/ BridgeRead \/ BridgeIdle
KeyboardShell ==
  ReadCommand \/ ReadUpdate \/ ReadStudio \/ ShellOutput \/ ShellRuns \/ ShellAnswers \/ ShellGivesUp
Host == JobStart \/ JobCancelled
Environment == KbdTimeout \/ RcvTimeout \/ LosePacket \/ JobTimeout

Next ==
  Sessioning \/ Traffic \/ Host \/ DongleShell \/ Bridge \/ KeyboardShell
    \/ RpcAnswers \/ Environment

Spec == Init /\ [][Next]_vars

(* The threads of both ends loop; a receiver that restarts is not put off   *)
(* by packets.  Nobody need start a job or use Studio.                      *)
Fairness ==
  /\ WF_vars(KbdSilence) /\ WF_vars(KbdEstablish) /\ WF_vars(RcvEstablish)
  /\ SF_vars(RcvRestart) /\ SF_vars(RcvSilence)
  /\ WF_vars(KbdPoll \/ KbdReceive) /\ WF_vars(RcvReceive \/ RcvReply)
  /\ WF_vars(BridgeIdle) /\ WF_vars(DongleShell) /\ WF_vars(KeyboardShell)

FairSpec == Spec /\ Fairness

-----------------------------------------------------------------------------
(* Properties *)

Shared == kbdSession # NoSession /\ kbdSession = rcvSession

\* There is a session at the dongle that the keyboard has, or is offered.
Linked == rcvSession # NoSession /\ rcvSession \in {kbdSession, offer}

\* The frames from one end to the other: read out but not yet taken, and put
\* but not yet handed over, while there is still a session that can.
Under(to, from, carried) ==
  (IF to.rx = NoFrame THEN <<>> ELSE <<to.rx>>)
    \o (IF carried /\ from.tx # NoFrame /\ to.rxSeq < from.txSeq THEN <<from.tx>> ELSE <<>>)

ToKeyboard == INSTANCE Channel WITH
  open <- <<kbdSession, rcvSession, offer>>,
  frames <- Under(keyboard, dongle, Linked)
ToDongle == INSTANCE Channel WITH
  open <- <<kbdSession, rcvSession, offer>>,
  frames <- Under(dongle, keyboard, Linked)

(* Whatever packets are lost and whoever reads late, the frames of each     *)
(* direction arrive in order, once, and all of them while a session lasts.  *)
DeliversInOrder == ToKeyboard!Spec /\ ToDongle!Spec

(* Inside a session neither end refuses a packet of the stream, so that a   *)
(* lost answer cannot leave the two ends refusing each other for ever.      *)
NothingRefused ==
  Shared =>
    /\ toRcv # None /\ toRcv.session = rcvSession => ~Refused(dongle, toRcv.stream)
    /\ toKbd # None /\ toKbd.session = kbdSession => ~Refused(keyboard, toKbd.stream)

(* Output, results and confirmations the dongle's shell takes are those of  *)
(* its own job, never what an abandoned one left behind.                    *)
ReplyIsOwn ==
  job.step # "idle" /\ job.fresh /\ dongle.rx # NoFrame /\ Expected(dongle.rx)
    => dongle.rx.job = job.id

(* The keyboard executes a command only when it has all of its frames and   *)
(* none of another command.                                                 *)
CommandsWhole ==
  shell.step = "run" =>
    assembling = [i \in 1..shell.id |-> shell.id]

(* Nothing is mixed up between jobs or sessions: inside a session no frame  *)
(* is refused (apex_stream_receive), and replies and commands are of the    *)
(* job they are taken for.                                                  *)
NothingMixed == NothingRefused /\ ReplyIsOwn /\ CommandsWhole

(* A command is never executed again: neither a retransmitted frame nor a   *)
(* new session repeats one ("it was not retried", keyboard_shell.c).        *)
ExecutedOnce ==
  [][\A id \in Job : shell.step # "run" /\ shell'.step = "run" /\ shell'.id = id
       => id \notin executed]_vars

(* Packets may be lost, but as long as nothing times out every job that     *)
(* begins while the bridge is quiet ends: commands, output and              *)
(* confirmations never block each other.                                    *)
JobAnswered ==
  job.step = "send" /\ job.left = job.id /\ ~live
    ~> job.step = "idle" \/ Exhausted(dongle) \/ Exhausted(keyboard)

(* And it ends with its answer: a command never has to give up the session. *)
CommandSucceeds ==
  [][job.kind = "command" /\ rcvResync' /\ ~rcvResync
       => Exhausted(dongle) \/ timeouts < MaxTimeouts]_vars

(* Every job the shell begins ends, with its answer.                        *)
JobsEnd == JobAnswered /\ CommandSucceeds
-----------------------------------------------------------------------------
(* The inductive invariant behind the properties *)

(* Who is in no session has nothing of one, and an offer is of no session   *)
(* that left anything behind.                                               *)
LinksInv ==
  /\ kbdSession # NoSession => offer = NoSession /\ rcvSession \in {NoSession, kbdSession}
  /\ kbdSession = NoSession => keyboard = StreamReset /\ ~shell.fresh /\ ~assemblyFresh
  /\ rcvSession = NoSession => dongle = StreamReset /\ ~replying /\ ~job.fresh
  /\ offer # NoSession =>
       /\ rcvSession \in {NoSession, offer} /\ ~replying
       /\ offer \notin SessionOf(toRcv) \cup SessionOf(toKbd)

\* A frame has a number, and a number a frame.
Numbered(s) == (s.txSeq = 0 => s.tx = NoFrame) /\ (s.rxSeq = 0 => s.rx = NoFrame)

\* One end is at most one frame ahead of the other, which it then still has.
Follows(to, from) ==
  from.txSeq = to.rxSeq \/ (from.txSeq = to.rxSeq + 1 /\ from.tx # NoFrame)

\* A packet under way is no newer than its sender, and its frame, if it is new
\* to who gets it, is the one that waits to be acknowledged.
Current(p, to, from) ==
  /\ p.ack <= from.rxSeq /\ p.seq <= from.txSeq
  /\ p.seq > to.rxSeq => p.seq = from.txSeq /\ p.data = from.tx

StreamsInv ==
  /\ Numbered(dongle) /\ Numbered(keyboard)
  /\ \A p \in {toRcv, toKbd} \ {None} : p.stream.data = NoFrame <=> p.stream.seq = 0
  /\ Linked =>
       /\ Follows(keyboard, dongle) /\ Follows(dongle, keyboard)
       /\ rcvSession \in SessionOf(toKbd) => Current(toKbd.stream, keyboard, dongle)
       /\ rcvSession \in SessionOf(toRcv) => Current(toRcv.stream, dongle, keyboard)

\* The frame that comes next to an end, after the one it has yet to read: its
\* peer has it or, if the peer left the session, the last packet.
Arrives(packet, session, to) ==
  IF session \in SessionOf(packet) /\ packet.stream.seq > to.rxSeq
  THEN packet.stream.data ELSE NoFrame
Waits(to, from) == IF to.rxSeq < from.txSeq THEN from.tx ELSE NoFrame
NextToKeyboard ==
  IF Linked THEN Waits(keyboard, dongle) ELSE Arrives(toKbd, kbdSession, keyboard)
NextToDongle ==
  IF Linked THEN Waits(dongle, keyboard) ELSE Arrives(toRcv, rcvSession, dongle)

Is(f, kinds) == f # NoFrame /\ f.kind \in kinds
Commands == {"COMMAND", "COMMAND_END"}
Orders == Commands \cup {"UPDATE_DATA"}
Calls == {"COMMAND_END", "UPDATE_DATA"}     \* are answered
Answers == {"RESULT", "UPDATE_REPLY"}
Replies == Answers \cup {"OUTPUT"}

\* The keyboard's shell works for the present session.
Busy == shell.step # "idle" /\ shell.fresh

Copies(n, id) == [i \in 1..n |-> id]
Count(f) == IF Is(f, Orders) THEN 1 ELSE 0

\* The n-th frame of a command: the last one ends it.
NthOf(f, n) == n <= f.job /\ (f.kind = "COMMAND_END" <=> n = f.job)

(* What the keyboard assembles and what comes to it are one command's       *)
(* frames, in order; nothing follows what has to be answered first.         *)
KeyboardInv ==
  /\ shell.step # "idle" => shell.id \in Job /\ (assemblyFresh <=> shell.fresh)
  /\ shell.step = "run" => assembling = Copies(shell.id, shell.id)
  /\ shell.step = "block" => assembling = <<>>
  /\ Busy => ~Is(keyboard.rx, Orders) /\ ~Is(NextToKeyboard, Orders)
  /\ Is(keyboard.rx, Calls) => ~Is(NextToKeyboard, Orders)
  /\ ~Busy =>
       LET n == Len(Assembled)
           m == n + Count(keyboard.rx)
           f == keyboard.rx
           g == NextToKeyboard
       IN  /\ Is(f, Commands) => NthOf(f, n + 1) /\ Assembled = Copies(n, f.job)
           /\ Is(g, Commands) => NthOf(g, m + 1) /\ Assembled = Copies(n, g.job)
           /\ Is(f, Orders) /\ Is(g, Orders) => Is(g, Commands) /\ f.job = g.job

\* No order is under way to the keyboard, or half executed there.
Clear ==
  /\ ~Busy /\ Assembled = <<>>
  /\ ~Is(keyboard.rx, Orders) /\ ~Is(NextToKeyboard, Orders)

\* What is under way of the command the dongle sends is all it has sent.
Underway ==
  LET n == Len(Assembled)
  IN  /\ ~Busy /\ Assembled = Copies(n, job.id)
      /\ n + Count(keyboard.rx) + Count(NextToKeyboard) = job.id - job.left
      /\ ~Is(keyboard.rx, Calls) /\ ~Is(NextToKeyboard, Calls)

(* In a session the dongle's shell did not give up everything under way is  *)
(* of its job, an answer is the end of it, and there is nothing when there  *)
(* is no job.                                                               *)
Asks == job.fresh /\ job.step = "send"
JobInv ==
  /\ job.fresh => job.step # "idle" /\ rcvSession # NoSession
  /\ job.step # "idle" => job.id \in Job /\ job.left <= job.id /\ ~rcvResync
  /\ job.step = "send" => job.left > 0
  /\ ~rcvResync =>
       /\ ~job.fresh \/ Asks => ~Is(dongle.rx, Replies) /\ ~Is(NextToDongle, Replies)
       /\ \A f \in {dongle.rx, NextToDongle} :
            job.fresh /\ Is(f, Replies) => f.job = job.id
       /\ Is(dongle.rx, Answers) => ~Is(NextToDongle, Replies)
  /\ ~rcvResync /\ Linked =>
       /\ ~job.fresh \/ (Asks /\ job.kind = "update") => Clear
       /\ Is(dongle.rx, Answers) \/ Is(NextToDongle, Answers) => Clear
       /\ Asks /\ job.kind = "command" => Underway
       /\ job.fresh =>
            /\ Busy => shell.id = job.id
            /\ \A f \in {keyboard.rx, NextToKeyboard} : Is(f, Orders) => f.job = job.id

\* A command that is still to be executed was not executed.
ExecutedInv ==
  /\ \A f \in {keyboard.rx, NextToKeyboard} : Is(f, {"COMMAND_END"}) => f.job \notin executed
  /\ Asks /\ job.kind = "command" => job.id \notin executed

ShellInv == LinksInv /\ StreamsInv /\ KeyboardInv /\ JobInv /\ ExecutedInv
=============================================================================
