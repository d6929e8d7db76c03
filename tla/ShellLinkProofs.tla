--------------------------- MODULE ShellLinkProofs ---------------------------
(***************************************************************************)
(* What the maintenance stream promises its users holds however many       *)
(* packets are lost and whoever gives up when: frames arrive in order and  *)
(* once, no packet of a session is refused, replies and commands are of    *)
(* the job they are taken for, and no command runs twice.                  *)
(*                                                                         *)
(* The argument has two floors.  The lower one is the stream: an end is at *)
(* most one frame ahead of its peer, and a packet under way says no more   *)
(* than its sender.  All the upper one needs of it is, for each direction, *)
(* the frame that waits to be read and the one that comes next; the lemmas *)
(* of the section "What each kind of step does to the frames under way"    *)
(* say how a step changes those four, and the rest of the proof sees no    *)
(* number, acknowledgement or packet.                                      *)
(***************************************************************************)
EXTENDS ShellLink, SequenceTheorems, TLAPS

-----------------------------------------------------------------------------
(* The stream, whatever its frames                                          *)

(* Putting a frame, taking one and receiving a packet make a stream of a    *)
(* stream, and what is packed is a packet.                                  *)
LEMMA StreamTypes ==
  ASSUME NEW s \in StreamType
  PROVE  /\ StreamReset \in StreamType /\ TakeFrame(s) \in StreamType
         /\ Pack(s) \in StreamPacket
         /\ \A f \in Frames : CanPut(s) => PutFrame(s, f) \in StreamType
         /\ \A p \in StreamPacket : StreamReceive(s, p) \in StreamType
<1> USE StreamAssumption
<1>1. StreamReset \in StreamType /\ TakeFrame(s) \in StreamType
  BY DEF StreamType, StreamReset, TakeFrame
<1>2. Pack(s) \in StreamPacket
  BY DEF StreamType, StreamPacket, Pack
<1>3. ASSUME NEW f \in Frames, CanPut(s) PROVE PutFrame(s, f) \in StreamType
  <2>1. s.txSeq + 1 \in 0..MaxSequence
    BY <1>3 DEF StreamType, CanPut, Exhausted
  <2> QED BY <2>1 DEF StreamType, PutFrame
<1>4. ASSUME NEW p \in StreamPacket PROVE StreamReceive(s, p) \in StreamType
  BY DEF StreamType, StreamPacket, StreamReceive, Acknowledged
<1> QED BY <1>1, <1>2, <1>3, <1>4

(* A frame that is put follows all that were, and is the next to arrive;    *)
(* what is under way to either end is as current as before.                 *)
LEMMA PutKeeps ==
  ASSUME NEW to \in StreamType, NEW from \in StreamType, NEW f \in Frames,
         CanPut(from), Numbered(from), Follows(to, from), Follows(from, to)
  PROVE  LET put == PutFrame(from, f)
         IN  /\ Numbered(put) /\ put.rx = from.rx
             /\ Follows(to, put) /\ Follows(put, to)
             /\ Waits(to, from) = NoFrame /\ Waits(to, put) = f
             /\ Waits(put, to) = Waits(from, to)
             /\ \A p \in StreamPacket :
                  /\ Current(p, to, from) => Current(p, to, put)
                  /\ Current(p, from, to) => Current(p, put, to)
BY StreamAssumption
   DEF StreamType, StreamPacket, CanPut, Exhausted, PutFrame, Numbered, Follows, Waits,
       Current

(* Taking a frame changes nothing but that it is gone.                      *)
LEMMA TakeKeeps ==
  ASSUME NEW to \in StreamType, NEW from \in StreamType, Numbered(to)
  PROVE  LET taken == TakeFrame(to)
         IN  /\ Numbered(taken) /\ taken.rx = NoFrame
             /\ Follows(to, from) => Follows(taken, from)
             /\ Follows(from, to) => Follows(from, taken)
             /\ Waits(taken, from) = Waits(to, from)
             /\ Waits(from, taken) = Waits(from, to)
             /\ \A p \in StreamPacket :
                  /\ Current(p, to, from) => Current(p, taken, from)
                  /\ Current(p, from, to) => Current(p, from, taken)
BY DEF StreamType, StreamPacket, TakeFrame, Numbered, Follows, Waits, Current

(* What an end packs is current at its peer.                                *)
LEMMA PackIsCurrent ==
  ASSUME NEW to \in StreamType, NEW from \in StreamType, Numbered(from), Follows(to, from)
  PROVE  /\ Current(Pack(from), to, from)
         /\ Pack(from).data = NoFrame <=> Pack(from).seq = 0
BY StreamAssumption DEF StreamType, Pack, Current, Numbered, Follows

(* A current packet is not refused: it acknowledges what was sent, and is   *)
(* at most the next.                                                        *)
LEMMA CurrentIsTaken ==
  ASSUME NEW to \in StreamType, NEW from \in StreamType, NEW p \in StreamPacket,
         Follows(to, from), Follows(from, to), Current(p, to, from)
  PROVE  ~Refused(to, p)
BY StreamAssumption DEF StreamType, StreamPacket, Follows, Current, Refused

(* A current packet delivers the frame that waits, if the last one has been *)
(* read, and frees the slot of no frame that was not delivered.             *)
LEMMA ReceiveKeeps ==
  ASSUME NEW to \in StreamType, NEW from \in StreamType, NEW p \in StreamPacket,
         Numbered(to), Follows(to, from), Follows(from, to), Current(p, to, from),
         p.data = NoFrame <=> p.seq = 0
  PROVE  LET got == StreamReceive(to, p)
         IN  /\ Numbered(got) /\ Follows(got, from) /\ Follows(from, got)
             /\ Waits(from, got) = Waits(from, to)
             /\ \/ got.rx = to.rx /\ Waits(got, from) = Waits(to, from)
                \/ to.rx = NoFrame /\ got.rx = Waits(to, from) /\ Waits(got, from) = NoFrame
             /\ \A q \in StreamPacket : Current(q, from, to) => Current(q, from, got)
<1> USE StreamAssumption DEF StreamType, StreamPacket
<1> DEFINE ack == Acknowledged(to, p)
<1>1. /\ ack \in StreamType /\ ack.txSeq = to.txSeq
      /\ ack.rxSeq = to.rxSeq /\ ack.rx = to.rx
      /\ ack.tx = to.tx \/ (ack.tx = NoFrame /\ to.txSeq = from.rxSeq)
  BY DEF Acknowledged, Follows, Current
<1>2. CASE IsNew(to, p)
  <2>1. StreamReceive(to, p) = [ack EXCEPT !.rx = p.data, !.rxSeq = p.seq]
    BY <1>2 DEF StreamReceive
  <2>2. p.seq = from.txSeq /\ p.data = from.tx /\ to.rx = NoFrame /\ to.rxSeq < p.seq
    BY <1>2 DEF IsNew, Current
  <2> HIDE DEF ack
  <2> QED BY <1>1, <2>1, <2>2 DEF Numbered, Follows, Waits, Current
<1>3. CASE ~IsNew(to, p)
  <2>1. StreamReceive(to, p) = ack
    BY <1>3 DEF StreamReceive
  <2> HIDE DEF ack
  <2> QED BY <1>1, <2>1 DEF Numbered, Follows, Waits, Current
<1> QED BY <1>2, <1>3

-----------------------------------------------------------------------------
(* Types                                                                    *)

(* The number of a new session is one, and no packet under way is of it.    *)
LEMMA FreshIsUnused ==
  ASSUME TypeOK
  PROVE  /\ FreshSession \in Session
         /\ FreshSession \notin SessionOf(toRcv) \cup SessionOf(toKbd)
<1>1. \E s \in Session : s \notin SessionOf(toRcv) \cup SessionOf(toKbd)
  BY DEF TypeOK, Session, SessionOf, Packet
<1> QED BY <1>1 DEF FreshSession

(* The frames of a job, of the bridge and of the keyboard are frames.       *)
LEMMA FrameTypes ==
  /\ \A kind \in FrameKinds, id \in Job : Frame(kind, id) \in Frames
  /\ \A kind \in {"STUDIO_DATA", "STUDIO_REPLY"} : Frame(kind, NoJob) \in Frames
  /\ \A f \in Frames : f.kind \in FrameKinds => f.job \in Job
BY FramesAssumption DEF AllFrames, Frame, FrameKinds

(* None is no packet.                                                       *)
LEMMA NoneIsNone == None \notin Packet
BY DEF None, Packet

(* The types of the keyboard's shell and the dongle's job survive whatever  *)
(* happens to the generation.                                               *)
LEMMA StaleTypes ==
  ASSUME job \in JobType, shell \in ShellType
  PROVE  /\ [job EXCEPT !.fresh = FALSE] \in JobType
         /\ [shell EXCEPT !.fresh = FALSE] \in ShellType
BY DEF JobType, ShellType

(* The steps of the radio threads keep the types.                           *)
LEMMA RadioTypes ==
  ASSUME TypeOK, LinksInv, Sessioning \/ Traffic \/ KbdTimeout \/ RcvTimeout \/ LosePacket
  PROVE  TypeOK'
<1> USE NoneIsNone
<1>1. trouble' \in (0..MaxLosses) \X (0..MaxTimeouts)
  BY ShellLinkAssumption
     DEF TypeOK, Sessioning, Traffic, KbdSilence, KbdEstablish, RcvRestart, RcvSilence,
         RcvEstablish, KbdPoll, RcvReceive, RcvReply, KbdReceive, KbdTimeout, RcvTimeout,
         LosePacket, Timeout, trouble
<1>2. losses' \in 0..MaxLosses /\ timeouts' \in 0..MaxTimeouts
  BY <1>1 DEF trouble
<1> HIDE DEF trouble
<1>3. CASE KbdNewSession
  BY <1>2, <1>3, StreamTypes, StaleTypes DEF TypeOK, KbdNewSession, rcvLink, host
<1>4. CASE KbdEstablish
  BY <1>2, <1>4 DEF TypeOK, KbdEstablish, streams, rcvLink, air, host, device
<1>5. CASE RcvNewSession
  BY <1>2, <1>5, StreamTypes, StaleTypes DEF TypeOK, RcvNewSession, kbdLink, device
<1>6. CASE RcvEstablish
  BY <1>2, <1>6, FreshIsUnused DEF TypeOK, RcvEstablish, streams, air, host, device
<1>7. CASE KbdPoll
  BY <1>2, <1>7, StreamTypes DEF TypeOK, KbdPoll, streams, links, kbdLink, rcvLink,
     host, device, Packet, NoSession
<1>8. CASE RcvReceive
  BY <1>2, <1>8, StreamTypes DEF TypeOK, RcvReceive, links, kbdLink, rcvLink, host,
     device, Packet
<1>9. CASE RcvReply
  <2>1. [session |-> rcvSession, stream |-> Pack(dongle)] \in Packet
    BY <1>9, StreamTypes DEF RcvReply, TypeOK, LinksInv, Packet
  <2> QED
    BY <1>2, <1>9, <2>1 DEF TypeOK, RcvReply, streams, links, kbdLink, rcvLink, host,
       device
<1>10. CASE KbdReceive
  BY <1>2, <1>10, StreamTypes DEF TypeOK, KbdReceive, links, kbdLink, rcvLink, host,
     device, Packet
<1>11. CASE LosePacket
  BY <1>2, <1>11 DEF TypeOK, LosePacket, streams, links, kbdLink, rcvLink, host, device
<1> QED
  BY <1>3, <1>4, <1>5, <1>6, <1>7, <1>8, <1>9, <1>10, <1>11
     DEF Sessioning, Traffic, KbdSilence, RcvRestart, RcvSilence, KbdTimeout, RcvTimeout

(* So do those of the dongle's shell and of the bridge,                     *)
LEMMA DongleTypes ==
  ASSUME TypeOK, JobInv, Host \/ DongleShell \/ Bridge \/ JobTimeout
  PROVE  TypeOK'
<1> USE DEF streams, links, kbdLink, rcvLink, air, host, device, trouble
<1> USE ShellLinkAssumption
<1>1. job \in JobType /\ IdleJob \in JobType
  BY DEF TypeOK, IdleJob, JobType
<1>2. CASE JobStart
  <2>1. job' \in JobType
    BY <1>2 DEF JobStart, JobType, Job
  <2>2. executed' \subseteq Job
    BY <1>2 DEF TypeOK, JobStart
  <2> QED BY <1>2, <2>1, <2>2 DEF TypeOK, JobStart
<1>3. CASE JobCancelled
  BY <1>1, <1>3 DEF TypeOK, JobCancelled
<1>4. CASE JobSend
  <2>1. Frame(PartKind, job.id) \in Frames
    BY <1>4, FrameTypes DEF JobSend, JobInv, PartKind, FrameKinds
  <2>2. dongle' \in StreamType
    BY <1>4, <2>1, StreamTypes DEF TypeOK, JobSend
  <2>3. job' \in JobType
    <3>1. job.left - 1 \in 0..Parts
      BY <1>4 DEF JobSend, JobInv, TypeOK, JobType
    <3> QED BY <1>1, <1>4, <3>1 DEF JobSend, JobType
  <2> QED BY <1>4, <2>2, <2>3 DEF TypeOK, JobSend
<1>5. CASE JobRead
  <2>1. dongle' \in StreamType
    BY <1>5, StreamTypes DEF TypeOK, JobRead
  <2>2. job' \in JobType
    BY <1>1, <1>5 DEF JobRead, JobType
  <2> QED BY <1>5, <2>1, <2>2 DEF TypeOK, JobRead
<1>6. CASE JobError
  <2>1. dongle' \in StreamType
    BY <1>6, StreamTypes DEF TypeOK, JobError
  <2> QED BY <1>1, <1>6, <2>1 DEF TypeOK, JobError, JobFails
<1>7. CASE BridgeSend
  BY <1>7, StreamTypes, FrameTypes DEF TypeOK, BridgeSend
<1>8. CASE BridgeRead
  BY <1>8, StreamTypes DEF TypeOK, BridgeRead
<1>9. CASE BridgeIdle
  BY <1>9 DEF TypeOK, BridgeIdle
<1>10. CASE JobTimeout
  BY <1>1, <1>10 DEF TypeOK, JobTimeout, JobFails, Timeout
<1> QED
  BY <1>2, <1>3, <1>4, <1>5, <1>6, <1>7, <1>8, <1>9, <1>10 DEF Host, DongleShell, Bridge

(* and those of the keyboard's shell and of the RPC.                        *)
LEMMA KeyboardTypes ==
  ASSUME TypeOK, KeyboardInv, KeyboardShell \/ RpcAnswers
  PROVE  TypeOK'
<1> USE DEF streams, links, kbdLink, rcvLink, air, host, device, trouble
<1> USE ShellLinkAssumption
<1>1. shell \in ShellType /\ IdleShell \in ShellType
  BY DEF TypeOK, IdleShell, ShellType
<1>2. /\ <<>> \in Seq(Job) /\ Len(<<>>) = 0
      /\ Assembled \in Seq(Job) /\ Len(Assembled) <= Parts
  BY DEF TypeOK, Assembled
<1>3. CASE ReadCommand
  <2>1. keyboard.rx.job \in Job /\ keyboard' \in StreamType
    BY <1>3, FrameTypes, StreamTypes
       DEF ReadCommand, Readable, FrameKinds, TypeOK, StreamType
  <2>2. assembling' \in Seq(Job) /\ Len(assembling') <= Parts
    BY <1>2, <1>3, <2>1 DEF ReadCommand
  <2>3. shell' \in ShellType /\ executed' \subseteq Job
    BY <1>1, <1>3, <2>1 DEF ReadCommand, ShellType, TypeOK
  <2> QED BY <1>3, <2>1, <2>2, <2>3 DEF ReadCommand, TypeOK
<1>4. CASE ReadUpdate
  <2>1. keyboard.rx.job \in Job /\ keyboard' \in StreamType
    BY <1>4, FrameTypes, StreamTypes
       DEF ReadUpdate, Readable, FrameKinds, TypeOK, StreamType
  <2>2. shell' \in ShellType
    BY <1>4, <2>1 DEF ReadUpdate, ShellType
  <2> QED BY <1>2, <1>4, <2>1, <2>2 DEF ReadUpdate, TypeOK
<1>5. CASE ReadStudio
  BY <1>2, <1>5, StreamTypes DEF ReadStudio, TypeOK
<1>6. CASE ShellOutput
  <2>1. Frame("OUTPUT", shell.id) \in Frames
    BY <1>6, FrameTypes DEF ShellOutput, KeyboardInv, FrameKinds
  <2>2. shell' \in ShellType
    BY <1>1, <1>6 DEF ShellOutput, ShellType
  <2> QED BY <1>6, <2>1, <2>2, StreamTypes DEF ShellOutput, TypeOK
<1>7. CASE ShellRuns
  BY <1>1, <1>7 DEF ShellRuns, ShellType, TypeOK
<1>8. CASE ShellAnswers
  <2>1. keyboard' \in StreamType
    BY <1>8, FrameTypes, StreamTypes DEF ShellAnswers, KeyboardInv, FrameKinds, TypeOK
  <2> QED BY <1>1, <1>2, <1>8, <2>1 DEF ShellAnswers, TypeOK
<1>9. CASE ShellGivesUp
  BY <1>1, <1>2, <1>9 DEF ShellGivesUp, Timeout, TypeOK
<1>10. CASE RpcAnswers
  BY <1>10, StreamTypes, FrameTypes DEF RpcAnswers, TypeOK
<1> QED
  BY <1>3, <1>4, <1>5, <1>6, <1>7, <1>8, <1>9, <1>10 DEF KeyboardShell

-----------------------------------------------------------------------------
(* What each kind of step does to the frames under way                      *)

(* No end has read anything out of a packet, nor taken a frame.              *)
Still == keyboard'.rx = keyboard.rx /\ dongle'.rx = dongle.rx

(* Nothing moves when only the users' own state changes.                    *)
LEMMA NothingMoves ==
  ASSUME UNCHANGED <<streams, kbdLink, rcvSession, air>>
  PROVE  /\ Linked' = Linked
         /\ NextToKeyboard' = NextToKeyboard /\ NextToDongle' = NextToDongle /\ Still
         /\ StreamsInv => StreamsInv'
BY DEF streams, links, kbdLink, rcvLink, air, Linked, NextToKeyboard, NextToDongle,
   Waits, Arrives, Still, StreamsInv, SessionOf, Follows, Current, Numbered

(* A frame the dongle puts is the next to the keyboard if the session lasts *)
LEMMA DonglePuts ==
  ASSUME TypeOK, StreamsInv, NEW f \in Frames, rcvSession # NoSession,
         CanPut(dongle), dongle' = PutFrame(dongle, f),
         UNCHANGED <<keyboard, kbdLink, rcvSession, air>>
  PROVE  /\ Linked' = Linked
         /\ IF Linked THEN NextToKeyboard = NoFrame /\ NextToKeyboard' = f
                      ELSE NextToKeyboard' = NextToKeyboard
         /\ NextToDongle' = NextToDongle /\ Still
         /\ StreamsInv'
<1> USE DEF links, kbdLink, rcvLink, air
<1>1. dongle \in StreamType /\ keyboard \in StreamType /\ Numbered(dongle)
  BY DEF TypeOK, StreamsInv
<1>2. Linked' = Linked
  BY DEF Linked
<1>3. dongle'.rx = dongle.rx /\ dongle'.rxSeq = dongle.rxSeq /\ Numbered(dongle')
  BY <1>1, StreamAssumption DEF PutFrame, StreamType, Numbered, CanPut, Exhausted
<1>4. CASE Linked
  <2>1. Follows(keyboard, dongle) /\ Follows(dongle, keyboard)
    BY <1>4 DEF StreamsInv
  <2>2. /\ Follows(keyboard, dongle') /\ Follows(dongle', keyboard)
        /\ Waits(keyboard, dongle) = NoFrame /\ Waits(keyboard, dongle') = f
        /\ Waits(dongle', keyboard) = Waits(dongle, keyboard)
        /\ \A p \in StreamPacket :
             /\ Current(p, keyboard, dongle) => Current(p, keyboard, dongle')
             /\ Current(p, dongle, keyboard) => Current(p, dongle', keyboard)
    BY <1>1, <2>1, PutKeeps
  <2>3. /\ rcvSession \in SessionOf(toKbd) => toKbd.stream \in StreamPacket
        /\ rcvSession \in SessionOf(toRcv) => toRcv.stream \in StreamPacket
    BY DEF TypeOK, Packet, SessionOf
  <2> QED
    BY <1>2, <1>3, <1>4, <2>1, <2>2, <2>3
       DEF StreamsInv, NextToKeyboard, NextToDongle, Still, SessionOf
<1>5. CASE ~Linked
  BY <1>2, <1>3, <1>5
     DEF StreamsInv, NextToKeyboard, NextToDongle, Arrives, Still, SessionOf
<1> QED BY <1>4, <1>5

(* A frame the keyboard puts is the next to the dongle if the session lasts *)
LEMMA KeyboardPuts ==
  ASSUME TypeOK, LinksInv, StreamsInv, NEW f \in Frames, kbdSession # NoSession,
         CanPut(keyboard), keyboard' = PutFrame(keyboard, f),
         UNCHANGED <<dongle, kbdLink, rcvSession, air>>
  PROVE  /\ Linked' = Linked
         /\ IF Linked THEN NextToDongle = NoFrame /\ NextToDongle' = f
                      ELSE NextToDongle' = NextToDongle
         /\ NextToKeyboard' = NextToKeyboard /\ Still
         /\ StreamsInv'
<1> USE DEF links, kbdLink, rcvLink, air
<1>1. dongle \in StreamType /\ keyboard \in StreamType /\ Numbered(keyboard)
  BY DEF TypeOK, StreamsInv
<1>2. Linked' = Linked
  BY DEF Linked
<1>3. keyboard'.rx = keyboard.rx /\ keyboard'.rxSeq = keyboard.rxSeq /\ Numbered(keyboard')
  BY <1>1, StreamAssumption DEF PutFrame, StreamType, Numbered, CanPut, Exhausted
<1>4. CASE Linked
  <2>1. Follows(keyboard, dongle) /\ Follows(dongle, keyboard)
    BY <1>4 DEF StreamsInv
  <2>2. /\ Follows(dongle, keyboard') /\ Follows(keyboard', dongle)
        /\ Waits(dongle, keyboard) = NoFrame /\ Waits(dongle, keyboard') = f
        /\ Waits(keyboard', dongle) = Waits(keyboard, dongle)
        /\ \A p \in StreamPacket :
             /\ Current(p, dongle, keyboard) => Current(p, dongle, keyboard')
             /\ Current(p, keyboard, dongle) => Current(p, keyboard', dongle)
    BY <1>1, <2>1, PutKeeps
  <2>3. /\ rcvSession \in SessionOf(toKbd) => toKbd.stream \in StreamPacket
        /\ rcvSession \in SessionOf(toRcv) => toRcv.stream \in StreamPacket
    BY DEF TypeOK, Packet, SessionOf
  <2> QED
    BY <1>2, <1>3, <1>4, <2>1, <2>2, <2>3
       DEF StreamsInv, NextToKeyboard, NextToDongle, Still, SessionOf
<1>5. CASE ~Linked
  BY <1>2, <1>3, <1>5
     DEF StreamsInv, NextToKeyboard, NextToDongle, Arrives, Still, SessionOf
<1> QED BY <1>4, <1>5

(* Who takes a frame takes nothing else.                                    *)
LEMMA DongleTakes ==
  ASSUME TypeOK, StreamsInv, dongle' = TakeFrame(dongle),
         UNCHANGED <<keyboard, kbdLink, rcvSession, air>>
  PROVE  /\ Linked' = Linked
         /\ NextToKeyboard' = NextToKeyboard /\ NextToDongle' = NextToDongle
         /\ keyboard'.rx = keyboard.rx /\ dongle'.rx = NoFrame
         /\ StreamsInv'
<1> USE DEF links, kbdLink, rcvLink, air
<1>1. dongle \in StreamType /\ keyboard \in StreamType /\ Numbered(dongle)
  BY DEF TypeOK, StreamsInv
<1>2. Linked' = Linked
  BY DEF Linked
<1>3. /\ Numbered(dongle') /\ dongle'.rx = NoFrame /\ dongle'.rxSeq = dongle.rxSeq
      /\ Follows(dongle, keyboard) => Follows(dongle', keyboard)
      /\ Follows(keyboard, dongle) => Follows(keyboard, dongle')
      /\ Waits(dongle', keyboard) = Waits(dongle, keyboard)
      /\ Waits(keyboard, dongle') = Waits(keyboard, dongle)
  BY <1>1, TakeKeeps DEF TakeFrame, StreamType
<1>4. /\ \A p \in StreamPacket :
           /\ Current(p, dongle, keyboard) => Current(p, dongle', keyboard)
           /\ Current(p, keyboard, dongle) => Current(p, keyboard, dongle')
  BY <1>1, TakeKeeps
<1>5. /\ rcvSession \in SessionOf(toKbd) => toKbd.stream \in StreamPacket
      /\ rcvSession \in SessionOf(toRcv) => toRcv.stream \in StreamPacket
  BY DEF TypeOK, Packet, SessionOf
<1> QED
  BY <1>2, <1>3, <1>4, <1>5 DEF StreamsInv, NextToKeyboard, NextToDongle, Arrives,
     SessionOf

(* So for the keyboard.                                                     *)
LEMMA KeyboardTakes ==
  ASSUME TypeOK, StreamsInv, keyboard' = TakeFrame(keyboard),
         UNCHANGED <<dongle, kbdLink, rcvSession, air>>
  PROVE  /\ Linked' = Linked
         /\ NextToKeyboard' = NextToKeyboard /\ NextToDongle' = NextToDongle
         /\ keyboard'.rx = NoFrame /\ dongle'.rx = dongle.rx
         /\ StreamsInv'
<1> USE DEF links, kbdLink, rcvLink, air
<1>1. dongle \in StreamType /\ keyboard \in StreamType /\ Numbered(keyboard)
  BY DEF TypeOK, StreamsInv
<1>2. Linked' = Linked
  BY DEF Linked
<1>3. /\ Numbered(keyboard') /\ keyboard'.rx = NoFrame /\ keyboard'.rxSeq = keyboard.rxSeq
      /\ Follows(dongle, keyboard) => Follows(dongle, keyboard')
      /\ Follows(keyboard, dongle) => Follows(keyboard', dongle)
      /\ Waits(dongle, keyboard') = Waits(dongle, keyboard)
      /\ Waits(keyboard', dongle) = Waits(keyboard, dongle)
  BY <1>1, TakeKeeps DEF TakeFrame, StreamType
<1>4. /\ \A p \in StreamPacket :
           /\ Current(p, dongle, keyboard) => Current(p, dongle, keyboard')
           /\ Current(p, keyboard, dongle) => Current(p, keyboard', dongle)
  BY <1>1, TakeKeeps
<1>5. /\ rcvSession \in SessionOf(toKbd) => toKbd.stream \in StreamPacket
      /\ rcvSession \in SessionOf(toRcv) => toRcv.stream \in StreamPacket
  BY DEF TypeOK, Packet, SessionOf
<1> QED
  BY <1>2, <1>3, <1>4, <1>5 DEF StreamsInv, NextToKeyboard, NextToDongle, Arrives,
     SessionOf

(* The keyboard starts over: nothing comes to it, and the dongle may find   *)
(* what was sent last.                                                      *)
LEMMA KeyboardRestarts ==
  ASSUME TypeOK, LinksInv, StreamsInv, KbdNewSession
  PROVE  /\ ~Linked'
         /\ keyboard'.rx = NoFrame /\ NextToKeyboard' = NoFrame
         /\ dongle'.rx = dongle.rx /\ NextToDongle' \in {NextToDongle, NoFrame}
         /\ StreamsInv' /\ LinksInv'
<1> USE DEF KbdNewSession, rcvLink, host
<1>1. ~Linked'
  BY DEF Linked
<1>2. keyboard'.rx = NoFrame /\ NextToKeyboard' = NoFrame
  BY <1>1 DEF NextToKeyboard, Arrives, SessionOf, StreamReset
<1>3. NextToDongle' = Arrives(toRcv, rcvSession, dongle)
  BY <1>1 DEF NextToDongle, Arrives, SessionOf
<1>4. Arrives(toRcv, rcvSession, dongle) \in {NextToDongle, NoFrame}
  BY DEF NextToDongle, Arrives, Waits, StreamsInv, Current, TypeOK, StreamType, Packet,
     SessionOf
<1>5. StreamsInv'
  BY <1>1 DEF StreamsInv, Numbered, StreamReset
<1>6. LinksInv'
  BY DEF LinksInv, TypeOK, ShellType
<1> QED BY <1>1, <1>2, <1>3, <1>4, <1>5, <1>6

(* The dongle starts over: nothing comes to it, and the keyboard may find   *)
(* what was sent last.                                                      *)
LEMMA DongleRestarts ==
  ASSUME TypeOK, LinksInv, StreamsInv, RcvNewSession
  PROVE  /\ ~Linked'
         /\ dongle'.rx = NoFrame /\ NextToDongle' = NoFrame
         /\ keyboard'.rx = keyboard.rx /\ NextToKeyboard' \in {NextToKeyboard, NoFrame}
         /\ StreamsInv' /\ LinksInv'
<1> USE DEF RcvNewSession, kbdLink, device
<1>1. ~Linked'
  BY DEF Linked
<1>2. dongle'.rx = NoFrame /\ NextToDongle' = NoFrame
  BY <1>1 DEF NextToDongle, Arrives, SessionOf, StreamReset
<1>3. NextToKeyboard' = Arrives(toKbd, kbdSession, keyboard)
  BY <1>1 DEF NextToKeyboard, Arrives, SessionOf
<1>4. Arrives(toKbd, kbdSession, keyboard) \in {NextToKeyboard, NoFrame}
  <2>1. CASE Linked /\ kbdSession \in SessionOf(toKbd)
    <3>1. rcvSession = kbdSession
      BY <2>1 DEF LinksInv, Linked, SessionOf, TypeOK, Packet, Session, NoSession
    <3> QED
      BY <2>1, <3>1
         DEF NextToKeyboard, Arrives, Waits, StreamsInv, Current, TypeOK, StreamType,
             Packet, SessionOf
  <2> QED BY <2>1 DEF NextToKeyboard, Arrives
<1>5. StreamsInv'
  BY <1>1 DEF StreamsInv, Numbered, StreamReset
<1>6. LinksInv'
  BY DEF LinksInv, TypeOK, JobType, SessionOf
<1> QED BY <1>1, <1>2, <1>3, <1>4, <1>5, <1>6

(* A session that begins finds nothing of an earlier one.                   *)
LEMMA SessionBegins ==
  ASSUME TypeOK, LinksInv, StreamsInv, KbdEstablish \/ RcvEstablish
  PROVE  /\ NextToKeyboard' = NextToKeyboard /\ NextToDongle' = NextToDongle /\ Still
         /\ StreamsInv' /\ LinksInv'
<1> USE DEF streams, links, kbdLink, rcvLink, air, host, device
<1>1. CASE KbdEstablish
  <2>1. Linked' = Linked
    BY <1>1 DEF KbdEstablish, Linked, LinksInv, TypeOK
  <2>2. LinksInv'
    BY <1>1 DEF KbdEstablish, LinksInv
  <2>3. StreamsInv'
    BY <1>1, <2>1 DEF KbdEstablish, StreamsInv
  <2>4. kbdSession \notin SessionOf(toKbd) /\ kbdSession' \notin SessionOf(toKbd')
    BY <1>1 DEF KbdEstablish, LinksInv, TypeOK, SessionOf, Packet, Session, NoSession
  <2> QED
    BY <1>1, <2>1, <2>2, <2>3, <2>4
       DEF KbdEstablish, NextToKeyboard, NextToDongle, Arrives, Still
<1>2. CASE RcvEstablish
  <2>1. /\ FreshSession \in Session /\ FreshSession # NoSession
        /\ FreshSession \notin SessionOf(toRcv) \cup SessionOf(toKbd)
    BY FreshIsUnused DEF Session, NoSession
  <2>2. ~Linked /\ Linked' /\ keyboard = StreamReset /\ dongle = StreamReset
    BY <1>2, <2>1 DEF RcvEstablish, Linked, LinksInv
  <2>3. LinksInv'
    BY <1>2, <2>1 DEF RcvEstablish, LinksInv, SessionOf
  <2>4. StreamsInv'
    BY <1>2, <2>1, <2>2
       DEF RcvEstablish, StreamsInv, Numbered, Follows, StreamReset, SessionOf
  <2>5. kbdSession \notin SessionOf(toKbd) /\ rcvSession \notin SessionOf(toRcv)
    BY <1>2 DEF RcvEstablish, TypeOK, SessionOf, Packet, Session, NoSession
  <2> QED
    BY <1>2, <2>2, <2>3, <2>4, <2>5
       DEF RcvEstablish, NextToKeyboard, NextToDongle, Arrives, Waits, StreamReset, Still
<1> QED BY <1>1, <1>2

(* What is packed is not new to anyone, or is what waits.                   *)
LEMMA PacketIsSent ==
  ASSUME TypeOK, LinksInv, StreamsInv, KbdPoll \/ RcvReply
  PROVE  /\ Linked' = Linked
         /\ NextToKeyboard' = NextToKeyboard /\ NextToDongle' = NextToDongle /\ Still
         /\ StreamsInv' /\ LinksInv'
<1> USE DEF streams, links, kbdLink, rcvLink, host, device
<1>1. /\ dongle \in StreamType /\ keyboard \in StreamType
      /\ Numbered(dongle) /\ Numbered(keyboard)
  BY DEF TypeOK, StreamsInv
<1>2. CASE KbdPoll
  <2>1. Linked' = Linked
    BY <1>2 DEF KbdPoll, Linked
  <2>2. CASE toRcv # None \/ replying
    BY <1>2, <2>1, <2>2
       DEF KbdPoll, NextToKeyboard, NextToDongle, Arrives, Still, StreamsInv, LinksInv
  <2>3. CASE toRcv = None /\ ~replying
    <3>1. /\ toRcv' # None /\ toRcv'.session = kbdSession /\ toRcv'.stream = Pack(keyboard)
          /\ SessionOf(toRcv') = {kbdSession}
      BY <1>2, <2>3 DEF KbdPoll, None, SessionOf
    <3>2. toRcv'.stream.data = NoFrame <=> toRcv'.stream.seq = 0
      BY <1>1, <3>1, PackIsCurrent, StreamAssumption DEF Pack, Numbered, StreamType
    <3>3. Linked => Current(toRcv'.stream, dongle, keyboard)
      BY <1>1, <3>1, PackIsCurrent DEF StreamsInv
    <3>4. Linked \/ rcvSession = NoSession
      BY <1>2 DEF KbdPoll, Linked, LinksInv
    <3>5. StreamsInv'
      BY <1>2, <2>1, <3>1, <3>2, <3>3 DEF KbdPoll, StreamsInv
    <3>6. LinksInv'
      BY <1>2, <3>1 DEF KbdPoll, LinksInv
    <3>7. NextToDongle' = NextToDongle
      BY <1>2, <2>1, <2>3, <3>1, <3>4 DEF KbdPoll, NextToDongle, Arrives, SessionOf
    <3> QED
      BY <1>2, <2>1, <3>5, <3>6, <3>7 DEF KbdPoll, NextToKeyboard, Still
  <2> QED BY <1>2, <2>2, <2>3 DEF KbdPoll
<1>3. CASE RcvReply
  <2>1. Linked' = Linked
    BY <1>3 DEF RcvReply, Linked
  <2>2. CASE toKbd # None
    BY <1>3, <2>1, <2>2
       DEF RcvReply, NextToKeyboard, NextToDongle, Arrives, Still, StreamsInv, LinksInv
  <2>3. CASE toKbd = None
    <3>1. /\ toKbd' # None /\ toKbd'.session = rcvSession /\ toKbd'.stream = Pack(dongle)
          /\ SessionOf(toKbd') = {rcvSession}
      BY <1>3, <2>3 DEF RcvReply, None, SessionOf
    <3>2. toKbd'.stream.data = NoFrame <=> toKbd'.stream.seq = 0
      BY <1>1, <3>1, PackIsCurrent, StreamAssumption DEF Pack, Numbered, StreamType
    <3>3. Linked => Current(toKbd'.stream, keyboard, dongle)
      BY <1>1, <3>1, PackIsCurrent DEF StreamsInv
    <3>4. rcvSession # NoSession /\ offer = NoSession /\ (Linked \/ kbdSession = NoSession)
      BY <1>3 DEF RcvReply, Linked, LinksInv
    <3>5. StreamsInv'
      BY <1>3, <2>1, <3>1, <3>2, <3>3 DEF RcvReply, StreamsInv
    <3>6. LinksInv'
      BY <1>3, <3>1, <3>4 DEF RcvReply, LinksInv
    <3>7. NextToKeyboard' = NextToKeyboard
      BY <1>3, <2>1, <2>3, <3>1, <3>4 DEF RcvReply, NextToKeyboard, Arrives, SessionOf
    <3> QED
      BY <1>3, <2>1, <3>5, <3>6, <3>7 DEF RcvReply, NextToDongle, Still
  <2> QED BY <1>3, <2>2, <2>3 DEF RcvReply
<1> QED BY <1>2, <1>3

(* A packet that arrives may deliver the frame that comes next.  Without a  *)
(* session on both sides it can also be the last that would have, and be in *)
(* vain.                                                                    *)
Delivered(rx, rxNext, next, nextNext) ==
  \/ rxNext = rx /\ nextNext = next
  \/ rx = NoFrame /\ rxNext = next /\ nextNext = NoFrame
  \/ ~Linked /\ rxNext = rx /\ nextNext = NoFrame

(* What the dongle receives of the keyboard.                                *)
LEMMA DongleReceives ==
  ASSUME TypeOK, LinksInv, StreamsInv, RcvReceive
  PROVE  /\ Linked' = Linked
         /\ Delivered(dongle.rx, dongle'.rx, NextToDongle, NextToDongle')
         /\ keyboard'.rx = keyboard.rx /\ NextToKeyboard' = NextToKeyboard
         /\ StreamsInv' /\ LinksInv'
<1> USE RcvReceive DEF RcvReceive, links, kbdLink, rcvLink, host, device
<1>1. /\ dongle \in StreamType /\ keyboard \in StreamType
      /\ Numbered(dongle) /\ Numbered(keyboard)
  BY DEF TypeOK, StreamsInv
<1>2. /\ toRcv.stream \in StreamPacket /\ SessionOf(toRcv) = {toRcv.session}
      /\ toRcv.stream.data = NoFrame <=> toRcv.stream.seq = 0
      /\ SessionOf(toRcv') = {}
      /\ toRcv.session # NoSession
  BY DEF TypeOK, Packet, SessionOf, StreamsInv, Session, NoSession
<1>3. /\ rcvSession \in SessionOf(toKbd) => toKbd.stream \in StreamPacket
  BY DEF TypeOK, Packet, SessionOf
<1>4. Linked' = Linked
  BY DEF Linked
<1>5. CASE UNCHANGED <<dongle, replying>>
  <2>1. StreamsInv' /\ LinksInv'
    BY <1>2, <1>4, <1>5 DEF StreamsInv, LinksInv
  <2> QED
    BY <1>2, <1>4, <1>5, <2>1 DEF NextToDongle, NextToKeyboard, Arrives, Delivered
<1>6. CASE /\ toRcv.session = rcvSession /\ dongle' = StreamReceive(dongle, toRcv.stream)
           /\ replying'
  <2> DEFINE got == StreamReceive(dongle, toRcv.stream)
  <2>1. LinksInv'
    BY <1>2, <1>6 DEF LinksInv
  <2>2. CASE Linked
    <3>1. /\ Numbered(got) /\ Follows(got, keyboard) /\ Follows(keyboard, got)
          /\ Waits(keyboard, got) = Waits(keyboard, dongle)
          /\ \/ got.rx = dongle.rx /\ Waits(got, keyboard) = Waits(dongle, keyboard)
             \/ /\ dongle.rx = NoFrame /\ got.rx = Waits(dongle, keyboard)
                /\ Waits(got, keyboard) = NoFrame
          /\ \A q \in StreamPacket : Current(q, keyboard, dongle)
               => Current(q, keyboard, got)
      BY <1>1, <1>2, <1>6, <2>2, ReceiveKeeps DEF StreamsInv
    <3> HIDE DEF got
    <3>2. dongle' = got
      BY <1>6 DEF got
    <3>3. StreamsInv'
      BY <1>2, <1>3, <1>4, <2>2, <3>1, <3>2 DEF StreamsInv
    <3> QED
      BY <1>4, <2>1, <2>2, <3>1, <3>2, <3>3 DEF NextToDongle, NextToKeyboard, Delivered
  <2>3. CASE ~Linked
    <3>1. NextToKeyboard' = NextToKeyboard
      BY <1>4, <2>3 DEF NextToKeyboard
    <3>2. /\ NextToDongle' = NoFrame
          /\ NextToDongle = IF toRcv.stream.seq > dongle.rxSeq
                            THEN toRcv.stream.data ELSE NoFrame
      BY <1>2, <1>4, <1>6, <2>3 DEF NextToDongle, Arrives
    <3>3. /\ dongle'.rx = IF IsNew(dongle, toRcv.stream)
                          THEN toRcv.stream.data ELSE dongle.rx
          /\ dongle'.rxSeq = IF IsNew(dongle, toRcv.stream)
                             THEN toRcv.stream.seq ELSE dongle.rxSeq
          /\ dongle'.txSeq = dongle.txSeq /\ dongle'.tx \in {dongle.tx, NoFrame}
      BY <1>1, <1>6 DEF StreamReceive, Acknowledged, StreamType
    <3>4. StreamsInv'
      BY <1>1, <1>2, <1>4, <2>3, <3>3 DEF StreamsInv, Numbered, IsNew, StreamType,
         StreamPacket
    <3> QED
      BY <1>4, <2>1, <2>3, <3>1, <3>2, <3>3, <3>4 DEF Delivered, IsNew
  <2> QED BY <2>2, <2>3
<1> QED BY <1>5, <1>6

(* What the keyboard receives of the dongle.                                *)
LEMMA KeyboardReceives ==
  ASSUME TypeOK, LinksInv, StreamsInv, KbdReceive
  PROVE  /\ Linked' = Linked
         /\ Delivered(keyboard.rx, keyboard'.rx, NextToKeyboard, NextToKeyboard')
         /\ dongle'.rx = dongle.rx /\ NextToDongle' = NextToDongle
         /\ StreamsInv' /\ LinksInv'
<1> USE KbdReceive DEF KbdReceive, links, kbdLink, rcvLink, host, device
<1>1. /\ dongle \in StreamType /\ keyboard \in StreamType
      /\ Numbered(dongle) /\ Numbered(keyboard)
  BY DEF TypeOK, StreamsInv
<1>2. /\ toKbd.stream \in StreamPacket /\ SessionOf(toKbd) = {toKbd.session}
      /\ toKbd.stream.data = NoFrame <=> toKbd.stream.seq = 0
      /\ SessionOf(toKbd') = {}
      /\ toKbd.session # NoSession
  BY DEF TypeOK, Packet, SessionOf, StreamsInv, Session, NoSession
<1>3. /\ rcvSession \in SessionOf(toRcv) => toRcv.stream \in StreamPacket
  BY DEF TypeOK, Packet, SessionOf
<1>4. Linked' = Linked
  BY DEF Linked
<1>5. CASE UNCHANGED keyboard
  <2>1. StreamsInv' /\ LinksInv'
    BY <1>2, <1>4, <1>5 DEF StreamsInv, LinksInv
  <2> QED
    BY <1>2, <1>4, <1>5, <2>1 DEF NextToDongle, NextToKeyboard, Arrives, Delivered
<1>6. CASE toKbd.session = kbdSession /\ keyboard' = StreamReceive(keyboard, toKbd.stream)
  <2> DEFINE got == StreamReceive(keyboard, toKbd.stream)
  <2>1. LinksInv'
    BY <1>2, <1>6 DEF LinksInv
  <2>2. CASE Linked
    <3>1. rcvSession = kbdSession
      BY <1>2, <1>6, <2>2 DEF Linked, LinksInv
    <3>2. /\ Numbered(got) /\ Follows(got, dongle) /\ Follows(dongle, got)
          /\ Waits(dongle, got) = Waits(dongle, keyboard)
          /\ \/ got.rx = keyboard.rx /\ Waits(got, dongle) = Waits(keyboard, dongle)
             \/ /\ keyboard.rx = NoFrame /\ got.rx = Waits(keyboard, dongle)
                /\ Waits(got, dongle) = NoFrame
          /\ \A q \in StreamPacket : Current(q, dongle, keyboard) => Current(q, dongle, got)
      BY <1>1, <1>2, <1>6, <2>2, <3>1, ReceiveKeeps DEF StreamsInv
    <3> HIDE DEF got
    <3>3. keyboard' = got
      BY <1>6 DEF got
    <3>4. StreamsInv'
      BY <1>2, <1>3, <1>4, <2>2, <3>2, <3>3 DEF StreamsInv
    <3> QED
      BY <1>4, <2>1, <2>2, <3>2, <3>3, <3>4 DEF NextToDongle, NextToKeyboard, Delivered
  <2>3. CASE ~Linked
    <3>1. NextToDongle' = NextToDongle
      BY <1>4, <2>3 DEF NextToDongle
    <3>2. /\ NextToKeyboard' = NoFrame
          /\ NextToKeyboard = IF toKbd.stream.seq > keyboard.rxSeq
                              THEN toKbd.stream.data ELSE NoFrame
      BY <1>2, <1>4, <1>6, <2>3 DEF NextToKeyboard, Arrives
    <3>3. /\ keyboard'.rx = IF IsNew(keyboard, toKbd.stream)
                            THEN toKbd.stream.data ELSE keyboard.rx
          /\ keyboard'.rxSeq = IF IsNew(keyboard, toKbd.stream)
                               THEN toKbd.stream.seq ELSE keyboard.rxSeq
          /\ keyboard'.txSeq = keyboard.txSeq /\ keyboard'.tx \in {keyboard.tx, NoFrame}
      BY <1>1, <1>6 DEF StreamReceive, Acknowledged, StreamType
    <3>4. StreamsInv'
      BY <1>1, <1>2, <1>4, <2>3, <3>3 DEF StreamsInv, Numbered, IsNew, StreamType,
         StreamPacket
    <3> QED
      BY <1>4, <2>1, <2>3, <3>1, <3>2, <3>3, <3>4 DEF Delivered, IsNew
  <2> QED BY <2>2, <2>3
<1> QED BY <1>5, <1>6

(* A packet that is lost takes a frame with it only when nobody has it to   *)
(* send again.                                                              *)
LEMMA PacketIsLost ==
  ASSUME TypeOK, LinksInv, StreamsInv, LosePacket
  PROVE  /\ Linked' = Linked /\ Still
         /\ NextToKeyboard' = NextToKeyboard \/ (~Linked /\ NextToKeyboard' = NoFrame)
         /\ NextToDongle' = NextToDongle \/ (~Linked /\ NextToDongle' = NoFrame)
         /\ StreamsInv' /\ LinksInv'
<1> USE DEF LosePacket, streams, links, kbdLink, rcvLink, host, device
<1>1. Linked' = Linked
  BY DEF Linked
<1>2. StreamsInv' /\ LinksInv'
  BY <1>1 DEF StreamsInv, LinksInv, SessionOf
<1> QED
  BY <1>1, <1>2 DEF Still, NextToKeyboard, NextToDongle, Arrives, SessionOf

-----------------------------------------------------------------------------
(* The jobs, the keyboard's shell and the commands executed                 *)

(* The copies of a job's number.                                            *)
LEMMA CopiesGrow ==
  ASSUME NEW id \in Job, NEW n \in Nat, n < Parts
  PROVE  /\ Append(Copies(n, id), id) = Copies(n + 1, id)
         /\ Copies(n, id) \in Seq(Job) /\ Len(Copies(n, id)) = n
         /\ Copies(0, id) = <<>>
<1>1. /\ Copies(n, id) \in Seq(Job) /\ Len(Copies(n, id)) = n
      /\ Copies(n + 1, id) \in Seq(Job) /\ Len(Copies(n + 1, id)) = n + 1
  BY DEF Copies
<1>2. Copies(0, id) = <<>>
  BY DEF Copies
<1>3. \A i \in 1..(n + 1) : Append(Copies(n, id), id)[i] = Copies(n + 1, id)[i]
  BY <1>1 DEF Copies
<1>4. Append(Copies(n, id), id) = Copies(n + 1, id)
  BY <1>1, <1>3
<1> QED BY <1>1, <1>2, <1>4

(* Who has a frame, or a job or a shell at work, is in a session.           *)
LEMMA LocalLinks ==
  ASSUME LinksInv, UNCHANGED <<kbdLink, rcvSession, air>>,
         rcvSession = NoSession => dongle' = dongle /\ (job'.fresh => job.fresh),
         kbdSession = NoSession =>
           /\ keyboard' = keyboard
           /\ shell'.fresh => shell.fresh
           /\ assemblyFresh' => assemblyFresh
  PROVE  LinksInv'
BY DEF LinksInv, kbdLink, air

(* What the keyboard assembles stays right while it only receives or loses. *)
LEMMA KeyboardKept ==
  ASSUME TypeOK, TypeOK', KeyboardInv, UNCHANGED <<shell, assembling, assemblyFresh>>,
         \/ keyboard'.rx = keyboard.rx /\ NextToKeyboard' \in {NextToKeyboard, NoFrame}
         \/ /\ keyboard.rx = NoFrame
            /\ keyboard'.rx = NextToKeyboard /\ NextToKeyboard' = NoFrame
  PROVE  KeyboardInv'
<1>1. Len(Assembled) \in Nat /\ Assembled' = Assembled /\ Busy' = Busy
  BY DEF Assembled, TypeOK, Busy
<1>2. ~Is(NoFrame, Orders) /\ ~Is(NoFrame, Calls) /\ ~Is(NoFrame, Commands)
  BY DEF Is
<1>3. /\ Count(NoFrame) = 0
      /\ \A f : Is(f, Commands) \/ Is(f, Calls) => Is(f, Orders)
      /\ \A f : Is(f, Orders) => Count(f) = 1
      /\ \A f : ~Is(f, Orders) => Count(f) = 0
  BY DEF Is, Count, Commands, Calls, Orders
<1> HIDE DEF Is, Count
<1>4. CASE keyboard'.rx = keyboard.rx /\ NextToKeyboard' = NextToKeyboard
  BY <1>1, <1>4 DEF KeyboardInv
<1>5. CASE keyboard'.rx = keyboard.rx /\ NextToKeyboard' = NoFrame
  BY <1>1, <1>2, <1>3, <1>5 DEF KeyboardInv
<1>6. CASE /\ keyboard.rx = NoFrame /\ keyboard'.rx = NextToKeyboard
           /\ NextToKeyboard' = NoFrame
  <2>1. /\ shell'.step # "idle" => shell'.id \in Job /\ (assemblyFresh' <=> shell'.fresh)
        /\ shell'.step = "run" => assembling' = Copies(shell'.id, shell'.id)
        /\ shell'.step = "block" => assembling' = <<>>
    BY DEF KeyboardInv
  <2>2. Busy' => ~Is(keyboard'.rx, Orders) /\ ~Is(NextToKeyboard', Orders)
    BY <1>1, <1>2, <1>6 DEF KeyboardInv
  <2>3. Is(keyboard'.rx, Calls) => ~Is(NextToKeyboard', Orders)
    BY <1>2, <1>6
  <2>4. ~Busy' /\ Is(keyboard'.rx, Commands) =>
           NthOf(keyboard'.rx, Len(Assembled') + 1)
             /\ Assembled' = Copies(Len(Assembled'), keyboard'.rx.job)
    BY <1>1, <1>3, <1>2, <1>6 DEF KeyboardInv
  <2> QED BY <1>2, <1>6, <2>1, <2>2, <2>3, <2>4 DEF KeyboardInv
<1> QED BY <1>4, <1>5, <1>6

(* No frame is of no kind, and what has to be answered, or belongs to a     *)
(* command, is an order.                                                    *)
LEMMA FrameFacts ==
  /\ \A kinds : ~Is(NoFrame, kinds)
  /\ Count(NoFrame) = 0
  /\ \A f : Is(f, Commands) \/ Is(f, Calls) => Is(f, Orders)
  /\ \A f : Is(f, Orders) => Count(f) = 1
  /\ \A f : ~Is(f, Orders) => Count(f) = 0
  /\ \A f : Is(f, Answers) => Is(f, Replies)
BY DEF Is, Count, Commands, Calls, Orders, Answers, Replies

(* What is under way for a job stays so while frames only move on.          *)
LEMMA JobKept ==
  ASSUME JobInv,
         UNCHANGED <<job, rcvSession, rcvResync, shell, assembling, assemblyFresh>>,
         Linked' => Linked,
         Linked' =>
           \/ keyboard'.rx = keyboard.rx /\ NextToKeyboard' = NextToKeyboard
           \/ /\ keyboard.rx = NoFrame
              /\ keyboard'.rx = NextToKeyboard /\ NextToKeyboard' = NoFrame,
         \/ dongle'.rx \in {dongle.rx, NoFrame} /\ NextToDongle' \in {NextToDongle, NoFrame}
         \/ dongle.rx = NoFrame /\ dongle'.rx = NextToDongle /\ NextToDongle' = NoFrame
  PROVE  JobInv'
<1>1. Assembled' = Assembled /\ (Busy' <=> Busy) /\ (Asks' <=> Asks)
  BY DEF Assembled, Busy, Asks
<1>2. ~rcvResync' =>
        /\ ~job'.fresh \/ Asks' => ~Is(dongle'.rx, Replies) /\ ~Is(NextToDongle', Replies)
        /\ \A f \in {dongle'.rx, NextToDongle'} : job'.fresh /\ Is(f, Replies)
             => f.job = job'.id
        /\ Is(dongle'.rx, Answers) => ~Is(NextToDongle', Replies)
  BY <1>1, FrameFacts DEF JobInv
<1>3. Linked' => (Clear => Clear') /\ (Underway => Underway')
  BY <1>1, FrameFacts DEF Clear, Underway
<1>4. Is(dongle'.rx, Answers) \/ Is(NextToDongle', Answers)
        => Is(dongle.rx, Answers) \/ Is(NextToDongle, Answers)
  BY FrameFacts
<1>5. ~rcvResync' /\ Linked' =>
        /\ ~job'.fresh \/ (Asks' /\ job'.kind = "update") => Clear'
        /\ Is(dongle'.rx, Answers) \/ Is(NextToDongle', Answers) => Clear'
        /\ Asks' /\ job'.kind = "command" => Underway'
        /\ job'.fresh =>
             /\ Busy' => shell'.id = job'.id
             /\ \A f \in {keyboard'.rx, NextToKeyboard'} : Is(f, Orders) => f.job = job'.id
  BY <1>1, <1>3, <1>4, FrameFacts DEF JobInv
<1>6. /\ job'.fresh => job'.step # "idle" /\ rcvSession' # NoSession
      /\ job'.step # "idle" => job'.id \in Job /\ job'.left <= job'.id /\ ~rcvResync'
      /\ job'.step = "send" => job'.left > 0
  BY DEF JobInv
<1> QED BY <1>2, <1>5, <1>6 DEF JobInv

(* No command comes again that was not to come before.                      *)
LEMMA ExecutedKept ==
  ASSUME ExecutedInv, UNCHANGED <<job, executed>>,
         keyboard'.rx \in {keyboard.rx, NextToKeyboard, NoFrame},
         NextToKeyboard' \in {NextToKeyboard, NoFrame}
  PROVE  ExecutedInv'
BY FrameFacts DEF ExecutedInv, Asks

(* The radio threads keep the invariant: frames only move on, or are gone   *)
(* with their session.                                                      *)
LEMMA RadioKeeps ==
  ASSUME TypeOK, TypeOK', ShellInv,
         Sessioning \/ Traffic \/ KbdTimeout \/ RcvTimeout \/ LosePacket
  PROVE  ShellInv'
<1> USE DEF ShellInv
<1>1. CASE KbdNewSession
  <2>1. /\ ~Linked' /\ keyboard'.rx = NoFrame /\ NextToKeyboard' = NoFrame
        /\ dongle'.rx = dongle.rx /\ NextToDongle' \in {NextToDongle, NoFrame}
        /\ StreamsInv' /\ LinksInv'
    BY <1>1, KeyboardRestarts
  <2>2. /\ UNCHANGED <<job, rcvSession, rcvResync, assembling, executed>>
        /\ ~assemblyFresh' /\ ~shell'.fresh
        /\ shell'.step = shell.step /\ shell'.id = shell.id
    BY <1>1 DEF KbdNewSession, rcvLink, host, TypeOK, ShellType
  <2>3. KeyboardInv'
    BY <2>1, <2>2, FrameFacts DEF KeyboardInv, Busy
  <2>4. JobInv'
    BY <2>1, <2>2, FrameFacts DEF JobInv, Asks
  <2>5. ExecutedInv'
    BY <2>1, <2>2, ExecutedKept
  <2> QED BY <2>1, <2>3, <2>4, <2>5
<1>2. CASE RcvNewSession
  <2>1. /\ ~Linked' /\ dongle'.rx = NoFrame /\ NextToDongle' = NoFrame
        /\ keyboard'.rx = keyboard.rx /\ NextToKeyboard' \in {NextToKeyboard, NoFrame}
        /\ StreamsInv' /\ LinksInv'
    BY <1>2, DongleRestarts
  <2>2. /\ UNCHANGED <<shell, assembling, assemblyFresh, executed>>
        /\ ~rcvResync' /\ ~job'.fresh
        /\ job'.step = job.step /\ job'.id = job.id /\ job'.left = job.left
    BY <1>2 DEF RcvNewSession, device, TypeOK, JobType
  <2>3. KeyboardInv'
    BY <2>1, <2>2, KeyboardKept
  <2>4. JobInv'
    BY <2>1, <2>2, FrameFacts DEF JobInv, Asks
  <2>5. ExecutedInv'
    BY <2>1, <2>2, FrameFacts DEF ExecutedInv, Asks
  <2> QED BY <2>1, <2>3, <2>4, <2>5
<1>3. CASE KbdEstablish \/ RcvEstablish
  <2>1. /\ NextToKeyboard' = NextToKeyboard /\ NextToDongle' = NextToDongle /\ Still
        /\ StreamsInv' /\ LinksInv'
    BY <1>3, SessionBegins
  <2>2. UNCHANGED <<rcvResync, job, shell, assembling, assemblyFresh, executed>>
    BY <1>3 DEF KbdEstablish, RcvEstablish, rcvLink, host, device
  <2>3. KeyboardInv'
    BY <2>1, <2>2, KeyboardKept DEF Still
  <2>4. ExecutedInv'
    BY <2>1, <2>2, ExecutedKept DEF Still
  <2>5. CASE KbdEstablish
    <3>1. Linked' = Linked /\ rcvSession' = rcvSession
      BY <2>5 DEF KbdEstablish, Linked, LinksInv, TypeOK, rcvLink
    <3>2. JobInv'
      BY <2>1, <2>2, <3>1, JobKept DEF Still
    <3> QED BY <2>1, <2>3, <2>4, <3>2
  <2>6. CASE RcvEstablish
    <3>1. /\ keyboard.rx = NoFrame /\ dongle.rx = NoFrame /\ ~job.fresh /\ ~Busy
          /\ Assembled = <<>>
      BY <2>6 DEF RcvEstablish, LinksInv, StreamReset, Busy, Assembled
    <3>2. ~Linked /\ NextToKeyboard = NoFrame /\ NextToDongle = NoFrame
      BY <2>6 DEF RcvEstablish, Linked, NextToKeyboard, NextToDongle, Arrives,
         SessionOf, TypeOK, Packet, Session, NoSession
    <3>3. Clear' /\ ~job'.fresh /\ ~Asks'
      BY <2>1, <2>2, <3>1, <3>2, FrameFacts DEF Clear, Still, Busy, Assembled, Asks
    <3>4. JobInv'
      BY <2>1, <2>2, <3>1, <3>2, <3>3, FrameFacts DEF JobInv, Still
    <3> QED BY <2>1, <2>3, <2>4, <3>4
  <2> QED BY <1>3, <2>5, <2>6
<1>4. CASE KbdPoll \/ RcvReply \/ RcvReceive \/ KbdReceive \/ LosePacket
  <2>1. UNCHANGED <<rcvSession, rcvResync, job, shell, assembling, assemblyFresh, executed>>
    BY <1>4 DEF KbdPoll, RcvReply, RcvReceive, KbdReceive, LosePacket, links, rcvLink,
       host, device
  <2>2. /\ Linked' = Linked /\ StreamsInv' /\ LinksInv'
        /\ Delivered(keyboard.rx, keyboard'.rx, NextToKeyboard, NextToKeyboard')
        /\ Delivered(dongle.rx, dongle'.rx, NextToDongle, NextToDongle')
    BY <1>4, PacketIsSent, DongleReceives, KeyboardReceives, PacketIsLost DEF Delivered,
       Still
  <2>3. KeyboardInv'
    BY <2>1, <2>2, KeyboardKept DEF Delivered
  <2>4. JobInv'
    BY <2>1, <2>2, JobKept DEF Delivered
  <2>5. ExecutedInv'
    BY <2>1, <2>2, ExecutedKept DEF Delivered
  <2> QED BY <2>2, <2>3, <2>4, <2>5
<1> QED
  BY <1>1, <1>2, <1>3, <1>4
     DEF Sessioning, Traffic, KbdSilence, RcvRestart, RcvSilence, KbdTimeout, RcvTimeout

(* What the dongle takes or loses of its own disturbs nothing else.         *)
LEMMA DongleUses ==
  ASSUME TypeOK, TypeOK', ShellInv, UNCHANGED device,
         LinksInv', StreamsInv', JobInv',
         keyboard'.rx = keyboard.rx, NextToKeyboard' = NextToKeyboard,
         executed' \subseteq executed,
         Asks' /\ job'.kind = "command" => job'.id \notin executed'
  PROVE  ShellInv'
BY KeyboardKept, FrameFacts DEF ShellInv, device, ExecutedInv

(* A job starts when nothing of an earlier one is under way, with a number  *)
(* of its own.                                                              *)
LEMMA JobStarts ==
  ASSUME TypeOK, TypeOK', ShellInv, JobStart
  PROVE  ShellInv'
<1> USE DEF ShellInv, links, kbdLink, rcvLink
<1>1. /\ Linked' = Linked
      /\ NextToKeyboard' = NextToKeyboard /\ NextToDongle' = NextToDongle
      /\ Still /\ StreamsInv'
  BY NothingMoves DEF JobStart
<1>2. LinksInv'
  BY LocalLinks DEF JobStart, streams
<1>3. PICK kind \in {"command", "update"}, id \in Job \ JobsInUse :
        /\ job' = [step |-> "send", kind |-> kind, id |-> id, left |-> id, fresh |-> TRUE]
        /\ executed' = executed \ {id}
  BY DEF JobStart
<1>4. /\ ~job.fresh /\ ~rcvResync /\ rcvSession # NoSession
      /\ UNCHANGED <<rcvResync, rcvSession, shell, assembling, assemblyFresh>>
  BY DEF JobStart, JobInv
<1>5. /\ ~Is(dongle.rx, Replies) /\ ~Is(NextToDongle, Replies)
      /\ Linked => Clear
  BY <1>4 DEF JobInv
<1>6. /\ job'.step = "send" /\ job'.id = id /\ job'.left = id /\ job'.fresh
      /\ id \in Job /\ id \in Nat /\ id > 0 /\ Asks'
  BY <1>3, ShellLinkAssumption DEF Job, Asks
<1>7. Linked' => Clear' /\ Underway'
  <2>1. Assembled' = Assembled /\ Busy' = Busy /\ Clear' = Clear
    BY <1>1, <1>4 DEF Assembled, Busy, Clear, Still
  <2>2. Copies(0, id) = <<>> /\ Len(<<>>) = 0
    BY <1>6 DEF Copies
  <2> QED
    BY <1>1, <1>5, <1>6, <2>1, <2>2, FrameFacts DEF Clear, Underway, Still
<1>8. JobInv'
  BY <1>1, <1>4, <1>5, <1>6, <1>7, FrameFacts DEF JobInv, Still, Clear
<1>9. KeyboardInv'
  BY <1>1, <1>4, KeyboardKept DEF Still
<1>10. ExecutedInv'
  BY <1>1, <1>3, <1>6 DEF ExecutedInv, Still
<1> QED BY <1>1, <1>2, <1>8, <1>9, <1>10

(* The part of a job that is sent next is one more of its command, or the   *)
(* only block of its upload.                                                *)
LEMMA JobSends ==
  ASSUME TypeOK, TypeOK', ShellInv, JobSend
  PROVE  ShellInv'
<1> USE DEF ShellInv, links
<1> DEFINE f == Frame(PartKind, job.id)
<1>1. /\ f \in Frames /\ f.kind = PartKind /\ f.job = job.id
      /\ f # NoFrame
  BY FrameTypes, StreamAssumption DEF JobSend, JobInv, PartKind, FrameKinds, Frame
<1>2. /\ rcvSession # NoSession /\ job.fresh
      /\ ~rcvResync /\ job.step = "send" /\ job.left > 0
      /\ job.left <= job.id /\ Asks /\ job.id \in Job
      /\ UNCHANGED <<rcvSession, rcvResync, shell, assembling, assemblyFresh, executed>>
  BY DEF JobSend, SendAllowed, JobInv, Asks, device, rcvLink
<1>3. /\ Linked' = Linked
      /\ IF Linked THEN NextToKeyboard = NoFrame /\ NextToKeyboard' = f
                   ELSE NextToKeyboard' = NextToKeyboard
      /\ NextToDongle' = NextToDongle /\ Still
      /\ StreamsInv'
  BY <1>1, DonglePuts DEF JobSend, SendAllowed, rcvLink
<1>4. LinksInv'
  BY <1>2, LocalLinks DEF JobSend
<1>5. /\ job' \in JobType /\ job'.fresh /\ job'.id = job.id /\ job'.left = job.left - 1
      /\ job'.kind = job.kind
      /\ job'.step = IF job.kind = "update" \/ job.left = 1 THEN "read" ELSE "send"
  BY <1>2 DEF JobSend, TypeOK, JobType
<1>6. Assembled' = Assembled /\ (Busy' <=> Busy) /\ Len(Assembled) \in Nat
  BY <1>2 DEF Assembled, Busy, TypeOK
<1>7. job.kind \in {"command", "update"} /\ job.id \in Nat /\ job.left \in Nat
  BY <1>2, ShellLinkAssumption DEF TypeOK, JobType, Job
<1> HIDE DEF f
<1>8. CASE ~Linked
  <2>1. KeyboardInv'
    BY <1>2, <1>3, <1>8, KeyboardKept DEF Still
  <2>2. JobInv'
    BY <1>2, <1>3, <1>5, <1>7, <1>8 DEF JobInv, Asks, Still
  <2>3. ExecutedInv'
    BY <1>2, <1>3, <1>5, <1>8 DEF ExecutedInv, Asks, Still
  <2> QED BY <1>3, <1>4, <2>1, <2>2, <2>3
<1>9. CASE Linked /\ job.kind = "update"
  <2>1. Clear
    BY <1>2, <1>9 DEF JobInv
  <2>2. f.kind = "UPDATE_DATA" /\ keyboard'.rx = keyboard.rx /\ NextToKeyboard' = f
    BY <1>1, <1>3, <1>9 DEF PartKind, Still
  <2>3. ~Is(f, Commands) /\ ~Is(f, {"COMMAND_END"}) /\ ~Asks'
    BY <1>5, <1>9, <2>2 DEF Is, Commands, Asks
  <2>4. KeyboardInv'
    BY <1>2, <1>6, <2>1, <2>2, <2>3, FrameFacts DEF KeyboardInv, Clear
  <2>5. ~Is(dongle.rx, Replies) /\ ~Is(NextToDongle, Replies)
    BY <1>2 DEF JobInv
  <2>6. JobInv'
    BY <1>1, <1>2, <1>3, <1>5, <1>6, <1>7, <1>9, <2>1, <2>2, <2>3, <2>5, FrameFacts
       DEF JobInv, Still, Clear
  <2>7. ExecutedInv'
    BY <1>2, <2>1, <2>2, <2>3, FrameFacts DEF ExecutedInv, Clear
  <2> QED BY <1>3, <1>4, <2>4, <2>6, <2>7
<1>10. CASE Linked /\ job.kind = "command"
  <2>1. Underway
    BY <1>2, <1>10 DEF JobInv
  <2>2. /\ f.kind = IF job.left = 1 THEN "COMMAND_END" ELSE "COMMAND"
        /\ keyboard'.rx = keyboard.rx /\ NextToKeyboard = NoFrame /\ NextToKeyboard' = f
    BY <1>1, <1>3, <1>10 DEF PartKind, Still
  <2>3. /\ Is(f, Commands) /\ Is(f, Orders) /\ Count(f) = 1 /\ (Is(f, Calls) <=> job.left = 1)
        /\ Is(f, {"COMMAND_END"}) <=> job.left = 1
    BY <1>1, <2>2 DEF Is, Commands, Orders, Calls, Count
  <2>4. Count(keyboard.rx) \in {0, 1}
    BY DEF Count
  <2> DEFINE n == Len(Assembled)
             m == n + Count(keyboard.rx)
  <2>5. /\ ~Busy /\ Assembled = Copies(n, job.id)
        /\ m = job.id - job.left /\ m \in Nat /\ n \in Nat
        /\ ~Is(keyboard.rx, Calls)
    BY <1>6, <1>7, <2>1, <2>2, <2>4, FrameFacts DEF Underway
  <2>6. NthOf(f, m + 1)
    <3>1. m + 1 = job.id - job.left + 1 /\ m + 1 <= job.id /\ (job.left = 1 <=> m + 1 = job.id)
      BY <1>2, <1>7, <2>5
    <3>2. f.kind = "COMMAND_END" <=> job.left = 1
      BY <2>2
    <3> QED BY <1>1, <3>1, <3>2 DEF NthOf
  <2>7. Is(keyboard.rx, Orders) => keyboard.rx.job = job.id
    BY <1>2, <1>10 DEF JobInv
  <2>8. Is(keyboard.rx, Commands)
          => NthOf(keyboard.rx, n + 1) /\ Assembled = Copies(n, keyboard.rx.job)
    BY <2>5 DEF KeyboardInv
  <2>9. KeyboardInv'
    BY <1>1, <1>2, <1>6, <2>2, <2>3, <2>5, <2>6, <2>7, <2>8 DEF KeyboardInv
  <2>10. ~Is(dongle.rx, Replies) /\ ~Is(NextToDongle, Replies)
    BY <1>2 DEF JobInv
  <2>11. Asks' => Underway'
    BY <1>5, <1>6, <1>7, <1>10, <2>2, <2>3, <2>5 DEF Underway, Asks
  <2>12. JobInv'
    BY <1>1, <1>2, <1>3, <1>5, <1>6, <1>7, <1>10, <2>2, <2>5, <2>7, <2>10, <2>11,
       FrameFacts DEF JobInv, Still
  <2>13. ExecutedInv'
    BY <1>1, <1>2, <1>5, <1>10, <2>2, FrameFacts DEF ExecutedInv, Asks
  <2> QED BY <1>3, <1>4, <2>9, <2>12, <2>13
<1> QED BY <1>7, <1>8, <1>9, <1>10

(* An answer ends the job, and after it nothing of the job is under way.    *)
LEMMA JobReads ==
  ASSUME TypeOK, TypeOK', ShellInv, JobRead
  PROVE  ShellInv'
<1> USE DEF ShellInv, links
<1>1. /\ Linked' = Linked
      /\ NextToKeyboard' = NextToKeyboard /\ NextToDongle' = NextToDongle
      /\ keyboard'.rx = keyboard.rx /\ dongle'.rx = NoFrame
      /\ StreamsInv'
  BY DongleTakes DEF JobRead, rcvLink
<1>2. rcvSession # NoSession
  BY DEF JobRead, JobInv
<1>3. UNCHANGED <<rcvSession, rcvResync, shell, assembling, assemblyFresh, executed>>
  BY DEF JobRead, device, rcvLink
<1>4. LinksInv'
  BY <1>2, <1>3, LocalLinks DEF JobRead
<1>5. KeyboardInv'
  BY <1>1, <1>3, KeyboardKept
<1>6. CASE job' = job
  <2>1. JobInv'
    BY <1>1, <1>3, <1>6, JobKept
  <2> QED BY <1>1, <1>3, <1>4, <1>5, <1>6, <2>1, ExecutedKept
<1>7. CASE dongle.rx.kind # "OUTPUT"
  <2>1. job.fresh /\ job.step = "read" /\ job.kind \in {"command", "update"} /\ ~rcvResync
    BY DEF JobRead, JobInv, TypeOK, JobType
  <2>2. Is(dongle.rx, Answers)
    BY <1>7, <2>1 DEF JobRead, Expected, Is, Answers
  <2>3. ~Is(NextToDongle, Replies) /\ (Linked => Clear)
    BY <2>1, <2>2 DEF JobInv
  <2>4. \/ /\ job' = IdleJob
           /\ ~job'.fresh /\ job'.step = "idle"
        \/ /\ job.kind = "update" /\ job.left > 0
           /\ job'.step = "send" /\ job'.left = job.left
           /\ job'.id = job.id /\ job'.kind = "update"
           /\ job'.fresh
    BY <1>7, <2>1 DEF JobRead, IdleJob, TypeOK, JobType
  <2>5. Clear' = Clear
    BY <1>1, <1>3 DEF Clear, Busy, Assembled
  <2>6. JobInv'
    BY <1>1, <1>2, <1>3, <2>1, <2>3, <2>4, <2>5, FrameFacts DEF JobInv, Asks, Clear
  <2>7. ~(Asks' /\ job'.kind = "command")
    BY <2>4 DEF Asks
  <2>8. ExecutedInv'
    BY <1>1, <1>3, <2>7 DEF ExecutedInv
  <2> QED BY <1>1, <1>4, <1>5, <2>6, <2>8
<1> QED BY <1>6, <1>7 DEF JobRead

(* A job that is given up takes the session with it.                        *)
LEMMA JobGivesUp ==
  ASSUME TypeOK, TypeOK', ShellInv, JobError \/ JobTimeout
  PROVE  ShellInv'
<1> USE DEF ShellInv
<1>1. dongle' = dongle \/ (dongle' = TakeFrame(dongle) /\ dongle.rx # NoFrame)
  BY DEF JobError, JobTimeout
<1>2. JobFails
  BY DEF JobError, JobTimeout
<1>3. job' = IdleJob /\ rcvResync' /\ UNCHANGED <<keyboard, kbdLink, rcvSession, air,
                                                  live, device>>
  BY <1>2 DEF JobFails
<1>4. /\ StreamsInv' /\ keyboard'.rx = keyboard.rx /\ NextToKeyboard' = NextToKeyboard
  BY <1>1, <1>3, DongleTakes, NothingMoves DEF streams, Still
<1>5. ~job'.fresh /\ job'.step = "idle" /\ ~Asks'
  BY <1>3 DEF IdleJob, Asks
<1>6. rcvSession = NoSession => dongle' = dongle
  BY <1>1 DEF LinksInv, StreamReset
<1>7. LinksInv'
  BY <1>3, <1>5, <1>6, LocalLinks DEF device
<1>8. JobInv'
  BY <1>3, <1>5 DEF JobInv
<1> QED BY <1>3, <1>4, <1>5, <1>7, <1>8, DongleUses DEF device

(* An upload that is left between two blocks leaves nothing behind.         *)
LEMMA JobLeaves ==
  ASSUME TypeOK, TypeOK', ShellInv, JobCancelled
  PROVE  ShellInv'
<1> USE DEF ShellInv, JobCancelled
<1>1. /\ Linked' = Linked
      /\ NextToKeyboard' = NextToKeyboard /\ NextToDongle' = NextToDongle
      /\ Still /\ StreamsInv'
  BY NothingMoves DEF links, rcvLink
<1>2. ~job'.fresh /\ job'.step = "idle" /\ ~Asks'
  BY DEF IdleJob, Asks
<1>3. LinksInv'
  BY <1>2, LocalLinks DEF links, rcvLink, streams, device
<1>4. ~rcvResync /\ rcvResync' = rcvResync
  BY DEF JobInv, links, rcvLink
<1>5. /\ ~Is(dongle.rx, Replies) /\ ~Is(NextToDongle, Replies)
      /\ Linked => Clear
  BY <1>4 DEF JobInv, Asks
<1>6. Clear' = Clear
  BY <1>1 DEF Clear, Busy, Assembled, Still, device
<1>7. JobInv'
  BY <1>1, <1>2, <1>4, <1>5, <1>6, FrameFacts DEF JobInv, Still, Clear
<1> QED BY <1>1, <1>2, <1>3, <1>7, DongleUses DEF Still, device

(* Studio's frames are neither orders nor replies.                          *)
LEMMA StudioFrames ==
  /\ \A kinds \in {Commands, Orders, Calls, {"COMMAND_END"}} :
       ~Is(Frame("STUDIO_DATA", NoJob), kinds)
  /\ \A kinds \in {Answers, Replies} : ~Is(Frame("STUDIO_REPLY", NoJob), kinds)
  /\ Count(Frame("STUDIO_DATA", NoJob)) = 0
BY DEF Is, Frame, Commands, Orders, Calls, Answers, Replies, Count

(* What the bridge sends and takes is no business of the shells.            *)
LEMMA BridgeUses ==
  ASSUME TypeOK, TypeOK', ShellInv, Bridge
  PROVE  ShellInv'
<1> USE DEF ShellInv
<1>1. /\ UNCHANGED <<job, rcvSession, rcvResync, keyboard, kbdLink, air, device>>
      /\ UNCHANGED <<shell, assembling, assemblyFresh, executed>>
  BY DEF Bridge, BridgeSend, BridgeRead, BridgeIdle, links, rcvLink, host, device,
     streams
<1>2. rcvSession = NoSession => dongle' = dongle
  BY DEF Bridge, BridgeSend, BridgeRead, BridgeIdle, LinksInv, StreamReset, streams
<1>3. LinksInv'
  BY <1>1, <1>2, LocalLinks
<1>4. CASE dongle' = dongle
  <2>1. /\ Linked' = Linked
        /\ NextToKeyboard' = NextToKeyboard /\ NextToDongle' = NextToDongle
        /\ Still /\ StreamsInv'
    BY <1>1, <1>4, NothingMoves DEF streams
  <2>2. JobInv' /\ KeyboardInv' /\ ExecutedInv'
    BY <1>1, <2>1, JobKept, KeyboardKept, ExecutedKept DEF Still
  <2> QED BY <1>3, <2>1, <2>2
<1>5. CASE dongle' = TakeFrame(dongle)
  <2>1. /\ Linked' = Linked
        /\ NextToKeyboard' = NextToKeyboard /\ NextToDongle' = NextToDongle
        /\ keyboard'.rx = keyboard.rx /\ dongle'.rx = NoFrame
        /\ StreamsInv'
    BY <1>1, <1>5, DongleTakes
  <2>2. JobInv' /\ KeyboardInv' /\ ExecutedInv'
    BY <1>1, <2>1, JobKept, KeyboardKept, ExecutedKept
  <2> QED BY <1>3, <2>1, <2>2
<1>6. CASE /\ rcvSession # NoSession /\ CanPut(dongle)
           /\ dongle' = PutFrame(dongle, Frame("STUDIO_DATA", NoJob))
  <2> DEFINE f == Frame("STUDIO_DATA", NoJob)
  <2>1. f \in Frames
    BY FrameTypes
  <2>2. /\ ~Is(f, Commands) /\ ~Is(f, Orders) /\ ~Is(f, Calls) /\ ~Is(f, {"COMMAND_END"})
        /\ Count(f) = 0
    BY StudioFrames
  <2> HIDE DEF f
  <2>3. /\ Linked' = Linked
        /\ IF Linked THEN NextToKeyboard = NoFrame /\ NextToKeyboard' = f
                     ELSE NextToKeyboard' = NextToKeyboard
        /\ NextToDongle' = NextToDongle /\ Still
        /\ StreamsInv'
    BY <1>1, <1>6, <2>1, DonglePuts DEF f
  <2>4. CASE ~Linked
    <3>1. JobInv' /\ KeyboardInv' /\ ExecutedInv'
      BY <1>1, <2>3, <2>4, JobKept, KeyboardKept, ExecutedKept DEF Still
    <3> QED BY <1>3, <2>3, <3>1
  <2>5. CASE Linked
    <3>1. /\ Assembled' = Assembled /\ (Busy' <=> Busy) /\ (Asks' <=> Asks)
          /\ keyboard'.rx = keyboard.rx /\ dongle'.rx = dongle.rx
          /\ NextToKeyboard = NoFrame /\ NextToKeyboard' = f
      BY <1>1, <2>3, <2>5 DEF Assembled, Busy, Asks, Still
    <3>2. KeyboardInv'
      BY <1>1, <2>2, <3>1, FrameFacts DEF KeyboardInv
    <3>3. (Clear' <=> Clear) /\ (Underway' <=> Underway)
      BY <1>1, <2>2, <3>1, FrameFacts DEF Clear, Underway
    <3>4. JobInv'
      BY <1>1, <2>2, <2>3, <2>5, <3>1, <3>3, FrameFacts DEF JobInv
    <3>5. ExecutedInv'
      BY <1>1, <2>2, <3>1 DEF ExecutedInv
    <3> QED BY <1>3, <2>3, <3>2, <3>4, <3>5
  <2> QED BY <2>4, <2>5
<1> QED
  BY <1>4, <1>5, <1>6 DEF Bridge, BridgeSend, BridgeRead, BridgeIdle, streams

(* The keyboard takes an order only from the job that waits for it, and in  *)
(* its session: nothing is left of another.                                 *)
LEMMA OrderIsOwn ==
  ASSUME TypeOK, ShellInv, ~Busy, Is(keyboard.rx, Orders)
  PROVE  /\ kbdSession # NoSession
         /\ rcvSession # NoSession => Linked
         /\ Linked /\ ~rcvResync =>
              /\ ~Is(dongle.rx, Answers) /\ ~Is(NextToDongle, Answers)
              /\ job.fresh /\ keyboard.rx.job = job.id
              /\ Asks => job.kind = "command" /\ ~Is(keyboard.rx, Calls)
         /\ Is(keyboard.rx, Calls) => ~Is(NextToKeyboard, Orders) /\ (Asks => rcvResync)
<1> USE DEF ShellInv
<1>1. kbdSession # NoSession /\ (rcvSession # NoSession => Linked)
  BY FrameFacts DEF LinksInv, StreamReset, Linked
<1>2. Linked /\ ~rcvResync =>
        /\ ~Is(dongle.rx, Answers) /\ ~Is(NextToDongle, Answers)
        /\ job.fresh /\ keyboard.rx.job = job.id
        /\ Asks => job.kind = "command" /\ ~Is(keyboard.rx, Calls)
  BY DEF JobInv, Clear, Underway, Asks, TypeOK, JobType
<1>3. Asks => rcvSession # NoSession
  BY DEF JobInv, Asks
<1> QED BY <1>1, <1>2, <1>3 DEF KeyboardInv

(* A frame of a command extends what was assembled of it; the last one      *)
(* makes it whole, and the keyboard executes what it never executed.        *)
LEMMA CommandIsRead ==
  ASSUME TypeOK, TypeOK', ShellInv, ReadCommand
  PROVE  ShellInv'
<1> USE DEF ShellInv, links, kbdLink, rcvLink, host
<1> DEFINE f == keyboard.rx
           n == Len(Assembled)
           m == n + 1
<1>1. /\ shell.step = "idle" /\ ~Busy /\ Is(f, Commands) /\ Is(f, Orders) /\ Count(f) = 1
      /\ Is(f, Calls) <=> f.kind = "COMMAND_END"
      /\ Is(f, {"COMMAND_END"}) <=> f.kind = "COMMAND_END"
  BY DEF ReadCommand, Readable, Busy, Is, Commands, Orders, Calls, Count
<1>2. /\ Linked' = Linked
      /\ NextToKeyboard' = NextToKeyboard /\ NextToDongle' = NextToDongle
      /\ keyboard'.rx = NoFrame /\ dongle'.rx = dongle.rx
      /\ StreamsInv'
  BY KeyboardTakes DEF ReadCommand
<1>3. n \in Nat /\ f.job \in Job /\ f.job \in Nat /\ f.job <= Parts
  <2>1. f \in Frames /\ f.kind \in FrameKinds
    BY <1>1 DEF Is, Commands, TypeOK, StreamType, FrameKinds
  <2> QED BY <2>1, FrameTypes, ShellLinkAssumption DEF Assembled, TypeOK, Job
<1>4. NthOf(f, m) /\ Assembled = Copies(n, f.job)
  BY <1>1 DEF KeyboardInv
<1>5. m <= f.job /\ m <= Parts /\ (f.kind = "COMMAND_END" <=> m = f.job)
  <2>1. m <= f.job /\ (f.kind = "COMMAND_END" <=> m = f.job)
    BY <1>4 DEF NthOf
  <2>2. n \in Nat /\ m = n + 1
    BY <1>3
  <2> HIDE DEF n, m, f
  <2> QED BY <1>3, <2>1, <2>2, ShellLinkAssumption
<1>6. Append(Assembled, f.job) = Copies(m, f.job) /\ Len(Copies(m, f.job)) = m
  <2>1. n < Parts
    BY <1>3, <1>5, ShellLinkAssumption
  <2>2. Append(Copies(n, f.job), f.job) = Copies(m, f.job)
    BY <1>3, <2>1, CopiesGrow
  <2>3. Len(Append(Assembled, f.job)) = m
    BY DEF Assembled, TypeOK
  <2> QED BY <1>4, <2>2, <2>3
<1>7. /\ assembling' = Copies(m, f.job) /\ assemblyFresh' /\ Assembled' = Copies(m, f.job)
      /\ Len(Assembled') = m
      /\ IF f.kind = "COMMAND_END"
         THEN /\ shell' = [step |-> "run", id |-> f.job, fresh |-> TRUE]
              /\ executed' = executed \cup {f.job}
         ELSE shell' = shell /\ executed' = executed
  BY <1>5, <1>6 DEF ReadCommand, Assembled
<1>8. UNCHANGED <<job, rcvSession, rcvResync, dongle, kbdLink, air>>
  BY DEF ReadCommand
<1> HIDE DEF n, m
<1>9. /\ kbdSession # NoSession
      /\ rcvSession # NoSession => Linked
      /\ Linked /\ ~rcvResync =>
           /\ ~Is(dongle.rx, Answers) /\ ~Is(NextToDongle, Answers)
           /\ job.fresh /\ keyboard.rx.job = job.id
           /\ Asks => job.kind = "command" /\ ~Is(keyboard.rx, Calls)
      /\ Is(keyboard.rx, Calls) => ~Is(NextToKeyboard, Orders) /\ (Asks => rcvResync)
  BY <1>1, OrderIsOwn
<1>10. LinksInv'
  BY <1>8, <1>9, LocalLinks
<1>11. KeyboardInv'
  <2>1. CASE f.kind = "COMMAND_END"
    <3>1. Busy' /\ shell'.step = "run" /\ shell'.id = f.job /\ shell'.fresh
      BY <1>7, <2>1 DEF Busy
    <3>2. assembling' = Copies(f.job, f.job)
      BY <1>5, <1>7, <2>1
    <3> QED BY <1>1, <1>2, <1>3, <1>7, <1>9, <2>1, <3>1, <3>2,
               FrameFacts DEF KeyboardInv
  <2>2. CASE f.kind # "COMMAND_END"
    <3>1. ~Busy' /\ shell'.step = "idle"
      BY <1>1, <1>7, <2>2 DEF Busy
    <3>2. Is(NextToKeyboard, Commands) =>
            /\ NthOf(NextToKeyboard, m + 1) /\ f.job = NextToKeyboard.job
      BY <1>1, FrameFacts DEF KeyboardInv, n, m
    <3>3. m + 0 + 1 = m + 1
      BY <1>3 DEF m
    <3> QED BY <1>1, <1>2, <1>7, <3>1, <3>2, <3>3, FrameFacts DEF KeyboardInv
  <2> QED BY <2>1, <2>2
<1>12. JobInv'
  <2>1. /\ ~rcvResync' =>
             /\ ~job'.fresh \/ Asks'
                  => ~Is(dongle'.rx, Replies) /\ ~Is(NextToDongle', Replies)
             /\ \A g \in {dongle'.rx, NextToDongle'} : job'.fresh /\ Is(g, Replies)
                  => g.job = job'.id
             /\ Is(dongle'.rx, Answers) => ~Is(NextToDongle', Replies)
        /\ job'.fresh => job'.step # "idle" /\ rcvSession' # NoSession
        /\ job'.step # "idle" => job'.id \in Job /\ job'.left <= job'.id /\ ~rcvResync'
        /\ job'.step = "send" => job'.left > 0
    BY <1>2, <1>8 DEF JobInv, Asks
  <2>2. ASSUME Linked, ~rcvResync
        PROVE  /\ job.fresh /\ f.job = job.id
               /\ ~Is(dongle'.rx, Answers) /\ ~Is(NextToDongle', Answers)
               /\ Asks => f.kind # "COMMAND_END" /\ job.kind = "command"
               /\ Is(NextToKeyboard', Orders) => NextToKeyboard'.job = job.id
               /\ Busy' => shell'.id = job.id
    BY <1>1, <1>2, <1>7, <1>9, <2>2 DEF JobInv, Busy
  <2>3. ASSUME Linked, ~rcvResync, Asks
        PROVE  Underway'
    <3>1. Underway /\ f.kind # "COMMAND_END" /\ f.job = job.id
      BY <2>2, <2>3 DEF JobInv
    <3>2. /\ ~Busy' /\ shell'.step = "idle"
          /\ Assembled' = Copies(m, job.id) /\ Len(Assembled') = m
      BY <1>1, <1>7, <3>1 DEF Busy
    <3>3. m + 0 + Count(NextToKeyboard) = job.id - job.left
      BY <1>1, <1>3, <3>1 DEF Underway, m, n, Count
    <3> QED BY <1>2, <1>8, <3>1, <3>2, <3>3, FrameFacts DEF Underway
  <2>4. (Asks' <=> Asks) /\ job' = job /\ rcvResync' = rcvResync /\ (Linked' <=> Linked)
        /\ ~Is(keyboard'.rx, Orders)
    BY <1>2, <1>8, FrameFacts DEF Asks
  <2>5. ~rcvResync' /\ Linked' =>
          /\ ~job'.fresh \/ (Asks' /\ job'.kind = "update") => Clear'
          /\ Is(dongle'.rx, Answers) \/ Is(NextToDongle', Answers) => Clear'
          /\ Asks' /\ job'.kind = "command" => Underway'
          /\ job'.fresh =>
               /\ Busy' => shell'.id = job'.id
               /\ \A g \in {keyboard'.rx, NextToKeyboard'} : Is(g, Orders)
                    => g.job = job'.id
    BY <2>2, <2>3, <2>4
  <2> QED BY <2>1, <2>5 DEF JobInv
<1>13. ExecutedInv'
  <2>1. ~Is(keyboard'.rx, {"COMMAND_END"}) /\ NextToKeyboard' = NextToKeyboard
    BY <1>2, FrameFacts
  <2>2. CASE f.kind # "COMMAND_END"
    BY <1>7, <1>8, <2>1, <2>2 DEF ExecutedInv, Asks
  <2>3. CASE f.kind = "COMMAND_END"
    <3>1. ~Is(NextToKeyboard, {"COMMAND_END"})
      BY <1>1, <1>9, <2>3 DEF Is, Orders, Commands
    <3>2. ~Asks
      BY <1>1, <1>9, <2>3 DEF JobInv, Asks
    <3> QED BY <1>8, <2>1, <3>1, <3>2 DEF ExecutedInv, Asks
  <2> QED BY <2>2, <2>3
<1> QED BY <1>2, <1>10, <1>11, <1>12, <1>13

(* A block of an upload is read when nothing of a command is left.          *)
LEMMA UpdateIsRead ==
  ASSUME TypeOK, TypeOK', ShellInv, ReadUpdate
  PROVE  ShellInv'
<1> USE DEF ShellInv, links, kbdLink, rcvLink, host
<1> DEFINE f == keyboard.rx
<1>1. shell.step = "idle" /\ ~Busy /\ Is(f, Orders) /\ Is(f, Calls)
  BY DEF ReadUpdate, Readable, Busy, Is, Commands, Orders, Calls
<1>2. /\ Linked' = Linked
      /\ NextToKeyboard' = NextToKeyboard /\ NextToDongle' = NextToDongle
      /\ keyboard'.rx = NoFrame /\ dongle'.rx = dongle.rx
      /\ StreamsInv'
  BY KeyboardTakes DEF ReadUpdate
<1>3. f.job \in Job
  BY FrameTypes DEF ReadUpdate, Readable, FrameKinds, TypeOK, StreamType
<1>4. /\ UNCHANGED <<job, rcvSession, rcvResync, dongle, kbdLink, air, executed>>
      /\ assembling' = <<>> /\ assemblyFresh'
      /\ shell' = [step |-> "block", id |-> f.job, fresh |-> TRUE]
      /\ shell'.step = "block" /\ shell'.id = f.job /\ shell'.fresh /\ Busy'
  BY DEF ReadUpdate, Busy
<1>5. /\ kbdSession # NoSession
      /\ rcvSession # NoSession => Linked
      /\ Linked /\ ~rcvResync =>
           /\ ~Is(dongle.rx, Answers) /\ ~Is(NextToDongle, Answers)
           /\ job.fresh /\ f.job = job.id
           /\ Asks => job.kind = "command" /\ ~Is(f, Calls)
      /\ Is(f, Calls) => ~Is(NextToKeyboard, Orders) /\ (Asks => rcvResync)
  BY <1>1, OrderIsOwn
<1>6. LinksInv'
  BY <1>4, <1>5, LocalLinks
<1>7. KeyboardInv'
  BY <1>1, <1>2, <1>3, <1>4, <1>5, FrameFacts DEF KeyboardInv
<1>8. JobInv'
  BY <1>1, <1>2, <1>4, <1>5, FrameFacts DEF JobInv, Asks
<1>9. ExecutedInv'
  BY <1>1, <1>2, <1>4, <1>5, FrameFacts DEF ExecutedInv, Asks
<1> QED BY <1>2, <1>6, <1>7, <1>8, <1>9

(* A frame of Studio leaves the assembly as it is.                          *)
LEMMA StudioIsRead ==
  ASSUME TypeOK, TypeOK', ShellInv, ReadStudio
  PROVE  ShellInv'
<1> USE DEF ShellInv, links, kbdLink, rcvLink, host
<1> DEFINE f == keyboard.rx
<1>1. /\ shell.step = "idle" /\ ~Busy /\ ~Is(f, Orders) /\ Count(f) = 0 /\ ~Is(f, Calls)
  BY DEF ReadStudio, Readable, Busy, Is, Commands, Orders, Calls, Count
<1>2. /\ Linked' = Linked
      /\ NextToKeyboard' = NextToKeyboard /\ NextToDongle' = NextToDongle
      /\ keyboard'.rx = NoFrame /\ dongle'.rx = dongle.rx
      /\ StreamsInv'
  BY KeyboardTakes DEF ReadStudio
<1>3. kbdSession # NoSession
  BY DEF ReadStudio, Readable, LinksInv, StreamReset
<1>4. /\ UNCHANGED <<job, rcvSession, rcvResync, dongle, kbdLink, air, executed, shell>>
      /\ Assembled' = Assembled /\ (Busy' <=> Busy) /\ (Asks' <=> Asks)
  BY DEF ReadStudio, Busy, Assembled, Asks
<1>5. LinksInv'
  BY <1>3, <1>4, LocalLinks
<1>6. KeyboardInv'
  BY <1>1, <1>2, <1>4, FrameFacts DEF KeyboardInv
<1>7. (Clear => Clear') /\ (Underway => Underway')
  BY <1>1, <1>2, <1>4, FrameFacts DEF Clear, Underway
<1>8. JobInv'
  BY <1>2, <1>4, <1>7, FrameFacts DEF JobInv
<1>9. ExecutedInv'
  BY <1>2, <1>4, FrameFacts, ExecutedKept
<1> QED BY <1>2, <1>5, <1>6, <1>8, <1>9

(* A shell at work for the session works for the dongle's job, which waits. *)
LEMMA WorkIsAwaited ==
  ASSUME TypeOK, ShellInv, Busy, Linked, ~rcvResync
  PROVE  /\ job.fresh /\ ~Asks /\ shell.id = job.id
         /\ ~Is(dongle.rx, Answers) /\ ~Is(NextToDongle, Answers)
BY DEF ShellInv, JobInv, Clear, Underway, Asks, TypeOK, JobType

(* Output goes to the job that waits for it.                                *)
LEMMA ShellSpeaks ==
  ASSUME TypeOK, TypeOK', ShellInv, ShellOutput
  PROVE  ShellInv'
<1> USE DEF ShellInv, links, kbdLink, rcvLink, host, KbdSendAllowed
<1> DEFINE f == Frame("OUTPUT", shell.id)
<1>1. f \in Frames /\ f.job = shell.id /\ ~Is(f, Answers) /\ Busy /\ shell.step = "run"
      /\ kbdSession # NoSession
  BY FrameTypes DEF ShellOutput, KeyboardInv, FrameKinds, Frame, Is, Answers, Busy
<1> HIDE DEF f
<1>2. /\ Linked' = Linked
      /\ IF Linked THEN NextToDongle = NoFrame /\ NextToDongle' = f
                   ELSE NextToDongle' = NextToDongle
      /\ NextToKeyboard' = NextToKeyboard /\ Still
      /\ StreamsInv'
  BY <1>1, KeyboardPuts DEF ShellOutput, f
<1>3. /\ UNCHANGED <<job, rcvSession, rcvResync, dongle, kbdLink, air, executed,
                     assembling, assemblyFresh>>
      /\ shell'.step = "result" /\ shell'.id = shell.id /\ shell'.fresh /\ shell.fresh
      /\ Busy' /\ (Asks' <=> Asks) /\ Assembled' = Assembled
  BY DEF ShellOutput, TypeOK, ShellType, Busy, Asks, Assembled
<1>4. LinksInv'
  BY <1>1, <1>3, LocalLinks
<1>5. KeyboardInv'
  BY <1>1, <1>2, <1>3 DEF KeyboardInv, Still
<1>6. Linked /\ ~rcvResync =>
         /\ job.fresh /\ ~Asks /\ shell.id = job.id
         /\ ~Is(dongle.rx, Answers) /\ ~Is(NextToDongle, Answers)
  BY <1>1, WorkIsAwaited
<1>7. JobInv'
  BY <1>1, <1>2, <1>3, <1>6 DEF JobInv, Still
<1>8. ExecutedInv'
  BY <1>2, <1>3, ExecutedKept DEF Still
<1> QED BY <1>2, <1>4, <1>5, <1>7, <1>8

(* The end of a command by itself sends nothing.                            *)
LEMMA ShellEnds ==
  ASSUME TypeOK, TypeOK', ShellInv, ShellRuns
  PROVE  ShellInv'
<1> USE DEF ShellInv, links, kbdLink, rcvLink, host
<1>1. /\ Linked' = Linked
      /\ NextToKeyboard' = NextToKeyboard /\ NextToDongle' = NextToDongle /\ Still
      /\ StreamsInv'
  BY NothingMoves DEF ShellRuns
<1>2. /\ UNCHANGED <<job, rcvSession, rcvResync, streams, kbdLink, air, executed,
                     assembling, assemblyFresh>>
      /\ shell.step = "run" /\ shell'.step = "result" /\ shell'.id = shell.id
      /\ shell'.fresh = shell.fresh
      /\ (Busy' <=> Busy) /\ (Asks' <=> Asks) /\ Assembled' = Assembled
  BY DEF ShellRuns, TypeOK, ShellType, Busy, Asks, Assembled
<1>3. LinksInv'
  BY <1>2, LocalLinks DEF streams
<1>4. KeyboardInv'
  BY <1>1, <1>2 DEF KeyboardInv, Still
<1>5. (Clear' <=> Clear) /\ (Underway' <=> Underway)
  BY <1>1, <1>2 DEF Clear, Underway, Still
<1>6. JobInv'
  BY <1>1, <1>2, <1>5 DEF JobInv, Still
<1>7. ExecutedInv'
  BY <1>1, <1>2, ExecutedKept DEF Still
<1> QED BY <1>1, <1>3, <1>4, <1>6, <1>7

(* A shell that has answered, or given up, has nothing left: neither of the *)
(* command it assembled nor of one that would have come meanwhile.          *)
LEMMA ShellIsDone ==
  ASSUME TypeOK, KeyboardInv, shell.step \in {"result", "block"}, shell' = IdleShell,
         assembling' = IF shell.step = "result" THEN <<>> ELSE assembling,
         assemblyFresh' = assemblyFresh
  PROVE  /\ ~Busy' /\ Assembled' = <<>>
         /\ ~Busy => Assembled' = Assembled
         /\ Busy => ~Is(keyboard.rx, Orders) /\ ~Is(NextToKeyboard, Orders)
BY DEF KeyboardInv, Busy, IdleShell, Assembled

(* The answer is the last frame for its job.                                *)
LEMMA ShellReplies ==
  ASSUME TypeOK, TypeOK', ShellInv, ShellAnswers
  PROVE  ShellInv'
<1> USE DEF ShellInv, links, kbdLink, rcvLink, host, KbdSendAllowed
<1> DEFINE f == Frame(IF shell.step = "result" THEN "RESULT" ELSE "UPDATE_REPLY", shell.id)
<1>1. f \in Frames /\ f.job = shell.id /\ Busy /\ kbdSession # NoSession
  BY FrameTypes DEF ShellAnswers, KeyboardInv, FrameKinds, Frame, Busy
<1> HIDE DEF f
<1>2. /\ Linked' = Linked
      /\ IF Linked THEN NextToDongle = NoFrame /\ NextToDongle' = f
                   ELSE NextToDongle' = NextToDongle
      /\ NextToKeyboard' = NextToKeyboard /\ Still
      /\ StreamsInv'
  BY <1>1, KeyboardPuts DEF ShellAnswers, f
<1>3. /\ UNCHANGED <<job, rcvSession, rcvResync, dongle, kbdLink, air, executed,
                     assemblyFresh>>
      /\ shell' = IdleShell /\ shell'.step = "idle" /\ ~shell'.fresh /\ (Asks' <=> Asks)
  BY DEF ShellAnswers, IdleShell, Asks
<1>4. /\ ~Busy' /\ Assembled' = <<>>
      /\ ~Is(keyboard.rx, Orders) /\ ~Is(NextToKeyboard, Orders)
  BY <1>1, ShellIsDone DEF ShellAnswers
<1>5. LinksInv'
  BY <1>1, <1>3, LocalLinks
<1>6. KeyboardInv' /\ Clear'
  BY <1>2, <1>3, <1>4, FrameFacts DEF KeyboardInv, Clear, Still
<1>7. Linked /\ ~rcvResync =>
         /\ job.fresh /\ ~Asks /\ shell.id = job.id
         /\ ~Is(dongle.rx, Answers) /\ ~Is(NextToDongle, Answers)
  BY <1>1, WorkIsAwaited
<1>8. JobInv'
  BY <1>1, <1>2, <1>3, <1>4, <1>6, <1>7 DEF JobInv, Still
<1>9. ExecutedInv'
  BY <1>2, <1>3, ExecutedKept DEF Still
<1> QED BY <1>2, <1>5, <1>6, <1>8, <1>9

(* A shell that gives up leaves nothing behind.                             *)
LEMMA ShellLeaves ==
  ASSUME TypeOK, TypeOK', ShellInv, ShellGivesUp
  PROVE  ShellInv'
<1> USE DEF ShellInv, links, kbdLink, rcvLink, host
<1>1. /\ Linked' = Linked
      /\ NextToKeyboard' = NextToKeyboard /\ NextToDongle' = NextToDongle /\ Still
      /\ StreamsInv'
  BY NothingMoves DEF ShellGivesUp
<1>2. /\ UNCHANGED <<job, rcvSession, rcvResync, streams, kbdLink, air, executed,
                     assemblyFresh>>
      /\ shell' = IdleShell /\ shell'.step = "idle" /\ ~shell'.fresh /\ (Asks' <=> Asks)
  BY DEF ShellGivesUp, IdleShell, Asks
<1>3. /\ ~Busy' /\ Assembled' = <<>>
      /\ ~Busy => Assembled' = Assembled
      /\ Busy => ~Is(keyboard.rx, Orders) /\ ~Is(NextToKeyboard, Orders)
  BY ShellIsDone DEF ShellGivesUp
<1>4. LinksInv'
  BY <1>2, LocalLinks DEF streams
<1>5. KeyboardInv'
  BY <1>1, <1>2, <1>3, FrameFacts DEF KeyboardInv, Still
<1>6. Linked /\ ~rcvResync /\ Busy =>
         /\ job.fresh /\ ~Asks /\ shell.id = job.id
         /\ ~Is(dongle.rx, Answers) /\ ~Is(NextToDongle, Answers)
  BY WorkIsAwaited
<1>7. (Clear => Clear') /\ (~Busy /\ Underway => Underway')
  BY <1>1, <1>2, <1>3 DEF Clear, Underway, Still
<1>8. JobInv'
  BY <1>1, <1>2, <1>3, <1>6, <1>7 DEF JobInv, Still
<1>9. ExecutedInv'
  BY <1>1, <1>2, ExecutedKept DEF Still
<1> QED BY <1>1, <1>4, <1>5, <1>8, <1>9

(* Studio's answers are nobody's reply.                                     *)
LEMMA StudioAnswers ==
  ASSUME TypeOK, TypeOK', ShellInv, RpcAnswers
  PROVE  ShellInv'
<1> USE DEF ShellInv, links, kbdLink, rcvLink, host
<1> DEFINE f == Frame("STUDIO_REPLY", NoJob)
<1>1. UNCHANGED <<job, rcvSession, rcvResync, dongle, kbdLink, air, executed, shell,
                  assembling, assemblyFresh>>
  BY DEF RpcAnswers
<1>2. kbdSession = NoSession => keyboard' = keyboard
  BY DEF RpcAnswers
<1>3. LinksInv'
  BY <1>1, <1>2, LocalLinks
<1>4. CASE keyboard' = keyboard
  <2>1. /\ Linked' = Linked
        /\ NextToKeyboard' = NextToKeyboard /\ NextToDongle' = NextToDongle
        /\ Still /\ StreamsInv'
    BY <1>1, <1>4, NothingMoves DEF streams
  <2>2. JobInv' /\ KeyboardInv' /\ ExecutedInv'
    BY <1>1, <2>1, JobKept, KeyboardKept, ExecutedKept DEF Still
  <2> QED BY <1>3, <2>1, <2>2
<1>5. CASE kbdSession # NoSession /\ CanPut(keyboard) /\ keyboard' = PutFrame(keyboard, f)
  <2>1. f \in Frames /\ ~Is(f, Answers) /\ ~Is(f, Replies)
    BY FrameTypes, StudioFrames
  <2> HIDE DEF f
  <2>2. /\ Linked' = Linked
        /\ IF Linked THEN NextToDongle = NoFrame /\ NextToDongle' = f
                     ELSE NextToDongle' = NextToDongle
        /\ NextToKeyboard' = NextToKeyboard /\ Still
        /\ StreamsInv'
    BY <1>1, <1>5, <2>1, KeyboardPuts
  <2>3. KeyboardInv' /\ ExecutedInv'
    BY <1>1, <2>2, KeyboardKept, ExecutedKept DEF Still
  <2>4. (Busy' <=> Busy) /\ (Asks' <=> Asks) /\ (Clear' <=> Clear) /\ (Underway' <=> Underway)
    BY <1>1, <2>2 DEF Busy, Asks, Clear, Underway, Assembled, Still
  <2>5. JobInv'
    BY <1>1, <2>1, <2>2, <2>4, FrameFacts DEF JobInv, Still
  <2> QED BY <1>3, <2>2, <2>3, <2>5
<1> QED BY <1>4, <1>5 DEF RpcAnswers

-----------------------------------------------------------------------------
(* The invariant                                                            *)

(* At power-up there is no session and nothing is under way.                *)
LEMMA ShellInit == Init => TypeOK /\ ShellInv
<1> SUFFICES ASSUME Init PROVE TypeOK /\ ShellInv
  OBVIOUS
<1> USE ShellLinkAssumption, StreamAssumption DEF Init
<1>1. TypeOK
  <2>1. IdleJob \in JobType /\ IdleShell \in ShellType
    BY DEF IdleJob, IdleShell, JobType, ShellType
  <2>2. StreamReset \in StreamType
    BY DEF StreamReset, StreamType
  <2>3. <<>> \in Seq(Job) /\ Len(<<>>) = 0
    OBVIOUS
  <2>4. assembling \in Seq(Job) /\ Len(assembling) <= Parts
    BY <2>3
  <2>5. losses \in 0..MaxLosses /\ timeouts \in 0..MaxTimeouts
    OBVIOUS
  <2> QED BY <2>1, <2>2, <2>4, <2>5 DEF TypeOK
<1>2. /\ keyboard.rx = NoFrame /\ dongle.rx = NoFrame /\ ~job.fresh /\ ~shell.fresh
      /\ job.step = "idle" /\ shell.step = "idle" /\ ~Linked /\ ~Busy /\ ~Asks
  BY DEF StreamReset, IdleJob, IdleShell, Linked, Busy, Asks
<1>3. NextToKeyboard = NoFrame /\ NextToDongle = NoFrame
  BY <1>2 DEF NextToKeyboard, NextToDongle, Arrives, SessionOf
<1>4. LinksInv /\ StreamsInv
  BY <1>2 DEF LinksInv, StreamsInv, Numbered, StreamReset
<1>5. KeyboardInv /\ JobInv /\ ExecutedInv
  BY <1>2, <1>3, FrameFacts DEF KeyboardInv, JobInv, ExecutedInv
<1> QED BY <1>1, <1>4, <1>5 DEF ShellInv

(* Every step keeps the types and the invariant.                            *)
LEMMA ShellNext == TypeOK /\ ShellInv /\ [Next]_vars => TypeOK' /\ ShellInv'
<1> SUFFICES ASSUME TypeOK, ShellInv, [Next]_vars PROVE TypeOK' /\ ShellInv'
  OBVIOUS
<1>1. CASE UNCHANGED vars
  <2> USE <1>1 DEF vars, streams, links, kbdLink, rcvLink, air, host, device, trouble
  <2>1. TypeOK'
    BY DEF TypeOK
  <2>2. /\ Linked' = Linked
        /\ NextToKeyboard' = NextToKeyboard /\ NextToDongle' = NextToDongle /\ Still
        /\ StreamsInv'
    BY NothingMoves DEF ShellInv
  <2>3. LinksInv' /\ KeyboardInv' /\ JobInv' /\ ExecutedInv'
    BY <2>1, <2>2, LocalLinks, KeyboardKept, JobKept, ExecutedKept DEF ShellInv, Still
  <2> QED BY <2>1, <2>2, <2>3 DEF ShellInv
<1>2. CASE Sessioning \/ Traffic \/ KbdTimeout \/ RcvTimeout \/ LosePacket
  <2>1. TypeOK'
    BY <1>2, RadioTypes DEF ShellInv
  <2> QED BY <1>2, <2>1, RadioKeeps
<1>3. CASE Host \/ DongleShell \/ Bridge \/ JobTimeout
  <2>1. TypeOK'
    BY <1>3, DongleTypes DEF ShellInv
  <2> QED
    BY <1>3, <2>1, JobStarts, JobSends, JobReads, JobGivesUp, JobLeaves, BridgeUses
       DEF Host, DongleShell
<1>4. CASE KeyboardShell \/ RpcAnswers
  <2>1. TypeOK'
    BY <1>4, KeyboardTypes DEF ShellInv
  <2> QED
    BY <1>4, <2>1, CommandIsRead, UpdateIsRead, StudioIsRead, ShellSpeaks, ShellEnds,
       ShellReplies, ShellLeaves, StudioAnswers
       DEF KeyboardShell
<1> QED BY <1>1, <1>2, <1>3, <1>4 DEF Next, Environment

(* In every reachable state the ends, the packets and the users of the      *)
(* stream are as ShellInv says (apex_shell_link.c, keyboard_shell.c,        *)
(* shell_radio_g4b.c).                                                      *)
THEOREM ShellInvHolds == Spec => [](TypeOK /\ ShellInv)
BY ShellInit, ShellNext, PTL DEF Spec

(* For any length of commands and uploads and any number of losses and      *)
(* timeouts: no packet of a session is refused by apex_stream_receive, the  *)
(* dongle takes only its own job's replies, and the keyboard runs only      *)
(* whole commands.                                                          *)
THEOREM NothingGetsMixed == Spec => []NothingMixed
<1>1. TypeOK /\ ShellInv => NothingMixed
  <2> SUFFICES ASSUME TypeOK, ShellInv PROVE NothingMixed
    OBVIOUS
  <2>1. NothingRefused
    <3> SUFFICES ASSUME Shared PROVE NothingRefused
      BY DEF NothingRefused
    <3>1. /\ Linked /\ dongle \in StreamType /\ keyboard \in StreamType
          /\ Follows(keyboard, dongle) /\ Follows(dongle, keyboard)
      BY DEF Shared, Linked, ShellInv, StreamsInv, TypeOK
    <3>2. ASSUME toRcv # None, toRcv.session = rcvSession
          PROVE ~Refused(dongle, toRcv.stream)
      <4>1. toRcv.stream \in StreamPacket /\ rcvSession \in SessionOf(toRcv)
        BY <3>2 DEF TypeOK, Packet, SessionOf
      <4>2. Current(toRcv.stream, dongle, keyboard)
        BY <3>1, <4>1 DEF ShellInv, StreamsInv
      <4> QED BY <3>1, <4>1, <4>2, CurrentIsTaken
    <3>3. ASSUME toKbd # None, toKbd.session = kbdSession
          PROVE ~Refused(keyboard, toKbd.stream)
      <4>1. toKbd.stream \in StreamPacket /\ rcvSession \in SessionOf(toKbd)
        BY <3>3 DEF TypeOK, Packet, SessionOf, Shared
      <4>2. Current(toKbd.stream, keyboard, dongle)
        BY <3>1, <4>1 DEF ShellInv, StreamsInv
      <4> QED BY <3>1, <4>1, <4>2, CurrentIsTaken
    <3> QED BY <3>2, <3>3 DEF NothingRefused
  <2>2. ReplyIsOwn
    BY DEF ReplyIsOwn, ShellInv, JobInv, Expected, Is, Replies, Answers
  <2>3. CommandsWhole
    BY DEF CommandsWhole, ShellInv, KeyboardInv, Copies
  <2> QED BY <2>1, <2>2, <2>3 DEF NothingMixed
<1> QED BY <1>1, ShellInvHolds, PTL

(* The keyboard never runs a command again that it has run: what is left    *)
(* under way of it when a session ends is never taken for a new one.        *)
THEOREM NothingRunsTwice == Spec => ExecutedOnce
<1>1. TypeOK /\ ShellInv /\ [Next]_vars =>
        [\A id \in Job : shell.step # "run" /\ shell'.step = "run" /\ shell'.id = id
            => id \notin executed]_vars
  <2> SUFFICES ASSUME TypeOK, ShellInv, Next, shell.step # "run", shell'.step = "run"
               PROVE  shell'.id \notin executed
    BY DEF Next
  <2>1. CASE ReadCommand
    BY <2>1 DEF ReadCommand, Readable, ShellInv, ExecutedInv, Is
  <2>2. CASE ~ReadCommand
    <3> DEFINE Quiet == \/ shell' \in {shell, [shell EXCEPT !.fresh = FALSE]}
                        \/ shell'.step \in {"idle", "block", "result"}
    <3> USE DEF device
    <3>1. Sessioning \/ Traffic \/ KbdTimeout \/ RcvTimeout \/ LosePacket => Quiet
      BY DEF Sessioning, Traffic, KbdSilence, KbdTimeout, KbdNewSession, KbdEstablish,
         RcvRestart, RcvSilence, RcvTimeout, RcvNewSession, RcvEstablish, KbdPoll,
         RcvReceive, RcvReply, KbdReceive, LosePacket
    <3>2. Host \/ DongleShell \/ Bridge \/ JobTimeout => Quiet
      BY DEF Host, DongleShell, Bridge, JobStart, JobSend, JobRead, JobError, JobFails,
         JobCancelled, JobTimeout, BridgeSend, BridgeRead, BridgeIdle
    <3>3. ReadStudio \/ RpcAnswers => Quiet
      BY DEF ReadStudio, RpcAnswers
    <3>6. ReadUpdate \/ ShellAnswers \/ ShellGivesUp => Quiet
      BY DEF ReadUpdate, ShellAnswers, ShellGivesUp, IdleShell
    <3>4. ShellOutput \/ ShellRuns => Quiet
      BY DEF ShellOutput, ShellRuns
    <3>5. Quiet
      BY <2>2, <3>1, <3>2, <3>3, <3>4, <3>6 DEF Next, KeyboardShell, Environment
    <3> QED BY <3>5 DEF TypeOK, ShellType
  <2> QED BY <2>1, <2>2
<1> QED BY <1>1, ShellInvHolds, PTL DEF Spec, ExecutedOnce

-----------------------------------------------------------------------------
(* What the stream promises its users                                       *)

(* The frame to be read, and the one that comes next.                       *)
Queue(f, g) ==
  (IF f = NoFrame THEN <<>> ELSE <<f>>) \o (IF g = NoFrame THEN <<>> ELSE <<g>>)

(* The frames of a direction are the one to be read and the one that comes  *)
(* next.                                                                    *)
LEMMA UnderIsQueue ==
  ASSUME NEW to, NEW from
  PROVE  /\ Under(to, from, TRUE) = Queue(to.rx, Waits(to, from))
         /\ Under(to, from, FALSE) = Queue(to.rx, NoFrame)
BY DEF Under, Queue, Waits

(* How the queue of two changes.                                            *)
LEMMA QueueChanges ==
  ASSUME NEW f \in Frames \cup {NoFrame}, NEW g \in Frames \cup {NoFrame}
  PROVE  /\ Queue(NoFrame, g) = Queue(g, NoFrame)
         /\ g # NoFrame
              => Len(Queue(f, NoFrame)) < 2 /\ Queue(f, g) = Append(Queue(f, NoFrame), g)
         /\ f # NoFrame => Queue(f, g) # <<>> /\ Queue(NoFrame, g) = Tail(Queue(f, g))
         /\ \E n \in 0..Len(Queue(f, g)) : Queue(f, g) = SubSeq(Queue(f, g), 1, n)
         /\ \E n \in 0..Len(Queue(f, g)) : Queue(f, NoFrame) = SubSeq(Queue(f, g), 1, n)
         /\ \E n \in 0..Len(Queue(f, g)) : Queue(NoFrame, NoFrame) = SubSeq(Queue(f, g), 1, n)
<1>1. CASE f = NoFrame /\ g = NoFrame
  BY <1>1 DEF Queue
<1>2. CASE f # NoFrame /\ g = NoFrame
  BY <1>2 DEF Queue
<1>3. CASE f = NoFrame /\ g # NoFrame
  BY <1>3 DEF Queue
<1>4. CASE f # NoFrame /\ g # NoFrame
  <2>1. Queue(f, g) = <<f, g>> /\ Queue(f, NoFrame) = <<f>> /\ Queue(NoFrame, g) = <<g>>
        /\ Queue(g, NoFrame) = <<g>> /\ Queue(NoFrame, NoFrame) = <<>>
    <3>1. /\ <<f>> \o <<>> = <<f>> /\ <<>> \o <<g>> = <<g>>
          /\ <<g>> \o <<>> = <<g>> /\ <<>> \o <<>> = <<>>
      OBVIOUS
    <3>2. <<f>> \o <<g>> = <<f, g>>
      <4>1. f \in Frames /\ g \in Frames /\ <<f>> \in Seq(Frames)
        BY <1>4
      <4>2. Append(<<f>>, g) = <<f>> \o <<g>>
        BY <4>1, AppendIsConcat
      <4>3. <<f, g>> = Append(<<f>>, g)
        OBVIOUS
      <4> QED BY <4>2, <4>3
    <3> QED BY <1>4, <3>1, <3>2 DEF Queue
  <2>2. Len(<<f>>) < 2 /\ <<f, g>> = Append(<<f>>, g)
    OBVIOUS
  <2>3. <<f, g>> # <<>> /\ <<g>> = Tail(<<f, g>>)
    OBVIOUS
  <2>4. Len(<<f, g>>) = 2 /\ 0 \in 0..2 /\ 1 \in 0..2 /\ 2 \in 0..2
    OBVIOUS
  <2>5. <<f, g>> = SubSeq(<<f, g>>, 1, 2)
    OBVIOUS
  <2>6. <<f>> = SubSeq(<<f, g>>, 1, 1)
    OBVIOUS
  <2>7. <<>> = SubSeq(<<f, g>>, 1, 0)
    OBVIOUS
  <2> QED BY <2>1, <2>2, <2>3, <2>4, <2>5, <2>6, <2>7
<1> QED BY <1>1, <1>2, <1>3, <1>4

(* What the channel calls the session, and the frames in flight within it.  *)
Ends == <<kbdSession, rcvSession, offer>>
OnWayToKeyboard == IF Linked THEN NextToKeyboard ELSE NoFrame
OnWayToDongle == IF Linked THEN NextToDongle ELSE NoFrame

(* What a step may do to the frame an end has to read (x, x1) and the one   *)
(* on its way there (y, y1).                                                *)
Moves(x, x1, y, y1) ==
  \/ UNCHANGED Ends /\ x1 = x /\ y1 = y
  \/ UNCHANGED Ends /\ x = NoFrame /\ x1 = y /\ y1 = NoFrame   \* arrives
  \/ UNCHANGED Ends /\ x = NoFrame /\ x1 # NoFrame /\ y = NoFrame /\ y1 = NoFrame   \* is late
  \/ UNCHANGED Ends /\ x1 = x /\ y = NoFrame /\ y1 # NoFrame   \* is put
  \/ UNCHANGED Ends /\ x # NoFrame /\ x1 = NoFrame /\ y1 = y   \* is taken
  \/ Ends' # Ends /\ x1 = x /\ y1 \in {y, NoFrame}   \* the session ends
  \/ Ends' # Ends /\ x1 = NoFrame /\ y1 = NoFrame

(* Whatever happens, the two frames of a direction move as the stream       *)
(* promises.                                                                *)
LEMMA FramesMove ==
  ASSUME TypeOK, ShellInv, [Next]_vars
  PROVE  /\ Moves(keyboard.rx, keyboard'.rx, OnWayToKeyboard, OnWayToKeyboard')
         /\ Moves(dongle.rx, dongle'.rx, OnWayToDongle, OnWayToDongle')
<1> USE DEF ShellInv, OnWayToKeyboard, OnWayToDongle, Moves
<1>1. CASE UNCHANGED vars
  <2>1. UNCHANGED <<streams, kbdLink, rcvSession, air>> /\ UNCHANGED Ends
    BY <1>1 DEF vars, links, kbdLink, rcvLink, Ends
  <2> QED BY <2>1, NothingMoves DEF Still
<1>2. CASE KbdNewSession
  <2>1. /\ ~Linked' /\ keyboard'.rx = NoFrame /\ dongle'.rx = dongle.rx
    BY <1>2, KeyboardRestarts
  <2>2. Ends' = Ends => ~Linked /\ keyboard.rx = NoFrame
    BY <1>2 DEF KbdNewSession, Ends, Linked, LinksInv, StreamReset
  <2> QED BY <2>1, <2>2
<1>3. CASE RcvNewSession
  <2>1. /\ ~Linked' /\ dongle'.rx = NoFrame /\ keyboard'.rx = keyboard.rx
    BY <1>3, DongleRestarts
  <2>2. Ends' = Ends => ~Linked /\ dongle.rx = NoFrame
    BY <1>3 DEF RcvNewSession, Ends, Linked, LinksInv, StreamReset
  <2> QED BY <2>1, <2>2
<1>4. CASE KbdEstablish \/ RcvEstablish
  <2>1. NextToKeyboard' = NextToKeyboard /\ NextToDongle' = NextToDongle /\ Still
    BY <1>4, SessionBegins
  <2>2. Ends' # Ends
    BY <1>4, FreshIsUnused DEF KbdEstablish, RcvEstablish, Ends, Session, NoSession
  <2>3. ~Linked => OnWayToKeyboard' = NoFrame /\ OnWayToDongle' = NoFrame
    <3>1. CASE KbdEstablish
      BY <3>1 DEF KbdEstablish, Linked, LinksInv, TypeOK, rcvLink
    <3>2. CASE RcvEstablish
      <4>1. NextToKeyboard = NoFrame /\ NextToDongle = NoFrame
        BY <3>2 DEF RcvEstablish, Linked, NextToKeyboard, NextToDongle, Arrives,
           SessionOf, TypeOK, Packet, Session, NoSession
      <4> QED BY <2>1, <4>1
    <3> QED BY <1>4, <3>1, <3>2
  <2> QED BY <2>1, <2>2, <2>3 DEF Still
<1>5. CASE KbdPoll \/ RcvReply \/ RcvReceive \/ KbdReceive \/ LosePacket
  <2>1. UNCHANGED Ends
    BY <1>5 DEF KbdPoll, RcvReply, RcvReceive, KbdReceive, LosePacket, links, kbdLink,
       rcvLink, Ends
  <2>2. /\ Linked' = Linked
        /\ Delivered(keyboard.rx, keyboard'.rx, NextToKeyboard, NextToKeyboard')
        /\ Delivered(dongle.rx, dongle'.rx, NextToDongle, NextToDongle')
    BY <1>5, PacketIsSent, DongleReceives, KeyboardReceives, PacketIsLost DEF Delivered,
       Still
  <2> QED BY <2>1, <2>2 DEF Delivered
<1>6. CASE Host \/ DongleShell \/ Bridge \/ JobTimeout
  <2>1. UNCHANGED <<keyboard, kbdLink, rcvSession, air>> /\ UNCHANGED Ends
    BY <1>6
       DEF Host, DongleShell, Bridge, JobStart, JobCancelled, JobSend, JobRead, JobError,
           JobFails,
           JobTimeout, BridgeSend, BridgeRead, BridgeIdle, streams, links, kbdLink, rcvLink,
           Ends
  <2>2. \/ dongle' = dongle
        \/ dongle' = TakeFrame(dongle) /\ dongle.rx # NoFrame
        \/ \E f \in Frames :
             rcvSession # NoSession /\ CanPut(dongle) /\ dongle' = PutFrame(dongle, f)
    <3>1. JobSend => Frame(PartKind, job.id) \in Frames
      BY FrameTypes DEF JobSend, JobInv, PartKind, FrameKinds
    <3>2. CASE JobSend
      BY <3>1, <3>2 DEF JobSend, SendAllowed
    <3>3. CASE BridgeSend
      BY <3>3, FrameTypes DEF BridgeSend
    <3>4. CASE Host \/ JobRead \/ JobError \/ JobTimeout \/ BridgeRead \/ BridgeIdle
      BY <3>4
         DEF Host, JobStart, JobCancelled, JobRead, JobError, JobTimeout, BridgeRead,
             BridgeIdle, streams
    <3> QED BY <1>6, <3>2, <3>3, <3>4 DEF DongleShell, Bridge
  <2>3. CASE dongle' = dongle
    BY <2>1, <2>3, NothingMoves DEF Still, streams
  <2>4. CASE dongle' = TakeFrame(dongle) /\ dongle.rx # NoFrame
    BY <2>1, <2>4, DongleTakes
  <2>5. ASSUME NEW f \in Frames, rcvSession # NoSession, CanPut(dongle),
               dongle' = PutFrame(dongle, f)
        PROVE  /\ Moves(keyboard.rx, keyboard'.rx, OnWayToKeyboard, OnWayToKeyboard')
               /\ Moves(dongle.rx, dongle'.rx, OnWayToDongle, OnWayToDongle')
    BY <2>1, <2>5, DonglePuts, StreamAssumption DEF Still
  <2> QED BY <2>2, <2>3, <2>4, <2>5
<1>7. CASE KeyboardShell \/ RpcAnswers
  <2>1. UNCHANGED <<dongle, kbdLink, rcvSession, air>> /\ UNCHANGED Ends
    BY <1>7
       DEF KeyboardShell, ReadCommand, ReadUpdate, ReadStudio, ShellOutput, ShellRuns,
           ShellAnswers,
           ShellGivesUp, RpcAnswers, streams, links, kbdLink, rcvLink, Ends
  <2>2. \/ keyboard' = keyboard
        \/ keyboard' = TakeFrame(keyboard) /\ keyboard.rx # NoFrame
        \/ \E f \in Frames :
             kbdSession # NoSession /\ CanPut(keyboard) /\ keyboard' = PutFrame(keyboard, f)
    <3>1. shell.step # "idle" =>
            /\ Frame("OUTPUT", shell.id) \in Frames
            /\ Frame("RESULT", shell.id) \in Frames
            /\ Frame("UPDATE_REPLY", shell.id) \in Frames
      BY FrameTypes DEF KeyboardInv, FrameKinds
    <3>2. CASE ShellOutput
      BY <3>1, <3>2 DEF ShellOutput, KbdSendAllowed
    <3>3. CASE ShellAnswers
      BY <3>1, <3>3 DEF ShellAnswers, KbdSendAllowed
    <3>4. CASE RpcAnswers
      BY <3>4, FrameTypes DEF RpcAnswers
    <3>5. CASE ReadCommand \/ ReadUpdate \/ ReadStudio
      BY <3>5 DEF ReadCommand, ReadUpdate, ReadStudio, Readable
    <3>6. CASE ShellRuns \/ ShellGivesUp
      BY <3>6 DEF ShellRuns, ShellGivesUp, streams
    <3> QED BY <1>7, <3>2, <3>3, <3>4, <3>5, <3>6 DEF KeyboardShell
  <2>3. CASE keyboard' = keyboard
    BY <2>1, <2>3, NothingMoves DEF Still, streams
  <2>4. CASE keyboard' = TakeFrame(keyboard) /\ keyboard.rx # NoFrame
    BY <2>1, <2>4, KeyboardTakes
  <2>5. ASSUME NEW f \in Frames, kbdSession # NoSession, CanPut(keyboard),
               keyboard' = PutFrame(keyboard, f)
        PROVE  /\ Moves(keyboard.rx, keyboard'.rx, OnWayToKeyboard, OnWayToKeyboard')
               /\ Moves(dongle.rx, dongle'.rx, OnWayToDongle, OnWayToDongle')
    BY <2>1, <2>5, KeyboardPuts, StreamAssumption DEF Still
  <2> QED BY <2>2, <2>3, <2>4, <2>5
<1> QED
  BY <1>1, <1>2, <1>3, <1>4, <1>5, <1>6, <1>7
     DEF Next, Sessioning, Traffic, KbdSilence, RcvRestart, RcvSilence, KbdTimeout,
         RcvTimeout, Environment

FrameOrNone == Frames \cup {NoFrame}

(* The frames of a direction are those two.                                 *)
FramesOK ==
  /\ keyboard.rx \in FrameOrNone /\ dongle.rx \in FrameOrNone
  /\ OnWayToKeyboard \in FrameOrNone /\ OnWayToDongle \in FrameOrNone
  /\ Under(keyboard, dongle, Linked) = Queue(keyboard.rx, OnWayToKeyboard)
  /\ Under(dongle, keyboard, Linked) = Queue(dongle.rx, OnWayToDongle)

(* They are frames, and nothing else is under way,                          *)
LEMMA FramesAreOK == TypeOK => FramesOK
<1> SUFFICES ASSUME TypeOK PROVE FramesOK
  OBVIOUS
<1> USE DEF TypeOK, StreamType, FrameOrNone, OnWayToKeyboard, OnWayToDongle, NextToKeyboard,
            NextToDongle, Waits, FramesOK
<1>1. CASE Linked
  <2>1. Linked = TRUE
    BY <1>1 DEF Linked
  <2> QED BY <2>1, UnderIsQueue
<1>2. CASE ~Linked
  <2>1. Linked = FALSE
    BY <1>2 DEF Linked
  <2> QED BY <2>1, UnderIsQueue
<1> QED BY <1>1, <1>2

(* before and after a step.                                                 *)
LEMMA FramesStayOK == TypeOK' => FramesOK'
BY FramesAreOK, PTL

(* Each such change of the frames (x, y) is a step of their queue (q) or    *)
(* none: one is sent, one is read, or the latest are lost.                  *)
Fits(q, q1, x, x1, y, y1) ==
  /\ \/ x1 = x /\ y1 = y
     \/ x = NoFrame /\ x1 = y /\ y1 = NoFrame
     => q1 = q
  /\ \/ x = NoFrame /\ x1 # NoFrame /\ y = NoFrame /\ y1 = NoFrame
     \/ x1 = x /\ y = NoFrame /\ y1 # NoFrame
     => Len(q) < 2 /\ \E f \in Frames : q1 = Append(q, f)
  /\ x # NoFrame /\ x1 = NoFrame /\ y1 = y => q # <<>> /\ q1 = Tail(q)
  /\ \/ x1 = x /\ y1 \in {y, NoFrame}
     \/ x1 = NoFrame /\ y1 = NoFrame
     => \E n \in 0..Len(q) : q1 = SubSeq(q, 1, n)

(* What happens to the two frames happens to the queue of them.             *)
LEMMA QueueSteps ==
  ASSUME NEW x \in FrameOrNone, NEW x1 \in FrameOrNone, NEW y \in FrameOrNone,
         NEW y1 \in FrameOrNone
  PROVE  Fits(Queue(x, y), Queue(x1, y1), x, x1, y, y1)
<1> DEFINE q == Queue(x, y)
           q1 == Queue(x1, y1)
<1> USE DEF FrameOrNone, Fits
<1>1. CASE x1 = x /\ y1 = y
  BY <1>1, QueueChanges
<1>2. CASE x = NoFrame /\ x1 = y /\ y1 = NoFrame
  BY <1>2, QueueChanges
<1>3. CASE x = NoFrame /\ x1 # NoFrame /\ y = NoFrame /\ y1 = NoFrame
  BY <1>3, QueueChanges
<1>4. CASE x1 = x /\ y = NoFrame /\ y1 # NoFrame
  BY <1>4, QueueChanges
<1>5. CASE x # NoFrame /\ x1 = NoFrame /\ y1 = y
  BY <1>5, QueueChanges
<1>6. CASE x1 = x /\ y1 = NoFrame
  BY <1>6, QueueChanges
<1>7. CASE x1 = NoFrame /\ y1 = NoFrame
  BY <1>7, QueueChanges
<1> QED BY <1>1, <1>2, <1>3, <1>4, <1>5, <1>6, <1>7

(* So every step of the link is one of the channel, or none, in both        *)
(* directions.                                                              *)
LEMMA ChannelsStep ==
  ASSUME TypeOK, TypeOK', ShellInv, [Next]_vars
  PROVE  [ToKeyboard!Next]_(ToKeyboard!vars) /\ [ToDongle!Next]_(ToDongle!vars)
<1> DEFINE kq == Under(keyboard, dongle, Linked)
           dq == Under(dongle, keyboard, Linked)
<1>1. /\ Moves(keyboard.rx, keyboard'.rx, OnWayToKeyboard, OnWayToKeyboard')
      /\ Moves(dongle.rx, dongle'.rx, OnWayToDongle, OnWayToDongle')
  BY FramesMove
<1>2. /\ keyboard.rx \in FrameOrNone /\ dongle.rx \in FrameOrNone
      /\ OnWayToKeyboard \in FrameOrNone /\ OnWayToDongle \in FrameOrNone
      /\ kq = Queue(keyboard.rx, OnWayToKeyboard) /\ dq = Queue(dongle.rx, OnWayToDongle)
  BY FramesAreOK DEF FramesOK
<1>3. /\ keyboard'.rx \in FrameOrNone /\ dongle'.rx \in FrameOrNone
      /\ OnWayToKeyboard' \in FrameOrNone /\ OnWayToDongle' \in FrameOrNone
      /\ kq' = Queue(keyboard'.rx, OnWayToKeyboard')
      /\ dq' = Queue(dongle'.rx, OnWayToDongle')
  BY FramesStayOK DEF FramesOK
<1> HIDE DEF kq, dq
<1>4. \/ UNCHANGED Ends /\ kq' = kq
      \/ UNCHANGED Ends /\ Len(kq) < 2 /\ \E f \in Frames : kq' = Append(kq, f)
      \/ UNCHANGED Ends /\ kq # <<>> /\ kq' = Tail(kq)
      \/ Ends' # Ends /\ \E n \in 0..Len(kq) : kq' = SubSeq(kq, 1, n)
  <2> DEFINE x == keyboard.rx
             x1 == keyboard'.rx
             y == OnWayToKeyboard
             y1 == OnWayToKeyboard'
  <2>1. /\ x \in FrameOrNone /\ x1 \in FrameOrNone
        /\ y \in FrameOrNone /\ y1 \in FrameOrNone
        /\ kq = Queue(x, y) /\ kq' = Queue(x1, y1)
    BY <1>2, <1>3
  <2>2. Moves(x, x1, y, y1)
    BY <1>1
  <2> HIDE DEF x, x1, y, y1
  <2>3. Fits(kq, kq', x, x1, y, y1)
    BY <2>1, QueueSteps
  <2> QED BY <2>2, <2>3 DEF Moves, Fits
<1>5. \/ UNCHANGED Ends /\ dq' = dq
      \/ UNCHANGED Ends /\ Len(dq) < 2 /\ \E f \in Frames : dq' = Append(dq, f)
      \/ UNCHANGED Ends /\ dq # <<>> /\ dq' = Tail(dq)
      \/ Ends' # Ends /\ \E n \in 0..Len(dq) : dq' = SubSeq(dq, 1, n)
  <2> DEFINE x == dongle.rx
             x1 == dongle'.rx
             y == OnWayToDongle
             y1 == OnWayToDongle'
  <2>1. /\ x \in FrameOrNone /\ x1 \in FrameOrNone
        /\ y \in FrameOrNone /\ y1 \in FrameOrNone
        /\ dq = Queue(x, y) /\ dq' = Queue(x1, y1)
    BY <1>2, <1>3
  <2>2. Moves(x, x1, y, y1)
    BY <1>1
  <2> HIDE DEF x, x1, y, y1
  <2>3. Fits(dq, dq', x, x1, y, y1)
    BY <2>1, QueueSteps
  <2> QED BY <2>2, <2>3 DEF Moves, Fits
<1>6. [ToKeyboard!Next]_(ToKeyboard!vars)
  BY <1>4 DEF kq, Ends, ToKeyboard!Next, ToKeyboard!vars, ToKeyboard!Send,
     ToKeyboard!Read, ToKeyboard!Change
<1>7. [ToDongle!Next]_(ToDongle!vars)
  BY <1>5 DEF dq, Ends, ToDongle!Next, ToDongle!vars, ToDongle!Send, ToDongle!Read,
     ToDongle!Change
<1> QED BY <1>6, <1>7

(* The two streams, their packets and the sessions implement a channel in   *)
(* each direction that loses frames only with the session (apex_stream.c    *)
(* against Channel).                                                        *)
THEOREM StreamKeepsPromise == Spec => DeliversInOrder
<1>1. Init => ToKeyboard!Init /\ ToDongle!Init
  BY DEF Init, StreamReset, Under, Linked, ToKeyboard!Init, ToDongle!Init
<1>2. TypeOK /\ ShellInv /\ TypeOK' /\ [Next]_vars
        => [ToKeyboard!Next]_(ToKeyboard!vars) /\ [ToDongle!Next]_(ToDongle!vars)
  BY ChannelsStep
<1> QED
  BY <1>1, <1>2, ShellInvHolds, PTL DEF Spec, DeliversInOrder, ToKeyboard!Spec,
     ToDongle!Spec
=============================================================================
