----------------------------- MODULE RadioInput -----------------------------
(***************************************************************************)
(* Key and media reports from the keyboard to the USB host of the dongle:  *)
(* the keyboard's queue and the radio threads of both ends                 *)
(* (radio/src/apex_radio_probe.c), the receiver's report buffer and its    *)
(* USB side (dongle/src/hid.c).                                            *)
(*                                                                         *)
(* The threads that interleave: the keyboard's system work queue (Publish, *)
(* Select), the keyboard's radio thread (Kbd...), the receiver's radio     *)
(* thread (Rcv...), the receiver's main loop (Poll...), the receiver's USB *)
(* stack (TransferDone, IfaceReady, SetProtocol) and its shell (TestHold,  *)
(* Reconnect).                                                             *)
(*                                                                         *)
(* A packet travels straight into the one DMA buffer of the other radio;   *)
(* a packet that finds the buffer taken, or the thread busy, is lost.  The *)
(* handshake is reduced to its outcome: the receiver establishes a session *)
(* and offers it, the keyboard establishes what it was last offered (the   *)
(* module Handshake has the messages).  A session number stands for a pair *)
(* of nonces and is reused only once nothing refers to it any more.        *)
(*                                                                         *)
(* hid.c compares "generation" only with a copy taken earlier; here the    *)
(* copy itself is marked stale when a release increments the counter.      *)
(***************************************************************************)
EXTENDS Delivery

CONSTANTS
  Protocols,        \* the HID protocols the host may set
  MaxTrouble        \* a bound on the events of the environment, or Unbounded

Unbounded == -1

ASSUME EnvironmentAssumption ==
  /\ "report" \in Protocols /\ Protocols \subseteq {"report", "boot"}
  /\ MaxTrouble \in Nat \cup {Unbounded}

VARIABLES
  queue,        \* the keyboard's report queue (input_queue)
  selected,     \* the radio is the keyboard's endpoint (input_selected)
  tx,           \* the keyboard's view of the receiver (delivery_tx)
  kbdSession,   \* the keyboard's established session, or NoSession
  offer,        \* the session the keyboard may establish, or NoSession
  kbdResync,    \* the keyboard's thread must start over (resync)
  rcvSession,   \* the receiver's established session, or NoSession
  rxSeq,        \* the last sequence handed to hid.c (rx_sequence)
  work,         \* the packet the receiver's thread is processing
  rcvResync,    \* the receiver's thread must start over (resync)
  rx,           \* the receiver's report buffer (delivery)
  releaseMask,  \* the reports whose release is not yet on USB (release_mask)
  deliveredSeq, \* the last sequence USB completed (delivered_sequence)
  pending,      \* the report in flight on USB (busy, pending_...)
  poll,         \* what the main loop read and has not submitted yet
  ready,        \* the host has configured the HID interface
  protocol,     \* "report" or "boot"
  toRcv,        \* the receiver's DMA buffer
  toKbd,        \* the keyboard's DMA buffer
  host,         \* the report of each type the host acts on
  trouble       \* how many losses, key presses, USB events... may still come

kbdVars == <<queue, selected, tx, kbdSession, offer, kbdResync>>
rcvVars == <<rcvSession, rxSeq, work, rcvResync>>
hidVars == <<rx, releaseMask, deliveredSeq, pending, poll, ready, protocol>>
airVars == <<toRcv, toKbd>>
vars == <<kbdVars, rcvVars, hidVars, airVars, host, trouble>>

NoSession == 0
Session == 1..3
None == [kind |-> "none"]

InputPacket == [kind : {"input"}, session : Session, frames : Seq(Frame)]
AckPacket == [kind : {"ack"}, session : Session, status : AckType]
Work == [kind : {"work"}, batch : BOOLEAN, frames : Seq(Frame)]
Submission ==
  [kind : {"report"}, seq : Seqs, type : Types, data : AllReports, fresh : BOOLEAN]

TypeOK ==
  /\ queue \in QueueType
  /\ selected \in BOOLEAN
  /\ tx \in TxType
  /\ kbdSession \in Session \cup {NoSession}
  /\ offer \in Session \cup {NoSession}
  /\ kbdResync \in BOOLEAN
  /\ rcvSession \in Session \cup {NoSession}
  /\ rxSeq \in Seqs
  /\ work \in Work \cup {None}
  /\ rcvResync \in BOOLEAN
  /\ rx \in RxType
  /\ releaseMask \in SUBSET Types
  /\ deliveredSeq \in Seqs
  /\ pending \in Submission \cup {None}
  /\ poll \in Submission \cup {None}
  /\ ready \in BOOLEAN
  /\ protocol \in Protocols
  /\ toRcv \in InputPacket \cup {None}
  /\ toKbd \in AckPacket \cup {None}
  /\ host \in [Types -> AllReports]
  /\ trouble \in Nat \cup {Unbounded}

Init ==
  /\ queue = ZeroQueue /\ selected = TRUE /\ tx = TxReset
  /\ kbdSession = NoSession /\ offer = NoSession /\ kbdResync = FALSE
  /\ rcvSession = NoSession /\ rxSeq = 0 /\ work = None /\ rcvResync = FALSE
  /\ rx = RxReset /\ releaseMask = Types /\ deliveredSeq = 0
  /\ pending = None /\ poll = None /\ ready = FALSE /\ protocol = "report"
  /\ toRcv = None /\ toKbd = None
  /\ host = Released /\ trouble = MaxTrouble

\* The environment acts; Unbounded trouble is never used up.
Disturb ==
  /\ trouble # 0
  /\ trouble' = IF trouble = Unbounded THEN trouble ELSE trouble - 1

-----------------------------------------------------------------------------
(* The keyboard's work queue: apex_radio_queue_report, apex_radio_input_select *)

\* Mutation: a report the full queue refuses does not restart the session.
PublishForgetsOverflow(t, d) ==
  /\ Disturb /\ selected
  /\ queue' = Push(queue, t, d)
  /\ UNCHANGED <<selected, tx, kbdSession, offer, kbdResync, rcvVars, hidVars, airVars, host>>

Publish(t, d) ==
  /\ Disturb /\ selected
  /\ queue' = Push(queue, t, d)
  /\ kbdResync' = (kbdResync \/ PushOverflows(queue, t, d))
  /\ UNCHANGED <<selected, tx, kbdSession, offer, rcvVars, hidVars, airVars, host>>

Select ==
  /\ Disturb
  /\ selected' = ~selected
  /\ queue' = ZeroQueue
  /\ kbdResync' = TRUE
  /\ UNCHANGED <<tx, kbdSession, offer, rcvVars, hidVars, airVars, host>>

-----------------------------------------------------------------------------
(* The keyboard's radio thread *)

\* Mutation: the new session keeps the old window (no apex_delivery_tx_reset).
KbdNewSessionKeepsWindow ==
  /\ queue' = Disconnect(queue)
  /\ kbdSession' = NoSession
  /\ offer' = NoSession
  /\ kbdResync' = FALSE
  /\ toKbd' = None
  /\ UNCHANGED <<selected, tx, rcvVars, hidVars, toRcv, host>>

KbdNewSession ==
  /\ queue' = Disconnect(queue)
  /\ tx' = TxReset
  /\ kbdSession' = NoSession
  /\ offer' = NoSession
  /\ kbdResync' = FALSE
  /\ toKbd' = None
  /\ UNCHANGED <<selected, rcvVars, hidVars, toRcv, host>>

KbdRestart == kbdResync /\ KbdNewSession /\ UNCHANGED trouble

\* The receiver has left the keyboard's session, so nothing valid arrives.
KbdSilence ==
  /\ kbdSession # NoSession /\ rcvSession # kbdSession
  /\ KbdNewSession
  /\ UNCHANGED trouble

\* A timeout although the receiver is there: every packet was lost.
KbdTimeout == Disturb /\ KbdNewSession

\* Mutation: the keyboard may enter the session again after it has left it.
KbdEstablishKeepsOffer ==
  /\ kbdSession = NoSession /\ offer # NoSession
  /\ kbdSession' = offer
  /\ queue' = StartSession(queue)
  /\ UNCHANGED <<selected, tx, offer, kbdResync, rcvVars, hidVars, airVars, host, trouble>>

KbdEstablish ==
  /\ kbdSession = NoSession /\ offer # NoSession
  /\ kbdSession' = offer
  /\ offer' = NoSession
  /\ queue' = StartSession(queue)
  /\ UNCHANGED <<selected, tx, kbdResync, rcvVars, hidVars, airVars, host, trouble>>

\* A batch, one report, or (no frames) a gamepad or shell packet that only
\* solicits a reply.  The thread has emptied its own buffer before it sends.
KbdSend ==
  /\ kbdSession # NoSession /\ toKbd = None
  /\ LET frames == Batch(tx, queue)
         packet == [kind |-> "input", session |-> kbdSession, frames |-> frames]
     IN  /\ toRcv' = IF toRcv = None /\ work = None THEN packet ELSE toRcv
         /\ tx' = IF frames = <<>> \/ frames[Len(frames)].seq <= tx.sent THEN tx
                  ELSE [tx EXCEPT !.sent = frames[Len(frames)].seq]
  /\ UNCHANGED <<queue, selected, kbdSession, offer, kbdResync,
                 rcvVars, hidVars, toKbd, host, trouble>>

\* Mutation: reports leave the queue when accepted, not when completed.
KbdReceivePopsAccepted ==
  /\ toKbd # None
  /\ toKbd' = None
  /\ IF toKbd.session = kbdSession /\ Applicable(tx, toKbd.status)
     THEN /\ tx' = Apply(tx, toKbd.status)
          /\ queue' = Pop(queue, toKbd.status.accepted)
     ELSE UNCHANGED <<tx, queue>>
  /\ UNCHANGED <<selected, kbdSession, offer, kbdResync,
                 rcvVars, hidVars, toRcv, host, trouble>>

KbdReceive ==
  /\ toKbd # None
  /\ toKbd' = None
  /\ IF toKbd.session = kbdSession /\ Applicable(tx, toKbd.status)
     THEN /\ tx' = Apply(tx, toKbd.status)
          /\ queue' = Pop(queue, toKbd.status.completed)
     ELSE UNCHANGED <<tx, queue>>
  /\ UNCHANGED <<selected, kbdSession, offer, kbdResync,
                 rcvVars, hidVars, toRcv, host, trouble>>

-----------------------------------------------------------------------------
(* The receiver's USB buffer: apex_radio_release *)

Stale(s) == IF s = None THEN None ELSE [s EXCEPT !.fresh = FALSE]

\* Mutation: a release that leaves release_mask alone.
ReleaseWithoutMask ==
  /\ rx' = RxReset
  /\ deliveredSeq' = 0
  /\ pending' = Stale(pending)
  /\ poll' = Stale(poll)
  /\ UNCHANGED releaseMask

Release ==
  /\ rx' = RxReset
  /\ releaseMask' = Types
  /\ deliveredSeq' = 0
  /\ pending' = Stale(pending)
  /\ poll' = Stale(poll)

-----------------------------------------------------------------------------
(* The receiver's radio thread *)

RcvNewSession ==
  /\ work = None
  /\ rcvSession' = NoSession
  /\ rxSeq' = 0
  /\ rcvResync' = FALSE
  /\ toRcv' = None
  /\ Release
  /\ UNCHANGED <<kbdVars, work, ready, protocol, toKbd, host>>

RcvRestart == rcvResync /\ RcvNewSession /\ UNCHANGED trouble

RcvSilence ==
  /\ rcvSession # NoSession /\ rcvSession \notin {kbdSession, offer}
  /\ RcvNewSession
  /\ UNCHANGED trouble

RcvTimeout == Disturb /\ RcvNewSession

SessionOf(packet) == IF packet = None THEN {} ELSE {packet.session}
FreshSession == CHOOSE s \in Session : s \notin SessionOf(toRcv) \cup SessionOf(toKbd)

RcvEstablish ==
  /\ rcvSession = NoSession /\ kbdSession = NoSession /\ work = None
  /\ rcvSession' = FreshSession
  /\ offer' = FreshSession
  /\ UNCHANGED <<queue, selected, tx, kbdSession, kbdResync, rxSeq, work, rcvResync,
                 hidVars, airVars, host, trouble>>

\* Decoding needs the session's key: a packet of another session is rejected.
RcvReceive ==
  /\ toRcv # None /\ work = None
  /\ toRcv' = None
  /\ work' = IF toRcv.session = rcvSession
             THEN [kind |-> "work", batch |-> Len(toRcv.frames) > 1,
                   frames |-> toRcv.frames]
             ELSE None
  /\ UNCHANGED <<kbdVars, rcvSession, rxSeq, rcvResync, hidVars, toKbd, host, trouble>>

\* One report of the packet.  Every report takes hid.c's lock anew, so USB
\* events fall between the reports of a batch.
RcvDeliver ==
  /\ work # None /\ work.frames # <<>>
  /\ LET f == Head(work.frames)
         code == ReceiveCode(rx, f)
         known == IF work.batch THEN f.seq <= rxSeq ELSE f.seq = rxSeq
         rest == [work EXCEPT !.frames = Tail(@)]
         stop == [work EXCEPT !.frames = <<>>]
     IN  \/ /\ known
            /\ work' = rest
            /\ UNCHANGED <<rx, rxSeq>>
         \/ /\ ~known /\ f.seq # rxSeq + 1
            /\ work' = IF work.batch THEN stop ELSE None
            /\ UNCHANGED <<rx, rxSeq>>
         \/ /\ f.seq = rxSeq + 1 /\ code \in {"queued", "duplicate"}
            /\ rx' = Receive(rx, f)
            /\ rxSeq' = f.seq
            /\ work' = rest
         \/ /\ f.seq = rxSeq + 1 /\ code = "full"
            /\ work' = stop
            /\ UNCHANGED <<rx, rxSeq>>
         \/ /\ f.seq = rxSeq + 1 /\ code = "invalid"
            /\ work' = None
            /\ UNCHANGED <<rx, rxSeq>>
  /\ UNCHANGED <<kbdVars, rcvSession, rcvResync, releaseMask, deliveredSeq, pending,
                 poll, ready, protocol, airVars, host, trouble>>

RcvReply ==
  /\ work # None /\ work.frames = <<>>
  /\ work' = None
  /\ toKbd' = IF toKbd = None
              THEN [kind |-> "ack", session |-> rcvSession, status |-> Status(rx)]
              ELSE toKbd
  /\ UNCHANGED <<kbdVars, rcvSession, rxSeq, rcvResync, hidVars, toRcv, host, trouble>>

-----------------------------------------------------------------------------
(* The receiver's main loop: receiver_hid_poll reads under the lock, submit  *)
(* takes the lock again.                                                     *)

ReportFor(seq, t, d) ==
  [kind |-> "report", seq |-> seq, type |-> t, data |-> d, fresh |-> TRUE]

PollRead ==
  /\ poll = None
  /\ \/ /\ "keyboard" \in releaseMask
        /\ poll' = ReportFor(0, "keyboard", Zero)
     \/ /\ releaseMask = {"consumer"}
        /\ poll' = ReportFor(0, "consumer", Zero)
     \/ /\ releaseMask = {} /\ rx.frames # <<>>
        /\ LET f == Head(rx.frames) IN poll' = ReportFor(f.seq, f.type, f.data)
  /\ UNCHANGED <<kbdVars, rcvVars, rx, releaseMask, deliveredSeq, pending, ready,
                 protocol, airVars, host, trouble>>

\* Mutation: submit does not look at delivered_sequence.
NeverDelivered == FALSE

AlreadyDelivered ==
  poll.seq # 0 /\ poll.seq = deliveredSeq /\ releaseMask = {}

Submittable ==
  /\ poll.fresh
  /\ ~AlreadyDelivered
  /\ ready /\ pending = None
  /\ poll.seq # 0 => releaseMask = {}

Silent == protocol = "boot" /\ poll.type = "consumer"

\* submit() gives up: a stale report, one already delivered, or try again later.
PollDrop ==
  /\ poll # None /\ ~Submittable
  /\ poll' = None
  /\ UNCHANGED <<kbdVars, rcvVars, rx, releaseMask, deliveredSeq, pending, ready,
                 protocol, airVars, host, trouble>>

\* The boot protocol has no consumer report: it completes without USB.
PollSkip ==
  /\ poll # None /\ Submittable /\ Silent
  /\ IF poll.seq = 0
     THEN /\ releaseMask' = releaseMask \ {"consumer"}
          /\ UNCHANGED <<rx, deliveredSeq>>
     ELSE /\ deliveredSeq' = poll.seq
          /\ rx' = Complete(rx, poll.seq)
          /\ UNCHANGED releaseMask
  /\ poll' = None
  /\ UNCHANGED <<kbdVars, rcvVars, pending, ready, protocol, airVars, host, trouble>>

PollSubmit ==
  /\ poll # None /\ Submittable /\ ~Silent
  /\ pending' = poll
  /\ poll' = None
  /\ UNCHANGED <<kbdVars, rcvVars, rx, releaseMask, deliveredSeq, ready, protocol,
                 airVars, host, trouble>>

\* hid_device_submit_report fails: busy is cleared again, nothing else changes.
PollSubmitFails ==
  /\ Disturb /\ poll # None /\ Submittable /\ ~Silent
  /\ poll' = None
  /\ UNCHANGED <<kbdVars, rcvVars, rx, releaseMask, deliveredSeq, pending, ready,
                 protocol, airVars, host>>

-----------------------------------------------------------------------------
(* The receiver's USB stack and shell *)

\* report_done with status 0: the host has the report, stale or not.
TransferDone ==
  /\ pending # None
  /\ host' = [host EXCEPT ![pending.type] = pending.data]
  /\ IF pending.fresh
     THEN /\ deliveredSeq' = pending.seq
          /\ rx' = IF pending.seq # 0 THEN Complete(rx, pending.seq) ELSE rx
          /\ releaseMask' = IF pending.seq = 0 THEN releaseMask \ {pending.type}
                            ELSE releaseMask
     ELSE UNCHANGED <<deliveredSeq, rx, releaseMask>>
  /\ pending' = None
  /\ UNCHANGED <<kbdVars, rcvVars, poll, ready, protocol, airVars, trouble>>

TransferFails ==
  /\ Disturb /\ pending # None
  /\ pending' = None
  /\ UNCHANGED <<kbdVars, rcvVars, rx, releaseMask, deliveredSeq, poll, ready, protocol,
                 airVars, host>>

IfaceReady ==
  /\ Disturb
  /\ ready' = ~ready
  /\ Release
  /\ rcvResync' = TRUE
  /\ UNCHANGED <<kbdVars, rcvSession, rxSeq, work, protocol, airVars, host>>

SetProtocol ==
  /\ Disturb /\ ready
  /\ protocol' \in Protocols
  /\ Release
  /\ rcvResync' = TRUE
  /\ UNCHANGED <<kbdVars, rcvSession, rxSeq, work, ready, airVars, host>>

\* receiver_hid_test_hold; the 500 ms hold itself is a main loop that waits.
TestHold ==
  /\ Disturb
  /\ Release
  /\ rcvResync' = TRUE
  /\ UNCHANGED <<kbdVars, rcvSession, rxSeq, work, ready, protocol, airVars, host>>

\* The dongle's "reconnect" command: apex_radio_request_session alone.
Reconnect ==
  /\ Disturb /\ ~rcvResync
  /\ rcvResync' = TRUE
  /\ UNCHANGED <<kbdVars, rcvSession, rxSeq, work, hidVars, airVars, host>>

-----------------------------------------------------------------------------
(* The air, and the end of trouble *)

LosePacket ==
  /\ Disturb
  /\ \/ toRcv # None /\ toRcv' = None /\ UNCHANGED toKbd
     \/ toKbd # None /\ toKbd' = None /\ UNCHANGED toRcv
  /\ UNCHANGED <<kbdVars, rcvVars, hidVars, host>>

Settle ==
  /\ trouble # 0
  /\ trouble' = 0
  /\ UNCHANGED <<kbdVars, rcvVars, hidVars, airVars, host>>

PublishAny == \E t \in Types : \E d \in Reports(t) : Publish(t, d)

Environment ==
  \/ PublishAny \/ Select \/ KbdTimeout \/ RcvTimeout
  \/ PollSubmitFails \/ TransferFails \/ IfaceReady \/ SetProtocol
  \/ TestHold \/ Reconnect \/ LosePacket

KbdTraffic == KbdSend \/ KbdReceive
RcvTraffic == RcvReceive \/ RcvDeliver \/ RcvReply
Poll == PollRead \/ PollDrop \/ PollSkip \/ PollSubmit

Next ==
  \/ KbdRestart \/ KbdSilence \/ KbdEstablish \/ KbdTraffic
  \/ RcvRestart \/ RcvSilence \/ RcvEstablish \/ RcvTraffic
  \/ Poll \/ TransferDone
  \/ Environment \/ Settle

Spec == Init /\ [][Next]_vars

(* Every thread loops for ever and every bounded wait ends; the radio      *)
(* threads run their time-outs.  The receiver's loop tests resync and its  *)
(* time-out in every round, after the packet at hand, so packet after      *)
(* packet cannot put them off: strong fairness.  Nothing is assumed of     *)
(* losses, key presses and USB events, except that a behaviour may reach   *)
(* Settle, after which there are none.                                     *)
Fairness ==
  /\ WF_vars(KbdRestart) /\ WF_vars(KbdSilence)
  /\ WF_vars(KbdEstablish) /\ WF_vars(KbdTraffic)
  /\ SF_vars(RcvRestart) /\ SF_vars(RcvSilence)
  /\ WF_vars(RcvEstablish) /\ WF_vars(RcvTraffic)
  /\ WF_vars(Poll) /\ WF_vars(TransferDone)

FairSpec == Spec /\ Fairness

-----------------------------------------------------------------------------
(* Properties *)

\* Both ends are in one session and USB has not taken the receiver out of it.
Shared == kbdSession # NoSession /\ rcvSession = kbdSession /\ ~rcvResync

ForReceiver == IF toRcv # None /\ toRcv.session = rcvSession THEN toRcv.frames ELSE <<>>
InWork == IF work # None THEN work.frames ELSE <<>>

(* The two ends agree on the window: what the keyboard believes accepted,  *)
(* completed and free is never more than what apex_delivery_receive and    *)
(* apex_delivery_complete have really done, however acknowledgements are   *)
(* lost or late.                                                           *)
WindowAgreement ==
  Shared =>
    /\ tx.completed <= rx.completed /\ tx.accepted <= rx.accepted
    /\ rx.accepted <= tx.sent
    /\ rx.accepted - rx.completed = Len(rx.frames)
    /\ tx.accepted + tx.free <= rx.completed + Capacity

(* A report in the receiver's buffer is still in the keyboard's queue, with *)
(* the same sequence and contents and in the same order: nothing is dropped *)
(* from input_queue before USB has completed it.                            *)
NothingLost ==
  Shared /\ ~kbdResync =>
    \A i \in 1..Len(rx.frames) :
      /\ rx.frames[i].seq = rx.completed + i
      /\ \E j \in 1..Len(queue.frames) : queue.frames[j] = rx.frames[i]

(* The keyboard never overruns its credit: every report it has put on the  *)
(* air fits the receiver's buffer when it arrives, so the -EAGAIN answer   *)
(* of apex_radio_deliver is never needed inside a session.                 *)
CreditSuffices ==
  Shared =>
    \A frames \in {ForReceiver, InWork} :
      \A i \in 1..Len(frames) : frames[i].seq <= rx.completed + Capacity

(* Inside a session neither end refuses the other's packets (-EINVAL in    *)
(* input_packet), so a lost reply can never make the two ends deadlock.    *)
NothingRefused ==
  Shared =>
    /\ ForReceiver # <<>> =>
         /\ ForReceiver[1].seq <= rxSeq + 1
         /\ Len(ForReceiver) = 1 => ForReceiver[1].seq >= rxSeq
    /\ toKbd # None /\ toKbd.session = kbdSession => Applicable(tx, toKbd.status)

(* The window keeps its limits: no variable leaves its range (the queue its *)
(* entries and its 32 bits of sequence, the receiver's buffer its           *)
(* capacity), the credit suffices, and nothing the ends send inside a       *)
(* session is refused.                                                      *)
WindowKept == TypeOK /\ CreditSuffices /\ NothingRefused

(* The report in flight on USB, unless stale, is the oldest one of the     *)
(* buffer and only follows a completed release: no report is given to the  *)
(* host twice or out of order, although poll reads it before submit locks. *)
InFlightIsOldest ==
  pending # None /\ pending.fresh /\ pending.seq # 0 =>
    /\ releaseMask = {}
    /\ rx.frames # <<>>
    /\ Head(rx.frames) = [seq |-> pending.seq, type |-> pending.type, data |-> pending.data]

(* After apex_radio_release the host has seen the empty report of a type   *)
(* before the receiver counts that type as released, even if a report of   *)
(* the session before was still in flight.                                 *)
ReleasedBeforeReports ==
  protocol = "report" /\ rx.completed = 0 =>
    \A t \in Types \ releaseMask : host[t] = Zero

(* No stuck and no missing key: when the keyboard's queue is empty in a    *)
(* session of both ends, the host acts on exactly the latest reports.      *)
HostInSync ==
  Shared /\ ~kbdResync /\ queue.frames = <<>> =>
    /\ host["keyboard"] = queue.latest["keyboard"]
    /\ protocol = "report" => host["consumer"] = queue.latest["consumer"]

Promise == INSTANCE Sessions

(* The sessions come and go here as Sessions lets them, which is what        *)
(* Handshake implements: whatever losses, timeouts and USB events restart    *)
(* which end, no run of this module has sessions that the promise excludes.  *)
FollowsSessions == Promise!Spec

Converged ==
  /\ Shared
  /\ host["keyboard"] = queue.latest["keyboard"]
  /\ protocol = "report" => host["consumer"] = queue.latest["consumer"]

(* Once losses, key presses and USB events end, the host acts on the       *)
(* latest reports for ever, whatever sessions, overflows and releases came *)
(* before.                                                                 *)
EventuallyInSync == (trouble = 0 /\ ready) ~> []Converged

-----------------------------------------------------------------------------
(* The inductive invariant behind the window and credit properties: what    *)
(* they rest on and what makes each step preserve them.                     *)

\* The queue is numbered without gaps and is empty outside a session.
QueueInOrder ==
  /\ \A i \in 1..Len(queue.frames) :
       queue.frames[i].seq = queue.next - Len(queue.frames) + i - 1
  /\ queue.online => kbdSession # NoSession /\ tx.sent < queue.next
  /\ ~queue.online => queue.frames = <<>>

\* The keyboard's credit is what the receiver had left when it said so.
SenderWindow ==
  /\ tx.completed <= tx.accepted /\ tx.accepted <= tx.sent
  /\ tx.accepted + tx.free = tx.completed + Capacity
  /\ tx.sent <= tx.completed + Capacity
  /\ tx.sent <= tx.accepted + BatchMax

\* The buffer holds exactly what is accepted and not completed, in order.
ReceiverBuffer ==
  /\ rx.accepted = rx.completed + Len(rx.frames)
  /\ Len(rx.frames) <= Capacity
  /\ \A i \in 1..Len(rx.frames) : rx.frames[i].seq = rx.completed + i
  /\ ~rcvResync => rxSeq = rx.accepted

\* Whoever has no session starts the next one from nothing.
IdleIsReset ==
  /\ kbdSession = NoSession => tx = TxReset
  /\ rcvSession = NoSession => rx = RxReset /\ rxSeq = 0 /\ work = None

\* Nothing of an offered session is anywhere before the keyboard takes it.
OfferIsFresh ==
  offer # NoSession =>
    /\ kbdSession = NoSession
    /\ offer = rcvSession =>
         /\ rx = RxReset /\ rxSeq = 0 /\ work = None
         /\ offer \notin SessionOf(toRcv) \cup SessionOf(toKbd)

\* Packets carry consecutive reports; the receiver handles one at a time.
InOrder(frames) == \A i \in 1..Len(frames) : frames[i].seq = frames[1].seq + i - 1

PacketsInOrder ==
  /\ toRcv = None \/ work = None
  /\ toRcv # None => InOrder(toRcv.frames)
  /\ work # None => InOrder(work.frames) /\ (~work.batch => Len(work.frames) <= 1)
  /\ toKbd # None => ValidAck(toKbd.status)

\* In a shared session the two windows, and all that is under way between
\* them, agree.
SharedWindow ==
  Shared =>
    /\ tx.completed <= rx.completed /\ tx.accepted <= rx.accepted
    /\ rx.accepted <= tx.sent
    /\ toRcv # None /\ toRcv.session = kbdSession /\ toRcv.frames # <<>> =>
         /\ toRcv.frames[1].seq <= rx.accepted + 1
         /\ Len(toRcv.frames) = 1 => toRcv.frames[1].seq >= rx.accepted
         /\ toRcv.frames[Len(toRcv.frames)].seq <= tx.sent
    /\ work # None /\ work.frames # <<>> =>
         /\ work.frames[1].seq <= rx.accepted + 1
         /\ ~work.batch => work.frames[1].seq >= rx.accepted
         /\ work.frames[Len(work.frames)].seq <= tx.sent
    /\ toKbd # None /\ toKbd.session = kbdSession =>
         /\ tx.accepted <= toKbd.status.accepted
         /\ tx.completed <= toKbd.status.completed
         /\ toKbd.status.accepted <= rx.accepted
         /\ toKbd.status.completed <= rx.completed

(* The two windows never disagree, conjunct by conjunct inductive.          *)
WindowInv ==
  /\ TypeOK
  /\ QueueInOrder
  /\ SenderWindow
  /\ ReceiverBuffer
  /\ IdleIsReset
  /\ OfferIsFresh
  /\ PacketsInOrder
  /\ SharedWindow

-----------------------------------------------------------------------------
(* The inductive invariant behind the content properties.  It says of the   *)
(* reports what WindowInv says of their numbers, and rests on it.           *)

\* What USB was given, or is about to be: while a release is not yet through
\* nothing completes, an overtaken transfer leaves every release to do, and
\* what the main loop read is still the oldest report or was just delivered.
IsHead(s) ==
  rx.frames # <<>> /\ Head(rx.frames) = [seq |-> s.seq, type |-> s.type, data |-> s.data]

UsbOrder ==
  /\ releaseMask # {} => rx.completed = 0
  /\ poll # None /\ poll.seq = 0 => poll.data = Zero
  /\ poll # None /\ poll.fresh =>
       IF poll.seq = 0 THEN rx.completed = 0
       ELSE /\ releaseMask = {}
            /\ IsHead(poll) \/ (pending = None /\ poll.seq = deliveredSeq)
  /\ pending # None /\ pending.seq = 0 => pending.data = Zero
  /\ pending # None /\ ~pending.fresh => releaseMask = Types
  /\ pending # None /\ pending.fresh =>
       IF pending.seq = 0 THEN rx.completed = 0
       ELSE /\ releaseMask = {} /\ IsHead(pending)
            /\ poll # None /\ poll.fresh => poll.seq # 0

\* The keyboard's session is up and no report of it was refused.
Sending == kbdSession # NoSession /\ ~kbdResync

InQueue(q, f) == \E j \in 1..Len(q.frames) : q.frames[j] = f
LastOfType(q, j) ==
  \A k \in (j + 1)..Len(q.frames) : q.frames[k].type # q.frames[j].type

\* A queue that starts behind what is completed: both reports are in a new
\* one, and the last report of a type in it is the latest.
Current(q, completed) ==
  /\ q.online
  /\ q.next - Len(q.frames) = completed + 1
  /\ \A j \in 1..Len(q.frames) :
       LastOfType(q, j) => q.frames[j].data = q.latest[q.frames[j].type]
  /\ completed = 0 => \A t \in Types : \E j \in 1..Len(q.frames) : q.frames[j].type = t

QueueIsCurrent == Sending => Current(queue, tx.completed)

\* Every report under way is in the queue, unless it is known as completed.
CarriesQueue(frames) ==
  \A i \in 1..Len(frames) : frames[i].seq > tx.completed => InQueue(queue, frames[i])

\* The host has been shown all reports of a type that the queue holds.
ShownAll(q, completed, t) ==
  \A j \in 1..Len(q.frames) : q.frames[j].type = t => q.frames[j].seq <= completed

SharedContent ==
  Shared /\ ~kbdResync =>
    /\ \A i \in 1..Len(rx.frames) : InQueue(queue, rx.frames[i])
    /\ CarriesQueue(ForReceiver) /\ CarriesQueue(InWork)
    /\ \A t \in Types :
         ShownAll(queue, rx.completed, t) /\ (t = "keyboard" \/ protocol = "report")
           => host[t] = queue.latest[t]

ContentInv ==
  /\ UsbOrder
  /\ ReleasedBeforeReports
  /\ QueueIsCurrent
  /\ SharedContent
=============================================================================
