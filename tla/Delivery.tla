------------------------------ MODULE Delivery ------------------------------
(***************************************************************************)
(* The windowed delivery between the keyboard's queue and the receiver's   *)
(* USB report buffer, radio/src/apex_delivery.c.  "rx" is the receiver's   *)
(* buffer, "tx" the keyboard's view of it.  A report is accepted when it   *)
(* is buffered and completed when USB has taken it; an acknowledgement     *)
(* carries both counters and the free space, which is the sender's credit. *)
(***************************************************************************)
EXTENDS InputQueue

CONSTANTS
  Capacity,         \* APEX_DELIVERY_CAPACITY
  BatchMax          \* APEX_DELIVERY_BATCH_MAX

ASSUME DeliveryAssumption ==
  /\ Capacity \in Nat \ {0}
  /\ BatchMax \in Nat \ {0}

Seqs == 0..(SeqMax - 1)
RxType == [accepted : Seqs, completed : Seqs, frames : Seq(Frame)]
TxType == [sent : Seqs, accepted : Seqs, completed : Seqs, free : 0..Capacity]
AckType == [accepted : Seqs, completed : Seqs, free : 0..Capacity]

RxReset == [accepted |-> 0, completed |-> 0, frames |-> <<>>]
TxReset == [sent |-> 0, accepted |-> 0, completed |-> 0, free |-> Capacity]

\* apex_delivery_receive: the return code, and the buffer it leaves.
ReceiveCode(rx, f) ==
  IF f.seq <= rx.accepted THEN "duplicate"
  ELSE IF f.seq # rx.accepted + 1 THEN "invalid"
  ELSE IF Len(rx.frames) = Capacity THEN "full"
  ELSE "queued"

Receive(rx, f) ==
  IF ReceiveCode(rx, f) = "queued"
  THEN [rx EXCEPT !.frames = Append(@, f), !.accepted = f.seq]
  ELSE rx

\* apex_delivery_complete: only the head of the buffer can complete.
Complete(rx, seq) ==
  IF rx.frames # <<>> /\ Head(rx.frames).seq = seq
  THEN [rx EXCEPT !.frames = Tail(@), !.completed = seq]
  ELSE rx

Status(rx) ==
  [accepted |-> rx.accepted, completed |-> rx.completed,
   free |-> Capacity - Len(rx.frames)]

ValidAck(a) ==
  /\ a.completed <= a.accepted
  /\ a.free <= Capacity
  /\ a.accepted - a.completed = Capacity - a.free

\* apex_delivery_apply accepts an acknowledgement in these cases only.
Applicable(tx, a) ==
  /\ ValidAck(a)
  /\ a.accepted <= tx.sent
  /\ a.accepted >= tx.accepted
  /\ a.completed >= tx.completed

Apply(tx, a) ==
  [tx EXCEPT !.accepted = a.accepted, !.completed = a.completed, !.free = a.free]

\* apex_delivery_batch: up to BatchMax frames that follow tx.accepted without
\* a gap, and none at all unless the receiver has room for every one of them.
BatchSize(n) == IF n < BatchMax THEN n ELSE BatchMax

\* Mutation: the batch is sent whatever room the receiver has.
BatchWithoutCredit(tx, q) ==
  LET skip == UpTo(q, tx.accepted)
      n == BatchSize(Len(q.frames) - skip)
  IN  IF q.online /\ n > 0 /\ q.frames[skip + 1].seq = tx.accepted + 1
      THEN SubSeq(q.frames, skip + 1, skip + n)
      ELSE <<>>

Batch(tx, q) ==
  LET skip == UpTo(q, tx.accepted)
      n == BatchSize(Len(q.frames) - skip)
  IN  IF q.online /\ n > 0 /\ n <= tx.free /\ q.frames[skip + 1].seq = tx.accepted + 1
      THEN SubSeq(q.frames, skip + 1, skip + n)
      ELSE <<>>
=============================================================================
