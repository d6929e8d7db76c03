------------------------------- MODULE Stream -------------------------------
(***************************************************************************)
(* One end of the stop-and-wait stream that carries shell, update and      *)
(* Studio frames over the radio: radio/src/apex_stream.c.  One frame at a  *)
(* time waits to be acknowledged (tx) and one waits to be read (rx).       *)
(***************************************************************************)
EXTENDS Integers

CONSTANTS
  Frames,       \* the frames the users of the stream exchange
  NoFrame,      \* what a slot without a frame holds (a length of 0)
  MaxSequence   \* the last number of a frame in a session (UINT16_MAX)

ASSUME StreamAssumption == MaxSequence \in Nat \ {0} /\ NoFrame \notin Frames

StreamType ==
  [tx : Frames \cup {NoFrame}, txSeq : 0..MaxSequence,
   rx : Frames \cup {NoFrame}, rxSeq : 0..MaxSequence]
StreamPacket ==
  [data : Frames \cup {NoFrame}, seq : 0..MaxSequence, ack : 0..MaxSequence]

StreamReset == [tx |-> NoFrame, txSeq |-> 0, rx |-> NoFrame, rxSeq |-> 0]

\* Mutation: the number of a frame overflows.
ExhaustedLate(s) == s.txSeq > MaxSequence

\* apex_stream_put refuses at the last sequence and has to wait for the slot.
Exhausted(s) == s.txSeq = MaxSequence
CanPut(s) == ~Exhausted(s) /\ s.tx = NoFrame
PutFrame(s, f) == [s EXCEPT !.tx = f, !.txSeq = @ + 1]

TakeFrame(s) == [s EXCEPT !.rx = NoFrame]

Pack(s) ==
  [data |-> s.tx, seq |-> IF s.tx = NoFrame THEN 0 ELSE s.txSeq, ack |-> s.rxSeq]

\* apex_stream_receive returns -1.
Refused(s, p) == p.ack > s.txSeq \/ p.seq > s.rxSeq + 1

\* Mutation: a frame that finds the last one unread replaces it.
IsNewOverwriting(s, p) == p.seq > s.rxSeq

\* A frame is taken once, and only when the last one has been read; until
\* then it is not acknowledged and will be sent again.
IsNew(s, p) == p.seq > s.rxSeq /\ s.rx = NoFrame

\* Mutation: any acknowledgement frees the slot.
AcknowledgedAnyhow(s, p) == [s EXCEPT !.tx = NoFrame]

Acknowledged(s, p) == IF p.ack = s.txSeq THEN [s EXCEPT !.tx = NoFrame] ELSE s

StreamReceive(s, p) ==
  LET acknowledged == Acknowledged(s, p)
  IN  IF IsNew(s, p) THEN [acknowledged EXCEPT !.rx = p.data, !.rxSeq = p.seq]
                     ELSE acknowledged
=============================================================================
