----------------------------- MODULE InputQueue -----------------------------
(***************************************************************************)
(* The keyboard's report queue, radio/src/apex_input.c, as operators on a  *)
(* queue record.  The ring buffer (frames, head, count) is the sequence of *)
(* the frames it holds, oldest first.  Reports are absolute: "latest"      *)
(* holds the last keyboard report and the last consumer report published.  *)
(***************************************************************************)
EXTENDS Integers, Sequences

CONSTANTS
  QueueSize,        \* APEX_INPUT_QUEUE_SIZE
  SeqMax,           \* UINT32_MAX: no frame ever carries it
  KeyReports,       \* the keyboard reports considered
  ConsumerReports,  \* the consumer reports considered
  Zero              \* the all-zero report: nothing pressed

ASSUME QueueAssumption ==
  /\ QueueSize \in Nat /\ QueueSize >= 2
  /\ SeqMax \in Nat /\ SeqMax >= 3
  /\ Zero \in KeyReports \cap ConsumerReports

Types == {"keyboard", "consumer"}
Reports(t) == IF t = "keyboard" THEN KeyReports ELSE ConsumerReports
AllReports == KeyReports \cup ConsumerReports
Released == [t \in Types |-> Zero]

Frame == [seq : 1..(SeqMax - 1), type : Types, data : AllReports]

QueueType ==
  [frames : Seq(Frame), latest : [Types -> AllReports],
   next : 0..SeqMax, online : BOOLEAN]

\* memset(&input_queue, 0, sizeof(input_queue)) and the initial .bss
ZeroQueue == [frames |-> <<>>, latest |-> Released, next |-> 0, online |-> FALSE]

\* enqueue() returns -2 in these two cases
CannotEnqueue(q) == Len(q.frames) = QueueSize \/ q.next = SeqMax

Enqueue(q, t, d) ==
  IF CannotEnqueue(q) THEN q
  ELSE [frames |-> Append(q.frames, [seq |-> q.next, type |-> t, data |-> d]),
        latest |-> q.latest, next |-> q.next + 1, online |-> q.online]

Disconnect(q) ==
  [frames |-> <<>>, latest |-> q.latest, next |-> q.next, online |-> FALSE]

\* Mutation: the new session does not publish the current state.
StartSessionEmpty(q) ==
  [frames |-> <<>>, latest |-> q.latest, next |-> 1, online |-> TRUE]

\* A new session starts with the current state of both reports, as 1 and 2.
StartSession(q) ==
  LET fresh == [frames |-> <<>>, latest |-> q.latest, next |-> 1, online |-> TRUE]
  IN  Enqueue(Enqueue(fresh, "keyboard", q.latest["keyboard"]),
              "consumer", q.latest["consumer"])

\* apex_input_push: an unchanged report is dropped, a changed one is
\* remembered, and queued only while a session is online.
Push(q, t, d) ==
  LET seen == [q EXCEPT !.latest[t] = d]
  IN  IF q.latest[t] = d THEN q
      ELSE IF q.online THEN Enqueue(seen, t, d) ELSE seen

PushOverflows(q, t, d) == q.latest[t] # d /\ q.online /\ CannotEnqueue(q)

\* How many of the queued frames have a sequence up to seq.  Enqueue numbers
\* them without gaps, so the sequence of the first one tells.
UpTo(q, seq) ==
  IF q.frames = <<>> \/ seq < q.frames[1].seq THEN 0
  ELSE IF seq - q.frames[1].seq >= Len(q.frames) THEN Len(q.frames)
  ELSE seq - q.frames[1].seq + 1

DropFirst(q, n) == [q EXCEPT !.frames = SubSeq(@, n + 1, Len(@))]

\* The keyboard pops the head (apex_input_ack) while it is completed.
Pop(q, completed) == DropFirst(q, UpTo(q, completed))
=============================================================================
