-------------------------- MODULE RadioInputProofs --------------------------
(***************************************************************************)
(* Proofs about RadioInput, for every size of the queue, the window and    *)
(* the batch, every set of reports and unbounded trouble.                  *)
(***************************************************************************)
EXTENDS RadioInput, SequenceTheorems, TLAPS

USE QueueAssumption, DeliveryAssumption, EnvironmentAssumption

-----------------------------------------------------------------------------
(* The operators on the queue and the window *)

\* Zero is a report of both types, and every report of a type is a report.
LEMMA ReportFacts ==
  /\ Zero \in AllReports
  /\ \A t \in Types : Reports(t) \subseteq AllReports
  /\ Released \in [Types -> AllReports]
BY DEF AllReports, Reports, Released, Types

\* Enqueue keeps the type of a queue whose numbering has started.
LEMMA EnqueueFacts ==
  ASSUME NEW q \in QueueType, NEW t \in Types, NEW d \in AllReports, q.next >= 1
  PROVE  /\ Enqueue(q, t, d) \in QueueType
         /\ Enqueue(q, t, d).online = q.online
         /\ Enqueue(q, t, d).latest = q.latest
         /\ Enqueue(q, t, d).next >= q.next
         /\ CannotEnqueue(q) => Enqueue(q, t, d) = q
         /\ ~CannotEnqueue(q) =>
              /\ Enqueue(q, t, d).next = q.next + 1
              /\ Enqueue(q, t, d).frames
                   = Append(q.frames, [seq |-> q.next, type |-> t, data |-> d])
<1> DEFINE f == [seq |-> q.next, type |-> t, data |-> d]
<1>1. CASE CannotEnqueue(q)
  BY <1>1 DEF Enqueue, QueueType
<1>2. CASE ~CannotEnqueue(q)
  <2>1. q.next \in 1..(SeqMax - 1) /\ q.next + 1 \in 0..SeqMax
    BY <1>2 DEF CannotEnqueue, QueueType
  <2>2. f \in Frame
    BY <2>1 DEF Frame
  <2>3. Append(q.frames, f) \in Seq(Frame)
    BY <2>2 DEF QueueType
  <2>4. Enqueue(q, t, d) = [frames |-> Append(q.frames, f), latest |-> q.latest,
                            next |-> q.next + 1, online |-> q.online]
    BY <1>2 DEF Enqueue, QueueType
  <2>5. Enqueue(q, t, d) \in QueueType
    BY <2>1, <2>3, <2>4 DEF QueueType
  <2>6. q.next + 1 >= q.next
    BY <2>1
  <2> QED BY <1>2, <2>4, <2>5, <2>6
<1> QED BY <1>1, <1>2

\* Push leaves the numbering and the session alone and adds at most one frame.
LEMMA PushFacts ==
  ASSUME NEW q \in QueueType, NEW t \in Types, NEW d \in AllReports,
         q.online => q.next >= 1
  PROVE  /\ Push(q, t, d) \in QueueType
         /\ Push(q, t, d).online = q.online
         /\ \/ /\ Push(q, t, d).frames = q.frames
               /\ Push(q, t, d).next = q.next
            \/ /\ q.online
               /\ Push(q, t, d).frames
                    = Append(q.frames, [seq |-> q.next, type |-> t, data |-> d])
               /\ Push(q, t, d).next = q.next + 1
<1> DEFINE seen == [q EXCEPT !.latest[t] = d]
<1>1. /\ seen \in QueueType /\ seen.online = q.online
      /\ seen.frames = q.frames /\ seen.next = q.next
  BY DEF QueueType
<1> HIDE DEF seen
<1>2. CASE q.latest[t] = d
  BY <1>2 DEF Push
<1>3. CASE q.latest[t] # d /\ ~q.online
  <2>1. Push(q, t, d) = seen
    BY <1>3 DEF Push, seen
  <2> QED BY <1>1, <2>1
<1>4. CASE q.latest[t] # d /\ q.online
  <2>1. Push(q, t, d) = Enqueue(seen, t, d)
    BY <1>4 DEF Push, seen
  <2>2. seen.next >= 1
    BY <1>1, <1>4
  <2>3. Enqueue(seen, t, d) \in QueueType /\ Enqueue(seen, t, d).online = seen.online
    BY <1>1, <2>2, EnqueueFacts
  <2>4. CASE CannotEnqueue(seen)
    <3>1. Enqueue(seen, t, d) = seen
      BY <1>1, <2>2, <2>4, EnqueueFacts
    <3> QED BY <1>1, <2>1, <3>1
  <2>5. CASE ~CannotEnqueue(seen)
    <3>1. /\ Enqueue(seen, t, d).next = seen.next + 1
          /\ Enqueue(seen, t, d).frames
               = Append(seen.frames, [seq |-> seen.next, type |-> t, data |-> d])
      BY <1>1, <2>2, <2>5, EnqueueFacts
    <3> QED BY <1>1, <1>4, <2>1, <2>3, <3>1
  <2> QED BY <2>4, <2>5
<1> QED BY <1>2, <1>3, <1>4

LEMMA DisconnectFacts ==
  ASSUME NEW q \in QueueType
  PROVE  /\ Disconnect(q) \in QueueType
         /\ Disconnect(q).frames = <<>> /\ Disconnect(q).online = FALSE
<1>1. Disconnect(q)
        = [frames |-> <<>>, latest |-> q.latest, next |-> q.next, online |-> FALSE]
  BY DEF Disconnect, QueueType
<1>2. <<>> \in Seq(Frame)
  OBVIOUS
<1>3. q.latest \in [Types -> AllReports] /\ q.next \in 0..SeqMax
  BY DEF QueueType
<1>4. Disconnect(q) \in QueueType
  BY <1>1, <1>2, <1>3 DEF QueueType
<1> QED BY <1>1, <1>4

\* A new session starts with two frames, numbered 1 and 2.
LEMMA StartFacts ==
  ASSUME NEW q \in QueueType
  PROVE  /\ StartSession(q) \in QueueType
         /\ StartSession(q).online = TRUE
         /\ StartSession(q).next = 3
         /\ Len(StartSession(q).frames) = 2
         /\ StartSession(q).frames[1].seq = 1
         /\ StartSession(q).frames[2].seq = 2
<1> DEFINE fresh == [frames |-> <<>>, latest |-> q.latest, next |-> 1, online |-> TRUE]
           key == [seq |-> 1, type |-> "keyboard", data |-> q.latest["keyboard"]]
           con == [seq |-> 2, type |-> "consumer", data |-> q.latest["consumer"]]
           one == Enqueue(fresh, "keyboard", q.latest["keyboard"])
           two == Enqueue(one, "consumer", q.latest["consumer"])
<1>1. /\ fresh \in QueueType /\ fresh.next = 1 /\ fresh.frames = <<>>
      /\ fresh.online = TRUE
  <2>2. <<>> \in Seq(Frame)
    OBVIOUS
  <2>3. q.latest \in [Types -> AllReports] /\ 1 \in 0..SeqMax
    BY DEF QueueType
  <2>4. fresh \in QueueType
    BY <2>2, <2>3 DEF QueueType
  <2> QED BY <2>4
<1>9. StartSession(q) = two
  BY DEF StartSession
<1> HIDE DEF fresh, one, two
<1>2. /\ "keyboard" \in Types /\ "consumer" \in Types
      /\ q.latest["keyboard"] \in AllReports /\ q.latest["consumer"] \in AllReports
  BY DEF QueueType, Types
<1>3. ~CannotEnqueue(fresh)
  BY <1>1 DEF CannotEnqueue
<1>4. /\ one \in QueueType /\ one.online = TRUE /\ one.next = 2
      /\ one.frames = Append(<<>>, key)
  <2>1. fresh.next >= 1
    BY <1>1
  <2> QED BY <1>1, <1>2, <1>3, <2>1, EnqueueFacts DEF one
<1>5. Len(one.frames) = 1 /\ one.frames[1] = key
  BY <1>4
<1>6. ~CannotEnqueue(one)
  BY <1>4, <1>5 DEF CannotEnqueue
<1>7. /\ two \in QueueType /\ two.online = TRUE /\ two.next = 3
      /\ two.frames = Append(one.frames, con)
  <2>1. one.next >= 1
    BY <1>4
  <2>2. /\ two \in QueueType /\ two.online = one.online /\ two.next = one.next + 1
        /\ two.frames = Append(one.frames, [seq |-> one.next, type |-> "consumer",
                                            data |-> q.latest["consumer"]])
    BY <1>2, <1>4, <1>6, <2>1, EnqueueFacts, SMTT(20) DEF two
  <2>3. [seq |-> one.next, type |-> "consumer", data |-> q.latest["consumer"]] = con
    BY <1>4
  <2> QED BY <1>4, <2>2, <2>3
<1>8. /\ Len(two.frames) = 2 /\ two.frames[1] = key /\ two.frames[2] = con
  <2>1. one.frames \in Seq(Frame) /\ con \in Frame
    BY <1>2, <1>4 DEF QueueType, Frame
  <2> QED BY <1>5, <1>7, <2>1, AppendProperties
<1>10. key.seq = 1 /\ con.seq = 2
  OBVIOUS
<1> HIDE DEF key, con
<1> QED BY <1>7, <1>8, <1>9, <1>10

\* The frames of a queue carry consecutive sequences that end below next.
Numbered(q) ==
  \A i \in 1..Len(q.frames) : q.frames[i].seq = q.next - Len(q.frames) + i - 1

\* UpTo counts a prefix of the queue.
LEMMA UpToFacts ==
  ASSUME NEW q \in QueueType, Numbered(q), NEW c \in Nat
  PROVE  /\ UpTo(q, c) \in 0..Len(q.frames)
         /\ UpTo(q, c) < Len(q.frames) =>
              q.frames[UpTo(q, c) + 1].seq >= c + 1
<1>1. Len(q.frames) \in Nat /\ q.next \in Nat
  BY DEF QueueType
<1>2. CASE q.frames = <<>>
  BY <1>1, <1>2 DEF UpTo
<1>3. CASE q.frames # <<>>
  <2>1. Len(q.frames) >= 1
    BY <1>1, <1>3, EmptySeq DEF QueueType
  <2>2. q.frames[1].seq = q.next - Len(q.frames)
    BY <1>1, <2>1 DEF Numbered
  <2>3. q.frames[1].seq \in Int
    BY <1>1, <2>2
  <2>4. CASE c < q.frames[1].seq
    BY <1>1, <2>1, <2>3, <2>4 DEF UpTo
  <2>5. CASE c >= q.frames[1].seq /\ c - q.frames[1].seq >= Len(q.frames)
    BY <1>1, <1>3, <2>1, <2>3, <2>5 DEF UpTo
  <2>6. CASE c >= q.frames[1].seq /\ c - q.frames[1].seq < Len(q.frames)
    <3>1. UpTo(q, c) = c - q.frames[1].seq + 1
      BY <1>1, <1>3, <2>3, <2>6 DEF UpTo
    <3>2. UpTo(q, c) \in 1..Len(q.frames)
      BY <1>1, <2>3, <2>6, <3>1
    <3>3. ASSUME UpTo(q, c) < Len(q.frames)
          PROVE  q.frames[UpTo(q, c) + 1].seq = c + 1
      <4>1. UpTo(q, c) + 1 \in 1..Len(q.frames)
        BY <1>1, <3>2, <3>3
      <4>2. q.frames[UpTo(q, c) + 1].seq = q.next - Len(q.frames) + UpTo(q, c)
        BY <1>1, <3>2, <4>1 DEF Numbered
      <4> QED BY <1>1, <2>2, <3>1, <4>2
    <3> QED BY <1>1, <3>2, <3>3
  <2> QED BY <1>1, <2>3, <2>4, <2>5, <2>6
<1> QED BY <1>2, <1>3

\* Popping what is completed leaves a queue in order.
LEMMA PopFacts ==
  ASSUME NEW q \in QueueType, Numbered(q), NEW c \in Nat
  PROVE  /\ Pop(q, c) \in QueueType
         /\ Pop(q, c).online = q.online
         /\ Pop(q, c).next = q.next
         /\ Numbered(Pop(q, c))
         /\ q.frames = <<>> => Pop(q, c).frames = <<>>
<1> DEFINE n == UpTo(q, c)
           rest == SubSeq(q.frames, n + 1, Len(q.frames))
<1>1. n \in 0..Len(q.frames) /\ Len(q.frames) \in Nat /\ q.next \in Nat
  BY UpToFacts DEF QueueType
<1>2. Pop(q, c) = [q EXCEPT !.frames = rest]
  BY DEF Pop, DropFirst
<1> HIDE DEF n
<1>3. \A i \in (n + 1)..Len(q.frames) : q.frames[i] \in Frame
  BY <1>1, ElementOfSeq DEF QueueType
<1>4. /\ rest \in Seq(Frame) /\ Len(rest) = Len(q.frames) - n
      /\ \A i \in 1..Len(q.frames) - n : rest[i] = q.frames[n + i]
  BY <1>1, <1>3, SubSeqProperties
<1> HIDE DEF rest
<1>5. /\ Pop(q, c) \in QueueType
      /\ Pop(q, c).online = q.online /\ Pop(q, c).next = q.next
      /\ Pop(q, c).frames = rest
  BY <1>2, <1>4 DEF QueueType
<1>6. ASSUME NEW i \in 1..Len(rest)
      PROVE  rest[i].seq = q.next - Len(rest) + i - 1
  <2>1. n + i \in 1..Len(q.frames) /\ i \in 1..Len(q.frames) - n
    BY <1>1, <1>4
  <2>2. q.frames[n + i].seq = q.next - Len(q.frames) + (n + i) - 1
    BY <2>1 DEF Numbered
  <2>3. q.next - Len(q.frames) + (n + i) - 1 = q.next - Len(rest) + i - 1
    BY <1>1, <1>4
  <2>4. rest[i] = q.frames[n + i]
    BY <1>4, <2>1
  <2> QED BY <2>2, <2>3, <2>4, Zenon
<1>7. Numbered(Pop(q, c))
  <2> SUFFICES \A i \in 1..Len(Pop(q, c).frames) :
                 Pop(q, c).frames[i].seq = Pop(q, c).next - Len(Pop(q, c).frames) + i - 1
    BY DEF Numbered
  <2>1. \A i \in 1..Len(rest) : rest[i].seq = q.next - Len(rest) + i - 1
    BY <1>6
  <2> QED BY <1>5, <2>1, Zenon
<1>8. ASSUME q.frames = <<>> PROVE rest = <<>>
  <2>1. Len(rest) = 0
    BY <1>1, <1>4, <1>8
  <2> QED BY <1>4, <2>1, EmptySeq
<1> QED BY <1>5, <1>7, <1>8

\* A batch continues after what is accepted, without a gap, within the credit
\* and the numbering; a batch of one is all there is, or all a packet holds.
LEMMA BatchFacts ==
  ASSUME NEW w \in TxType, NEW q \in QueueType, Numbered(q)
  PROVE  /\ Batch(w, q) \in Seq(Frame)
         /\ Batch(w, q) # <<>> =>
              /\ q.online
              /\ Len(Batch(w, q)) \in 1..BatchMax
              /\ Len(Batch(w, q)) <= w.free
              /\ w.accepted + Len(Batch(w, q)) < q.next
              /\ \A i \in 1..Len(Batch(w, q)) : Batch(w, q)[i].seq = w.accepted + i
              /\ Len(Batch(w, q)) = 1 => BatchMax = 1 \/ q.next = w.accepted + 2
<1> DEFINE skip == UpTo(q, w.accepted)
           n == BatchSize(Len(q.frames) - skip)
           b == SubSeq(q.frames, skip + 1, skip + n)
           sendable == /\ q.online /\ n > 0 /\ n <= w.free
                       /\ q.frames[skip + 1].seq = w.accepted + 1
<1>1. /\ Len(q.frames) \in Nat /\ q.next \in Nat
      /\ w.accepted \in Nat /\ w.free \in Nat /\ BatchMax \in Nat \ {0}
  BY DEF QueueType, TxType, Seqs
<1>2. skip \in 0..Len(q.frames)
  BY <1>1, UpToFacts
<1>3. Batch(w, q) = IF sendable THEN b ELSE <<>>
  BY DEF Batch
<1> HIDE DEF skip
<1>4. n \in 0..(Len(q.frames) - skip) /\ n <= BatchMax
      /\ (n = 1 => BatchMax = 1 \/ Len(q.frames) - skip = 1)
  BY <1>1, <1>2 DEF BatchSize
<1> HIDE DEF n
<1>5. CASE ~sendable
  BY <1>3, <1>5, EmptySeq
<1>6. CASE sendable
  <2>1. \A i \in (skip + 1)..(skip + n) : q.frames[i] \in Frame
    BY <1>1, <1>2, <1>4, ElementOfSeq DEF QueueType
  <2>2. /\ b \in Seq(Frame) /\ Len(b) = n
        /\ \A i \in 1..n : b[i] = q.frames[skip + i]
    <3>1. /\ skip + 1 \in Int /\ skip + n \in Int /\ skip + 1 <= skip + n
          /\ (skip + n) - (skip + 1) + 1 = n
      BY <1>1, <1>2, <1>4, <1>6
    <3>2. /\ b \in Seq(Frame) /\ Len(b) = n
          /\ \A i \in 1..n : b[i] = q.frames[(skip + 1) + i - 1]
      BY <2>1, <3>1, SubSeqProperties
    <3>3. \A i \in 1..n : (skip + 1) + i - 1 = skip + i
      BY <1>1, <1>2, <1>4
    <3> QED BY <3>2, <3>3
  <2>3. Batch(w, q) = b
    BY <1>3, <1>6
  <2> HIDE DEF b
  <2>4. skip + 1 \in 1..Len(q.frames)
    BY <1>1, <1>2, <1>4, <1>6
  <2>5. w.accepted + 1 = q.next - Len(q.frames) + skip
    BY <1>1, <1>2, <1>6, <2>4 DEF Numbered
  <2>6. ASSUME NEW i \in 1..n PROVE b[i].seq = w.accepted + i
    <3>1. skip + i \in 1..Len(q.frames)
      BY <1>1, <1>2, <1>4
    <3>2. q.frames[skip + i].seq = q.next - Len(q.frames) + (skip + i) - 1
      BY <3>1 DEF Numbered
    <3>3. b[i].seq = q.frames[skip + i].seq
      BY <2>2
    <3>4. q.next - Len(q.frames) + (skip + i) - 1 = w.accepted + i
      <4>1. i \in Int /\ skip \in Int
        BY <1>1, <1>2, <1>4
      <4> QED BY <1>1, <2>5, <4>1, SMTT(20)
    <3> QED BY <3>2, <3>3, <3>4, Zenon
  <2>7. w.accepted + n < q.next
    BY <1>1, <1>2, <1>4, <2>5
  <2>8. n = 1 => BatchMax = 1 \/ q.next = w.accepted + 2
    BY <1>1, <1>2, <1>4, <2>5
  <2>9. \A i \in 1..Len(b) : b[i].seq = w.accepted + i
    BY <2>2, <2>6, Zenon
  <2>10. Len(b) \in 1..BatchMax /\ Len(b) <= w.free /\ w.accepted + Len(b) < q.next
    BY <1>1, <1>4, <1>6, <2>2, <2>7
  <2> QED BY <1>6, <2>2, <2>3, <2>8, <2>9, <2>10, Zenon
<1> QED BY <1>5, <1>6

-----------------------------------------------------------------------------
(* The inductive invariant: every action preserves WindowInv *)

LEMMA FramesFacts ==
  ASSUME NEW s \in Seq(Frame), s # <<>>
  PROVE  /\ Len(s) \in Nat /\ Len(s) >= 1
         /\ \A i \in 1..Len(s) : s[i].seq \in Nat /\ s[i].seq \in Seqs /\ s[i].seq >= 1
         /\ s[1].seq \in Nat /\ s[Len(s)].seq \in Nat
<1>1. Len(s) \in Nat /\ Len(s) >= 1
  BY EmptySeq
<1>2. ASSUME NEW i \in 1..Len(s)
      PROVE  s[i].seq \in Nat /\ s[i].seq \in Seqs /\ s[i].seq >= 1
  <2>1. s[i] \in Frame
    BY ElementOfSeq
  <2> QED BY <2>1 DEF Frame, Seqs
<1>3. 1 \in 1..Len(s) /\ Len(s) \in 1..Len(s)
  BY <1>1
<1> QED BY <1>1, <1>2, <1>3

LEMMA ResetFacts ==
  /\ ZeroQueue \in QueueType /\ RxReset \in RxType /\ TxReset \in TxType
  /\ Capacity \in Nat \ {0} /\ BatchMax \in Nat \ {0}
<1>1. <<>> \in Seq(Frame) /\ 0 \in Seqs /\ 0 \in 0..SeqMax /\ Capacity \in 0..Capacity
  BY DEF Seqs
<1> QED BY <1>1, ReportFacts DEF ZeroQueue, RxReset, TxReset, QueueType, RxType, TxType

LEMMA InitWindow == Init => WindowInv
<1> SUFFICES ASSUME Init PROVE WindowInv
  OBVIOUS
<1>1. TypeOK
  <2>1. 0 \in Seqs
    BY DEF Seqs
  <2> QED BY <2>1, ReportFacts, ResetFacts DEF Init, TypeOK
<1>2. QueueInOrder
  BY DEF Init, QueueInOrder, ZeroQueue
<1>3. SenderWindow
  BY ResetFacts DEF Init, SenderWindow, TxReset
<1>4. ReceiverBuffer
  BY ResetFacts DEF Init, ReceiverBuffer, RxReset
<1>5. IdleIsReset /\ OfferIsFresh
  BY DEF Init, IdleIsReset, OfferIsFresh
<1>6. PacketsInOrder /\ SharedWindow
  BY DEF Init, PacketsInOrder, SharedWindow, Shared
<1> QED BY <1>1, <1>2, <1>3, <1>4, <1>5, <1>6 DEF WindowInv

\* The window does not depend on the rest of hid.c and the host.
LEMMA HidStep ==
  ASSUME WindowInv, TypeOK', UNCHANGED <<kbdVars, rcvVars, rx, airVars>>
  PROVE  WindowInv'
<1> USE DEF WindowInv, kbdVars, rcvVars, airVars
<1>1. QueueInOrder' /\ SenderWindow' /\ ReceiverBuffer'
  BY DEF QueueInOrder, SenderWindow, ReceiverBuffer
<1>2. IdleIsReset' /\ OfferIsFresh'
  BY DEF IdleIsReset, OfferIsFresh
<1>3. PacketsInOrder' /\ SharedWindow'
  BY DEF PacketsInOrder, SharedWindow, Shared
<1> QED BY <1>1, <1>2, <1>3

LEMMA PublishStep == ASSUME WindowInv, PublishAny PROVE WindowInv'
<1>0. PICK t \in Types : \E d \in Reports(t) : Publish(t, d)
  BY DEF PublishAny
<1> PICK d \in Reports(t) : Publish(t, d)
  BY <1>0
<1> USE DEF WindowInv, Publish, kbdVars, rcvVars, hidVars, airVars
<1>1. d \in AllReports
  BY ReportFacts
<1>2. queue \in QueueType /\ tx.sent \in Nat /\ queue.next \in Nat
  BY DEF TypeOK, QueueType, TxType, Seqs
<1>3. queue.online => queue.next >= 1
  BY <1>2 DEF QueueInOrder
<1>4. /\ queue' \in QueueType /\ queue'.online = queue.online
      /\ \/ queue'.frames = queue.frames /\ queue'.next = queue.next
         \/ /\ queue.online
            /\ queue'.frames
                 = Append(queue.frames, [seq |-> queue.next, type |-> t, data |-> d])
            /\ queue'.next = queue.next + 1
  BY <1>1, <1>2, <1>3, PushFacts
<1>5. TypeOK'
  BY <1>4 DEF TypeOK, Disturb
<1>6. QueueInOrder'
  <2>1. CASE queue'.frames = queue.frames /\ queue'.next = queue.next
    BY <1>4, <2>1 DEF QueueInOrder
  <2>2. CASE /\ queue.online
             /\ queue'.frames
                 = Append(queue.frames, [seq |-> queue.next, type |-> t, data |-> d])
             /\ queue'.next = queue.next + 1
    <3> DEFINE f == [seq |-> queue.next, type |-> t, data |-> d]
    <3>1. queue.next \in Nat /\ queue'.frames \in Seq(Frame) /\ queue.frames \in Seq(Frame)
      BY <1>2, <1>4 DEF QueueType
    <3>2. /\ Len(queue'.frames) = Len(queue.frames) + 1 /\ Len(queue.frames) \in Nat
          /\ \A i \in 1..Len(queue.frames) : queue'.frames[i] = queue.frames[i]
          /\ queue'.frames[Len(queue.frames) + 1] = f
      BY <2>2, <3>1
    <3>3. ASSUME NEW i \in 1..Len(queue'.frames)
          PROVE  queue'.frames[i].seq = queue'.next - Len(queue'.frames) + i - 1
      <4>1. CASE i \in 1..Len(queue.frames)
        <5>1. queue.frames[i].seq = queue.next - Len(queue.frames) + i - 1
          BY <4>1 DEF QueueInOrder
        <5>2. queue'.frames[i].seq = queue.frames[i].seq
          BY <3>2, <4>1
        <5>3. queue'.next - Len(queue'.frames) + i - 1
                = queue.next - Len(queue.frames) + i - 1
          BY <2>2, <3>1, <3>2, <4>1
        <5> QED BY <5>1, <5>2, <5>3
      <4>2. CASE i = Len(queue.frames) + 1
        <5>1. queue'.frames[i].seq = queue.next
          BY <3>2, <4>2
        <5>2. queue'.next - Len(queue'.frames) + i - 1 = queue.next
          BY <2>2, <3>1, <3>2, <4>2
        <5> QED BY <5>1, <5>2
      <4> QED BY <3>2, <4>1, <4>2
    <3>4. queue'.online => kbdSession' # NoSession /\ tx'.sent < queue'.next
      BY <1>2, <1>4, <2>2 DEF QueueInOrder
    <3>5. queue'.online
      BY <1>4, <2>2
    <3> QED BY <3>3, <3>4, <3>5 DEF QueueInOrder
  <2> QED BY <1>4, <2>1, <2>2
<1>7. SenderWindow' /\ ReceiverBuffer' /\ IdleIsReset' /\ OfferIsFresh' /\ PacketsInOrder'
  BY DEF SenderWindow, ReceiverBuffer, IdleIsReset, OfferIsFresh, PacketsInOrder
<1>8. SharedWindow'
  BY DEF SharedWindow, Shared
<1> QED BY <1>5, <1>6, <1>7, <1>8

LEMMA SelectStep == ASSUME WindowInv, Select PROVE WindowInv'
<1> USE DEF WindowInv, Select, kbdVars, rcvVars, hidVars, airVars
<1>1. TypeOK'
  BY ResetFacts DEF TypeOK, Disturb
<1>2. QueueInOrder'
  BY DEF QueueInOrder, ZeroQueue
<1>3. SenderWindow' /\ ReceiverBuffer' /\ IdleIsReset' /\ OfferIsFresh' /\ PacketsInOrder'
  BY DEF SenderWindow, ReceiverBuffer, IdleIsReset, OfferIsFresh, PacketsInOrder
<1>4. SharedWindow'
  BY DEF SharedWindow, Shared
<1> QED BY <1>1, <1>2, <1>3, <1>4

\* The keyboard starts over: KbdRestart, KbdSilence and KbdTimeout.
LEMMA KbdNewSessionStep ==
  ASSUME WindowInv, KbdNewSession, trouble' \in Nat \cup {Unbounded}
  PROVE  WindowInv'
<1> USE DEF WindowInv, KbdNewSession, kbdVars, rcvVars, hidVars, airVars
<1>1. queue' \in QueueType /\ queue'.frames = <<>> /\ ~queue'.online
  BY DisconnectFacts DEF TypeOK
<1>2. TypeOK'
  BY <1>1, ResetFacts DEF TypeOK
<1>3. QueueInOrder'
  BY <1>1 DEF QueueInOrder
<1>4. SenderWindow'
  BY ResetFacts DEF SenderWindow, TxReset
<1>5. ReceiverBuffer' /\ IdleIsReset' /\ OfferIsFresh' /\ PacketsInOrder'
  BY DEF ReceiverBuffer, IdleIsReset, OfferIsFresh, PacketsInOrder
<1>6. SharedWindow'
  BY DEF SharedWindow, Shared
<1> QED BY <1>2, <1>3, <1>4, <1>5, <1>6

LEMMA KbdEstablishStep == ASSUME WindowInv, KbdEstablish PROVE WindowInv'
<1> USE DEF WindowInv, KbdEstablish, kbdVars, rcvVars, hidVars, airVars
<1>1. /\ queue' \in QueueType /\ queue'.online /\ queue'.next = 3
      /\ Len(queue'.frames) = 2
      /\ queue'.frames[1].seq = 1 /\ queue'.frames[2].seq = 2
  BY StartFacts DEF TypeOK
<1>2. tx = TxReset /\ tx' = TxReset
  BY DEF IdleIsReset
<1>3. TypeOK'
  BY <1>1 DEF TypeOK
<1>4. QueueInOrder'
  <2>1. \A i \in 1..Len(queue'.frames) :
          queue'.frames[i].seq = queue'.next - Len(queue'.frames) + i - 1
    <3>1. \A i \in 1..2 : i = 1 \/ i = 2
      OBVIOUS
    <3> QED BY <1>1, <3>1
  <2>2. kbdSession' # NoSession /\ tx'.sent < queue'.next
    BY <1>1, <1>2 DEF TxReset
  <2> QED BY <1>1, <2>1, <2>2 DEF QueueInOrder
<1>5. SenderWindow' /\ ReceiverBuffer' /\ IdleIsReset' /\ PacketsInOrder'
  BY DEF SenderWindow, ReceiverBuffer, IdleIsReset, PacketsInOrder
<1>6. OfferIsFresh'
  BY DEF OfferIsFresh
<1>7. SharedWindow'
  <2> SUFFICES ASSUME Shared' PROVE SharedWindow'
    BY DEF SharedWindow
  <2>1. offer = rcvSession /\ kbdSession' = offer
    BY DEF Shared
  <2>2. /\ rx = RxReset /\ rxSeq = 0 /\ work = None
        /\ offer \notin SessionOf(toRcv) \cup SessionOf(toKbd)
    BY <2>1 DEF OfferIsFresh
  <2>3. toRcv # None => toRcv.session # kbdSession'
    BY <2>1, <2>2 DEF SessionOf
  <2>4. toKbd # None => toKbd.session # kbdSession'
    BY <2>1, <2>2 DEF SessionOf
  <2>5. /\ tx'.completed <= rx'.completed /\ tx'.accepted <= rx'.accepted
        /\ rx'.accepted <= tx'.sent
    BY <1>2, <2>2 DEF TxReset, RxReset
  <2> QED BY <2>2, <2>3, <2>4, <2>5 DEF SharedWindow
<1> QED BY <1>3, <1>4, <1>5, <1>6, <1>7

LEMMA KbdReceiveStep == ASSUME WindowInv, KbdReceive PROVE WindowInv'
<1> USE DEF WindowInv, KbdReceive, kbdVars, rcvVars, hidVars
<1>1. CASE ~(toKbd.session = kbdSession /\ Applicable(tx, toKbd.status))
  <2>1. TypeOK'
    BY <1>1 DEF TypeOK
  <2>2. QueueInOrder' /\ SenderWindow' /\ ReceiverBuffer' /\ IdleIsReset'
    BY <1>1 DEF QueueInOrder, SenderWindow, ReceiverBuffer, IdleIsReset
  <2>3. OfferIsFresh' /\ PacketsInOrder' /\ SharedWindow'
    BY <1>1 DEF OfferIsFresh, PacketsInOrder, SharedWindow, Shared, SessionOf
  <2> QED BY <2>1, <2>2, <2>3
<1>2. CASE toKbd.session = kbdSession /\ Applicable(tx, toKbd.status)
  <2> DEFINE a == toKbd.status
  <2>1. toKbd \in AckPacket /\ a \in AckType /\ kbdSession # NoSession
    BY <1>2 DEF TypeOK, AckPacket, Session, NoSession
  <2>2. /\ tx' = [tx EXCEPT !.accepted = a.accepted, !.completed = a.completed,
                            !.free = a.free]
        /\ queue' = Pop(queue, a.completed)
    BY <1>2 DEF Apply
  <2>3. /\ tx \in TxType /\ queue \in QueueType /\ Numbered(queue)
    BY DEF TypeOK, QueueInOrder, Numbered
  <2>4. /\ a.accepted \in Nat /\ a.completed \in Nat /\ a.free \in Nat
        /\ a.accepted \in Seqs /\ a.completed \in Seqs /\ a.free \in 0..Capacity
    BY <2>1 DEF AckType, Seqs
  <2>5. tx' = [sent |-> tx.sent, accepted |-> a.accepted,
               completed |-> a.completed, free |-> a.free]
    BY <2>2, <2>3, Zenon DEF TxType
  <2>6. /\ queue' \in QueueType /\ queue'.online = queue.online
        /\ queue'.next = queue.next /\ Numbered(queue')
        /\ queue.frames = <<>> => queue'.frames = <<>>
    BY <2>2, <2>3, <2>4, PopFacts
  <2>7. tx.sent \in Seqs
    BY <2>3 DEF TxType
  <2>8. TypeOK'
    <3>1. tx' \in TxType
      BY <2>4, <2>5, <2>7 DEF TxType
    <3> QED BY <2>6, <3>1 DEF TypeOK
  <2>9. QueueInOrder'
    BY <2>5, <2>6 DEF QueueInOrder, Numbered
  <2>10. /\ a.completed <= a.accepted /\ a.accepted - a.completed = Capacity - a.free
         /\ a.accepted <= tx.sent /\ a.accepted >= tx.accepted
         /\ a.completed >= tx.completed
    BY <1>2 DEF Applicable, ValidAck
  <2>11. SenderWindow'
    <3>1. /\ tx'.completed = a.completed /\ tx'.accepted = a.accepted
          /\ tx'.free = a.free /\ tx'.sent = tx.sent
      BY <2>5
    <3>2. /\ tx.sent \in Nat /\ tx.accepted \in Nat /\ tx.completed \in Nat
          /\ tx.sent <= tx.completed + Capacity /\ tx.sent <= tx.accepted + BatchMax
      BY <2>3 DEF SenderWindow, TxType, Seqs
    <3>3. /\ a.completed <= a.accepted /\ a.accepted <= tx.sent
          /\ a.accepted + a.free = a.completed + Capacity
          /\ tx.sent <= a.completed + Capacity
          /\ tx.sent <= a.accepted + BatchMax
      BY <2>4, <2>10, <3>2, ResetFacts
    <3> QED BY <3>1, <3>3 DEF SenderWindow
  <2>12. ReceiverBuffer' /\ IdleIsReset' /\ PacketsInOrder'
    BY <2>1 DEF ReceiverBuffer, IdleIsReset, PacketsInOrder
  <2>13. OfferIsFresh'
    BY DEF OfferIsFresh, SessionOf
  <2>14. SharedWindow'
    <3> SUFFICES ASSUME Shared PROVE SharedWindow'
      BY DEF SharedWindow, Shared
    <3>1. a.accepted <= rx.accepted /\ a.completed <= rx.completed
      BY <1>2 DEF SharedWindow
    <3>2. /\ tx'.completed <= rx.completed /\ tx'.accepted <= rx.accepted
          /\ tx'.sent = tx.sent
      BY <2>5, <3>1
    <3> QED BY <3>2 DEF SharedWindow
  <2> QED BY <2>8, <2>9, <2>11, <2>12, <2>13, <2>14
<1> QED BY <1>1, <1>2

\* The receiver's session ends: RcvRestart, RcvSilence and RcvTimeout.
LEMMA ReleaseFacts ==
  ASSUME TypeOK, Release
  PROVE  /\ rx' = RxReset /\ rx' \in RxType /\ releaseMask' \in SUBSET Types
         /\ deliveredSeq' \in Seqs
         /\ pending' \in Submission \cup {None} /\ poll' \in Submission \cup {None}
<1>1. \A s \in Submission \cup {None} : Stale(s) \in Submission \cup {None}
  BY DEF Stale, Submission
<1>2. 0 \in Seqs
  BY DEF Seqs
<1> QED BY <1>1, <1>2, ResetFacts DEF TypeOK, Release

LEMMA RcvNewSessionStep ==
  ASSUME WindowInv, RcvNewSession, trouble' \in Nat \cup {Unbounded}
  PROVE  WindowInv'
<1> USE DEF WindowInv, RcvNewSession, kbdVars
<1>1. rx' = RxReset
  BY ReleaseFacts
<1>2. TypeOK'
  <2>1. 0 \in Seqs
    BY DEF Seqs
  <2> QED BY <2>1, ReleaseFacts DEF TypeOK
<1>3. QueueInOrder' /\ SenderWindow' /\ IdleIsReset' /\ PacketsInOrder'
  BY <1>1 DEF QueueInOrder, SenderWindow, IdleIsReset, PacketsInOrder
<1>4. ReceiverBuffer'
  BY <1>1, ResetFacts DEF ReceiverBuffer, RxReset
<1>5. OfferIsFresh' /\ SharedWindow'
  BY DEF OfferIsFresh, SharedWindow, Shared
<1> QED BY <1>2, <1>3, <1>4, <1>5

\* A release that makes the thread start over: the USB events and the shell.
LEMMA ReleaseStep ==
  ASSUME WindowInv, Release, rcvResync' = TRUE,
         UNCHANGED <<kbdVars, rcvSession, rxSeq, work, airVars, host>>,
         ready' \in BOOLEAN, protocol' \in Protocols, trouble' \in Nat \cup {Unbounded}
  PROVE  WindowInv'
<1> USE DEF WindowInv, kbdVars, airVars
<1>1. rx' = RxReset
  BY ReleaseFacts
<1>2. TypeOK'
  BY ReleaseFacts DEF TypeOK
<1>3. QueueInOrder' /\ SenderWindow' /\ PacketsInOrder'
  BY DEF QueueInOrder, SenderWindow, PacketsInOrder
<1>4. IdleIsReset' /\ OfferIsFresh'
  BY <1>1 DEF IdleIsReset, OfferIsFresh
<1>5. ReceiverBuffer'
  BY <1>1, ResetFacts DEF ReceiverBuffer, RxReset
<1>6. SharedWindow'
  BY DEF SharedWindow, Shared
<1> QED BY <1>2, <1>3, <1>4, <1>5, <1>6

LEMMA FreshSessionFacts ==
  ASSUME TypeOK
  PROVE  FreshSession \in Session /\ FreshSession \notin SessionOf(toRcv) \cup SessionOf(toKbd)
<1>1. \E s \in Session : s \notin SessionOf(toRcv) \cup SessionOf(toKbd)
  <2>1. 1 \in Session /\ 2 \in Session /\ 3 \in Session
    BY DEF Session
  <2>2. /\ \E a : SessionOf(toRcv) \subseteq {a}
        /\ \E b : SessionOf(toKbd) \subseteq {b}
    BY DEF SessionOf
  <2>3. PICK a, b : SessionOf(toRcv) \subseteq {a} /\ SessionOf(toKbd) \subseteq {b}
    BY <2>2
  <2>4. 1 \notin {a, b} \/ 2 \notin {a, b} \/ 3 \notin {a, b}
    OBVIOUS
  <2> QED BY <2>1, <2>3, <2>4
<1> QED BY <1>1 DEF FreshSession

LEMMA RcvEstablishStep == ASSUME WindowInv, RcvEstablish PROVE WindowInv'
<1> USE DEF WindowInv, RcvEstablish, hidVars, airVars
<1>1. FreshSession \in Session /\ FreshSession \notin SessionOf(toRcv) \cup SessionOf(toKbd)
  BY FreshSessionFacts
<1>2. TypeOK'
  BY <1>1 DEF TypeOK
<1>3. QueueInOrder' /\ SenderWindow' /\ ReceiverBuffer' /\ IdleIsReset' /\ PacketsInOrder'
  BY <1>1 DEF QueueInOrder, SenderWindow, ReceiverBuffer, IdleIsReset, PacketsInOrder,
              Session, NoSession
<1>4. rx' = RxReset /\ rxSeq' = 0 /\ work' = None
  BY DEF IdleIsReset
<1>5. OfferIsFresh'
  BY <1>1, <1>4 DEF OfferIsFresh, SessionOf
<1>6. SharedWindow'
  BY DEF SharedWindow, Shared
<1> QED BY <1>2, <1>3, <1>5, <1>6

LEMMA KbdSendStep == ASSUME WindowInv, KbdSend PROVE WindowInv'
<1> USE DEF WindowInv, kbdVars, rcvVars, hidVars
<1> DEFINE b == Batch(tx, queue)
           n == Len(b)
           packet == [kind |-> "input", session |-> kbdSession, frames |-> b]
<1>1. tx \in TxType /\ queue \in QueueType /\ Numbered(queue)
  BY DEF TypeOK, QueueInOrder, Numbered
<1>2. /\ b \in Seq(Frame)
      /\ b # <<>> =>
           /\ queue.online /\ n \in 1..BatchMax /\ n <= tx.free
           /\ tx.accepted + n < queue.next
           /\ \A i \in 1..n : b[i].seq = tx.accepted + i
           /\ n = 1 => BatchMax = 1 \/ queue.next = tx.accepted + 2
  BY <1>1, BatchFacts
<1>3. /\ kbdSession # NoSession /\ toKbd = None
      /\ toRcv' = IF toRcv = None /\ work = None THEN packet ELSE toRcv
      /\ tx' = IF b = <<>> \/ b[n].seq <= tx.sent THEN tx
               ELSE [tx EXCEPT !.sent = b[n].seq]
      /\ UNCHANGED <<queue, selected, kbdSession, offer, kbdResync,
                     rcvVars, hidVars, toKbd, host, trouble>>
  BY DEF KbdSend
<1> HIDE DEF b
<1>4. /\ tx.sent \in Nat /\ tx.accepted \in Nat /\ tx.completed \in Nat /\ tx.free \in Nat
      /\ tx.sent \in Seqs /\ tx.accepted \in Seqs /\ queue.next \in Nat
      /\ BatchMax \in Nat \ {0} /\ Capacity \in Nat
      /\ SeqMax \in Nat /\ queue.next <= SeqMax
  BY <1>1, ResetFacts DEF TxType, Seqs, QueueType
<1>5. b # <<>> => n \in Nat /\ n >= 1 /\ n <= BatchMax /\ b[n].seq = tx.accepted + n
                  /\ b[1].seq = tx.accepted + 1
  <2> SUFFICES ASSUME b # <<>>
               PROVE  n \in Nat /\ n >= 1 /\ n <= BatchMax /\ b[n].seq = tx.accepted + n
                      /\ b[1].seq = tx.accepted + 1
    OBVIOUS
  <2>1. n \in 1..BatchMax
    BY <1>2
  <2>2. n \in Nat /\ n >= 1 /\ n <= BatchMax /\ n \in 1..n /\ 1 \in 1..n
    BY <1>4, <2>1
  <2> QED BY <1>2, <2>2
<1>6. /\ tx'.accepted = tx.accepted /\ tx'.completed = tx.completed /\ tx'.free = tx.free
      /\ tx'.sent \in Seqs /\ tx'.sent >= tx.sent /\ tx' \in TxType
      /\ b # <<>> => tx'.sent >= tx.accepted + n
      /\ tx'.sent = tx.sent \/ (b # <<>> /\ tx'.sent = tx.accepted + n)
  <2>1. CASE b = <<>> \/ b[n].seq <= tx.sent
    BY <1>1, <1>3, <1>4, <1>5, <2>1
  <2>2. CASE ~(b = <<>> \/ b[n].seq <= tx.sent)
    <3>1. tx.accepted + n \in Seqs /\ tx.accepted + n >= tx.sent
      BY <1>2, <1>4, <1>5, <2>2, SMTT(20) DEF Seqs
    <3>2. tx' = [tx EXCEPT !.sent = tx.accepted + n]
      BY <1>3, <1>5, <2>2
    <3> QED BY <1>1, <1>4, <2>2, <3>1, <3>2, SMTT(20) DEF TxType
  <2> QED BY <2>1, <2>2
<1>7. packet \in InputPacket
  BY <1>2, <1>3 DEF InputPacket, TypeOK
<1> HIDE DEF n
<1>8. TypeOK'
  BY <1>3, <1>6, <1>7 DEF TypeOK
<1>9. QueueInOrder'
  <2>1. queue.online => tx'.sent < queue.next
    BY <1>2, <1>4, <1>6 DEF QueueInOrder
  <2> QED BY <1>3, <2>1 DEF QueueInOrder
<1>10. SenderWindow'
  <2>1. tx'.sent \in Nat
    BY <1>6 DEF Seqs
  <2> QED BY <1>2, <1>4, <1>5, <1>6, <2>1 DEF SenderWindow
<1>11. ReceiverBuffer' /\ IdleIsReset'
  BY <1>3 DEF ReceiverBuffer, IdleIsReset
<1>12. InOrder(b)
  <2>1. CASE b = <<>>
    BY <2>1 DEF InOrder
  <2>2. CASE b # <<>>
    <3>1. ASSUME NEW i \in 1..Len(b) PROVE b[i].seq = b[1].seq + i - 1
      <4>1. b[i].seq = tx.accepted + i
        BY <1>2, <2>2 DEF n
      <4>2. Len(b) \in Nat
        BY <1>5, <2>2 DEF n
      <4>3. i \in Int
        BY <4>2
      <4>4. tx.accepted + i = (tx.accepted + 1) + i - 1
        BY <1>4, <4>3
      <4> QED BY <1>5, <2>2, <4>1, <4>4
    <3> QED BY <3>1 DEF InOrder
  <2> QED BY <2>1, <2>2
<1>13. PacketsInOrder'
  BY <1>3, <1>12 DEF PacketsInOrder, None
<1>14. OfferIsFresh'
  BY <1>3 DEF OfferIsFresh
<1>15. SharedWindow'
  <2> SUFFICES ASSUME Shared PROVE SharedWindow'
    BY <1>3 DEF SharedWindow, Shared, rcvVars
  <2>1. /\ tx.completed <= rx.completed /\ tx.accepted <= rx.accepted
        /\ rx.accepted <= tx.sent /\ rx.accepted \in Nat
    BY DEF SharedWindow, TypeOK, RxType, Seqs
  <2>2. rx.accepted <= tx'.sent /\ tx'.sent \in Nat
    BY <1>4, <1>6, <2>1 DEF Seqs
  <2>3. b # <<>> =>
          /\ b[1].seq <= rx.accepted + 1
          /\ Len(b) = 1 => b[1].seq >= rx.accepted
          /\ b[Len(b)].seq <= tx'.sent
    <3> SUFFICES ASSUME b # <<>>
                 PROVE  /\ b[1].seq <= rx.accepted + 1
                        /\ Len(b) = 1 => b[1].seq >= rx.accepted
                        /\ b[Len(b)].seq <= tx'.sent
      OBVIOUS
    <3>1. b[1].seq <= rx.accepted + 1
      BY <1>4, <1>5, <2>1
    <3>2. ASSUME n = 1 PROVE b[1].seq >= rx.accepted
      <4>1. tx.sent <= tx.accepted + 1
        <5>1. CASE BatchMax = 1
          BY <1>4, <5>1 DEF SenderWindow
        <5>2. CASE queue.next = tx.accepted + 2
          <6>1. tx.sent < queue.next
            BY <1>2 DEF QueueInOrder
          <6> QED BY <1>4, <5>2, <6>1
        <5> QED BY <1>2, <3>2, <5>1, <5>2
      <4> QED BY <1>4, <1>5, <2>1, <4>1
    <3> QED BY <1>4, <1>5, <1>6, <2>2, <3>1, <3>2 DEF n
  <2>4. toRcv' # None /\ toRcv'.session = kbdSession /\ toRcv'.frames # <<>> =>
          /\ toRcv'.frames[1].seq <= rx.accepted + 1
          /\ Len(toRcv'.frames) = 1 => toRcv'.frames[1].seq >= rx.accepted
          /\ toRcv'.frames[Len(toRcv'.frames)].seq <= tx'.sent
    <3>1. CASE toRcv = None /\ work = None
      BY <1>3, <2>3, <3>1
    <3>2. CASE ~(toRcv = None /\ work = None)
      <4> SUFFICES ASSUME toRcv # None, toRcv.session = kbdSession, toRcv.frames # <<>>
                   PROVE  /\ toRcv.frames[1].seq <= rx.accepted + 1
                          /\ Len(toRcv.frames) = 1 => toRcv.frames[1].seq >= rx.accepted
                          /\ toRcv.frames[Len(toRcv.frames)].seq <= tx'.sent
        BY <1>3, <3>2
      <4>1. toRcv.frames \in Seq(Frame)
        BY DEF TypeOK, InputPacket
      <4>3. toRcv.frames[Len(toRcv.frames)].seq \in Nat
        BY <4>1, FramesFacts
      <4> QED BY <1>4, <1>6, <2>2, <4>3 DEF SharedWindow
    <3> QED BY <3>1, <3>2
  <2>5. work # None /\ work.frames # <<>> =>
          /\ work.frames[1].seq <= rx.accepted + 1
          /\ ~work.batch => work.frames[1].seq >= rx.accepted
          /\ work.frames[Len(work.frames)].seq <= tx'.sent
    <3> SUFFICES ASSUME work # None, work.frames # <<>>
                 PROVE  /\ work.frames[1].seq <= rx.accepted + 1
                        /\ ~work.batch => work.frames[1].seq >= rx.accepted
                        /\ work.frames[Len(work.frames)].seq <= tx'.sent
      OBVIOUS
    <3>1. work.frames \in Seq(Frame)
      BY DEF TypeOK, Work
    <3>3. work.frames[Len(work.frames)].seq \in Nat
      BY <3>1, FramesFacts
    <3> QED BY <1>4, <1>6, <2>2, <3>3 DEF SharedWindow
  <2> QED BY <1>3, <1>6, <2>1, <2>2, <2>4, <2>5 DEF SharedWindow, rcvVars, hidVars
<1> QED BY <1>8, <1>9, <1>10, <1>11, <1>13, <1>14, <1>15

LEMMA RcvReceiveStep == ASSUME WindowInv, RcvReceive PROVE WindowInv'
<1> USE DEF WindowInv, RcvReceive, kbdVars, hidVars
<1>1. toRcv \in InputPacket /\ toRcv.session \in Session /\ toRcv.frames \in Seq(Frame)
  BY DEF TypeOK, InputPacket
<1>2. CASE toRcv.session # rcvSession
  <2>1. TypeOK'
    BY <1>2 DEF TypeOK
  <2>2. QueueInOrder' /\ SenderWindow' /\ ReceiverBuffer' /\ IdleIsReset'
    BY <1>2 DEF QueueInOrder, SenderWindow, ReceiverBuffer, IdleIsReset
  <2>3. OfferIsFresh' /\ PacketsInOrder' /\ SharedWindow'
    BY <1>2 DEF OfferIsFresh, PacketsInOrder, SharedWindow, Shared, SessionOf
  <2> QED BY <2>1, <2>2, <2>3
<1>3. CASE toRcv.session = rcvSession
  <2>1. /\ work' = [kind |-> "work", batch |-> Len(toRcv.frames) > 1,
                    frames |-> toRcv.frames]
        /\ work'.frames = toRcv.frames /\ (work'.batch <=> Len(toRcv.frames) > 1)
    BY <1>3
  <2>2. Len(toRcv.frames) \in Nat
    BY <1>1
  <2>3. TypeOK'
    <3> DEFINE batched == Len(toRcv.frames) > 1
    <3>1. /\ batched \in BOOLEAN
          /\ work' = [kind |-> "work", batch |-> batched, frames |-> toRcv.frames]
      BY <2>1
    <3> HIDE DEF batched
    <3>2. work' \in Work
      BY <1>1, <3>1 DEF Work
    <3> QED BY <3>2 DEF TypeOK
  <2>4. rcvSession # NoSession
    BY <1>1, <1>3 DEF Session, NoSession
  <2>5. QueueInOrder' /\ SenderWindow' /\ ReceiverBuffer' /\ IdleIsReset'
    BY <2>4 DEF QueueInOrder, SenderWindow, ReceiverBuffer, IdleIsReset
  <2>6. OfferIsFresh'
    BY <1>3 DEF OfferIsFresh, SessionOf
  <2>7. PacketsInOrder'
    BY <2>1, <2>2 DEF PacketsInOrder
  <2>8. SharedWindow'
    <3> SUFFICES ASSUME Shared PROVE SharedWindow'
      BY DEF SharedWindow, Shared
    <3>1. toRcv.frames # <<>> => Len(toRcv.frames) >= 1
      BY <1>1, FramesFacts
    <3>2. work'.frames # <<>> =>
            /\ work'.frames[1].seq <= rx.accepted + 1
            /\ ~work'.batch => work'.frames[1].seq >= rx.accepted
            /\ work'.frames[Len(work'.frames)].seq <= tx.sent
      <4>1. toRcv.frames # <<>> /\ ~work'.batch => Len(toRcv.frames) = 1
        <5>1. ~work'.batch => ~(Len(toRcv.frames) > 1)
          BY <2>1, Zenon
        <5>2. Len(toRcv.frames) >= 1 /\ ~(Len(toRcv.frames) > 1)
                => Len(toRcv.frames) = 1
          <6> DEFINE k == Len(toRcv.frames)
          <6>1. k \in Nat
            BY <2>2
          <6> HIDE DEF k
          <6>2. k >= 1 /\ ~(k > 1) => k = 1
            BY <6>1
          <6> QED BY <6>2 DEF k
        <5> QED BY <3>1, <5>1, <5>2, Zenon
      <4>2. toRcv.session = kbdSession
        BY <1>3 DEF Shared
      <4> QED BY <2>1, <4>1, <4>2 DEF SharedWindow
    <3> QED BY <3>2 DEF SharedWindow
  <2> QED BY <2>3, <2>5, <2>6, <2>7, <2>8
<1> QED BY <1>2, <1>3

LEMMA TailFacts ==
  ASSUME NEW s \in Seq(Frame), s # <<>>, InOrder(s)
  PROVE  /\ Tail(s) \in Seq(Frame) /\ InOrder(Tail(s))
         /\ Len(Tail(s)) = Len(s) - 1
         /\ Head(s) = s[1] /\ s[1] \in Frame
         /\ s[1].seq <= s[Len(s)].seq
         /\ Tail(s) # <<>> =>
              Tail(s)[1].seq = s[1].seq + 1 /\ Tail(s)[Len(Tail(s))] = s[Len(s)]
<1>1. /\ Tail(s) \in Seq(Frame) /\ Len(Tail(s)) = Len(s) - 1
      /\ \A i \in 1..Len(Tail(s)) : Tail(s)[i] = s[i + 1]
  BY HeadTailProperties
<1>2. /\ Len(s) \in Nat /\ Len(s) >= 1 /\ s[1].seq \in Nat
      /\ \A i \in 1..Len(s) : s[i].seq = s[1].seq + i - 1
  BY FramesFacts DEF InOrder
<1>3. Head(s) = s[1] /\ s[1] \in Frame
  <2>1. 1 \in 1..Len(s)
    BY <1>2
  <2> QED BY <2>1, ElementOfSeq
<1>4. s[Len(s)].seq = s[1].seq + Len(s) - 1
  BY <1>2
<1>5. s[1].seq <= s[Len(s)].seq
  BY <1>2, <1>4
<1>6. ASSUME Tail(s) # <<>>
      PROVE  Tail(s)[1].seq = s[1].seq + 1 /\ Tail(s)[Len(Tail(s))] = s[Len(s)]
  <2>1. Len(Tail(s)) >= 1
    BY <1>1, <1>6, FramesFacts
  <2>2. 2 \in 1..Len(s) /\ 1 \in 1..Len(Tail(s)) /\ Len(Tail(s)) \in 1..Len(Tail(s))
    BY <1>1, <1>2, <2>1
  <2>3. Tail(s)[1] = s[2] /\ Tail(s)[Len(Tail(s))] = s[Len(s)]
    <3>1. Tail(s)[1] = s[1 + 1] /\ Tail(s)[Len(Tail(s))] = s[Len(Tail(s)) + 1]
      BY <1>1, <2>2
    <3>2. 1 + 1 = 2 /\ Len(Tail(s)) + 1 = Len(s)
      BY <1>1, <1>2
    <3> QED BY <3>1, <3>2, Zenon
  <2>4. s[2].seq = s[1].seq + 2 - 1
    BY <1>2, <2>2
  <2>5. s[1].seq + 2 - 1 = s[1].seq + 1
    BY <1>2
  <2> QED BY <2>3, <2>4, <2>5, Zenon
<1>7. InOrder(Tail(s))
  <2> SUFFICES ASSUME NEW i \in 1..Len(Tail(s))
               PROVE  Tail(s)[i].seq = Tail(s)[1].seq + i - 1
    BY DEF InOrder
  <2>1. i + 1 \in 1..Len(s) /\ i \in Nat /\ 1 \in 1..Len(Tail(s))
    BY <1>1, <1>2
  <2>2. Tail(s)[i] = s[i + 1] /\ Tail(s)[1] = s[1 + 1]
    BY <1>1, <2>1
  <2>3. s[i + 1].seq = s[1].seq + (i + 1) - 1
    BY <1>2, <2>1
  <2>4. Tail(s) # <<>>
    <3>1. Len(Tail(s)) # 0
      BY <1>1, <1>2, <2>1
    <3>2. Len(<<>>) = 0
      OBVIOUS
    <3> QED BY <3>1, <3>2, Zenon
  <2>5. Tail(s)[1].seq = s[1].seq + 1
    BY <1>6, <2>4
  <2>6. s[1].seq + (i + 1) - 1 = (s[1].seq + 1) + i - 1
    BY <1>2, <2>1
  <2> QED BY <2>2, <2>3, <2>5, <2>6, Zenon
<1> QED BY <1>1, <1>3, <1>5, <1>6, <1>7

\* A packet the receiver has answered or dropped leaves nothing to agree on.
LEMMA RcvReplyStep == ASSUME WindowInv, RcvReply PROVE WindowInv'
<1> USE DEF WindowInv, RcvReply, kbdVars, hidVars
<1> DEFINE st == Status(rx)
<1>1. /\ rx \in RxType /\ rx.accepted \in Seqs /\ rx.completed \in Seqs
      /\ rx.frames \in Seq(Frame) /\ Len(rx.frames) \in Nat
      /\ rx.accepted \in Nat /\ rx.completed \in Nat /\ Capacity \in Nat
  BY ResetFacts DEF TypeOK, RxType, Seqs
<1>2. /\ st.accepted = rx.accepted /\ st.completed = rx.completed
      /\ st.free = Capacity - Len(rx.frames)
  BY DEF Status
<1>3. rcvSession \in Session
  BY DEF IdleIsReset, TypeOK
<1>4. st \in AckType
  <2>1. Capacity - Len(rx.frames) \in 0..Capacity
    BY <1>1 DEF ReceiverBuffer
  <2> QED BY <1>1, <2>1 DEF Status, AckType
<1>5. ValidAck(st)
  BY <1>1, <1>2 DEF ValidAck, ReceiverBuffer
<1> HIDE DEF st
<1>6. /\ toKbd' = IF toKbd = None
                  THEN [kind |-> "ack", session |-> rcvSession, status |-> st]
                  ELSE toKbd
      /\ work' = None /\ work # None
      /\ UNCHANGED <<kbdVars, rcvSession, rxSeq, rcvResync, hidVars, toRcv, host, trouble>>
  BY DEF st
<1>7. TypeOK'
  BY <1>3, <1>4, <1>6 DEF TypeOK, AckPacket
<1>8. QueueInOrder' /\ SenderWindow' /\ ReceiverBuffer' /\ IdleIsReset'
  BY <1>6 DEF QueueInOrder, SenderWindow, ReceiverBuffer, IdleIsReset
<1>9. OfferIsFresh'
  BY <1>6 DEF OfferIsFresh, SessionOf
<1>10. PacketsInOrder'
  BY <1>5, <1>6 DEF PacketsInOrder
<1>11. SharedWindow'
  <2> SUFFICES ASSUME Shared PROVE SharedWindow'
    BY <1>6 DEF SharedWindow, Shared
  <2>1. toKbd' # None /\ toKbd'.session = kbdSession =>
          /\ tx.accepted <= toKbd'.status.accepted
          /\ tx.completed <= toKbd'.status.completed
          /\ toKbd'.status.accepted <= rx.accepted
          /\ toKbd'.status.completed <= rx.completed
    BY <1>1, <1>2, <1>6 DEF SharedWindow
  <2> QED BY <1>6, <2>1 DEF SharedWindow
<1> QED BY <1>7, <1>8, <1>9, <1>10, <1>11

\* The receiver's buffer takes the frame that follows what it has accepted.
LEMMA ReceiveFacts ==
  ASSUME NEW r \in RxType, NEW f \in Frame,
         r.accepted = r.completed + Len(r.frames), Len(r.frames) <= Capacity,
         \A i \in 1..Len(r.frames) : r.frames[i].seq = r.completed + i
  PROVE  /\ Receive(r, f) \in RxType
         /\ Receive(r, f).completed = r.completed
         /\ Receive(r, f).accepted = r.completed + Len(Receive(r, f).frames)
         /\ Len(Receive(r, f).frames) <= Capacity
         /\ \A i \in 1..Len(Receive(r, f).frames) :
              Receive(r, f).frames[i].seq = r.completed + i
         /\ ReceiveCode(r, f) = "queued" =>
              f.seq = r.accepted + 1 /\ Receive(r, f).accepted = f.seq
         /\ ReceiveCode(r, f) # "queued" => Receive(r, f) = r
         /\ ReceiveCode(r, f) = "duplicate" => f.seq <= r.accepted
<1>1. /\ f.seq \in Seqs /\ f.seq \in Nat /\ r.accepted \in Nat /\ r.completed \in Nat
      /\ r.frames \in Seq(Frame) /\ Len(r.frames) \in Nat /\ Capacity \in Nat
  BY ResetFacts DEF RxType, Frame, Seqs
<1>2. CASE ReceiveCode(r, f) # "queued"
  BY <1>1, <1>2 DEF Receive, ReceiveCode
<1>3. CASE ReceiveCode(r, f) = "queued"
  <2>1. f.seq = r.accepted + 1 /\ Len(r.frames) # Capacity
    BY <1>1, <1>3 DEF ReceiveCode
  <2>2. Receive(r, f) = [accepted |-> f.seq, completed |-> r.completed,
                         frames |-> Append(r.frames, f)]
    BY <1>3 DEF Receive, RxType
  <2>3. /\ Append(r.frames, f) \in Seq(Frame)
        /\ Len(Append(r.frames, f)) = Len(r.frames) + 1
        /\ \A i \in 1..Len(r.frames) : Append(r.frames, f)[i] = r.frames[i]
        /\ Append(r.frames, f)[Len(r.frames) + 1] = f
    BY <1>1, AppendProperties
  <2>4. ASSUME NEW i \in 1..Len(Append(r.frames, f))
        PROVE  Append(r.frames, f)[i].seq = r.completed + i
    <3>1. CASE i \in 1..Len(r.frames)
      BY <2>3, <3>1
    <3>2. CASE i = Len(r.frames) + 1
      <4>1. r.completed + i = f.seq
        BY <1>1, <2>1, <3>2
      <4> QED BY <2>3, <3>2, <4>1
    <3>3. i \in 1..Len(r.frames) \/ i = Len(r.frames) + 1
      BY <1>1, <2>3
    <3> QED BY <3>1, <3>2, <3>3
  <2>5. f.seq = r.completed + Len(Append(r.frames, f)) /\ Len(Append(r.frames, f)) <= Capacity
    BY <1>1, <2>1, <2>3
  <2>6. Receive(r, f) \in RxType
    BY <1>1, <2>2, <2>3 DEF RxType
  <2>7. \A i \in 1..Len(Append(r.frames, f)) : Append(r.frames, f)[i].seq = r.completed + i
    BY <2>4
  <2> QED BY <1>1, <1>3, <2>1, <2>2, <2>5, <2>6, <2>7
<1> QED BY <1>2, <1>3

LEMMA RcvDeliverStep == ASSUME WindowInv, RcvDeliver PROVE WindowInv'
<1> USE DEF WindowInv, kbdVars, airVars
<1> DEFINE f == Head(work.frames)
           code == ReceiveCode(rx, f)
           known == IF work.batch THEN f.seq <= rxSeq ELSE f.seq = rxSeq
           rest == [work EXCEPT !.frames = Tail(@)]
           stop == [work EXCEPT !.frames = <<>>]
<1>1. /\ work # None /\ work.frames # <<>> /\ work \in Work
      /\ work.frames \in Seq(Frame) /\ InOrder(work.frames)
      /\ toRcv = None /\ rcvSession # NoSession
  BY DEF RcvDeliver, TypeOK, Work, PacketsInOrder, IdleIsReset
<1>2. /\ rx \in RxType /\ rxSeq \in Nat /\ rx.accepted \in Nat /\ rx.completed \in Nat
      /\ tx.sent \in Nat
  BY DEF TypeOK, RxType, TxType, Seqs
<1>3. /\ f = work.frames[1] /\ f \in Frame /\ f.seq \in Nat /\ f.seq \in Seqs
      /\ f.seq <= work.frames[Len(work.frames)].seq
      /\ work.frames[Len(work.frames)].seq \in Nat
  <2>1. /\ f = work.frames[1] /\ f \in Frame
        /\ work.frames[1].seq <= work.frames[Len(work.frames)].seq
    BY <1>1, TailFacts
  <2>2. work.frames[Len(work.frames)].seq \in Nat
    BY <1>1, FramesFacts
  <2>3. f.seq \in Nat /\ f.seq \in Seqs
    BY <2>1 DEF Frame, Seqs
  <2> HIDE DEF f
  <2> QED BY <2>1, <2>2, <2>3
<1>4. /\ rest \in Work /\ rest.frames = Tail(work.frames) /\ rest.batch = work.batch
      /\ stop \in Work /\ stop.frames = <<>> /\ stop.batch = work.batch
  <2>1. Tail(work.frames) \in Seq(Frame) /\ <<>> \in Seq(Frame)
    BY <1>1, TailFacts
  <2> QED BY <1>1, <2>1 DEF Work
<1>5. \/ /\ known /\ work' = rest /\ UNCHANGED <<rx, rxSeq>>
      \/ /\ work' \in {stop, None} /\ UNCHANGED <<rx, rxSeq>>
      \/ /\ f.seq = rxSeq + 1 /\ code \in {"queued", "duplicate"}
         /\ rx' = Receive(rx, f) /\ rxSeq' = f.seq /\ work' = rest
  BY DEF RcvDeliver
<1>6. UNCHANGED <<kbdVars, rcvSession, rcvResync, releaseMask, deliveredSeq, pending,
                  poll, ready, protocol, airVars, host, trouble>>
  BY DEF RcvDeliver
<1>7. /\ rest.frames # <<>> =>
           /\ rest.frames[1].seq = f.seq + 1
           /\ rest.frames[Len(rest.frames)] = work.frames[Len(work.frames)]
      /\ InOrder(rest.frames) /\ InOrder(stop.frames)
      /\ Len(rest.frames) \in Nat
      /\ ~work.batch => rest.frames = <<>>
  <2>1. /\ Len(Tail(work.frames)) = Len(work.frames) - 1 /\ Len(work.frames) \in Nat
        /\ Tail(work.frames) \in Seq(Frame) /\ InOrder(Tail(work.frames))
        /\ Tail(work.frames) # <<>> =>
             /\ Tail(work.frames)[1].seq = work.frames[1].seq + 1
             /\ Tail(work.frames)[Len(Tail(work.frames))] = work.frames[Len(work.frames)]
    BY <1>1, TailFacts, FramesFacts
  <2>2. InOrder(<<>>)
    BY DEF InOrder
  <2>3. ASSUME ~work.batch PROVE Tail(work.frames) = <<>>
    <3>1. Len(work.frames) <= 1
      BY <1>1, <2>3 DEF PacketsInOrder
    <3>2. Len(Tail(work.frames)) = 0
      <4>1. Len(work.frames) >= 1
        BY <1>1, FramesFacts
      <4> DEFINE k == Len(work.frames)
      <4>2. k \in Nat /\ k <= 1 /\ k >= 1 /\ Len(Tail(work.frames)) = k - 1
        BY <2>1, <3>1, <4>1
      <4> HIDE DEF k
      <4>3. k - 1 = 0
        BY <4>2
      <4> QED BY <4>2, <4>3, Zenon
    <3> QED BY <2>1, <3>2, EmptySeq
  <2> QED BY <1>3, <1>4, <2>1, <2>2, <2>3
<1>8. /\ Receive(rx, f) \in RxType
      /\ Receive(rx, f).completed = rx.completed
      /\ Receive(rx, f).accepted = rx.completed + Len(Receive(rx, f).frames)
      /\ Len(Receive(rx, f).frames) <= Capacity
      /\ \A i \in 1..Len(Receive(rx, f).frames) :
           Receive(rx, f).frames[i].seq = rx.completed + i
      /\ code = "queued" => f.seq = rx.accepted + 1 /\ Receive(rx, f).accepted = f.seq
      /\ code # "queued" => Receive(rx, f) = rx
      /\ code = "duplicate" => f.seq <= rx.accepted
  BY <1>2, <1>3, ReceiveFacts DEF ReceiverBuffer
<1> HIDE DEF f, code, rest, stop
<1>9. ASSUME ~rcvResync, code = "duplicate" PROVE f.seq # rxSeq + 1
  BY <1>2, <1>3, <1>8, <1>9 DEF ReceiverBuffer
<1>10. TypeOK'
  <2>1. rx' \in RxType /\ rxSeq' \in Seqs /\ work' \in Work \cup {None}
    BY <1>3, <1>4, <1>5, <1>8 DEF TypeOK
  <2> QED BY <1>6, <2>1 DEF TypeOK
<1>11. QueueInOrder' /\ SenderWindow'
  BY <1>6 DEF QueueInOrder, SenderWindow
<1>12. ReceiverBuffer'
  <2>1. CASE UNCHANGED <<rx, rxSeq>>
    BY <1>6, <2>1 DEF ReceiverBuffer
  <2>2. CASE /\ f.seq = rxSeq + 1 /\ code \in {"queued", "duplicate"}
             /\ rx' = Receive(rx, f) /\ rxSeq' = f.seq
    <3>1. ~rcvResync => rxSeq' = rx'.accepted
      BY <1>8, <1>9, <2>2
    <3> QED BY <1>6, <1>8, <2>2, <3>1 DEF ReceiverBuffer
  <2> QED BY <1>5, <2>1, <2>2
<1>13. IdleIsReset'
  BY <1>1, <1>6 DEF IdleIsReset
<1>14. OfferIsFresh'
  BY <1>1, <1>6 DEF OfferIsFresh
<1>15. PacketsInOrder'
  <2>1. work' # None => InOrder(work'.frames) /\ (~work'.batch => Len(work'.frames) <= 1)
    <3>1. Len(<<>>) = 0 /\ Len(<<>>) <= 1
      OBVIOUS
    <3>2. CASE work' = rest
      BY <1>4, <1>7, <3>1, <3>2, Zenon
    <3>3. CASE work' = stop
      BY <1>4, <1>7, <3>1, <3>3, Zenon
    <3> QED BY <1>5, <3>2, <3>3
  <2> QED BY <1>1, <1>6, <2>1 DEF PacketsInOrder
<1>16. SharedWindow'
  <2> SUFFICES ASSUME Shared PROVE SharedWindow'
    BY <1>6 DEF SharedWindow, Shared
  <2>1. /\ tx.completed <= rx.completed /\ tx.accepted <= rx.accepted
        /\ rx.accepted <= tx.sent
        /\ f.seq <= rx.accepted + 1
        /\ ~work.batch => f.seq >= rx.accepted
        /\ work.frames[Len(work.frames)].seq <= tx.sent
        /\ tx.accepted \in Nat /\ tx.completed \in Nat
    BY <1>1, <1>3 DEF SharedWindow, TypeOK, TxType, Seqs
  <2>2. rxSeq = rx.accepted /\ ~rcvResync
    BY DEF Shared, ReceiverBuffer
  <2>3. /\ rx'.completed = rx.completed /\ rx'.accepted \in Nat
        /\ rx'.accepted >= rx.accepted /\ rx'.accepted <= tx.sent
    <3>1. CASE UNCHANGED rx
      BY <1>2, <2>1, <3>1
    <3>2. CASE code = "queued" /\ rx' = Receive(rx, f)
      BY <1>2, <1>3, <1>8, <2>1, <3>2
    <3>3. CASE code = "duplicate" /\ rx' = Receive(rx, f)
      BY <1>2, <1>8, <2>1, <3>3
    <3> QED BY <1>5, <3>1, <3>2, <3>3
  <2>4. work' # None /\ work'.frames # <<>> =>
          /\ work'.frames[1].seq <= rx'.accepted + 1
          /\ work'.batch
          /\ work'.frames[Len(work'.frames)].seq <= tx.sent
    <3>1. CASE work' \in {stop, None}
      BY <1>4, <3>1
    <3>2. CASE work' = rest /\ f.seq <= rx'.accepted
      <4>1. rest.frames # <<>> => f.seq + 1 <= rx'.accepted + 1
        BY <1>3, <2>3, <3>2
      <4> QED BY <1>4, <1>7, <2>1, <3>2, <4>1
    <3>3. CASE known /\ work' = rest /\ UNCHANGED rx
      <4>1. f.seq <= rx'.accepted
        BY <1>2, <1>3, <2>2, <3>3
      <4> QED BY <3>2, <3>3, <4>1
    <3>4. CASE /\ f.seq = rxSeq + 1 /\ code \in {"queued", "duplicate"}
               /\ rx' = Receive(rx, f) /\ work' = rest
      <4>1. f.seq <= rx'.accepted
        BY <1>2, <1>3, <1>8, <1>9, <2>2, <3>4
      <4> QED BY <3>2, <3>4, <4>1
    <3> QED BY <1>5, <3>1, <3>3, <3>4
  <2>5. toKbd # None /\ toKbd.session = kbdSession =>
          /\ tx.accepted <= toKbd.status.accepted
          /\ tx.completed <= toKbd.status.completed
          /\ toKbd.status.accepted <= rx'.accepted
          /\ toKbd.status.completed <= rx'.completed
    <3> SUFFICES ASSUME toKbd # None, toKbd.session = kbdSession
                 PROVE  /\ tx.accepted <= toKbd.status.accepted
                        /\ tx.completed <= toKbd.status.completed
                        /\ toKbd.status.accepted <= rx'.accepted
                        /\ toKbd.status.completed <= rx'.completed
      OBVIOUS
    <3>1. toKbd.status.accepted \in Nat
      BY DEF TypeOK, AckPacket, AckType, Seqs
    <3>2. /\ tx.accepted <= toKbd.status.accepted /\ tx.completed <= toKbd.status.completed
          /\ toKbd.status.accepted <= rx.accepted /\ toKbd.status.completed <= rx.completed
      BY DEF SharedWindow
    <3> QED BY <1>2, <2>3, <3>1, <3>2
  <2>6. tx.completed <= rx'.completed /\ tx.accepted <= rx'.accepted
    BY <1>2, <2>1, <2>3
  <2> QED BY <1>1, <1>6, <2>3, <2>4, <2>5, <2>6 DEF SharedWindow
<1> QED BY <1>10, <1>11, <1>12, <1>13, <1>14, <1>15, <1>16

\* Completing the head of the buffer moves it from the buffer to "completed".
LEMMA CompleteFacts ==
  ASSUME NEW r \in RxType, NEW c \in Seqs,
         r.accepted = r.completed + Len(r.frames), Len(r.frames) <= Capacity,
         \A i \in 1..Len(r.frames) : r.frames[i].seq = r.completed + i
  PROVE  /\ Complete(r, c) \in RxType
         /\ Complete(r, c).accepted = r.accepted
         /\ Complete(r, c).completed >= r.completed
         /\ r.accepted = Complete(r, c).completed + Len(Complete(r, c).frames)
         /\ Len(Complete(r, c).frames) <= Capacity
         /\ \A i \in 1..Len(Complete(r, c).frames) :
              Complete(r, c).frames[i].seq = Complete(r, c).completed + i
         /\ r.frames = <<>> => Complete(r, c) = r
<1>1. /\ r.accepted \in Nat /\ r.completed \in Nat /\ r.accepted \in Seqs
      /\ r.frames \in Seq(Frame) /\ Len(r.frames) \in Nat /\ Capacity \in Nat
  BY ResetFacts DEF RxType, Seqs
<1>2. CASE ~(r.frames # <<>> /\ Head(r.frames).seq = c)
  BY <1>1, <1>2 DEF Complete
<1>3. CASE r.frames # <<>> /\ Head(r.frames).seq = c
  <2>1. Complete(r, c) = [accepted |-> r.accepted, completed |-> c,
                          frames |-> Tail(r.frames)]
    BY <1>3 DEF Complete, RxType
  <2>2. /\ Tail(r.frames) \in Seq(Frame) /\ Len(Tail(r.frames)) = Len(r.frames) - 1
        /\ \A i \in 1..Len(Tail(r.frames)) : Tail(r.frames)[i] = r.frames[i + 1]
    BY <1>1, <1>3, HeadTailProperties
  <2>3. Len(r.frames) >= 1 /\ Head(r.frames) = r.frames[1]
    BY <1>1, <1>3, FramesFacts
  <2>4. c = r.completed + 1
    BY <1>1, <1>3, <2>3
  <2>5. ASSUME NEW i \in 1..Len(Tail(r.frames))
        PROVE  Tail(r.frames)[i].seq = c + i
    <3>1. i + 1 \in 1..Len(r.frames) /\ i \in Nat
      BY <1>1, <2>2
    <3>2. Tail(r.frames)[i].seq = r.completed + (i + 1)
      BY <2>2, <3>1
    <3>3. r.completed + (i + 1) = c + i
      BY <1>1, <2>4, <3>1
    <3> QED BY <3>2, <3>3, Zenon
  <2>6. Complete(r, c) \in RxType
    BY <1>1, <2>1, <2>2 DEF RxType
  <2>7. /\ r.accepted = c + Len(Tail(r.frames)) /\ Len(Tail(r.frames)) <= Capacity
        /\ c >= r.completed
    BY <1>1, <2>2, <2>3, <2>4
  <2>8. \A i \in 1..Len(Tail(r.frames)) : Tail(r.frames)[i].seq = c + i
    BY <2>5
  <2> QED BY <1>3, <2>1, <2>6, <2>7, <2>8
<1> QED BY <1>2, <1>3

\* A report USB has taken: PollSkip and TransferDone.
LEMMA CompleteStep ==
  ASSUME WindowInv, NEW c \in Seqs, rx' = Complete(rx, c),
         UNCHANGED <<kbdVars, rcvVars, airVars>>, TypeOK'
  PROVE  WindowInv'
<1> USE DEF WindowInv, kbdVars, rcvVars, airVars
<1>1. /\ rx \in RxType /\ rx.accepted \in Nat /\ rx.completed \in Nat
      /\ rx' \in RxType /\ rx'.accepted = rx.accepted /\ rx'.completed >= rx.completed
      /\ rx.accepted = rx'.completed + Len(rx'.frames) /\ Len(rx'.frames) <= Capacity
      /\ \A i \in 1..Len(rx'.frames) : rx'.frames[i].seq = rx'.completed + i
      /\ rx.frames = <<>> => rx' = rx
      /\ rx'.completed \in Nat
  <2>1. rx \in RxType
    BY DEF TypeOK
  <2>2. /\ rx' \in RxType /\ rx'.accepted = rx.accepted /\ rx'.completed >= rx.completed
        /\ rx.accepted = rx'.completed + Len(rx'.frames) /\ Len(rx'.frames) <= Capacity
        /\ \A i \in 1..Len(rx'.frames) : rx'.frames[i].seq = rx'.completed + i
        /\ rx.frames = <<>> => rx' = rx
    BY <2>1, CompleteFacts DEF ReceiverBuffer
  <2>3. rx.accepted \in Nat /\ rx.completed \in Nat /\ rx'.completed \in Nat
    BY <2>1, <2>2 DEF RxType, Seqs
  <2> QED BY <2>1, <2>2, <2>3
<1>2. rx = RxReset => rx' = RxReset
  BY <1>1 DEF RxReset
<1>3. QueueInOrder' /\ SenderWindow' /\ PacketsInOrder'
  BY DEF QueueInOrder, SenderWindow, PacketsInOrder
<1>4. ReceiverBuffer'
  BY <1>1 DEF ReceiverBuffer
<1>5. IdleIsReset' /\ OfferIsFresh'
  BY <1>2 DEF IdleIsReset, OfferIsFresh
<1>6. SharedWindow'
  <2> SUFFICES ASSUME Shared PROVE SharedWindow'
    BY DEF SharedWindow, Shared
  <2>1. tx.completed <= rx'.completed
    <3>1. tx.completed <= rx.completed /\ tx.completed \in Nat
      BY DEF SharedWindow, TypeOK, TxType, Seqs
    <3> QED BY <1>1, <3>1
  <2>2. ASSUME toKbd # None, toKbd.session = kbdSession
        PROVE  toKbd.status.completed <= rx'.completed
    <3>1. toKbd.status.completed <= rx.completed /\ toKbd.status.completed \in Nat
      BY <2>2 DEF SharedWindow, TypeOK, AckPacket, AckType, Seqs
    <3> QED BY <1>1, <3>1
  <2>3. rx'.accepted = rx.accepted
    BY <1>1
  <2> QED BY <2>1, <2>2, <2>3 DEF SharedWindow
<1> QED BY <1>3, <1>4, <1>5, <1>6

LEMMA PollSkipStep == ASSUME WindowInv, PollSkip PROVE WindowInv'
<1> USE DEF WindowInv, PollSkip, rcvVars, airVars
<1>1. poll \in Submission /\ poll.seq \in Seqs
  BY DEF TypeOK, Submission
<1>2. rx' = rx \/ rx' = Complete(rx, poll.seq)
  OBVIOUS
<1>3. rx' \in RxType
  BY <1>1, <1>2, CompleteFacts DEF TypeOK, ReceiverBuffer
<1>4. TypeOK'
  BY <1>1, <1>3 DEF TypeOK, kbdVars
<1>5. CASE rx' = rx
  BY <1>4, <1>5, HidStep
<1>6. CASE rx' = Complete(rx, poll.seq)
  BY <1>1, <1>4, <1>6, CompleteStep
<1> QED BY <1>2, <1>5, <1>6

LEMMA TransferDoneStep == ASSUME WindowInv, TransferDone PROVE WindowInv'
<1> USE DEF WindowInv, TransferDone, rcvVars, airVars
<1>1. /\ pending \in Submission /\ pending.seq \in Seqs /\ pending.type \in Types
      /\ pending.data \in AllReports
  BY DEF TypeOK, Submission
<1>2. rx' = rx \/ rx' = Complete(rx, pending.seq)
  OBVIOUS
<1>3. rx' \in RxType
  BY <1>1, <1>2, CompleteFacts DEF TypeOK, ReceiverBuffer
<1>4. TypeOK'
  BY <1>1, <1>3 DEF TypeOK, kbdVars
<1>5. CASE rx' = rx
  BY <1>4, <1>5, HidStep
<1>6. CASE rx' = Complete(rx, pending.seq)
  BY <1>1, <1>4, <1>6, CompleteStep
<1> QED BY <1>2, <1>5, <1>6

LEMMA LosePacketStep == ASSUME WindowInv, LosePacket PROVE WindowInv'
<1> USE DEF WindowInv, LosePacket, kbdVars, rcvVars, hidVars
<1>1. TypeOK'
  BY DEF TypeOK, Disturb
<1>2. QueueInOrder' /\ SenderWindow' /\ ReceiverBuffer' /\ IdleIsReset'
  BY DEF QueueInOrder, SenderWindow, ReceiverBuffer, IdleIsReset
<1>3. OfferIsFresh' /\ PacketsInOrder'
  BY DEF OfferIsFresh, PacketsInOrder, SessionOf
<1>4. SharedWindow'
  BY DEF SharedWindow, Shared
<1> QED BY <1>1, <1>2, <1>3, <1>4

\* "reconnect" only raises resync, which suspends what a session promises.
LEMMA ReconnectStep == ASSUME WindowInv, Reconnect PROVE WindowInv'
<1> USE DEF WindowInv, Reconnect, kbdVars, hidVars, airVars
<1>1. TypeOK'
  BY DEF TypeOK, Disturb
<1>2. QueueInOrder' /\ SenderWindow' /\ ReceiverBuffer' /\ IdleIsReset'
  BY DEF QueueInOrder, SenderWindow, ReceiverBuffer, IdleIsReset
<1>3. OfferIsFresh' /\ PacketsInOrder' /\ SharedWindow'
  BY DEF OfferIsFresh, PacketsInOrder, SharedWindow, Shared
<1> QED BY <1>1, <1>2, <1>3

\* Every step of the system preserves the invariant.
LEMMA NextWindow == WindowInv /\ [Next]_vars => WindowInv'
<1> SUFFICES ASSUME WindowInv, [Next]_vars PROVE WindowInv'
  OBVIOUS
<1> USE DEF Disturb
<1>0. TypeOK /\ trouble \in Nat \cup {Unbounded}
  BY DEF WindowInv, TypeOK
<1>1. CASE KbdRestart \/ KbdSilence \/ KbdTimeout
  BY <1>0, <1>1, KbdNewSessionStep DEF KbdRestart, KbdSilence, KbdTimeout
<1>2. CASE KbdEstablish
  BY <1>2, KbdEstablishStep
<1>3. CASE KbdTraffic
  BY <1>3, KbdSendStep, KbdReceiveStep DEF KbdTraffic
<1>4. CASE RcvRestart \/ RcvSilence \/ RcvTimeout
  BY <1>0, <1>4, RcvNewSessionStep DEF RcvRestart, RcvSilence, RcvTimeout
<1>5. CASE RcvEstablish
  BY <1>5, RcvEstablishStep
<1>6. CASE RcvTraffic
  BY <1>6, RcvReceiveStep, RcvDeliverStep, RcvReplyStep DEF RcvTraffic
<1>7. CASE PollRead \/ PollDrop \/ PollSubmit \/ PollSubmitFails \/ TransferFails \/ Settle
  <2>1. UNCHANGED <<kbdVars, rcvVars, rx, airVars>>
    BY <1>7 DEF PollRead, PollDrop, PollSubmit, PollSubmitFails, TransferFails, Settle, hidVars
  <2>2. TypeOK'
    <3> USE DEF TypeOK, kbdVars, rcvVars, airVars, hidVars
    <3>1. ASSUME NEW s \in Seqs, NEW t \in Types, NEW d \in AllReports
          PROVE  ReportFor(s, t, d) \in Submission
      BY DEF ReportFor, Submission
    <3>2. CASE PollRead
      <4>1. ReportFor(0, "keyboard", Zero) \in Submission
            /\ ReportFor(0, "consumer", Zero) \in Submission
        <5>1. 0 \in Seqs /\ "keyboard" \in Types /\ "consumer" \in Types
          BY DEF Seqs, Types
        <5> QED BY <3>1, <5>1, ReportFacts
      <4>2. ASSUME rx.frames # <<>>
            PROVE  ReportFor(Head(rx.frames).seq, Head(rx.frames).type, Head(rx.frames).data)
                     \in Submission
        <5>1. Head(rx.frames) \in Frame
          <6>1. rx.frames \in Seq(Frame)
            BY <1>0 DEF RxType
          <6> QED BY <4>2, <6>1, HeadTailProperties
        <5>2. /\ Head(rx.frames).seq \in Seqs /\ Head(rx.frames).type \in Types
              /\ Head(rx.frames).data \in AllReports
          BY <5>1 DEF Frame, Seqs
        <5> QED BY <3>1, <5>2
      <4>3. poll' \in Submission \cup {None}
        BY <3>2, <4>1, <4>2 DEF PollRead
      <4> QED BY <1>0, <3>2, <4>3 DEF PollRead
    <3>3. CASE PollDrop \/ PollSubmit \/ PollSubmitFails
      BY <1>0, <3>3 DEF PollDrop, PollSubmit, PollSubmitFails
    <3>4. CASE TransferFails \/ Settle
      BY <1>0, <3>4 DEF TransferFails, Settle
    <3> QED BY <1>7, <3>2, <3>3, <3>4
  <2> QED BY <2>1, <2>2, HidStep
<1>8. CASE PollSkip
  BY <1>8, PollSkipStep
<1>9. CASE TransferDone
  BY <1>9, TransferDoneStep
<1>10. CASE PublishAny
  BY <1>10, PublishStep
<1>11. CASE Select
  BY <1>11, SelectStep
<1>12. CASE IfaceReady \/ SetProtocol \/ TestHold
  <2>1. /\ Release /\ rcvResync' = TRUE
        /\ UNCHANGED <<kbdVars, rcvSession, rxSeq, work, airVars, host>>
        /\ ready' \in BOOLEAN /\ protocol' \in Protocols
        /\ trouble' \in Nat \cup {Unbounded}
    <3>1. /\ Release /\ rcvResync' = TRUE /\ Disturb
          /\ UNCHANGED <<kbdVars, rcvSession, rxSeq, work, airVars, host>>
      BY <1>12 DEF IfaceReady, SetProtocol, TestHold
    <3>2. trouble' \in Nat \cup {Unbounded}
      BY <1>0, <3>1
    <3>3. ready' \in BOOLEAN /\ protocol' \in Protocols
      BY <1>0, <1>12 DEF IfaceReady, SetProtocol, TestHold, TypeOK
    <3> QED BY <3>1, <3>2, <3>3
  <2> QED BY <2>1, ReleaseStep
<1>13. CASE Reconnect
  BY <1>13, ReconnectStep
<1>14. CASE LosePacket
  BY <1>14, LosePacketStep
<1>15. CASE UNCHANGED vars
  <2>1. UNCHANGED <<kbdVars, rcvVars, rx, airVars>>
    BY <1>15 DEF vars, hidVars
  <2>2. TypeOK'
    BY <1>0, <1>15 DEF TypeOK, vars, kbdVars, rcvVars, hidVars, airVars
  <2> QED BY <2>1, <2>2, HidStep
<1> QED BY <1>1, <1>2, <1>3, <1>4, <1>5, <1>6, <1>7, <1>8, <1>9, <1>10, <1>11, <1>12,
           <1>13, <1>14, <1>15 DEF Next, Environment, Poll

-----------------------------------------------------------------------------
(* The theorems *)

\* Every reachable state satisfies the inductive invariant: queue, window,
\* packets under way and sessions fit together as WindowInv says.
THEOREM WindowHolds == Spec => []WindowInv
<1> QED BY InitWindow, NextWindow, PTL DEF Spec

\* Every variable always has its type; the keyboard's window, its sequences
\* and the receiver's buffer never leave their ranges.
THEOREM TypesHold == Spec => []TypeOK
<1>1. WindowInv => TypeOK
  BY DEF WindowInv
<1> QED BY <1>1, WindowHolds, PTL

LEMMA WindowTypes ==
  ASSUME TypeOK
  PROVE  /\ tx.sent \in Nat /\ tx.accepted \in Nat /\ tx.completed \in Nat /\ tx.free \in Nat
         /\ rx.accepted \in Nat /\ rx.completed \in Nat /\ Len(rx.frames) \in Nat
         /\ Capacity \in Nat
BY ResetFacts DEF TypeOK, TxType, RxType, Seqs

(* The two ends always agree on the window: what the keyboard believes      *)
(* accepted, completed and free is never more than what the receiver's      *)
(* apex_delivery_receive and apex_delivery_complete have done.              *)
THEOREM WindowsAgree == Spec => []WindowAgreement
<1>1. WindowInv => WindowAgreement
  <2> SUFFICES ASSUME WindowInv, Shared PROVE WindowAgreement
    BY DEF WindowAgreement
  <2>1. /\ tx.completed <= rx.completed /\ tx.accepted <= rx.accepted
        /\ rx.accepted <= tx.sent
        /\ rx.accepted = rx.completed + Len(rx.frames)
        /\ tx.accepted + tx.free = tx.completed + Capacity
    BY DEF WindowInv, SharedWindow, ReceiverBuffer, SenderWindow
  <2>2. /\ rx.accepted - rx.completed = Len(rx.frames)
        /\ tx.accepted + tx.free <= rx.completed + Capacity
    BY <2>1, WindowTypes DEF WindowInv
  <2> QED BY <2>1, <2>2 DEF WindowAgreement
<1> QED BY <1>1, WindowHolds, PTL

\* Every frame of a packet in order is at most its last one.
LEMMA LastIsLargest ==
  ASSUME NEW s \in Seq(Frame), InOrder(s), NEW i \in 1..Len(s)
  PROVE  s # <<>> /\ s[i].seq \in Nat /\ s[i].seq <= s[Len(s)].seq
<1>1. Len(s) \in Nat /\ i \in Nat /\ i >= 1 /\ i <= Len(s)
  OBVIOUS
<1>2. s # <<>>
  <2>1. Len(s) # 0
    BY <1>1
  <2>2. Len(<<>>) = 0
    OBVIOUS
  <2> QED BY <2>1, <2>2, Zenon
<1>3. s[1].seq \in Nat /\ s[i].seq \in Nat
  BY <1>2, FramesFacts
<1>4. s[i].seq = s[1].seq + i - 1
  BY DEF InOrder
<1>5. s[Len(s)].seq = s[1].seq + Len(s) - 1
  <2>1. Len(s) \in 1..Len(s)
    BY <1>1
  <2> QED BY <2>1 DEF InOrder
<1>6. s[1].seq + i - 1 <= s[1].seq + Len(s) - 1
  BY <1>1, <1>3
<1> QED BY <1>2, <1>3, <1>4, <1>5, <1>6

(* The keyboard never overruns its credit: a report on the air or in the    *)
(* receiver's thread always fits the receiver's report buffer.              *)
THEOREM CreditHolds == Spec => []CreditSuffices
<1>1. WindowInv => CreditSuffices
  <2> SUFFICES ASSUME WindowInv, Shared,
                      NEW s \in {ForReceiver, InWork}, NEW i \in 1..Len(s)
               PROVE  s[i].seq <= rx.completed + Capacity
    BY DEF CreditSuffices
  <2>1. s \in Seq(Frame) /\ InOrder(s)
    <3>1. <<>> \in Seq(Frame) /\ InOrder(<<>>)
      BY DEF InOrder
    <3>2. toRcv # None => toRcv.frames \in Seq(Frame) /\ InOrder(toRcv.frames)
      BY DEF WindowInv, TypeOK, InputPacket, PacketsInOrder
    <3>3. work # None => work.frames \in Seq(Frame) /\ InOrder(work.frames)
      BY DEF WindowInv, TypeOK, Work, PacketsInOrder
    <3> QED BY <3>1, <3>2, <3>3 DEF ForReceiver, InWork
  <2>2. s # <<>> => s[Len(s)].seq <= tx.sent
    BY DEF WindowInv, SharedWindow, Shared, ForReceiver, InWork
  <2>3. tx.sent <= tx.completed + Capacity /\ tx.completed <= rx.completed
    BY DEF WindowInv, SenderWindow, SharedWindow
  <2>4. s # <<>> /\ s[i].seq \in Nat /\ s[i].seq <= s[Len(s)].seq
    BY <2>1, LastIsLargest
  <2>5. s[Len(s)].seq \in Nat
    BY <2>1, <2>4, FramesFacts
  <2>6. /\ tx.sent \in Nat /\ tx.completed \in Nat /\ rx.completed \in Nat
        /\ Capacity \in Nat
    BY WindowTypes DEF WindowInv
  <2>7. s[Len(s)].seq <= tx.sent /\ s[i].seq \in Nat /\ s[i].seq <= s[Len(s)].seq
    BY <2>2, <2>4
  <2> HIDE DEF WindowInv
  <2> QED BY <2>3, <2>5, <2>6, <2>7
<1> QED BY <1>1, WindowHolds, PTL

(* Inside a session neither end ever refuses the other's packet, so losing  *)
(* replies can not leave the two ends refusing each other for ever.         *)
THEOREM NothingIsRefused == Spec => []NothingRefused
<1>1. WindowInv => NothingRefused
  <2> SUFFICES ASSUME WindowInv, Shared
               PROVE  /\ ForReceiver # <<>> =>
                           /\ ForReceiver[1].seq <= rxSeq + 1
                           /\ Len(ForReceiver) = 1 => ForReceiver[1].seq >= rxSeq
                      /\ toKbd # None /\ toKbd.session = kbdSession
                           => Applicable(tx, toKbd.status)
    BY DEF NothingRefused
  <2>1. rxSeq = rx.accepted
    BY DEF WindowInv, ReceiverBuffer, Shared
  <2>2. ForReceiver # <<>> =>
          /\ ForReceiver[1].seq <= rxSeq + 1
          /\ Len(ForReceiver) = 1 => ForReceiver[1].seq >= rxSeq
    BY <2>1 DEF WindowInv, SharedWindow, Shared, ForReceiver
  <2>3. ASSUME toKbd # None, toKbd.session = kbdSession
        PROVE  Applicable(tx, toKbd.status)
    <3>1. ValidAck(toKbd.status)
      BY <2>3 DEF WindowInv, PacketsInOrder
    <3>2. /\ tx.accepted <= toKbd.status.accepted /\ tx.completed <= toKbd.status.completed
          /\ toKbd.status.accepted <= rx.accepted /\ rx.accepted <= tx.sent
      BY <2>3 DEF WindowInv, SharedWindow
    <3>3. toKbd.status.accepted \in Nat /\ toKbd.status.completed \in Nat
      BY <2>3 DEF WindowInv, TypeOK, AckPacket, AckType, Seqs
    <3>4. toKbd.status.accepted <= tx.sent
      BY <3>2, <3>3, WindowTypes DEF WindowInv
    <3> QED BY <3>1, <3>2, <3>3, <3>4, WindowTypes DEF Applicable, WindowInv
  <2> QED BY <2>2, <2>3
<1> QED BY <1>1, WindowHolds, PTL

(* The window keeps its limits, for every size of the queue, of the         *)
(* receiver's buffer and of the sequence: nothing leaves its range, the     *)
(* credit suffices, and nothing is refused inside a session.                *)
THEOREM WindowIsKept == Spec => []WindowKept
<1>1. TypeOK /\ CreditSuffices /\ NothingRefused => WindowKept
  BY DEF WindowKept
<1> QED BY <1>1, TypesHold, CreditHolds, NothingIsRefused, PTL

(* The sessions of this module come and go only as the handshake allows:    *)
(* the receiver enters first, the keyboard follows into that session once.  *)
THEOREM SessionsFollowed == Spec => FollowsSessions
<1> USE DEF Promise!vars
<1>1. Init => Promise!Init
  BY DEF Init, Promise!Init
<1>2. TypeOK /\ [Next]_vars => [Promise!Next]_(Promise!vars)
  <2> SUFFICES ASSUME TypeOK, [Next]_vars,
                      ~UNCHANGED <<kbdSession, rcvSession, offer>>
               PROVE  Promise!Next
    OBVIOUS
  <2>1. CASE KbdRestart \/ KbdSilence \/ KbdTimeout
    <3>1. Promise!KbdLeave
      BY <2>1 DEF KbdRestart, KbdSilence, KbdTimeout, KbdNewSession, rcvVars, Promise!KbdLeave
    <3> QED BY <3>1 DEF Promise!Next
  <2>2. CASE KbdEstablish
    <3>1. Promise!KbdEnter
      BY <2>2 DEF KbdEstablish, rcvVars, Promise!KbdEnter
    <3> QED BY <3>1 DEF Promise!Next
  <2>3. CASE RcvRestart \/ RcvSilence \/ RcvTimeout
    <3>1. Promise!RcvLeave
      BY <2>3 DEF RcvRestart, RcvSilence, RcvTimeout, RcvNewSession, kbdVars, Promise!RcvLeave
    <3> QED BY <3>1 DEF Promise!Next
  <2>4. CASE RcvEstablish
    <3>1. Promise!RcvEnter
      BY <2>4, FreshSessionFacts DEF RcvEstablish, Promise!RcvEnter, TypeOK
    <3> QED BY <3>1 DEF Promise!Next
  <2>5. CASE PublishAny \/ Select \/ KbdTraffic
    BY <2>5 DEF PublishAny, Publish, Select, KbdTraffic, KbdSend, KbdReceive, rcvVars
  <2>6. CASE RcvTraffic
    BY <2>6 DEF RcvTraffic, RcvReceive, RcvDeliver, RcvReply, kbdVars
  <2>7. CASE Poll \/ TransferDone
    BY <2>7 DEF Poll, PollRead, PollDrop, PollSkip, PollSubmit, TransferDone, kbdVars, rcvVars
  <2>8. CASE PollSubmitFails \/ TransferFails \/ IfaceReady \/ SetProtocol \/ TestHold
    BY <2>8 DEF PollSubmitFails, TransferFails, IfaceReady, SetProtocol, TestHold, kbdVars, rcvVars
  <2>9. CASE Reconnect \/ LosePacket \/ Settle
    BY <2>9 DEF Reconnect, LosePacket, Settle, kbdVars, rcvVars
  <2>10. CASE UNCHANGED vars
    BY <2>10 DEF vars, kbdVars, rcvVars
  <2> QED
    BY <2>1, <2>2, <2>3, <2>4, <2>5, <2>6, <2>7, <2>8, <2>9, <2>10 DEF Next, Environment
<1> QED BY <1>1, <1>2, TypesHold, PTL DEF Spec, FollowsSessions, Promise!Spec

-----------------------------------------------------------------------------
(* The content properties: what USB is given (UsbInv) ...                   *)

UsbInv == UsbOrder /\ ReleasedBeforeReports

\* The parts of a report given to USB.
LEMMA SubmissionFacts ==
  ASSUME TypeOK
  PROVE  /\ poll # None => /\ poll \in Submission /\ poll.seq \in Nat /\ poll.fresh \in BOOLEAN
                           /\ poll.seq \in Seqs /\ poll.type \in Types /\ poll.data \in AllReports
         /\ pending # None => /\ pending \in Submission /\ pending.seq \in Nat
                              /\ pending.fresh \in BOOLEAN /\ pending.seq \in Seqs
                              /\ pending.type \in Types /\ pending.data \in AllReports
         /\ rx.frames \in Seq(Frame) /\ rx.completed \in Nat
         /\ rx.frames # <<>> =>
              Head(rx.frames) \in Frame /\ Head(rx.frames).seq \in Nat /\ Head(rx.frames).seq >= 1
<1>1. /\ poll # None => poll \in Submission
      /\ pending # None => pending \in Submission
      /\ rx.frames \in Seq(Frame) /\ rx.completed \in Nat
  BY DEF TypeOK, RxType, Seqs
<1>2. rx.frames # <<>> => Head(rx.frames) \in Frame
  BY <1>1, HeadTailProperties
<1> QED BY <1>1, <1>2 DEF Submission, Seqs, Frame

\* A release leaves nothing behind that could complete a report.
LEMMA ReleaseUsb ==
  ASSUME TypeOK, UsbInv, Release
  PROVE  UsbInv'
<1>1. /\ rx' = RxReset /\ rx'.completed = 0 /\ releaseMask' = Types
      /\ pending' = Stale(pending) /\ poll' = Stale(poll)
  BY DEF Release, RxReset
<1>2. ASSUME NEW s \in Submission \cup {None}
      PROVE  /\ s = None => Stale(s) = None
             /\ s # None => /\ Stale(s) # None /\ Stale(s).fresh = FALSE
                            /\ Stale(s).seq = s.seq /\ Stale(s).data = s.data
  BY DEF Stale, Submission, None
<1>3. pending \in Submission \cup {None} /\ poll \in Submission \cup {None}
  BY DEF TypeOK
<1>4. UsbOrder'
  BY <1>1, <1>2, <1>3 DEF UsbInv, UsbOrder
<1>5. ReleasedBeforeReports'
  BY <1>1 DEF ReleasedBeforeReports
<1> QED BY <1>4, <1>5 DEF UsbInv

\* Nothing else of the receiver or the keyboard reaches USB.
LEMMA UsbUnchanged ==
  ASSUME UsbInv, UNCHANGED <<rx, releaseMask, deliveredSeq, pending, poll, protocol, host>>
  PROVE  UsbInv'
BY DEF UsbInv, UsbOrder, ReleasedBeforeReports, IsHead

\* A report that arrives goes behind the oldest one.
LEMMA DeliverUsb ==
  ASSUME WindowInv, UsbInv, RcvDeliver
  PROVE  UsbInv'
<1>1. /\ UNCHANGED <<releaseMask, deliveredSeq, pending, poll, protocol, host>>
      /\ work \in Work /\ work # None /\ work.frames # <<>>
      /\ rx' = rx \/ rx' = Receive(rx, Head(work.frames))
  BY DEF RcvDeliver, WindowInv, TypeOK
<1>2. rx \in RxType /\ rx.frames \in Seq(Frame) /\ Head(work.frames) \in Frame
  <2>1. work.frames \in Seq(Frame)
    BY <1>1 DEF Work
  <2> QED BY <1>1, <2>1, HeadTailProperties DEF WindowInv, TypeOK, RxType
<1>3. /\ rx'.completed = rx.completed
      /\ rx.frames # <<>> => rx'.frames # <<>> /\ Head(rx'.frames) = Head(rx.frames)
  <2> DEFINE f == Head(work.frames)
  <2>1. CASE rx' = rx
    BY <2>1
  <2>2. CASE rx' = Receive(rx, f) /\ rx' # rx
    <3>1. rx' = [rx EXCEPT !.frames = Append(@, f), !.accepted = f.seq]
      BY <2>2 DEF Receive
    <3>2. rx'.completed = rx.completed /\ rx'.frames = Append(rx.frames, f)
      BY <1>2, <3>1 DEF RxType
    <3>3. rx.frames # <<>> =>
            Append(rx.frames, f) # <<>> /\ Head(Append(rx.frames, f)) = Head(rx.frames)
      <4>1. Len(rx.frames) \in Nat /\ (rx.frames # <<>> => Len(rx.frames) >= 1)
        BY <1>2, EmptySeq
      <4>2. /\ Append(rx.frames, f) \in Seq(Frame)
            /\ Len(Append(rx.frames, f)) = Len(rx.frames) + 1
            /\ \A i \in 1..Len(rx.frames) : Append(rx.frames, f)[i] = rx.frames[i]
        BY <1>2, AppendProperties
      <4>3. Append(rx.frames, f) # <<>>
        BY <1>2, AppendProperties
      <4>4. rx.frames # <<>> => Append(rx.frames, f)[1] = rx.frames[1]
        BY <4>1, <4>2
      <4> QED BY <1>2, <4>2, <4>3, <4>4, HeadTailProperties
    <3> QED BY <3>2, <3>3
  <2> QED BY <1>1, <2>1, <2>2
<1>4. UsbOrder'
  BY <1>1, <1>3 DEF UsbInv, UsbOrder, IsHead
<1>5. ReleasedBeforeReports'
  BY <1>1, <1>3 DEF UsbInv, ReleasedBeforeReports
<1> QED BY <1>4, <1>5 DEF UsbInv

\* The main loop reads a release, or the oldest report.
LEMMA PollReadUsb == ASSUME WindowInv, UsbInv, PollRead PROVE UsbInv'
<1> USE DEF UsbInv
<1>1. TypeOK /\ poll = None
  BY DEF WindowInv, PollRead
<1>2. UNCHANGED <<rx, releaseMask, deliveredSeq, pending, protocol, host>>
  BY DEF PollRead
<1>3. ReleasedBeforeReports'
  BY <1>2 DEF ReleasedBeforeReports
<1>4. CASE releaseMask # {}
  <2>1. /\ poll' # None /\ poll'.seq = 0 /\ poll'.data = Zero /\ rx.completed = 0
    BY <1>4 DEF PollRead, ReportFor, UsbOrder, None
  <2>2. ~(pending # None /\ pending.fresh /\ pending.seq # 0)
    BY <1>4 DEF UsbOrder
  <2> QED BY <1>2, <1>3, <1>4, <2>1, <2>2 DEF UsbOrder, IsHead
<1>5. CASE releaseMask = {}
  <2>1. /\ rx.frames # <<>>
        /\ poll' = ReportFor(Head(rx.frames).seq, Head(rx.frames).type, Head(rx.frames).data)
    BY <1>5 DEF PollRead
  <2>2. Head(rx.frames) \in Frame /\ Head(rx.frames).seq # 0
    BY <1>1, <2>1, SubmissionFacts
  <2>3. /\ poll' # None /\ poll'.seq # 0 /\ poll'.fresh
        /\ Head(rx.frames) = [seq |-> poll'.seq, type |-> poll'.type, data |-> poll'.data]
    BY <2>1, <2>2 DEF ReportFor, None, Frame
  <2> QED BY <1>2, <1>3, <1>5, <2>1, <2>3 DEF UsbOrder, IsHead
<1> QED BY <1>4, <1>5

\* What the main loop read is dropped, submitted or fails; a transfer fails.
LEMMA PollEndUsb ==
  ASSUME WindowInv, UsbInv, PollDrop \/ PollSubmit \/ PollSubmitFails \/ TransferFails
  PROVE  UsbInv'
<1> USE DEF UsbInv
<1>1. UNCHANGED <<rx, releaseMask, deliveredSeq, protocol, host>>
  BY DEF PollDrop, PollSubmit, PollSubmitFails, TransferFails
<1>2. ReleasedBeforeReports'
  BY <1>1 DEF ReleasedBeforeReports
<1>3. CASE PollDrop \/ PollSubmitFails
  BY <1>1, <1>2, <1>3 DEF PollDrop, PollSubmitFails, UsbOrder, IsHead
<1>4. CASE TransferFails
  BY <1>1, <1>2, <1>4 DEF TransferFails, UsbOrder, IsHead
<1>5. CASE PollSubmit
  <2>1. /\ poll # None /\ poll.fresh /\ pending = None /\ pending' = poll /\ poll' = None
        /\ ~AlreadyDelivered
    BY <1>5 DEF PollSubmit, Submittable
  <2>2. poll.seq # 0 => releaseMask = {} /\ IsHead(poll)
    BY <2>1 DEF UsbOrder, AlreadyDelivered
  <2> QED BY <1>1, <1>2, <2>1, <2>2 DEF UsbOrder, IsHead
<1> QED BY <1>3, <1>4, <1>5

\* The oldest report completes.
LEMMA CompletesHead ==
  ASSUME WindowInv, rx.frames # <<>>
  PROVE  /\ Complete(rx, Head(rx.frames).seq).completed = rx.completed + 1
         /\ Head(rx.frames).seq = rx.completed + 1
         /\ Complete(rx, Head(rx.frames).seq).frames = Tail(rx.frames)
<1>1. rx \in RxType /\ rx.frames \in Seq(Frame) /\ rx.completed \in Nat
  BY DEF WindowInv, TypeOK, RxType, Seqs
<1>2. Head(rx.frames) = rx.frames[1] /\ Len(rx.frames) >= 1 /\ Len(rx.frames) \in Nat
  BY <1>1, FramesFacts
<1>3. Head(rx.frames).seq = rx.completed + 1
  BY <1>2 DEF WindowInv, ReceiverBuffer
<1>4. Complete(rx, Head(rx.frames).seq)
        = [rx EXCEPT !.frames = Tail(@), !.completed = Head(rx.frames).seq]
  BY DEF Complete
<1> QED BY <1>1, <1>3, <1>4 DEF RxType

\* The boot protocol completes consumer reports without USB.
LEMMA PollSkipUsb == ASSUME WindowInv, UsbInv, PollSkip PROVE UsbInv'
<1> USE DEF UsbInv
<1>1. /\ poll # None /\ poll.fresh /\ ~AlreadyDelivered /\ pending = None
      /\ protocol = "boot" /\ poll' = None
      /\ UNCHANGED <<pending, protocol, host>>
  BY DEF PollSkip, Submittable, Silent
<1>2. ReleasedBeforeReports'
  BY <1>1 DEF ReleasedBeforeReports
<1>3. CASE poll.seq = 0
  <2>1. rx' = rx /\ (releaseMask' # {} => releaseMask # {})
    BY <1>3 DEF PollSkip
  <2> QED BY <1>1, <1>2, <2>1 DEF UsbOrder
<1>4. CASE poll.seq # 0
  <2>1. releaseMask = {} /\ releaseMask' = {}
    BY <1>1, <1>4 DEF UsbOrder, PollSkip
  <2> QED BY <1>1, <1>2, <2>1 DEF UsbOrder
<1> QED BY <1>3, <1>4

\* A transfer completes, be it stale, a release or the oldest report.
LEMMA TransferDoneUsb == ASSUME WindowInv, UsbInv, TransferDone PROVE UsbInv'
<1> USE DEF UsbInv
<1>1. /\ pending # None /\ pending' = None /\ UNCHANGED <<poll, protocol>>
      /\ host' = [host EXCEPT ![pending.type] = pending.data]
  BY DEF TransferDone
<1>2. TypeOK /\ host \in [Types -> AllReports]
  BY DEF WindowInv, TypeOK
<1>3. CASE ~pending.fresh
  <2>1. UNCHANGED <<rx, releaseMask, deliveredSeq>> /\ releaseMask = Types
    BY <1>1, <1>3 DEF TransferDone, UsbOrder
  <2>2. "keyboard" \in Types
    BY DEF Types
  <2>3. ReleasedBeforeReports'
    BY <2>1 DEF ReleasedBeforeReports
  <2> QED BY <1>1, <2>1, <2>2, <2>3 DEF UsbOrder, IsHead
<1>4. CASE pending.fresh /\ pending.seq = 0
  <2>1. /\ rx' = rx /\ deliveredSeq' = 0 /\ releaseMask' = releaseMask \ {pending.type}
        /\ pending.data = Zero /\ rx.completed = 0
    BY <1>1, <1>4 DEF TransferDone, UsbOrder
  <2>2. \A t \in Types : host'[t] = host[t] \/ host'[t] = Zero
    BY <1>1, <1>2, <2>1
  <2>3. host'[pending.type] = Zero
    BY <1>1, <1>2, <2>1, SubmissionFacts
  <2>4. ReleasedBeforeReports'
    BY <1>1, <2>1, <2>2, <2>3 DEF ReleasedBeforeReports
  <2> QED BY <1>1, <2>1, <2>4 DEF UsbOrder, IsHead
<1>5. CASE pending.fresh /\ pending.seq # 0
  <2>1. /\ deliveredSeq' = pending.seq /\ rx' = Complete(rx, pending.seq)
        /\ releaseMask' = releaseMask /\ releaseMask = {} /\ IsHead(pending)
    BY <1>1, <1>5 DEF TransferDone, UsbOrder
  <2>2. rx'.completed # 0
    <3>1. rx.completed \in Nat
      BY <1>2, SubmissionFacts
    <3> QED BY <2>1, <3>1, CompletesHead DEF IsHead
  <2>3. ReleasedBeforeReports'
    BY <2>2 DEF ReleasedBeforeReports
  <2>4. poll # None /\ poll.fresh =>
          poll.seq # 0 /\ poll.seq = pending.seq
    BY <1>1, <1>5, <2>1 DEF UsbOrder, IsHead
  <2> QED BY <1>1, <2>1, <2>3, <2>4 DEF UsbOrder
<1> QED BY <1>3, <1>4, <1>5

\* Every step keeps what USB is given in order.
LEMMA NextUsb == WindowInv /\ UsbInv /\ [Next]_vars => UsbInv'
<1> SUFFICES ASSUME WindowInv, UsbInv, [Next]_vars PROVE UsbInv'
  OBVIOUS
<1>0. TypeOK
  BY DEF WindowInv
<1>1. CASE KbdRestart \/ KbdSilence \/ KbdTimeout \/ KbdEstablish \/ KbdTraffic
  BY <1>1, UsbUnchanged DEF KbdRestart, KbdSilence, KbdTimeout, KbdNewSession, KbdEstablish,
    KbdTraffic, KbdSend, KbdReceive, hidVars
<1>2. CASE RcvRestart \/ RcvSilence \/ RcvTimeout
  <2>1. Release
    BY <1>2 DEF RcvRestart, RcvSilence, RcvTimeout, RcvNewSession
  <2> QED BY <1>0, <2>1, ReleaseUsb
<1>3. CASE RcvEstablish \/ RcvReceive \/ RcvReply
  BY <1>3, UsbUnchanged DEF RcvEstablish, RcvReceive, RcvReply, hidVars
<1>4. CASE RcvDeliver
  BY <1>4, DeliverUsb
<1>5. CASE Poll
  BY <1>5, PollReadUsb, PollEndUsb, PollSkipUsb DEF Poll
<1>6. CASE TransferDone
  BY <1>6, TransferDoneUsb
<1>7. CASE PublishAny \/ Select \/ Reconnect \/ LosePacket \/ Settle
  BY <1>7, UsbUnchanged DEF PublishAny, Publish, Select, Reconnect, LosePacket, Settle, hidVars
<1>8. CASE PollSubmitFails \/ TransferFails
  BY <1>8, PollEndUsb
<1>9. CASE IfaceReady \/ SetProtocol \/ TestHold
  BY <1>0, <1>9, ReleaseUsb DEF IfaceReady, SetProtocol, TestHold
<1>10. CASE UNCHANGED vars
  BY <1>10, UsbUnchanged DEF vars, hidVars
<1> QED BY <1>1, <1>2, <1>3, <1>4, <1>5, <1>6, <1>7, <1>8, <1>9, <1>10
        DEF Next, Environment, RcvTraffic

-----------------------------------------------------------------------------
(* ... what the queue holds (Current) ...                                   *)

\* The frames of a queue, each with its number.
LEMMA QueueFacts ==
  ASSUME NEW q \in QueueType
  PROVE  /\ q.frames \in Seq(Frame) /\ Len(q.frames) \in Nat /\ q.next \in Nat
         /\ q.latest \in [Types -> AllReports]
         /\ \A j \in 1..Len(q.frames) :
              /\ q.frames[j] \in Frame /\ q.frames[j].type \in Types
              /\ q.frames[j].seq \in Nat /\ q.frames[j].seq >= 1
<1>1. q.frames \in Seq(Frame) /\ q.next \in Nat /\ q.latest \in [Types -> AllReports]
  BY DEF QueueType
<1>2. \A j \in 1..Len(q.frames) : q.frames[j] \in Frame
  BY <1>1, ElementOfSeq
<1> QED BY <1>1, <1>2 DEF Frame

\* A report that is queued goes behind the others and is the latest.
LEMMA PushCurrent ==
  ASSUME NEW q \in QueueType, NEW t \in Types, NEW d \in AllReports, NEW c \in Nat,
         Current(q, c), Numbered(q), ~PushOverflows(q, t, d)
  PROVE  /\ Current(Push(q, t, d), c)
         /\ \A f : InQueue(q, f) => InQueue(Push(q, t, d), f)
         /\ \A e \in Nat, u \in Types :
              e < q.next /\ ShownAll(Push(q, t, d), e, u)
                => ShownAll(q, e, u) /\ Push(q, t, d).latest[u] = q.latest[u]
<1>1. CASE q.latest[t] = d
  BY <1>1 DEF Push
<1>2. CASE q.latest[t] # d
  <2> DEFINE p == Push(q, t, d)
             new == [seq |-> q.next, type |-> t, data |-> d]
             seen == [q EXCEPT !.latest[t] = d]
  <2>1. q.online /\ ~CannotEnqueue(q)
    BY <1>2 DEF Current, PushOverflows
  <2>2. /\ seen.frames = q.frames /\ seen.next = q.next /\ seen.online = q.online
        /\ seen.latest = [q.latest EXCEPT ![t] = d]
    BY DEF QueueType
  <2>3. p = Enqueue(seen, t, d)
    BY <1>2, <2>1 DEF Push
  <2> HIDE DEF seen
  <2>4. p = [frames |-> Append(seen.frames, [seq |-> seen.next, type |-> t, data |-> d]),
             latest |-> seen.latest, next |-> seen.next + 1, online |-> seen.online]
    BY <2>1, <2>2, <2>3 DEF Enqueue, CannotEnqueue
  <2>5. /\ p.frames = Append(q.frames, new) /\ p.latest = [q.latest EXCEPT ![t] = d]
        /\ p.next = q.next + 1 /\ p.online = q.online
    BY <2>2, <2>4
  <2> HIDE DEF p
  <2>6. /\ q.frames \in Seq(Frame) /\ Len(q.frames) \in Nat /\ q.next \in Nat
        /\ q.latest \in [Types -> AllReports]
    BY QueueFacts
  <2> DEFINE n == Len(q.frames)
  <2>7. /\ Len(p.frames) = n + 1
        /\ \A j \in 1..n : p.frames[j] = q.frames[j]
        /\ p.frames[n + 1] = new
    BY <2>5, <2>6
  <2>8. new.type = t /\ new.seq = q.next /\ new.data = d
    OBVIOUS
  <2> HIDE DEF new
  <2>9. ASSUME NEW j \in 1..Len(p.frames), LastOfType(p, j)
        PROVE  p.frames[j].data = p.latest[p.frames[j].type]
    <3>1. CASE j = n + 1
      BY <2>5, <2>6, <2>7, <2>8, <3>1
    <3>2. CASE j \in 1..n
      <4>1. p.frames[j] = q.frames[j]
        BY <2>7, <3>2
      <4>2. q.frames[j].type # t
        <5>1. n + 1 \in (j + 1)..Len(p.frames)
          BY <2>6, <2>7, <3>2
        <5> QED BY <2>7, <2>8, <2>9, <4>1, <5>1 DEF LastOfType
      <4>3. LastOfType(q, j)
        <5> SUFFICES ASSUME NEW k \in (j + 1)..n PROVE q.frames[k].type # q.frames[j].type
          BY DEF LastOfType
        <5>1. k \in 1..n /\ k \in (j + 1)..Len(p.frames)
          BY <2>6, <2>7, <3>2
        <5> QED BY <2>7, <2>9, <4>1, <5>1 DEF LastOfType
      <4>4. q.frames[j].data = q.latest[q.frames[j].type]
        BY <3>2, <4>3 DEF Current
      <4>5. q.frames[j].type \in Types
        BY <3>2, QueueFacts
      <4> QED BY <2>5, <2>6, <4>1, <4>2, <4>4, <4>5
    <3> QED BY <2>6, <2>7, <3>1, <3>2
  <2>10. ASSUME c = 0, NEW u \in Types
         PROVE  \E j \in 1..Len(p.frames) : p.frames[j].type = u
    <3>1. PICK j \in 1..n : q.frames[j].type = u
      BY <2>10 DEF Current
    <3>2. j \in 1..Len(p.frames) /\ p.frames[j] = q.frames[j]
      BY <2>6, <2>7
    <3> QED BY <3>1, <3>2
  <2>11. p.next - Len(p.frames) = c + 1
    BY <2>5, <2>6, <2>7 DEF Current
  <2>12. Current(p, c)
    BY <2>1, <2>5, <2>9, <2>10, <2>11 DEF Current
  <2>13. ASSUME NEW f, InQueue(q, f) PROVE InQueue(p, f)
    <3>1. PICK j \in 1..n : q.frames[j] = f
      BY <2>13 DEF InQueue
    <3>2. j \in 1..Len(p.frames) /\ p.frames[j] = q.frames[j]
      BY <2>6, <2>7
    <3> QED BY <3>1, <3>2 DEF InQueue
  <2>14. ASSUME NEW e \in Nat, NEW u \in Types, e < q.next, ShownAll(p, e, u)
         PROVE  ShownAll(q, e, u) /\ p.latest[u] = q.latest[u]
    <3>1. n + 1 \in 1..Len(p.frames)
      BY <2>6, <2>7
    <3>2. u # t
      BY <2>6, <2>7, <2>8, <2>14, <3>1 DEF ShownAll
    <3>3. \A j \in 1..n : j \in 1..Len(p.frames)
      BY <2>6, <2>7
    <3>4. ShownAll(q, e, u)
      BY <2>7, <2>14, <3>3 DEF ShownAll
    <3> QED BY <2>5, <2>6, <3>2, <3>4
  <2> QED BY <2>12, <2>13, <2>14 DEF p
<1> QED BY <1>1, <1>2

\* What is completed leaves at the front, and only that.
LEMMA PopCurrent ==
  ASSUME NEW q \in QueueType, NEW c \in Nat, NEW e \in Nat,
         Current(q, c), Numbered(q), c <= e, e < q.next
  PROVE  /\ Current(Pop(q, e), e)
         /\ Pop(q, e).latest = q.latest
         /\ \A f : InQueue(q, f) /\ f.seq > e => InQueue(Pop(q, e), f)
         /\ \A d \in Nat, u \in Types :
              e <= d /\ ShownAll(Pop(q, e), d, u) => ShownAll(q, d, u)
<1> DEFINE p == Pop(q, e)
           m == UpTo(q, e)
           n == Len(q.frames)
<1>1. /\ q.frames \in Seq(Frame) /\ n \in Nat /\ q.next \in Nat
      /\ q.next - n = c + 1
      /\ \A j \in 1..n : q.frames[j] \in Frame /\ q.frames[j].seq = c + j
  <2>1. q.next - n = c + 1
    BY DEF Current
  <2>2. /\ q.frames \in Seq(Frame) /\ n \in Nat /\ q.next \in Nat
        /\ \A j \in 1..n : q.frames[j] \in Frame
    BY QueueFacts
  <2>3. ASSUME NEW j \in 1..n PROVE q.frames[j].seq = c + j
    <3>1. q.frames[j].seq = q.next - n + j - 1
      BY DEF Numbered
    <3> QED BY <2>1, <2>2, <3>1
  <2> QED BY <2>1, <2>2, <2>3
<1>2. m = e - c
  <2>1. CASE n = 0
    <3>1. q.frames = <<>>
      BY <1>1, <2>1, EmptySeq
    <3>2. m = 0
      BY <3>1 DEF UpTo
    <3> QED BY <1>1, <2>1, <3>2
  <2>2. CASE n # 0
    <3>1. 1 \in 1..n /\ q.frames # <<>>
      BY <1>1, <2>2, EmptySeq
    <3>2. q.frames[1].seq = c + 1
      BY <1>1, <3>1
    <3> QED BY <1>1, <3>1, <3>2 DEF UpTo
  <2> QED BY <2>1, <2>2
<1>3. m \in Nat /\ m <= n
  BY <1>1, <1>2
<1>4. p = [q EXCEPT !.frames = SubSeq(q.frames, m + 1, n)]
  BY DEF Pop, DropFirst
<1> HIDE DEF m
<1>5. /\ p.online = q.online /\ p.next = q.next /\ p.latest = q.latest
      /\ p.frames = SubSeq(q.frames, m + 1, n)
  BY <1>4 DEF QueueType
<1> HIDE DEF p
<1>6. /\ Len(p.frames) = n - m
      /\ \A i \in 1..(n - m) : p.frames[i] = q.frames[m + i]
  <2>1. \A i \in (m + 1)..n : q.frames[i] \in Frame
    BY <1>1, <1>3
  <2> QED BY <1>1, <1>3, <1>5, <2>1, SubSeqProperties
<1>7. ASSUME NEW j \in 1..Len(p.frames), LastOfType(p, j)
      PROVE  p.frames[j].data = p.latest[p.frames[j].type]
  <2>1. p.frames[j] = q.frames[m + j] /\ m + j \in 1..n
    BY <1>1, <1>3, <1>6
  <2>2. LastOfType(q, m + j)
    <3> SUFFICES ASSUME NEW k \in (m + j + 1)..n
                 PROVE  q.frames[k].type # q.frames[m + j].type
      BY DEF LastOfType
    <3>1. k - m \in (j + 1)..Len(p.frames) /\ k - m \in 1..(n - m) /\ m + (k - m) = k
      BY <1>1, <1>3, <1>6
    <3>2. p.frames[k - m] = q.frames[k]
      BY <1>6, <3>1
    <3> QED BY <1>7, <2>1, <3>1, <3>2 DEF LastOfType
  <2> QED BY <1>5, <2>1, <2>2 DEF Current
<1>8. ASSUME e = 0, NEW u \in Types
      PROVE  \E j \in 1..Len(p.frames) : p.frames[j].type = u
  <2>1. c = 0 /\ m = 0
    BY <1>2, <1>8
  <2>2. PICK j \in 1..n : q.frames[j].type = u
    BY <2>1 DEF Current
  <2>3. j \in 1..Len(p.frames) /\ p.frames[j] = q.frames[m + j] /\ m + j = j
    BY <1>1, <1>6, <2>1
  <2> QED BY <2>2, <2>3
<1>9. p.next - Len(p.frames) = e + 1
  BY <1>1, <1>2, <1>3, <1>5, <1>6
<1>10. Current(p, e)
  BY <1>5, <1>7, <1>8, <1>9 DEF Current
<1>11. ASSUME NEW f, InQueue(q, f), f.seq > e PROVE InQueue(p, f)
  <2>1. PICK j \in 1..n : q.frames[j] = f
    BY <1>11 DEF InQueue
  <2>2. f.seq = c + j
    BY <1>1, <2>1
  <2>3. j - m \in 1..(n - m) /\ m + (j - m) = j
    BY <1>1, <1>2, <1>3, <1>11, <2>2
  <2>4. j - m \in 1..Len(p.frames) /\ p.frames[j - m] = f
    BY <1>6, <2>1, <2>3
  <2> QED BY <2>4 DEF InQueue
<1>12. ASSUME NEW d \in Nat, NEW u \in Types, e <= d, ShownAll(p, d, u),
              NEW j \in 1..n, q.frames[j].type = u
       PROVE  q.frames[j].seq <= d
  <2>1. q.frames[j].seq = c + j
    BY <1>1
  <2>2. CASE j <= m
    BY <1>1, <1>2, <1>12, <2>1, <2>2
  <2>3. CASE j > m
    <3>1. j - m \in 1..(n - m) /\ m + (j - m) = j
      BY <1>1, <1>3, <2>3
    <3>2. j - m \in 1..Len(p.frames) /\ p.frames[j - m] = q.frames[j]
      BY <1>6, <3>1
    <3> QED BY <1>12, <3>2 DEF ShownAll
  <2> QED BY <1>1, <1>3, <2>2, <2>3
<1>13. \A d \in Nat, u \in Types : e <= d /\ ShownAll(p, d, u) => ShownAll(q, d, u)
  BY <1>12 DEF ShownAll
<1> QED BY <1>5, <1>10, <1>11, <1>13 DEF p

\* A new session's queue holds the latest reports.
LEMMA StartCurrent ==
  ASSUME NEW q \in QueueType
  PROVE  Current(StartSession(q), 0) /\ StartSession(q).latest = q.latest
<1> DEFINE s == StartSession(q)
           key == [seq |-> 1, type |-> "keyboard", data |-> q.latest["keyboard"]]
           con == [seq |-> 2, type |-> "consumer", data |-> q.latest["consumer"]]
           fresh == [frames |-> <<>>, latest |-> q.latest, next |-> 1, online |-> TRUE]
           one == [frames |-> <<key>>, latest |-> q.latest, next |-> 2, online |-> TRUE]
<1>1. ~CannotEnqueue(fresh) /\ ~CannotEnqueue(one)
  BY DEF CannotEnqueue
<1>2. Enqueue(fresh, "keyboard", q.latest["keyboard"]) = one
  BY <1>1 DEF Enqueue
<1>3. s = Enqueue(one, "consumer", q.latest["consumer"])
  BY <1>2 DEF StartSession
<1>4. s = [frames |-> Append(one.frames, con), latest |-> q.latest, next |-> 3,
           online |-> TRUE]
  BY <1>1, <1>3 DEF Enqueue
<1>5. /\ s.frames = Append(<<key>>, con) /\ s.latest = q.latest /\ s.next = 3
      /\ s.online = TRUE
  BY <1>4
<1> HIDE DEF s
<1>6. /\ Len(s.frames) = 2 /\ s.frames[1] = key /\ s.frames[2] = con
      /\ \A j \in 1..2 : j = 1 \/ j = 2
  <2> HIDE DEF key, con
  <2> DEFINE S == {key, con}
  <2>1. <<key>> \in Seq(S) /\ con \in S /\ Len(<<key>>) = 1 /\ <<key>>[1] = key
    OBVIOUS
  <2> HIDE DEF S
  <2> QED BY <1>5, <2>1, AppendProperties
<1>7. ASSUME NEW t \in Types PROVE \E j \in 1..Len(s.frames) : s.frames[j].type = t
  <2>1. 1 \in 1..Len(s.frames) /\ 2 \in 1..Len(s.frames)
    BY <1>6
  <2> QED BY <1>6, <2>1 DEF Types
<1>8. \A j \in 1..Len(s.frames) : s.frames[j].data = s.latest[s.frames[j].type]
  BY <1>5, <1>6
<1>9. Current(s, 0)
  BY <1>5, <1>6, <1>7, <1>8 DEF Current
<1> QED BY <1>5, <1>9 DEF s

\* A batch is taken from the queue.
LEMMA BatchInQueue ==
  ASSUME NEW w \in TxType, NEW q \in QueueType, Numbered(q), NEW i \in 1..Len(Batch(w, q))
  PROVE  InQueue(q, Batch(w, q)[i])
<1> DEFINE skip == UpTo(q, w.accepted)
           n == BatchSize(Len(q.frames) - skip)
           b == SubSeq(q.frames, skip + 1, skip + n)
<1>1. /\ q.frames \in Seq(Frame) /\ Len(q.frames) \in Nat
      /\ w.accepted \in Nat /\ BatchMax \in Nat \ {0}
  BY DEF QueueType, TxType, Seqs
<1>2. skip \in 0..Len(q.frames)
  BY <1>1, UpToFacts
<1>3. Batch(w, q) = b \/ Batch(w, q) = <<>>
  BY DEF Batch
<1> HIDE DEF skip
<1>4. n \in 0..(Len(q.frames) - skip)
  BY <1>1, <1>2 DEF BatchSize
<1> HIDE DEF n
<1>5. /\ Len(b) = n /\ \A j \in 1..n : b[j] = q.frames[skip + j]
  <2>1. \A j \in (skip + 1)..(skip + n) : q.frames[j] \in Frame
    BY <1>1, <1>2, <1>4, ElementOfSeq
  <2> QED BY <1>1, <1>2, <1>4, <2>1, SubSeqProperties
<1> HIDE DEF b
<1>6. Batch(w, q) = b /\ i \in 1..n
  <2>1. Len(<<>>) = 0 /\ 1..0 = {}
    OBVIOUS
  <2> QED BY <1>3, <1>5, <2>1
<1>7. skip + i \in 1..Len(q.frames)
  BY <1>1, <1>2, <1>4, <1>6
<1> QED BY <1>5, <1>6, <1>7 DEF InQueue

-----------------------------------------------------------------------------
(* ... and that what is under way, and what the host shows, is in it        *)
(* (QueueContent).  WindowInv says the same of the numbers alone.           *)

CarriedOK ==
  /\ \A i \in 1..Len(rx.frames) : InQueue(queue, rx.frames[i])
  /\ CarriesQueue(ForReceiver) /\ CarriesQueue(InWork)
HostOK ==
  \A t \in Types :
    ShownAll(queue, rx.completed, t) /\ (t = "keyboard" \/ protocol = "report")
      => host[t] = queue.latest[t]

\* SharedContent, in its two parts.
LEMMA SharedParts == SharedContent <=> (Shared /\ ~kbdResync => CarriedOK /\ HostOK)
BY DEF SharedContent, CarriedOK, HostOK

QueueContent == QueueIsCurrent /\ SharedContent

\* Nothing is promised outside a session of both ends.
LEMMA NotShared ==
  ASSUME QueueIsCurrent', ~(Shared /\ ~kbdResync)'
  PROVE  QueueContent'
BY DEF QueueContent, SharedContent

\* A report the queue takes changes nothing of the others; one it cannot take
\* makes the keyboard start over.
LEMMA PublishContent ==
  ASSUME WindowInv, QueueContent, PublishAny PROVE QueueContent'
<1>0. PICK t \in Types : \E d \in Reports(t) : Publish(t, d)
  BY DEF PublishAny
<1>00. PICK d \in Reports(t) : Publish(t, d)
  BY <1>0
<1>1. /\ queue' = Push(queue, t, d) /\ (kbdResync' <=> kbdResync \/ PushOverflows(queue, t, d))
      /\ UNCHANGED <<tx, kbdSession, rcvSession, rcvResync, work, rx, protocol, toRcv, host>>
  BY <1>00 DEF Publish, rcvVars, hidVars, airVars, WindowInv, TypeOK, PushOverflows, QueueType
<1>2. queue \in QueueType /\ Numbered(queue) /\ tx.completed \in Nat /\ d \in AllReports
  BY ReportFacts, WindowTypes DEF WindowInv, TypeOK, QueueInOrder, Numbered
<1>3. CASE kbdResync'
  BY <1>3, NotShared DEF QueueIsCurrent, Sending
<1>4. CASE ~kbdResync' /\ kbdSession = NoSession
  BY <1>1, <1>4, NotShared DEF QueueIsCurrent, Sending, Shared
<1>5. CASE ~kbdResync' /\ kbdSession # NoSession
  <2>1. Current(queue, tx.completed) /\ ~PushOverflows(queue, t, d)
    BY <1>1, <1>5 DEF QueueContent, QueueIsCurrent, Sending
  <2>2. /\ Current(queue', tx.completed)
        /\ \A f : InQueue(queue, f) => InQueue(queue', f)
        /\ \A e \in Nat, u \in Types :
              e < queue.next /\ ShownAll(queue', e, u)
                => ShownAll(queue, e, u) /\ queue'.latest[u] = queue.latest[u]
    BY <1>1, <1>2, <2>1, PushCurrent
  <2>3. ASSUME Shared'
        PROVE  (CarriedOK /\ HostOK)'
    <3>1. Shared /\ ~kbdResync /\ CarriedOK /\ HostOK
      BY <1>1, <1>5, <2>3, SharedParts DEF Shared, QueueContent
    <3>2. CarriedOK'
      BY <1>1, <2>2, <3>1 DEF CarriedOK, CarriesQueue, ForReceiver, InWork
    <3>3. rx.completed \in Nat /\ rx.completed < queue.next
      <4>1. tx.sent < queue.next /\ rx.accepted <= tx.sent
        BY <2>1, <3>1 DEF WindowInv, QueueInOrder, SharedWindow, Current
      <4>2. rx.completed <= rx.accepted
        BY WindowTypes DEF WindowInv, ReceiverBuffer
      <4> QED BY <1>2, <4>1, <4>2, WindowTypes, QueueFacts DEF WindowInv
    <3>4. HostOK'
      BY <1>1, <2>2, <3>1, <3>3 DEF HostOK
    <3> QED BY <3>2, <3>4
  <2>4. QueueIsCurrent'
    BY <1>1, <2>2 DEF QueueIsCurrent
  <2> QED BY <2>3, <2>4, SharedParts DEF QueueContent, SharedContent, CarriedOK, HostOK
<1> QED BY <1>3, <1>4, <1>5

\* Steps after which the two ends share no session.
LEMMA SessionContent ==
  ASSUME WindowInv, QueueContent,
         Select \/ KbdNewSession \/ RcvNewSession \/ RcvEstablish \/ Reconnect
           \/ IfaceReady \/ SetProtocol \/ TestHold
  PROVE  QueueContent'
<1>1. CASE Select \/ KbdNewSession
  BY <1>1, NotShared DEF Select, KbdNewSession, QueueIsCurrent, Sending, Shared
<1>2. CASE RcvNewSession \/ RcvEstablish
  <2>1. UNCHANGED <<queue, tx, kbdSession, kbdResync>>
    BY <1>2 DEF RcvNewSession, RcvEstablish, kbdVars
  <2>2. ~Shared'
    BY <1>2 DEF RcvNewSession, RcvEstablish, Shared, kbdVars
  <2> QED BY <2>1, <2>2, NotShared DEF QueueContent, QueueIsCurrent, Sending
<1>3. CASE Reconnect \/ IfaceReady \/ SetProtocol \/ TestHold
  <2>1. UNCHANGED <<queue, tx, kbdSession, kbdResync>> /\ rcvResync'
    BY <1>3 DEF Reconnect, IfaceReady, SetProtocol, TestHold, kbdVars
  <2> QED BY <2>1, NotShared DEF QueueContent, QueueIsCurrent, Sending, Shared
<1> QED BY <1>1, <1>2, <1>3

\* A session starts with both reports in the queue and nothing under way.
LEMMA KbdEstablishContent ==
  ASSUME WindowInv, QueueContent, KbdEstablish PROVE QueueContent'
<1>1. /\ queue' = StartSession(queue) /\ kbdSession' = offer /\ offer # NoSession
      /\ tx = TxReset /\ tx' = tx
      /\ UNCHANGED <<kbdResync, rcvSession, rcvResync, work, rx, protocol, toRcv, host>>
  BY DEF KbdEstablish, WindowInv, IdleIsReset, rcvVars, hidVars, airVars
<1>2. queue \in QueueType /\ queue' \in QueueType /\ Current(queue', 0)
  BY <1>1, StartFacts, StartCurrent DEF WindowInv, TypeOK
<1>3. tx'.completed = 0
  BY <1>1 DEF TxReset
<1>4. QueueIsCurrent'
  BY <1>2, <1>3 DEF QueueIsCurrent
<1>5. ASSUME Shared' PROVE (CarriedOK /\ HostOK)'
  <2>1. /\ rx = RxReset /\ work = None /\ offer \notin SessionOf(toRcv)
    BY <1>1, <1>5 DEF Shared, WindowInv, OfferIsFresh
  <2>2. ForReceiver' = <<>> /\ InWork' = <<>> /\ rx'.frames = <<>> /\ rx'.completed = 0
    BY <1>1, <1>5, <2>1 DEF ForReceiver, InWork, SessionOf, Shared, RxReset
  <2>3. CarriedOK'
    BY <2>2 DEF CarriedOK, CarriesQueue
  <2>4. \A t \in Types : ~ShownAll(queue', 0, t)
    <3> SUFFICES ASSUME NEW t \in Types PROVE ~ShownAll(queue', 0, t)
      OBVIOUS
    <3>1. PICK j \in 1..Len(queue'.frames) : queue'.frames[j].type = t
      BY <1>2 DEF Current
    <3>2. queue'.frames[j].seq \in Nat /\ queue'.frames[j].seq >= 1
      BY <1>2, QueueFacts
    <3> QED BY <3>1, <3>2 DEF ShownAll
  <2>5. HostOK'
    BY <2>2, <2>4 DEF HostOK
  <2> QED BY <2>3, <2>5
<1> QED BY <1>4, <1>5, SharedParts DEF QueueContent, SharedContent, CarriedOK, HostOK

\* What is sent is in the queue.
LEMMA KbdSendContent ==
  ASSUME WindowInv, QueueContent, KbdSend PROVE QueueContent'
<1> DEFINE b == Batch(tx, queue)
<1>1. /\ toRcv' = toRcv
         \/ toRcv' = [kind |-> "input", session |-> kbdSession, frames |-> b]
      /\ tx' = tx \/ tx' = [tx EXCEPT !.sent = b[Len(b)].seq]
      /\ UNCHANGED <<queue, kbdSession, kbdResync, rcvSession, rcvResync, work, rx,
                     protocol, host>>
  BY DEF KbdSend, rcvVars, hidVars
<1>2. tx \in TxType /\ queue \in QueueType /\ Numbered(queue)
  BY DEF WindowInv, TypeOK, QueueInOrder, Numbered
<1>3. tx'.completed = tx.completed
  BY <1>1, <1>2 DEF TxType
<1>4. QueueIsCurrent'
  BY <1>1, <1>3 DEF QueueContent, QueueIsCurrent, Sending
<1>5. ASSUME Shared', ~kbdResync' PROVE (CarriedOK /\ HostOK)'
  <2>1. CarriedOK /\ HostOK
    BY <1>1, <1>5, SharedParts DEF Shared, QueueContent
  <2>2. \A i \in 1..Len(b) : InQueue(queue, b[i])
    BY <1>2, BatchInQueue
  <2>3. CarriesQueue(ForReceiver)'
    <3>1. CASE toRcv' = toRcv
      BY <1>1, <1>3, <2>1, <3>1 DEF CarriedOK, CarriesQueue, ForReceiver
    <3>2. CASE toRcv' = [kind |-> "input", session |-> kbdSession, frames |-> b]
      <4> HIDE DEF b
      <4>1. ForReceiver' = b \/ ForReceiver' = <<>>
        BY <3>2 DEF ForReceiver
      <4> QED BY <1>1, <2>2, <4>1 DEF CarriesQueue
    <3> QED BY <1>1, <3>1, <3>2
  <2>4. CarriedOK'
    BY <1>1, <1>3, <2>1, <2>3 DEF CarriedOK, CarriesQueue, InWork
  <2>5. HostOK'
    BY <1>1, <2>1 DEF HostOK
  <2> QED BY <2>4, <2>5
<1> QED BY <1>4, <1>5, SharedParts DEF QueueContent, SharedContent, CarriedOK, HostOK

\* An acknowledgement takes from the queue only what USB has completed.
LEMMA KbdReceiveContent ==
  ASSUME WindowInv, QueueContent, KbdReceive PROVE QueueContent'
<1>1. UNCHANGED <<kbdSession, kbdResync, rcvSession, rcvResync, work, rx, protocol, toRcv, host>>
  BY DEF KbdReceive, rcvVars, hidVars
<1>2. CASE ~(toKbd.session = kbdSession /\ Applicable(tx, toKbd.status))
  <2>1. UNCHANGED <<queue, tx>>
    BY <1>2 DEF KbdReceive
  <2> QED BY <1>1, <2>1 DEF QueueContent, QueueIsCurrent, Sending, SharedContent, Shared,
          CarriesQueue, ForReceiver, InWork
<1>3. CASE toKbd.session = kbdSession /\ Applicable(tx, toKbd.status)
  <2> DEFINE e == toKbd.status.completed
  <2>1. tx' = Apply(tx, toKbd.status) /\ queue' = Pop(queue, e) /\ toKbd # None
    BY <1>3 DEF KbdReceive
  <2>2. /\ tx \in TxType /\ queue \in QueueType /\ Numbered(queue) /\ toKbd \in AckPacket
        /\ queue.next \in Nat
    <3>1. tx \in TxType /\ queue \in QueueType /\ toKbd \in AckPacket
      BY <2>1 DEF WindowInv, TypeOK
    <3>2. Numbered(queue)
      BY DEF WindowInv, QueueInOrder, Numbered
    <3> QED BY <3>1, <3>2, QueueFacts
  <2>3. /\ e \in Nat /\ tx'.completed = e /\ tx.completed <= e /\ e <= tx.sent
        /\ tx.completed \in Nat /\ tx.sent \in Nat
    <3>1. /\ toKbd.status.accepted \in Nat /\ e \in Nat /\ toKbd.status \in AckType
      BY <2>2 DEF AckPacket, AckType, Seqs
    <3>2. /\ tx.completed <= e /\ e <= toKbd.status.accepted
          /\ toKbd.status.accepted <= tx.sent
      BY <1>3 DEF Applicable, ValidAck
    <3>3. tx'.completed = e
      BY <2>1, <2>2 DEF Apply, TxType
    <3> QED BY <3>1, <3>2, <3>3, WindowTypes DEF WindowInv
  <2> HIDE DEF e
  <2>4. ASSUME Sending'
        PROVE  /\ Current(queue', e) /\ queue'.latest = queue.latest
               /\ \A f : InQueue(queue, f) /\ f.seq > e => InQueue(queue', f)
               /\ \A d \in Nat, u \in Types :
                    e <= d /\ ShownAll(queue', d, u) => ShownAll(queue, d, u)
    <3>1. Current(queue, tx.completed)
      BY <1>1, <2>4 DEF QueueContent, QueueIsCurrent, Sending
    <3>2. e < queue.next
      BY <2>2, <2>3, <3>1 DEF WindowInv, QueueInOrder, Current
    <3> QED BY <2>1, <2>2, <2>3, <3>1, <3>2, PopCurrent
  <2>5. QueueIsCurrent'
    BY <2>3, <2>4 DEF QueueIsCurrent
  <2>6. ASSUME Shared', ~kbdResync' PROVE (CarriedOK /\ HostOK)'
    <3>1. Shared /\ ~kbdResync /\ CarriedOK /\ HostOK /\ Sending'
      BY <1>1, <2>6, SharedParts DEF Shared, QueueContent, Sending
    <3>2. e <= rx.completed /\ rx.completed \in Nat
      BY <1>3, <2>1, <3>1, WindowTypes DEF WindowInv, SharedWindow, Shared, e
    <3>3. \A i \in 1..Len(rx.frames) : rx.frames[i].seq > e
      <4>1. ASSUME NEW i \in 1..Len(rx.frames) PROVE rx.frames[i].seq > e
        <5>1. rx.frames[i].seq = rx.completed + i
          BY DEF WindowInv, ReceiverBuffer
        <5>2. i \in Nat /\ i >= 1
          BY WindowTypes DEF WindowInv
        <5> QED BY <2>3, <3>2, <5>1, <5>2
      <4> QED BY <4>1
    <3>4. ASSUME NEW s \in Seq(Frame), CarriesQueue(s)
          PROVE  \A i \in 1..Len(s) : s[i].seq > e => InQueue(queue', s[i])
      <4> SUFFICES ASSUME NEW i \in 1..Len(s), s[i].seq > e PROVE InQueue(queue', s[i])
        OBVIOUS
      <4>1. s[i] \in Frame /\ s[i].seq \in Nat
        <5>1. s[i] \in Frame
          BY ElementOfSeq
        <5> QED BY <5>1 DEF Frame
      <4>2. InQueue(queue, s[i])
        BY <2>3, <3>4, <4>1 DEF CarriesQueue
      <4> QED BY <2>4, <3>1, <4>2
    <3>5. ForReceiver \in Seq(Frame) /\ InWork \in Seq(Frame)
      BY DEF WindowInv, TypeOK, ForReceiver, InWork, InputPacket, Work
    <3>6. ForReceiver' = ForReceiver /\ InWork' = InWork
      BY <1>1 DEF ForReceiver, InWork
    <3>7. CarriesQueue(ForReceiver)' /\ CarriesQueue(InWork)'
      BY <2>3, <3>1, <3>4, <3>5, <3>6 DEF CarriesQueue, CarriedOK
    <3>8. CarriedOK'
      BY <1>1, <2>4, <3>1, <3>3, <3>7 DEF CarriedOK
    <3>9. HostOK'
      BY <1>1, <2>4, <3>1, <3>2 DEF HostOK
    <3> QED BY <3>8, <3>9
  <2> QED BY <2>5, <2>6, SharedParts DEF QueueContent, SharedContent, CarriedOK, HostOK
<1> QED BY <1>2, <1>3

\* A packet goes from the buffer to the thread, or is answered or lost.
LEMMA PacketContent ==
  ASSUME WindowInv, QueueContent, RcvReceive \/ RcvReply \/ LosePacket
  PROVE  QueueContent'
<1>1. UNCHANGED <<queue, tx, kbdSession, kbdResync, rcvSession, rcvResync, rx, protocol, host>>
  BY DEF RcvReceive, RcvReply, LosePacket, kbdVars, rcvVars, hidVars
<1>2. /\ ForReceiver' = ForReceiver \/ ForReceiver' = <<>>
      /\ InWork' = InWork \/ InWork' = <<>> \/ InWork' = ForReceiver
  <2>1. CASE RcvReceive
    BY <1>1, <2>1 DEF RcvReceive, ForReceiver, InWork, None
  <2>2. CASE RcvReply
    BY <2>2 DEF RcvReply, ForReceiver, InWork
  <2>3. CASE LosePacket
    BY <2>3 DEF LosePacket, ForReceiver, InWork, rcvVars
  <2> QED BY <2>1, <2>2, <2>3
<1>3. CarriesQueue(<<>>)
  BY DEF CarriesQueue
<1> QED BY <1>1, <1>2, <1>3 DEF QueueContent, QueueIsCurrent, Sending, SharedContent, Shared,
        CarriesQueue

\* The receiver's buffer takes a report from the packet at hand, so it too is
\* in the queue.
LEMMA DeliverContent ==
  ASSUME WindowInv, QueueContent, RcvDeliver
  PROVE  QueueContent'
<1> DEFINE f == Head(work.frames)
<1>1. /\ UNCHANGED <<queue, tx, kbdSession, kbdResync, rcvSession, rcvResync, protocol, host,
                     toRcv>>
      /\ work \in Work /\ work # None /\ work.frames # <<>> /\ work.frames \in Seq(Frame)
      /\ InWork' = Tail(work.frames) \/ InWork' = <<>>
      /\ rx' = rx \/ rx' = Receive(rx, f)
  <2>1. /\ work \in Work /\ work # None /\ work.frames # <<>> /\ work.frames \in Seq(Frame)
    BY DEF RcvDeliver, WindowInv, TypeOK, Work
  <2>2. InWork' = Tail(work.frames) \/ InWork' = <<>>
    BY <2>1 DEF RcvDeliver, InWork, Work
  <2>3. /\ UNCHANGED <<queue, tx, kbdSession, kbdResync, rcvSession, rcvResync, protocol, host,
                       toRcv>>
        /\ rx' = rx \/ rx' = Receive(rx, f)
    BY DEF RcvDeliver, kbdVars, airVars
  <2> QED BY <2>1, <2>2, <2>3
<1>2. /\ Len(work.frames) \in Nat /\ f = work.frames[1] /\ 1 \in 1..Len(work.frames)
      /\ f \in Frame
      /\ \A i \in 1..Len(Tail(work.frames)) :
           i + 1 \in 1..Len(work.frames) /\ Tail(work.frames)[i] = work.frames[i + 1]
  BY <1>1, FramesFacts, HeadTailProperties
<1>3. QueueIsCurrent'
  BY <1>1 DEF QueueContent, QueueIsCurrent, Sending
<1>4. ASSUME Shared', ~kbdResync' PROVE (CarriedOK /\ HostOK)'
  <2>1. Shared /\ CarriedOK /\ HostOK
    BY <1>1, <1>4, SharedParts DEF Shared, QueueContent
  <2>2. InWork = work.frames /\ CarriesQueue(work.frames)
    BY <1>1, <2>1 DEF CarriedOK, InWork
  <2>3. CarriesQueue(InWork)'
    BY <1>1, <1>2, <2>2 DEF CarriesQueue
  <2>4. CarriesQueue(ForReceiver)'
    BY <1>1, <2>1 DEF CarriedOK, CarriesQueue, ForReceiver
  <2>5. /\ rx'.completed = rx.completed
        /\ \A i \in 1..Len(rx'.frames) : InQueue(queue, rx'.frames[i])
    <3>1. CASE rx' = rx
      BY <2>1, <3>1 DEF CarriedOK
    <3>2. CASE rx' = Receive(rx, f) /\ rx' # rx
      <4>1. rx \in RxType /\ rx.frames \in Seq(Frame) /\ rx.accepted \in Nat
            /\ rx.completed \in Nat /\ tx.completed \in Nat /\ Len(rx.frames) \in Nat
            /\ f.seq \in Nat
        BY <1>2, WindowTypes DEF WindowInv, TypeOK, RxType, Frame
      <4>2. ReceiveCode(rx, f) = "queued" /\ f.seq = rx.accepted + 1
        BY <3>2, <4>1 DEF Receive, ReceiveCode
      <4>3. rx' = [rx EXCEPT !.frames = Append(@, f), !.accepted = f.seq]
        BY <3>2, <4>2 DEF Receive
      <4>4. rx'.frames = Append(rx.frames, f) /\ rx'.completed = rx.completed
        BY <4>1, <4>3 DEF RxType
      <4>5. f.seq > tx.completed
        <5>1. tx.completed <= rx.completed
          BY <2>1 DEF WindowInv, SharedWindow
        <5>2. rx.completed <= rx.accepted
          BY <4>1 DEF WindowInv, ReceiverBuffer
        <5> QED BY <4>1, <4>2, <5>1, <5>2
      <4>6. InQueue(queue, f)
        BY <1>2, <2>2, <4>5 DEF CarriesQueue
      <4>7. /\ Len(rx'.frames) = Len(rx.frames) + 1
            /\ \A i \in 1..Len(rx.frames) : rx'.frames[i] = rx.frames[i]
            /\ rx'.frames[Len(rx.frames) + 1] = f
        BY <1>2, <4>1, <4>4
      <4>8. \A i \in 1..Len(rx'.frames) : i \in 1..Len(rx.frames) \/ i = Len(rx.frames) + 1
        BY <4>1, <4>7
      <4> QED BY <2>1, <4>4, <4>6, <4>7, <4>8 DEF CarriedOK
    <3> QED BY <1>1, <3>1, <3>2
  <2>6. CarriedOK'
    BY <1>1, <2>3, <2>4, <2>5 DEF CarriedOK
  <2>7. HostOK'
    BY <1>1, <2>1, <2>5 DEF HostOK
  <2> QED BY <2>6, <2>7
<1> QED BY <1>3, <1>4, SharedParts DEF QueueContent, SharedContent, CarriedOK, HostOK

\* The oldest report completes, and the host has it if its type matters.
LEMMA CompleteContent ==
  ASSUME WindowInv, QueueContent, rx.frames # <<>>,
         rx' = Complete(rx, Head(rx.frames).seq),
         UNCHANGED <<kbdVars, rcvVars, airVars, protocol>>,
         \A t \in Types \ {Head(rx.frames).type} : host'[t] = host[t],
         \/ host'[Head(rx.frames).type] = Head(rx.frames).data
         \/ Head(rx.frames).type # "keyboard" /\ protocol # "report"
  PROVE  QueueContent'
<1> DEFINE f == Head(rx.frames)
<1>1. UNCHANGED <<queue, tx, kbdSession, kbdResync, rcvSession, rcvResync, work, toRcv, protocol>>
  BY DEF kbdVars, rcvVars, airVars
<1>2. QueueIsCurrent'
  BY <1>1 DEF QueueContent, QueueIsCurrent, Sending
<1>3. ASSUME Shared', ~kbdResync' PROVE (CarriedOK /\ HostOK)'
  <2>1. Shared /\ ~kbdResync /\ CarriedOK /\ HostOK
    BY <1>1, <1>3, SharedParts DEF Shared, QueueContent
  <2>2. /\ rx'.completed = rx.completed + 1 /\ f.seq = rx.completed + 1
        /\ rx'.frames = Tail(rx.frames) /\ rx.completed \in Nat
        /\ rx.frames \in Seq(Frame) /\ Len(rx.frames) \in Nat
    BY CompletesHead, WindowTypes DEF WindowInv, TypeOK, RxType
  <2>3. /\ f = rx.frames[1] /\ 1 \in 1..Len(rx.frames)
        /\ \A i \in 1..Len(rx'.frames) :
             i + 1 \in 1..Len(rx.frames) /\ rx'.frames[i] = rx.frames[i + 1]
    <3>1. Len(rx.frames) >= 1 /\ f = rx.frames[1]
      BY <2>2, FramesFacts
    <3>2. /\ Len(Tail(rx.frames)) = Len(rx.frames) - 1
          /\ \A i \in 1..Len(Tail(rx.frames)) : Tail(rx.frames)[i] = rx.frames[i + 1]
      BY <2>2, HeadTailProperties
    <3>3. \A i \in 1..Len(Tail(rx.frames)) : i + 1 \in 1..Len(rx.frames)
      BY <2>2, <3>1, <3>2
    <3>4. 1 \in 1..Len(rx.frames)
      BY <2>2, <3>1
    <3> HIDE DEF f
    <3> QED BY <2>2, <3>1, <3>2, <3>3, <3>4, Zenon
  <2>4. CarriedOK'
    BY <1>1, <2>1, <2>3 DEF CarriedOK, CarriesQueue, ForReceiver, InWork
  <2>5. PICK j \in 1..Len(queue.frames) : queue.frames[j] = f
    BY <2>1, <2>3 DEF CarriedOK, InQueue
  <2>6. queue \in QueueType /\ Current(queue, tx.completed)
    BY <2>1 DEF QueueContent, QueueIsCurrent, Sending, Shared, WindowInv, TypeOK
  <2>7. \A k \in 1..Len(queue.frames) : queue.frames[k].seq = queue.next - Len(queue.frames) + k - 1
    BY DEF WindowInv, QueueInOrder
  <2>8. ASSUME NEW t \in Types, ShownAll(queue, rx'.completed, t),
               t = "keyboard" \/ protocol = "report"
        PROVE  host'[t] = queue.latest[t]
    <3>1. CASE t = f.type
      <4>1. LastOfType(queue, j)
        <5> SUFFICES ASSUME NEW k \in (j + 1)..Len(queue.frames)
                     PROVE  queue.frames[k].type # f.type
          BY <2>5 DEF LastOfType
        <5>1. /\ k \in 1..Len(queue.frames) /\ Len(queue.frames) \in Nat /\ queue.next \in Nat
              /\ k > j /\ k \in Nat /\ j \in Nat
          BY <2>6, QueueFacts
        <5>2. queue.frames[k].seq > f.seq /\ queue.frames[k].seq \in Nat
          <6>1. /\ queue.frames[k].seq = queue.next - Len(queue.frames) + k - 1
                /\ f.seq = queue.next - Len(queue.frames) + j - 1
            BY <2>5, <2>7, <5>1
          <6> QED BY <2>6, <5>1, <6>1, QueueFacts
        <5> QED BY <2>2, <2>8, <3>1, <5>1, <5>2 DEF ShownAll
      <4>2. f.data = queue.latest[t]
        BY <2>5, <2>6, <3>1, <4>1 DEF Current
      <4> QED BY <2>8, <3>1, <4>2
    <3>2. CASE t # f.type
      <4>1. ShownAll(queue, rx.completed, t)
        <5> SUFFICES ASSUME NEW k \in 1..Len(queue.frames), queue.frames[k].type = t
                     PROVE  queue.frames[k].seq <= rx.completed
          BY DEF ShownAll
        <5>1. queue.frames[k].seq <= rx.completed + 1 /\ queue.frames[k].seq \in Nat
          BY <2>2, <2>6, <2>8, QueueFacts DEF ShownAll
        <5>2. queue.frames[k].seq # f.seq
          <6>1. k # j
            BY <2>5, <3>2
          <6>2. k \in Nat /\ j \in Nat /\ Len(queue.frames) \in Nat /\ queue.next \in Nat
            BY <2>6, QueueFacts
          <6>3. /\ queue.frames[k].seq = queue.next - Len(queue.frames) + k - 1
                /\ f.seq = queue.next - Len(queue.frames) + j - 1
            BY <2>5, <2>7
          <6> QED BY <6>1, <6>2, <6>3
        <5> QED BY <2>2, <5>1, <5>2
      <4> QED BY <2>1, <2>8, <3>2, <4>1 DEF HostOK
    <3> QED BY <3>1, <3>2
  <2>9. HostOK'
    BY <1>1, <2>8 DEF HostOK
  <2> QED BY <2>4, <2>9
<1> QED BY <1>2, <1>3, SharedParts DEF QueueContent, SharedContent, CarriedOK, HostOK

\* As long as the receiver has completed nothing, a type's report is not shown.
LEMMA FirstNotShown ==
  ASSUME WindowInv, QueueContent, Shared, ~kbdResync, rx.completed = 0
  PROVE  \A t \in Types : ~ShownAll(queue, rx.completed, t)
<1> SUFFICES ASSUME NEW t \in Types PROVE ~ShownAll(queue, 0, t)
  OBVIOUS
<1>1. queue \in QueueType /\ Current(queue, tx.completed)
  BY DEF QueueContent, QueueIsCurrent, Sending, Shared, WindowInv, TypeOK
<1>2. tx.completed = 0
  BY WindowTypes DEF WindowInv, SharedWindow
<1>3. PICK j \in 1..Len(queue.frames) : queue.frames[j].type = t
  BY <1>1, <1>2 DEF Current
<1>4. queue.frames[j].seq \in Nat /\ queue.frames[j].seq >= 1
  BY <1>1, QueueFacts
<1> QED BY <1>3, <1>4 DEF ShownAll

\* What USB does with a report, or without one.
LEMMA UsbContent ==
  ASSUME WindowInv, UsbInv, QueueContent, PollSkip \/ TransferDone
  PROVE  QueueContent'
<1>1. UNCHANGED <<kbdVars, rcvVars, airVars, protocol>>
  BY DEF PollSkip, TransferDone
<1>2. UNCHANGED <<queue, tx, kbdSession, kbdResync, rcvSession, rcvResync, work, toRcv>>
  BY <1>1 DEF kbdVars, rcvVars, airVars
<1>3. TypeOK /\ host \in [Types -> AllReports]
  BY DEF WindowInv, TypeOK
<1>4. CASE PollSkip /\ poll.seq # 0
  <2>1. /\ IsHead(poll) /\ rx' = Complete(rx, poll.seq) /\ host' = host
        /\ poll.type = "consumer" /\ protocol = "boot"
    BY <1>4 DEF PollSkip, Submittable, AlreadyDelivered, Silent, UsbInv, UsbOrder
  <2>2. /\ rx.frames # <<>> /\ Head(rx.frames).seq = poll.seq
        /\ Head(rx.frames).type = poll.type
    BY <2>1 DEF IsHead
  <2> QED BY <1>1, <2>1, <2>2, CompleteContent
<1>5. CASE TransferDone /\ pending.fresh /\ pending.seq # 0
  <2>1. /\ IsHead(pending) /\ rx' = Complete(rx, pending.seq) /\ pending # None
        /\ host' = [host EXCEPT ![pending.type] = pending.data]
    BY <1>5 DEF TransferDone, UsbInv, UsbOrder
  <2>2. /\ rx.frames # <<>> /\ Head(rx.frames).seq = pending.seq
        /\ Head(rx.frames).type = pending.type /\ Head(rx.frames).data = pending.data
    BY <2>1 DEF IsHead
  <2>3. pending.type \in Types
    BY <1>3, <2>1, SubmissionFacts
  <2>4. /\ \A t \in Types \ {pending.type} : host'[t] = host[t]
        /\ host'[pending.type] = pending.data
    BY <1>3, <2>1, <2>3
  <2> QED BY <1>1, <2>1, <2>2, <2>4, CompleteContent
<1>6. CASE (PollSkip /\ poll.seq = 0) \/ (TransferDone /\ ~(pending.fresh /\ pending.seq # 0))
  <2>1. rx' = rx /\ (host' # host => rx.completed = 0)
    <3>1. CASE PollSkip /\ poll.seq = 0
      BY <3>1 DEF PollSkip
    <3>2. CASE TransferDone /\ pending.fresh /\ pending.seq = 0
      BY <3>2 DEF TransferDone, UsbInv, UsbOrder
    <3>3. CASE TransferDone /\ ~pending.fresh
      <4>1. rx' = rx /\ pending # None /\ releaseMask = Types
        BY <3>3 DEF TransferDone, UsbInv, UsbOrder
      <4>2. Types # {}
        BY DEF Types
      <4> QED BY <4>1, <4>2 DEF UsbInv, UsbOrder
    <3> QED BY <1>6, <3>1, <3>2, <3>3
  <2>2. QueueIsCurrent'
    BY <1>2 DEF QueueContent, QueueIsCurrent, Sending
  <2>3. ASSUME Shared', ~kbdResync' PROVE (CarriedOK /\ HostOK)'
    <3>1. Shared /\ ~kbdResync /\ CarriedOK /\ HostOK
      BY <1>2, <2>3, SharedParts DEF Shared, QueueContent
    <3>2. CarriedOK'
      BY <1>2, <2>1, <3>1 DEF CarriedOK, CarriesQueue, ForReceiver, InWork
    <3>3. HostOK'
      <4>1. CASE host' = host
        BY <1>1, <1>2, <2>1, <3>1, <4>1 DEF HostOK
      <4>2. CASE host' # host
        <5>1. \A t \in Types : ~ShownAll(queue, rx.completed, t)
          BY <2>1, <3>1, <4>2, FirstNotShown
        <5> QED BY <1>2, <2>1, <5>1 DEF HostOK
      <4> QED BY <4>1, <4>2
    <3> QED BY <3>2, <3>3
  <2> QED BY <2>2, <2>3, SharedParts DEF QueueContent, SharedContent, CarriedOK, HostOK
<1> QED BY <1>4, <1>5, <1>6

\* Every step keeps the queue's content and what is under way.
LEMMA NextContent ==
  WindowInv /\ UsbInv /\ QueueContent /\ [Next]_vars => QueueContent'
<1> SUFFICES ASSUME WindowInv, UsbInv, QueueContent, [Next]_vars PROVE QueueContent'
  OBVIOUS
<1>1. CASE KbdRestart \/ KbdSilence \/ KbdTimeout
  BY <1>1, SessionContent DEF KbdRestart, KbdSilence, KbdTimeout
<1>2. CASE KbdEstablish
  BY <1>2, KbdEstablishContent
<1>3. CASE KbdTraffic
  BY <1>3, KbdSendContent, KbdReceiveContent DEF KbdTraffic
<1>4. CASE RcvRestart \/ RcvSilence \/ RcvTimeout \/ RcvEstablish
  BY <1>4, SessionContent DEF RcvRestart, RcvSilence, RcvTimeout
<1>5. CASE RcvTraffic
  BY <1>5, PacketContent, DeliverContent DEF RcvTraffic
<1>6. CASE PollRead \/ PollDrop \/ PollSubmit \/ PollSubmitFails \/ TransferFails \/ Settle
           \/ UNCHANGED vars
  <2>1. UNCHANGED <<kbdVars, rcvVars, rx, protocol, airVars, host>>
    BY <1>6 DEF PollRead, PollDrop, PollSubmit, PollSubmitFails, TransferFails, Settle, hidVars,
                vars
  <2> QED BY <2>1 DEF QueueContent, QueueIsCurrent, Sending, SharedContent, Shared, CarriesQueue,
          ForReceiver, InWork, kbdVars, rcvVars, airVars
<1>7. CASE PollSkip \/ TransferDone
  BY <1>7, UsbContent
<1>8. CASE PublishAny
  BY <1>8, PublishContent
<1>9. CASE Select \/ Reconnect \/ IfaceReady \/ SetProtocol \/ TestHold
  BY <1>9, SessionContent
<1>10. CASE LosePacket
  BY <1>10, PacketContent
<1> QED BY <1>1, <1>2, <1>3, <1>4, <1>5, <1>6, <1>7, <1>8, <1>9, <1>10
        DEF Next, Environment, Poll

\* At the start there is nothing to say.
LEMMA InitContent == Init => ContentInv
<1> SUFFICES ASSUME Init PROVE ContentInv
  OBVIOUS
<1>1. UsbOrder
  BY DEF Init, UsbOrder, RxReset
<1>2. ReleasedBeforeReports
  BY DEF Init, ReleasedBeforeReports
<1>3. QueueIsCurrent /\ SharedContent
  BY DEF Init, QueueIsCurrent, Sending, SharedContent, Shared
<1> QED BY <1>1, <1>2, <1>3 DEF ContentInv

-----------------------------------------------------------------------------
(* The theorems about the content *)

(* The inductive invariant of the content: queue, packets, buffer, USB and  *)
(* host hold the same reports, and releases go before them.                 *)
THEOREM ContentHolds == Spec => []ContentInv
<1>1. WindowInv /\ ContentInv /\ [Next]_vars => ContentInv'
  BY NextUsb, NextContent DEF ContentInv, UsbInv, QueueContent
<1> QED BY InitContent, <1>1, WindowHolds, PTL DEF Spec

(* No report is dropped before USB has completed it: all that is in the     *)
(* receiver's buffer is, unchanged and in order, still in input_queue.      *)
THEOREM NothingIsLost == Spec => []NothingLost
<1>1. WindowInv /\ ContentInv => NothingLost
  BY DEF WindowInv, ReceiverBuffer, ContentInv, SharedContent, InQueue, NothingLost
<1> QED BY <1>1, WindowHolds, ContentHolds, PTL

(* No report reaches the host twice or out of order: the transfer in flight *)
(* is the oldest report of the buffer, although receiver_hid_poll reads it  *)
(* before submit takes the lock again.                                      *)
THEOREM OldestInFlight == Spec => []InFlightIsOldest
<1>1. ContentInv => InFlightIsOldest
  BY DEF ContentInv, UsbOrder, IsHead, InFlightIsOldest
<1> QED BY <1>1, ContentHolds, PTL

(* After apex_radio_release the host has seen a type released before the    *)
(* receiver counts it so, although a transfer of the past may still         *)
(* complete in between.                                                     *)
THEOREM ReleasedFirst == Spec => []ReleasedBeforeReports
<1>1. ContentInv => ReleasedBeforeReports
  BY DEF ContentInv
<1> QED BY <1>1, ContentHolds, PTL

(* No stuck and no missing key: when all reports of a session have been     *)
(* acknowledged, the host shows exactly the keyboard's latest reports.      *)
THEOREM HostIsInSync == Spec => []HostInSync
<1>1. ContentInv => HostInSync
  <2> SUFFICES ASSUME ContentInv, Shared, ~kbdResync, queue.frames = <<>>
               PROVE  /\ host["keyboard"] = queue.latest["keyboard"]
                      /\ protocol = "report" => host["consumer"] = queue.latest["consumer"]
    BY DEF HostInSync
  <2>1. \A t \in Types : ShownAll(queue, rx.completed, t)
    BY DEF ShownAll
  <2> QED BY <2>1 DEF ContentInv, SharedContent, Types
<1> QED BY <1>1, ContentHolds, PTL
=============================================================================
