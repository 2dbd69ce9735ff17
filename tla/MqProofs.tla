------------------------------ MODULE MqProofs ------------------------------
(***************************************************************************)
(* What mq_push and mq_pop (base/mq.c) do to the sequence of messages in   *)
(* the ring, for every capacity and whether or not the push expands it;    *)
(* and the theorems: the ring implements Fifo, for every set of messages,  *)
(* every initial capacity and every number of messages in flight.          *)
(***************************************************************************)
EXTENDS MqQueue, SequenceTheorems, TLAPS

(* The wrap-around that the code writes as a comparison and, in mq_expand, *)
(* as a remainder are one function on the indices that occur.              *)
LEMMA Wrap ==
    ASSUME NEW c \in Nat \ {0}, NEW h \in 0 .. c - 1, NEW i \in 0 .. c
    PROVE  RingIndex(h, i, c) = IF h + i < c THEN h + i ELSE h + i - c
<1>1. PICK x \in Nat : x = h + i
  OBVIOUS
<1>2. x < 2 * c
  BY <1>1
<1>3. CASE x < c
  <2>1. x % c = x
    BY <1>3
  <2> QED BY <2>1, <1>1, <1>3 DEF RingIndex
<1>4. CASE c <= x
  <2>1. x % c = x - c
    BY <1>2, <1>4
  <2> QED BY <2>1, <1>1, <1>4 DEF RingIndex
<1> QED BY <1>3, <1>4, <1>1

(* mq_count is the number of steps from head to tail around the ring, and *)
(* never the whole ring.                                                  *)
LEMMA CountBounds ==
    ASSUME MqTypeOK
    PROVE  /\ mq_count \in 0 .. mcap - 1
           /\ mq_count = 0 <=> head = tail
           /\ tail = RingIndex(head, mq_count, mcap)
<1>1. mq_count \in 0 .. mcap - 1 /\ (mq_count = 0 <=> head = tail)
  BY DEF MqTypeOK, mq_count
<1>2. tail = IF head + mq_count < mcap THEN head + mq_count ELSE head + mq_count - mcap
  BY DEF MqTypeOK, mq_count
<1> QED BY <1>1, <1>2, Wrap DEF MqTypeOK

(* A push that leaves room: the message goes behind the ones in the ring. *)
LEMMA PushInRoom ==
    ASSUME MqTypeOK, NEW m \in Msg, mq_push(m), head # NextIndex(tail)
    PROVE  /\ MqTypeOK'
           /\ mq_count' = mq_count + 1
           /\ \A i \in 0 .. mq_count - 1 :
                 q'[RingIndex(head', i, mcap')] = q[RingIndex(head, i, mcap)]
           /\ q'[RingIndex(head', mq_count, mcap')] = m
<1>1. /\ q' = [q EXCEPT ![tail] = m]
      /\ tail' = NextIndex(tail)
      /\ head' = head
      /\ mcap' = mcap
  BY DEF mq_push
<1>2. MqTypeOK' /\ mq_count' = mq_count + 1
  BY <1>1 DEF MqTypeOK, NextIndex, mq_count
<1>3. ASSUME NEW i \in 0 .. mq_count - 1
      PROVE  q'[RingIndex(head', i, mcap')] = q[RingIndex(head, i, mcap)]
  <2>2. RingIndex(head, i, mcap) = IF head + i < mcap THEN head + i ELSE head + i - mcap
    BY CountBounds, Wrap DEF MqTypeOK
  <2>3. RingIndex(head, i, mcap) # tail /\ RingIndex(head, i, mcap) \in 0 .. mcap - 1
    BY <2>2, CountBounds DEF MqTypeOK, mq_count
  <2> QED BY <1>1, <2>3 DEF MqTypeOK
<1>4. q'[RingIndex(head', mq_count, mcap')] = m
  BY <1>1, CountBounds DEF MqTypeOK
<1> QED BY <1>2, <1>3, <1>4

(* A push that fills the ring: after mq_expand the messages lie in order  *)
(* from slot 0.                                                           *)
LEMMA PushExpands ==
    ASSUME MqTypeOK, NEW m \in Msg, mq_push(m), head = NextIndex(tail)
    PROVE  /\ MqTypeOK'
           /\ mq_count' = mq_count + 1
           /\ \A i \in 0 .. mq_count - 1 :
                 q'[RingIndex(head', i, mcap')] = q[RingIndex(head, i, mcap)]
           /\ q'[RingIndex(head', mq_count, mcap')] = m
<1> DEFINE stored == [q EXCEPT ![tail] = m]
<1>1. /\ q' = [i \in 0 .. 2 * mcap - 1 |->
                  IF i < mcap THEN stored[RingIndex(head, i, mcap)] ELSE NoMsg]
      /\ head' = 0
      /\ tail' = mcap
      /\ mcap' = 2 * mcap
  BY DEF mq_push, mq_expand
<1>2. mq_count = mcap - 1 /\ mq_count' = mcap
  BY <1>1 DEF MqTypeOK, NextIndex, mq_count
<1>3. ASSUME NEW i \in 0 .. mcap - 1
      PROVE  /\ RingIndex(head, i, mcap) = IF head + i < mcap THEN head + i ELSE head + i - mcap
             /\ RingIndex(head, i, mcap) \in 0 .. mcap - 1
             /\ RingIndex(head', i, mcap') = i
  <2>1. RingIndex(head, i, mcap) = IF head + i < mcap THEN head + i ELSE head + i - mcap
    BY Wrap DEF MqTypeOK
  <2>2. RingIndex(0, i, 2 * mcap) = i
    <3>1. PICK c \in Nat \ {0} : c = 2 * mcap
      BY DEF MqTypeOK
    <3>2. 0 \in 0 .. c - 1 /\ i \in 0 .. c /\ 0 + i < c /\ 0 + i = i
      BY <3>1 DEF MqTypeOK
    <3> QED BY <3>1, <3>2, Wrap
  <2> QED BY <2>1, <2>2, <1>1 DEF MqTypeOK
<1>4. MqTypeOK'
  <2>1. \A i \in 0 .. mcap - 1 : stored[RingIndex(head, i, mcap)] \in Msg \cup {NoMsg}
    BY <1>3 DEF MqTypeOK
  <2> QED BY <1>1, <2>1 DEF MqTypeOK
<1>5. ASSUME NEW i \in 0 .. mq_count - 1
      PROVE  q'[RingIndex(head', i, mcap')] = q[RingIndex(head, i, mcap)]
  <2>1. i \in 0 .. mcap - 1 /\ i \in 0 .. 2 * mcap - 1 /\ i < mcap
    BY <1>2 DEF MqTypeOK
  <2>2. RingIndex(head, i, mcap) = IF head + i < mcap THEN head + i ELSE head + i - mcap
    BY <1>3, <2>1
  <2>3. i < mcap - 1
    BY <1>2 DEF MqTypeOK
  <2>4. RingIndex(head, i, mcap) # tail
    BY <2>1, <2>2, <2>3 DEF MqTypeOK, NextIndex
  <2> QED BY <1>1, <1>3, <2>1, <2>4 DEF MqTypeOK
<1>6. q'[RingIndex(head', mq_count, mcap')] = m
  <2>1. mq_count \in 0 .. mcap - 1 /\ mq_count \in 0 .. 2 * mcap - 1 /\ mq_count < mcap
    BY <1>2 DEF MqTypeOK
  <2>2. RingIndex(head, mq_count, mcap) = tail
    BY CountBounds
  <2> QED BY <1>1, <1>3, <2>1, <2>2 DEF MqTypeOK
<1>7. mq_count' = mq_count + 1
  BY <1>2 DEF MqTypeOK
<1> QED BY <1>4, <1>5, <1>6, <1>7

(* A pop takes the first message and shifts the rest.                     *)
LEMMA PopShifts ==
    ASSUME MqTypeOK, mq_pop
    PROVE  /\ MqTypeOK'
           /\ mq_count > 0
           /\ mq_count' = mq_count - 1
           /\ mq_front = q[RingIndex(head, 0, mcap)]
           /\ \A i \in 0 .. mq_count' - 1 :
                 q'[RingIndex(head', i, mcap')] = q[RingIndex(head, i + 1, mcap)]
<1>1. head' = NextIndex(head) /\ tail' = tail /\ mcap' = mcap /\ q' = q /\ head # tail
  BY DEF mq_pop
<1>2. MqTypeOK' /\ mq_count > 0 /\ mq_count' = mq_count - 1
  BY <1>1 DEF MqTypeOK, NextIndex, mq_count
<1>3. RingIndex(head, 0, mcap) = head
  BY Wrap DEF MqTypeOK
<1>4. ASSUME NEW i \in 0 .. mq_count' - 1
      PROVE  RingIndex(head', i, mcap) = RingIndex(head, i + 1, mcap)
  <2>1. /\ mcap \in Nat \ {0}
        /\ head \in 0 .. mcap - 1
        /\ head' \in 0 .. mcap - 1
        /\ i \in 0 .. mcap
        /\ i + 1 \in 0 .. mcap
    BY <1>1, <1>2, CountBounds DEF MqTypeOK
  <2>2. RingIndex(head', i, mcap) = IF head' + i < mcap THEN head' + i ELSE head' + i - mcap
    BY <2>1, Wrap
  <2>3. RingIndex(head, i + 1, mcap)
           = IF head + (i + 1) < mcap THEN head + (i + 1) ELSE head + (i + 1) - mcap
    BY <2>1, Wrap
  <2> QED BY <1>1, <2>1, <2>2, <2>3 DEF NextIndex
<1> QED BY <1>1, <1>2, <1>3, <1>4 DEF mq_front, MqTypeOK


(* The messages of the ring form a sequence of mq_count messages.         *)
RingIsSeq ==
    /\ MqSeq \in Seq(Msg)
    /\ Len(MqSeq) = mq_count
    /\ \A i \in 1 .. mq_count : MqSeq[i] = q[RingIndex(head, i - 1, mcap)]

(* Whenever the ring has no hole, its messages are a sequence.            *)
LEMMA MqSeqIsSeq == MqInv => RingIsSeq
<1> SUFFICES ASSUME MqInv PROVE RingIsSeq
  OBVIOUS
<1>1. mq_count \in Nat
  BY CountBounds DEF MqInv, MqTypeOK
<1>2. ASSUME NEW i \in 1 .. mq_count
      PROVE  q[RingIndex(head, i - 1, mcap)] \in Msg
  <2>1. i - 1 \in 0 .. mq_count - 1
    BY <1>1
  <2> QED BY <2>1 DEF MqInv, NoHoles
<1>3. MqSeq \in [1 .. mq_count -> Msg]
  BY <1>2 DEF MqSeq
<1> QED BY <1>1, <1>3 DEF MqSeq, RingIsSeq

(* The same of the next state.                                            *)
LEMMA MqSeqIsSeqNext == MqInv' => RingIsSeq'
BY MqSeqIsSeq, PTL

(* mq_push appends its message: the ring keeps every message it holds, in *)
(* order, also when mq_expand moves them to a ring twice the size.        *)
LEMMA PushAppends ==
    ASSUME MqInv, NEW m \in Msg, mq_push(m)
    PROVE  MqInv' /\ mq_count' = mq_count + 1 /\ MqSeq' = Append(MqSeq, m)
<1>1. /\ MqTypeOK'
      /\ mq_count' = mq_count + 1
      /\ \A i \in 0 .. mq_count - 1 :
            q'[RingIndex(head', i, mcap')] = q[RingIndex(head, i, mcap)]
      /\ q'[RingIndex(head', mq_count, mcap')] = m
  BY PushInRoom, PushExpands DEF MqInv
<1>2. mq_count \in Nat
  BY CountBounds DEF MqInv, MqTypeOK
<1>3. NoHoles'
  BY <1>1, <1>2 DEF MqInv, NoHoles
<1>4. MqInv'
  BY <1>1, <1>3 DEF MqInv
<1>5. /\ MqSeq' \in Seq(Msg)
      /\ Len(MqSeq') = mq_count + 1
      /\ \A i \in 1 .. mq_count + 1 : MqSeq'[i] = q'[RingIndex(head', i - 1, mcap')]
  BY <1>1, <1>4, MqSeqIsSeqNext DEF RingIsSeq
<1>6. /\ MqSeq \in Seq(Msg)
      /\ Len(MqSeq) = mq_count
      /\ \A i \in 1 .. mq_count : MqSeq[i] = q[RingIndex(head, i - 1, mcap)]
  BY MqSeqIsSeq DEF RingIsSeq
<1>7. ASSUME NEW i \in 1 .. mq_count + 1
      PROVE  MqSeq'[i] = Append(MqSeq, m)[i]
  <2>1. CASE i = mq_count + 1
    BY <1>1, <1>2, <1>5, <1>6, <2>1, AppendProperties
  <2>2. CASE i \in 1 .. mq_count
    <3>1. i - 1 \in 0 .. mq_count - 1
      BY <1>2, <2>2
    <3>2. MqSeq'[i] = MqSeq[i]
      BY <1>1, <1>5, <1>6, <2>2, <3>1
    <3> QED BY <1>6, <2>2, <3>2, AppendProperties
  <2>3. i = mq_count + 1 \/ i \in 1 .. mq_count
    BY <1>2
  <2> QED BY <2>1, <2>2, <2>3
<1>8. MqSeq' = Append(MqSeq, m)
  <2>1. Append(MqSeq, m) \in Seq(Msg) /\ Len(Append(MqSeq, m)) = mq_count + 1
    BY <1>6, AppendProperties
  <2> QED BY <1>5, <1>7, <2>1, SeqEqual
<1> QED BY <1>1, <1>4, <1>8

(* mq_pop takes the oldest message and keeps the others in order.         *)
LEMMA PopTakesHead ==
    ASSUME MqInv, mq_pop
    PROVE  /\ MqInv'
           /\ mq_count' = mq_count - 1
           /\ MqSeq # <<>>
           /\ mq_front = Head(MqSeq)
           /\ MqSeq' = Tail(MqSeq)
<1>1. /\ MqTypeOK'
      /\ mq_count > 0
      /\ mq_count' = mq_count - 1
      /\ mq_front = q[RingIndex(head, 0, mcap)]
      /\ \A i \in 0 .. mq_count' - 1 :
            q'[RingIndex(head', i, mcap')] = q[RingIndex(head, i + 1, mcap)]
  BY PopShifts DEF MqInv
<1>2. mq_count \in Nat
  BY CountBounds DEF MqInv, MqTypeOK
<1>3. NoHoles'
  BY <1>1, <1>2 DEF MqInv, NoHoles
<1>4. MqInv'
  BY <1>1, <1>3 DEF MqInv
<1>5. /\ MqSeq' \in Seq(Msg)
      /\ Len(MqSeq') = mq_count - 1
      /\ \A i \in 1 .. mq_count - 1 : MqSeq'[i] = q'[RingIndex(head', i - 1, mcap')]
  BY <1>1, <1>4, MqSeqIsSeqNext DEF RingIsSeq
<1>6. /\ MqSeq \in Seq(Msg)
      /\ Len(MqSeq) = mq_count
      /\ \A i \in 1 .. mq_count : MqSeq[i] = q[RingIndex(head, i - 1, mcap)]
  BY MqSeqIsSeq DEF RingIsSeq
<1>7. MqSeq # <<>>
  BY <1>1, <1>6
<1>8. mq_front = Head(MqSeq)
  BY <1>1, <1>2, <1>6, <1>7
<1>9. ASSUME NEW i \in 1 .. mq_count - 1
      PROVE  MqSeq'[i] = Tail(MqSeq)[i]
  <2>1. i - 1 \in 0 .. mq_count' - 1 /\ i + 1 \in 1 .. mq_count /\ (i - 1) + 1 = i /\ (i + 1) - 1 = i
    BY <1>1, <1>2
  <2>2. MqSeq'[i] = MqSeq[i + 1]
    BY <1>1, <1>5, <1>6, <2>1
  <2> QED BY <1>2, <1>6, <1>7, <2>2, HeadTailProperties
<1>10. MqSeq' = Tail(MqSeq)
  <2>1. Tail(MqSeq) \in Seq(Msg) /\ Len(Tail(MqSeq)) = mq_count - 1
    BY <1>6, <1>7, HeadTailProperties
  <2> QED BY <1>5, <1>9, <2>1, SeqEqual
<1> QED BY <1>1, <1>4, <1>7, <1>8, <1>10
-----------------------------------------------------------------------------
(* The inductive invariant: the indices stay in the ring and there is no   *)
(* hole among the messages.                                                *)
RingInv == QueueTypeOK /\ NoHoles

(* mq_create makes a ring without messages.                                *)
LEMMA InitRingInv == QueueInit => RingInv
<1> SUFFICES ASSUME QueueInit PROVE RingInv
  OBVIOUS
<1>1. PICK n \in Nat \ {0} : mq_create(n)
  BY QueueAssumption DEF QueueInit
<1>2. QueueTypeOK
  BY <1>1 DEF QueueInit, mq_create, QueueTypeOK, MqTypeOK
<1>3. mq_count = 0
  BY <1>1 DEF mq_create, mq_count
<1> QED BY <1>2, <1>3 DEF RingInv, NoHoles

(* Every step keeps the invariant and is a step of the FIFO queue.         *)
LEMMA StepRingInv ==
    ASSUME RingInv, [QueueNext]_queue_vars
    PROVE  RingInv' /\ [AbstractFifo!Next]_<<MqSeq, out>>
<1>1. MqInv
  BY DEF RingInv, QueueTypeOK, MqInv
<1>2. ASSUME NEW m \in Msg, Push(m)
      PROVE  RingInv' /\ AbstractFifo!Put(m)
  BY <1>1, <1>2, PushAppends DEF Push, RingInv, QueueTypeOK, MqInv, AbstractFifo!Put
<1>3. CASE Pop
  <2>1. MqInv' /\ MqSeq # <<>> /\ out' = Head(MqSeq) /\ MqSeq' = Tail(MqSeq)
    BY <1>1, <1>3, PopTakesHead DEF Pop
  <2>2. out' \in Msg
    BY <1>1, <2>1, MqSeqIsSeq, HeadTailProperties DEF RingIsSeq
  <2> QED BY <2>1, <2>2 DEF RingInv, QueueTypeOK, MqInv, AbstractFifo!Next, AbstractFifo!Get
<1>4. CASE PopFails
  <2>1. UNCHANGED mq_vars /\ head = tail /\ out' = NoMsg
    BY <1>4 DEF PopFails, mq_pop_fails
  <2>2. RingInv' /\ MqSeq' = MqSeq
    BY <2>1 DEF RingInv, QueueTypeOK, MqTypeOK, NoHoles, mq_vars, mq_count, MqSeq
  <2>3. MqSeq = <<>>
    BY <1>1, <2>1, CountBounds, MqSeqIsSeq DEF MqInv, RingIsSeq
  <2> QED BY <2>1, <2>2, <2>3 DEF AbstractFifo!Next, AbstractFifo!GetFails
<1>5. CASE UNCHANGED queue_vars
  BY <1>5 DEF queue_vars, RingInv, QueueTypeOK, MqTypeOK, NoHoles, mq_count, MqSeq
<1> QED BY <1>2, <1>3, <1>4, <1>5 DEF QueueNext, AbstractFifo!Next

(* Head and tail stay inside the ring and no message is lost in a hole,    *)
(* through every wrap-around and expansion.                                *)
THEOREM RingInvariant == QueueSpec => [](QueueTypeOK /\ NoHoles)
<1>1. QueueInit => RingInv
  BY InitRingInv
<1>2. RingInv /\ [QueueNext]_queue_vars => RingInv'
  BY StepRingInv
<1> QED BY <1>1, <1>2, PTL DEF QueueSpec, RingInv

(* The ring is a FIFO queue.                                               *)
THEOREM RingImplementsFifo == QueueSpec => ImplementsFifo
<1>1. QueueInit => AbstractFifo!Init
  <2> SUFFICES ASSUME QueueInit PROVE AbstractFifo!Init
    OBVIOUS
  <2>1. PICK n \in Nat \ {0} : mq_create(n)
    BY QueueAssumption DEF QueueInit
  <2>2. mq_count = 0
    BY <2>1 DEF mq_create, mq_count
  <2>3. MqSeq = <<>>
    BY <2>2 DEF MqSeq
  <2> QED BY <2>3 DEF QueueInit, AbstractFifo!Init
<1>2. RingInv /\ [QueueNext]_queue_vars => [AbstractFifo!Next]_<<MqSeq, out>>
  BY StepRingInv
<1>3. QueueSpec => []RingInv
  BY RingInvariant, PTL DEF RingInv
<1> QED BY <1>1, <1>2, <1>3, PTL DEF QueueSpec, ImplementsFifo, AbstractFifo!Spec
=============================================================================
