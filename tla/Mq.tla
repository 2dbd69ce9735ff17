--------------------------------- MODULE Mq ---------------------------------
(***************************************************************************)
(* The ring queue of base/mq.c: `head' is the next slot to read, `tail'    *)
(* the next slot to write, and head = tail means empty, so a ring of mcap  *)
(* slots holds at most mcap - 1 messages.  A push that fills the last slot *)
(* doubles the ring at once.                                               *)
(*                                                                         *)
(* Each operation runs under the queue's own mutex (LOCK/UNLOCK, built     *)
(* with -DMQ_THREAD_SAFE), so each is one action.  The operators act on    *)
(* the variables of whoever owns the queue: MqQueue drives them directly,  *)
(* Chan drives them under the channel's lock.                              *)
(***************************************************************************)
EXTENDS Integers, Sequences

CONSTANTS Msg,    \* the messages (struct msg, copied by value)
          NoMsg   \* a zeroed slot

VARIABLES head, tail, mcap,   \* struct mq: head, tail, cap
          q                   \* struct mq: q[0 .. cap-1]

mq_vars == <<head, tail, mcap, q>>

mq_create(n) ==
    /\ head = 0
    /\ tail = 0
    /\ mcap = n
    /\ q = [i \in 0 .. n - 1 |-> NoMsg]

mq_count == IF head <= tail THEN tail - head ELSE tail + mcap - head

\* The index after i: the code increments and resets to 0 at the end.
NextIndex(i) == IF i + 1 >= mcap THEN 0 ELSE i + 1

\* The slot of the i-th message from slot h on in a ring of c slots.
RingIndex(h, i, c) == (h + i) % c

\* mq_expand if it copied the slots where they lie.
MutantExpandInPlace(slots) ==
    /\ q' = [i \in 0 .. 2 * mcap - 1 |-> IF i < mcap THEN slots[i] ELSE NoMsg]
    /\ head' = 0
    /\ tail' = mcap
    /\ mcap' = 2 * mcap

\* mq_expand with the tail one slot too far.
MutantExpandTail(slots) ==
    /\ q' = [i \in 0 .. 2 * mcap - 1 |->
                IF i < mcap THEN slots[RingIndex(head, i, mcap)] ELSE NoMsg]
    /\ head' = 0
    /\ tail' = mcap + 1
    /\ mcap' = 2 * mcap

\* The slots hold the new message already; they are copied in order from head.
mq_expand(slots) ==
    /\ q' = [i \in 0 .. 2 * mcap - 1 |->
                IF i < mcap THEN slots[RingIndex(head, i, mcap)] ELSE NoMsg]
    /\ head' = 0
    /\ tail' = mcap
    /\ mcap' = 2 * mcap

mq_push(m) ==
    LET stored == [q EXCEPT ![tail] = m]
        next   == NextIndex(tail)
    IN  \/ /\ head # next
           /\ q' = stored
           /\ tail' = next
           /\ UNCHANGED <<head, mcap>>
        \/ /\ head = next
           /\ mq_expand(stored)

\* The message mq_pop copies out: q[head], when it returns true.
mq_front == q[head]

\* mq_pop if it left the message where it is.
MutantPopKeepsMessage == head # tail /\ UNCHANGED mq_vars

\* mq_pop returning true.
mq_pop ==
    /\ head # tail
    /\ head' = NextIndex(head)
    /\ UNCHANGED <<tail, mcap, q>>

\* mq_pop returning false.
mq_pop_fails ==
    /\ head = tail
    /\ UNCHANGED mq_vars

\* The messages in the ring, oldest first.
MqSeq == [i \in 1 .. mq_count |-> q[RingIndex(head, i - 1, mcap)]]

MqTypeOK ==
    /\ mcap \in Nat \ {0}
    /\ head \in 0 .. mcap - 1
    /\ tail \in 0 .. mcap - 1
    /\ q \in [0 .. mcap - 1 -> Msg \cup {NoMsg}]

(* No slot between head and tail is one that was never written: expansion  *)
(* (mq_expand) and the two wrap-arounds leave no hole among the messages.  *)
NoHoles == \A i \in 0 .. mq_count - 1 : q[RingIndex(head, i, mcap)] \in Msg

MqInv == MqTypeOK /\ NoHoles
=============================================================================
