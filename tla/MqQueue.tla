------------------------------ MODULE MqQueue -------------------------------
(***************************************************************************)
(* The queue of base/mq.c on its own, used by any number of threads: every *)
(* operation is one step (see Mq).  Shown to implement Fifo.               *)
(***************************************************************************)
EXTENDS Mq

CONSTANTS InitCaps,   \* the capacities mq_create is called with
          MaxCount    \* bound: messages in the queue at once

ASSUME QueueAssumption ==
    /\ InitCaps \subseteq Nat \ {0}
    /\ MaxCount \in Nat
    /\ NoMsg \notin Msg

VARIABLE out          \* what the last mq_pop returned: a message, or NoMsg for false

queue_vars == <<head, tail, mcap, q, out>>

QueueInit == /\ \E n \in InitCaps : mq_create(n)
             /\ out = NoMsg

Push(m) == /\ mq_count < MaxCount
           /\ mq_push(m)
           /\ UNCHANGED out

Pop == /\ mq_pop
       /\ out' = mq_front

PopFails == /\ mq_pop_fails
            /\ out' = NoMsg

QueueNext == (\E m \in Msg : Push(m)) \/ Pop \/ PopFails

QueueSpec == QueueInit /\ [][QueueNext]_queue_vars
-----------------------------------------------------------------------------
\* Head and tail stay inside the ring, and the ring holds messages.
QueueTypeOK == MqTypeOK /\ out \in Msg \cup {NoMsg}

AbstractFifo == INSTANCE Fifo WITH queue <- MqSeq

(* The ring is a FIFO queue: whatever the interleaving of pushes, pops,    *)
(* wrap-arounds and expansions, mq_pop returns the oldest message pushed   *)
(* and not yet popped, and false exactly when there is none.               *)
ImplementsFifo == AbstractFifo!Spec
=============================================================================
