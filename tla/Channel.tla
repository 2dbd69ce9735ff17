------------------------------ MODULE Channel -------------------------------
(***************************************************************************)
(* What a channel (base/chan.h) promises its threads: a FIFO queue that    *)
(* holds at most `capacity' messages (any number when capacity is 0), from *)
(* which every message sent is received once.                              *)
(***************************************************************************)
EXTENDS Naturals, Sequences

CONSTANTS Msg, NoMsg, Receivers

VARIABLES capacity,
          queue,
          got         \* the last message each receiver was handed

Init == /\ capacity \in Nat
        /\ queue = <<>>
        /\ got = [r \in Receivers |-> NoMsg]

Send(m) == /\ capacity > 0 => Len(queue) < capacity
           /\ queue' = Append(queue, m)
           /\ UNCHANGED <<capacity, got>>

Recv(r) == /\ queue # <<>>
           /\ got' = [got EXCEPT ![r] = Head(queue)]
           /\ queue' = Tail(queue)
           /\ UNCHANGED capacity

Next == \/ \E m \in Msg : Send(m)
        \/ \E r \in Receivers : Recv(r)

Spec == Init /\ [][Next]_<<capacity, queue, got>>
=============================================================================
