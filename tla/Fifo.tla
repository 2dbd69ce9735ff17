-------------------------------- MODULE Fifo --------------------------------
(***************************************************************************)
(* What a message queue promises: an unbounded first-in first-out queue    *)
(* whose non-blocking Get hands out the oldest message, or reports that    *)
(* there is none.  Mq (base/mq.c) is shown to implement it.                *)
(***************************************************************************)
EXTENDS Sequences

CONSTANTS Msg,    \* the messages
          NoMsg   \* what Get leaves behind when the queue is empty

VARIABLES queue,  \* the messages put and not yet taken, oldest first
          out     \* the result of the last Get

Init == /\ queue = <<>>
        /\ out = NoMsg

Put(m) == /\ queue' = Append(queue, m)
          /\ UNCHANGED out

Get == /\ queue # <<>>
       /\ out' = Head(queue)
       /\ queue' = Tail(queue)

GetFails == /\ queue = <<>>
            /\ out' = NoMsg
            /\ UNCHANGED queue

Next == (\E m \in Msg : Put(m)) \/ Get \/ GetFails

Spec == Init /\ [][Next]_<<queue, out>>
=============================================================================
