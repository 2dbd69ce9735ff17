------------------------------ MODULE TaskPool ------------------------------
(***************************************************************************)
(* What a thread pool promises about its tasks: they start in the order in *)
(* which they were submitted, each at most once, and a cancelled task      *)
(* leaves the line without disturbing the others.                          *)
(***************************************************************************)
EXTENDS Naturals, Sequences

CONSTANT Tasks

VARIABLES pending,    \* the tasks submitted and not yet started, in order
          started     \* the tasks a thread has taken

Init == pending = <<>> /\ started = {}

InLine == {pending[i] : i \in 1 .. Len(pending)}

Submit(t) == /\ t \notin started \cup InLine
             /\ pending' = Append(pending, t)
             /\ UNCHANGED started

Start == /\ pending # <<>>
         /\ pending' = Tail(pending)
         /\ started' = started \cup {Head(pending)}

Cancel(t) == /\ \E i \in 1 .. Len(pending) :
                    /\ pending[i] = t
                    /\ pending' = [j \in 1 .. Len(pending) - 1 |->
                                     IF j < i THEN pending[j] ELSE pending[j + 1]]
             /\ UNCHANGED started

Next == Start \/ \E t \in Tasks : Submit(t) \/ Cancel(t)

Spec == Init /\ [][Next]_<<pending, started>>
=============================================================================
