-------------------------------- MODULE Chan --------------------------------
(***************************************************************************)
(* The channel of base/chan.c: a ring queue, one mtxlock and two condition *)
(* variables, used by threads that call ch_send and ch_recv.               *)
(*                                                                         *)
(* A call has three kinds of step: taking the lock (from outside or when   *)
(* cond_wait returns), the body under the lock up to cond_wait or to the   *)
(* end, and mtl_unlock.  Everything the body touches is touched under the  *)
(* lock only, so nothing can be seen between its statements.               *)
(***************************************************************************)
EXTENDS Mq, FiniteSets

CONSTANTS NULL,         \* no thread
          Senders,      \* threads that call ch_send
          Receivers,    \* threads that call ch_recv
          Caps,         \* the capacities ch_create is called with
          NSend,        \* calls of ch_send each sender makes
          NRecv,        \* calls of ch_recv each receiver makes
          MaxSpurious   \* bound: spurious wakeups in a behaviour

Threads == Senders \cup Receivers

ASSUME ChanAssumption ==
    /\ Senders \cap Receivers = {}
    /\ NULL \notin Threads
    /\ NoMsg \notin Msg
    /\ IsFiniteSet(Senders) /\ IsFiniteSet(Receivers)
    /\ Caps \subseteq Nat
    /\ NSend \in Nat /\ NRecv \in Nat /\ MaxSpurious \in Nat

VARIABLES cap,          \* struct chan: cap (0: no limit)
          mtx, owner,   \* struct chan: lock (see MtxLock)
          rcv_cond,     \* struct chan: the threads asleep on rcv_cond
          snd_cond,     \* struct chan: the threads asleep on snd_cond
          pc,           \* where each thread is in its call
          calls,        \* the calls each thread still has to finish
          got,          \* the message each receiver's last ch_recv returned
          released,     \* ch_release has run
          spurious      \* spurious wakeups so far

vars == <<head, tail, mcap, q, cap, mtx, owner, rcv_cond, snd_cond,
          pc, calls, got, released, spurious>>

Lock == INSTANCE MtxLock
Rcv  == INSTANCE Cond WITH waiters <- rcv_cond
Snd  == INSTANCE Cond WITH waiters <- snd_cond

\* "out": between calls; "locked": holds the lock, about to test the queue;
\* "waiting": in cond_wait; "leaving": about to unlock.
Goto(t, l) == pc' = [pc EXCEPT ![t] = l]
-----------------------------------------------------------------------------
ch_create(c) ==
    /\ cap = c
    /\ Lock!mtl_create
    /\ Rcv!cond_create
    /\ Snd!cond_create
    /\ mq_create(c + 1)

Init ==
    /\ \E c \in Caps : ch_create(c)
    /\ pc = [t \in Threads |-> "out"]
    /\ calls = [t \in Threads |-> IF t \in Senders THEN NSend ELSE NRecv]
    /\ got = [r \in Receivers |-> NoMsg]
    /\ released = FALSE
    /\ spurious = 0

\* ch_send, ch_recv: mtl_lock.
Enter(t) ==
    /\ pc[t] = "out"
    /\ calls[t] > 0
    /\ Lock!mtl_lock(t)
    /\ Goto(t, "locked")
    /\ UNCHANGED <<mq_vars, cap, rcv_cond, snd_cond, calls, got, released, spurious>>

\* ch_send: the channel is full, cond_wait(snd_cond).
SendWaits(s) ==
    /\ pc[s] = "locked"
    /\ cap > 0 /\ mq_count >= cap
    /\ Snd!cond_wait(s)
    /\ Goto(s, "waiting")
    /\ UNCHANGED <<mq_vars, cap, rcv_cond, calls, got, released, spurious>>

\* SendPushes without cond_signal.
MutantNoSignal(s, m) ==
    /\ pc[s] = "locked" /\ mtx = s /\ (cap > 0 => mq_count < cap)
    /\ mq_push(m)
    /\ Goto(s, "leaving")
    /\ UNCHANGED <<cap, mtx, owner, rcv_cond, snd_cond, calls, got, released, spurious>>

\* ch_send: mq_push and cond_signal(rcv_cond).
SendPushes(s, m) ==
    /\ pc[s] = "locked"
    /\ mtx = s
    /\ cap > 0 => mq_count < cap
    /\ mq_push(m)
    /\ Rcv!cond_signal
    /\ Goto(s, "leaving")
    /\ UNCHANGED <<cap, mtx, owner, snd_cond, calls, got, released, spurious>>

\* ch_recv: the channel is empty, cond_wait(rcv_cond).
RecvWaits(r) ==
    /\ pc[r] = "locked"
    /\ mq_count = 0
    /\ Rcv!cond_wait(r)
    /\ Goto(r, "waiting")
    /\ UNCHANGED <<mq_vars, cap, snd_cond, calls, got, released, spurious>>

\* RecvPops if it signalled only when the channel was full.
MutantSignalsWhenFull(r) ==
    /\ pc[r] = "locked" /\ mtx = r /\ mq_count # 0
    /\ mq_pop
    /\ got' = [got EXCEPT ![r] = mq_front]
    /\ IF cap > 0 /\ mq_count = cap THEN Snd!cond_signal ELSE UNCHANGED snd_cond
    /\ Goto(r, "leaving")
    /\ UNCHANGED <<cap, mtx, owner, rcv_cond, calls, released, spurious>>

\* ch_recv: mq_pop and, when there is a limit, cond_signal(snd_cond).
RecvPops(r) ==
    /\ pc[r] = "locked"
    /\ mtx = r
    /\ mq_count # 0
    /\ mq_pop
    /\ got' = [got EXCEPT ![r] = mq_front]
    /\ IF cap > 0 THEN Snd!cond_signal ELSE UNCHANGED snd_cond
    /\ Goto(r, "leaving")
    /\ UNCHANGED <<cap, mtx, owner, rcv_cond, calls, released, spurious>>

\* cond_wait returns in ch_send, back to the test of the loop.
SendWakes(s) ==
    /\ pc[s] = "waiting"
    /\ Snd!cond_wait_returns(s)
    /\ Goto(s, "locked")
    /\ UNCHANGED <<mq_vars, cap, rcv_cond, calls, got, released, spurious>>

\* cond_wait returns in ch_recv, back to the test of the loop.
RecvWakes(r) ==
    /\ pc[r] = "waiting"
    /\ Rcv!cond_wait_returns(r)
    /\ Goto(r, "locked")
    /\ UNCHANGED <<mq_vars, cap, snd_cond, calls, got, released, spurious>>

\* ch_send, ch_recv: mtl_unlock and return.
Leave(t) ==
    /\ pc[t] = "leaving"
    /\ Lock!mtl_unlock(t)
    /\ calls' = [calls EXCEPT ![t] = @ - 1]
    /\ Goto(t, "out")
    /\ UNCHANGED <<mq_vars, cap, rcv_cond, snd_cond, got, released, spurious>>

Spurious(t) ==
    /\ spurious < MaxSpurious
    /\ spurious' = spurious + 1
    /\ \/ Snd!spurious_wakeup(t) /\ UNCHANGED rcv_cond
       \/ Rcv!spurious_wakeup(t) /\ UNCHANGED snd_cond
    /\ UNCHANGED <<mq_vars, cap, mtx, owner, pc, calls, got, released>>

\* Every thread has made its calls and has been joined.
Joined == \A t \in Threads : pc[t] = "out" /\ calls[t] = 0

ch_release ==
    /\ Joined
    /\ ~released
    /\ released' = TRUE
    /\ UNCHANGED <<mq_vars, cap, mtx, owner, rcv_cond, snd_cond, pc, calls, got, spurious>>

\* The channel is gone and so are the threads.
Finished == released /\ UNCHANGED vars

SendStep(s) == \/ Enter(s) \/ SendWaits(s) \/ SendWakes(s) \/ Leave(s)
               \/ \E m \in Msg : SendPushes(s, m)

RecvStep(r) == Enter(r) \/ RecvWaits(r) \/ RecvPops(r) \/ RecvWakes(r) \/ Leave(r)

Next == \/ \E s \in Senders : SendStep(s)
        \/ \E r \in Receivers : RecvStep(r)
        \/ \E t \in Threads : Spurious(t)
        \/ ch_release
        \/ Finished

Spec == Init /\ [][Next]_vars

(* A runnable thread is eventually run, and a mutex that stays free is     *)
(* eventually acquired; nothing makes spurious wakeups happen.             *)
Fairness == /\ \A s \in Senders : WF_vars(SendStep(s))
            /\ \A r \in Receivers : WF_vars(RecvStep(r))
            /\ WF_vars(ch_release)

FairSpec == Spec /\ Fairness
-----------------------------------------------------------------------------
Labels == {"out", "locked", "waiting", "leaving"}

\* The type invariant.
TypeOK ==
    /\ MqTypeOK
    /\ cap \in Nat
    /\ mtx \in Threads \cup {NULL}
    /\ owner \in Threads \cup {NULL}
    /\ rcv_cond \subseteq Receivers
    /\ snd_cond \subseteq Senders
    /\ pc \in [Threads -> Labels]
    /\ calls \in [Threads -> Nat]
    /\ got \in [Receivers -> Msg \cup {NoMsg}]
    /\ released \in BOOLEAN
    /\ spurious \in 0 .. MaxSpurious

(* A thread is inside a call's critical section exactly when it holds the  *)
(* mutex, and only a thread in cond_wait, in one of its calls, is asleep.  *)
LockDiscipline ==
    /\ \A t \in Threads : mtx = t <=> pc[t] \in {"locked", "leaving"}
    /\ \A t \in rcv_cond \cup snd_cond : pc[t] = "waiting"
    /\ \A t \in Threads : pc[t] # "out" => calls[t] > 0

(* The threads that will look at the queue again before they sleep: woken, *)
(* or at the test of their loop already.                                   *)
Alert(S, asleep) ==
    {t \in S : pc[t] = "locked" \/ (pc[t] = "waiting" /\ t \notin asleep)}

(* No lost wakeup in ch_recv: while a receiver sleeps, there are at least  *)
(* as many receivers awake for the queue as there are messages in it, so   *)
(* no message waits for a thread that nobody will wake.                    *)
NoReceiverForgotten ==
    rcv_cond # {} => mq_count <= Cardinality(Alert(Receivers, rcv_cond))

(* No lost wakeup in ch_send: while a sender sleeps, there are at least as *)
(* many senders awake as there are free places in the channel.             *)
NoSenderForgotten ==
    snd_cond # {} => cap - mq_count <= Cardinality(Alert(Senders, snd_cond))

(* One cond_signal per push and per pop is enough: nobody sleeps in        *)
(* ch_recv or ch_send past a message or a place that is there for it,      *)
(* whoever wins the mutex after a signal.                                  *)
NoLostWakeup == NoReceiverForgotten /\ NoSenderForgotten

(* A limited channel never holds more than its capacity, and the ring made *)
(* for it with one spare slot (ch_create) is never doubled by mq_expand.   *)
CapacityRespected == cap > 0 => mq_count <= cap /\ mcap = cap + 1

(* mtl_lockedbyself is never true of a thread that runs without the mutex, *)
(* although cond_wait lets the mutex go without clearing the owner; and    *)
(* once all threads have returned the assertion in mtl_release holds.      *)
OwnerHonest ==
    /\ \A t \in Threads : Lock!mtl_lockedbyself(t) => mtx = t \/ pc[t] = "waiting"
    /\ Joined => Lock!mtl_releasable

Abstract == INSTANCE Channel WITH capacity <- cap, queue <- MqSeq

(* The channel keeps its promise: a FIFO queue within its capacity, every  *)
(* message received once, by one receiver.                                 *)
ImplementsChannel == Abstract!Spec

(* As many calls of ch_recv as of ch_send: every call returns, whichever   *)
(* threads sleep, are woken spuriously or lose the race for the mutex.     *)
EveryCallReturns == <>released
=============================================================================
