-------------------------------- MODULE Cond --------------------------------
(***************************************************************************)
(* base/cond.c: a condition variable tied to a mtxlock, on top of          *)
(* pthread_cond_t.  A thread in cond_wait that is still in `waiters' is    *)
(* asleep; one that has left it has been woken and competes for the mutex. *)
(***************************************************************************)
EXTENDS MtxLock

VARIABLE waiters      \* the threads asleep in pthread_cond_wait

cond_create == waiters = {}

\* The first half of cond_wait: sleep and let the mutex go, in one step.
cond_wait(t) ==
    /\ wait_unlock(t)
    /\ waiters' = waiters \cup {t}

\* The second half: a thread that was woken has the mutex again.
cond_wait_returns(t) ==
    /\ t \notin waiters
    /\ wait_relock(t)
    /\ UNCHANGED waiters

cond_signal ==
    \/ waiters = {} /\ UNCHANGED waiters
    \/ \E t \in waiters : waiters' = waiters \ {t}

\* POSIX lets pthread_cond_wait return without a signal.
spurious_wakeup(t) ==
    /\ t \in waiters
    /\ waiters' = waiters \ {t}
=============================================================================
