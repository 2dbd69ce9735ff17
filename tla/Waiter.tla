------------------------------- MODULE Waiter -------------------------------
(***************************************************************************)
(* base/waiter.c: a one-shot event.  waiter_wait blocks until someone has  *)
(* called waiter_signal; the flag stays set.  One step takes the lock and  *)
(* runs the body up to cond_wait or to mtl_unlock, which is a step of its  *)
(* own.  The lock is a mtxlock (see MtxLock): cond_wait hides from its     *)
(* owner field.                                                            *)
(***************************************************************************)
EXTENDS NoThread

VARIABLES w_mtx,       \* waiter->lock: the holder of the mutex
          w_owner,     \* waiter->lock: its note of the thread that locked it
          w_asleep,    \* waiter->cond: the threads asleep
          w_signaled,  \* waiter->signaled
          w_at,        \* each thread: "out", "waiting" or "leaving"
          w_freed      \* waiter_release has run

waiter_vars == <<w_mtx, w_owner, w_asleep, w_signaled, w_at, w_freed>>

waiter_create(Threads) ==
    /\ w_mtx = NULL /\ w_owner = NULL
    /\ w_asleep = {}
    /\ w_signaled = FALSE
    /\ w_at = [t \in Threads |-> "out"]
    /\ w_freed = FALSE

\* while (!signaled) cond_wait: pass with the lock held, or sleep without it.
w_test(t) ==
    \/ /\ w_signaled
       /\ w_mtx' = t
       /\ w_at' = [w_at EXCEPT ![t] = "leaving"]
       /\ UNCHANGED w_asleep
    \/ /\ ~w_signaled
       /\ w_asleep' = w_asleep \cup {t}
       /\ w_at' = [w_at EXCEPT ![t] = "waiting"]
       /\ UNCHANGED w_mtx

waiter_wait(t) ==
    /\ w_at[t] = "out" /\ w_mtx = NULL
    /\ w_owner' = t
    /\ w_test(t)
    /\ UNCHANGED <<w_signaled, w_freed>>

\* cond_wait returns with the mutex and without touching the owner.
waiter_wakes(t) ==
    /\ w_at[t] = "waiting" /\ t \notin w_asleep /\ w_mtx = NULL
    /\ w_test(t)
    /\ UNCHANGED <<w_owner, w_signaled, w_freed>>

\* waiter_signal with cond_signal for cond_broadcast.
MutantWakesOne(t) ==
    /\ w_at[t] = "out" /\ w_mtx = NULL
    /\ w_mtx' = t /\ w_owner' = t
    /\ w_signaled' = TRUE
    /\ \/ w_asleep = {} /\ UNCHANGED w_asleep
       \/ \E s \in w_asleep : w_asleep' = w_asleep \ {s}
    /\ w_at' = [w_at EXCEPT ![t] = "leaving"]
    /\ UNCHANGED w_freed

waiter_signal(t) ==
    /\ w_at[t] = "out" /\ w_mtx = NULL
    /\ w_mtx' = t /\ w_owner' = t
    /\ w_signaled' = TRUE
    /\ w_asleep' = {}
    /\ w_at' = [w_at EXCEPT ![t] = "leaving"]
    /\ UNCHANGED w_freed

\* mtl_unlock, the end of both calls.
waiter_unlock(t) ==
    /\ w_at[t] = "leaving"
    /\ w_mtx' = NULL /\ w_owner' = NULL
    /\ w_at' = [w_at EXCEPT ![t] = "out"]
    /\ UNCHANGED <<w_asleep, w_signaled, w_freed>>

waiter_spurious(t) ==
    /\ t \in w_asleep
    /\ w_asleep' = w_asleep \ {t}
    /\ UNCHANGED <<w_mtx, w_owner, w_signaled, w_at, w_freed>>

waiter_release ==
    /\ w_freed' = TRUE
    /\ UNCHANGED <<w_mtx, w_owner, w_asleep, w_signaled, w_at>>
=============================================================================
