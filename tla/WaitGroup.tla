----------------------------- MODULE WaitGroup ------------------------------
(***************************************************************************)
(* base/waitgroup.c: wg_wait blocks until wg_done has been called as often *)
(* as wg_create was told.  The steps are those of Waiter: lock and body,   *)
(* then unlock.                                                            *)
(***************************************************************************)
EXTENDS NoThread, Integers

VARIABLES g_mtx,       \* waitgroup->mtx: the holder
          g_asleep,    \* waitgroup->cond: the threads asleep
          g_count,     \* waitgroup->count
          g_at,        \* each thread: "out", "waiting" or "leaving"
          g_freed      \* wg_release has run

wg_vars == <<g_mtx, g_asleep, g_count, g_at, g_freed>>

wg_create(Threads, n) ==
    /\ g_mtx = NULL
    /\ g_asleep = {}
    /\ g_count = n
    /\ g_at = [t \in Threads |-> "out"]
    /\ g_freed = FALSE

wg_done(t) ==
    /\ g_at[t] = "out" /\ g_mtx = NULL
    /\ g_mtx' = t
    /\ g_count' = g_count - 1
    /\ g_asleep' = IF g_count' = 0 THEN {} ELSE g_asleep
    /\ g_at' = [g_at EXCEPT ![t] = "leaving"]
    /\ UNCHANGED g_freed

\* wg_test as an `if' instead of a `while': whoever was woken goes on.
MutantTestsOnce(t) ==
    /\ \/ /\ g_count <= 0 \/ g_at[t] = "waiting"
          /\ g_mtx' = t
          /\ g_at' = [g_at EXCEPT ![t] = "leaving"]
          /\ UNCHANGED g_asleep
       \/ /\ g_count > 0 /\ g_at[t] = "out"
          /\ g_asleep' = g_asleep \cup {t}
          /\ g_at' = [g_at EXCEPT ![t] = "waiting"]
          /\ UNCHANGED g_mtx
    /\ UNCHANGED <<g_count, g_freed>>

\* while (count > 0) pthread_cond_wait.
wg_test(t) ==
    /\ \/ /\ g_count <= 0
          /\ g_mtx' = t
          /\ g_at' = [g_at EXCEPT ![t] = "leaving"]
          /\ UNCHANGED g_asleep
       \/ /\ g_count > 0
          /\ g_asleep' = g_asleep \cup {t}
          /\ g_at' = [g_at EXCEPT ![t] = "waiting"]
          /\ UNCHANGED g_mtx
    /\ UNCHANGED <<g_count, g_freed>>

wg_wait(t) == g_at[t] = "out" /\ g_mtx = NULL /\ wg_test(t)

wg_wakes(t) == g_at[t] = "waiting" /\ t \notin g_asleep /\ g_mtx = NULL /\ wg_test(t)

wg_unlock(t) ==
    /\ g_at[t] = "leaving"
    /\ g_mtx' = NULL
    /\ g_at' = [g_at EXCEPT ![t] = "out"]
    /\ UNCHANGED <<g_asleep, g_count, g_freed>>

wg_spurious(t) ==
    /\ t \in g_asleep
    /\ g_asleep' = g_asleep \ {t}
    /\ UNCHANGED <<g_mtx, g_count, g_at, g_freed>>

wg_release ==
    /\ g_freed' = TRUE
    /\ UNCHANGED <<g_mtx, g_asleep, g_count, g_at>>
=============================================================================
