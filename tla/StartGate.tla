----------------------------- MODULE StartGate ------------------------------
(***************************************************************************)
(* The one-shot waiter and the wait group used together, the way their     *)
(* headers and tests use them: the workers hold at the waiter until the    *)
(* main thread has opened it, work, and report to the wait group; the main *)
(* thread waits for all of them and releases both objects at once, without *)
(* joining the workers first (waitgroup_test.c does the same).             *)
(***************************************************************************)
EXTENDS Waiter, WaitGroup, FiniteSets

CONSTANTS Workers, main,
          MaxSpurious   \* bound: spurious wakeups in a behaviour

Threads == Workers \cup {main}

ASSUME GateAssumption ==
    /\ main \notin Workers
    /\ NULL \notin Threads
    /\ IsFiniteSet(Workers)
    /\ MaxSpurious \in Nat

VARIABLES next,         \* the call each thread makes next, or is in
          spurious

vars == <<waiter_vars, wg_vars, next, spurious>>

Init ==
    /\ waiter_create(Threads)
    /\ wg_create(Threads, Cardinality(Workers))
    /\ next = [t \in Threads |-> IF t = main THEN "waiter_signal" ELSE "waiter_wait"]
    /\ spurious = 0

Goes(t, call) == next' = [next EXCEPT ![t] = call]

\* A worker: waiter_wait, then wg_done, then gone.
WorkerStep(t) ==
    /\ \/ /\ next[t] = "waiter_wait"
          /\ \/ (waiter_wait(t) \/ waiter_wakes(t)) /\ UNCHANGED next
             \/ waiter_unlock(t) /\ Goes(t, "wg_done")
          /\ UNCHANGED wg_vars
       \/ /\ next[t] = "wg_done"
          /\ \/ wg_done(t) /\ UNCHANGED next
             \/ wg_unlock(t) /\ Goes(t, "gone")
          /\ UNCHANGED waiter_vars
    /\ UNCHANGED spurious

\* The main thread: waiter_signal, wg_wait, then both releases.
MainStep ==
    /\ \/ /\ next[main] = "waiter_signal"
          /\ \/ waiter_signal(main) /\ UNCHANGED next
             \/ waiter_unlock(main) /\ Goes(main, "wg_wait")
          /\ UNCHANGED wg_vars
       \/ /\ next[main] = "wg_wait"
          /\ \/ (wg_wait(main) \/ wg_wakes(main)) /\ UNCHANGED next
             \/ wg_unlock(main) /\ Goes(main, "wg_release")
          /\ UNCHANGED waiter_vars
       \/ /\ next[main] = "wg_release"
          /\ wg_release /\ Goes(main, "waiter_release")
          /\ UNCHANGED waiter_vars
       \/ /\ next[main] = "waiter_release"
          /\ waiter_release /\ Goes(main, "gone")
          /\ UNCHANGED wg_vars
    /\ UNCHANGED spurious

Spurious(t) ==
    /\ spurious < MaxSpurious
    /\ spurious' = spurious + 1
    /\ \/ waiter_spurious(t) /\ UNCHANGED wg_vars
       \/ wg_spurious(t) /\ UNCHANGED waiter_vars
    /\ UNCHANGED next

AllGone == \A t \in Threads : next[t] = "gone"

Finished == AllGone /\ UNCHANGED vars

Next == (\E t \in Workers : WorkerStep(t)) \/ MainStep
        \/ (\E t \in Threads : Spurious(t)) \/ Finished

Spec == Init /\ [][Next]_vars

\* Every runnable thread is run.
Fairness == WF_vars(MainStep) /\ \A t \in Workers : WF_vars(WorkerStep(t))

FairSpec == Spec /\ Fairness
-----------------------------------------------------------------------------
Places == {"out", "waiting", "leaving"}

\* The type invariant.
TypeOK ==
    /\ w_mtx \in Threads \cup {NULL}
    /\ w_owner \in Threads \cup {NULL}
    /\ g_mtx \in Threads \cup {NULL}
    /\ w_asleep \subseteq Threads /\ g_asleep \subseteq Threads
    /\ w_at \in [Threads -> Places] /\ g_at \in [Threads -> Places]
    /\ w_signaled \in BOOLEAN /\ w_freed \in BOOLEAN /\ g_freed \in BOOLEAN
    /\ g_count \in 0 .. Cardinality(Workers)
    /\ next \in [Threads -> {"waiter_signal", "waiter_wait", "wg_done", "wg_wait",
                             "wg_release", "waiter_release", "gone"}]
    /\ spurious \in 0 .. MaxSpurious

(* Nobody touches an object after its release: when wg_wait has returned,  *)
(* the last wg_done has let the mutex go and every worker has passed the   *)
(* waiter, so that releasing both without a join is safe.                  *)
NoUseAfterRelease ==
    w_freed \/ g_freed => \A t \in Workers : next[t] = "gone"

(* The assertion lock->thread == NULL and the pthread_mutex_destroy of     *)
(* mtl_release succeed in waiter_release, although sleeping in cond_wait   *)
(* leaves the sleeper's name in the lock.                                  *)
ReleaseAssertions ==
    /\ next[main] = "waiter_release" => w_owner = NULL /\ w_mtx = NULL /\ w_asleep = {}
    /\ next[main] = "wg_release" => g_mtx = NULL /\ g_asleep = {}

(* main may release the wait group and the waiter right after wg_wait,     *)
(* without joining anybody, as waitgroup_test.c does: no thread touches    *)
(* them again and the assertions of the release functions hold.            *)
ReleaseSafe == TypeOK /\ NoUseAfterRelease /\ ReleaseAssertions

(* Everyone gets through: no waiter is forgotten by the broadcast,         *)
(* whether it comes before or after it, and the count reaches the main     *)
(* thread.                                                                 *)
Completes == <>AllGone
=============================================================================
