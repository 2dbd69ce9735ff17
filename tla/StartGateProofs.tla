-------------------------- MODULE StartGateProofs ---------------------------
(***************************************************************************)
(* The start gate of waiter.c and waitgroup.c, for any number of workers:  *)
(* the main thread may release both objects as soon as wg_wait returns.    *)
(***************************************************************************)
EXTENDS StartGate, FiniteSetTheorems, TLAPS

USE GateAssumption DEF Threads

(* Who holds the waiter's mutex, who sleeps on its condition variable, and *)
(* whose name its lock still carries.                                      *)
WaiterInv ==
    /\ \A t \in Threads : w_at[t] = "leaving" <=> w_mtx = t
    /\ \A t \in w_asleep : w_at[t] = "waiting"
    /\ w_owner # NULL => w_at[w_owner] # "out"
    /\ \A t \in Threads : next[t] \notin {"waiter_wait", "waiter_signal"} => w_at[t] = "out"

(* The same of the wait group, whose only sleeper is the main thread.      *)
GroupInv ==
    /\ \A t \in Threads : g_at[t] = "leaving" <=> g_mtx = t
    /\ \A t \in g_asleep : g_at[t] = "waiting"
    /\ \A t \in Workers : g_at[t] # "waiting"
    /\ \A t \in Threads : next[t] \notin {"wg_done", "wg_wait"} => g_at[t] = "out"

\* The workers whose wg_done has not happened yet.
Pending == {t \in Workers : \/ next[t] = "waiter_wait"
                            \/ next[t] = "wg_done" /\ g_at[t] = "out"}

(* The count is the number of workers still to report, and main is past    *)
(* the test in wg_wait only when every worker is gone.                     *)
CountInv ==
    /\ g_count = Cardinality(Pending)
    /\ \A t \in Workers : next[t] \in {"waiter_wait", "wg_done", "gone"}
    /\ next[main] \notin {"waiter_wait", "wg_done"}
    /\ (g_at[main] = "leaving" \/ next[main] \notin {"waiter_signal", "wg_wait"})
          => \A t \in Workers : next[t] = "gone"
    /\ w_freed \/ g_freed => next[main] \in {"waiter_release", "gone"}

IInv == TypeOK /\ WaiterInv /\ GroupInv /\ CountInv

(* The workers still to report are finitely many.                          *)
LEMMA PendingFinite == IsFiniteSet(Pending) /\ Cardinality(Pending) \in Nat
BY FS_Subset, FS_CardinalityType DEF Pending

(* Everyone is out of both objects, and every worker has to report.        *)
LEMMA InitIInv == Init => IInv
<1> SUFFICES ASSUME Init PROVE IInv
  OBVIOUS
<1> USE DEF Init, waiter_create, wg_create
<1>1. Pending = Workers
  BY DEF Pending
<1>2. Cardinality(Workers) \in Nat
  BY FS_CardinalityType
<1>3. TypeOK
  <2>1. g_count \in 0 .. Cardinality(Workers) /\ spurious \in 0 .. MaxSpurious
    BY <1>2
  <2> QED BY <2>1 DEF TypeOK, Places
<1>4. WaiterInv /\ GroupInv
  BY DEF WaiterInv, GroupInv
<1>5. CountInv
  BY <1>1 DEF CountInv
<1> QED BY <1>3, <1>4, <1>5 DEF IInv

(* A step of a thread in the waiter.                                       *)
LEMMA WaiterStep ==
    ASSUME IInv, NEW t \in Threads, UNCHANGED wg_vars, spurious' \in 0 .. MaxSpurious,
           \/ /\ next[t] = "waiter_wait" /\ t \in Workers
              /\ waiter_wait(t) \/ waiter_wakes(t)
              /\ UNCHANGED next
           \/ next[t] = "waiter_wait" /\ t \in Workers /\ waiter_unlock(t) /\ Goes(t, "wg_done")
           \/ next[t] = "waiter_signal" /\ t = main /\ waiter_signal(t) /\ UNCHANGED next
           \/ next[t] = "waiter_signal" /\ t = main /\ waiter_unlock(t) /\ Goes(t, "wg_wait")
           \/ waiter_spurious(t) /\ UNCHANGED next
    PROVE  IInv'
<1> USE DEF IInv
<1>1. TypeOK'
  <2>1. /\ w_mtx' \in Threads \cup {NULL} /\ w_owner' \in Threads \cup {NULL}
        /\ w_asleep' \subseteq Threads
        /\ w_at' \in [Threads -> Places]
    BY DEF TypeOK, Places, waiter_wait, waiter_wakes, w_test, waiter_unlock, waiter_signal,
           waiter_spurious
  <2>2. w_signaled' \in BOOLEAN /\ w_freed' \in BOOLEAN
    BY DEF TypeOK, waiter_wait, waiter_wakes, waiter_unlock, waiter_signal, waiter_spurious
  <2>3. next' \in [Threads -> {"waiter_signal", "waiter_wait", "wg_done", "wg_wait",
                               "wg_release", "waiter_release", "gone"}]
    BY DEF TypeOK, Goes
  <2> QED BY <2>1, <2>2, <2>3 DEF TypeOK, wg_vars
<1>2. WaiterInv'
  BY DEF WaiterInv, TypeOK, waiter_wait, waiter_wakes, w_test, waiter_unlock, waiter_signal,
         waiter_spurious, Goes
<1>3. GroupInv'
  BY DEF GroupInv, TypeOK, wg_vars, waiter_unlock, Goes
<1>4. CountInv'
  <2>1. g_at[t] = "out" \/ UNCHANGED next
    BY DEF GroupInv
  <2>2. Pending' = Pending
    BY <2>1 DEF Pending, TypeOK, wg_vars, Goes
  <2> QED BY <2>2 DEF CountInv, TypeOK, wg_vars, waiter_wait, waiter_wakes, waiter_unlock,
                      waiter_signal, waiter_spurious, Goes
<1> QED BY <1>1, <1>2, <1>3, <1>4

(* A worker reports: one fewer is pending.                                 *)
LEMMA DoneStep ==
    ASSUME IInv, NEW t \in Workers, next[t] = "wg_done", wg_done(t),
           UNCHANGED <<waiter_vars, next, spurious>>
    PROVE  IInv'
<1> USE DEF IInv, wg_done
<1>1. Pending' = Pending \ {t} /\ t \in Pending
  BY DEF Pending, TypeOK
<1>2. g_count \in Nat /\ g_count > 0 /\ g_count' = Cardinality(Pending')
  <2>1. Cardinality(Pending) # 0 /\ Cardinality(Pending \ {t}) = Cardinality(Pending) - 1
    BY <1>1, PendingFinite, FS_RemoveElement, FS_EmptySet
  <2> QED BY <1>1, <2>1, PendingFinite DEF CountInv
<1>3. TypeOK'
  <2>1. g_count' \in 0 .. Cardinality(Workers)
    BY <1>2, FS_CardinalityType DEF TypeOK
  <2> QED BY <2>1 DEF TypeOK, Places, waiter_vars
<1>4. WaiterInv' /\ GroupInv'
  BY DEF WaiterInv, GroupInv, TypeOK, waiter_vars
<1>5. CountInv'
  BY <1>2 DEF CountInv, TypeOK, waiter_vars
<1> QED BY <1>3, <1>4, <1>5

(* A thread leaves the wait group; a worker is gone then.                  *)
LEMMA GroupUnlock ==
    ASSUME IInv, NEW t \in Threads, wg_unlock(t), UNCHANGED <<waiter_vars, spurious>>,
           \/ next[t] = "wg_done" /\ t \in Workers /\ Goes(t, "gone")
           \/ next[t] = "wg_wait" /\ t = main /\ Goes(t, "wg_release")
    PROVE  IInv'
<1> USE DEF IInv, wg_unlock, Goes
<1>1. Pending' = Pending
  BY DEF Pending, TypeOK
<1>2. TypeOK'
  BY DEF TypeOK, Places, waiter_vars
<1>3. WaiterInv' /\ GroupInv'
  BY DEF WaiterInv, GroupInv, TypeOK, waiter_vars
<1>4. CountInv'
  BY <1>1 DEF CountInv, TypeOK, waiter_vars
<1> QED BY <1>2, <1>3, <1>4

(* The main thread tests the count under the mutex: nobody is pending and  *)
(* nobody holds the mutex, so that every worker is gone.                   *)
LEMMA WaitStep ==
    ASSUME IInv, next[main] = "wg_wait", wg_wait(main) \/ wg_wakes(main),
           UNCHANGED <<waiter_vars, next, spurious>>
    PROVE  IInv'
<1> USE DEF IInv, wg_wait, wg_wakes, wg_test
<1>1. Pending' = Pending
  BY DEF Pending, TypeOK
<1>2. ASSUME g_count <= 0
      PROVE  \A t \in Workers : next[t] = "gone"
  <2>1. Pending = {}
    BY <1>2, PendingFinite, FS_EmptySet DEF CountInv
  <2>2. \A t \in Workers : g_at[t] = "out"
    BY DEF GroupInv, TypeOK, Places
  <2> QED BY <2>1, <2>2 DEF Pending, CountInv
<1>3. TypeOK'
  BY DEF TypeOK, Places, waiter_vars
<1>4. WaiterInv' /\ GroupInv'
  BY DEF WaiterInv, GroupInv, TypeOK, waiter_vars
<1>5. CountInv'
  BY <1>1, <1>2 DEF CountInv, TypeOK, waiter_vars
<1> QED BY <1>3, <1>4, <1>5

(* The other steps: the releases, and a spurious wakeup in wg_wait.        *)
LEMMA OtherSteps ==
    ASSUME IInv, spurious' \in 0 .. MaxSpurious,
           \/ /\ next[main] = "wg_release" /\ wg_release /\ Goes(main, "waiter_release")
              /\ UNCHANGED waiter_vars
           \/ /\ next[main] = "waiter_release" /\ waiter_release /\ Goes(main, "gone")
              /\ UNCHANGED wg_vars
           \/ (\E t \in Threads : wg_spurious(t)) /\ UNCHANGED <<waiter_vars, next>>
           \/ UNCHANGED <<waiter_vars, wg_vars, next>>
    PROVE  IInv'
<1> USE DEF IInv, wg_release, waiter_release, wg_spurious, waiter_vars, wg_vars, Goes
<1>1. Pending' = Pending
  BY DEF Pending, TypeOK
<1>2. TypeOK'
  BY DEF TypeOK
<1>3. WaiterInv' /\ GroupInv'
  BY DEF WaiterInv, GroupInv, TypeOK
<1>4. CountInv'
  BY <1>1 DEF CountInv, TypeOK
<1> QED BY <1>2, <1>3, <1>4

(* Every step of the gate keeps the invariant.                             *)
LEMMA StepIInv ==
    ASSUME IInv, [Next]_vars
    PROVE  IInv'
<1>1. ASSUME NEW t \in Workers, WorkerStep(t)
      PROVE  IInv'
  BY <1>1, WaiterStep, DoneStep, GroupUnlock DEF WorkerStep, IInv, TypeOK
<1>2. CASE MainStep
  BY <1>2, WaiterStep, WaitStep, GroupUnlock, OtherSteps DEF MainStep, IInv, TypeOK
<1>3. ASSUME NEW t \in Threads, Spurious(t)
      PROVE  IInv'
  <2>1. spurious' \in 0 .. MaxSpurious
    BY <1>3 DEF Spurious, IInv, TypeOK
  <2> QED BY <1>3, <2>1, WaiterStep, OtherSteps DEF Spurious
<1>4. CASE UNCHANGED vars
  BY <1>4, OtherSteps DEF vars, IInv, TypeOK
<1> QED BY <1>1, <1>2, <1>3, <1>4 DEF Next, Finished

(* main may release the wait group and the waiter when wg_wait returns,    *)
(* without joining a worker, however many workers there are: nobody        *)
(* touches them again, nobody sleeps in them, and the assertion of         *)
(* mtl_release on the owner holds.                                         *)
THEOREM GateReleaseSafe == Spec => []ReleaseSafe
<1>1. IInv => ReleaseSafe
  <2> SUFFICES ASSUME IInv PROVE NoUseAfterRelease /\ ReleaseAssertions
    BY DEF IInv, ReleaseSafe
  <2>1. NoUseAfterRelease
    BY DEF IInv, CountInv, NoUseAfterRelease
  <2>2. ASSUME next[main] = "waiter_release"
        PROVE  w_owner = NULL /\ w_mtx = NULL /\ w_asleep = {}
    <3>1. \A t \in Threads : w_at[t] = "out"
      BY <2>2 DEF IInv, CountInv, WaiterInv
    <3> QED BY <3>1 DEF IInv, TypeOK, WaiterInv
  <2>3. ASSUME next[main] = "wg_release"
        PROVE  g_mtx = NULL /\ g_asleep = {}
    <3>1. \A t \in Threads : g_at[t] = "out"
      BY <2>3 DEF IInv, CountInv, GroupInv
    <3> QED BY <3>1 DEF IInv, TypeOK, GroupInv
  <2> QED BY <2>1, <2>2, <2>3 DEF ReleaseAssertions
<1>2. Spec => []IInv
  BY InitIInv, StepIInv, PTL DEF Spec
<1> QED BY <1>1, <1>2, PTL
=============================================================================
