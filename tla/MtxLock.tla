------------------------------ MODULE MtxLock -------------------------------
(***************************************************************************)
(* base/mtxlock.c: a pthread mutex with a note of the thread that locked   *)
(* it.  mtl_lock writes the note after it has the mutex, mtl_unlock clears *)
(* it before it lets the mutex go.  cond_wait (base/cond.c) hands the bare *)
(* mutex to pthread_cond_wait, so waiting releases and re-acquires the     *)
(* mutex behind the note's back.                                           *)
(***************************************************************************)
CONSTANT NULL         \* no thread

VARIABLES mtx,        \* the thread that holds the pthread mutex, or NULL
          owner       \* struct mtxlock: thread

mtl_create == mtx = NULL /\ owner = NULL

mtl_lock(t) ==
    /\ mtx = NULL
    /\ mtx' = t
    /\ owner' = t

\* mtl_unlock without thread = NULL.
MutantKeepsOwner(t) == mtx = t /\ mtx' = NULL /\ UNCHANGED owner

mtl_unlock(t) ==
    /\ mtx = t
    /\ owner' = NULL
    /\ mtx' = NULL

mtl_lockedbyself(t) == owner = t

\* pthread_cond_wait lets the mutex go and takes it again: the note stays.
wait_unlock(t) ==
    /\ mtx = t
    /\ mtx' = NULL
    /\ UNCHANGED owner

wait_relock(t) ==
    /\ mtx = NULL
    /\ mtx' = t
    /\ UNCHANGED owner

\* What mtl_release needs: its assertion, and a mutex nobody holds.
mtl_releasable == owner = NULL /\ mtx = NULL
=============================================================================
