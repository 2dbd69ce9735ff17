----------------------------- MODULE ThreadPool -----------------------------
(***************************************************************************)
(* The thread pool of base/threadpool.c: workers that take tasks from an   *)
(* intrusive list under one mutex and sleep on one condition variable;     *)
(* clients that submit and cancel tasks; a release that posts an exit      *)
(* message, which stays at the head of the list until every worker has     *)
(* seen it.                                                                *)
(*                                                                         *)
(* Each critical section is one step.  What happens outside the mutex is a *)
(* step of its own: calling the task's function, its return, and the store *)
(* task->work = NULL, which threadpool_cancel reads under the mutex.       *)
(*                                                                         *)
(* Clients follow the rules the code relies on: a task is submitted once,  *)
(* cancelled only after it was submitted and not again once a cancel of it *)
(* has returned 1, and nothing is called after threadpool_release.         *)
(***************************************************************************)
EXTENDS Queue, Integers

CONSTANTS NULL,
          Tasks,              \* struct threadpool_task, allocated and with a function
          wq, exit_message,   \* struct threadpool: the list head and the exit node
          MAX_THREADPOOL_SIZE,
          Sizes,              \* the sizes threadpool_create is called with
          MaxSpurious         \* bound: spurious wakeups in a behaviour

Nodes == Tasks \cup {wq, exit_message}

ASSUME PoolAssumption ==
    /\ wq # exit_message /\ wq \notin Tasks /\ exit_message \notin Tasks
    /\ NULL \notin Nodes
    /\ IsFiniteSet(Tasks)
    /\ MAX_THREADPOOL_SIZE \in Nat \ {0}
    /\ Sizes \subseteq Int
    /\ MaxSpurious \in Nat

VARIABLES nthreads, idle_threads,
          links,        \* the QUEUE fields of every node
          work,         \* task->work # NULL
          asleep,       \* the workers asleep on pool->cond
          pc,           \* where each worker is
          cur,          \* the task a worker has taken
          submitted,    \* tasks handed to threadpool_submit
          cancelled,    \* tasks a threadpool_cancel returned 1 for
          runs,         \* how often the function of each task was called
          releasing,    \* threadpool_release has posted the exit message
          released,     \* it has joined every worker and freed the pool
          spurious

vars == <<nthreads, idle_threads, links, work, asleep, pc, cur, submitted,
          cancelled, runs, releasing, released, spurious>>

Workers == 1 .. nthreads

\* threadpool_create: the number of threads for a requested size.
PoolSize(size) ==
    IF size < 1 THEN 1
    ELSE IF size > MAX_THREADPOOL_SIZE THEN MAX_THREADPOOL_SIZE ELSE size

\* "top": about to lock; "waiting": in cond_wait; "taken": has a task;
\* "running": in its function; "ran": back from it; "exited".
threadpool_create(size) ==
    /\ nthreads = PoolSize(size)
    /\ idle_threads = 0
    /\ links = QUEUE_INIT([next |-> [n \in Nodes |-> NULL], prev |-> [n \in Nodes |-> NULL]], wq)
    /\ asleep = {}
    /\ pc = [w \in 1 .. PoolSize(size) |-> "top"]
    /\ cur = [w \in 1 .. PoolSize(size) |-> NULL]

Init ==
    /\ \E size \in Sizes : threadpool_create(size)
    /\ work = [t \in Tasks |-> TRUE]
    /\ submitted = {}
    /\ cancelled = {}
    /\ runs = [t \in Tasks |-> 0]
    /\ releasing = FALSE
    /\ released = FALSE
    /\ spurious = 0
-----------------------------------------------------------------------------
\* pthread_cond_signal.
cond_signal == \/ asleep = {} /\ UNCHANGED asleep
               \/ \E w \in asleep : asleep' = asleep \ {w}

\* The list is empty: the worker counts itself idle and sleeps.
Sleeps(w, idle) ==
    /\ QUEUE_EMPTY(links, wq)
    /\ idle_threads' = idle + 1
    /\ asleep' = asleep \cup {w}
    /\ pc' = [pc EXCEPT ![w] = "waiting"]
    /\ UNCHANGED <<links, cur>>

\* SeesExit if it did not look at the head, and if it passed no signal on.
MutantExitsEarly(w, idle) ==
    /\ releasing
    /\ cond_signal
    /\ idle_threads' = idle
    /\ pc' = [pc EXCEPT ![w] = "exited"]
    /\ UNCHANGED <<links, cur>>

MutantKeepsSignal(w, idle) ==
    /\ QUEUE_HEAD(links, wq) = exit_message
    /\ idle_threads' = idle
    /\ pc' = [pc EXCEPT ![w] = "exited"]
    /\ UNCHANGED <<links, cur, asleep>>

\* The exit message is at the head: pass the signal on and leave it there.
SeesExit(w, idle) ==
    /\ QUEUE_HEAD(links, wq) = exit_message
    /\ cond_signal
    /\ idle_threads' = idle
    /\ pc' = [pc EXCEPT ![w] = "exited"]
    /\ UNCHANGED <<links, cur>>

\* A task is at the head: take it off the list.
TakesTask(w, idle) ==
    LET q == QUEUE_HEAD(links, wq)
    IN  /\ q \in Tasks
        /\ links' = QUEUE_INIT(QUEUE_REMOVE(links, q), q)
        /\ cur' = [cur EXCEPT ![w] = q]
        /\ idle_threads' = idle
        /\ pc' = [pc EXCEPT ![w] = "taken"]
        /\ UNCHANGED asleep

\* The critical section of worker, from the test of its loop on.
WorkerSection(w, idle) ==
    /\ Sleeps(w, idle) \/ SeesExit(w, idle) \/ TakesTask(w, idle)
    /\ UNCHANGED <<nthreads, work, submitted, cancelled, runs, releasing, released, spurious>>

WorkerLocks(w) == pc[w] = "top" /\ WorkerSection(w, idle_threads)

\* cond_wait returns; the worker is idle no more and tests the list again.
WorkerWakes(w) ==
    /\ pc[w] = "waiting"
    /\ w \notin asleep
    /\ WorkerSection(w, idle_threads - 1)

WorkerCalls(w) ==
    /\ pc[w] = "taken"
    /\ work[cur[w]]
    /\ runs' = [runs EXCEPT ![cur[w]] = @ + 1]
    /\ pc' = [pc EXCEPT ![w] = "running"]
    /\ UNCHANGED <<nthreads, idle_threads, links, work, asleep, cur, submitted, cancelled,
                   releasing, released, spurious>>

WorkReturns(w) ==
    /\ pc[w] = "running"
    /\ pc' = [pc EXCEPT ![w] = "ran"]
    /\ UNCHANGED <<nthreads, idle_threads, links, work, asleep, cur, submitted, cancelled, runs,
                   releasing, released, spurious>>

\* task->work = NULL, without the mutex.
WorkerClears(w) ==
    /\ pc[w] = "ran"
    /\ work' = [work EXCEPT ![cur[w]] = FALSE]
    /\ cur' = [cur EXCEPT ![w] = NULL]
    /\ pc' = [pc EXCEPT ![w] = "top"]
    /\ UNCHANGED <<nthreads, idle_threads, links, asleep, submitted, cancelled, runs, releasing,
                   released, spurious>>

SpuriousWakeup(w) ==
    /\ w \in asleep
    /\ spurious < MaxSpurious
    /\ spurious' = spurious + 1
    /\ asleep' = asleep \ {w}
    /\ UNCHANGED <<nthreads, idle_threads, links, work, pc, cur, submitted, cancelled, runs,
                   releasing, released>>
-----------------------------------------------------------------------------
\* post if it signalled only for the first node on the list.
MutantSignalsFirst(q) ==
    /\ links' = QUEUE_INSERT_TAIL(links, wq, q)
    /\ IF idle_threads > 0 /\ QUEUE_EMPTY(links, wq) THEN cond_signal ELSE UNCHANGED asleep

post(q) ==
    /\ links' = QUEUE_INSERT_TAIL(links, wq, q)
    /\ IF idle_threads > 0 THEN cond_signal ELSE UNCHANGED asleep

threadpool_submit(t) ==
    /\ ~releasing
    /\ t \notin submitted
    /\ work[t]
    /\ post(t)
    /\ submitted' = submitted \cup {t}
    /\ UNCHANGED <<nthreads, idle_threads, work, pc, cur, cancelled, runs, releasing, released,
                   spurious>>

\* The test of threadpool_cancel: the pool's list is not empty and the
\* function pointer is still there.
Cancels(t) == ~QUEUE_EMPTY(links, wq) /\ work[t]

\* threadpool_cancel returning 1; returning 0 changes nothing.
threadpool_cancel(t) ==
    /\ ~releasing
    /\ t \in submitted \ cancelled
    /\ Cancels(t)
    /\ links' = QUEUE_REMOVE(links, t)
    /\ cancelled' = cancelled \cup {t}
    /\ UNCHANGED <<nthreads, idle_threads, work, asleep, pc, cur, submitted, runs, releasing,
                   released, spurious>>

\* threadpool_release up to the joins.
ReleasePosts ==
    /\ ~releasing
    /\ releasing' = TRUE
    /\ post(exit_message)
    /\ UNCHANGED <<nthreads, idle_threads, work, pc, cur, submitted, cancelled, runs, released,
                   spurious>>

\* threadpool_release after the joins: everything is freed.
ReleaseJoins ==
    /\ releasing /\ ~released
    /\ \A w \in Workers : pc[w] = "exited"
    /\ released' = TRUE
    /\ UNCHANGED <<nthreads, idle_threads, links, work, asleep, pc, cur, submitted, cancelled,
                   runs, releasing, spurious>>

Finished == released /\ UNCHANGED vars

WorkerStep(w) == WorkerLocks(w) \/ WorkerWakes(w) \/ WorkerCalls(w) \/ WorkReturns(w)
                 \/ WorkerClears(w)

Next == \/ \E w \in Workers : WorkerStep(w) \/ SpuriousWakeup(w)
        \/ \E t \in Tasks : threadpool_submit(t) \/ threadpool_cancel(t)
        \/ ReleasePosts
        \/ ReleaseJoins
        \/ Finished

Spec == Init /\ [][Next]_vars

(* Every worker keeps running, its tasks return, and the client releases   *)
(* the pool in the end.                                                    *)
Fairness == /\ \A w \in 1 .. MAX_THREADPOOL_SIZE : WF_vars(w \in Workers /\ WorkerStep(w))
            /\ WF_vars(ReleasePosts)
            /\ WF_vars(ReleaseJoins)

FairSpec == Spec /\ Fairness
-----------------------------------------------------------------------------
\* The type invariant.
TypeOK ==
    /\ nthreads \in 1 .. MAX_THREADPOOL_SIZE
    /\ idle_threads \in 0 .. nthreads
    /\ links \in Links(Nodes, NULL)
    /\ work \in [Tasks -> BOOLEAN]
    /\ asleep \subseteq Workers
    /\ pc \in [Workers -> {"top", "waiting", "taken", "running", "ran", "exited"}]
    /\ cur \in [Workers -> Tasks \cup {NULL}]
    /\ submitted \subseteq Tasks
    /\ cancelled \subseteq submitted
    /\ runs \in [Tasks -> Nat]
    /\ releasing \in BOOLEAN
    /\ released \in BOOLEAN
    /\ spurious \in 0 .. MaxSpurious

\* The list from wq, with room to notice a loop that misses wq.
List == Walk(links, wq, Cardinality(Nodes))

(* The list stays a circular, doubly linked list through every insertion,  *)
(* removal by a worker and removal by threadpool_cancel, although a        *)
(* cancelled node keeps links into it; every variable keeps its type.      *)
ListIntact == TypeOK /\ WellLinked(links, wq, Cardinality(Nodes))

(* No lost wakeup, although post signals only if idle_threads says that    *)
(* somebody waits: it is exactly the number of workers in cond_wait, woken *)
(* ones included; and while a worker sleeps, at least as many workers are  *)
(* about to look at the list as there are nodes in it, so a task never     *)
(* waits for a sleeping worker; nor does the exit message.                 *)
NoWorkerForgotten ==
    /\ idle_threads = Cardinality({w \in Workers : pc[w] = "waiting"})
    /\ asleep # {} =>
        Len(List) <= Cardinality({w \in Workers : pc[w] = "top"
                                     \/ (pc[w] = "waiting" /\ w \notin asleep)})

(* A worker leaves only when nothing but the exit message is left, and the *)
(* pool is freed only when every task submitted was run or cancelled; a    *)
(* worker that has taken a task finds its function there to call.          *)
DrainedAtExit ==
    /\ \A w \in Workers : pc[w] = "taken" => work[cur[w]]
    /\ (\E w \in Workers : pc[w] = "exited") => List = <<exit_message>>
    /\ released => \A t \in submitted \ cancelled : runs[t] = 1 /\ ~work[t]

\* The tasks on the list: threadpool_release puts the exit message behind them.
TasksInLine == IF releasing THEN SubSeq(List, 1, Len(List) - 1) ELSE List

Abstract == INSTANCE TaskPool WITH
    pending <- TasksInLine,
    started <- {t \in Tasks : runs[t] > 0 \/ \E w \in Workers : cur[w] = t}

(* Tasks start in submission order, at most once each; a cancel removes    *)
(* its own task at most.                                                   *)
ImplementsTaskPool == Abstract!Spec

(* threadpool_release returns: the exit message reaches every worker,      *)
(* asleep or busy, through the one signal each leaving worker passes on.   *)
ReleaseReturns == releasing ~> released

(* A task that threadpool_cancel reported as cancelled is not run: not now *)
(* and not before.                                                         *)
CancelledNeverRuns ==
    \A t \in cancelled : runs[t] = 0 /\ \A w \in Workers : cur[w] # t
=============================================================================
