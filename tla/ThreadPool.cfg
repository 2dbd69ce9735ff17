\* Pools of one and of two workers (a size below the minimum and one above the
\* maximum), three tasks.
CONSTANTS
    NULL = NULL
    Tasks = {t1, t2, t3}
    wq = wq
    exit_message = exit_message
    MAX_THREADPOOL_SIZE = 2
    Sizes = {0, 3}
    MaxSpurious = 1
SPECIFICATION FairSpec
INVARIANTS ListIntact NoWorkerForgotten DrainedAtExit
PROPERTIES ImplementsTaskPool ReleaseReturns
