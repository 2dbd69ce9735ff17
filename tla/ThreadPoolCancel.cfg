\* One worker and two tasks.
CONSTANTS
    NULL = NULL
    Tasks = {t1, t2}
    wq = wq
    exit_message = exit_message
    MAX_THREADPOOL_SIZE = 1
    Sizes = {1}
    MaxSpurious = 0
SPECIFICATION Spec
INVARIANT CancelledNeverRuns
