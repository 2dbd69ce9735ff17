\* Four workers, up to two spurious wakeups.
CONSTANTS
    NULL = NULL
    Workers = {k1, k2, k3, k4}
    main = main
    MaxSpurious = 2
SPECIFICATION FairSpec
INVARIANT ReleaseSafe
PROPERTY Completes
