\* Two senders and two receivers with two calls each, over channels without a
\* limit and of one and two places.
CONSTANTS
    Msg = {a, b}
    NoMsg = NoMsg
    NULL = NULL
    Senders = {s1, s2}
    Receivers = {r1, r2}
    Caps = {0, 1, 2}
    NSend = 2
    NRecv = 2
    MaxSpurious = 1
SPECIFICATION FairSpec
INVARIANTS NoLostWakeup OwnerHonest
PROPERTIES ImplementsChannel EveryCallReturns
