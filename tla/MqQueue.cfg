\* Two messages, rings of 1 to 3 slots that may double up to three times.
CONSTANTS
    Msg = {a, b}
    NoMsg = NoMsg
    InitCaps = {1, 2, 3}
    MaxCount = 5
SPECIFICATION QueueSpec
INVARIANT NoHoles
PROPERTY ImplementsFifo
