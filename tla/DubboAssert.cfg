\* Two requests, at most two in flight, up to two faults.
CONSTANTS
    ReqN = 2
    PipeN = 2
    MaxFaults = 2
SPECIFICATION Spec
INVARIANT AssertionsHold
