\* Four requests, at most three in flight, up to three faults.
CONSTANTS
    ReqN = 4
    PipeN = 3
    MaxFaults = 3
SPECIFICATION FairSpec
INVARIANTS PipelineFull UnsentIsWatched FlagAndEventsAgree CountsRealResponses
PROPERTY Completes
