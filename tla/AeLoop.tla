------------------------------- MODULE AeLoop -------------------------------
(***************************************************************************)
(* The event loop ae (php/php-ae/src/ae/ae.c) with its list of timers and  *)
(* its registered descriptors, on any of the pollers of AePoll.            *)
(*                                                                         *)
(* One thread runs everything.  A round of aeMain sleeps in the poll,      *)
(* dispatches what the poll reported and walks the list of timers.  A      *)
(* callback is open from the step that calls it to the step in which it    *)
(* returns; in between the program may call the loop's operations, also on *)
(* the lists that the loop is walking.                                     *)
(*                                                                         *)
(* Times are relative: a timer holds the time left until it is due, and    *)
(* Tick takes one from all of them.  When the system clock is set back,    *)
(* all timers are further away; whether time(NULL) then shows it to the    *)
(* loop depends on the second it falls in and is left open.                *)
(***************************************************************************)
EXTENDS AePoll, Sequences, FiniteSetsExt

CONSTANT MaxFaults      \* bound: refused calls, interrupted polls, clock set back

VARIABLES api,          \* the poller that was compiled in
          apidata,      \* its state
          events,       \* [Fd -> [mask, cb]]: aeFileEvent, cb is its clientData
          maxfd,
          timers,       \* the list from timeEventHead on: [cb, id, left]
          timeEventNextId,
          stop,
          pc,           \* "idle" (not in aeMain), "poll", "sleep", "dispatch", "timers"
          tvp,          \* time the poll still sleeps; Forever for NULL
          fired,        \* entries not dispatched yet
          pass,         \* processTimeEvents: te, prev (callbacks' numbers, 0: NULL), maxId
          call,         \* the callback that is running: [cb, at]
          skewed,       \* now < eventLoop->lastTime at the next pass
          owed,         \* timers that were due when the pass began and must fire in it
          faults

loop_vars == <<api, apidata, events, maxfd, timers, timeEventNextId, stop, pc, tvp, fired,
               pass, call, skewed, owed, faults>>

Forever == -1
Deleted == -1                          \* AE_DELETED_EVENT_ID
NoCall == [cb |-> 0, at |-> "none"]
mask == [fd \in Fd |-> events[fd].mask]

Faulty(n) == faults + n <= MaxFaults /\ faults' = faults + n

aeCreateEventLoop ==
    /\ api \in Pollers
    /\ apidata = aeApiCreate
    /\ events = [fd \in Fd |-> [mask |-> {}, cb |-> 0]]
    /\ maxfd = -1
    /\ timers = <<>> /\ timeEventNextId = 0
    /\ pc = "idle" /\ tvp = 0 /\ fired = {}
    /\ pass = [te |-> 0, prev |-> 0, maxId |-> -1]
    /\ call = NoCall /\ skewed = FALSE /\ owed = {} /\ faults = 0
-----------------------------------------------------------------------------
\* aeCreateFileEvent succeeds (the outcome r of aeApiAddEvent) or does not.
aeCreateFileEvent(fd, m, cb) ==
    \E r \in aeApiAddEvent(api, apidata, events[fd].mask, fd, m) :
        /\ r.ok
        /\ apidata' = r.s
        /\ events' = [events EXCEPT ![fd] = [mask |-> @.mask \cup m, cb |-> cb]]
        /\ maxfd' = IF fd > maxfd THEN fd ELSE maxfd
        /\ UNCHANGED faults

aeCreateFileEventFails(fd, m) ==
    /\ \/ /\ fd >= SetSize
          /\ UNCHANGED <<apidata, faults>>
       \/ /\ fd < SetSize /\ Faulty(1)
          /\ \E r \in aeApiAddEvent(api, apidata, events[fd].mask, fd, m) :
                ~r.ok /\ apidata' = r.s
    /\ UNCHANGED <<events, maxfd>>

\* aeDeleteFileEvent with a search for the new maxfd that starts too low.
MutantMaxfd(fd, m) ==
    /\ IF fd >= SetSize \/ events[fd].mask = {}
         THEN UNCHANGED <<apidata, events, maxfd>>
         ELSE /\ apidata' = aeApiDelEvent(api, apidata, events[fd].mask, fd, m)
              /\ events' = [events EXCEPT ![fd].mask = @ \ m]
              /\ maxfd' = IF fd = maxfd /\ events'[fd].mask = {} THEN maxfd - 2 ELSE maxfd
    /\ UNCHANGED faults

aeDeleteFileEvent(fd, m) ==
    /\ IF fd >= SetSize \/ events[fd].mask = {}
         THEN UNCHANGED <<apidata, events, maxfd>>
         ELSE /\ apidata' = aeApiDelEvent(api, apidata, events[fd].mask, fd, m)
              /\ events' = [events EXCEPT ![fd].mask = @ \ m]
              /\ maxfd' = IF fd = maxfd /\ events'[fd].mask = {}
                            THEN Max({-1} \cup {j \in Fd : j < fd /\ events[j].mask # {}})
                            ELSE maxfd
    /\ UNCHANGED faults

aeCreateTimeEvent(ms, cb) ==
    /\ timers' = <<[cb |-> cb, id |-> timeEventNextId,
                    left |-> IF ms < 0 THEN 0 ELSE ms]>> \o timers
    /\ timeEventNextId' = timeEventNextId + 1

aeDeleteTimeEvent(id) ==
    /\ timers' = [k \in DOMAIN timers |-> IF timers[k].id = id
                                            THEN [timers[k] EXCEPT !.id = Deleted] ELSE timers[k]]
    /\ owed' = owed \ {timers[k].cb : k \in {k \in DOMAIN timers : timers[k].id = id}}

aeStop == stop' = TRUE
-----------------------------------------------------------------------------
\* aeMain, called with the loop stopped.
aeMainBegins ==
    /\ pc = "idle"
    /\ pc' = "poll" /\ stop' = FALSE

\* The search for the nearest timer that passes over those that are due.
MutantSkipsZero == LET due == {timers[k].left : k \in DOMAIN timers} \ {0}
                   IN  IF due = {} THEN Forever ELSE Min(due)

\* aeSearchNearestTimer and the timeout computed from it; timers that were
\* deleted and not yet removed count.
NearestTimer == IF timers = <<>> THEN Forever ELSE Min({timers[k].left : k \in DOMAIN timers})

aeProcessEvents ==
    /\ pc = "poll"
    /\ pc' = "sleep" /\ tvp' = NearestTimer
    /\ UNCHANGED <<api, apidata, events, maxfd, timers, timeEventNextId, stop, fired, pass,
                   call, skewed, owed, faults>>

\* The poll returns with events, at its timeout, or interrupted.
PollReturns ==
    /\ pc = "sleep"
    /\ \E r \in aeApiPoll(api, apidata, mask, maxfd) :
        /\ apidata' = r.s /\ fired' = r.fired
        /\ IF r.fired # {} \/ tvp = 0 THEN UNCHANGED faults ELSE Faulty(1)
    /\ pc' = "dispatch"
    /\ tvp' = 0
    /\ UNCHANGED <<api, events, maxfd, timers, timeEventNextId, stop, pass, call, skewed, owed>>

\* One entry of fired: the event must still be registered.  Readable comes
\* first; writable is then left out, because both have the same function.
\* Only select fixes the order.
DispatchEntry ==
    /\ pc = "dispatch" /\ call = NoCall
    /\ \E e \in fired :
        /\ api = "select" => \A f \in fired : e.fd <= f.fd
        /\ fired' = fired \ {e}
        /\ call' = IF e.mask \cap events[e.fd].mask = {} THEN NoCall
                   ELSE [cb |-> events[e.fd].cb, at |-> "file"]
    /\ UNCHANGED <<api, apidata, events, maxfd, timers, timeEventNextId, stop, pc, tvp, pass,
                   skewed, owed, faults>>

FileProcReturns ==
    /\ call.at = "file"
    /\ call' = NoCall
    /\ UNCHANGED <<api, apidata, events, maxfd, timers, timeEventNextId, stop, pc, tvp, fired,
                   pass, skewed, owed, faults>>
-----------------------------------------------------------------------------
\* processTimeEvents.
At(cb) == CHOOSE k \in DOMAIN timers : timers[k].cb = cb
Following(cb) == IF At(cb) = Len(timers) THEN 0 ELSE timers[At(cb) + 1].cb

\* The pass without the test for a clock that was set back.
MutantIgnoresSkew ==
    /\ pc = "dispatch" /\ call = NoCall /\ fired = {}
    /\ skewed' = FALSE /\ timers' = timers
    /\ owed' = {timers[k].cb : k \in {k \in DOMAIN timers : timers[k].id # Deleted /\
                                                             (skewed \/ timers[k].left = 0)}}
    /\ pc' = "timers"
    /\ pass' = [te |-> IF timers = <<>> THEN 0 ELSE timers[1].cb, prev |-> 0,
                maxId |-> timeEventNextId - 1]

PassBegins ==
    /\ pc = "dispatch" /\ call = NoCall /\ fired = {}
    /\ skewed' = FALSE
    /\ timers' = [k \in DOMAIN timers |-> IF skewed THEN [timers[k] EXCEPT !.left = 0]
                                                    ELSE timers[k]]
    /\ owed' = {timers[k].cb : k \in {k \in DOMAIN timers : timers[k].id # Deleted /\
                                                             (skewed \/ timers[k].left = 0)}}
    /\ pc' = "timers"
    /\ pass' = [te |-> IF timers = <<>> THEN 0 ELSE timers[1].cb, prev |-> 0,
                maxId |-> timeEventNextId - 1]

te == timers[At(pass.te)]
Walking == pc = "timers" /\ call = NoCall /\ pass.te # 0

\* A timer that was deleted leaves the list (the links of its predecessor, or
\* timeEventHead, are set) and its finalizer runs.
RemovesDeleted ==
    /\ Walking /\ te.id = Deleted
    /\ timers' = SubSeq(timers, 1, IF pass.prev = 0 THEN 0 ELSE At(pass.prev))
                   \o SubSeq(timers, At(pass.te) + 1, Len(timers))
    /\ pass' = [pass EXCEPT !.te = Following(pass.te)]

\* The walk without the assignment of prev.
MutantForgetsPrev ==
    /\ Walking /\ te.id # Deleted
    /\ te.id > pass.maxId \/ te.left > 0
    /\ pass' = [pass EXCEPT !.te = Following(@)]

\* A timer created during this pass (never met, they are put at the head) is
\* passed over, one that is not due also becomes the predecessor.
PassesOver ==
    /\ Walking /\ te.id # Deleted
    /\ te.id > pass.maxId \/ te.left > 0
    /\ pass' = [pass EXCEPT !.te = Following(@), !.prev = IF te.id > pass.maxId THEN @ ELSE pass.te]

Fires ==
    /\ Walking /\ te.id # Deleted /\ te.id <= pass.maxId /\ te.left = 0
    /\ call' = [cb |-> pass.te, at |-> "timer"]
    /\ owed' = owed \ {pass.te}

\* timeProc returned retval: due again (at once when it is negative), or deleted.
TimeProcReturns(retval) ==
    /\ call.at = "timer"
    /\ timers' = [timers EXCEPT ![At(pass.te)] =
                    IF retval # -1 THEN [@ EXCEPT !.left = IF retval < 0 THEN 0 ELSE retval]
                                   ELSE [@ EXCEPT !.id = Deleted]]
    /\ pass' = [pass EXCEPT !.te = Following(@), !.prev = pass.te]
    /\ call' = NoCall

\* The end of aeProcessEvents, and aeMain's test of stop.
PassEnds ==
    /\ pc = "timers" /\ call = NoCall /\ pass.te = 0
    /\ pc' = IF stop THEN "idle" ELSE "poll"
    /\ pass' = [pass EXCEPT !.prev = 0, !.maxId = -1]
    /\ UNCHANGED <<api, apidata, events, maxfd, timers, timeEventNextId, stop, tvp, fired, call,
                   skewed, owed, faults>>
-----------------------------------------------------------------------------
\* Time passes, in the poll and in callbacks, and the clock may be set back.
Tick ==
    /\ tvp # 0 \/ pc # "sleep"
    /\ \/ \E k \in DOMAIN timers : timers[k].left > 0
       \/ tvp > 0
    /\ timers' = [k \in DOMAIN timers |-> [timers[k] EXCEPT !.left = IF @ > 0 THEN @ - 1 ELSE 0]]
    /\ tvp' = IF tvp > 0 THEN tvp - 1 ELSE tvp
    /\ UNCHANGED <<api, apidata, events, maxfd, timeEventNextId, stop, pc, fired, pass, call,
                   skewed, owed, faults>>

ClockSetBack ==
    /\ Faulty(1)
    /\ timers # <<>>
    /\ timers' = [k \in DOMAIN timers |-> [timers[k] EXCEPT !.left = @ + 1]]
    /\ skewed' \in {TRUE, skewed}
    /\ owed' = {}
    /\ UNCHANGED <<api, apidata, events, maxfd, timeEventNextId, stop, pc, tvp, fired, pass, call>>
=============================================================================
