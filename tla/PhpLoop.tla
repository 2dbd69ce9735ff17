------------------------------ MODULE PhpLoop -------------------------------
(***************************************************************************)
(* The class \Ae\EventLoop (php/php-ae/src/aeEventLoop.c) and a script     *)
(* that uses it: add, del, after, tick, start and stop, called before      *)
(* start or from inside any callback.                                      *)
(*                                                                         *)
(* A callback record (ae_event_cb_t) is emalloc'ed by add, after and tick; *)
(* efree counts (2 stands for more).  The rules the scripts keep: descriptors are valid, a     *)
(* descriptor is not closed while it is registered, and start is not       *)
(* called from inside a callback (after a stop it would run a nested       *)
(* aeMain).                                                                *)
(***************************************************************************)
EXTENDS AeLoop

CONSTANTS Delays,        \* milliseconds given to after, besides -1
          Intervals,     \* milliseconds given to tick, besides AE_NOMORE
          IntMod,        \* 2^32: an int keeps a number modulo it
          MaxCbs,        \* bound: callback records made in a behaviour
          MaxTimers      \* bound: timers made in a behaviour without descriptors

ASSUME PhpAssumption == (Delays \cup Intervals) \subseteq Int /\ IntMod \in Nat \ {0} /\ MaxCbs \in Nat /\ MaxTimers \in Nat

VARIABLES cbs,       \* the callback records: [data, freed]
          armed      \* timers that were set and neither deleted nor finished

php_vars == <<cbs, armed>>
vars == <<loop_vars, php_vars>>

NULL == 0            \* cb->data of after; also a tick of 0 milliseconds

\* newAeEventloop creates the loop and stops it.
Init == aeCreateEventLoop /\ stop = TRUE /\ cbs = <<>> /\ armed = {}

\* Where the script runs: outside the loop or inside a callback.
Script == pc = "idle" \/ call # NoCall
NewCb(data) == Append(cbs, [data |-> data, freed |-> 0])
efree(c, cb) == [c EXCEPT ![cb].freed = IF @ < 2 THEN @ + 1 ELSE @]

\* The cast of cb->data, a pointer that holds a long long, to int.
ToInt(x) == ((x + IntMod \div 2) % IntMod) - IntMod \div 2

\* A tick whose interval the cast turns into AE_NOMORE.
Doomed(data) == ToInt(data) = -1

\* More timers only without descriptors, when the poller does not matter, and
\* without doomed ticks.
Room == IF /\ api = "epoll" /\ timeEventNextId = Len(cbs)
           /\ \A c \in DOMAIN cbs : ~Doomed(cbs[c].data)
          THEN MaxTimers ELSE MaxCbs

Unmoved == UNCHANGED <<api, pc, tvp, fired, pass, call, skewed>>
-----------------------------------------------------------------------------
add(fd, m) ==
    /\ Script /\ Len(cbs) < MaxCbs
    /\ \/ /\ fd < SetSize
          /\ aeCreateFileEvent(fd, m, Len(cbs) + 1)
          /\ cbs' = NewCb(fd)
       \/ /\ aeCreateFileEventFails(fd, m)
          /\ cbs' = efree(NewCb(fd), Len(cbs) + 1)
    /\ Unmoved /\ UNCHANGED <<timers, timeEventNextId, stop, owed, armed>>

del_file(fd, m) ==
    /\ Script
    /\ aeDeleteFileEvent(fd, m)
    /\ Unmoved /\ UNCHANGED <<timers, timeEventNextId, stop, owed, php_vars>>

del_timer(id) ==
    /\ Script
    /\ aeDeleteTimeEvent(id)
    /\ armed' = armed \ {timers[k].cb : k \in {k \in DOMAIN timers : timers[k].id = id}}
    /\ Unmoved /\ UNCHANGED <<apidata, events, maxfd, timeEventNextId, stop, faults, cbs>>

\* after and tick differ in what they keep in cb->data.
SetsTimer(ms, data) ==
    /\ Script /\ Len(cbs) < Room
    /\ aeCreateTimeEvent(ms, Len(cbs) + 1)
    /\ cbs' = NewCb(data)
    /\ armed' = armed \cup {Len(cbs) + 1}
    /\ Unmoved /\ UNCHANGED <<apidata, events, maxfd, stop, owed, faults>>
after(ms) == SetsTimer(ms, NULL)
tick(ms) == SetsTimer(ms, ms)

start ==
    /\ stop
    /\ aeMainBegins
    /\ UNCHANGED <<api, apidata, events, maxfd, timers, timeEventNextId, tvp, fired, pass,
                   call, skewed, owed, faults, php_vars>>

stops ==
    /\ call # NoCall /\ ~stop
    /\ aeStop
    /\ Unmoved /\ UNCHANGED <<apidata, events, maxfd, timers, timeEventNextId, owed, faults, php_vars>>
-----------------------------------------------------------------------------
\* What aeTimerCallback returns.  It reads a doomed record after it has freed
\* it: data, its first word, may be anything by then.
Returned(data) == IF Doomed(data) THEN {-1} \cup Delays
                  ELSE {IF data = NULL THEN -1 ELSE ToInt(data)}

\* aeTimerCallback that frees the record of every timer that is finished.
MutantFreesFinished ==
    /\ call.at = "timer"
    /\ LET data == cbs[call.cb].data
       IN  /\ cbs' = IF Doomed(data) \/ data = NULL THEN efree(cbs, call.cb) ELSE cbs
           /\ \E retval \in Returned(data) :
                 /\ TimeProcReturns(retval)
                 /\ armed' = IF retval = -1 THEN armed \ {call.cb} ELSE armed
    /\ UNCHANGED <<api, apidata, events, maxfd, timeEventNextId, stop, pc, tvp, fired, skewed,
                   owed, faults>>

\* aeTimerCallback after the script's function: the record of a doomed tick is
\* freed here, and read again; the timer then ends, and the finalizer frees it
\* a second time, or it goes on with a record that is freed.
aeTimerCallback ==
    /\ call.at = "timer"
    /\ LET data == cbs[call.cb].data
       IN  /\ cbs' = IF Doomed(data) THEN efree(cbs, call.cb) ELSE cbs
           /\ \E retval \in Returned(data) :
                 /\ TimeProcReturns(retval)
                 /\ armed' = IF retval = -1 THEN armed \ {call.cb} ELSE armed
    /\ UNCHANGED <<api, apidata, events, maxfd, timeEventNextId, stop, pc, tvp, fired, skewed,
                   owed, faults>>

aeTimerFinalizer ==
    /\ RemovesDeleted
    /\ cbs' = efree(cbs, pass.te)
    /\ UNCHANGED <<api, apidata, events, maxfd, timeEventNextId, stop, pc, tvp, fired, call,
                   skewed, owed, faults, armed>>

TimerFires ==
    /\ Fires
    /\ UNCHANGED <<api, apidata, events, maxfd, timers, timeEventNextId, stop, pc, tvp, fired,
                   pass, skewed, faults, php_vars>>
TimerPassedOver ==
    /\ PassesOver
    /\ UNCHANGED <<api, apidata, events, maxfd, timers, timeEventNextId, stop, pc, tvp, fired,
                   call, skewed, owed, faults, php_vars>>
TimerPassBegins ==
    /\ PassBegins
    /\ UNCHANGED <<api, apidata, events, maxfd, timeEventNextId, stop, tvp, fired, call, faults,
                   php_vars>>

Operation ==
    \/ \E fd \in 0 .. SetSize, m \in Masks \ {{}} : add(fd, m) \/ del_file(fd, m)
    \/ \E id \in 0 .. timeEventNextId - 1 : del_timer(id)
    \/ (\E ms \in Delays \cup {-1} : after(ms)) \/ (\E ms \in Intervals \cup {-1} : tick(ms))
    \/ stops

LoopStep ==
    \/ (aeProcessEvents \/ PollReturns \/ DispatchEntry \/ FileProcReturns \/ PassEnds)
          /\ UNCHANGED php_vars
    \/ TimerPassBegins \/ TimerPassedOver \/ TimerFires \/ aeTimerCallback \/ aeTimerFinalizer

TimePasses == Tick /\ UNCHANGED php_vars

Next == \/ Operation \/ start \/ LoopStep \/ TimePasses
        \/ ClockSetBack /\ UNCHANGED php_vars

Spec == Init /\ [][Next]_vars

\* The loop's thread runs, and time passes whatever the loop does.
FairSpec == Spec /\ WF_vars(LoopStep) /\ SF_vars(TimePasses)
-----------------------------------------------------------------------------
\* The poller watches every registered descriptor for its events: what the
\* program registered is not missed, through operations on descriptors that
\* the loop is dispatching, refused calls and event ports that lose their
\* association with each event.  epoll and select watch nothing else; kqueue
\* may after a refused call; event ports go on watching what was deleted.
WatchesRegistered ==
    \A fd \in Fd : LET w == Watched(api, apidata, fd, maxfd)
                   IN  /\ events[fd].mask \subseteq w
                       /\ api \in {"epoll", "select"} \/ (api = "kqueue" /\ faults = 0)
                            => w = events[fd].mask

\* A timer that is set and not deleted or finished stays in the list, once,
\* whatever is created and deleted during a pass, and the walk never meets a
\* timer created in its own pass (the check of maxId in processTimeEvents is
\* "currently useless").
NoTimerLost ==
    /\ armed = {timers[k].cb : k \in {k \in DOMAIN timers : timers[k].id # Deleted}}
    /\ IsInjective([k \in DOMAIN timers |-> timers[k].cb])
    /\ pass.te # 0 => (\E k \in DOMAIN timers : timers[k].cb = pass.te) /\ te.id <= pass.maxId

\* A pass fires every timer that was due when it began and that no callback
\* deleted, and all of them after it sees that the clock was set back (unless
\* the clock is set back during the pass); the poll before it never sleeps
\* past the nearest timer.
DueTimersFire ==
    /\ pc \in {"poll", "idle"} => owed = {}
    /\ pc = "sleep" => \A k \in DOMAIN timers : tvp # Forever /\ tvp <= timers[k].left

\* A callback record is freed once, not while its timer is set, and never
\* called after that; the exception is a tick of -1, or of any interval that
\* the cast to int turns into -1, whose record aeTimerCallback frees before
\* the finalizer does.
CallbackMemory ==
    /\ \A c \in DOMAIN cbs : cbs[c].freed <= 1 \/ Doomed(cbs[c].data)
    /\ \A c \in armed : cbs[c].freed = 0 \/ Doomed(cbs[c].data)
    /\ call # NoCall => \/ cbs[call.cb].freed = 0
                        \/ call.at = "timer" /\ Doomed(cbs[call.cb].data)
    /\ \A fd \in Fd : events[fd].mask # {} => cbs[events[fd].cb].freed = 0

\* A timer that is set fires or is deleted while the loop runs, however often
\* the poll returns early and although the clock is set back.
TimersFire ==
    \A c \in 1 .. MaxCbs :
        (c \in armed /\ pc # "idle") ~> (pc = "idle" \/ c \notin armed \/ call.cb = c)
=============================================================================
