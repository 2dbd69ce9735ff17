------------------------------- MODULE AePoll -------------------------------
(***************************************************************************)
(* The four pollers behind the aeApi functions of the event loop ae:       *)
(* ae_epoll.c, ae_kqueue.c, ae_select.c and ae_evport.c.                   *)
(*                                                                         *)
(* A poller's state is what the kernel watches for each descriptor         *)
(* (watched; for select the sets kept in aeApiState) and, for event ports, *)
(* the descriptors of the last poll that wait to be associated again       *)
(* (pending).  A call that the kernel may refuse is the set of its         *)
(* outcomes; a poll is the set of what it may report.                      *)
(***************************************************************************)
EXTENDS Integers, FiniteSets, Functions

CONSTANT SetSize          \* eventLoop->setsize

ASSUME PollAssumption == SetSize \in Nat \ {0}

Fd == 0 .. SetSize - 1
Masks == SUBSET {"r", "w"}            \* AE_READABLE, AE_WRITABLE; {} is AE_NONE
Pollers == {"epoll", "kqueue", "select", "evport"}

aeApiCreate == [watched |-> [fd \in Fd |-> {}], pending |-> <<>>]

Watch(s, fd, mask) == [s EXCEPT !.watched[fd] = mask]
Done(s) == [ok |-> TRUE, s |-> s]
Refused(s) == [ok |-> FALSE, s |-> s]
-----------------------------------------------------------------------------
\* aeApiAddEvent: `old' is the mask the loop has registered so far.

\* Without "Merge old events": EPOLL_CTL_MOD replaces what is watched.
MutantReplaces(s, old, fd, mask) == {Done(Watch(s, fd, mask)), Refused(s)}

epoll_add(s, old, fd, mask) == {Done(Watch(s, fd, old \cup mask)), Refused(s)}

\* One kevent per filter: the second may be refused after the first was added.
kqueue_add(s, old, fd, mask) ==
    LET first == Watch(s, fd, s.watched[fd] \cup (mask \cap {"r"}))
        both  == Watch(s, fd, s.watched[fd] \cup mask)
    IN  {Done(both), Refused(s)} \cup (IF mask = {"r", "w"} THEN {Refused(first)} ELSE {})

select_add(s, old, fd, mask) == {Done(Watch(s, fd, s.watched[fd] \cup mask))}

evport_add(s, old, fd, mask) ==
    IF fd \in DOMAIN s.pending
      THEN {Done([s EXCEPT !.pending[fd] = @ \cup old \cup mask])}
      ELSE {Done(Watch(s, fd, old \cup mask)), Refused(s)}

aeApiAddEvent(api, s, old, fd, mask) ==
    CASE api = "epoll"  -> epoll_add(s, old, fd, mask)
      [] api = "kqueue" -> kqueue_add(s, old, fd, mask)
      [] api = "select" -> select_add(s, old, fd, mask)
      [] api = "evport" -> evport_add(s, old, fd, mask)
-----------------------------------------------------------------------------
\* aeApiDelEvent: the loop has not yet taken `mask' out of `old'.

epoll_del(s, old, fd, mask) == Watch(s, fd, old \ mask)
kqueue_del(s, old, fd, mask) == Watch(s, fd, s.watched[fd] \ mask)
select_del(s, old, fd, mask) == Watch(s, fd, s.watched[fd] \ mask)

\* A descriptor that waits for the next poll only changes its pending mask.
\* Any other is associated with the mask of the loop, which still holds what
\* is being deleted: the branch of port_dissociate is never taken.
evport_del(s, old, fd, mask) ==
    IF fd \in DOMAIN s.pending
      THEN LET left == s.pending[fd] \ mask
           IN  [s EXCEPT !.pending = IF left = {} THEN Restrict(@, DOMAIN @ \ {fd})
                                                  ELSE [@ EXCEPT ![fd] = left]]
      ELSE Watch(s, fd, old)

aeApiDelEvent(api, s, old, fd, mask) ==
    CASE api = "epoll"  -> epoll_del(s, old, fd, mask)
      [] api = "kqueue" -> kqueue_del(s, old, fd, mask)
      [] api = "select" -> select_del(s, old, fd, mask)
      [] api = "evport" -> evport_del(s, old, fd, mask)
-----------------------------------------------------------------------------
\* aeApiPoll: the events reported, as the entries of eventLoop->fired.

Readiness(limit) == {m \in [Fd -> Masks] : \A fd \in Fd : m[fd] \subseteq limit[fd]}
Entries(m) == {[fd |-> fd, mask |-> m[fd]] : fd \in {fd \in Fd : m[fd] # {}}}

\* EPOLLERR and EPOLLHUP come unasked and are reported as writable.
epoll_poll(s) ==
    LET limit == [fd \in Fd |-> IF s.watched[fd] = {} THEN {} ELSE s.watched[fd] \cup {"w"}]
    IN  {[s |-> s, fired |-> Entries(m)] : m \in Readiness(limit)}

\* One entry per filter.
kqueue_poll(s) ==
    {[s |-> s, fired |-> f] :
        f \in SUBSET {[fd |-> p[1], mask |-> {p[2]}] :
                        p \in {q \in Fd \X {"r", "w"} : q[2] \in s.watched[q[1]]}}}

\* select looks at the descriptors up to maxfd; when it reports any, every
\* registered one gets an entry, ready or not.
select_poll(s, mask, maxfd) ==
    LET limit == [fd \in Fd |-> IF fd <= maxfd THEN s.watched[fd] ELSE {}]
    IN  {[s |-> s,
          fired |-> IF \A fd \in Fd : m[fd] = {} THEN {}
                    ELSE {[fd |-> fd, mask |-> m[fd] \cap mask[fd]] :
                            fd \in {fd \in Fd : fd <= maxfd /\ mask[fd] # {}}}] :
            m \in Readiness(limit)}

\* What the last poll reported is associated again (a refusal aborts, like any
\* in evport_del, and ends the process); what this one reports is not
\* associated any more.  POLLERR and POLLHUP come unasked: an entry without a
\* mask.
Associated(s) == [watched |-> [fd \in Fd |-> IF fd \in DOMAIN s.pending THEN s.pending[fd]
                                             ELSE s.watched[fd]],
                  pending |-> <<>>]
evport_poll(s) ==
    LET a == Associated(s)
        Reports(got) == {[fired |-> {[fd |-> fd, mask |-> m[fd]] : fd \in got},
                          s |-> [watched |-> [fd \in Fd |-> IF fd \in got THEN {} ELSE a.watched[fd]],
                                 pending |-> [fd \in got |-> a.watched[fd]]]] :
                            m \in Readiness([fd \in Fd |-> IF fd \in got THEN a.watched[fd] ELSE {}])}
    IN  UNION {Reports(got) : got \in SUBSET {fd \in Fd : a.watched[fd] # {}}}

aeApiPoll(api, s, mask, maxfd) ==
    CASE api = "epoll"  -> epoll_poll(s)
      [] api = "kqueue" -> kqueue_poll(s)
      [] api = "select" -> select_poll(s, mask, maxfd)
      [] api = "evport" -> evport_poll(s)

\* What the next poll watches a descriptor for.
Watched(api, s, fd, maxfd) ==
    CASE api = "select" -> IF fd <= maxfd THEN s.watched[fd] ELSE {}
      [] api = "evport" -> Associated(s).watched[fd]
      [] OTHER          -> s.watched[fd]
=============================================================================
