--------------------------- MODULE PhpLoopProofs ----------------------------
(***************************************************************************)
(* The event loop ae with the callback records of \Ae\EventLoop, for every *)
(* poller, every number of descriptors and timers and every script.        *)
(*                                                                         *)
(* The invariant has three parts that are proved one after the other: what *)
(* the poller watches (WatchInv), the list of timers and the walk over it  *)
(* (ListInv, CallInv, WalkInv, OwedInv, SleepInv), and the memory of the   *)
(* callback records (MemoryInv), which needs both.                         *)
(***************************************************************************)
EXTENDS PhpLoop, WellFoundedInduction, SequenceTheorems, TLAPS

Api == [watched : [Fd -> Masks], pending : UNION {[D -> Masks] : D \in SUBSET Fd}]
Entry == [fd : Fd, mask : Masks]
Timer == [cb : Nat \ {0}, id : Int, left : Nat]
Record == [data : Int, freed : Nat]

(* What poller p with state s watches, when the loop has registered reg,   *)
(* whose highest descriptor is top, and f calls failed.                    *)
WatchesAll(p, s, reg, top, f) ==
    CASE p = "epoll"  -> s.watched = reg
      [] p = "select" -> s.watched = reg /\ \A fd \in Fd : reg[fd] # {} => fd <= top
      [] p = "kqueue" -> /\ \A fd \in Fd : reg[fd] \subseteq s.watched[fd]
                         /\ f = 0 => s.watched = reg
      [] p = "evport" -> \A fd \in Fd : reg[fd] \subseteq
                            IF fd \in DOMAIN s.pending THEN s.pending[fd] ELSE s.watched[fd]

(* The state of the poller covers the events that are registered.          *)
WatchInv ==
    /\ api \in Pollers
    /\ apidata \in Api
    /\ events \in [Fd -> [mask : Masks, cb : Nat]]
    /\ maxfd \in Int
    /\ faults \in Nat
    /\ fired \subseteq Entry
    /\ WatchesAll(api, apidata, mask, maxfd, faults)

(* The list of timers: each has a record and a number of its own.          *)
ListInv ==
    /\ timers \in Seq(Timer)
    /\ cbs \in Seq(Record)
    /\ timeEventNextId \in Nat
    /\ \A k \in DOMAIN timers : timers[k].id \in Deleted .. timeEventNextId - 1
    /\ \A k \in DOMAIN timers : timers[k].cb \in DOMAIN cbs
    /\ \A j, k \in DOMAIN timers : timers[j].cb = timers[k].cb => j = k
    /\ armed = {timers[k].cb : k \in {k \in DOMAIN timers : timers[k].id # Deleted}}

(* Callbacks run where the loop calls them.                                *)
CallInv ==
    /\ pc \in {"idle", "poll", "sleep", "dispatch", "timers"}
    /\ call \in [cb : Nat, at : {"none", "file", "timer"}]
    /\ call.at = "none" => call = NoCall
    /\ call.at = "file" => pc = "dispatch"
    /\ call.at = "timer" => pc = "timers" /\ pass.te # 0 /\ call.cb = pass.te

(* The walk over the list: the timer it stands on is listed, nothing from  *)
(* there on is younger than the pass and, when no callback is open, prev   *)
(* is the timer just before it (NULL at the head of the list).             *)
WalkInv ==
    /\ pass \in [te : Nat, prev : Nat, maxId : Int]
    /\ pass.te # 0 =>
         /\ pc = "timers" /\ pass.maxId >= Deleted
         /\ \E p \in DOMAIN timers :
              /\ timers[p].cb = pass.te
              /\ \A k \in DOMAIN timers : k >= p => timers[k].id <= pass.maxId
              /\ call.at # "timer" =>
                   IF pass.prev = 0 THEN p = 1
                                    ELSE p > 1 /\ timers[p - 1].cb = pass.prev

(* The timers that this pass must still fire lie ahead of the walk.        *)
OwedInv ==
    /\ pc # "timers" => owed = {}
    /\ \A c \in owed : \E p, k \in DOMAIN timers :
         /\ p <= k /\ timers[p].cb = pass.te /\ timers[k].cb = c
         /\ timers[k].id # Deleted /\ timers[k].left = 0
         /\ call.at = "timer" => p # k

(* The poll wakes up for the nearest timer.                                *)
SleepInv ==
    /\ tvp \in Nat \cup {Forever}
    /\ pc = "sleep" => \A k \in DOMAIN timers : tvp # Forever /\ tvp <= timers[k].left

TimerInv == ListInv /\ CallInv /\ WalkInv /\ OwedInv /\ SleepInv

(* A record that a timer, an event or an open callback uses is not freed,  *)
(* but for those of doomed ticks; no event shares a record with a timer.          *)
MemoryInv ==
    /\ \A c \in DOMAIN cbs : cbs[c].freed <= 1 \/ Doomed(cbs[c].data)
    /\ \A k \in DOMAIN timers : cbs[timers[k].cb].freed = 0 \/
                                Doomed(cbs[timers[k].cb].data)
    /\ \A fd \in Fd : events[fd].mask # {} =>
         /\ events[fd].cb \in DOMAIN cbs /\ cbs[events[fd].cb].freed = 0
         /\ \A k \in DOMAIN timers : timers[k].cb # events[fd].cb
    /\ call.at = "file" => call.cb \in DOMAIN cbs /\ cbs[call.cb].freed = 0
    /\ call.at = "timer" => cbs[call.cb].freed = 0 \/ Doomed(cbs[call.cb].data)

IInv == WatchInv /\ TimerInv /\ MemoryInv
-----------------------------------------------------------------------------
SetMask(reg, fd, m) == [reg EXCEPT ![fd] = m]

(* A poller with another mask for one descriptor is a poller.              *)
LEMMA WatchIsApi ==
    ASSUME NEW s \in Api, NEW fd \in Fd, NEW m \in Masks
    PROVE  /\ Watch(s, fd, m) \in Api
           /\ Watch(s, fd, m).watched = SetMask(s.watched, fd, m)
           /\ Watch(s, fd, m).pending = s.pending
<1>1. Watch(s, fd, m) = [watched |-> SetMask(s.watched, fd, m), pending |-> s.pending]
  BY DEF Watch, Api, SetMask
<1>2. SetMask(s.watched, fd, m) \in [Fd -> Masks]
  BY DEF Api, SetMask
<1> QED BY <1>1, <1>2 DEF Api

(* WatchesAll, poller by poller.                                           *)
LEMMA WatchesCases ==
    ASSUME NEW s, NEW reg, NEW top, NEW f
    PROVE  /\ WatchesAll("epoll", s, reg, top, f) <=> s.watched = reg
           /\ WatchesAll("select", s, reg, top, f) <=>
                s.watched = reg /\ \A fd \in Fd : reg[fd] # {} => fd <= top
           /\ WatchesAll("kqueue", s, reg, top, f) <=>
                /\ \A fd \in Fd : reg[fd] \subseteq s.watched[fd]
                /\ f = 0 => s.watched = reg
           /\ WatchesAll("evport", s, reg, top, f) <=>
                \A fd \in Fd : reg[fd] \subseteq
                               IF fd \in DOMAIN s.pending THEN s.pending[fd] ELSE s.watched[fd]
  BY DEF WatchesAll

(* aeApiAddEvent covers what it adds and what was registered before; when  *)
(* it is refused, what was registered is still covered.                    *)
LEMMA AddWatches ==
    ASSUME NEW p \in Pollers, NEW s \in Api, NEW reg \in [Fd -> Masks], NEW top \in Int,
           NEW f \in Nat, WatchesAll(p, s, reg, top, f),
           NEW fd \in Fd, NEW m \in Masks, NEW r \in aeApiAddEvent(p, s, reg[fd], fd, m)
    PROVE  /\ r.s \in Api
           /\ r.ok => WatchesAll(p, r.s, [reg EXCEPT ![fd] = @ \cup m],
                                 IF fd > top THEN fd ELSE top, f)
           /\ ~r.ok => WatchesAll(p, r.s, reg, top, f + 1)
<1> DEFINE new == [reg EXCEPT ![fd] = @ \cup m]
<1>0. reg[fd] \in Masks /\ reg[fd] \cup m \in Masks /\ s.watched[fd] \cup m \in Masks
      /\ s.watched[fd] \cup (m \cap {"r"}) \in Masks /\ s.watched \in [Fd -> Masks]
      /\ Fd \subseteq Int
  <2>1. s.watched \in [Fd -> Masks]
    BY DEF Api
  <2>2. reg[fd] \in Masks /\ s.watched[fd] \in Masks
    BY <2>1
  <2>3. reg[fd] \cup m \in Masks /\ s.watched[fd] \cup m \in Masks
    BY <2>2 DEF Masks
  <2>4. s.watched[fd] \cup (m \cap {"r"}) \in Masks
    BY <2>2 DEF Masks
  <2>5. Fd \subseteq Int
    BY PollAssumption DEF Fd
  <2> QED BY <2>1, <2>2, <2>3, <2>4, <2>5
<1>a. f + 1 # 0 /\ new \in [Fd -> Masks] /\ new[fd] = reg[fd] \cup m
      /\ (\A e \in Fd \ {fd} : new[e] = reg[e])
  BY <1>0
<1> HIDE DEF new
<1>b. SUFFICES /\ r.s \in Api
               /\ r.ok => WatchesAll(p, r.s, new, IF fd > top THEN fd ELSE top, f)
               /\ ~r.ok => WatchesAll(p, r.s, reg, top, f + 1)
  BY DEF new
<1>1. CASE p = "epoll"
  <2>1. r \in {Done(Watch(s, fd, reg[fd] \cup m)), Refused(s)}
    BY <1>1 DEF aeApiAddEvent, epoll_add
  <2>2. CASE r = Done(Watch(s, fd, reg[fd] \cup m))
    <3>1. r.ok /\ r.s = Watch(s, fd, reg[fd] \cup m)
      BY <2>2 DEF Done
    <3>2. r.s \in Api /\ r.s.watched = SetMask(s.watched, fd, reg[fd] \cup m)
      BY <1>0, <3>1, WatchIsApi
    <3>3. s.watched = reg
      BY <1>1, WatchesCases
    <3>4. r.s.watched = new
      BY <3>2, <3>3 DEF new, SetMask
    <3> QED BY <1>1, <3>1, <3>2, <3>4, WatchesCases
  <2>3. CASE r = Refused(s)
    <3>1. ~r.ok /\ r.s = s
      BY <2>3 DEF Refused
    <3> QED BY <1>1, <3>1, WatchesCases
  <2> QED BY <2>1, <2>2, <2>3
<1>2. CASE p = "kqueue"
  <2> DEFINE one == Watch(s, fd, s.watched[fd] \cup (m \cap {"r"}))
             both == Watch(s, fd, s.watched[fd] \cup m)
  <2>1. r = Done(both) \/ r = Refused(s) \/ r = Refused(one)
    BY <1>2 DEF aeApiAddEvent, kqueue_add
  <2>5. /\ \A e \in Fd : reg[e] \subseteq s.watched[e]
        /\ f = 0 => s.watched = reg
    BY <1>2, WatchesCases
  <2>2. CASE r = Done(both)
    <3>1. r.ok /\ r.s = both
      BY <2>2 DEF Done
    <3>2. r.s \in Api /\ r.s.watched = SetMask(s.watched, fd, s.watched[fd] \cup m)
      BY <1>0, <3>1, WatchIsApi
    <3>3. \A e \in Fd : new[e] \subseteq r.s.watched[e]
      BY <1>0, <1>a, <2>5, <3>2 DEF SetMask
    <3>4. f = 0 => r.s.watched = new
      BY <2>5, <3>2 DEF new, SetMask, SetMask
    <3>5. WatchesAll("kqueue", r.s, new, IF fd > top THEN fd ELSE top, f)
      BY <3>3, <3>4, WatchesCases
    <3> QED BY <1>2, <3>1, <3>2, <3>5
  <2>3. CASE r = Refused(s)
    <3>1. ~r.ok /\ r.s = s
      BY <2>3 DEF Refused
    <3> QED BY <1>2, <1>a, <2>5, <3>1, WatchesCases
  <2>4. CASE r = Refused(one)
    <3>1. ~r.ok /\ r.s = one
      BY <2>4 DEF Refused
    <3>2. r.s \in Api
          /\ r.s.watched = SetMask(s.watched, fd, s.watched[fd] \cup (m \cap {"r"}))
      BY <1>0, <3>1, WatchIsApi
    <3>3. \A e \in Fd : reg[e] \subseteq r.s.watched[e]
      BY <1>0, <2>5, <3>2 DEF SetMask
    <3>4. WatchesAll("kqueue", r.s, reg, top, f + 1)
      BY <1>a, <3>3, WatchesCases
    <3> QED BY <1>2, <3>1, <3>2, <3>4
  <2> QED BY <2>1, <2>2, <2>3, <2>4
<1>3. CASE p = "select"
  <2>1. r = Done(Watch(s, fd, s.watched[fd] \cup m))
    BY <1>3 DEF aeApiAddEvent, select_add
  <2>2. r.ok /\ r.s = Watch(s, fd, s.watched[fd] \cup m)
    BY <2>1 DEF Done
  <2>3. r.s \in Api /\ r.s.watched = SetMask(s.watched, fd, s.watched[fd] \cup m)
    BY <1>0, <2>2, WatchIsApi
  <2>4. s.watched = reg /\ \A e \in Fd : reg[e] # {} => e <= top
    BY <1>3, WatchesCases
  <2>5. r.s.watched = new
    BY <2>3, <2>4 DEF new, SetMask
  <2>6. \A e \in Fd : new[e] # {} => e <= IF fd > top THEN fd ELSE top
    BY <1>0, <1>a, <2>4
  <2> QED BY <1>3, <2>2, <2>3, <2>5, <2>6, WatchesCases
<1>4. CASE p = "evport"
  <2>0. \A e \in Fd : reg[e] \subseteq
                      IF e \in DOMAIN s.pending THEN s.pending[e] ELSE s.watched[e]
    BY <1>4, WatchesCases
  <2>1. CASE fd \notin DOMAIN s.pending
    <3>1. r \in {Done(Watch(s, fd, reg[fd] \cup m)), Refused(s)}
      BY <1>4, <2>1 DEF aeApiAddEvent, evport_add
    <3>2. CASE r = Done(Watch(s, fd, reg[fd] \cup m))
      <4>1. r.ok /\ r.s = Watch(s, fd, reg[fd] \cup m)
        BY <3>2 DEF Done
      <4>2. r.s \in Api /\ r.s.watched = SetMask(s.watched, fd, reg[fd] \cup m)
            /\ r.s.pending = s.pending
        BY <1>0, <4>1, WatchIsApi
      <4>3. \A e \in Fd : new[e] \subseteq
                          IF e \in DOMAIN r.s.pending THEN r.s.pending[e] ELSE r.s.watched[e]
        BY <1>0, <1>a, <2>0, <2>1, <4>2 DEF SetMask
      <4>4. WatchesAll("evport", r.s, new, IF fd > top THEN fd ELSE top, f)
        BY <4>3, WatchesCases
      <4> QED BY <1>4, <4>1, <4>2, <4>4
    <3>3. CASE r = Refused(s)
      <4>1. ~r.ok /\ r.s = s
        BY <3>3 DEF Refused
      <4> QED BY <1>4, <2>0, <4>1, WatchesCases
    <3> QED BY <3>1, <3>2, <3>3
  <2>2. CASE fd \in DOMAIN s.pending
    <3> DEFINE d == [s EXCEPT !.pending[fd] = @ \cup reg[fd] \cup m]
               pend == [s.pending EXCEPT ![fd] = @ \cup reg[fd] \cup m]
    <3>1. r = Done(d)
      BY <1>4, <2>2 DEF aeApiAddEvent, evport_add
    <3>2. d = [watched |-> s.watched, pending |-> pend]
      <4> HIDE DEF pend
      <4>1. d = [s EXCEPT !.pending = pend]
        BY DEF pend
      <4> HIDE DEF d
      <4>2. [s EXCEPT !.pending = pend] = [watched |-> s.watched, pending |-> pend]
        BY DEF Api
      <4> QED BY <4>1, <4>2
    <3>3. PICK D \in SUBSET Fd : s.pending \in [D -> Masks]
      BY DEF Api
    <3>4. pend \in [D -> Masks] /\ DOMAIN pend = DOMAIN s.pending
          /\ \A e \in D : s.pending[e] \subseteq pend[e]
      BY <1>0, <3>3 DEF Masks
    <3>6. pend[fd] = s.pending[fd] \cup reg[fd] \cup m
      BY <2>2, <3>3
    <3> HIDE DEF pend
    <3>5. r.ok /\ r.s.watched = s.watched /\ r.s.pending = pend /\ r.s \in Api
      <4>1. r.ok /\ r.s = [watched |-> s.watched, pending |-> pend]
        BY <3>1, <3>2 DEF Done
      <4>2. s.watched \in [Fd -> Masks] /\ pend \in UNION {[E -> Masks] : E \in SUBSET Fd}
        BY <1>0, <3>3, <3>4
      <4> QED BY <4>1, <4>2 DEF Api
    <3>7. \A e \in Fd : new[e] \subseteq
                        IF e \in DOMAIN r.s.pending THEN r.s.pending[e] ELSE r.s.watched[e]
      BY <1>a, <2>0, <2>2, <3>3, <3>4, <3>5, <3>6
    <3> QED BY <1>4, <3>5, <3>7, WatchesCases
  <2> QED BY <2>1, <2>2
<1> QED BY <1>1, <1>2, <1>3, <1>4 DEF Pollers

(* aeApiDelEvent covers what is left; n is the highest descriptor then.    *)
LEMMA DelWatches ==
    ASSUME NEW p \in Pollers, NEW s \in Api, NEW reg \in [Fd -> Masks], NEW top \in Int,
           NEW f \in Nat, WatchesAll(p, s, reg, top, f),
           NEW fd \in Fd, NEW m \in Masks, NEW d, d = aeApiDelEvent(p, s, reg[fd], fd, m),
           NEW n \in Int,
           \A e \in Fd : e <= top /\ SetMask(reg, fd, reg[fd] \ m)[e] # {} => e <= n
    PROVE  d \in Api /\ WatchesAll(p, d, SetMask(reg, fd, reg[fd] \ m), n, f)
<1> DEFINE new == SetMask(reg, fd, reg[fd] \ m)
<1>0. reg[fd] \in Masks /\ reg[fd] \ m \in Masks /\ s.watched[fd] \ m \in Masks
      /\ s.watched \in [Fd -> Masks] /\ Fd \subseteq Int
  BY PollAssumption DEF Masks, Api, Fd
<1>a. new \in [Fd -> Masks] /\ new[fd] = reg[fd] \ m /\ (\A e \in Fd \ {fd} : new[e] = reg[e])
  BY <1>0 DEF SetMask
<1>b. \A e \in Fd : e <= top /\ new[e] # {} => e <= n
  OBVIOUS
<1>c. SUFFICES d \in Api /\ WatchesAll(p, d, new, n, f)
  OBVIOUS
<1>d. new = SetMask(reg, fd, reg[fd] \ m)
  OBVIOUS
<1> HIDE DEF new
<1>m. reg[fd] \ m \in Masks /\ s.watched[fd] \ m \in Masks
  BY <1>0
<1>1. CASE p = "epoll"
  <2>1. d = Watch(s, fd, reg[fd] \ m)
    BY <1>1 DEF aeApiDelEvent, epoll_del
  <2>2. d \in Api /\ d.watched = SetMask(s.watched, fd, reg[fd] \ m)
    BY ONLY <1>m, <2>1, s \in Api, fd \in Fd, WatchIsApi
  <2>3. s.watched = reg
    BY <1>1, WatchesCases
  <2> QED BY <1>1, <1>d, <2>2, <2>3, WatchesCases
<1>2. CASE p = "kqueue"
  <2>1. d = Watch(s, fd, s.watched[fd] \ m)
    BY <1>2 DEF aeApiDelEvent, kqueue_del
  <2>2. d \in Api /\ d.watched = SetMask(s.watched, fd, s.watched[fd] \ m)
    BY ONLY <1>m, <2>1, s \in Api, fd \in Fd, WatchIsApi
  <2>3. /\ \A e \in Fd : reg[e] \subseteq s.watched[e]
        /\ f = 0 => s.watched = reg
    BY <1>2, WatchesCases
  <2>4. \A e \in Fd : new[e] \subseteq d.watched[e]
    BY <1>0, <1>a, <2>2, <2>3 DEF SetMask
  <2>5. f = 0 => d.watched = new
    BY <1>d, <2>2, <2>3
  <2> QED BY <1>2, <2>2, <2>4, <2>5, WatchesCases
<1>3. CASE p = "select"
  <2>1. d = Watch(s, fd, s.watched[fd] \ m)
    BY <1>3 DEF aeApiDelEvent, select_del
  <2>2. d \in Api /\ d.watched = SetMask(s.watched, fd, s.watched[fd] \ m)
    BY ONLY <1>m, <2>1, s \in Api, fd \in Fd, WatchIsApi
  <2>3. s.watched = reg /\ \A e \in Fd : reg[e] # {} => e <= top
    BY <1>3, WatchesCases
  <2>4. \A e \in Fd : new[e] # {} => e <= n
    BY <1>a, <1>b, <2>3
  <2>5. d.watched = new
    BY <1>d, <2>2, <2>3
  <2> QED BY <1>3, <2>2, <2>4, <2>5, WatchesCases
<1>4. CASE p = "evport"
  <2>0. \A e \in Fd : reg[e] \subseteq
                      IF e \in DOMAIN s.pending THEN s.pending[e] ELSE s.watched[e]
    BY <1>4, WatchesCases
  <2>1. CASE fd \notin DOMAIN s.pending
    <3>1. d = Watch(s, fd, reg[fd])
      BY <1>4, <2>1 DEF aeApiDelEvent, evport_del
    <3>0. reg[fd] \in Masks
      BY <1>0
    <3>2. d \in Api /\ d.watched = SetMask(s.watched, fd, reg[fd]) /\ d.pending = s.pending
      BY ONLY <3>0, <3>1, s \in Api, fd \in Fd, WatchIsApi
    <3>3. \A e \in Fd : new[e] \subseteq
                        IF e \in DOMAIN d.pending THEN d.pending[e] ELSE d.watched[e]
      BY <1>0, <1>a, <2>0, <2>1, <3>2 DEF SetMask
    <3> QED BY <1>4, <3>2, <3>3, WatchesCases
  <2>2. CASE fd \in DOMAIN s.pending
    <3> DEFINE left == s.pending[fd] \ m
               pend == IF left = {} THEN Restrict(s.pending, DOMAIN s.pending \ {fd})
                                    ELSE [s.pending EXCEPT ![fd] = left]
    <3>1. d = [s EXCEPT !.pending = pend]
      BY <1>4, <2>2 DEF aeApiDelEvent, evport_del
    <3>2. PICK D \in SUBSET Fd : s.pending \in [D -> Masks]
      BY DEF Api
    <3>3. \E E \in SUBSET Fd : pend \in [E -> Masks]
      <4>1. CASE left = {}
        BY <2>2, <3>2, <4>1 DEF Restrict
      <4>2. CASE left # {}
        <5>1. left \in Masks
          BY <2>2, <3>2 DEF Masks
        <5>2. [s.pending EXCEPT ![fd] = left] \in [D -> Masks]
          BY <5>1, <3>2
        <5> QED BY <5>2, <4>2, <3>2
      <4> QED BY <4>1, <4>2
    <3>4. \A e \in Fd : new[e] \subseteq IF e \in DOMAIN pend THEN pend[e] ELSE s.watched[e]
      <4>1. \A e \in Fd \ {fd} : /\ e \in DOMAIN pend <=> e \in DOMAIN s.pending
                                 /\ e \in DOMAIN s.pending => pend[e] = s.pending[e]
        BY <3>2 DEF Restrict
      <4>2. \A e \in Fd \ {fd} : new[e] \subseteq
                                 IF e \in DOMAIN pend THEN pend[e] ELSE s.watched[e]
        BY <1>a, <2>0, <4>1
      <4>3. new[fd] \subseteq left
        BY <1>a, <2>0, <2>2
      <4>4. CASE left = {}
        BY <4>2, <4>3, <4>4
      <4>5. CASE left # {}
        <5>1. fd \in DOMAIN pend /\ pend[fd] = left
          BY <2>2, <3>2, <4>5
        <5> QED BY <4>2, <4>3, <5>1
      <4> QED BY <4>4, <4>5
    <3> HIDE DEF pend
    <3>5. [s EXCEPT !.pending = pend] = [watched |-> s.watched, pending |-> pend]
      BY DEF Api
    <3>6. d.watched = s.watched /\ d.pending = pend /\ d \in Api
      BY <3>1, <3>3, <3>5 DEF Api
    <3> QED BY <1>4, <3>4, <3>6, WatchesCases
  <2> QED BY <2>1, <2>2
<1> QED BY <1>1, <1>2, <1>3, <1>4 DEF Pollers

(* aeApiPoll reports entries of descriptors and leaves everything that is  *)
(* registered covered: what an event port reports waits to be associated.  *)
LEMMA PollWatches ==
    ASSUME NEW p \in Pollers, NEW s \in Api, NEW reg \in [Fd -> Masks], NEW top \in Int,
           NEW f \in Nat, WatchesAll(p, s, reg, top, f),
           NEW r \in aeApiPoll(p, s, reg, top)
    PROVE  r.s \in Api /\ r.fired \subseteq Entry /\ WatchesAll(p, r.s, reg, top, f)
<1>0. \A m \in [Fd -> Masks] : Entries(m) \subseteq Entry
  BY DEF Entries, Entry
<1>a. \A limit : Readiness(limit) \subseteq [Fd -> Masks]
  BY DEF Readiness
<1>1. CASE p = "epoll"
  <2>1. PICK m \in [Fd -> Masks] : r = [s |-> s, fired |-> Entries(m)]
    BY <1>1, <1>a DEF aeApiPoll, epoll_poll
  <2> QED BY <1>0, <2>1
<1>2. CASE p = "kqueue"
  <2> DEFINE K == {[fd |-> q[1], mask |-> {q[2]}] :
                     q \in {x \in Fd \X {"r", "w"} : x[2] \in s.watched[x[1]]}}
  <2>1. K \subseteq Entry
    BY DEF Entry, Masks
  <2>2. r \in {[s |-> s, fired |-> g] : g \in SUBSET K}
    BY <1>2 DEF aeApiPoll, kqueue_poll
  <2> HIDE DEF K
  <2> QED BY <2>1, <2>2
<1>3. CASE p = "select"
  <2> DEFINE Report(m) == IF \A fd \in Fd : m[fd] = {} THEN {}
                       ELSE {[fd |-> fd, mask |-> m[fd] \cap reg[fd]] :
                                fd \in {x \in Fd : x <= top /\ reg[x] # {}}}
             limit == [fd \in Fd |-> IF fd <= top THEN s.watched[fd] ELSE {}]
  <2>1. r \in {[s |-> s, fired |-> Report(m)] : m \in Readiness(limit)}
    BY <1>3 DEF aeApiPoll, select_poll
  <2>2. ASSUME NEW m \in [Fd -> Masks] PROVE Report(m) \subseteq Entry
    <3>1. \A fd \in Fd : m[fd] \cap reg[fd] \in Masks
      BY DEF Masks
    <3> QED BY <3>1 DEF Entry
  <2> HIDE DEF Report, limit
  <2>3. PICK m \in [Fd -> Masks] : r = [s |-> s, fired |-> Report(m)]
    BY <1>a, <2>1
  <2> QED BY <2>2, <2>3
<1>4. CASE p = "evport"
  <2>0. \A e \in Fd : reg[e] \subseteq
                      IF e \in DOMAIN s.pending THEN s.pending[e] ELSE s.watched[e]
    BY <1>4, WatchesCases
  <2> DEFINE a == Associated(s).watched
  <2>1. a \in [Fd -> Masks] /\ \A e \in Fd : reg[e] \subseteq a[e]
    BY <2>0 DEF Associated, Api
  <2>2. PICK G \in SUBSET Fd, m \in [Fd -> Masks] :
             r = [fired |-> {[fd |-> fd, mask |-> m[fd]] : fd \in G},
                  s |-> [watched |-> [fd \in Fd |-> IF fd \in G THEN {} ELSE a[fd]],
                         pending |-> [fd \in G |-> a[fd]]]]
    <3> DEFINE Lim(got) == [fd \in Fd |-> IF fd \in got THEN Associated(s).watched[fd] ELSE {}]
               Reports(got) == {[fired |-> {[fd |-> fd, mask |-> m[fd]] : fd \in got},
                                 s |-> [watched |-> [fd \in Fd |-> IF fd \in got THEN {} ELSE a[fd]],
                                        pending |-> [fd \in got |-> a[fd]]]] :
                                   m \in Readiness(Lim(got))}
    <3>1. r \in UNION {Reports(got) : got \in SUBSET {fd \in Fd : a[fd] # {}}}
      BY <1>4 DEF aeApiPoll, evport_poll
    <3>2. PICK G \in SUBSET {fd \in Fd : a[fd] # {}} : r \in Reports(G)
      BY <3>1
    <3>3. \E m \in Readiness(Lim(G)) :
             r = [fired |-> {[fd |-> fd, mask |-> m[fd]] : fd \in G},
                  s |-> [watched |-> [fd \in Fd |-> IF fd \in G THEN {} ELSE a[fd]],
                         pending |-> [fd \in G |-> a[fd]]]]
      BY <3>2
    <3>4. Readiness(Lim(G)) \subseteq [Fd -> Masks]
      BY <1>a
    <3> HIDE DEF Lim, Reports, a
    <3> QED BY <3>2, <3>3, <3>4
  <2> HIDE DEF a
  <2> DEFINE w == [fd \in Fd |-> IF fd \in G THEN {} ELSE a[fd]]
             q == [fd \in G |-> a[fd]]
  <2>3. w \in [Fd -> Masks] /\ q \in [G -> Masks] /\ G \in SUBSET Fd
    BY <2>1 DEF Masks
  <2>4. \A e \in Fd : reg[e] \subseteq IF e \in DOMAIN q THEN q[e] ELSE w[e]
    BY <2>1
  <2>5. r.fired \subseteq Entry /\ r.s = [watched |-> w, pending |-> q]
    BY <2>2 DEF Entry
  <2> HIDE DEF w, q
  <2>6. r.s.watched = w /\ r.s.pending = q /\ r.s \in Api
    BY <2>3, <2>5 DEF Api
  <2>7. WatchesAll("evport", r.s, reg, top, f)
    BY <2>4, <2>6, WatchesCases
  <2> QED BY <1>4, <2>5, <2>6, <2>7
<1> QED BY <1>1, <1>2, <1>3, <1>4 DEF Pollers

(* The least number principle.                                             *)
LEMMA LeastNat ==
    ASSUME NEW T \in SUBSET Nat, T # {}
    PROVE  \E x \in T : \A y \in T : x <= y
<1>1. PICK x \in T : \A y \in T : <<y, x>> \notin OpToRel(<, Nat)
  BY NatLessThanWellFounded, WFMin
<1>2. \A y \in T : ~(y < x)
  BY <1>1 DEF OpToRel
<1> QED BY <1>2

(* What Min and Max choose: the nearest timer, the highest descriptor.     *)
LEMMA MinIsLeast ==
    ASSUME NEW T \in SUBSET Nat, T # {}
    PROVE  Min(T) \in T /\ \A y \in T : Min(T) <= y
<1>1. \E x \in T : \A y \in T : x <= y
  BY LeastNat
<1> QED BY <1>1 DEF Min

(* Max, on a set of descriptors that may hold -1: the fallback of maxfd.   *)
LEMMA MaxIsGreatest ==
    ASSUME NEW b \in Nat, NEW T \in SUBSET (-1 .. b), T # {}
    PROVE  Max(T) \in T /\ \A y \in T : y <= Max(T)
<1> DEFINE U == {x \in Nat : \E y \in T : x = b - y}
<1>1. PICK y0 \in T : TRUE
  OBVIOUS
<1>2. b - y0 \in U
  BY <1>1
<1>3. U \in SUBSET Nat /\ U # {}
  BY <1>2
<1>4. PICK x \in U : \A y \in U : x <= y
  <2> HIDE DEF U
  <2> QED BY <1>3, LeastNat
<1>5. PICK t \in T : x = b - t
  BY <1>4
<1>6. ASSUME NEW y \in T PROVE t >= y
  <2>1. b - y \in U
    OBVIOUS
  <2>2. x <= b - y
    BY <2>1, <1>4
  <2> QED BY <2>2, <1>5
<1>7. \E z \in T : \A y \in T : z >= y
  BY <1>6
<1>8. Max(T) \in T /\ \A y \in T : Max(T) >= y
  BY <1>7 DEF Max
<1> QED BY <1>8

(* aeCreateEventLoop: nothing is registered and nothing is watched.        *)
LEMMA InitWatch == Init => WatchInv
<1> SUFFICES ASSUME Init PROVE WatchInv
  OBVIOUS
<1> DEFINE none == [fd \in Fd |-> {}]
<1>1. apidata = [watched |-> none, pending |-> <<>>] /\ api \in Pollers
      /\ events = [fd \in Fd |-> [mask |-> {}, cb |-> 0]] /\ maxfd = -1 /\ fired = {}
      /\ faults = 0
  BY DEF Init, aeCreateEventLoop, aeApiCreate
<1>2. none \in [Fd -> Masks] /\ <<>> \in [{} -> Masks] /\ {} \in SUBSET Fd
  BY DEF Masks
<1>3. mask = none /\ \A fd \in Fd : mask[fd] = {}
  BY <1>1 DEF mask
<1>4. events \in [Fd -> [mask : Masks, cb : Nat]]
  BY <1>1 DEF Masks
<1> HIDE DEF none
<1>5. apidata \in Api /\ apidata.watched = none
  BY <1>1, <1>2 DEF Api
<1>6. \A p \in Pollers : WatchesAll(p, apidata, mask, maxfd, faults)
  BY <1>3, <1>5, WatchesCases DEF Pollers
<1> QED BY <1>1, <1>4, <1>5, <1>6 DEF WatchInv

(* The masks after aeCreateFileEvent and aeDeleteFileEvent.                *)
LEMMA MaskOf ==
    ASSUME WatchInv
    PROVE  /\ mask \in [Fd -> Masks]
           /\ \A fd \in Fd : mask[fd] = events[fd].mask
           /\ Fd \subseteq Int
  BY PollAssumption DEF WatchInv, mask, Fd

(* add covers the new events, or frees the record and covers the old ones. *)
LEMMA AddKeepsWatch ==
    ASSUME WatchInv, NEW fd \in 0 .. SetSize, NEW m \in Masks, add(fd, m), cbs \in Seq(Record)
    PROVE  WatchInv'
<1>0. api' = api /\ fired' = fired
  BY DEF add, Unmoved
<1>t. /\ api \in Pollers /\ apidata \in Api /\ maxfd \in Int /\ faults \in Nat
      /\ fired \subseteq Entry /\ WatchesAll(api, apidata, mask, maxfd, faults)
      /\ events \in [Fd -> [mask : Masks, cb : Nat]]
  BY DEF WatchInv
<1>m. mask \in [Fd -> Masks] /\ Fd \subseteq Int /\ \A e \in Fd : mask[e] = events[e].mask
  BY MaskOf
<1>1. CASE fd < SetSize /\ aeCreateFileEvent(fd, m, Len(cbs) + 1)
  <2>0. fd \in Fd
    BY <1>1, PollAssumption DEF Fd
  <2>1. PICK r \in aeApiAddEvent(api, apidata, mask[fd], fd, m) :
           /\ r.ok /\ apidata' = r.s
           /\ events' = [events EXCEPT ![fd] = [mask |-> @.mask \cup m, cb |-> Len(cbs) + 1]]
           /\ maxfd' = IF fd > maxfd THEN fd ELSE maxfd
           /\ faults' = faults
    BY <1>1, <1>m, <2>0 DEF aeCreateFileEvent
  <2>2. /\ r.s \in Api
        /\ WatchesAll(api, r.s, [mask EXCEPT ![fd] = @ \cup m],
                      IF fd > maxfd THEN fd ELSE maxfd, faults)
    BY <1>t, <1>m, <2>0, <2>1, AddWatches
  <2>3. PICK e \in [mask : Masks, cb : Nat] : e = [mask |-> events[fd].mask \cup m, cb |-> Len(cbs) + 1]
    <3>1. events[fd].mask \cup m \in Masks
      BY <1>t, <2>0 DEF Masks
    <3>2. Len(cbs) + 1 \in Nat
      BY LenProperties
    <3> QED BY <3>1, <3>2
  <2>4. events' = [events EXCEPT ![fd] = e]
    BY <2>1, <2>3
  <2>5. events' \in [Fd -> [mask : Masks, cb : Nat]]
    BY <1>t, <2>4
  <2>6. mask' = [mask EXCEPT ![fd] = @ \cup m]
    <3>1. mask' = [x \in Fd |-> events'[x].mask]
      BY DEF mask
    <3>2. \A x \in Fd : events'[x].mask = IF x = fd THEN mask[fd] \cup m ELSE mask[x]
      BY <1>t, <1>m, <2>0, <2>3, <2>4
    <3>3. mask' = [x \in Fd |-> IF x = fd THEN mask[fd] \cup m ELSE mask[x]]
      BY <3>1, <3>2
    <3> QED BY <1>m, <3>3
  <2>7. maxfd' \in Int
    BY <1>t, <1>m, <2>0, <2>1
  <2> QED BY <1>0, <1>t, <2>1, <2>2, <2>5, <2>6, <2>7 DEF WatchInv
<1>2. CASE aeCreateFileEventFails(fd, m)
  <2>0. events' = events /\ maxfd' = maxfd /\ mask' = mask
    BY <1>2 DEF aeCreateFileEventFails, mask
  <2>1. CASE fd >= SetSize /\ UNCHANGED <<apidata, faults>>
    BY <1>0, <1>t, <2>0, <2>1 DEF WatchInv
  <2>2. CASE fd < SetSize /\ Faulty(1) /\ \E r \in aeApiAddEvent(api, apidata, events[fd].mask, fd, m) :
                ~r.ok /\ apidata' = r.s
    <3>0. fd \in Fd
      BY <2>2, PollAssumption DEF Fd
    <3>1. PICK r \in aeApiAddEvent(api, apidata, mask[fd], fd, m) : ~r.ok /\ apidata' = r.s
      BY <1>m, <2>2, <3>0
    <3>2. r.s \in Api /\ WatchesAll(api, r.s, mask, maxfd, faults + 1)
      BY <1>t, <1>m, <3>0, <3>1, AddWatches
    <3>3. faults' = faults + 1 /\ faults' \in Nat
      BY <1>t, <2>2 DEF Faulty
    <3> QED BY <1>0, <1>t, <2>0, <3>1, <3>2, <3>3 DEF WatchInv
  <2> QED BY <1>2, <2>1, <2>2 DEF aeCreateFileEventFails
<1> QED BY <1>1, <1>2 DEF add

(* del covers the events that are left, also when the highest descriptor   *)
(* goes and maxfd has to be searched for.                                  *)
LEMMA DelKeepsWatch ==
    ASSUME WatchInv, NEW fd \in 0 .. SetSize, NEW m \in Masks, del_file(fd, m)
    PROVE  WatchInv'
<1>0. api' = api /\ fired' = fired /\ faults' = faults
  BY DEF del_file, aeDeleteFileEvent, Unmoved
<1>t. /\ api \in Pollers /\ apidata \in Api /\ maxfd \in Int /\ faults \in Nat
      /\ fired \subseteq Entry /\ WatchesAll(api, apidata, mask, maxfd, faults)
      /\ events \in [Fd -> [mask : Masks, cb : Nat]]
  BY DEF WatchInv
<1>m. mask \in [Fd -> Masks] /\ Fd \subseteq Int /\ \A e \in Fd : mask[e] = events[e].mask
  BY MaskOf
<1>1. CASE fd >= SetSize \/ events[fd].mask = {}
  <2>1. UNCHANGED <<apidata, events, maxfd>>
    BY <1>1 DEF del_file, aeDeleteFileEvent
  <2>2. mask' = mask
    BY <2>1 DEF mask
  <2> QED BY <1>0, <1>t, <2>1, <2>2 DEF WatchInv
<1>2. CASE ~(fd >= SetSize \/ events[fd].mask = {})
  <2> DEFINE T == {-1} \cup {j \in Fd : j < fd /\ events[j].mask # {}}
  <2>0. fd \in Fd
    BY <1>2, PollAssumption DEF Fd
  <2>1. /\ apidata' = aeApiDelEvent(api, apidata, mask[fd], fd, m)
        /\ events' = [events EXCEPT ![fd].mask = @ \ m]
        /\ maxfd' = IF fd = maxfd /\ events'[fd].mask = {} THEN Max(T) ELSE maxfd
    BY <1>2, <1>m, <2>0 DEF del_file, aeDeleteFileEvent
  <2>2. PICK e \in [mask : Masks, cb : Nat] :
             e = [events[fd] EXCEPT !.mask = @ \ m] /\ e.mask = mask[fd] \ m
    <3>0. PICK e0 \in [mask : Masks, cb : Nat] : e0 = events[fd]
      BY <1>t, <2>0
    <3>1. [e0 EXCEPT !.mask = @ \ m] = [mask |-> e0.mask \ m, cb |-> e0.cb]
      OBVIOUS
    <3>2. e0.mask \ m \in Masks /\ e0.cb \in Nat /\ e0.mask = mask[fd]
      BY <1>m, <2>0, <3>0 DEF Masks
    <3> QED BY <3>0, <3>1, <3>2
  <2>3. events' = [events EXCEPT ![fd] = e]
    BY <2>1, <2>2
  <2>4. events' \in [Fd -> [mask : Masks, cb : Nat]]
    BY <1>t, <2>3
  <2>5. \A x \in Fd : events'[x].mask = IF x = fd THEN mask[fd] \ m ELSE mask[x]
    BY <1>t, <1>m, <2>0, <2>2, <2>3
  <2>6. mask' = SetMask(mask, fd, mask[fd] \ m)
    <3>1. mask' = [x \in Fd |-> events'[x].mask]
      BY DEF mask
    <3>3. mask' = [x \in Fd |-> IF x = fd THEN mask[fd] \ m ELSE mask[x]]
      BY <3>1, <2>5
    <3> QED BY <1>m, <3>3 DEF SetMask
  <2>7. maxfd' \in Int
        /\ \A x \in Fd : x <= maxfd /\ SetMask(mask, fd, mask[fd] \ m)[x] # {} => x <= maxfd'
    <3>1. CASE fd = maxfd /\ events'[fd].mask = {}
      <4>1. SetSize - 1 \in Nat /\ T \in SUBSET (-1 .. SetSize - 1) /\ T # {}
        BY PollAssumption DEF Fd
      <4>2. maxfd' = Max(T)
        BY <2>1, <3>1
      <4> HIDE DEF T
      <4>3. maxfd' \in T /\ \A y \in T : y <= maxfd'
        BY <4>1, <4>2, MaxIsGreatest
      <4>4. maxfd' \in Int
        BY <4>1, <4>3, PollAssumption
      <4>5. ASSUME NEW x \in Fd, x <= maxfd, mask'[x] # {} PROVE x <= maxfd'
        <5>1. mask'[x] = events'[x].mask
          BY DEF mask
        <5>2. x # fd /\ x < fd /\ events[x].mask # {}
          BY <1>m, <1>t, <2>0, <2>5, <3>1, <4>5, <5>1
        <5>3. x \in T
          BY <5>2 DEF T
        <5> QED BY <4>3, <5>3
      <4> QED BY <2>6, <4>4, <4>5
    <3>2. CASE ~(fd = maxfd /\ events'[fd].mask = {})
      BY <1>t, <2>1, <3>2
    <3> QED BY <3>1, <3>2
  <2>8. apidata' \in Api /\ WatchesAll(api, apidata', mask', maxfd', faults)
    BY <1>t, <1>m, <2>0, <2>1, <2>6, <2>7, DelWatches
  <2> QED BY <1>0, <1>t, <2>4, <2>7, <2>8 DEF WatchInv
<1> QED BY <1>1, <1>2

(* Every step keeps the registered events covered.                         *)
LEMMA StepWatch ==
    ASSUME WatchInv, cbs \in Seq(Record), [Next]_vars
    PROVE  WatchInv'
<1>t. /\ api \in Pollers /\ apidata \in Api /\ maxfd \in Int /\ faults \in Nat
      /\ fired \subseteq Entry /\ WatchesAll(api, apidata, mask, maxfd, faults)
      /\ events \in [Fd -> [mask : Masks, cb : Nat]]
  BY DEF WatchInv
<1>0. ASSUME UNCHANGED <<api, apidata, events, maxfd, faults>>, fired' \subseteq fired
      PROVE  WatchInv'
  <2>1. mask' = mask
    BY <1>0 DEF mask
  <2> QED BY <1>0, <1>t, <2>1 DEF WatchInv
<1>1. CASE Operation
  <2>1. ASSUME NEW fd \in 0 .. SetSize, NEW m \in Masks \ {{}}, add(fd, m)
        PROVE  WatchInv'
    BY <2>1, AddKeepsWatch
  <2>2. ASSUME NEW fd \in 0 .. SetSize, NEW m \in Masks \ {{}}, del_file(fd, m)
        PROVE  WatchInv'
    BY <2>2, DelKeepsWatch
  <2>3. ASSUME NEW id, del_timer(id) PROVE WatchInv'
    BY <1>0, <2>3 DEF del_timer, Unmoved
  <2>4. ASSUME NEW ms, NEW data, SetsTimer(ms, data) PROVE WatchInv'
    BY <1>0, <2>4 DEF SetsTimer, Unmoved
  <2>5. CASE stops
    BY <1>0, <2>5 DEF stops, Unmoved
  <2> QED BY <1>1, <2>1, <2>2, <2>3, <2>4, <2>5 DEF Operation, after, tick
<1>2. CASE start
  BY <1>0, <1>2 DEF start
<1>3. CASE LoopStep
  <2>1. CASE aeProcessEvents \/ FileProcReturns \/ PassEnds
    BY <1>0, <2>1 DEF aeProcessEvents, FileProcReturns, PassEnds
  <2>2. CASE DispatchEntry
    <3>1. fired' \subseteq fired
      BY <2>2 DEF DispatchEntry
    <3> QED BY <1>0, <2>2, <3>1 DEF DispatchEntry
  <2>3. CASE PollReturns
    <3>1. PICK r \in aeApiPoll(api, apidata, mask, maxfd) :
             /\ apidata' = r.s /\ fired' = r.fired
             /\ IF r.fired # {} \/ tvp = 0 THEN UNCHANGED faults ELSE Faulty(1)
      BY <2>3 DEF PollReturns
    <3>2. UNCHANGED <<api, events, maxfd>> /\ mask' = mask
      BY <2>3 DEF PollReturns, mask
    <3>3. mask \in [Fd -> Masks]
      BY MaskOf
    <3>4. faults' = faults \/ faults' = faults + 1
      BY <3>1 DEF Faulty
    <3>5. faults' \in Nat
      BY <1>t, <3>4
    <3>6. WatchesAll(api, apidata, mask, maxfd, faults')
      <4>1. faults' = faults \/ (faults' # 0 /\ faults + 1 # 0)
        BY <1>t, <3>4
      <4> QED BY <1>t, <4>1, WatchesCases DEF Pollers
    <3>7. r.s \in Api /\ r.fired \subseteq Entry /\ WatchesAll(api, r.s, mask, maxfd, faults')
      BY <1>t, <3>1, <3>3, <3>5, <3>6, PollWatches
    <3> QED BY <1>t, <3>1, <3>2, <3>5, <3>7 DEF WatchInv
  <2>4. CASE TimerPassBegins \/ TimerPassedOver \/ TimerFires \/ aeTimerCallback \/ aeTimerFinalizer
    <3>1. UNCHANGED <<api, apidata, events, maxfd, faults, fired>>
      BY <2>4 DEF TimerPassBegins, TimerPassedOver, TimerFires, aeTimerCallback, aeTimerFinalizer
    <3> QED BY <1>0, <3>1
  <2> QED BY <1>3, <2>1, <2>2, <2>3, <2>4 DEF LoopStep
<1>4. CASE TimePasses
  BY <1>0, <1>4 DEF TimePasses, Tick
<1>5. CASE ClockSetBack
  <2>1. UNCHANGED <<api, apidata, events, maxfd, fired>> /\ faults' = faults + 1
    BY <1>5 DEF ClockSetBack, Faulty
  <2>2. mask' = mask /\ faults' \in Nat /\ faults' # 0
    BY <1>t, <2>1 DEF mask
  <2>3. WatchesAll(api, apidata, mask, maxfd, faults')
    BY <1>t, <2>2, WatchesCases DEF Pollers
  <2> QED BY <1>t, <2>1, <2>2, <2>3 DEF WatchInv
<1>6. CASE UNCHANGED vars
  BY <1>0, <1>6 DEF vars, loop_vars
<1> QED BY <1>1, <1>2, <1>3, <1>4, <1>5, <1>6 DEF Next

-----------------------------------------------------------------------------
WithId(t, id) == [t EXCEPT !.id = id]
WithLeft(t, left) == [t EXCEPT !.left = left]

(* A timer with another number or another time.                            *)
LEMMA TimerFields ==
    ASSUME NEW t \in Timer, NEW i \in Int, NEW l \in Nat
    PROVE  /\ WithId(t, i) \in Timer /\ WithId(t, i).cb = t.cb
           /\ WithId(t, i).id = i /\ WithId(t, i).left = t.left
           /\ WithLeft(t, l) \in Timer /\ WithLeft(t, l).cb = t.cb
           /\ WithLeft(t, l).id = t.id /\ WithLeft(t, l).left = l
  BY DEF Timer, WithId, WithLeft

(* A list whose elements were all replaced.                                *)
LEMMA ReplacedList ==
    ASSUME NEW S, NEW t \in Seq(S), NEW u \in [DOMAIN t -> S]
    PROVE  u \in Seq(S) /\ Len(u) = Len(t) /\ DOMAIN u = DOMAIN t
<1>1. DOMAIN t = 1 .. Len(t) /\ Len(t) \in Nat
  BY LenProperties
<1>2. u \in [1 .. Len(t) -> S]
  BY <1>1
<1>3. u \in Seq(S)
  BY <1>1, <1>2, IsASeq
<1> QED BY <1>1, <1>2, <1>3, LenProperties

(* The elements of the list of timers.                                     *)
LEMMA TimerTypes ==
    ASSUME NEW t \in Seq(Timer)
    PROVE  /\ Len(t) \in Nat /\ DOMAIN t = 1 .. Len(t) /\ DOMAIN t \subseteq Nat
           /\ \A k \in DOMAIN t : /\ t[k] \in Timer /\ t[k].cb \in Nat \ {0}
                                  /\ t[k].id \in Int /\ t[k].left \in Nat
<1>1. Len(t) \in Nat /\ DOMAIN t = 1 .. Len(t)
  BY LenProperties
<1>2. \A k \in 1 .. Len(t) : t[k] \in Timer
  BY ElementOfSeq
<1> QED BY <1>1, <1>2 DEF Timer

(* At finds the place of a record, and Following its successor.            *)
LEMMA AtIs ==
    ASSUME ListInv, NEW k \in DOMAIN timers, NEW c, timers[k].cb = c
    PROVE  /\ At(c) = k
           /\ Following(c) = IF k = Len(timers) THEN 0 ELSE timers[k + 1].cb
<1>1. \A j \in DOMAIN timers : timers[j].cb = c => j = k
  BY DEF ListInv
<1>2. At(c) = k
  BY <1>1 DEF At
<1> QED BY <1>2 DEF Following

(* The records of the timers that are set are those in armed.              *)
LEMMA ArmedIff ==
    ASSUME ListInv, NEW k \in DOMAIN timers
    PROVE  timers[k].cb \in armed <=> timers[k].id # Deleted
  BY DEF ListInv

(* Steps that only change numbers and times keep the list.                 *)
LEMMA ListSameShape ==
    ASSUME ListInv, timers' \in Seq(Timer), DOMAIN timers' = DOMAIN timers,
           \A k \in DOMAIN timers : /\ timers'[k].cb = timers[k].cb
                                    /\ timers'[k].id \in {timers[k].id, Deleted},
           cbs' \in Seq(Record), DOMAIN cbs \subseteq DOMAIN cbs',
           timeEventNextId' = timeEventNextId, armed' \subseteq armed,
           \A k \in DOMAIN timers : timers[k].cb \in armed' <=> timers'[k].id # Deleted
    PROVE  ListInv'
<1>1. \A k \in DOMAIN timers : timers'[k].id \in Deleted .. timeEventNextId - 1
  <2>1. timeEventNextId \in Nat
        /\ \A k \in DOMAIN timers : timers[k].id \in Deleted .. timeEventNextId - 1
    BY DEF ListInv
  <2>2. Deleted \in Deleted .. timeEventNextId - 1
    BY <2>1 DEF Deleted
  <2> QED BY <2>1, <2>2
<1>2. \A k \in DOMAIN timers' : timers'[k].cb \in DOMAIN cbs'
  BY DEF ListInv
<1>3. \A j, k \in DOMAIN timers' : timers'[j].cb = timers'[k].cb => j = k
  BY DEF ListInv
<1>4. armed' = {timers'[k].cb : k \in {k \in DOMAIN timers' : timers'[k].id # Deleted}}
  <2>1. \A c \in armed' : \E k \in DOMAIN timers : c = timers[k].cb
    BY DEF ListInv
  <2> QED BY <2>1
<1> QED BY <1>1, <1>2, <1>3, <1>4 DEF ListInv, Deleted

(* The walk also stays where it is.                                        *)
LEMMA WalkSameShape ==
    ASSUME ListInv, WalkInv, timers' \in Seq(Timer), DOMAIN timers' = DOMAIN timers,
           \A k \in DOMAIN timers : /\ timers'[k].cb = timers[k].cb
                                    /\ timers'[k].id \in {timers[k].id, Deleted},
           UNCHANGED <<pass, pc, call>>
    PROVE  WalkInv'
<1> SUFFICES ASSUME pass.te # 0
             PROVE  \E p \in DOMAIN timers :
                      /\ timers'[p].cb = pass.te
                      /\ \A k \in DOMAIN timers : k >= p => timers'[k].id <= pass.maxId
                      /\ call.at # "timer" =>
                           IF pass.prev = 0 THEN p = 1
                                            ELSE p > 1 /\ timers'[p - 1].cb = pass.prev
  BY DEF WalkInv
<1>0. timers \in Seq(Timer)
  BY DEF ListInv
<1>1. PICK p \in DOMAIN timers :
        /\ timers[p].cb = pass.te
        /\ \A k \in DOMAIN timers : k >= p => timers[k].id <= pass.maxId
        /\ call.at # "timer" =>
             IF pass.prev = 0 THEN p = 1
                              ELSE p > 1 /\ timers[p - 1].cb = pass.prev
  BY DEF WalkInv
<1>2. Deleted <= pass.maxId
  BY DEF WalkInv, Deleted
<1>3. \A k \in DOMAIN timers : k >= p => timers'[k].id <= pass.maxId
  BY <1>1, <1>2
<1>4. p > 1 => p - 1 \in DOMAIN timers
  <2>1. Len(timers) \in Nat /\ DOMAIN timers = 1 .. Len(timers)
    BY <1>0, TimerTypes
  <2> QED BY <2>1, <1>1
<1> QED BY <1>1, <1>3, <1>4

-----------------------------------------------------------------------------
(* emalloc of a callback record.                                           *)
LEMMA NewRecord ==
    ASSUME cbs \in Seq(Record), NEW data \in Int
    PROVE  /\ Len(cbs) \in Nat /\ DOMAIN cbs = 1 .. Len(cbs)
           /\ NewCb(data) \in Seq(Record) /\ Len(NewCb(data)) = Len(cbs) + 1
           /\ DOMAIN NewCb(data) = 1 .. Len(cbs) + 1
           /\ NewCb(data)[Len(cbs) + 1] = [data |-> data, freed |-> 0]
           /\ \A c \in DOMAIN cbs : NewCb(data)[c] = cbs[c]
<1>1. PICK r \in Record : r = [data |-> data, freed |-> 0]
  BY DEF Record
<1>2. Len(cbs) \in Nat /\ DOMAIN cbs = 1 .. Len(cbs)
  BY LenProperties
<1>3. NewCb(data) = Append(cbs, r)
  BY <1>1 DEF NewCb
<1>4. Append(cbs, r) \in Seq(Record) /\ Len(Append(cbs, r)) = Len(cbs) + 1
      /\ Append(cbs, r)[Len(cbs) + 1] = r /\ \A c \in 1 .. Len(cbs) : Append(cbs, r)[c] = cbs[c]
  BY AppendProperties
<1>5. DOMAIN Append(cbs, r) = 1 .. Len(cbs) + 1
  BY <1>4, LenProperties
<1> QED BY <1>1, <1>2, <1>3, <1>4, <1>5

(* efree of a callback record.                                             *)
LEMMA FreedRecord ==
    ASSUME NEW c \in Seq(Record), NEW i \in DOMAIN c
    PROVE  /\ efree(c, i) \in Seq(Record) /\ DOMAIN efree(c, i) = DOMAIN c
           /\ efree(c, i)[i].data = c[i].data /\ efree(c, i)[i].freed = IF c[i].freed < 2 THEN c[i].freed + 1 ELSE c[i].freed
           /\ c[i].freed \in Nat /\ c[i].data \in Int
           /\ \A j \in DOMAIN c \ {i} : efree(c, i)[j] = c[j]
<1>1. \A j \in DOMAIN c : c[j] \in Record
  BY ElementOfSeq, LenProperties
<1>2. PICK r \in Record : r = c[i]
  BY <1>1
<1> DEFINE n == IF r.freed < 2 THEN r.freed + 1 ELSE r.freed
<1>3. [r EXCEPT !.freed = IF @ < 2 THEN @ + 1 ELSE @] = [data |-> r.data, freed |-> n]
  <2>1. r \in [data : Int, freed : Nat]
    BY DEF Record
  <2> QED BY <2>1
<1>4. PICK s \in Record : s = [data |-> r.data, freed |-> n]
  <2>1. r.data \in Int /\ n \in Nat
    BY DEF Record
  <2> QED BY <2>1 DEF Record
<1>5. efree(c, i) = [c EXCEPT ![i] = s]
  BY <1>2, <1>3, <1>4 DEF efree
<1>6. [c EXCEPT ![i] = s] \in [DOMAIN c -> Record]
  BY <1>1
<1>7. efree(c, i) \in Seq(Record) /\ DOMAIN efree(c, i) = DOMAIN c
  BY <1>5, <1>6, ReplacedList
<1>8. efree(c, i)[i] = s /\ \A j \in DOMAIN c \ {i} : efree(c, i)[j] = c[j]
  BY <1>1, <1>5
<1> QED BY <1>2, <1>4, <1>7, <1>8 DEF Record

(* newAeEventloop: no timers.                                              *)
LEMMA InitTimers == Init => TimerInv
<1> SUFFICES ASSUME Init PROVE TimerInv
  OBVIOUS
<1>1. /\ timers = <<>> /\ cbs = <<>> /\ timeEventNextId = 0 /\ armed = {} /\ pc = "idle"
      /\ call = NoCall /\ pass = [te |-> 0, prev |-> 0, maxId |-> -1] /\ owed = {} /\ tvp = 0
  BY DEF Init, aeCreateEventLoop
<1>2. ListInv
  <2>1. timers \in Seq(Timer) /\ cbs \in Seq(Record) /\ DOMAIN timers = {}
    BY <1>1
  <2> QED BY <1>1, <2>1 DEF ListInv
<1>3. CallInv
  BY <1>1 DEF CallInv, NoCall
<1>4. WalkInv
  BY <1>1 DEF WalkInv
<1>5. OwedInv /\ SleepInv
  BY <1>1 DEF OwedInv, SleepInv
<1> QED BY <1>2, <1>3, <1>4, <1>5 DEF TimerInv

(* A step that leaves the list alone keeps it.                             *)
LEMMA SameList ==
    ASSUME ListInv, UNCHANGED <<timers, timeEventNextId, armed>>,
           cbs' \in Seq(Record), DOMAIN cbs \subseteq DOMAIN cbs'
    PROVE  ListInv'
  BY DEF ListInv

(* Operations on descriptors, and aeStop, do not touch the timers.         *)
LEMMA QuietKeepsTimers ==
    ASSUME TimerInv, UNCHANGED <<timers, timeEventNextId, armed, pc, call, pass, owed, tvp>>,
           cbs' \in Seq(Record), DOMAIN cbs \subseteq DOMAIN cbs'
    PROVE  TimerInv'
<1>1. ListInv'
  BY SameList DEF TimerInv
<1>2. CallInv'
  BY DEF TimerInv, CallInv
<1>3. WalkInv'
  BY DEF TimerInv, WalkInv
<1>4. OwedInv'
  BY DEF TimerInv, OwedInv
<1>5. SleepInv'
  BY DEF TimerInv, SleepInv
<1> QED BY <1>1, <1>2, <1>3, <1>4, <1>5 DEF TimerInv

(* EventLoop::add creates a record and perhaps frees it; no timer moves.   *)
LEMMA AddKeepsTimers ==
    ASSUME TimerInv, NEW fd \in 0 .. SetSize, NEW m, add(fd, m)
    PROVE  TimerInv'
<1>0. cbs \in Seq(Record) /\ fd \in Int
  BY PollAssumption DEF TimerInv, ListInv
<1>1. UNCHANGED <<timers, timeEventNextId, armed, pc, call, pass, owed, tvp>>
  BY DEF add, Unmoved
<1>2. cbs' = NewCb(fd) \/ cbs' = efree(NewCb(fd), Len(cbs) + 1)
  BY DEF add
<1>3. NewCb(fd) \in Seq(Record) /\ DOMAIN cbs \subseteq DOMAIN NewCb(fd)
      /\ Len(cbs) + 1 \in DOMAIN NewCb(fd)
  <2>1. Len(cbs) \in Nat /\ DOMAIN cbs = 1 .. Len(cbs) /\ NewCb(fd) \in Seq(Record)
        /\ DOMAIN NewCb(fd) = 1 .. Len(cbs) + 1
    BY <1>0, NewRecord
  <2> QED BY <2>1
<1>4. efree(NewCb(fd), Len(cbs) + 1) \in Seq(Record)
      /\ DOMAIN efree(NewCb(fd), Len(cbs) + 1) = DOMAIN NewCb(fd)
  BY <1>3, FreedRecord
<1> QED BY <1>1, <1>2, <1>3, <1>4, QuietKeepsTimers

(* aeMain begins, with no callback open and no pass under way.             *)
LEMMA StartKeepsTimers ==
    ASSUME TimerInv, start
    PROVE  TimerInv'
<1>1. UNCHANGED <<timers, timeEventNextId, armed, cbs, call, pass, owed, tvp>>
      /\ pc = "idle" /\ pc' = "poll"
  BY DEF start, aeMainBegins, php_vars
<1>2. ListInv'
  BY <1>1, SameList DEF TimerInv, ListInv
<1>3. CallInv' /\ SleepInv'
  BY <1>1 DEF TimerInv, CallInv, SleepInv
<1>4. WalkInv'
  BY <1>1 DEF TimerInv, WalkInv
<1>5. OwedInv'
  BY <1>1 DEF TimerInv, OwedInv
<1> QED BY <1>2, <1>3, <1>4, <1>5 DEF TimerInv

(* The timeout of the poll is the time left to the nearest timer.          *)
LEMMA NearestIs ==
    ASSUME timers \in Seq(Timer)
    PROVE  /\ NearestTimer \in Nat \cup {Forever}
           /\ \A k \in DOMAIN timers : NearestTimer # Forever /\ NearestTimer <= timers[k].left
<1>1. CASE timers = <<>>
  BY <1>1 DEF NearestTimer, Forever
<1>2. CASE timers # <<>>
  <2> DEFINE T == {timers[k].left : k \in DOMAIN timers}
  <2>1. T \in SUBSET Nat
    BY TimerTypes
  <2>2. Len(timers) # 0 /\ 1 \in DOMAIN timers
    BY <1>2, EmptySeq, TimerTypes
  <2>3. T # {}
    BY <2>2
  <2>4. NearestTimer = Min(T)
    BY <1>2 DEF NearestTimer
  <2>5. \A k \in DOMAIN timers : timers[k].left \in T
    OBVIOUS
  <2> HIDE DEF T
  <2>6. NearestTimer \in Nat /\ \A y \in T : NearestTimer <= y
    BY <2>1, <2>3, <2>4, MinIsLeast
  <2>7. NearestTimer # Forever
    BY <2>6 DEF Forever
  <2> QED BY <2>5, <2>6, <2>7
<1> QED BY <1>1, <1>2

(* The steps of the loop from the poll to the last file event, and the end *)
(* of the pass, leave the list of timers alone.                            *)
LEMMA PollKeepsTimers ==
    ASSUME TimerInv, UNCHANGED php_vars,
           aeProcessEvents \/ PollReturns \/ DispatchEntry \/ FileProcReturns \/ PassEnds,
           WatchInv
    PROVE  TimerInv'
<1>0. UNCHANGED <<timers, timeEventNextId, armed, cbs, owed>>
  BY DEF php_vars, aeProcessEvents, PollReturns, DispatchEntry, FileProcReturns, PassEnds
<1>1. ListInv'
  BY <1>0, SameList DEF TimerInv, ListInv
<1>t. timers \in Seq(Timer) /\ CallInv /\ WalkInv /\ OwedInv /\ SleepInv
  BY DEF TimerInv, ListInv
<1>2. CASE aeProcessEvents
  <2>1. pc = "poll" /\ pc' = "sleep" /\ tvp' = NearestTimer /\ UNCHANGED <<call, pass>>
    BY <1>2 DEF aeProcessEvents
  <2>2. SleepInv'
    BY <1>0, <1>t, <2>1, NearestIs DEF SleepInv
  <2>3. CallInv' /\ WalkInv' /\ OwedInv'
    BY <1>0, <1>t, <2>1 DEF CallInv, WalkInv, OwedInv
  <2> QED BY <1>1, <2>2, <2>3 DEF TimerInv
<1>3. CASE PollReturns
  <2>1. pc = "sleep" /\ pc' = "dispatch" /\ tvp' = 0 /\ UNCHANGED <<call, pass>>
    BY <1>3 DEF PollReturns
  <2>2. CallInv' /\ WalkInv' /\ OwedInv' /\ SleepInv'
    BY <1>0, <1>t, <2>1 DEF CallInv, WalkInv, OwedInv, SleepInv
  <2> QED BY <1>1, <2>2 DEF TimerInv
<1>4. CASE DispatchEntry
  <2>1. pc = "dispatch" /\ call = NoCall /\ UNCHANGED <<pc, tvp, pass>>
    BY <1>4 DEF DispatchEntry
  <2>2. PICK e \in fired : call' = IF e.mask \cap events[e.fd].mask = {} THEN NoCall
                                   ELSE [cb |-> events[e.fd].cb, at |-> "file"]
    BY <1>4 DEF DispatchEntry
  <2>3. events[e.fd].cb \in Nat
    <3>1. e.fd \in Fd
      BY <2>2 DEF WatchInv, Entry
    <3> QED BY <3>1 DEF WatchInv
  <2>4. call' \in [cb : Nat, at : {"none", "file"}] /\ (call'.at = "none" => call' = NoCall)
    BY <2>2, <2>3 DEF NoCall
  <2>5. CallInv'
    BY <1>t, <2>1, <2>4 DEF CallInv
  <2>6. WalkInv'
    BY <1>0, <1>t, <2>1 DEF WalkInv
  <2>7. OwedInv' /\ SleepInv'
    BY <1>0, <1>t, <2>1 DEF OwedInv, SleepInv
  <2> QED BY <1>1, <2>5, <2>6, <2>7 DEF TimerInv
<1>5. CASE FileProcReturns
  <2>1. call.at = "file" /\ call' = NoCall /\ UNCHANGED <<pc, tvp, pass>>
    BY <1>5 DEF FileProcReturns
  <2>2. CallInv'
    BY <1>t, <2>1 DEF CallInv, NoCall
  <2>3. WalkInv'
    BY <1>0, <1>t, <2>1 DEF WalkInv, CallInv
  <2>4. OwedInv' /\ SleepInv'
    BY <1>0, <1>t, <2>1 DEF OwedInv, SleepInv, CallInv
  <2> QED BY <1>1, <2>2, <2>3, <2>4 DEF TimerInv
<1>6. CASE PassEnds
  <2>1. /\ pc = "timers" /\ pc' \in {"idle", "poll"} /\ call = NoCall /\ pass.te = 0
        /\ pass' = [pass EXCEPT !.prev = 0, !.maxId = -1] /\ UNCHANGED <<call, tvp>>
    BY <1>6 DEF PassEnds
  <2>2. pass' = [te |-> 0, prev |-> 0, maxId |-> -1]
    BY <1>t, <2>1 DEF WalkInv
  <2>3. WalkInv'
    BY <2>2 DEF WalkInv
  <2>4. CallInv'
    BY <1>t, <2>1, <2>2 DEF CallInv, NoCall
  <2>5. owed = {}
    <3>1. \A p \in DOMAIN timers : timers[p].cb # 0
      BY <1>t, TimerTypes
    <3> QED BY <1>t, <2>1, <3>1 DEF OwedInv
  <2>6. OwedInv' /\ SleepInv'
    BY <1>0, <1>t, <2>1, <2>5 DEF OwedInv, SleepInv
  <2> QED BY <1>1, <2>3, <2>4, <2>6 DEF TimerInv
<1> QED BY <1>2, <1>3, <1>4, <1>5, <1>6

-----------------------------------------------------------------------------
(* The place after p in a list of n.                                       *)
LEMMA NextPlace ==
    ASSUME NEW n \in Nat, NEW p \in 1 .. n
    PROVE  /\ p # n => p + 1 \in 1 .. n
           /\ (p + 1) - 1 = p /\ p + 1 > 1 /\ p >= p
           /\ \A k \in 1 .. n : /\ k >= p + 1 => k >= p
                                /\ p <= k /\ k # p => p # n /\ p + 1 <= k
  OBVIOUS

(* Where the walk stands.                                                  *)
LEMMA WalkStands ==
    ASSUME TimerInv, pass.te # 0
    PROVE  \E p \in 1 .. Len(timers) :
             /\ timers[p].cb = pass.te /\ At(pass.te) = p /\ te = timers[p]
             /\ Following(pass.te) = IF p = Len(timers) THEN 0 ELSE timers[p + 1].cb
             /\ \A k \in 1 .. Len(timers) : k >= p => timers[k].id <= pass.maxId
             /\ call.at # "timer" =>
                  IF pass.prev = 0 THEN p = 1
                  ELSE p > 1 /\ timers[p - 1].cb = pass.prev /\ At(pass.prev) = p - 1
<1>0. timers \in Seq(Timer) /\ ListInv /\ WalkInv
  BY DEF TimerInv, ListInv
<1>1. Len(timers) \in Nat /\ DOMAIN timers = 1 .. Len(timers)
  BY <1>0, TimerTypes
<1>2. PICK p \in DOMAIN timers :
        /\ timers[p].cb = pass.te
        /\ \A k \in DOMAIN timers : k >= p => timers[k].id <= pass.maxId
        /\ call.at # "timer" =>
             IF pass.prev = 0 THEN p = 1
                              ELSE p > 1 /\ timers[p - 1].cb = pass.prev
  BY <1>0 DEF WalkInv
<1>3. At(pass.te) = p /\ Following(pass.te) = IF p = Len(timers) THEN 0 ELSE timers[p + 1].cb
  BY <1>0, <1>2, AtIs
<1>4. te = timers[p]
  BY <1>3 DEF te
<1>5. ASSUME call.at # "timer", pass.prev # 0 PROVE At(pass.prev) = p - 1
  <2>1. p - 1 \in DOMAIN timers /\ timers[p - 1].cb = pass.prev
    BY <1>1, <1>2, <1>5
  <2> QED BY <1>0, <2>1, AtIs
<1> QED BY <1>1, <1>2, <1>3, <1>4, <1>5

(* Where the walk goes next: the timer after the one at p, or the end.     *)
LEMMA WalkMovesOn ==
    ASSUME TimerInv, NEW p \in 1 .. Len(timers), timers[p].cb = pass.te,
           \A k \in 1 .. Len(timers) : k >= p => timers[k].id <= pass.maxId,
           pass.te # 0, timers' \in Seq(Timer), Len(timers') = Len(timers),
           \A k \in 1 .. Len(timers) : /\ timers'[k].cb = timers[k].cb
                                       /\ timers'[k].id \in {timers[k].id, Deleted},
           pass' = [te |-> IF p = Len(timers) THEN 0 ELSE timers[p + 1].cb,
                    prev |-> pass.te, maxId |-> pass.maxId],
           pc' = pc, call' = NoCall
    PROVE  WalkInv'
<1>0. timers \in Seq(Timer) /\ WalkInv
  BY DEF TimerInv, ListInv
<1>1. Len(timers) \in Nat /\ DOMAIN timers = 1 .. Len(timers) /\ DOMAIN timers' = 1 .. Len(timers)
      /\ \A k \in 1 .. Len(timers) : timers[k].cb \in Nat \ {0}
  BY <1>0, TimerTypes
<1>2. pass \in [te : Nat, prev : Nat, maxId : Int] /\ pc = "timers" /\ pass.maxId >= Deleted
  BY <1>0 DEF WalkInv
<1>3. CASE p = Len(timers)
  BY <1>2, <1>3 DEF WalkInv
<1>4. CASE p # Len(timers)
  <2>1. p + 1 \in 1 .. Len(timers) /\ (p + 1) - 1 = p /\ p + 1 > 1
    BY <1>1, <1>4, NextPlace
  <2>2. pass'.te = timers[p + 1].cb /\ pass'.prev = pass.te /\ pass'.maxId = pass.maxId
        /\ pass' \in [te : Nat, prev : Nat, maxId : Int]
    <3>1. PICK n \in Nat : n = timers[p + 1].cb
      BY <1>1, <2>1
    <3>2. pass' = [te |-> n, prev |-> pass.te, maxId |-> pass.maxId]
      BY <1>4, <3>1
    <3> QED BY <1>2, <3>1, <3>2
  <2>3. \A k \in 1 .. Len(timers) : k >= p + 1 => timers'[k].id <= pass.maxId
    <3>1. \A k \in 1 .. Len(timers) : k >= p + 1 => k >= p
      BY <1>1, NextPlace
    <3>2. Deleted <= pass.maxId
      BY <1>2 DEF Deleted
    <3> QED BY <3>1, <3>2
  <2>4. timers'[p + 1].cb = pass'.te /\ timers'[(p + 1) - 1].cb = pass'.prev
    BY <2>1, <2>2
  <2> QED BY <1>1, <1>2, <2>1, <2>2, <2>3, <2>4 DEF WalkInv
<1> QED BY <1>3, <1>4

(* PassBegins: the pass stands at the head, and every timer that is due,   *)
(* or all when the clock went back, lies ahead.                            *)
LEMMA PassBeginsKeepsTimers ==
    ASSUME TimerInv, TimerPassBegins
    PROVE  TimerInv'
<1>0. timers \in Seq(Timer) /\ ListInv /\ CallInv /\ SleepInv /\ timeEventNextId \in Nat
      /\ cbs \in Seq(Record)
  BY DEF TimerInv, ListInv
<1>1. Len(timers) \in Nat /\ DOMAIN timers = 1 .. Len(timers)
      /\ \A k \in 1 .. Len(timers) : /\ timers[k] \in Timer /\ timers[k].cb \in Nat \ {0}
                                     /\ timers[k].id \in Int /\ timers[k].left \in Nat
  BY <1>0, TimerTypes
<1>2. /\ pc = "dispatch" /\ call = NoCall /\ pc' = "timers" /\ UNCHANGED <<call, tvp, cbs, armed, timeEventNextId>>
      /\ timers' = [k \in DOMAIN timers |-> IF skewed THEN WithLeft(timers[k], 0) ELSE timers[k]]
      /\ owed' = {timers[k].cb : k \in {k \in DOMAIN timers : timers[k].id # Deleted /\
                                                             (skewed \/ timers[k].left = 0)}}
      /\ pass' = [te |-> IF timers = <<>> THEN 0 ELSE timers[1].cb, prev |-> 0,
                  maxId |-> timeEventNextId - 1]
  BY DEF TimerPassBegins, PassBegins, WithLeft, php_vars
<1>3. \A k \in DOMAIN timers : /\ timers'[k] \in Timer /\ timers'[k].cb = timers[k].cb
                               /\ timers'[k].id = timers[k].id
                               /\ timers'[k].left = IF skewed THEN 0 ELSE timers[k].left
  <2> SUFFICES ASSUME NEW k \in DOMAIN timers
               PROVE  /\ timers'[k] \in Timer /\ timers'[k].cb = timers[k].cb
                      /\ timers'[k].id = timers[k].id
                      /\ timers'[k].left = IF skewed THEN 0 ELSE timers[k].left
    OBVIOUS
  <2>1. timers[k] \in Timer /\ 0 \in Nat /\ 0 \in Int
    BY <1>1
  <2>2. timers'[k] = IF skewed THEN WithLeft(timers[k], 0) ELSE timers[k]
    BY <1>2
  <2>3. /\ WithLeft(timers[k], 0) \in Timer /\ WithLeft(timers[k], 0).cb = timers[k].cb
        /\ WithLeft(timers[k], 0).id = timers[k].id /\ WithLeft(timers[k], 0).left = 0
    BY <2>1, TimerFields
  <2> QED BY <2>1, <2>2, <2>3
<1>4. timers' \in Seq(Timer) /\ DOMAIN timers' = DOMAIN timers
  <2>1. timers' = [k \in DOMAIN timers |-> timers'[k]]
    <3>1. timers' = [k \in DOMAIN timers |-> IF skewed THEN WithLeft(timers[k], 0) ELSE timers[k]]
      BY <1>2
    <3> QED BY <3>1
  <2>2. \A k \in DOMAIN timers : timers'[k] \in Timer
    BY <1>3
  <2>3. timers' \in [DOMAIN timers -> Timer]
    BY <2>1, <2>2
  <2> QED BY <1>0, <2>3, ReplacedList
<1>5. ListInv'
  <2>1. \A k \in DOMAIN timers : timers[k].cb \in armed' <=> timers'[k].id # Deleted
    BY <1>0, <1>2, <1>3, ArmedIff
  <2>2. \A k \in DOMAIN timers : /\ timers'[k].cb = timers[k].cb
                                 /\ timers'[k].id \in {timers[k].id, Deleted}
    BY <1>3
  <2>3. cbs' \in Seq(Record) /\ DOMAIN cbs \subseteq DOMAIN cbs' /\ armed' \subseteq armed
        /\ timeEventNextId' = timeEventNextId
    BY <1>0, <1>2
  <2> QED BY <1>0, <1>4, <2>1, <2>2, <2>3, ListSameShape
<1>6. CallInv'
  BY <1>0, <1>2 DEF CallInv, NoCall
<1>7. WalkInv'
  <2>1. CASE timers = <<>>
    BY <1>0, <1>2, <2>1 DEF WalkInv
  <2>2. CASE timers # <<>>
    <3>1. 1 \in DOMAIN timers
      BY <1>0, <1>1, <2>2, EmptySeq
    <3>2. pass' = [te |-> timers[1].cb, prev |-> 0, maxId |-> timeEventNextId - 1]
      BY <1>2, <2>2
    <3>3. timers[1].cb \in Nat
      BY <1>1, <3>1
    <3>4. pass' \in [te : Nat, prev : Nat, maxId : Int] /\ pass'.maxId >= Deleted
      BY <1>0, <3>2, <3>3 DEF Deleted
    <3>5. \A k \in DOMAIN timers' : timers'[k].id <= pass'.maxId
      <4>1. \A k \in DOMAIN timers : timers[k].id \in Deleted .. timeEventNextId - 1
        BY <1>0 DEF ListInv
      <4>2. pass'.maxId = timeEventNextId - 1
        BY <3>2
      <4> QED BY <1>0, <1>1, <1>3, <1>4, <4>1, <4>2 DEF Deleted
    <3>6. timers'[1].cb = pass'.te /\ pass'.prev = 0
      BY <1>3, <3>1, <3>2
    <3> QED BY <1>2, <1>4, <3>1, <3>4, <3>5, <3>6 DEF WalkInv
  <2> QED BY <2>1, <2>2
<1>8. OwedInv'
  <2>1. ASSUME NEW c \in owed'
        PROVE  \E p, k \in DOMAIN timers' :
                 /\ p <= k /\ timers'[p].cb = pass'.te /\ timers'[k].cb = c
                 /\ timers'[k].id # Deleted /\ timers'[k].left = 0
                 /\ call'.at = "timer" => p # k
    <3>1. PICK k \in DOMAIN timers : timers[k].cb = c /\ timers[k].id # Deleted
                                     /\ (skewed \/ timers[k].left = 0)
      BY <1>2
    <3>2. 1 \in DOMAIN timers /\ 1 <= k
      BY <1>1, <3>1
    <3>3. timers # <<>>
      BY <3>1
    <3>4. pass'.te = timers[1].cb /\ call'.at # "timer"
      BY <1>2, <3>3 DEF NoCall
    <3>5. timers'[k].left = 0 /\ timers'[k].cb = c /\ timers'[k].id # Deleted
      BY <1>3, <3>1
    <3> QED BY <1>3, <1>4, <3>2, <3>4, <3>5
  <2> QED BY <1>2, <2>1 DEF OwedInv
<1>9. SleepInv'
  BY <1>0, <1>2 DEF SleepInv
<1> QED BY <1>5, <1>6, <1>7, <1>8, <1>9 DEF TimerInv

(* A timer that is not due becomes the predecessor of the next one.        *)
LEMMA PassedOverKeepsTimers ==
    ASSUME TimerInv, TimerPassedOver
    PROVE  TimerInv'
<1>0. timers \in Seq(Timer) /\ ListInv /\ CallInv /\ WalkInv /\ OwedInv /\ SleepInv
      /\ cbs \in Seq(Record)
  BY DEF TimerInv, ListInv
<1>1. Len(timers) \in Nat /\ DOMAIN timers = 1 .. Len(timers)
      /\ \A k \in 1 .. Len(timers) : /\ timers[k].cb \in Nat \ {0} /\ timers[k].id \in Int
                                     /\ timers[k].left \in Nat
  BY <1>0, TimerTypes
<1>2. /\ pc = "timers" /\ call = NoCall /\ pass.te # 0
      /\ UNCHANGED <<timers, timeEventNextId, armed, cbs, pc, tvp, call, owed>>
      /\ te.id > pass.maxId \/ te.left > 0
      /\ pass' = [pass EXCEPT !.te = Following(@), !.prev = IF te.id > pass.maxId THEN @ ELSE pass.te]
  BY DEF TimerPassedOver, PassesOver, Walking, php_vars
<1>3. PICK p \in 1 .. Len(timers) :
             /\ timers[p].cb = pass.te /\ te = timers[p]
             /\ Following(pass.te) = IF p = Len(timers) THEN 0 ELSE timers[p + 1].cb
             /\ \A k \in 1 .. Len(timers) : k >= p => timers[k].id <= pass.maxId
  BY <1>2, WalkStands
<1>4. pass.maxId \in Int /\ timers[p].id <= pass.maxId
  <2>1. p >= p
    BY <1>1, NextPlace
  <2> QED BY <1>0, <1>3, <2>1 DEF WalkInv
<1>5. ~(te.id > pass.maxId) /\ timers[p].left > 0
  BY <1>1, <1>2, <1>3, <1>4
<1>6. pass' = [te |-> Following(pass.te), prev |-> pass.te, maxId |-> pass.maxId]
  <2>1. pass' = [pass EXCEPT !.te = Following(pass.te), !.prev = pass.te]
    BY <1>2, <1>5
  <2>2. pass \in [te : Nat, prev : Nat, maxId : Int]
    BY <1>0 DEF WalkInv
  <2> QED BY <2>1, <2>2
<1>7. WalkInv'
  <2>1. timers' \in Seq(Timer) /\ Len(timers') = Len(timers)
        /\ \A k \in 1 .. Len(timers) : /\ timers'[k].cb = timers[k].cb
                                       /\ timers'[k].id \in {timers[k].id, Deleted}
    BY <1>0, <1>2
  <2>2. pass' = [te |-> IF p = Len(timers) THEN 0 ELSE timers[p + 1].cb,
                 prev |-> pass.te, maxId |-> pass.maxId]
    BY <1>3, <1>6
  <2> QED BY <1>2, <1>3, <2>1, <2>2, WalkMovesOn
<1>8. ListInv'
  BY <1>0, <1>2, SameList
<1>9. CallInv' /\ SleepInv'
  BY <1>0, <1>2 DEF CallInv, SleepInv, NoCall
<1>10. OwedInv'
  <2>1. ASSUME NEW c \in owed
        PROVE  \E i, k \in DOMAIN timers :
                 /\ i <= k /\ timers[i].cb = pass'.te /\ timers[k].cb = c
                 /\ timers[k].id # Deleted /\ timers[k].left = 0
    <3>1. PICK i, k \in DOMAIN timers :
                 /\ i <= k /\ timers[i].cb = pass.te /\ timers[k].cb = c
                 /\ timers[k].id # Deleted /\ timers[k].left = 0
      BY <1>0 DEF OwedInv
    <3>2. i = p
      BY <1>0, <1>1, <1>3, <3>1 DEF ListInv
    <3>3. k # p
      BY <1>5, <3>1
    <3>4. p + 1 \in DOMAIN timers /\ p + 1 <= k /\ p # Len(timers)
      BY <1>1, <3>1, <3>2, <3>3
    <3>5. pass'.te = timers[p + 1].cb
      BY <1>3, <1>6, <3>4
    <3> QED BY <3>1, <3>4, <3>5
  <2>2. call'.at # "timer"
    BY <1>2 DEF NoCall
  <2> QED BY <1>0, <1>2, <2>1, <2>2 DEF OwedInv
<1> QED BY <1>7, <1>8, <1>9, <1>10 DEF TimerInv

(* A timer fires: it is owed no more.                                      *)
LEMMA FiresKeepsTimers ==
    ASSUME TimerInv, TimerFires
    PROVE  TimerInv'
<1>0. timers \in Seq(Timer) /\ ListInv /\ CallInv /\ WalkInv /\ OwedInv /\ SleepInv
      /\ cbs \in Seq(Record)
  BY DEF TimerInv, ListInv
<1>1. /\ pc = "timers" /\ call = NoCall /\ pass.te # 0
      /\ UNCHANGED <<timers, timeEventNextId, armed, cbs, pc, tvp, pass>>
      /\ call' = [cb |-> pass.te, at |-> "timer"] /\ owed' = owed \ {pass.te}
  BY DEF TimerFires, Fires, Walking, php_vars
<1>2. ListInv'
  BY <1>0, <1>1, SameList
<1>3. CallInv' /\ SleepInv'
  BY <1>0, <1>1 DEF CallInv, SleepInv, WalkInv
<1>4. WalkInv'
  BY <1>0, <1>1 DEF WalkInv
<1>5. OwedInv'
  <2>1. ASSUME NEW c \in owed'
        PROVE  \E i, k \in DOMAIN timers :
                 /\ i <= k /\ timers[i].cb = pass.te /\ timers[k].cb = c
                 /\ timers[k].id # Deleted /\ timers[k].left = 0 /\ i # k
    BY <1>0, <1>1 DEF OwedInv
  <2> QED BY <1>1, <2>1 DEF OwedInv
<1> QED BY <1>2, <1>3, <1>4, <1>5 DEF TimerInv

(* aeTimerCallback returns an int, whatever interval it was given.         *)
LEMMA ReturnsAnInt ==
    ASSUME NEW data \in Int
    PROVE  Returned(data) \subseteq Int
<1>1. IntMod \in Nat \ {0} /\ Delays \subseteq Int
  BY PhpAssumption
<1>2. IntMod \div 2 \in Int
  BY <1>1
<1>3. (data + IntMod \div 2) % IntMod \in Int
  <2>1. PICK d \in Int, n \in Nat \ {0} : d = data + IntMod \div 2 /\ n = IntMod
    BY <1>1, <1>2
  <2>2. d % n \in Int
    OBVIOUS
  <2> QED BY <2>1, <2>2
<1>4. ToInt(data) \in Int
  BY <1>2, <1>3 DEF ToInt
<1>5. CASE Doomed(data)
  <2>1. Returned(data) = {-1} \cup Delays
    BY <1>5 DEF Returned
  <2> QED BY <1>1, <2>1
<1>6. CASE ~Doomed(data)
  <2>1. PICK n \in Int : n = IF data = NULL THEN -1 ELSE ToInt(data)
    BY <1>4
  <2>2. Returned(data) = {n}
    BY <1>6, <2>1 DEF Returned
  <2> QED BY <2>2
<1> QED BY <1>5, <1>6

(* What timeProc's result does to the timer at place p.                    *)
LEMMA ReturnedTimer ==
    ASSUME NEW retval \in Int, TimeProcReturns(retval), NEW p, At(pass.te) = p,
           NEW next, next = IF retval < 0 THEN 0 ELSE retval
    PROVE  timers' = [timers EXCEPT ![p] = IF retval = -1 THEN WithId(timers[p], Deleted)
                                           ELSE WithLeft(timers[p], next)]
<1>1. timers' = [timers EXCEPT ![p] =
                   IF retval # -1 THEN WithLeft(timers[p], IF retval < 0 THEN 0 ELSE retval)
                                  ELSE WithId(timers[p], Deleted)]
  BY DEF TimeProcReturns, WithLeft, WithId
<1> QED BY <1>1

(* timeProc returned: the timer is due again or deleted, and the walk goes *)
(* on from it, whatever the callback put in front of it.                   *)
LEMMA CallbackKeepsTimers ==
    ASSUME TimerInv, aeTimerCallback
    PROVE  TimerInv'
<1>0. timers \in Seq(Timer) /\ ListInv /\ CallInv /\ WalkInv /\ OwedInv /\ SleepInv
      /\ cbs \in Seq(Record)
  BY DEF TimerInv, ListInv
<1>1. Len(timers) \in Nat /\ DOMAIN timers = 1 .. Len(timers)
      /\ \A k \in 1 .. Len(timers) : /\ timers[k] \in Timer /\ timers[k].cb \in Nat \ {0}
                                     /\ timers[k].id \in Int /\ timers[k].left \in Nat
  BY <1>0, TimerTypes
<1>2. call.at = "timer" /\ pc = "timers" /\ pass.te # 0 /\ call.cb = pass.te
  BY <1>0 DEF aeTimerCallback, CallInv
<1>3. PICK p \in 1 .. Len(timers) :
             /\ timers[p].cb = pass.te /\ At(pass.te) = p
             /\ Following(pass.te) = IF p = Len(timers) THEN 0 ELSE timers[p + 1].cb
             /\ \A k \in 1 .. Len(timers) : k >= p => timers[k].id <= pass.maxId
  BY <1>2, WalkStands
<1>4. PICK data \in Int : data = cbs[pass.te].data
  <2>1. pass.te \in DOMAIN cbs
    BY <1>0, <1>1, <1>3 DEF ListInv
  <2> QED BY <1>0, <2>1, FreedRecord
<1>a. PICK retval \in Int : /\ TimeProcReturns(retval)
                            /\ armed' = IF retval = -1 THEN armed \ {pass.te} ELSE armed
  <2>1. \E retval \in Returned(data) :
          /\ TimeProcReturns(retval)
          /\ armed' = IF retval = -1 THEN armed \ {pass.te} ELSE armed
    BY <1>2, <1>4 DEF aeTimerCallback
  <2> QED BY <2>1, ReturnsAnInt
<1>b. PICK next \in Nat : next = IF retval < 0 THEN 0 ELSE retval
  OBVIOUS
<1> DEFINE done == retval = -1
           now == IF done THEN WithId(timers[p], Deleted) ELSE WithLeft(timers[p], next)
<1>5. /\ cbs' \in {cbs, efree(cbs, pass.te)}
      /\ timers' = [timers EXCEPT ![p] = now]
      /\ pass' = [pass EXCEPT !.te = Following(pass.te), !.prev = pass.te]
      /\ armed' = IF done THEN armed \ {pass.te} ELSE armed
      /\ call' = NoCall
      /\ UNCHANGED <<timeEventNextId, pc, tvp, owed>>
  <2>1. timers' = [timers EXCEPT ![p] = now]
    BY <1>3, <1>a, <1>b, ReturnedTimer
  <2>2. pass' = [pass EXCEPT !.te = Following(pass.te), !.prev = pass.te] /\ call' = NoCall
    BY <1>a DEF TimeProcReturns
  <2>3. cbs' \in {cbs, efree(cbs, pass.te)}
    BY <1>2 DEF aeTimerCallback
  <2>4. UNCHANGED <<timeEventNextId, pc, tvp, owed>>
    BY DEF aeTimerCallback
  <2> QED BY <1>a, <2>1, <2>2, <2>3, <2>4
<1>6. /\ now \in Timer /\ now.cb = timers[p].cb
      /\ now.id = IF done THEN Deleted ELSE timers[p].id
  <2>1. timers[p] \in Timer /\ Deleted \in Int /\ next \in Nat /\ 0 \in Int /\ 0 \in Nat
    BY <1>1, <1>b DEF Deleted
  <2> HIDE DEF done
  <2> QED BY <2>1, TimerFields
<1> HIDE DEF now
<1>7. timers' \in Seq(Timer) /\ Len(timers') = Len(timers) /\ DOMAIN timers' = DOMAIN timers
  <2>1. timers' \in [DOMAIN timers -> Timer]
    BY <1>1, <1>5, <1>6
  <2> QED BY <1>0, <2>1, ReplacedList
<1>8. /\ timers'[p] = now
      /\ \A k \in 1 .. Len(timers) : k # p => timers'[k] = timers[k]
  BY <1>1, <1>5
<1>9. \A k \in 1 .. Len(timers) : /\ timers'[k].cb = timers[k].cb
                                  /\ timers'[k].id = IF k = p /\ done THEN Deleted ELSE timers[k].id
  <2> HIDE DEF done
  <2> QED BY <1>6, <1>8
<1>10. ListInv'
  <2>1. cbs' \in Seq(Record) /\ DOMAIN cbs \subseteq DOMAIN cbs'
    <3>1. pass.te \in DOMAIN cbs
      BY <1>0, <1>1, <1>3 DEF ListInv
    <3> QED BY <1>0, <1>5, <3>1, FreedRecord
  <2>2. ASSUME NEW k \in DOMAIN timers
        PROVE  timers[k].cb \in armed' <=> timers'[k].id # Deleted
    <3>1. timers[k].cb \in armed <=> timers[k].id # Deleted
      BY <1>0, ArmedIff
    <3>2. timers[k].cb = pass.te <=> k = p
      BY <1>0, <1>1, <1>3 DEF ListInv
    <3> HIDE DEF done
    <3> QED BY <1>1, <1>5, <1>9, <3>1, <3>2
  <2>3. \A k \in DOMAIN timers : /\ timers'[k].cb = timers[k].cb
                                 /\ timers'[k].id \in {timers[k].id, Deleted}
    BY <1>1, <1>9
  <2>4. armed' \subseteq armed /\ timeEventNextId' = timeEventNextId
    BY <1>5
  <2> QED BY <1>0, <1>7, <2>1, <2>2, <2>3, <2>4, ListSameShape
<1>11. pass' = [te |-> IF p = Len(timers) THEN 0 ELSE timers[p + 1].cb,
                prev |-> pass.te, maxId |-> pass.maxId]
  <2>1. pass \in [te : Nat, prev : Nat, maxId : Int]
    BY <1>0 DEF WalkInv
  <2>2. pass' = [te |-> Following(pass.te), prev |-> pass.te, maxId |-> pass.maxId]
    BY <1>5, <2>1
  <2> QED BY <1>3, <2>2
<1>12. WalkInv'
  <2>1. \A k \in 1 .. Len(timers) : /\ timers'[k].cb = timers[k].cb
                                    /\ timers'[k].id \in {timers[k].id, Deleted}
    BY <1>9
  <2>2. pc' = pc /\ call' = NoCall
    BY <1>5
  <2> QED BY <1>2, <1>3, <1>7, <1>11, <2>1, <2>2, WalkMovesOn
<1>13. CallInv' /\ SleepInv'
  <2>1. pc' = "timers" /\ tvp' = tvp /\ call' = NoCall
    BY <1>2, <1>5
  <2> QED BY <1>0, <2>1 DEF CallInv, SleepInv, NoCall
<1>14. OwedInv'
  <2>1. ASSUME NEW c \in owed
        PROVE  \E i, k \in DOMAIN timers :
                 /\ i <= k /\ timers'[i].cb = pass'.te /\ timers'[k].cb = c
                 /\ timers'[k].id # Deleted /\ timers'[k].left = 0
    <3>1. PICK i, k \in DOMAIN timers :
                 /\ i <= k /\ timers[i].cb = pass.te /\ timers[k].cb = c
                 /\ timers[k].id # Deleted /\ timers[k].left = 0 /\ i # k
      BY <1>0, <1>2 DEF OwedInv
    <3>2. i = p
      BY <1>0, <1>1, <1>3, <3>1 DEF ListInv
    <3>4. p + 1 \in DOMAIN timers /\ p + 1 <= k /\ p # Len(timers) /\ k # p
      BY <1>1, <3>1, <3>2, NextPlace
    <3>5. pass'.te = timers[p + 1].cb
      BY <1>11, <3>4
    <3>6. timers'[k] = timers[k] /\ timers'[p + 1].cb = timers[p + 1].cb
      BY <1>1, <1>8, <1>9, <3>4
    <3> QED BY <3>1, <3>4, <3>5, <3>6
  <2>2. call'.at # "timer" /\ owed' = owed /\ pc' = pc
    BY <1>5 DEF NoCall
  <2> QED BY <1>0, <1>7, <2>1, <2>2 DEF OwedInv
<1> QED BY <1>10, <1>12, <1>13, <1>14 DEF TimerInv

(* A list without its element at p.                                        *)
Without(t, p) == SubSeq(t, 1, p - 1) \o SubSeq(t, p + 1, Len(t))

(* The elements ahead of p keep their places, those behind it move up.     *)
LEMMA RemovedFrom ==
    ASSUME NEW S, NEW t \in Seq(S), NEW p \in 1 .. Len(t)
    PROVE  /\ Without(t, p) \in Seq(S) /\ Len(Without(t, p)) = Len(t) - 1
           /\ \A k \in 1 .. Len(t) - 1 :
                Without(t, p)[k] = IF k < p THEN t[k] ELSE t[k + 1]
<1> DEFINE u == Without(t, p)
<1>0. PICK n \in Nat : n = Len(t)
  BY LenProperties
<1>1. \A k \in 1 .. n : t[k] \in S
  BY <1>0, ElementOfSeq
<1>2. p \in 1 .. n
  BY <1>0
<1> DEFINE a == SubSeq(t, 1, p - 1)
           b == SubSeq(t, p + 1, n)
<1>3. a \in Seq(S) /\ Len(a) = p - 1 /\ \A i \in 1 .. p - 1 : a[i] = t[i]
  <2>1. \A i \in 1 .. p - 1 : t[i] \in S
    BY <1>1, <1>2
  <2>2. PICK x \in Int : x = 1
    OBVIOUS
  <2>3. PICK y \in Int : y = p - 1
    BY <1>2
  <2>4. \A i \in x .. y : t[i] \in S
    BY <2>1, <2>2, <2>3
  <2>5. /\ SubSeq(t, x, y) \in Seq(S)
        /\ Len(SubSeq(t, x, y)) = IF x <= y THEN y - x + 1 ELSE 0
        /\ \A i \in 1 .. y - x + 1 : SubSeq(t, x, y)[i] = t[x + i - 1]
    BY <2>4, SubSeqProperties
  <2>6. SubSeq(t, x, y) = a
    BY <2>2, <2>3
  <2> QED BY ONLY <1>2, <2>2, <2>3, <2>5, <2>6, n \in Nat
<1>4. b \in Seq(S) /\ Len(b) = n - p /\ \A i \in 1 .. n - p : b[i] = t[p + i]
  <2>2. PICK x \in Int : x = p + 1
    BY <1>2
  <2>4. \A i \in x .. n : t[i] \in S
    BY <1>1, <1>2, <2>2
  <2>5. /\ SubSeq(t, x, n) \in Seq(S)
        /\ Len(SubSeq(t, x, n)) = IF x <= n THEN n - x + 1 ELSE 0
        /\ \A i \in 1 .. n - x + 1 : SubSeq(t, x, n)[i] = t[x + i - 1]
    <3>1. n \in Int
      OBVIOUS
    <3> QED BY ONLY <3>1, x \in Int, <2>4, SubSeqProperties
  <2>6. SubSeq(t, x, n) = b
    BY <2>2
  <2> HIDE DEF b
  <2>7. \A i \in 1 .. n - p : i \in 1 .. n - x + 1 /\ x + i - 1 = p + i
    BY <1>2, <2>2
  <2>8. (IF x <= n THEN n - x + 1 ELSE 0) = n - p
    BY <1>2, <2>2
  <2> QED BY <2>5, <2>6, <2>7, <2>8
<1>5. u = a \o b
  BY <1>0 DEF Without
<1> HIDE DEF a, b, u
<1>6. /\ a \o b \in Seq(S) /\ Len(a \o b) = Len(a) + Len(b)
      /\ \A i \in 1 .. Len(a) + Len(b) :
           (a \o b)[i] = IF i <= Len(a) THEN a[i] ELSE b[i - Len(a)]
  BY <1>3, <1>4, ConcatProperties
<1>7. (p - 1) + (n - p) = n - 1
  BY <1>2
<1>8. Len(u) = n - 1 /\ u \in Seq(S)
  BY <1>3, <1>4, <1>5, <1>6, <1>7
<1>9. \A i \in 1 .. n - 1 : u[i] = IF i <= p - 1 THEN a[i] ELSE b[i - (p - 1)]
  BY <1>3, <1>4, <1>5, <1>6, <1>7
<1>10. ASSUME NEW k \in 1 .. n - 1
       PROVE  u[k] = IF k < p THEN t[k] ELSE t[k + 1]
  <2>1. CASE k < p
    <3>1. k <= p - 1 /\ k \in 1 .. p - 1
      BY <1>2, <2>1
    <3> QED BY <1>3, <1>9, <2>1, <3>1
  <2>2. CASE ~(k < p)
    <3>1. ~(k <= p - 1) /\ k - (p - 1) \in 1 .. n - p /\ p + (k - (p - 1)) = k + 1
      BY <1>2, <2>2
    <3> QED BY <1>4, <1>9, <2>2, <3>1
  <2> QED BY <2>1, <2>2
<1> QED BY <1>0, <1>8, <1>10 DEF u

(* The places of a list of n without p, and where they were before.        *)
Before(p, j) == IF j < p THEN j ELSE j + 1

(* Before maps the places of the shorter list one to one onto all but p.   *)
LEMMA BeforePlaces ==
    ASSUME NEW n \in Nat, NEW p \in 1 .. n
    PROVE  /\ \A j \in 1 .. n - 1 : /\ Before(p, j) \in 1 .. n /\ Before(p, j) # p
                                    /\ j >= p => Before(p, j) >= p
           /\ \A i, j \in 1 .. n - 1 : Before(p, i) = Before(p, j) => i = j
           /\ \A k \in 1 .. n : k # p =>
                \E j \in 1 .. n - 1 : Before(p, j) = k /\ (k >= p => j >= p)
<1>1. ASSUME NEW k \in 1 .. n, k # p
      PROVE  \E j \in 1 .. n - 1 : Before(p, j) = k /\ (k >= p => j >= p)
  <2>1. CASE k < p
    <3>1. k \in 1 .. n - 1 /\ Before(p, k) = k /\ ~(k >= p)
      BY <2>1 DEF Before
    <3> QED BY <3>1
  <2>2. CASE ~(k < p)
    <3>1. k - 1 \in 1 .. n - 1 /\ Before(p, k - 1) = k /\ k - 1 >= p
      BY <1>1, <2>2 DEF Before
    <3> QED BY <3>1
  <2> QED BY <2>1, <2>2
<1> QED BY <1>1 DEF Before

(* The finalizer runs: only the deleted timer leaves the list, and the     *)
(* walk stands on its successor.                                           *)
LEMMA FinalizerKeepsTimers ==
    ASSUME TimerInv, aeTimerFinalizer
    PROVE  TimerInv'
<1>0. timers \in Seq(Timer) /\ ListInv /\ CallInv /\ WalkInv /\ OwedInv /\ SleepInv
      /\ cbs \in Seq(Record)
  BY DEF TimerInv, ListInv
<1>1. PICK n \in Nat : n = Len(timers)
  BY <1>0, TimerTypes
<1>a. DOMAIN timers = 1 .. n
      /\ \A k \in 1 .. n : timers[k] \in Timer /\ timers[k].cb \in Nat \ {0}
  BY <1>0, <1>1, TimerTypes
<1>2. /\ pc = "timers" /\ call = NoCall /\ pass.te # 0 /\ te.id = Deleted
      /\ timers' = SubSeq(timers, 1, IF pass.prev = 0 THEN 0 ELSE At(pass.prev))
                     \o SubSeq(timers, At(pass.te) + 1, Len(timers))
      /\ pass' = [pass EXCEPT !.te = Following(pass.te)]
      /\ cbs' = efree(cbs, pass.te)
      /\ UNCHANGED <<timeEventNextId, pc, tvp, call, owed, armed>>
  BY DEF aeTimerFinalizer, RemovesDeleted, Walking
<1>3. PICK p \in 1 .. n :
             /\ timers[p].cb = pass.te /\ At(pass.te) = p /\ te = timers[p]
             /\ Following(pass.te) = IF p = n THEN 0 ELSE timers[p + 1].cb
             /\ \A k \in 1 .. n : k >= p => timers[k].id <= pass.maxId
             /\ IF pass.prev = 0 THEN p = 1
                ELSE p > 1 /\ timers[p - 1].cb = pass.prev /\ At(pass.prev) = p - 1
  <2>1. call.at # "timer"
    BY <1>2 DEF NoCall
  <2> QED BY <1>1, <1>2, <2>1, WalkStands
<1>4. timers[p].id = Deleted
  BY <1>2, <1>3
<1>5. timers' = Without(timers, p)
  <2>1. (IF pass.prev = 0 THEN 0 ELSE At(pass.prev)) = p - 1
    BY <1>3
  <2> QED BY <1>2, <1>3, <2>1 DEF Without
<1>6. /\ timers' \in Seq(Timer) /\ Len(timers') = n - 1
      /\ \A j \in 1 .. n - 1 : timers'[j] = timers[Before(p, j)]
  <2>0. timers \in Seq(Timer)
    BY <1>0
  <2>1. p \in 1 .. Len(timers)
    BY <1>1
  <2>2. /\ timers' \in Seq(Timer) /\ Len(timers') = Len(timers) - 1
        /\ \A j \in 1 .. Len(timers) - 1 : timers'[j] = IF j < p THEN timers[j] ELSE timers[j + 1]
    BY ONLY <2>0, <1>5, <2>1, RemovedFrom
  <2> QED BY <1>1, <2>2 DEF Before
<1>7. DOMAIN timers' = 1 .. n - 1
  BY <1>6, TimerTypes
<1>8. /\ \A j \in 1 .. n - 1 : /\ Before(p, j) \in 1 .. n /\ Before(p, j) # p
                               /\ j >= p => Before(p, j) >= p
      /\ \A i, j \in 1 .. n - 1 : Before(p, i) = Before(p, j) => i = j
      /\ \A k \in 1 .. n : k # p => \E j \in 1 .. n - 1 : Before(p, j) = k /\ (k >= p => j >= p)
  BY BeforePlaces
<1>9. ListInv'
  <2>0. pass.te \in DOMAIN cbs
    BY <1>0, <1>a, <1>3 DEF ListInv
  <2>1. cbs' \in Seq(Record) /\ DOMAIN cbs' = DOMAIN cbs
    BY <1>0, <1>2, <2>0, FreedRecord
  <2>2. \A j \in DOMAIN timers' : /\ timers'[j].id \in Deleted .. timeEventNextId - 1
                                  /\ timers'[j].cb \in DOMAIN cbs
    BY <1>0, <1>a, <1>6, <1>7, <1>8 DEF ListInv
  <2>3. \A i, j \in DOMAIN timers' : timers'[i].cb = timers'[j].cb => i = j
    <3>1. \A i, j \in 1 .. n : timers[i].cb = timers[j].cb => i = j
      BY <1>0, <1>a DEF ListInv
    <3> SUFFICES ASSUME NEW i \in 1 .. n - 1, NEW j \in 1 .. n - 1, timers'[i].cb = timers'[j].cb
                 PROVE  i = j
      BY <1>7
    <3>2. Before(p, i) \in 1 .. n /\ Before(p, j) \in 1 .. n
          /\ timers'[i] = timers[Before(p, i)] /\ timers'[j] = timers[Before(p, j)]
      BY <1>6, <1>8
    <3>3. Before(p, i) = Before(p, j)
      BY <3>1, <3>2
    <3> QED BY <1>8, <3>3
  <2>4. armed = {timers'[j].cb : j \in {j \in DOMAIN timers' : timers'[j].id # Deleted}}
    <3>1. armed = {timers[k].cb : k \in {k \in 1 .. n : timers[k].id # Deleted}}
      BY <1>0, <1>a DEF ListInv
    <3>2. ASSUME NEW c \in armed
          PROVE  \E j \in 1 .. n - 1 : timers'[j].id # Deleted /\ timers'[j].cb = c
      <4>1. PICK k \in 1 .. n : timers[k].id # Deleted /\ timers[k].cb = c
        BY <3>1
      <4>2. k # p
        BY <1>4, <4>1
      <4>3. PICK j \in 1 .. n - 1 : Before(p, j) = k
        BY <1>8, <4>2
      <4> QED BY <1>6, <4>1, <4>3
    <3>3. \A j \in 1 .. n - 1 : timers'[j].id # Deleted => timers'[j].cb \in armed
      <4> SUFFICES ASSUME NEW j \in 1 .. n - 1, timers'[j].id # Deleted
                   PROVE  timers'[j].cb \in armed
        OBVIOUS
      <4>1. Before(p, j) \in 1 .. n /\ timers'[j] = timers[Before(p, j)]
        BY <1>6, <1>8
      <4> QED BY <3>1, <4>1
    <3> QED BY <1>7, <3>2, <3>3
  <2>5. timeEventNextId' = timeEventNextId /\ armed' = armed /\ timeEventNextId \in Nat
    BY <1>0, <1>2 DEF ListInv
  <2> QED BY <1>6, <2>1, <2>2, <2>3, <2>4, <2>5 DEF ListInv
<1>10. pass' = [te |-> IF p = n THEN 0 ELSE timers[p + 1].cb, prev |-> pass.prev,
                maxId |-> pass.maxId]
  <2>1. pass \in [te : Nat, prev : Nat, maxId : Int]
    BY <1>0 DEF WalkInv
  <2>2. pass' = [te |-> Following(pass.te), prev |-> pass.prev, maxId |-> pass.maxId]
    BY <1>2, <2>1
  <2> QED BY <1>3, <2>2
<1>b. p # n => /\ p \in 1 .. n - 1 /\ p + 1 \in 1 .. n /\ timers'[p] = timers[p + 1]
               /\ pass'.te = timers'[p].cb /\ pass'.te \in Nat \ {0}
  <2> SUFFICES ASSUME p # n
               PROVE  /\ p \in 1 .. n - 1 /\ p + 1 \in 1 .. n /\ timers'[p] = timers[p + 1]
                      /\ pass'.te = timers'[p].cb /\ pass'.te \in Nat \ {0}
    OBVIOUS
  <2>1. p \in 1 .. n - 1 /\ p + 1 \in 1 .. n /\ Before(p, p) = p + 1
    BY DEF Before
  <2>2. pass'.te = timers[p + 1].cb
    BY <1>10
  <2> QED BY <1>a, <1>6, <2>1, <2>2
<1>11. WalkInv'
  <2>1. pass \in [te : Nat, prev : Nat, maxId : Int] /\ pass.maxId >= Deleted
    BY <1>0, <1>2 DEF WalkInv
  <2>2. CASE p = n
    <3>1. pass' = [te |-> 0, prev |-> pass.prev, maxId |-> pass.maxId]
      BY <1>10, <2>2
    <3> QED BY <2>1, <3>1 DEF WalkInv
  <2>3. CASE p # n
    <3>1. /\ p \in 1 .. n - 1 /\ pass'.te = timers'[p].cb /\ pass'.te \in Nat \ {0}
          /\ pass'.prev = pass.prev /\ pass'.maxId = pass.maxId
          /\ pass' = [te |-> pass'.te, prev |-> pass'.prev, maxId |-> pass'.maxId]
      BY <1>10, <1>b, <2>3
    <3>2. pass' \in [te : Nat, prev : Nat, maxId : Int]
      BY <2>1, <3>1
    <3>3. \A j \in 1 .. n - 1 : j >= p => timers'[j].id <= pass.maxId
      BY <1>3, <1>6, <1>8
    <3>4. IF pass.prev = 0 THEN p = 1 ELSE p > 1 /\ timers'[p - 1].cb = pass.prev
      <4>1. CASE pass.prev = 0
        BY <1>3, <4>1
      <4>2. CASE pass.prev # 0
        <5>1. p > 1 /\ timers[p - 1].cb = pass.prev
          BY <1>3, <4>2
        <5>2. p - 1 \in 1 .. n - 1 /\ Before(p, p - 1) = p - 1
          BY <5>1 DEF Before
        <5> QED BY <1>6, <4>2, <5>1, <5>2
      <4> QED BY <4>1, <4>2
    <3>5. pc' = "timers"
      BY <1>2
    <3> QED BY <1>7, <2>1, <3>1, <3>2, <3>3, <3>4, <3>5 DEF WalkInv
  <2> QED BY <2>2, <2>3
<1>12. CallInv' /\ SleepInv'
  BY <1>0, <1>2 DEF CallInv, SleepInv, NoCall
<1>13. OwedInv'
  <2>1. ASSUME NEW c \in owed
        PROVE  \E i, k \in DOMAIN timers' :
                 /\ i <= k /\ timers'[i].cb = pass'.te /\ timers'[k].cb = c
                 /\ timers'[k].id # Deleted /\ timers'[k].left = 0
    <3>1. PICK i, k \in 1 .. n :
                 /\ i <= k /\ timers[i].cb = pass.te /\ timers[k].cb = c
                 /\ timers[k].id # Deleted /\ timers[k].left = 0
      BY <1>0, <1>a DEF OwedInv
    <3>2. i = p
      BY <1>0, <1>a, <1>3, <3>1 DEF ListInv
    <3>3. k # p /\ k >= p /\ p # n
      BY <1>4, <3>1, <3>2
    <3>4. PICK j \in 1 .. n - 1 : Before(p, j) = k /\ j >= p
      BY <1>8, <3>3
    <3>5. timers'[j] = timers[k] /\ p <= j
      BY <1>6, <3>4
    <3> QED BY <1>7, <1>b, <3>1, <3>3, <3>5
  <2>2. call'.at # "timer" /\ owed' = owed /\ pc' = pc
    BY <1>2 DEF NoCall
  <2> QED BY <1>0, <2>1, <2>2 DEF OwedInv
<1> QED BY <1>9, <1>11, <1>12, <1>13 DEF TimerInv

(* Where the script runs, the loop does not sleep, and a pass under way    *)
(* waits for the callback of a timer.                                      *)
LEMMA ScriptWhere ==
    ASSUME TimerInv, Script
    PROVE  pc # "sleep" /\ (pc = "timers" => call.at = "timer")
  BY DEF TimerInv, CallInv, Script, NoCall

(* aeDeleteTimeEvent marks the timer; the walk removes it later.           *)
LEMMA DelTimerKeepsTimers ==
    ASSUME TimerInv, NEW id, del_timer(id)
    PROVE  TimerInv'
<1>0. timers \in Seq(Timer) /\ ListInv /\ CallInv /\ WalkInv /\ OwedInv /\ SleepInv
      /\ cbs \in Seq(Record)
  BY DEF TimerInv, ListInv
<1>1. \A k \in DOMAIN timers : timers[k] \in Timer
  BY <1>0, TimerTypes
<1>2. /\ timers' = [k \in DOMAIN timers |-> IF timers[k].id = id THEN WithId(timers[k], Deleted)
                                                              ELSE timers[k]]
      /\ owed' = owed \ {timers[k].cb : k \in {k \in DOMAIN timers : timers[k].id = id}}
      /\ armed' = armed \ {timers[k].cb : k \in {k \in DOMAIN timers : timers[k].id = id}}
      /\ UNCHANGED <<timeEventNextId, cbs, pc, tvp, pass, call>> /\ Script
  BY DEF del_timer, aeDeleteTimeEvent, WithId, Unmoved
<1>3. \A k \in DOMAIN timers : /\ timers'[k] \in Timer /\ timers'[k].cb = timers[k].cb
                               /\ timers'[k].id = IF timers[k].id = id THEN Deleted ELSE timers[k].id
                               /\ timers'[k].left = timers[k].left
  <2> SUFFICES ASSUME NEW k \in DOMAIN timers
               PROVE  /\ timers'[k] \in Timer /\ timers'[k].cb = timers[k].cb
                      /\ timers'[k].id = IF timers[k].id = id THEN Deleted ELSE timers[k].id
                      /\ timers'[k].left = timers[k].left
    OBVIOUS
  <2>1. timers[k] \in Timer /\ Deleted \in Int /\ 0 \in Nat
    BY <1>1 DEF Deleted
  <2>2. timers'[k] = IF timers[k].id = id THEN WithId(timers[k], Deleted) ELSE timers[k]
    BY <1>2
  <2> QED BY <2>1, <2>2, TimerFields
<1>4. timers' \in Seq(Timer) /\ DOMAIN timers' = DOMAIN timers
  <2>1. timers' \in [DOMAIN timers -> Timer]
    BY <1>2, <1>3
  <2> QED BY <1>0, <2>1, ReplacedList
<1>5. \A k \in DOMAIN timers : /\ timers'[k].cb = timers[k].cb
                               /\ timers'[k].id \in {timers[k].id, Deleted}
  BY <1>3
<1>6. ListInv'
  <2>1. ASSUME NEW k \in DOMAIN timers
        PROVE  timers[k].cb \in armed' <=> timers'[k].id # Deleted
    <3>1. timers[k].cb \in armed <=> timers[k].id # Deleted
      BY <1>0, ArmedIff
    <3>2. timers[k].cb \in {timers[j].cb : j \in {j \in DOMAIN timers : timers[j].id = id}}
             <=> timers[k].id = id
      BY <1>0 DEF ListInv
    <3>3. timers[k].cb \in armed' <=> (timers[k].cb \in armed /\ timers[k].id # id)
      BY <1>2, <3>2
    <3> QED BY <1>3, <3>1, <3>3
  <2>3. cbs' \in Seq(Record) /\ DOMAIN cbs \subseteq DOMAIN cbs' /\ armed' \subseteq armed
        /\ timeEventNextId' = timeEventNextId
    BY <1>0, <1>2
  <2> QED BY <1>0, <1>4, <1>5, <2>1, <2>3, ListSameShape
<1>7. WalkInv'
  BY <1>0, <1>2, <1>4, <1>5, WalkSameShape
<1>8. CallInv' /\ SleepInv'
  <2>1. pc # "sleep"
    BY <1>2, ScriptWhere
  <2> QED BY <1>0, <1>2, <2>1 DEF CallInv, SleepInv
<1>9. OwedInv'
  <2>1. ASSUME NEW c \in owed'
        PROVE  \E i, k \in DOMAIN timers :
                 /\ i <= k /\ timers'[i].cb = pass.te /\ timers'[k].cb = c
                 /\ timers'[k].id # Deleted /\ timers'[k].left = 0
                 /\ call.at = "timer" => i # k
    <3>1. c \in owed /\ \A k \in DOMAIN timers : timers[k].id = id => timers[k].cb # c
      BY <1>2
    <3>2. PICK i, k \in DOMAIN timers :
                 /\ i <= k /\ timers[i].cb = pass.te /\ timers[k].cb = c
                 /\ timers[k].id # Deleted /\ timers[k].left = 0
                 /\ call.at = "timer" => i # k
      BY <1>0, <3>1 DEF OwedInv
    <3>3. timers'[k].id = timers[k].id
      BY <1>3, <3>1, <3>2
    <3> QED BY <1>3, <3>2, <3>3
  <2>2. pc # "timers" => owed' = {}
    BY <1>0, <1>2 DEF OwedInv
  <2> QED BY <1>2, <1>4, <2>1, <2>2 DEF OwedInv
<1> QED BY <1>6, <1>7, <1>8, <1>9 DEF TimerInv

(* A list with a new head.                                                 *)
LEMMA PutInFront ==
    ASSUME NEW S, NEW t \in Seq(S), NEW x \in S, NEW u, u = <<x>> \o t
    PROVE  /\ u \in Seq(S) /\ Len(u) = Len(t) + 1 /\ u[1] = x
           /\ \A k \in 1 .. Len(t) : u[k + 1] = t[k]
           /\ \A k \in 2 .. Len(t) + 1 : u[k] = t[k - 1]
<1>1. <<x>> \in Seq(S) /\ Len(<<x>>) = 1 /\ <<x>>[1] = x
  OBVIOUS
<1>2. PICK a \in Seq(S) : a = <<x>>
  BY <1>1
<1>3. /\ a \o t \in Seq(S) /\ Len(a \o t) = Len(a) + Len(t)
      /\ \A i \in 1 .. Len(a) + Len(t) : (a \o t)[i] = IF i <= Len(a) THEN a[i] ELSE t[i - Len(a)]
  BY ConcatProperties
<1>4. Len(a) = 1 /\ a[1] = x
  BY <1>1, <1>2
<1>5. PICK n \in Nat : n = Len(t)
  BY LenProperties
<1>6. u \in Seq(S) /\ Len(u) = 1 + n
      /\ \A i \in 1 .. 1 + n : u[i] = IF i <= 1 THEN a[i] ELSE t[i - 1]
  BY <1>2, <1>3, <1>4, <1>5
<1>7. u[1] = x
  BY <1>4, <1>6
<1>8. \A k \in 2 .. n + 1 : u[k] = t[k - 1]
  <2>1. \A k \in 2 .. n + 1 : k \in 1 .. 1 + n /\ ~(k <= 1)
    OBVIOUS
  <2> QED BY <1>6, <2>1
<1>9. \A k \in 1 .. n : u[k + 1] = t[k]
  <2>1. \A k \in 1 .. n : k + 1 \in 2 .. n + 1 /\ (k + 1) - 1 = k
    OBVIOUS
  <2> QED BY <1>8, <2>1
<1>10. 1 + n = n + 1
  OBVIOUS
<1> QED BY <1>5, <1>6, <1>7, <1>8, <1>9, <1>10

(* after and tick put a timer with a new number and a new record at the    *)
(* head: a pass under way has it behind.                                   *)
LEMMA SetsTimerKeepsTimers ==
    ASSUME TimerInv, NEW ms \in Int, NEW data \in Int, SetsTimer(ms, data)
    PROVE  TimerInv'
<1>0. timers \in Seq(Timer) /\ ListInv /\ CallInv /\ WalkInv /\ OwedInv /\ SleepInv
      /\ cbs \in Seq(Record) /\ timeEventNextId \in Nat
  BY DEF TimerInv, ListInv
<1>1. PICK n \in Nat : n = Len(timers)
  BY <1>0, TimerTypes
<1>a. DOMAIN timers = 1 .. n /\ \A k \in 1 .. n : timers[k] \in Timer
  BY <1>0, <1>1, TimerTypes
<1>2. PICK c \in Nat \ {0} : c = Len(cbs) + 1
  BY <1>0, LenProperties
<1>3. PICK x \in Timer : x = [cb |-> c, id |-> timeEventNextId, left |-> IF ms < 0 THEN 0 ELSE ms]
  <2>1. PICK l \in Nat : l = IF ms < 0 THEN 0 ELSE ms
    OBVIOUS
  <2>2. timeEventNextId \in Int
    BY <1>0
  <2>3. [cb |-> c, id |-> timeEventNextId, left |-> l] \in Timer
    BY <2>2 DEF Timer
  <2> QED BY <2>1, <2>3
<1>4. /\ timers' = <<x>> \o timers /\ timeEventNextId' = timeEventNextId + 1
      /\ cbs' = NewCb(data) /\ armed' = armed \cup {c} /\ Script
      /\ UNCHANGED <<pc, tvp, pass, call, owed>>
  BY <1>2, <1>3 DEF SetsTimer, aeCreateTimeEvent, Unmoved
<1>5. /\ timers' \in Seq(Timer) /\ Len(timers') = n + 1 /\ timers'[1] = x
      /\ \A k \in 1 .. n : timers'[k + 1] = timers[k]
      /\ \A k \in 2 .. n + 1 : timers'[k] = timers[k - 1]
  <2>0. timers \in Seq(Timer) /\ timers' = <<x>> \o timers
    BY <1>0, <1>4
  <2>1. /\ timers' \in Seq(Timer) /\ Len(timers') = Len(timers) + 1 /\ timers'[1] = x
        /\ \A k \in 1 .. Len(timers) : timers'[k + 1] = timers[k]
        /\ \A k \in 2 .. Len(timers) + 1 : timers'[k] = timers[k - 1]
    BY ONLY <2>0, x \in Timer, PutInFront
  <2> QED BY <1>1, <2>1
<1>6. DOMAIN timers' = 1 .. n + 1
  BY <1>5, TimerTypes
<1>7. /\ \A k \in 1 .. n + 1 : k = 1 \/ (k \in 2 .. n + 1 /\ k - 1 \in 1 .. n)
      /\ \A k \in 1 .. n : k + 1 \in 1 .. n + 1 /\ (k + 1) - 1 = k
      /\ 1 \in 1 .. n + 1
  OBVIOUS
<1>8. /\ cbs' \in Seq(Record) /\ c \in DOMAIN cbs' /\ c \notin DOMAIN cbs
      /\ DOMAIN cbs \subseteq DOMAIN cbs'
  <2>1. /\ Len(cbs) \in Nat /\ DOMAIN cbs = 1 .. Len(cbs) /\ cbs' \in Seq(Record)
        /\ DOMAIN cbs' = 1 .. Len(cbs) + 1
    BY <1>0, <1>4, NewRecord
  <2> QED BY <1>2, <2>1
<1>9. x.cb = c /\ x.id = timeEventNextId
  BY <1>3
<1>10. ListInv'
  <2>1. /\ \A k \in 1 .. n : timers[k].id \in Deleted .. timeEventNextId - 1
        /\ \A k \in 1 .. n : timers[k].cb \in DOMAIN cbs
        /\ \A j, k \in 1 .. n : timers[j].cb = timers[k].cb => j = k
        /\ armed = {timers[k].cb : k \in {k \in 1 .. n : timers[k].id # Deleted}}
    BY <1>0, <1>a DEF ListInv
  <2>2. ASSUME NEW k \in 1 .. n + 1
        PROVE  timers'[k].id \in Deleted .. (timeEventNextId + 1) - 1 /\ timers'[k].cb \in DOMAIN cbs'
    <3>1. CASE k = 1
      BY <1>0, <1>5, <1>8, <1>9, <3>1 DEF Deleted
    <3>2. CASE k # 1
      <4>1. k - 1 \in 1 .. n /\ timers'[k] = timers[k - 1]
        BY <1>5, <1>7, <3>2
      <4>2. timers'[k].id \in Deleted .. timeEventNextId - 1 /\ timers'[k].cb \in DOMAIN cbs
        BY <2>1, <4>1
      <4>3. \A i \in Deleted .. timeEventNextId - 1 : i \in Deleted .. (timeEventNextId + 1) - 1
        BY <1>0 DEF Deleted
      <4> QED BY <1>8, <4>2, <4>3
    <3> QED BY <3>1, <3>2
  <2>3. ASSUME NEW j \in 1 .. n + 1, NEW k \in 1 .. n + 1, timers'[j].cb = timers'[k].cb
        PROVE  j = k
    <3>1. ASSUME NEW i \in 1 .. n + 1, i # 1
          PROVE  i - 1 \in 1 .. n /\ timers'[i].cb = timers[i - 1].cb /\ timers'[i].cb # c
      <4>1. i - 1 \in 1 .. n /\ timers'[i] = timers[i - 1]
        BY <1>5, <1>7, <3>1
      <4> QED BY <1>8, <2>1, <4>1
    <3>2. timers'[1].cb = c
      BY <1>5, <1>9
    <3>3. CASE j # 1 /\ k # 1
      <4>1. j - 1 \in 1 .. n /\ k - 1 \in 1 .. n /\ timers[j - 1].cb = timers[k - 1].cb
        BY <2>3, <3>1, <3>3
      <4>2. j - 1 = k - 1
        BY <2>1, <4>1
      <4> QED BY <4>2
    <3> QED BY <2>3, <3>1, <3>2, <3>3
  <2>4. armed' = {timers'[k].cb : k \in {k \in 1 .. n + 1 : timers'[k].id # Deleted}}
    <3>0. x.id # Deleted
      BY <1>0, <1>9 DEF Deleted
    <3>1. ASSUME NEW d \in armed
          PROVE  \E k \in 1 .. n + 1 : timers'[k].id # Deleted /\ timers'[k].cb = d
      <4>1. PICK k \in 1 .. n : timers[k].id # Deleted /\ timers[k].cb = d
        BY <2>1
      <4> QED BY <1>5, <1>7, <4>1
    <3>2. \E k \in 1 .. n + 1 : timers'[k].id # Deleted /\ timers'[k].cb = c
      BY <1>5, <1>7, <1>9, <3>0
    <3>3. ASSUME NEW k \in 1 .. n + 1, timers'[k].id # Deleted PROVE timers'[k].cb \in armed'
      <4>1. CASE k = 1
        BY <1>4, <1>5, <1>9, <4>1
      <4>2. CASE k # 1
        <5>1. k - 1 \in 1 .. n /\ timers'[k] = timers[k - 1]
          BY <1>5, <1>7, <4>2
        <5>2. timers[k - 1].cb \in armed
          BY <2>1, <3>3, <5>1
        <5> QED BY <1>4, <5>1, <5>2
      <4> QED BY <4>1, <4>2
    <3>4. \A d \in armed' : \E k \in 1 .. n + 1 : timers'[k].id # Deleted /\ timers'[k].cb = d
      BY <1>4, <3>1, <3>2
    <3> QED BY <3>3, <3>4
  <2>5. timeEventNextId' \in Nat
    BY <1>0, <1>4
  <2> QED BY <1>4, <1>5, <1>6, <1>8, <2>2, <2>3, <2>4, <2>5 DEF ListInv
<1>11. pc # "sleep" /\ (pc = "timers" => call.at = "timer")
  BY <1>4, ScriptWhere
<1>12. CallInv' /\ SleepInv'
  BY <1>0, <1>4, <1>11 DEF CallInv, SleepInv
<1>13. WalkInv'
  <2>0. pass' = pass /\ call' = call /\ pc' = pc /\ pass \in [te : Nat, prev : Nat, maxId : Int]
    BY <1>0, <1>4 DEF WalkInv
  <2> SUFFICES ASSUME pass.te # 0
               PROVE  /\ pc = "timers" /\ pass.maxId >= Deleted /\ call.at = "timer"
                      /\ \E q \in 1 .. n + 1 : /\ timers'[q].cb = pass.te
                                               /\ \A k \in 1 .. n + 1 : k >= q => timers'[k].id <= pass.maxId
    BY <1>6, <2>0 DEF WalkInv
  <2>1. pc = "timers" /\ pass.maxId >= Deleted
    BY <1>0 DEF WalkInv
  <2>2. PICK p \in 1 .. n : /\ timers[p].cb = pass.te
                            /\ \A k \in 1 .. n : k >= p => timers[k].id <= pass.maxId
    BY <1>0, <1>a DEF WalkInv
  <2>3. \A k \in 1 .. n + 1 : k >= p + 1 => k \in 2 .. n + 1 /\ k - 1 \in 1 .. n /\ k - 1 >= p
    OBVIOUS
  <2>4. \A k \in 1 .. n + 1 : k >= p + 1 => timers'[k].id <= pass.maxId
    BY <1>5, <2>2, <2>3
  <2>5. p + 1 \in 1 .. n + 1 /\ timers'[p + 1].cb = pass.te
    BY <1>5, <1>7, <2>2
  <2> QED BY <1>11, <2>1, <2>4, <2>5
<1>14. OwedInv'
  <2>1. ASSUME NEW d \in owed
        PROVE  \E i, k \in 1 .. n + 1 :
                 /\ i <= k /\ timers'[i].cb = pass.te /\ timers'[k].cb = d
                 /\ timers'[k].id # Deleted /\ timers'[k].left = 0
                 /\ call.at = "timer" => i # k
    <3>1. PICK i, k \in 1 .. n :
                 /\ i <= k /\ timers[i].cb = pass.te /\ timers[k].cb = d
                 /\ timers[k].id # Deleted /\ timers[k].left = 0
                 /\ call.at = "timer" => i # k
      BY <1>0, <1>a DEF OwedInv
    <3>2. i + 1 \in 1 .. n + 1 /\ k + 1 \in 1 .. n + 1 /\ i + 1 <= k + 1 /\ (i # k => i + 1 # k + 1)
      BY <3>1
    <3>3. timers'[i + 1] = timers[i] /\ timers'[k + 1] = timers[k]
      BY <1>5
    <3> QED BY <3>1, <3>2, <3>3
  <2>2. pass' = pass /\ call' = call /\ pc' = pc /\ owed' = owed
    BY <1>4
  <2>3. pc # "timers" => owed = {}
    BY <1>0 DEF OwedInv
  <2>4. \A d \in owed : \E i, k \in DOMAIN timers' :
                 /\ i <= k /\ timers'[i].cb = pass.te /\ timers'[k].cb = d
                 /\ timers'[k].id # Deleted /\ timers'[k].left = 0
                 /\ call.at = "timer" => i # k
    BY <1>6, <2>1
  <2> QED BY <2>2, <2>3, <2>4 DEF OwedInv
<1> QED BY <1>10, <1>12, <1>13, <1>14 DEF TimerInv

(* Steps that only change the times left.                                  *)
LEMMA Retimed ==
    ASSUME TimerInv, NEW l \in [DOMAIN timers -> Nat],
           timers' = [k \in DOMAIN timers |-> WithLeft(timers[k], l[k])],
           UNCHANGED <<timeEventNextId, pc, pass, call, cbs, armed>>
    PROVE  /\ ListInv' /\ WalkInv' /\ CallInv' /\ DOMAIN timers' = DOMAIN timers
           /\ \A k \in DOMAIN timers : /\ timers'[k].cb = timers[k].cb
                                       /\ timers'[k].id = timers[k].id
                                       /\ timers'[k].left = l[k]
<1>0. timers \in Seq(Timer) /\ ListInv /\ CallInv /\ WalkInv /\ cbs \in Seq(Record)
  BY DEF TimerInv, ListInv
<1>1. \A k \in DOMAIN timers : timers[k] \in Timer
  BY <1>0, TimerTypes
<1>2. \A k \in DOMAIN timers : /\ timers'[k] \in Timer /\ timers'[k].cb = timers[k].cb
                               /\ timers'[k].id = timers[k].id /\ timers'[k].left = l[k]
  <2> SUFFICES ASSUME NEW k \in DOMAIN timers
               PROVE  /\ timers'[k] \in Timer /\ timers'[k].cb = timers[k].cb
                      /\ timers'[k].id = timers[k].id /\ timers'[k].left = l[k]
    OBVIOUS
  <2>1. timers[k] \in Timer /\ l[k] \in Nat /\ 0 \in Int /\ timers'[k] = WithLeft(timers[k], l[k])
    BY <1>1
  <2> QED BY <2>1, TimerFields
<1>3. timers' \in Seq(Timer) /\ DOMAIN timers' = DOMAIN timers
  <2>1. timers' \in [DOMAIN timers -> Timer]
    BY <1>2
  <2> QED BY <1>0, <2>1, ReplacedList
<1>4. \A k \in DOMAIN timers : /\ timers'[k].cb = timers[k].cb
                               /\ timers'[k].id \in {timers[k].id, Deleted}
  BY <1>2
<1>5. ListInv'
  <2>1. \A k \in DOMAIN timers : timers[k].cb \in armed' <=> timers'[k].id # Deleted
    BY <1>0, <1>2, ArmedIff
  <2>3. cbs' \in Seq(Record) /\ DOMAIN cbs \subseteq DOMAIN cbs' /\ armed' \subseteq armed
        /\ timeEventNextId' = timeEventNextId
    BY <1>0
  <2> QED BY <1>0, <1>3, <1>4, <2>1, <2>3, ListSameShape
<1>6. WalkInv'
  BY <1>0, <1>3, <1>4, WalkSameShape
<1>7. CallInv'
  BY <1>0 DEF CallInv
<1> QED BY <1>2, <1>3, <1>5, <1>6, <1>7

(* Time passes: the poll and the timers stay in step.                      *)
LEMMA TickKeepsTimers ==
    ASSUME TimerInv, UNCHANGED php_vars, Tick
    PROVE  TimerInv'
<1>0. timers \in Seq(Timer) /\ OwedInv /\ SleepInv
  BY DEF TimerInv, ListInv
<1>1. \A k \in DOMAIN timers : timers[k].left \in Nat
  BY <1>0, TimerTypes
<1> DEFINE l == [k \in DOMAIN timers |-> IF timers[k].left > 0 THEN timers[k].left - 1 ELSE 0]
<1>2. l \in [DOMAIN timers -> Nat]
  BY <1>1
<1>3. /\ timers' = [k \in DOMAIN timers |-> WithLeft(timers[k], l[k])]
      /\ tvp' = IF tvp > 0 THEN tvp - 1 ELSE tvp
      /\ tvp # 0 \/ pc # "sleep"
      /\ UNCHANGED <<timeEventNextId, pc, pass, call, cbs, armed, owed>>
  BY DEF Tick, php_vars, WithLeft
<1>a. \A k \in DOMAIN timers : l[k] = IF timers[k].left > 0 THEN timers[k].left - 1 ELSE 0
  OBVIOUS
<1> HIDE DEF l
<1>4. /\ ListInv' /\ WalkInv' /\ CallInv' /\ DOMAIN timers' = DOMAIN timers
      /\ \A k \in DOMAIN timers : /\ timers'[k].cb = timers[k].cb
                                  /\ timers'[k].id = timers[k].id
                                  /\ timers'[k].left = l[k]
  BY <1>2, <1>3, Retimed
<1>5. OwedInv'
  <2>1. \A k \in DOMAIN timers : timers[k].left = 0 => timers'[k].left = 0
    BY <1>a, <1>4
  <2> QED BY <1>0, <1>3, <1>4, <2>1 DEF OwedInv
<1>6. SleepInv'
  <2>1. tvp \in Nat \cup {Forever} /\ tvp' \in Nat \cup {Forever}
    BY <1>0, <1>3 DEF SleepInv, Forever
  <2>2. ASSUME pc = "sleep", NEW k \in DOMAIN timers
        PROVE  tvp' # Forever /\ tvp' <= timers'[k].left
    <3>1. tvp # Forever /\ tvp <= timers[k].left /\ tvp # 0
      BY <1>0, <1>3, <2>2 DEF SleepInv
    <3>2. timers'[k].left = IF timers[k].left > 0 THEN timers[k].left - 1 ELSE 0
      BY <1>4, <1>a
    <3> QED BY <1>1, <1>3, <2>1, <3>1, <3>2 DEF Forever
  <2> QED BY <1>3, <1>4, <2>1, <2>2 DEF SleepInv
<1> QED BY <1>4, <1>5, <1>6 DEF TimerInv

(* The clock is set back: every timer is further away.                     *)
LEMMA ClockKeepsTimers ==
    ASSUME TimerInv, UNCHANGED php_vars, ClockSetBack
    PROVE  TimerInv'
<1>0. timers \in Seq(Timer) /\ SleepInv
  BY DEF TimerInv, ListInv
<1>1. \A k \in DOMAIN timers : timers[k].left \in Nat
  BY <1>0, TimerTypes
<1> DEFINE l == [k \in DOMAIN timers |-> timers[k].left + 1]
<1>2. l \in [DOMAIN timers -> Nat]
  BY <1>1
<1>3. /\ timers' = [k \in DOMAIN timers |-> WithLeft(timers[k], l[k])]
      /\ owed' = {}
      /\ UNCHANGED <<timeEventNextId, pc, tvp, pass, call, cbs, armed>>
  BY DEF ClockSetBack, php_vars, WithLeft
<1>a. \A k \in DOMAIN timers : l[k] = timers[k].left + 1
  OBVIOUS
<1> HIDE DEF l
<1>4. /\ ListInv' /\ WalkInv' /\ CallInv' /\ DOMAIN timers' = DOMAIN timers
      /\ \A k \in DOMAIN timers : timers'[k].left = l[k]
  BY <1>2, <1>3, Retimed
<1>5. OwedInv'
  BY <1>3 DEF OwedInv
<1>6. SleepInv'
  <2>1. \A k \in DOMAIN timers : timers'[k].left = timers[k].left + 1
    BY <1>4, <1>a
  <2> QED BY <1>0, <1>1, <1>3, <1>4, <2>1 DEF SleepInv, Forever
<1> QED BY <1>4, <1>5, <1>6 DEF TimerInv

(* Every step keeps the list and the walk.                                 *)
LEMMA StepTimers ==
    ASSUME WatchInv, TimerInv, [Next]_vars
    PROVE  TimerInv'
<1>1. CASE Operation
  <2>1. ASSUME NEW fd \in 0 .. SetSize, NEW m \in Masks \ {{}}, add(fd, m)
        PROVE  TimerInv'
    BY <2>1, AddKeepsTimers
  <2>2. ASSUME NEW fd \in 0 .. SetSize, NEW m \in Masks \ {{}}, del_file(fd, m)
        PROVE  TimerInv'
    <3>1. UNCHANGED <<timers, timeEventNextId, armed, pc, call, pass, owed, tvp, cbs>>
      BY <2>2 DEF del_file, Unmoved, php_vars
    <3>2. cbs' \in Seq(Record) /\ DOMAIN cbs \subseteq DOMAIN cbs'
      BY <3>1 DEF TimerInv, ListInv
    <3> QED BY <3>1, <3>2, QuietKeepsTimers
  <2>3. ASSUME NEW id, del_timer(id) PROVE TimerInv'
    BY <2>3, DelTimerKeepsTimers
  <2>4. ASSUME NEW ms \in Delays \cup Intervals \cup {-1}, after(ms) \/ tick(ms)
        PROVE  TimerInv'
    <3>1. ms \in Int /\ NULL \in Int
      BY PhpAssumption DEF NULL
    <3> QED BY <2>4, <3>1, SetsTimerKeepsTimers DEF after, tick
  <2>5. CASE stops
    <3>1. UNCHANGED <<timers, timeEventNextId, armed, pc, call, pass, owed, tvp, cbs>>
      BY <2>5 DEF stops, Unmoved, php_vars
    <3>2. cbs' \in Seq(Record) /\ DOMAIN cbs \subseteq DOMAIN cbs'
      BY <3>1 DEF TimerInv, ListInv
    <3> QED BY <3>1, <3>2, QuietKeepsTimers
  <2> QED BY <1>1, <2>1, <2>2, <2>3, <2>4, <2>5 DEF Operation
<1>2. CASE start
  BY <1>2, StartKeepsTimers
<1>3. CASE LoopStep
  <2>1. CASE (aeProcessEvents \/ PollReturns \/ DispatchEntry \/ FileProcReturns \/ PassEnds)
                /\ UNCHANGED php_vars
    BY <2>1, PollKeepsTimers
  <2>2. CASE TimerPassBegins
    BY <2>2, PassBeginsKeepsTimers
  <2>3. CASE TimerPassedOver
    BY <2>3, PassedOverKeepsTimers
  <2>4. CASE TimerFires
    BY <2>4, FiresKeepsTimers
  <2>5. CASE aeTimerCallback
    BY <2>5, CallbackKeepsTimers
  <2>6. CASE aeTimerFinalizer
    BY <2>6, FinalizerKeepsTimers
  <2> QED BY <1>3, <2>1, <2>2, <2>3, <2>4, <2>5, <2>6 DEF LoopStep
<1>4. CASE TimePasses
  BY <1>4, TickKeepsTimers DEF TimePasses
<1>5. CASE ClockSetBack /\ UNCHANGED php_vars
  BY <1>5, ClockKeepsTimers
<1>6. CASE UNCHANGED vars
  <2>1. UNCHANGED <<timers, timeEventNextId, armed, pc, call, pass, owed, tvp, cbs>>
    BY <1>6 DEF vars, loop_vars, php_vars
  <2>2. cbs' \in Seq(Record) /\ DOMAIN cbs \subseteq DOMAIN cbs'
    BY <2>1 DEF TimerInv, ListInv
  <2> QED BY <2>1, <2>2, QuietKeepsTimers
<1> QED BY <1>1, <1>2, <1>3, <1>4, <1>5, <1>6 DEF Next
-----------------------------------------------------------------------------
(* Steps that free and make no record: timers at most become deleted, and  *)
(* events at most go.                                                      *)
LEMMA SameMemory ==
    ASSUME MemoryInv, cbs' = cbs, DOMAIN timers' = DOMAIN timers,
           \A k \in DOMAIN timers : /\ timers'[k].cb = timers[k].cb
                                    /\ timers'[k].id \in {timers[k].id, Deleted},
           \A fd \in Fd : events'[fd].mask # {} =>
                            events[fd].mask # {} /\ events'[fd].cb = events[fd].cb,
           call' = call \/ call' = NoCall
    PROVE  MemoryInv'
<1>1. \A c \in DOMAIN cbs' : cbs'[c].freed <= 1 \/ Doomed(cbs'[c].data)
  BY DEF MemoryInv
<1>2. \A k \in DOMAIN timers' : cbs'[timers'[k].cb].freed = 0 \/
                                Doomed(cbs'[timers'[k].cb].data)
  BY DEF MemoryInv
<1>3. \A fd \in Fd : events'[fd].mask # {} =>
         /\ events'[fd].cb \in DOMAIN cbs' /\ cbs'[events'[fd].cb].freed = 0
         /\ \A k \in DOMAIN timers' : timers'[k].cb # events'[fd].cb
  BY DEF MemoryInv
<1>4. /\ call'.at = "file" => call'.cb \in DOMAIN cbs' /\ cbs'[call'.cb].freed = 0
      /\ call'.at = "timer" => cbs'[call'.cb].freed = 0 \/ Doomed(cbs'[call'.cb].data)
  BY DEF MemoryInv, NoCall
<1> QED BY <1>1, <1>2, <1>3, <1>4 DEF MemoryInv

(* What the steps that change times and mark timers do to the list.        *)
LEMMA TimersShape ==
    ASSUME timers \in Seq(Timer),
           (\E id : del_timer(id)) \/ TimerPassBegins \/ Tick \/ ClockSetBack
    PROVE  /\ DOMAIN timers' = DOMAIN timers
           /\ \A k \in DOMAIN timers : /\ timers'[k].cb = timers[k].cb
                                       /\ timers'[k].id \in {timers[k].id, Deleted}
<1>1. \A k \in DOMAIN timers : timers[k] \in Timer /\ timers[k].left \in Nat
  BY TimerTypes
<1>2. ASSUME NEW id, del_timer(id)
      PROVE  timers' = [k \in DOMAIN timers |-> IF timers[k].id = id THEN WithId(timers[k], Deleted)
                                                                     ELSE timers[k]]
  BY <1>2 DEF del_timer, aeDeleteTimeEvent, WithId
<1>3. CASE \E id : del_timer(id)
  <2>1. PICK id : del_timer(id)
    BY <1>3
  <2>2. DOMAIN timers' = DOMAIN timers
        /\ \A k \in DOMAIN timers : timers'[k] \in {timers[k], WithId(timers[k], Deleted)}
    BY <1>2, <2>1
  <2>3. ASSUME NEW k \in DOMAIN timers
        PROVE  timers'[k].cb = timers[k].cb /\ timers'[k].id \in {timers[k].id, Deleted}
    <3>1. timers[k] \in Timer /\ Deleted \in Int /\ 0 \in Nat
      BY <1>1 DEF Deleted
    <3>2. WithId(timers[k], Deleted).cb = timers[k].cb /\ WithId(timers[k], Deleted).id = Deleted
      BY <3>1, TimerFields
    <3> QED BY <2>2, <3>2
  <2> QED BY <2>2, <2>3
<1>4. CASE TimerPassBegins \/ Tick \/ ClockSetBack
  <2>1. DOMAIN timers' = DOMAIN timers
        /\ \A k \in DOMAIN timers : \E l \in Nat : timers'[k] \in {timers[k], WithLeft(timers[k], l)}
    <3>1. CASE TimerPassBegins
      BY <3>1 DEF TimerPassBegins, PassBegins, WithLeft
    <3>2. CASE Tick
      <4>1. timers' = [k \in DOMAIN timers |->
                         WithLeft(timers[k], IF timers[k].left > 0 THEN timers[k].left - 1 ELSE 0)]
        BY <3>2 DEF Tick, WithLeft
      <4>2. \A k \in DOMAIN timers : (IF timers[k].left > 0 THEN timers[k].left - 1 ELSE 0) \in Nat
        BY <1>1
      <4> QED BY <4>1, <4>2
    <3>3. CASE ClockSetBack
      <4>1. timers' = [k \in DOMAIN timers |-> WithLeft(timers[k], timers[k].left + 1)]
        BY <3>3 DEF ClockSetBack, WithLeft
      <4>2. \A k \in DOMAIN timers : timers[k].left + 1 \in Nat
        BY <1>1
      <4> QED BY <4>1, <4>2
    <3> QED BY <1>4, <3>1, <3>2, <3>3
  <2>2. ASSUME NEW k \in DOMAIN timers
        PROVE  timers'[k].cb = timers[k].cb /\ timers'[k].id \in {timers[k].id, Deleted}
    <3>1. PICK l \in Nat : timers'[k] \in {timers[k], WithLeft(timers[k], l)}
      BY <2>1
    <3>2. timers[k] \in Timer /\ 0 \in Int
      BY <1>1
    <3>3. WithLeft(timers[k], l).cb = timers[k].cb /\ WithLeft(timers[k], l).id = timers[k].id
      BY <3>2, TimerFields
    <3> QED BY <3>1, <3>3
  <2> QED BY <2>1, <2>2
<1> QED BY <1>3, <1>4

(* No records yet.                                                         *)
LEMMA InitMemory == Init => MemoryInv
<1> SUFFICES ASSUME Init PROVE MemoryInv
  OBVIOUS
<1>1. timers = <<>> /\ cbs = <<>> /\ call = NoCall
      /\ events = [fd \in Fd |-> [mask |-> {}, cb |-> 0]]
  BY DEF Init, aeCreateEventLoop
<1>2. DOMAIN timers = {} /\ DOMAIN cbs = {} /\ call.at = "none"
      /\ \A fd \in Fd : events[fd].mask = {}
  BY <1>1 DEF NoCall
<1> QED BY <1>2 DEF MemoryInv

(* An open callback has a record.                                          *)
LEMMA CallHasRecord ==
    ASSUME TimerInv, MemoryInv
    PROVE  call.at # "none" => call.cb \in DOMAIN cbs
<1>1. ASSUME call.at = "timer" PROVE call.cb \in DOMAIN cbs
  <2>1. pass.te # 0 /\ call.cb = pass.te
    BY <1>1 DEF TimerInv, CallInv
  <2>2. \E k \in DOMAIN timers : timers[k].cb = pass.te
    BY <2>1 DEF TimerInv, WalkInv
  <2> QED BY <2>1, <2>2 DEF TimerInv, ListInv
<1> QED BY <1>1 DEF MemoryInv, TimerInv, CallInv

(* A record made by add is used by its descriptor only.                    *)
LEMMA AddKeepsMemory ==
    ASSUME WatchInv, TimerInv, MemoryInv, NEW fd \in 0 .. SetSize, NEW m \in Masks, add(fd, m)
    PROVE  MemoryInv'
<1>0. cbs \in Seq(Record) /\ fd \in Int
  BY PollAssumption DEF TimerInv, ListInv
<1>1. UNCHANGED <<timers, call>>
  BY DEF add, Unmoved
<1>2. PICK c \in Nat \ {0} : c = Len(cbs) + 1
  BY <1>0, LenProperties
<1>3. /\ c \notin DOMAIN cbs /\ NewCb(fd) \in Seq(Record) /\ DOMAIN NewCb(fd) = DOMAIN cbs \cup {c}
      /\ NewCb(fd)[c] = [data |-> fd, freed |-> 0]
      /\ \A x \in DOMAIN cbs : NewCb(fd)[x] = cbs[x]
  <2>1. /\ Len(cbs) \in Nat /\ DOMAIN cbs = 1 .. Len(cbs) /\ NewCb(fd) \in Seq(Record)
        /\ DOMAIN NewCb(fd) = 1 .. Len(cbs) + 1
        /\ NewCb(fd)[Len(cbs) + 1] = [data |-> fd, freed |-> 0]
        /\ \A x \in DOMAIN cbs : NewCb(fd)[x] = cbs[x]
    BY <1>0, NewRecord
  <2>2. 1 .. Len(cbs) + 1 = (1 .. Len(cbs)) \cup {c} /\ c \notin 1 .. Len(cbs)
    BY <1>2, <2>1
  <2> QED BY <1>2, <2>1, <2>2
<1>4. /\ DOMAIN cbs' = DOMAIN cbs \cup {c} /\ cbs'[c].data = fd /\ cbs'[c].freed \in {0, 1}
      /\ \A x \in DOMAIN cbs : cbs'[x] = cbs[x]
  <2>1. CASE cbs' = NewCb(fd)
    BY <1>3, <2>1
  <2>2. CASE cbs' = efree(NewCb(fd), c)
    <3>1. c \in DOMAIN NewCb(fd)
      BY <1>3
    <3>2. /\ DOMAIN efree(NewCb(fd), c) = DOMAIN NewCb(fd)
          /\ efree(NewCb(fd), c)[c].data = NewCb(fd)[c].data
          /\ efree(NewCb(fd), c)[c].freed = IF NewCb(fd)[c].freed < 2 THEN NewCb(fd)[c].freed + 1
                                             ELSE NewCb(fd)[c].freed
          /\ \A x \in DOMAIN NewCb(fd) \ {c} : efree(NewCb(fd), c)[x] = NewCb(fd)[x]
      BY <1>3, <3>1, FreedRecord
    <3>3. NewCb(fd)[c].data = fd /\ NewCb(fd)[c].freed = 0
      BY <1>3
    <3> QED BY <1>3, <2>2, <3>2, <3>3
  <2> QED BY <1>2, <2>1, <2>2 DEF add
<1>5. \A k \in DOMAIN timers : timers[k].cb \in DOMAIN cbs
  BY DEF TimerInv, ListInv
<1>6. call.at # "none" => call.cb \in DOMAIN cbs
  BY CallHasRecord
<1>7. \A e \in Fd : events'[e].mask # {} =>
         \/ events[e].mask # {} /\ events'[e].cb = events[e].cb
         \/ events'[e].cb = c /\ cbs'[c].freed = 0
  <2>1. CASE fd < SetSize /\ aeCreateFileEvent(fd, m, Len(cbs) + 1) /\ cbs' = NewCb(fd)
    <3>1. events' = [events EXCEPT ![fd] = [mask |-> @.mask \cup m, cb |-> c]]
      BY <1>2, <2>1 DEF aeCreateFileEvent
    <3>2. \A e \in Fd : e # fd => events'[e] = events[e]
      BY <3>1 DEF WatchInv
    <3>3. fd \in Fd => events'[fd].cb = c
      BY <3>1 DEF WatchInv
    <3>4. cbs'[c].freed = 0
      BY <1>3, <2>1
    <3> QED BY <3>2, <3>3, <3>4
  <2>2. CASE aeCreateFileEventFails(fd, m)
    BY <2>2 DEF aeCreateFileEventFails
  <2> QED BY <2>1, <2>2 DEF add
<1>8. \A x \in DOMAIN cbs' : cbs'[x].freed <= 1 \/ Doomed(cbs'[x].data)
  <2>1. cbs'[c].freed <= 1
    BY <1>4
  <2> QED BY <1>4, <2>1 DEF MemoryInv
<1>9. \A k \in DOMAIN timers' : cbs'[timers'[k].cb].freed = 0 \/
                                Doomed(cbs'[timers'[k].cb].data)
  BY <1>1, <1>4, <1>5 DEF MemoryInv
<1>10. ASSUME NEW e \in Fd, events'[e].mask # {}
       PROVE  /\ events'[e].cb \in DOMAIN cbs' /\ cbs'[events'[e].cb].freed = 0
              /\ \A k \in DOMAIN timers' : timers'[k].cb # events'[e].cb
  <2>1. CASE events[e].mask # {} /\ events'[e].cb = events[e].cb
    BY <1>1, <1>4, <2>1 DEF MemoryInv
  <2>2. CASE events'[e].cb = c /\ cbs'[c].freed = 0
    BY <1>1, <1>3, <1>4, <1>5, <2>2
  <2> QED BY <1>7, <1>10, <2>1, <2>2
<1>11. /\ call'.at = "file" => call'.cb \in DOMAIN cbs' /\ cbs'[call'.cb].freed = 0
       /\ call'.at = "timer" => cbs'[call'.cb].freed = 0 \/ Doomed(cbs'[call'.cb].data)
  BY <1>1, <1>4, <1>6 DEF MemoryInv
<1> QED BY <1>8, <1>9, <1>10, <1>11 DEF MemoryInv

(* A record made by after or tick is used by its timer only.               *)
LEMMA SetsTimerKeepsMemory ==
    ASSUME WatchInv, TimerInv, MemoryInv, NEW ms \in Int, NEW data \in Int,
           SetsTimer(ms, data)
    PROVE  MemoryInv'
<1>0. cbs \in Seq(Record) /\ timers \in Seq(Timer) /\ timeEventNextId \in Nat
  BY DEF TimerInv, ListInv
<1>1. UNCHANGED <<events, call>> /\ cbs' = NewCb(data)
  BY DEF SetsTimer, Unmoved
<1>2. PICK c \in Nat \ {0} : c = Len(cbs) + 1
  BY <1>0, LenProperties
<1>3. /\ c \notin DOMAIN cbs /\ DOMAIN cbs' = DOMAIN cbs \cup {c}
      /\ cbs'[c].freed = 0 /\ \A x \in DOMAIN cbs : cbs'[x] = cbs[x]
  <2>1. /\ Len(cbs) \in Nat /\ DOMAIN cbs = 1 .. Len(cbs)
        /\ DOMAIN cbs' = 1 .. Len(cbs) + 1
        /\ cbs'[Len(cbs) + 1] = [data |-> data, freed |-> 0]
        /\ \A x \in DOMAIN cbs : cbs'[x] = cbs[x]
    BY <1>0, <1>1, NewRecord
  <2>2. 1 .. Len(cbs) + 1 = (1 .. Len(cbs)) \cup {c} /\ c \notin 1 .. Len(cbs)
    BY <1>2, <2>1
  <2> QED BY <1>2, <2>1, <2>2
<1>4. \A k \in DOMAIN timers' : \/ timers'[k].cb = c
                                \/ \E j \in DOMAIN timers : timers'[k] = timers[j]
  <2>1. PICK x \in Timer : x.cb = c /\ timers' = <<x>> \o timers
    <3>1. PICK l \in Nat : l = IF ms < 0 THEN 0 ELSE ms
      OBVIOUS
    <3>2. timers' = <<[cb |-> c, id |-> timeEventNextId, left |-> l]>> \o timers
      BY <1>2, <3>1 DEF SetsTimer, aeCreateTimeEvent
    <3>3. timeEventNextId \in Int
      BY <1>0
    <3>4. [cb |-> c, id |-> timeEventNextId, left |-> l] \in Timer
      BY <3>3 DEF Timer
    <3> QED BY <3>2, <3>4
  <2>2. /\ timers' \in Seq(Timer) /\ Len(timers') = Len(timers) + 1 /\ timers'[1] = x
        /\ \A k \in 2 .. Len(timers) + 1 : timers'[k] = timers[k - 1]
    BY <1>0, <2>1, PutInFront
  <2>3. Len(timers) \in Nat /\ DOMAIN timers = 1 .. Len(timers)
        /\ DOMAIN timers' = 1 .. Len(timers) + 1
    BY <1>0, <2>2, TimerTypes
  <2>4. \A k \in 1 .. Len(timers) + 1 : k = 1 \/ (k \in 2 .. Len(timers) + 1 /\ k - 1 \in 1 .. Len(timers))
    BY <2>3
  <2> QED BY <2>1, <2>2, <2>3, <2>4
<1>5. \A k \in DOMAIN timers : timers[k].cb \in DOMAIN cbs
  BY DEF TimerInv, ListInv
<1>6. call.at # "none" => call.cb \in DOMAIN cbs
  BY CallHasRecord
<1>7. \A x \in DOMAIN cbs' : cbs'[x].freed <= 1 \/ Doomed(cbs'[x].data)
  <2>1. cbs'[c].freed <= 1
    BY <1>3
  <2> QED BY <1>3, <2>1 DEF MemoryInv
<1>8. \A k \in DOMAIN timers' : cbs'[timers'[k].cb].freed = 0 \/
                                Doomed(cbs'[timers'[k].cb].data)
  BY <1>3, <1>4, <1>5 DEF MemoryInv
<1>9. \A e \in Fd : events'[e].mask # {} =>
         /\ events'[e].cb \in DOMAIN cbs' /\ cbs'[events'[e].cb].freed = 0
         /\ \A k \in DOMAIN timers' : timers'[k].cb # events'[e].cb
  BY <1>1, <1>3, <1>4 DEF MemoryInv
<1>10. /\ call'.at = "file" => call'.cb \in DOMAIN cbs' /\ cbs'[call'.cb].freed = 0
       /\ call'.at = "timer" => cbs'[call'.cb].freed = 0 \/ Doomed(cbs'[call'.cb].data)
  BY <1>1, <1>3, <1>6 DEF MemoryInv
<1> QED BY <1>7, <1>8, <1>9, <1>10 DEF MemoryInv

(* aeTimerCallback frees the records of doomed ticks and no other.         *)
LEMMA CallbackKeepsMemory ==
    ASSUME TimerInv, MemoryInv, aeTimerCallback
    PROVE  MemoryInv'
<1>0. timers \in Seq(Timer) /\ ListInv /\ CallInv /\ cbs \in Seq(Record)
  BY DEF TimerInv, ListInv
<1>1. DOMAIN timers = 1 .. Len(timers) /\ \A k \in DOMAIN timers : timers[k] \in Timer
  BY <1>0, TimerTypes
<1>2. call.at = "timer" /\ pass.te # 0 /\ call.cb = pass.te
  BY <1>0 DEF aeTimerCallback, CallInv
<1>3. PICK p \in DOMAIN timers : timers[p].cb = pass.te /\ At(pass.te) = p
  BY <1>1, <1>2, WalkStands
<1>4. pass.te \in DOMAIN cbs /\ \A k \in DOMAIN timers : timers[k].cb = pass.te => k = p
  BY <1>0, <1>3 DEF ListInv
<1>5. cbs[pass.te].freed = 0 \/ Doomed(cbs[pass.te].data)
  BY <1>2 DEF MemoryInv
<1>6. /\ efree(cbs, pass.te) \in Seq(Record) /\ DOMAIN efree(cbs, pass.te) = DOMAIN cbs
      /\ efree(cbs, pass.te)[pass.te].data = cbs[pass.te].data
      /\ cbs[pass.te].data \in Int
      /\ \A j \in DOMAIN cbs \ {pass.te} : efree(cbs, pass.te)[j] = cbs[j]
  BY <1>0, <1>4, FreedRecord
<1>7. PICK data \in Int : data = cbs[pass.te].data
  BY <1>6
<1>a. PICK retval \in Int : TimeProcReturns(retval)
  <2>1. \E retval \in Returned(data) : TimeProcReturns(retval)
    BY <1>2, <1>7 DEF aeTimerCallback
  <2> QED BY <2>1, ReturnsAnInt
<1>b. PICK next \in Nat : next = IF retval < 0 THEN 0 ELSE retval
  OBVIOUS
<1>8. /\ cbs' = IF Doomed(data) THEN efree(cbs, pass.te) ELSE cbs
      /\ call' = NoCall /\ UNCHANGED events
      /\ timers' = [timers EXCEPT ![p] = IF retval = -1 THEN WithId(timers[p], Deleted)
                                         ELSE WithLeft(timers[p], next)]
  <2>1. timers' = [timers EXCEPT ![p] = IF retval = -1 THEN WithId(timers[p], Deleted)
                                        ELSE WithLeft(timers[p], next)]
    BY <1>3, <1>a, <1>b, ReturnedTimer
  <2>2. call' = NoCall
    BY <1>a DEF TimeProcReturns
  <2> QED BY <1>2, <1>7, <2>1, <2>2 DEF aeTimerCallback
<1>9. /\ DOMAIN timers' = DOMAIN timers
      /\ \A k \in DOMAIN timers : k # p => timers'[k] = timers[k]
      /\ timers'[p].cb = timers[p].cb
  <2>1. /\ WithId(timers[p], Deleted).cb = timers[p].cb
        /\ \A l \in Nat : WithLeft(timers[p], l).cb = timers[p].cb
    <3>1. timers[p] \in Timer /\ Deleted \in Int /\ 0 \in Nat
      BY <1>1 DEF Deleted
    <3> QED BY <3>1, TimerFields
  <2>2. CASE retval = -1
    <3>1. timers' = [timers EXCEPT ![p] = WithId(timers[p], Deleted)]
      BY <1>8, <2>2
    <3> QED BY <2>1, <3>1
  <2>3. CASE retval # -1
    <3>1. timers' = [timers EXCEPT ![p] = WithLeft(timers[p], next)]
      BY <1>8, <2>3
    <3> QED BY <1>b, <2>1, <3>1
  <2> QED BY <2>2, <2>3
<1>10. /\ DOMAIN cbs' = DOMAIN cbs /\ \A c \in DOMAIN cbs : cbs'[c].data = cbs[c].data
       /\ \A c \in DOMAIN cbs : c # pass.te \/ ~Doomed(data) => cbs'[c] = cbs[c]
  BY <1>6, <1>8
<1>11. \A c \in DOMAIN cbs' : cbs'[c].freed <= 1 \/ Doomed(cbs'[c].data)
  BY <1>7, <1>10 DEF MemoryInv
<1>12. ASSUME NEW k \in DOMAIN timers'
       PROVE  cbs'[timers'[k].cb].freed = 0 \/
              Doomed(cbs'[timers'[k].cb].data)
  <2>1. CASE k = p
    <3>1. timers'[k].cb = pass.te
      BY <1>3, <1>9, <2>1
    <3>2. CASE Doomed(data)
      BY <1>4, <1>7, <1>9, <1>10, <2>1, <3>1, <3>2
    <3>3. CASE ~Doomed(data)
      BY <1>4, <1>5, <1>7, <1>10, <3>1, <3>3
    <3> QED BY <3>2, <3>3
  <2>2. CASE k # p
    <3>1. timers'[k] = timers[k] /\ timers[k].cb # pass.te /\ timers[k].cb \in DOMAIN cbs
      BY <1>0, <1>4, <1>9, <2>2 DEF ListInv
    <3> QED BY <1>9, <1>10, <3>1 DEF MemoryInv
  <2> QED BY <2>1, <2>2
<1>13. ASSUME NEW fd \in Fd, events'[fd].mask # {}
       PROVE  /\ events'[fd].cb \in DOMAIN cbs' /\ cbs'[events'[fd].cb].freed = 0
              /\ \A k \in DOMAIN timers' : timers'[k].cb # events'[fd].cb
  <2>1. /\ events[fd].cb \in DOMAIN cbs /\ cbs[events[fd].cb].freed = 0
        /\ \A k \in DOMAIN timers : timers[k].cb # events[fd].cb
    BY <1>8, <1>13 DEF MemoryInv
  <2>2. events[fd].cb # pass.te
    BY <1>3, <2>1
  <2>3. \A k \in DOMAIN timers : timers'[k].cb = timers[k].cb
    BY <1>9
  <2> QED BY <1>8, <1>9, <1>10, <2>1, <2>2, <2>3
<1>14. call'.at = "none"
  BY <1>8 DEF NoCall
<1> QED BY <1>11, <1>12, <1>13, <1>14 DEF MemoryInv

(* The finalizer frees the record of a timer that leaves the list: no      *)
(* other timer, no event and no open callback has it.                      *)
LEMMA FinalizerKeepsMemory ==
    ASSUME TimerInv, MemoryInv, aeTimerFinalizer
    PROVE  MemoryInv'
<1>0. timers \in Seq(Timer) /\ ListInv /\ CallInv /\ cbs \in Seq(Record)
  BY DEF TimerInv, ListInv
<1>1. Len(timers) \in Nat /\ DOMAIN timers = 1 .. Len(timers)
  BY <1>0, TimerTypes
<1>2. /\ call = NoCall /\ pass.te # 0 /\ te.id = Deleted
      /\ timers' = SubSeq(timers, 1, IF pass.prev = 0 THEN 0 ELSE At(pass.prev))
                     \o SubSeq(timers, At(pass.te) + 1, Len(timers))
      /\ cbs' = efree(cbs, pass.te)
      /\ UNCHANGED <<events, call>>
  BY DEF aeTimerFinalizer, RemovesDeleted, Walking
<1>3. PICK p \in 1 .. Len(timers) :
             /\ timers[p].cb = pass.te /\ At(pass.te) = p /\ te = timers[p]
             /\ IF pass.prev = 0 THEN p = 1
                ELSE p > 1 /\ timers[p - 1].cb = pass.prev /\ At(pass.prev) = p - 1
  <2>1. call.at # "timer"
    BY <1>2 DEF NoCall
  <2> QED BY <1>2, <2>1, WalkStands
<1>4. pass.te \in DOMAIN cbs /\ \A k \in DOMAIN timers : timers[k].cb = pass.te => k = p
  BY <1>0, <1>1, <1>3 DEF ListInv
<1>5. timers' = Without(timers, p)
  <2>1. (IF pass.prev = 0 THEN 0 ELSE At(pass.prev)) = p - 1
    BY <1>3
  <2> QED BY <1>2, <1>3, <2>1 DEF Without
<1>6. \A j \in DOMAIN timers' : \E k \in DOMAIN timers : k # p /\ timers'[j] = timers[k]
  <2>0. timers \in Seq(Timer)
    BY <1>0
  <2>1. /\ timers' \in Seq(Timer) /\ Len(timers') = Len(timers) - 1
        /\ \A j \in 1 .. Len(timers) - 1 : timers'[j] = IF j < p THEN timers[j] ELSE timers[j + 1]
    BY ONLY <2>0, <1>5, p \in 1 .. Len(timers), RemovedFrom
  <2>2. DOMAIN timers' = 1 .. Len(timers) - 1
    BY <2>1, TimerTypes
  <2>3. \A j \in 1 .. Len(timers) - 1 : Before(p, j) \in 1 .. Len(timers) /\ Before(p, j) # p
    BY <1>1, BeforePlaces
  <2>4. \A j \in 1 .. Len(timers) - 1 : timers'[j] = timers[Before(p, j)]
    BY <2>1 DEF Before
  <2> QED BY <1>1, <2>2, <2>3, <2>4
<1>7. /\ DOMAIN cbs' = DOMAIN cbs /\ cbs'[pass.te].data = cbs[pass.te].data
      /\ cbs[pass.te].freed = 0 => cbs'[pass.te].freed = 1
      /\ \A j \in DOMAIN cbs \ {pass.te} : cbs'[j] = cbs[j]
  BY <1>0, <1>2, <1>4, FreedRecord
<1>8. Doomed(cbs[pass.te].data) \/ cbs[pass.te].freed = 0
  BY <1>1, <1>3 DEF MemoryInv
<1>9. \A c \in DOMAIN cbs' : cbs'[c].freed <= 1 \/ Doomed(cbs'[c].data)
  <2>1. cbs'[pass.te].freed <= 1 \/ Doomed(cbs'[pass.te].data)
    BY <1>7, <1>8
  <2> QED BY <1>7, <2>1 DEF MemoryInv
<1>10. ASSUME NEW j \in DOMAIN timers'
       PROVE  cbs'[timers'[j].cb].freed = 0 \/
              Doomed(cbs'[timers'[j].cb].data)
  <2>1. PICK k \in DOMAIN timers : k # p /\ timers'[j] = timers[k]
    BY <1>6
  <2>2. timers[k].cb # pass.te /\ timers[k].cb \in DOMAIN cbs
    BY <1>0, <1>4, <2>1 DEF ListInv
  <2> QED BY <1>7, <2>1, <2>2 DEF MemoryInv
<1>11. ASSUME NEW fd \in Fd, events'[fd].mask # {}
       PROVE  /\ events'[fd].cb \in DOMAIN cbs' /\ cbs'[events'[fd].cb].freed = 0
              /\ \A k \in DOMAIN timers' : timers'[k].cb # events'[fd].cb
  <2>1. /\ events[fd].cb \in DOMAIN cbs /\ cbs[events[fd].cb].freed = 0
        /\ \A k \in DOMAIN timers : timers[k].cb # events[fd].cb
    BY <1>2, <1>11 DEF MemoryInv
  <2>2. events[fd].cb # pass.te
    BY <1>1, <1>3, <2>1
  <2>3. \A j \in DOMAIN timers' : timers'[j].cb # events[fd].cb
    BY <1>6, <2>1
  <2>4. events'[fd].cb = events[fd].cb
    BY <1>2
  <2>5. events[fd].cb \in DOMAIN cbs' /\ cbs'[events[fd].cb].freed = 0
    BY <1>7, <2>1, <2>2
  <2> QED BY <2>3, <2>4, <2>5
<1>12. call'.at = "none"
  BY <1>2 DEF NoCall
<1> QED BY <1>9, <1>10, <1>11, <1>12 DEF MemoryInv

(* Every step keeps the records that are in use.                           *)
LEMMA StepMemory ==
    ASSUME WatchInv, TimerInv, MemoryInv, [Next]_vars
    PROVE  MemoryInv'
<1>0. timers \in Seq(Timer) /\ CallInv /\ events \in [Fd -> [mask : Masks, cb : Nat]]
  BY DEF TimerInv, ListInv, WatchInv
<1>a. ASSUME UNCHANGED <<cbs, timers, events>>, call' = call \/ call' = NoCall PROVE MemoryInv'
  BY <1>a, SameMemory
<1>b. ASSUME UNCHANGED <<cbs, events, call>>, DOMAIN timers' = DOMAIN timers,
             \A k \in DOMAIN timers : /\ timers'[k].cb = timers[k].cb
                                      /\ timers'[k].id \in {timers[k].id, Deleted}
      PROVE  MemoryInv'
  BY <1>b, SameMemory
<1>1. CASE Operation
  <2>1. ASSUME NEW fd \in 0 .. SetSize, NEW m \in Masks \ {{}}, add(fd, m)
        PROVE  MemoryInv'
    BY <2>1, AddKeepsMemory
  <2>2. ASSUME NEW fd \in 0 .. SetSize, NEW m \in Masks \ {{}}, del_file(fd, m)
        PROVE  MemoryInv'
    <3>1. UNCHANGED <<timers, call, cbs>>
      BY <2>2 DEF del_file, Unmoved, php_vars
    <3>2. events' = events \/ events' = [events EXCEPT ![fd].mask = @ \ m]
      BY <2>2 DEF del_file, aeDeleteFileEvent
    <3>3. \A e \in Fd : events'[e].mask # {} =>
                          events[e].mask # {} /\ events'[e].cb = events[e].cb
      <4>1. CASE events' = events
        BY <4>1
      <4>2. CASE events' = [events EXCEPT ![fd].mask = @ \ m]
        <5>1. \A e \in Fd : e # fd => events'[e] = events[e]
          BY <1>0, <4>2
        <5>2. ASSUME fd \in Fd
              PROVE  events'[fd].mask = events[fd].mask \ m /\ events'[fd].cb = events[fd].cb
          <6>1. PICK x \in [mask : Masks, cb : Nat] : x = events[fd]
            BY <1>0, <5>2
          <6>2. events'[fd] = [x EXCEPT !.mask = @ \ m]
            BY <1>0, <4>2, <5>2, <6>1
          <6> QED BY <6>1, <6>2
        <5> QED BY <5>1, <5>2
      <4> QED BY <3>2, <4>1, <4>2
    <3> QED BY <3>1, <3>3, SameMemory
  <2>3. ASSUME NEW id, del_timer(id) PROVE MemoryInv'
    <3>1. UNCHANGED <<cbs, events, call>>
      BY <2>3 DEF del_timer, Unmoved
    <3> QED BY <1>0, <1>b, <2>3, <3>1, TimersShape
  <2>4. ASSUME NEW ms \in Delays \cup Intervals \cup {-1}, after(ms) \/ tick(ms)
        PROVE  MemoryInv'
    <3>1. ms \in Int /\ NULL \in Int
      BY PhpAssumption DEF NULL
    <3> QED BY <2>4, <3>1, SetsTimerKeepsMemory DEF after, tick
  <2>5. CASE stops
    BY <1>a, <2>5 DEF stops, Unmoved, php_vars
  <2> QED BY <1>1, <2>1, <2>2, <2>3, <2>4, <2>5 DEF Operation
<1>2. CASE start
  BY <1>a, <1>2 DEF start, php_vars
<1>3. CASE LoopStep
  <2>1. CASE (aeProcessEvents \/ PollReturns \/ FileProcReturns \/ PassEnds) /\ UNCHANGED php_vars
    <3>1. UNCHANGED <<cbs, timers, events>> /\ (call' = call \/ call' = NoCall)
      BY <2>1 DEF aeProcessEvents, PollReturns, FileProcReturns, PassEnds, php_vars
    <3> QED BY <1>a, <3>1
  <2>2. CASE DispatchEntry /\ UNCHANGED php_vars
    <3>1. UNCHANGED <<cbs, timers, events>>
      BY <2>2 DEF DispatchEntry, php_vars
    <3>2. PICK e \in fired : call' = IF e.mask \cap events[e.fd].mask = {} THEN NoCall
                                     ELSE [cb |-> events[e.fd].cb, at |-> "file"]
      BY <2>2 DEF DispatchEntry
    <3>3. CASE e.mask \cap events[e.fd].mask = {}
      BY <1>a, <3>1, <3>2, <3>3
    <3>4. CASE e.mask \cap events[e.fd].mask # {}
      <4>1. e.fd \in Fd /\ events[e.fd].mask # {}
        BY <3>2, <3>4 DEF WatchInv, Entry
      <4>2. call'.cb \in DOMAIN cbs /\ cbs[call'.cb].freed = 0
        BY <3>2, <3>4, <4>1 DEF MemoryInv
      <4> QED BY <3>1, <4>2 DEF MemoryInv
    <3> QED BY <3>3, <3>4
  <2>3. CASE TimerPassBegins
    <3>1. UNCHANGED <<cbs, events, call>>
      BY <2>3 DEF TimerPassBegins, php_vars
    <3> QED BY <1>0, <1>b, <2>3, <3>1, TimersShape
  <2>4. CASE TimerPassedOver
    BY <1>a, <2>4 DEF TimerPassedOver, php_vars
  <2>5. CASE TimerFires
    <3>1. /\ pass.te # 0 /\ te.id # Deleted /\ UNCHANGED <<cbs, timers, events>>
          /\ call' = [cb |-> pass.te, at |-> "timer"]
      BY <2>5 DEF TimerFires, Fires, Walking, php_vars
    <3>2. PICK p \in DOMAIN timers : timers[p].cb = pass.te /\ te = timers[p]
      BY <1>0, <3>1, WalkStands, TimerTypes
    <3>3. (cbs[call'.cb].freed = 0 \/ Doomed(cbs[call'.cb].data)) /\ call'.at # "file"
      BY <3>1, <3>2 DEF MemoryInv
    <3> QED BY <3>1, <3>3 DEF MemoryInv
  <2>6. CASE aeTimerCallback
    BY <2>6, CallbackKeepsMemory
  <2>7. CASE aeTimerFinalizer
    BY <2>7, FinalizerKeepsMemory
  <2> QED BY <1>3, <2>1, <2>2, <2>3, <2>4, <2>5, <2>6, <2>7 DEF LoopStep
<1>4. CASE TimePasses \/ (ClockSetBack /\ UNCHANGED php_vars)
  <2>1. UNCHANGED <<cbs, events, call>>
    BY <1>4 DEF TimePasses, Tick, ClockSetBack, php_vars
  <2>2. Tick \/ ClockSetBack
    BY <1>4 DEF TimePasses
  <2> QED BY <1>0, <1>b, <2>1, <2>2, TimersShape
<1>5. CASE UNCHANGED vars
  BY <1>a, <1>5 DEF vars, loop_vars, php_vars
<1> QED BY <1>1, <1>2, <1>3, <1>4, <1>5 DEF Next
-----------------------------------------------------------------------------
(* The invariant holds in every state of the loop.                         *)
LEMMA Inductive == Spec => []IInv
<1>1. Init => IInv
  BY InitWatch, InitTimers, InitMemory DEF IInv
<1>2. IInv /\ [Next]_vars => IInv'
  <2> SUFFICES ASSUME IInv, [Next]_vars PROVE IInv'
    OBVIOUS
  <2>1. WatchInv /\ TimerInv /\ MemoryInv /\ cbs \in Seq(Record)
    BY DEF IInv, TimerInv, ListInv
  <2> QED BY <2>1, StepWatch, StepTimers, StepMemory DEF IInv
<1> QED BY <1>1, <1>2, PTL DEF Spec

(* aeCreateFileEvent, aeDeleteFileEvent and the four pollers: whatever the *)
(* program registers and deletes, before the loop or from a callback, the  *)
(* next poll watches all of it, on event ports too.                        *)
THEOREM LoopWatchesRegistered == Spec => []WatchesRegistered
<1>1. IInv => WatchesRegistered
  <2> SUFFICES ASSUME WatchInv, NEW fd \in Fd
               PROVE  LET w == Watched(api, apidata, fd, maxfd)
                      IN  /\ events[fd].mask \subseteq w
                          /\ api \in {"epoll", "select"} \/ (api = "kqueue" /\ faults = 0)
                               => w = events[fd].mask
    BY DEF IInv, WatchesRegistered
  <2>1. mask[fd] = events[fd].mask /\ apidata \in Api /\ api \in Pollers
        /\ WatchesAll(api, apidata, mask, maxfd, faults)
    BY MaskOf DEF WatchInv
  <2> DEFINE w == Watched(api, apidata, fd, maxfd)
  <2>2. CASE api = "epoll"
    <3>1. w = apidata.watched[fd]
      BY <2>2 DEF Watched
    <3>2. apidata.watched = mask
      BY <2>1, <2>2, WatchesCases
    <3> QED BY <2>1, <3>1, <3>2
  <2>3. CASE api = "select"
    <3>1. w = IF fd <= maxfd THEN apidata.watched[fd] ELSE {}
      BY <2>3 DEF Watched
    <3>2. apidata.watched = mask /\ (mask[fd] # {} => fd <= maxfd)
      BY <2>1, <2>3, WatchesCases
    <3>3. w = mask[fd]
      BY <3>1, <3>2
    <3> QED BY <2>1, <3>3
  <2>4. CASE api = "kqueue"
    <3>1. w = apidata.watched[fd]
      BY <2>4 DEF Watched
    <3>2. mask[fd] \subseteq apidata.watched[fd] /\ (faults = 0 => apidata.watched = mask)
      BY <2>1, <2>4, WatchesCases
    <3> QED BY <2>1, <2>4, <3>1, <3>2
  <2>5. CASE api = "evport"
    <3>1. w = IF fd \in DOMAIN apidata.pending THEN apidata.pending[fd] ELSE apidata.watched[fd]
      BY <2>5 DEF Watched, Associated
    <3>2. mask[fd] \subseteq IF fd \in DOMAIN apidata.pending THEN apidata.pending[fd]
                                                               ELSE apidata.watched[fd]
      BY <2>1, <2>5, WatchesCases
    <3> QED BY <2>1, <2>5, <3>1, <3>2
  <2> QED BY <2>1, <2>2, <2>3, <2>4, <2>5 DEF Pollers
<1> QED BY <1>1, Inductive, PTL

(* processTimeEvents: a timer that is set stays in the list, once, through *)
(* every creation and deletion during a pass, and the walk never meets a   *)
(* timer that is younger than its pass.                                    *)
THEOREM LoopNoTimerLost == Spec => []NoTimerLost
<1>1. IInv => NoTimerLost
  <2> SUFFICES ASSUME TimerInv PROVE NoTimerLost
    BY DEF IInv
  <2>0. timers \in Seq(Timer) /\ ListInv
    BY DEF TimerInv, ListInv
  <2>1. Len(timers) \in Nat /\ DOMAIN timers = 1 .. Len(timers)
    BY <2>0, TimerTypes
  <2>2. IsInjective([k \in DOMAIN timers |-> timers[k].cb])
    BY <2>0 DEF ListInv, IsInjective
  <2>3. ASSUME pass.te # 0
        PROVE  (\E k \in DOMAIN timers : timers[k].cb = pass.te) /\ te.id <= pass.maxId
    <3>1. PICK p \in 1 .. Len(timers) :
            /\ timers[p].cb = pass.te /\ te = timers[p]
            /\ \A k \in 1 .. Len(timers) : k >= p => timers[k].id <= pass.maxId
      BY <2>3, WalkStands
    <3>2. p >= p
      BY <2>1, NextPlace
    <3> QED BY <2>1, <3>1, <3>2
  <2> QED BY <2>0, <2>2, <2>3 DEF ListInv, NoTimerLost
<1> QED BY <1>1, Inductive, PTL

(* A pass fires every timer that was due when it began and that no         *)
(* callback deleted, and the poll never sleeps past the nearest timer.     *)
THEOREM LoopDueTimersFire == Spec => []DueTimersFire
<1>1. IInv => DueTimersFire
  BY DEF IInv, TimerInv, OwedInv, SleepInv, DueTimersFire
<1> QED BY <1>1, Inductive, PTL

(* Callback records are freed once and never while a timer, a descriptor   *)
(* or a running callback still needs them, for any delays and intervals    *)
(* and any width of int; ticks that the cast turns into -1 are excepted.   *)
THEOREM LoopCallbackMemory == Spec => []CallbackMemory
<1>1. IInv => CallbackMemory
  <2> SUFFICES ASSUME TimerInv, MemoryInv PROVE CallbackMemory
    BY DEF IInv
  <2>1. \A c \in armed : cbs[c].freed = 0 \/ Doomed(cbs[c].data)
    BY DEF TimerInv, ListInv, MemoryInv
  <2>2. call # NoCall => \/ cbs[call.cb].freed = 0
                         \/ call.at = "timer" /\ Doomed(cbs[call.cb].data)
    BY DEF TimerInv, CallInv, MemoryInv
  <2> QED BY <2>1, <2>2 DEF MemoryInv, CallbackMemory
<1> QED BY <1>1, Inductive, PTL
=============================================================================
