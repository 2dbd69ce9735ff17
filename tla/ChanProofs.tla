----------------------------- MODULE ChanProofs -----------------------------
(***************************************************************************)
(* The channel of base/chan.c, for any number of threads, any capacity and *)
(* any number of calls: mutual exclusion, the capacity, no lost wakeup on  *)
(* either condition variable, and the implementation of Channel.           *)
(***************************************************************************)
EXTENDS Chan, MqProofs, FiniteSetTheorems

USE ChanAssumption DEF Threads

(* The part of the invariant that the other parts rest on.                 *)
Base == TypeOK /\ NoHoles /\ LockDiscipline

(* ch_create sets up an unlocked, empty channel.                           *)
LEMMA InitBase == Init => Base /\ mq_count = 0
<1> SUFFICES ASSUME Init PROVE Base /\ mq_count = 0
  OBVIOUS
<1>1. PICK c \in Nat : ch_create(c)
  BY DEF Init
<1>2. mq_count = 0 /\ MqTypeOK
  BY <1>1 DEF ch_create, mq_create, mq_count, MqTypeOK
<1>3. TypeOK
  <2>1. calls \in [Threads -> Nat]
    BY DEF Init
  <2>2. pc \in [Threads -> Labels] /\ got \in [Receivers -> Msg \cup {NoMsg}]
    BY DEF Init, Labels
  <2>3. released \in BOOLEAN
    BY DEF Init
  <2>4. spurious \in 0 .. MaxSpurious
    BY DEF Init
  <2> QED
    BY <1>1, <1>2, <2>1, <2>2, <2>3, <2>4 DEF ch_create, TypeOK, Lock!mtl_create, Rcv!cond_create,
       Snd!cond_create
<1>4. LockDiscipline
  BY <1>1 DEF Init, ch_create, LockDiscipline, Lock!mtl_create, Rcv!cond_create,
     Snd!cond_create
<1> QED BY <1>2, <1>3, <1>4 DEF Base, NoHoles

(* What a step does to the ring: SendPushes appends, RecvPops takes the    *)
(* head, every other step leaves it alone.                                 *)
LEMMA RingStep ==
    ASSUME Base, [Next]_vars
    PROVE  /\ MqInv'
           /\ \/ UNCHANGED mq_vars
              \/ \E s \in Senders, m \in Msg : SendPushes(s, m)
              \/ \E r \in Receivers : RecvPops(r)
<1>1. MqInv
  BY DEF Base, TypeOK, MqInv
<1>2. ASSUME NEW s \in Senders, NEW m \in Msg, SendPushes(s, m)
      PROVE  MqInv'
  BY <1>1, <1>2, PushAppends DEF SendPushes
<1>3. ASSUME NEW r \in Receivers, RecvPops(r)
      PROVE  MqInv'
  BY <1>1, <1>3, PopTakesHead DEF RecvPops
<1>4. CASE UNCHANGED mq_vars
  BY <1>1, <1>4 DEF MqInv, MqTypeOK, NoHoles, mq_count, mq_vars
<1>5. \/ UNCHANGED mq_vars
      \/ \E s \in Senders, m \in Msg : SendPushes(s, m)
      \/ \E r \in Receivers : RecvPops(r)
  BY DEF Next, SendStep, RecvStep, Enter, SendWaits, RecvWaits, SendWakes, RecvWakes,
     Leave, Spurious, ch_release, Finished, vars, mq_vars
<1> QED BY <1>2, <1>3, <1>4, <1>5

(* The base is inductive.                                                  *)
LEMMA StepBase ==
    ASSUME Base, [Next]_vars
    PROVE  Base'
<1>0. MqTypeOK' /\ NoHoles'
  BY RingStep DEF MqInv
<1> USE DEF Base, TypeOK, LockDiscipline, Labels, Goto
<1>1. ASSUME NEW t \in Threads, Enter(t)
      PROVE  Base'
  BY <1>0, <1>1 DEF Enter, Lock!mtl_lock
<1>2. ASSUME NEW s \in Senders, SendWaits(s)
      PROVE  Base'
  BY <1>0, <1>2 DEF SendWaits, Snd!cond_wait, Snd!wait_unlock
<1>3. ASSUME NEW s \in Senders, NEW m \in Msg, SendPushes(s, m)
      PROVE  Base'
  BY <1>0, <1>3 DEF SendPushes, Rcv!cond_signal
<1>4. ASSUME NEW r \in Receivers, RecvWaits(r)
      PROVE  Base'
  BY <1>0, <1>4 DEF RecvWaits, Rcv!cond_wait, Rcv!wait_unlock
<1>5. ASSUME NEW r \in Receivers, RecvPops(r)
      PROVE  Base'
  <2>1. mq_front \in Msg
    BY <1>5, PopTakesHead, MqSeqIsSeq, HeadTailProperties DEF RecvPops, MqInv, RingIsSeq
  <2> QED BY <1>0, <1>5, <2>1 DEF RecvPops, Snd!cond_signal
<1>6. ASSUME NEW s \in Senders, SendWakes(s)
      PROVE  Base'
  BY <1>0, <1>6 DEF SendWakes, Snd!cond_wait_returns, Snd!wait_relock
<1>7. ASSUME NEW r \in Receivers, RecvWakes(r)
      PROVE  Base'
  BY <1>0, <1>7 DEF RecvWakes, Rcv!cond_wait_returns, Rcv!wait_relock
<1>8. ASSUME NEW t \in Threads, Leave(t)
      PROVE  Base'
  BY <1>0, <1>8 DEF Leave, Lock!mtl_unlock
<1>9. ASSUME NEW t \in Threads, Spurious(t)
      PROVE  Base'
  BY <1>0, <1>9 DEF Spurious, Snd!spurious_wakeup, Rcv!spurious_wakeup
<1>10. CASE ch_release
  BY <1>0, <1>10 DEF ch_release
<1>11. CASE UNCHANGED vars
  BY <1>0, <1>11 DEF vars
<1> QED
  BY <1>1, <1>2, <1>3, <1>4, <1>5, <1>6, <1>7, <1>8, <1>9, <1>10, <1>11
  DEF Next, SendStep, RecvStep, Finished

(* The capacity is inductive on the base: a sender that pushes has seen a  *)
(* free place under the lock, so its push never fills the ring.            *)
LEMMA StepCapacity ==
    ASSUME Base, CapacityRespected, [Next]_vars
    PROVE  CapacityRespected'
<1>1. MqInv /\ mq_count \in Nat /\ mcap \in Nat /\ cap \in Nat /\ cap' = cap
  <2>1. cap' = cap
    BY DEF Next, SendStep, RecvStep, Enter, SendWaits, SendPushes, RecvWaits, RecvPops,
       SendWakes, RecvWakes, Leave, Spurious, ch_release, Finished, vars
  <2> QED BY <2>1, CountBounds DEF Base, TypeOK, MqInv, MqTypeOK
<1>2. CASE UNCHANGED mq_vars
  BY <1>1, <1>2 DEF CapacityRespected, mq_vars, mq_count
<1>3. ASSUME NEW s \in Senders, NEW m \in Msg, SendPushes(s, m)
      PROVE  CapacityRespected'
  <2>1. mq_push(m) /\ mq_count' = mq_count + 1 /\ (cap > 0 => mq_count < cap)
    BY <1>1, <1>3, PushAppends DEF SendPushes
  <2>2. ASSUME cap > 0
        PROVE  mcap' = mcap
    <3>1. mq_count < mcap - 1
      BY <1>1, <2>1, <2>2 DEF CapacityRespected
    <3>2. head # NextIndex(tail)
      BY <3>1 DEF Base, TypeOK, MqTypeOK, NextIndex, mq_count
    <3> QED BY <2>1, <3>2 DEF mq_push
  <2> QED BY <1>1, <2>1, <2>2 DEF CapacityRespected
<1>4. ASSUME NEW r \in Receivers, RecvPops(r)
      PROVE  CapacityRespected'
  <2>1. mq_count' = mq_count - 1 /\ mcap' = mcap
    BY <1>1, <1>4, PopTakesHead DEF RecvPops, mq_pop
  <2> QED BY <1>1, <2>1 DEF CapacityRespected
<1> QED BY <1>2, <1>3, <1>4, RingStep

(* Facts about sizes of sets of threads.                                   *)
LEMMA CardinalityGrows ==
    ASSUME NEW S, IsFiniteSet(S), NEW A \in SUBSET S, NEW B \in SUBSET S, A \subseteq B
    PROVE  /\ Cardinality(A) \in Nat /\ Cardinality(B) \in Nat
           /\ Cardinality(A) <= Cardinality(B)
           /\ \A x \in B \ A : B = A \cup {x} => Cardinality(B) = Cardinality(A) + 1
BY FS_Subset, FS_CardinalityType, FS_AddElement

(* The wakeup accounting of ch_recv is inductive on the base.  A push adds *)
(* one message and wakes one sleeper; a pop takes one message and one      *)
(* alert receiver; a receiver goes to sleep only when there is no message. *)
LEMMA StepReceivers ==
    ASSUME Base, NoReceiverForgotten, [Next]_vars
    PROVE  NoReceiverForgotten'
<1> DEFINE A == Alert(Receivers, rcv_cond)
<1>1. /\ A \in SUBSET Receivers /\ A' \in SUBSET Receivers
      /\ A' = {t \in Receivers : pc'[t] = "locked" \/ (pc'[t] = "waiting" /\ t \notin rcv_cond')}
      /\ IsFiniteSet(Receivers)
      /\ MqInv /\ mq_count \in Nat
  BY CountBounds DEF Alert, Base, TypeOK, MqInv, MqTypeOK
<1>2. ASSUME A \subseteq A', mq_count' = mq_count, rcv_cond' # {} => rcv_cond # {}
      PROVE  NoReceiverForgotten'
  BY <1>1, <1>2, CardinalityGrows DEF NoReceiverForgotten
<1>3. ASSUME NEW s \in Senders, NEW m \in Msg, SendPushes(s, m)
      PROVE  NoReceiverForgotten'
  <2>1. mq_count' = mq_count + 1
    BY <1>1, <1>3, PushAppends DEF SendPushes
  <2>2. CASE rcv_cond' = {}
    BY <2>2 DEF NoReceiverForgotten
  <2>3. CASE rcv_cond' # {}
    <3>1. PICK t \in rcv_cond : rcv_cond' = rcv_cond \ {t}
      BY <1>3, <2>3 DEF SendPushes, Rcv!cond_signal
    <3>2. t \in A' \ A /\ A' = A \cup {t} /\ A \subseteq A'
      BY <1>3, <3>1 DEF SendPushes, Goto, Alert, Base, TypeOK, LockDiscipline
    <3>3. Cardinality(A') = Cardinality(A) + 1 /\ Cardinality(A) \in Nat
      BY <1>1, <3>2, CardinalityGrows
    <3> QED BY <1>1, <2>1, <3>1, <3>3 DEF NoReceiverForgotten
  <2> QED BY <2>2, <2>3
<1>4. ASSUME NEW r \in Receivers, RecvWaits(r)
      PROVE  NoReceiverForgotten'
  <2>1. mq_count' = 0
    BY <1>4 DEF RecvWaits, mq_vars, mq_count
  <2>2. Cardinality(A') \in Nat
    BY <1>1, CardinalityGrows
  <2> QED BY <2>1, <2>2 DEF NoReceiverForgotten
<1>5. ASSUME NEW r \in Receivers, RecvPops(r)
      PROVE  NoReceiverForgotten'
  <2>1. mq_count' = mq_count - 1 /\ rcv_cond' = rcv_cond
    BY <1>1, <1>5, PopTakesHead DEF RecvPops
  <2>2. r \in A \ A' /\ A = A' \cup {r} /\ A' \subseteq A
    BY <1>5 DEF RecvPops, Goto, Alert, Base, TypeOK, LockDiscipline
  <2>3. Cardinality(A) = Cardinality(A') + 1 /\ Cardinality(A') \in Nat
    BY <1>1, <2>2, CardinalityGrows
  <2> QED BY <1>1, <2>1, <2>3 DEF NoReceiverForgotten
<1>6. ASSUME \/ \E t \in Threads : Enter(t) \/ Leave(t) \/ Spurious(t)
             \/ \E s \in Senders : SendWaits(s) \/ SendWakes(s)
             \/ \E r \in Receivers : RecvWakes(r)
             \/ ch_release \/ UNCHANGED vars
      PROVE  NoReceiverForgotten'
  <2> USE DEF Alert, Base, TypeOK, LockDiscipline, Goto, mq_count, mq_vars
  <2>1. mq_count' = mq_count /\ rcv_cond' \subseteq rcv_cond
    BY <1>6 DEF Enter, Leave, Spurious, SendWaits, SendWakes, RecvWakes, ch_release, vars,
       Rcv!spurious_wakeup, Rcv!cond_wait_returns
  <2>2. ASSUME NEW t \in Threads, Enter(t) \/ Leave(t)
        PROVE  A \subseteq A'
    BY <2>2 DEF Enter, Leave
  <2>3. ASSUME NEW t \in Threads, Spurious(t)
        PROVE  A \subseteq A'
    BY <2>1, <2>3 DEF Spurious
  <2>4. ASSUME NEW s \in Senders, SendWaits(s) \/ SendWakes(s)
        PROVE  A \subseteq A'
    BY <2>4 DEF SendWaits, SendWakes
  <2>5. ASSUME NEW r \in Receivers, RecvWakes(r)
        PROVE  A \subseteq A'
    BY <2>5 DEF RecvWakes, Rcv!cond_wait_returns
  <2>6. ASSUME ch_release \/ UNCHANGED vars
        PROVE  A \subseteq A'
    BY <2>6 DEF ch_release, vars
  <2>7. A \subseteq A'
    BY <1>6, <2>2, <2>3, <2>4, <2>5, <2>6
  <2> QED BY <1>2, <2>1, <2>7
<1> QED BY <1>3, <1>4, <1>5, <1>6 DEF Next, SendStep, RecvStep, Finished

(* The wakeup accounting of ch_send, likewise: a pop frees one place and   *)
(* wakes one sleeper; a push takes one place and one alert sender; a       *)
(* sender goes to sleep only when there is no place.                       *)
LEMMA StepSenders ==
    ASSUME Base, NoSenderForgotten, [Next]_vars
    PROVE  NoSenderForgotten'
<1> DEFINE A == Alert(Senders, snd_cond)
<1>1. /\ A \in SUBSET Senders /\ A' \in SUBSET Senders
      /\ IsFiniteSet(Senders)
      /\ MqInv /\ mq_count \in Nat /\ cap \in Nat
  BY CountBounds DEF Alert, Base, TypeOK, MqInv, MqTypeOK
<1>2. cap' = cap
  BY DEF Next, SendStep, RecvStep, Enter, SendWaits, SendPushes, RecvWaits, RecvPops,
     SendWakes, RecvWakes, Leave, Spurious, ch_release, Finished, vars
<1>3. ASSUME A \subseteq A', mq_count' = mq_count, snd_cond' # {} => snd_cond # {}
      PROVE  NoSenderForgotten'
  <2>1. Cardinality(A) \in Nat /\ Cardinality(A') \in Nat /\ Cardinality(A) <= Cardinality(A')
    BY <1>1, <1>3, CardinalityGrows
  <2> QED BY <1>1, <1>2, <1>3, <2>1 DEF NoSenderForgotten
<1>4. ASSUME NEW s \in Senders, NEW m \in Msg, SendPushes(s, m)
      PROVE  NoSenderForgotten'
  <2>1. mq_count' = mq_count + 1 /\ snd_cond' = snd_cond
    BY <1>1, <1>4, PushAppends DEF SendPushes
  <2>2. s \in A \ A' /\ A = A' \cup {s} /\ A' \subseteq A
    BY <1>4 DEF SendPushes, Goto, Alert, Base, TypeOK, LockDiscipline
  <2>3. Cardinality(A) = Cardinality(A') + 1 /\ Cardinality(A') \in Nat
    BY <1>1, <2>2, CardinalityGrows
  <2> QED BY <1>1, <1>2, <2>1, <2>3 DEF NoSenderForgotten
<1>5. ASSUME NEW s \in Senders, SendWaits(s)
      PROVE  NoSenderForgotten'
  <2>1. mq_count' = mq_count /\ mq_count >= cap
    BY <1>5 DEF SendWaits, mq_vars, mq_count
  <2>2. Cardinality(A') \in Nat
    BY <1>1, CardinalityGrows
  <2> QED BY <1>1, <1>2, <2>1, <2>2 DEF NoSenderForgotten
<1>6. ASSUME NEW r \in Receivers, RecvPops(r)
      PROVE  NoSenderForgotten'
  <2>1. mq_count' = mq_count - 1
    BY <1>1, <1>6, PopTakesHead DEF RecvPops
  <2>2. CASE snd_cond' = {}
    BY <2>2 DEF NoSenderForgotten
  <2>3. CASE snd_cond' # {} /\ cap > 0
    <3>1. PICK t \in snd_cond : snd_cond' = snd_cond \ {t}
      BY <1>6, <2>3 DEF RecvPops, Snd!cond_signal
    <3>2. t \in A' \ A /\ A' = A \cup {t} /\ A \subseteq A'
      BY <1>6, <3>1 DEF RecvPops, Goto, Alert, Base, TypeOK, LockDiscipline
    <3>3. Cardinality(A') = Cardinality(A) + 1 /\ Cardinality(A) \in Nat
      BY <1>1, <3>2, CardinalityGrows
    <3> QED BY <1>1, <1>2, <2>1, <3>1, <3>3 DEF NoSenderForgotten
  <2>4. CASE cap = 0
    <3>1. mq_count > 0 /\ Cardinality(A') \in Nat
      BY <1>1, <1>6, CardinalityGrows DEF RecvPops
    <3> QED BY <1>1, <1>2, <2>1, <2>4, <3>1 DEF NoSenderForgotten
  <2> QED BY <1>1, <2>2, <2>3, <2>4
<1>7. ASSUME \/ \E t \in Threads : Enter(t) \/ Leave(t) \/ Spurious(t)
             \/ \E r \in Receivers : RecvWaits(r) \/ RecvWakes(r)
             \/ \E s \in Senders : SendWakes(s)
             \/ ch_release \/ UNCHANGED vars
      PROVE  NoSenderForgotten'
  <2> USE DEF Alert, Base, TypeOK, LockDiscipline, Goto, mq_count, mq_vars
  <2>1. mq_count' = mq_count /\ snd_cond' \subseteq snd_cond
    BY <1>7 DEF Enter, Leave, Spurious, RecvWaits, SendWakes, RecvWakes, ch_release, vars,
       Snd!spurious_wakeup, Snd!cond_wait_returns
  <2>2. ASSUME NEW t \in Threads, Enter(t) \/ Leave(t)
        PROVE  A \subseteq A'
    BY <2>2 DEF Enter, Leave
  <2>3. ASSUME NEW t \in Threads, Spurious(t)
        PROVE  A \subseteq A'
    BY <2>1, <2>3 DEF Spurious
  <2>4. ASSUME NEW r \in Receivers, RecvWaits(r) \/ RecvWakes(r)
        PROVE  A \subseteq A'
    BY <2>4 DEF RecvWaits, RecvWakes
  <2>5. ASSUME NEW s \in Senders, SendWakes(s)
        PROVE  A \subseteq A'
    BY <2>5 DEF SendWakes, Snd!cond_wait_returns
  <2>6. ASSUME ch_release \/ UNCHANGED vars
        PROVE  A \subseteq A'
    BY <2>6 DEF ch_release, vars
  <2>7. A \subseteq A'
    BY <1>7, <2>2, <2>3, <2>4, <2>5, <2>6
  <2> QED BY <1>3, <2>1, <2>7
<1> QED BY <1>4, <1>5, <1>6, <1>7 DEF Next, SendStep, RecvStep, Finished

(* The owner note of the lock is inductive on the base, in the form that   *)
(* names the only two places it may point to.                              *)
OwnerNote ==
    \A t \in Threads : owner = t => mtx = t \/ pc[t] = "waiting"

(* Every step keeps the owner note honest.                                 *)
LEMMA StepOwner ==
    ASSUME Base, OwnerNote, [Next]_vars
    PROVE  OwnerNote'
<1> USE DEF Base, TypeOK, LockDiscipline, OwnerNote, Labels, Goto
<1>1. ASSUME NEW t \in Threads, Enter(t) \/ Leave(t) \/ Spurious(t)
      PROVE  OwnerNote'
  BY <1>1 DEF Enter, Leave, Spurious, Lock!mtl_lock, Lock!mtl_unlock
<1>2. ASSUME NEW s \in Senders, SendWaits(s) \/ SendWakes(s) \/ \E m \in Msg : SendPushes(s, m)
      PROVE  OwnerNote'
  BY <1>2 DEF SendWaits, SendWakes, SendPushes, Snd!cond_wait, Snd!wait_unlock,
     Snd!cond_wait_returns, Snd!wait_relock
<1>3. ASSUME NEW r \in Receivers, RecvWaits(r) \/ RecvWakes(r) \/ RecvPops(r)
      PROVE  OwnerNote'
  BY <1>3 DEF RecvWaits, RecvWakes, RecvPops, Rcv!cond_wait, Rcv!wait_unlock,
     Rcv!cond_wait_returns, Rcv!wait_relock
<1>4. CASE ch_release \/ UNCHANGED vars
  BY <1>4 DEF ch_release, vars
<1> QED BY <1>1, <1>2, <1>3, <1>4 DEF Next, SendStep, RecvStep, Finished
-----------------------------------------------------------------------------
(* The inductive invariant of the channel.                                 *)
IInv == /\ Base
        /\ CapacityRespected
        /\ NoReceiverForgotten
        /\ NoSenderForgotten
        /\ OwnerNote

(* The invariant holds initially and through every step.                   *)
LEMMA Inductive == Spec => []IInv
<1>1. Init => IInv
  <2> SUFFICES ASSUME Init PROVE IInv
    OBVIOUS
  <2>1. PICK c \in Nat : ch_create(c)
    BY DEF Init
  <2>2. Base /\ mq_count = 0
    BY InitBase
  <2>3. rcv_cond = {} /\ snd_cond = {} /\ owner = NULL /\ cap = c /\ mcap = c + 1
    BY <2>1 DEF ch_create, mq_create, Lock!mtl_create, Rcv!cond_create, Snd!cond_create
  <2> QED BY <2>2, <2>3 DEF IInv, CapacityRespected, NoReceiverForgotten,
          NoSenderForgotten, OwnerNote
<1>2. IInv /\ [Next]_vars => IInv'
  BY StepBase, StepCapacity, StepReceivers, StepSenders, StepOwner DEF IInv
<1> QED BY <1>1, <1>2, PTL DEF Spec

(* Types, and mutual exclusion of the critical sections of ch_send and     *)
(* ch_recv.                                                                *)
THEOREM ChanTypeOK == Spec => [](TypeOK /\ LockDiscipline)
<1>1. IInv => TypeOK /\ LockDiscipline
  BY DEF IInv, Base
<1> QED BY <1>1, Inductive, PTL

(* A channel of capacity cap > 0 never holds more than cap messages, and   *)
(* its ring is never expanded.                                             *)
THEOREM ChanCapacity == Spec => []CapacityRespected
<1>1. IInv => CapacityRespected
  BY DEF IInv
<1> QED BY <1>1, Inductive, PTL

(* No wakeup is lost: with any number of threads, one cond_signal per push *)
(* and per pop is enough.                                                  *)
THEOREM ChanNoLostWakeup == Spec => []NoLostWakeup
<1>1. IInv => NoLostWakeup
  BY DEF IInv, NoLostWakeup
<1> QED BY <1>1, Inductive, PTL

(* The owner note never names a thread that runs without the mutex, and    *)
(* the assertion of mtl_release holds when all threads have been joined.   *)
THEOREM ChanOwner == Spec => []OwnerHonest
<1>1. IInv => OwnerHonest
  <2> SUFFICES ASSUME IInv PROVE OwnerHonest
    OBVIOUS
  <2>1. \A t \in Threads : owner = t => mtx = t \/ pc[t] = "waiting"
    BY DEF IInv, OwnerNote
  <2>2. Joined => owner = NULL /\ mtx = NULL
    BY <2>1 DEF IInv, Base, TypeOK, LockDiscipline, Joined
  <2> QED BY <2>1, <2>2 DEF OwnerHonest, Lock!mtl_lockedbyself, Lock!mtl_releasable
<1> QED BY <1>1, Inductive, PTL

(* The channel implements its abstract specification.                      *)
THEOREM ChanImplementsChannel == Spec => ImplementsChannel
<1>1. Init => Abstract!Init
  <2> SUFFICES ASSUME Init PROVE Abstract!Init
    OBVIOUS
  <2>1. cap \in Nat /\ mq_count = 0
    BY InitBase DEF Base, TypeOK
  <2>2. MqSeq = <<>>
    BY <2>1 DEF MqSeq
  <2> QED BY <2>1, <2>2 DEF Init, Abstract!Init
<1>2. IInv /\ [Next]_vars => [Abstract!Next]_<<cap, MqSeq, got>>
  <2> SUFFICES ASSUME IInv, [Next]_vars
               PROVE  [Abstract!Next]_<<cap, MqSeq, got>>
    OBVIOUS
  <2>1. MqInv
    BY DEF IInv, Base, TypeOK, MqInv
  <2>2. Len(MqSeq) = mq_count
    BY <2>1, MqSeqIsSeq DEF RingIsSeq
  <2>3. ASSUME NEW s \in Senders, NEW m \in Msg, SendPushes(s, m)
        PROVE  Abstract!Send(m)
    BY <2>1, <2>2, <2>3, PushAppends DEF SendPushes, Abstract!Send
  <2>4. ASSUME NEW r \in Receivers, RecvPops(r)
        PROVE  Abstract!Recv(r)
    BY <2>1, <2>4, PopTakesHead DEF RecvPops, Abstract!Recv
  <2>5. CASE UNCHANGED mq_vars
    <3>1. MqSeq' = MqSeq
      BY <2>5 DEF mq_vars, MqSeq, mq_count
    <3>2. UNCHANGED <<cap, got>> \/ \E r \in Receivers : RecvPops(r)
      BY DEF Next, SendStep, RecvStep, Enter, SendWaits, SendPushes, RecvWaits,
         SendWakes, RecvWakes, Leave, Spurious, ch_release, Finished, vars
    <3> QED BY <2>4, <3>1, <3>2 DEF Abstract!Next
  <2> QED BY <2>3, <2>4, <2>5, RingStep DEF IInv, Abstract!Next
<1> QED BY <1>1, <1>2, Inductive, PTL DEF Spec, ImplementsChannel, Abstract!Spec
=============================================================================
