----------------------------- MODULE TableProofs ----------------------------
(***************************************************************************)
(* The handle table of base/table.c for any capacity, any width of handle  *)
(* and any number of calls: sz is exact, a handle never yields another     *)
(* one's pointer however often handles wrap around and the table expands,  *)
(* and a client that never deletes never loses a handle.                   *)
(***************************************************************************)
EXTENDS Table, FiniteSetTheorems, TLAPS

USE TableAssumption

(* Division with remainder.                                                *)
LEMMA Remainder ==
    ASSUME NEW a \in Nat, NEW b \in Nat \ {0}
    PROVE  a % b \in 0 .. b - 1 /\ a \div b \in Nat /\ a = b * (a \div b) + (a % b)
OBVIOUS

(* The remainder is unique.                                                *)
LEMMA RemainderUnique ==
    ASSUME NEW b \in Nat \ {0}, NEW k \in Nat, NEW r \in 0 .. b - 1
    PROVE  (b * k + r) % b = r
OBVIOUS

(* The slot of a handle when the table doubles: the same one, or the one   *)
(* that far into the new half.                                             *)
LEMMA HashDoubles ==
    ASSUME NEW h \in Nat, NEW c \in Nat \ {0}
    PROVE  hash(2 * c, h) = hash(c, h) \/ hash(2 * c, h) = hash(c, h) + c
<1> DEFINE d == 2 * c
           r == h % d
           q == h \div d
<1>1. d \in Nat \ {0}
  OBVIOUS
<1> HIDE DEF d
<1>2. r \in 0 .. d - 1 /\ q \in Nat /\ h = d * q + r
  BY <1>1, Remainder
<1> HIDE DEF r, q
<1>3. h = c * (2 * q) + r /\ r \in 0 .. 2 * c - 1
  BY <1>2 DEF d
<1>4. hash(2 * c, h) = r
  BY DEF hash, r, d
<1>5. CASE r < c
  <2>1. h = c * (2 * q) + r /\ r \in 0 .. c - 1 /\ 2 * q \in Nat
    BY <1>2, <1>3, <1>5
  <2>2. h % c = r
    BY <2>1, RemainderUnique
  <2> QED BY <1>4, <2>2 DEF hash
<1>6. CASE r >= c
  <2>1. h = c * (2 * q + 1) + (r - c) /\ r - c \in 0 .. c - 1 /\ 2 * q + 1 \in Nat
    BY <1>2, <1>3, <1>6
  <2>2. h % c = r - c
    BY <2>1, RemainderUnique
  <2> QED BY <1>3, <1>4, <2>2 DEF hash
<1> QED BY <1>3, <1>5, <1>6

(* A handle's slot is a slot.                                              *)
LEMMA HashInTable ==
    ASSUME NEW h \in Nat, NEW c \in Nat \ {0}
    PROVE  hash(c, h) \in 0 .. c - 1 /\ (h < c => hash(c, h) = h) /\ (h = c => hash(c, h) = 0)
BY DEF hash

(* ++last, with 0 left out, comes by every handle.                         *)
LEMMA EveryHandleComes ==
    ASSUME TypeOK
    PROVE  /\ \A n \in Handles : NthHandle(n) \in Handles
           /\ \A h \in Handles : \E n \in Handles : NthHandle(n) = h
           /\ 1 \in Handles
           /\ last < HandleMod - 1 => NthHandle(1) = last + 1
<1> DEFINE c == HandleMod - 1
<1>1. c \in Nat \ {0} /\ last \in 0 .. c /\ Handles = 1 .. c
  BY DEF TypeOK, Handles
<1>2. \A n : NthHandle(n) = ((last - 1 + n) % c) + 1
  BY DEF NthHandle
<1> HIDE DEF c
<1>3. ASSUME NEW n \in Handles PROVE NthHandle(n) \in Handles
  <2> DEFINE x == last - 1 + n
             m == x % c
  <2>1. x \in Nat
    BY <1>1
  <2> HIDE DEF x
  <2>2. m \in 0 .. c - 1
    BY <1>1, <2>1
  <2>3. NthHandle(n) = m + 1
    BY <1>2 DEF x
  <2> HIDE DEF m
  <2> QED BY <1>1, <2>2, <2>3
<1>4. ASSUME NEW h \in Handles PROVE \E n \in Handles : NthHandle(n) = h
  <2>1. CASE last < h
    <3> DEFINE n == h - last
    <3>1. n \in Handles /\ last - 1 + n = h - 1 /\ h - 1 \in 0 .. c - 1
      BY <1>1, <2>1
    <3> HIDE DEF n
    <3>2. (h - 1) % c = h - 1
      BY <1>1
    <3>3. NthHandle(n) = (h - 1) + 1
      BY <1>2, <3>1, <3>2
    <3> QED BY <1>1, <3>1, <3>3
  <2>2. CASE last >= h
    <3> DEFINE n == h - last + c
    <3>1. n \in Handles /\ last - 1 + n = c * 1 + (h - 1) /\ h - 1 \in 0 .. c - 1
      BY <1>1, <2>2
    <3>2. (last - 1 + n) % c = h - 1
      BY <1>1, <3>1, RemainderUnique
    <3>3. NthHandle(n) = h
      BY <1>1, <1>2, <3>2
    <3> QED BY <3>1, <3>3
  <2> QED BY <1>1, <2>1, <2>2
<1>5. last < c => NthHandle(1) = last + 1
  BY <1>1, <1>2
<1>6. 1 \in Handles
  BY <1>1
<1> QED BY <1>3, <1>4, <1>5, <1>6 DEF c
-----------------------------------------------------------------------------
(* sz counts the occupied slots.                                           *)
CountInv == sz = Cardinality(Occupied)

(* A slot that its handle leads to holds what was stored under the handle. *)
(* Nothing is said of a slot that an expansion has cut off from its        *)
(* handle, and whose handle may since have been handed out again.          *)
FoundInv ==
    \A h \in Handles : slots[hash(cap, h)].id = h =>
                          h \in DOMAIN live /\ live[h] = slots[hash(cap, h)].ud

(* Every handle in the clients' hands is in some slot.                     *)
KnownInv == \A h \in DOMAIN live : \E i \in 0 .. cap - 1 : slots[i].id = h

(* Until the first deletion handles are numbers below the capacity, each   *)
(* in the slot of its own number.                                          *)
FreshInv == ~deleted =>
    /\ last = sz /\ sz < cap /\ DOMAIN live = 1 .. sz
    /\ \A i \in 0 .. cap - 1 : slots[i].id = IF i \in 1 .. sz THEN i ELSE 0
    /\ \A h \in 1 .. sz : slots[h].ud = live[h]

IInv == TypeOK /\ CountInv /\ FoundInv /\ KnownInv /\ FreshInv

Slot == [id : 0 .. HandleMod - 1, ud : Ud \cup {NULL}]

(* A table has at least four slots, and fewer than there are handles.      *)
LEMMA Capacity ==
    ASSUME TypeOK
    PROVE  /\ cap \in Nat \ {0} /\ cap >= 4 /\ cap \in Handles
           /\ \A i \in 0 .. cap - 1 : slots[i].id \in 0 .. HandleMod - 1
           /\ \A h \in Handles : h \in Nat /\ h # 0 /\ hash(cap, h) \in 0 .. cap - 1
<1>1. cap \in Nat \ {0} /\ cap >= 4 /\ cap \in Handles
  BY DEF TypeOK, Handles
<1>2. \A i \in 0 .. cap - 1 : slots[i].id \in 0 .. HandleMod - 1
  BY DEF TypeOK
<1>3. \A h \in Handles : h \in Nat /\ h # 0
  BY DEF Handles
<1> QED BY <1>1, <1>2, <1>3, HashInTable

(* A table of capacity c has c slots.                                      *)
LEMMA SlotCount ==
    ASSUME NEW c \in Nat \ {0}
    PROVE  IsFiniteSet(0 .. c - 1) /\ Cardinality(0 .. c - 1) = c
<1>1. 0 \in Int /\ c - 1 \in Int /\ ~(0 > c - 1) /\ c - 1 - 0 + 1 = c
  OBVIOUS
<1> QED BY <1>1, FS_Interval

(* The occupied slots are finitely many, at most all.                      *)
LEMMA OccupiedFinite ==
    ASSUME TypeOK
    PROVE  IsFiniteSet(Occupied) /\ Cardinality(Occupied) \in 0 .. cap
<1>1. IsFiniteSet(0 .. cap - 1) /\ Cardinality(0 .. cap - 1) = cap
  BY Capacity, SlotCount
<1>2. Occupied \subseteq 0 .. cap - 1
  BY DEF Occupied
<1>3. IsFiniteSet(Occupied) /\ Cardinality(Occupied) <= cap
  BY <1>1, <1>2, FS_Subset
<1> QED BY <1>3, Capacity, FS_CardinalityType

(* A larger table has the slots of a smaller one.                          *)
LEMMA SlotsStay ==
    ASSUME NEW c \in Nat, NEW d \in Nat, c <= d
    PROVE  \A i \in 0 .. c - 1 : i \in 0 .. d - 1
OBVIOUS

(* What table_set does: the pointer goes into a slot that was free, and    *)
(* every other slot stays as it was.                                       *)
SetsInto(ud, g, j) ==
    /\ g \in Handles /\ j = hash(cap', g) /\ j \in 0 .. cap' - 1
    /\ last' = g /\ sz' = sz + 1 /\ deleted' = deleted
    /\ slots' \in [0 .. cap' - 1 -> Slot]
    /\ slots'[j].id = g /\ slots'[j].ud = ud
    /\ \A i \in (0 .. cap' - 1) \ {j} : slots'[i] = IF i < cap THEN slots[i] ELSE EmptySlot
    /\ j < cap => slots[j].id = 0
    /\ DOMAIN live' = DOMAIN live \cup {g} /\ live'[g] = ud
    /\ \A h \in DOMAIN live : h # g => live'[h] = live[h]
    /\ LET f == hash(cap', NthHandle(1))
       IN  (f < cap => slots[f].id = 0) => g = NthHandle(1)

(* table_set does that, after an expansion or without one.                 *)
LEMMA SetFacts ==
    ASSUME TypeOK, NEW ud \in Ud, table_set(ud)
    PROVE  /\ (cap' = cap /\ ~MustExpand) \/ (cap' = 2 * cap /\ MustExpand)
           /\ cap' \in INIT_SZ .. MaxCap /\ cap' \in Nat \ {0} /\ cap <= cap'
           /\ \E g, j : SetsInto(ud, g, j)
<1> DEFINE s == IF MustExpand THEN table_expand ELSE slots
<1>1. /\ (cap' = cap /\ ~MustExpand) \/ (cap' = 2 * cap /\ MustExpand)
      /\ cap' \in INIT_SZ .. MaxCap /\ cap' \in Nat \ {0} /\ cap <= cap'
  <2>1. cap \in INIT_SZ .. MaxCap /\ cap \in Nat \ {0}
    BY Capacity DEF TypeOK
  <2>2. (MustExpand => 2 * cap <= MaxCap) /\ cap' = IF MustExpand THEN 2 * cap ELSE cap
    BY DEF table_set
  <2>3. CASE MustExpand
    <3>1. cap' = 2 * cap /\ 2 * cap <= MaxCap
      BY <2>2, <2>3
    <3>2. 2 * cap \in INIT_SZ .. MaxCap /\ 2 * cap \in Nat \ {0} /\ cap <= 2 * cap
      BY <2>1, <3>1
    <3> QED BY <2>3, <3>1, <3>2
  <2>4. CASE ~MustExpand
    <3>1. cap' = cap
      BY <2>2, <2>4
    <3>2. cap <= cap
      BY <2>1
    <3>3. cap' \in INIT_SZ .. MaxCap /\ cap' \in Nat \ {0} /\ cap <= cap'
      BY <2>1, <3>1, <3>2
    <3> QED BY <2>4, <3>1, <3>3
  <2> QED BY <2>3, <2>4
<1>2. cap \in Nat \ {0} /\ slots \in [0 .. cap - 1 -> Slot] /\ EmptySlot \in Slot
  BY Capacity DEF TypeOK, Slot, EmptySlot
<1>3. /\ s \in [0 .. cap' - 1 -> Slot]
      /\ \A i \in 0 .. cap' - 1 : s[i] = IF i < cap THEN slots[i] ELSE EmptySlot
  <2>1. CASE cap' = cap /\ ~MustExpand
    BY <1>2, <2>1
  <2>2. CASE cap' = 2 * cap /\ MustExpand
    <3>1. s = [i \in 0 .. cap' - 1 |-> IF i < cap THEN slots[i] ELSE EmptySlot]
      BY <2>2 DEF table_expand
    <3>2. \A i \in 0 .. cap' - 1 : i < cap => i \in 0 .. cap - 1
      BY <1>1, <1>2
    <3> QED BY <1>2, <3>1, <3>2
  <2> QED BY <1>1, <2>1, <2>2
<1>4. PICK n \in Handles :
        /\ Probes(s, cap', n)
        /\ last' = NthHandle(n)
        /\ slots' = [s EXCEPT ![hash(cap', NthHandle(n))] = [id |-> NthHandle(n), ud |-> ud]]
        /\ live' = [h \in DOMAIN live \cup {NthHandle(n)} |->
                       IF h = NthHandle(n) THEN ud ELSE live[h]]
  BY DEF table_set
<1>5. sz' = sz + 1 /\ deleted' = deleted
  BY DEF table_set
<1> HIDE DEF s
<1> DEFINE g == NthHandle(n)
           j == hash(cap', g)
<1>6. g \in Handles /\ g \in Nat
  BY EveryHandleComes DEF Handles
<1>7. j \in 0 .. cap' - 1
  BY <1>1, <1>6, HashInTable
<1>8. s[j].id = 0 /\ \A m \in 1 .. n - 1 : s[hash(cap', NthHandle(m))].id # 0
  BY <1>4 DEF Probes
<1>9. LET f == hash(cap', NthHandle(1))
      IN  (f < cap => slots[f].id = 0) => g = NthHandle(1)
  <2> DEFINE f == hash(cap', NthHandle(1))
  <2> SUFFICES ASSUME f < cap => slots[f].id = 0 PROVE n = 1
    OBVIOUS
  <2>1. NthHandle(1) \in Nat
    BY EveryHandleComes DEF Handles
  <2>2. f \in 0 .. cap' - 1
    BY <1>1, <2>1, HashInTable
  <2>3. s[f].id = 0
    <3> HIDE DEF f
    <3> QED BY <1>3, <2>2 DEF EmptySlot
  <2>4. n \in Nat /\ n >= 1
    BY DEF Handles
  <2>5. 1 \notin 1 .. n - 1
    BY <1>8, <2>3
  <2> QED BY <2>4, <2>5
<1>10. [id |-> g, ud |-> ud] \in Slot
  BY <1>6 DEF Slot, Handles
<1>11. /\ slots' \in [0 .. cap' - 1 -> Slot]
       /\ slots'[j].id = g /\ slots'[j].ud = ud
       /\ \A i \in (0 .. cap' - 1) \ {j} : slots'[i] = IF i < cap THEN slots[i] ELSE EmptySlot
  <2> HIDE DEF g, j
  <2>1. slots' = [s EXCEPT ![j] = [id |-> g, ud |-> ud]]
    BY <1>4 DEF g, j
  <2> QED BY <1>3, <1>7, <1>10, <2>1
<1>12. j < cap => slots[j].id = 0
  <2> HIDE DEF j
  <2> QED BY <1>3, <1>7, <1>8
<1>13. /\ DOMAIN live' = DOMAIN live \cup {g} /\ live'[g] = ud
       /\ \A h \in DOMAIN live : h # g => live'[h] = live[h]
  <2> HIDE DEF g
  <2>1. live' = [h \in DOMAIN live \cup {g} |-> IF h = g THEN ud ELSE live[h]]
    BY <1>4 DEF g
  <2> QED BY <2>1
<1>14. SetsInto(ud, g, j)
  BY <1>4, <1>5, <1>6, <1>7, <1>9, <1>11, <1>12, <1>13 DEF SetsInto
<1> HIDE DEF g, j
<1> QED BY <1>1, <1>14
-----------------------------------------------------------------------------
(* An empty table.                                                         *)
LEMMA InitIInv == Init => IInv
<1> SUFFICES ASSUME Init PROVE IInv
  OBVIOUS
<1>1. /\ last = 0 /\ sz = 0 /\ cap = INIT_SZ /\ deleted = FALSE /\ DOMAIN live = {}
      /\ slots = [i \in 0 .. cap - 1 |-> EmptySlot]
  BY DEF Init, table_create
<1>2. TypeOK
  <2>1. EmptySlot \in [id : 0 .. HandleMod - 1, ud : Ud \cup {NULL}]
    BY DEF EmptySlot
  <2>2. slots \in [0 .. cap - 1 -> [id : 0 .. HandleMod - 1, ud : Ud \cup {NULL}]]
    BY <1>1, <2>1
  <2>3. cap \in INIT_SZ .. MaxCap /\ sz \in 0 .. cap /\ last \in 0 .. HandleMod - 1
    BY <1>1
  <2>4. DOMAIN live \subseteq Handles /\ \A h \in DOMAIN live : live[h] \in Ud
    BY <1>1
  <2> QED BY <1>1, <2>2, <2>3, <2>4 DEF TypeOK
<1>3. CountInv
  <2>1. Occupied = {}
    BY <1>1 DEF Occupied, EmptySlot
  <2> QED BY <1>1, <2>1, FS_EmptySet DEF CountInv
<1>4. FoundInv
  <2>1. ASSUME NEW h \in Handles PROVE slots[hash(cap, h)].id # h
    BY <1>1, <1>2, Capacity DEF EmptySlot
  <2> QED BY <2>1 DEF FoundInv
<1>5. KnownInv
  BY <1>1 DEF KnownInv
<1>6. FreshInv
  <2>1. 1 .. sz = {} /\ sz < cap
    BY <1>1
  <2> QED BY <1>1, <2>1 DEF FreshInv, EmptySlot
<1> QED BY <1>2, <1>3, <1>4, <1>5, <1>6 DEF IInv

(* A handle that leads to an occupied slot is held by the table.           *)
LEMMA FoundIsHeld ==
    ASSUME TypeOK, CountInv, NEW h \in Handles
    PROVE  Holds(h) <=> slots[hash(cap, h)].id = h
<1>1. ASSUME slots[hash(cap, h)].id = h PROVE sz # 0
  <2>1. hash(cap, h) \in Occupied
    BY <1>1, Capacity DEF Occupied
  <2>2. Cardinality(Occupied) # 0
    BY <2>1, OccupiedFinite, FS_EmptySet
  <2> QED BY <2>2 DEF CountInv
<1> QED BY <1>1, Capacity DEF Holds

(* table_set.                                                              *)
LEMMA SetStep ==
    ASSUME IInv, NEW ud \in Ud, table_set(ud)
    PROVE  IInv'
<1>0. TypeOK
  BY DEF IInv
<1>1. /\ (cap' = cap /\ ~MustExpand) \/ (cap' = 2 * cap /\ MustExpand)
      /\ cap' \in INIT_SZ .. MaxCap /\ cap' \in Nat \ {0} /\ cap <= cap'
  BY <1>0, SetFacts
<1>2. PICK g, j : SetsInto(ud, g, j)
  BY <1>0, SetFacts
<1>3. /\ cap \in Nat \ {0} /\ cap >= 4
      /\ \A i \in 0 .. cap - 1 : slots[i].id \in 0 .. HandleMod - 1
      /\ g \in Handles /\ j \in 0 .. cap' - 1 /\ g \in Nat /\ g # 0
  BY <1>0, <1>2, Capacity DEF SetsInto
<1>4. \A i \in (0 .. cap' - 1) \ {j} :
         slots'[i].id = (IF i < cap THEN slots[i].id ELSE 0) /\ (i < cap => slots'[i] = slots[i])
  BY <1>2 DEF SetsInto, EmptySlot
<1>5. \A i \in 0 .. cap - 1 : i \in 0 .. cap' - 1
  <2>1. cap \in Nat /\ cap' \in Nat /\ cap <= cap'
    BY <1>1, <1>3
  <2> QED BY <2>1, SlotsStay
<1>6. \A i \in 0 .. cap' - 1 : i < cap => i \in 0 .. cap - 1
  BY <1>1, <1>3
<1>7. slots'[j].id = g /\ slots'[j].ud = ud /\ (j < cap => slots[j].id = 0)
  BY <1>2 DEF SetsInto
<1>8. CountInv' /\ Cardinality(Occupied') \in Nat
  <2>1. Occupied' = Occupied \cup {j} /\ j \notin Occupied
    BY <1>3, <1>4, <1>5, <1>6, <1>7 DEF Occupied
  <2>2. IsFiniteSet(Occupied) /\ Cardinality(Occupied) \in Nat
    BY <1>0, OccupiedFinite, FS_CardinalityType
  <2>3. Cardinality(Occupied') = Cardinality(Occupied) + 1
    BY <2>1, <2>2, FS_AddElement
  <2> QED BY <1>2, <2>2, <2>3 DEF CountInv, IInv, SetsInto
<1>9. TypeOK'
  <2>1. sz' \in 0 .. cap'
    <3>1. IsFiniteSet(0 .. cap' - 1) /\ Cardinality(0 .. cap' - 1) = cap'
      BY <1>1, SlotCount
    <3>2. Occupied' \subseteq 0 .. cap' - 1
      BY DEF Occupied
    <3>3. Cardinality(Occupied') <= cap'
      BY <3>1, <3>2, FS_Subset
    <3> QED BY <1>1, <1>8, <3>3 DEF CountInv
  <2>2. slots' \in [0 .. cap' - 1 -> Slot] /\ last' = g /\ deleted' = deleted
    BY <1>2 DEF SetsInto
  <2>3. DOMAIN live' \subseteq Handles /\ \A h \in DOMAIN live' : live'[h] \in Ud
    BY <1>2 DEF SetsInto, IInv, TypeOK
  <2>4. last' \in 0 .. HandleMod - 1
    BY <1>3, <2>2 DEF Handles
  <2>5. deleted' \in BOOLEAN
    BY <1>0, <2>2 DEF TypeOK
  <2> QED BY <1>1, <2>1, <2>2, <2>3, <2>4, <2>5 DEF TypeOK, Slot
<1>10. FoundInv'
  <2> SUFFICES ASSUME NEW h \in Handles, slots'[hash(cap', h)].id = h
               PROVE  h \in DOMAIN live' /\ live'[h] = slots'[hash(cap', h)].ud
    BY DEF FoundInv
  <2> DEFINE i == hash(cap', h)
  <2>1. h \in Nat /\ h # 0 /\ i \in 0 .. cap' - 1
    BY <1>0, <1>1, Capacity, HashInTable
  <2>2. CASE i = j
    BY <1>2, <2>2, <1>7 DEF SetsInto
  <2>3. CASE i # j
    <3>1. i < cap /\ slots'[i] = slots[i] /\ slots[i].id = h
      <4> HIDE DEF i
      <4>1. slots'[i].id = h
        BY DEF i
      <4> QED BY <1>3, <1>4, <2>1, <2>3, <4>1
    <3>2. i = hash(cap, h)
      <4>1. CASE cap' = cap
        BY <4>1
      <4>2. CASE cap' = 2 * cap
        <5>1. hash(cap, h) \in 0 .. cap - 1
          BY <1>3, <2>1, HashInTable
        <5>2. i = hash(cap, h) \/ i = hash(cap, h) + cap
          BY <1>3, <2>1, <4>2, HashDoubles
        <5> QED BY <1>3, <3>1, <5>1, <5>2
      <4> QED BY <1>1, <4>1, <4>2
    <3>3. h \in DOMAIN live /\ live[h] = slots[i].ud
      BY <3>1, <3>2 DEF IInv, FoundInv
    <3>4. h # g
      BY <1>2, <2>3 DEF SetsInto
    <3> QED BY <1>2, <3>1, <3>3, <3>4 DEF SetsInto
  <2> QED BY <2>2, <2>3
<1>11. KnownInv'
  <2> SUFFICES ASSUME NEW h \in DOMAIN live' PROVE \E i \in 0 .. cap' - 1 : slots'[i].id = h
    BY DEF KnownInv
  <2>1. CASE h = g
    BY <1>3, <1>7, <2>1
  <2>2. CASE h # g
    <3>1. h \in DOMAIN live /\ h # 0
      BY <1>0, <1>2, <2>2, Capacity DEF SetsInto, TypeOK
    <3>2. PICK i \in 0 .. cap - 1 : slots[i].id = h
      BY <3>1 DEF IInv, KnownInv
    <3>3. i # j /\ i < cap
      BY <1>3, <1>7, <3>1, <3>2
    <3> QED BY <1>4, <1>5, <3>2, <3>3
  <2> QED BY <2>1, <2>2
<1>12. FreshInv'
  <2> SUFFICES ASSUME ~deleted
               PROVE  /\ last' = sz' /\ sz' < cap' /\ DOMAIN live' = 1 .. sz'
                      /\ \A i \in 0 .. cap' - 1 : slots'[i].id = IF i \in 1 .. sz' THEN i ELSE 0
                      /\ \A h \in 1 .. sz' : slots'[h].ud = live'[h]
    BY <1>2 DEF SetsInto, FreshInv
  <2>1. /\ last = sz /\ sz < cap /\ DOMAIN live = 1 .. sz
        /\ \A i \in 0 .. cap - 1 : slots[i].id = IF i \in 1 .. sz THEN i ELSE 0
        /\ \A h \in 1 .. sz : slots[h].ud = live[h]
    BY DEF IInv, FreshInv
  <2>2. sz \in Nat /\ sz + 1 < cap'
    <3>1. sz \in Nat
      BY <1>0 DEF TypeOK
    <3>2. CASE cap' = cap /\ ~MustExpand
      BY <1>3, <3>1, <3>2 DEF MustExpand
    <3>3. CASE cap' = 2 * cap
      BY <1>3, <2>1, <3>1, <3>3
    <3> QED BY <1>1, <3>1, <3>2, <3>3
  <2>3. NthHandle(1) = sz + 1
    <3>1. last < HandleMod - 1
      BY <1>1, <2>1, <2>2
    <3> QED BY <1>0, <2>1, <3>1, EveryHandleComes
  <2>4. hash(cap', NthHandle(1)) = sz + 1
    BY <1>1, <2>2, <2>3, HashInTable
  <2>5. sz + 1 < cap => slots[sz + 1].id = 0
    <3>1. sz + 1 \notin 1 .. sz /\ (sz + 1 < cap => sz + 1 \in 0 .. cap - 1)
      BY <1>3, <2>2
    <3> QED BY <2>1, <3>1
  <2>6. g = sz + 1 /\ j = sz + 1
    BY <1>2, <2>3, <2>4, <2>5 DEF SetsInto
  <2>7. last' = sz + 1 /\ sz' = sz + 1 /\ DOMAIN live' = 1 .. sz + 1
    BY <1>2, <2>1, <2>2, <2>6 DEF SetsInto
  <2>8. \A i \in 0 .. cap' - 1 : slots'[i].id = IF i \in 1 .. sz + 1 THEN i ELSE 0
    <3> TAKE i \in 0 .. cap' - 1
    <3>1. CASE i = j
      BY <1>7, <2>2, <2>6, <3>1
    <3>2. CASE i # j /\ i < cap
      BY <1>4, <1>6, <2>1, <2>2, <2>6, <3>2
    <3>3. CASE i # j /\ ~(i < cap)
      BY <1>3, <1>4, <2>1, <2>2, <2>6, <3>3
    <3> QED BY <3>1, <3>2, <3>3
  <2>9. \A h \in 1 .. sz + 1 : slots'[h].ud = live'[h]
    <3> TAKE h \in 1 .. sz + 1
    <3>1. CASE h = j
      BY <1>2, <1>7, <2>6, <3>1 DEF SetsInto
    <3>2. CASE h # j
      <4>1. h \in 1 .. sz /\ h < cap /\ h \in 0 .. cap - 1 /\ h # g
        BY <1>3, <2>1, <2>2, <2>6, <3>2
      <4>2. slots'[h] = slots[h] /\ live'[h] = live[h]
        BY <1>2, <1>4, <1>5, <2>1, <3>2, <4>1 DEF SetsInto
      <4> QED BY <2>1, <4>1, <4>2
    <3> QED BY <3>1, <3>2
  <2> QED BY <2>2, <2>7, <2>8, <2>9
<1> QED BY <1>8, <1>9, <1>10, <1>11, <1>12 DEF IInv

(* table_del of a handle that the table holds empties its slot.            *)
LEMMA DeleteHeld ==
    ASSUME IInv, NEW h \in Handles, table_del(h), Holds(h)
    PROVE  IInv'
<1> DEFINE j == hash(cap, h)
<1>0. /\ TypeOK /\ last' = last /\ cap' = cap /\ sz' = sz - 1 /\ deleted' = TRUE
      /\ slots' = [slots EXCEPT ![j] = EmptySlot]
      /\ live' = [k \in DOMAIN live \ {h} |-> live[k]]
  BY DEF IInv, table_del
<1>1. /\ j \in 0 .. cap - 1 /\ h # 0 /\ slots[j].id = h
      /\ slots \in [0 .. cap - 1 -> Slot] /\ EmptySlot \in Slot
  BY <1>0, Capacity DEF Holds, TypeOK, Slot, EmptySlot
<1> HIDE DEF j
<1>2. /\ slots' \in [0 .. cap - 1 -> Slot]
      /\ \A i \in 0 .. cap - 1 : slots'[i] = IF i = j THEN EmptySlot ELSE slots[i]
  BY <1>0, <1>1
<1>3. DOMAIN live' = DOMAIN live \ {h} /\ \A k \in DOMAIN live' : live'[k] = live[k]
  BY <1>0
<1>4. CountInv' /\ sz' \in 0 .. cap
  <2>1. j \in Occupied /\ Occupied' = Occupied \ {j}
    BY <1>0, <1>1, <1>2 DEF Occupied, EmptySlot
  <2>2. IsFiniteSet(Occupied) /\ Cardinality(Occupied) \in 0 .. cap /\ cap \in Nat
    BY <1>0, OccupiedFinite, Capacity
  <2>3. Cardinality(Occupied') = Cardinality(Occupied) - 1
    BY <2>1, <2>2, FS_RemoveElement
  <2>4. Cardinality(Occupied) # 0
    BY <2>1, <2>2, FS_EmptySet
  <2> QED BY <1>0, <2>2, <2>3, <2>4 DEF CountInv, IInv
<1>5. TypeOK'
  BY <1>0, <1>2, <1>3, <1>4 DEF TypeOK, Slot
<1>6. FoundInv'
  <2> SUFFICES ASSUME NEW k \in Handles, slots'[hash(cap, k)].id = k
               PROVE  k \in DOMAIN live' /\ live'[k] = slots'[hash(cap, k)].ud
    BY <1>0 DEF FoundInv
  <2>1. hash(cap, k) \in 0 .. cap - 1 /\ k # 0
    BY <1>0, Capacity
  <2>2. hash(cap, k) # j
    BY <1>2, <2>1 DEF EmptySlot
  <2>3. slots'[hash(cap, k)] = slots[hash(cap, k)] /\ k # h
    BY <1>2, <2>1, <2>2 DEF j
  <2> QED BY <1>3, <2>3 DEF IInv, FoundInv
<1>7. KnownInv'
  <2> SUFFICES ASSUME NEW k \in DOMAIN live' PROVE \E i \in 0 .. cap - 1 : slots'[i].id = k
    BY <1>0 DEF KnownInv
  <2>1. PICK i \in 0 .. cap - 1 : slots[i].id = k
    BY <1>3 DEF IInv, KnownInv
  <2>2. i # j
    BY <1>1, <1>3, <2>1
  <2> QED BY <1>2, <2>1, <2>2
<1>8. FreshInv'
  BY <1>0 DEF FreshInv
<1> QED BY <1>4, <1>5, <1>6, <1>7, <1>8 DEF IInv

(* table_del of a handle that an expansion made unfindable: the client     *)
(* crosses it off, its slot is leaked.                                     *)
LEMMA DeleteLost ==
    ASSUME IInv, NEW h \in Handles, table_del(h), ~Holds(h)
    PROVE  IInv'
<1>0. /\ TypeOK /\ CountInv /\ h \in DOMAIN live
      /\ UNCHANGED <<last, cap, sz, deleted, slots>>
      /\ live' = [k \in DOMAIN live \ {h} |-> live[k]]
  BY DEF IInv, table_del
<1>1. DOMAIN live' = DOMAIN live \ {h} /\ \A k \in DOMAIN live' : live'[k] = live[k]
  BY <1>0
<1>2. slots[hash(cap, h)].id # h
  BY <1>0, FoundIsHeld
<1>3. TypeOK'
  BY <1>0, <1>1 DEF TypeOK
<1>4. CountInv'
  BY <1>0 DEF CountInv, Occupied
<1>5. FoundInv'
  BY <1>0, <1>1, <1>2 DEF IInv, FoundInv
<1>6. KnownInv'
  BY <1>0, <1>1 DEF IInv, KnownInv
<1>7. deleted
  <2> SUFFICES ASSUME ~deleted PROVE FALSE
    OBVIOUS
  <2>1. h \in 1 .. sz /\ sz < cap /\ sz \in Nat /\ cap \in Nat \ {0}
        /\ \A i \in 0 .. cap - 1 : slots[i].id = IF i \in 1 .. sz THEN i ELSE 0
    BY <1>0, Capacity DEF IInv, FreshInv, TypeOK
  <2>2. h \in Nat /\ h < cap /\ h \in 0 .. cap - 1
    BY <2>1
  <2>3. hash(cap, h) = h
    BY <2>1, <2>2, HashInTable
  <2> QED BY <1>2, <2>1, <2>2, <2>3
<1>8. FreshInv'
  BY <1>0, <1>7 DEF FreshInv
<1> QED BY <1>3, <1>4, <1>5, <1>6, <1>8 DEF IInv

(* Every call keeps the invariant.                                         *)
LEMMA StepIInv == IInv /\ [Next]_vars => IInv'
<1> SUFFICES ASSUME IInv, [Next]_vars PROVE IInv'
  OBVIOUS
<1>1. ASSUME NEW ud \in Ud, table_set(ud) PROVE IInv'
  BY <1>1, SetStep
<1>2. ASSUME NEW h \in Handles, table_del(h) PROVE IInv'
  BY <1>2, DeleteHeld, DeleteLost
<1>3. CASE UNCHANGED vars
  BY <1>3 DEF vars, IInv, TypeOK, CountInv, Occupied, FoundInv, KnownInv, FreshInv
<1> QED BY <1>1, <1>2, <1>3 DEF Next

(* The invariant holds in every reachable state.                           *)
LEMMA TableInvariant == Spec => []IInv
BY InitIInv, StepIInv, PTL DEF Spec

(* sz is the number of occupied slots, and below the threshold table_set   *)
(* finds a handle whose slot is free before it has tried every handle.     *)
THEOREM TableSearchEnds == Spec => []SearchEnds
<1>1. IInv => SearchEnds
  <2> SUFFICES ASSUME IInv PROVE SearchEnds
    OBVIOUS
  <2>0. TypeOK /\ sz = Cardinality(Occupied)
    BY DEF IInv, CountInv
  <2>1. ASSUME ~MustExpand PROVE \E n \in Handles : slots[hash(cap, NthHandle(n))].id = 0
    <3>1. cap \in Nat \ {0} /\ sz \in Nat /\ sz < cap
      <4>1. cap \in Nat \ {0} /\ sz \in Nat
        BY <2>0, Capacity DEF TypeOK
      <4> QED BY <2>1, <4>1 DEF MustExpand
    <3>2. PICK i \in 0 .. cap - 1 : slots[i].id = 0
      <4> SUFFICES ASSUME \A i \in 0 .. cap - 1 : slots[i].id # 0 PROVE FALSE
        OBVIOUS
      <4>1. Occupied = 0 .. cap - 1
        BY DEF Occupied
      <4>2. Cardinality(0 .. cap - 1) = cap
        BY <3>1, SlotCount
      <4> QED BY <2>0, <3>1, <4>1, <4>2
    <3>3. PICK h \in Handles : hash(cap, h) = i
      <4>1. CASE i = 0
        <5>1. cap \in Handles /\ hash(cap, cap) = 0
          BY <2>0, <3>1, Capacity, HashInTable
        <5> QED BY <4>1, <5>1
      <4>2. CASE i # 0
        <5>1. i \in Nat /\ i < cap
          BY <3>1
        <5>2. hash(cap, i) = i
          BY <3>1, <5>1, HashInTable
        <5>3. i \in Handles
          BY <2>0, <3>1, <4>2 DEF TypeOK, Handles
        <5> QED BY <5>2, <5>3
      <4> QED BY <4>1, <4>2
    <3>4. PICK n \in Handles : NthHandle(n) = h
      BY <2>0, EveryHandleComes
    <3> QED BY <3>2, <3>3, <3>4
  <2> QED BY <2>0, <2>1 DEF SearchEnds
<1> QED BY <1>1, TableInvariant, PTL

(* table_list with room for the whole table reports every occupied slot.   *)
LEMMA ListsAll ==
    ASSUME TypeOK, NEW i \in Occupied
    PROVE  slots[i].id \in table_list(cap)
<1> DEFINE before == {k \in Occupied : k < i}
<1>1. IsFiniteSet(Occupied) /\ Cardinality(Occupied) \in 0 .. cap /\ cap \in Nat
  BY OccupiedFinite, Capacity
<1>2. before \subseteq Occupied \ {i}
  BY DEF Occupied
<1>3. IsFiniteSet(Occupied \ {i}) /\ Cardinality(Occupied \ {i}) = Cardinality(Occupied) - 1
  BY <1>1, FS_RemoveElement
<1>4. IsFiniteSet(before) /\ Cardinality(before) <= Cardinality(Occupied \ {i})
  BY <1>2, <1>3, FS_Subset
<1>5. Cardinality(before) \in Nat
  BY <1>4, FS_CardinalityType
<1>6. Cardinality(before) < cap
  BY <1>1, <1>3, <1>4, <1>5
<1> QED BY <1>6 DEF table_list

(* A handle never yields another entry's pointer, a client that never      *)
(* deletes never loses one, and table_list knows every handle.             *)
THEOREM TableLookupExact == Spec => []LookupExact
<1>1. IInv => LookupExact
  <2> SUFFICES ASSUME IInv PROVE LookupExact
    OBVIOUS
  <2>0. TypeOK /\ CountInv
    BY DEF IInv
  <2>1. LookupSound
    BY <2>0, FoundIsHeld DEF LookupSound, table_get, IInv, FoundInv
  <2>2. NoDeleteNoLoss
    <3> SUFFICES ASSUME ~deleted, NEW h \in DOMAIN live PROVE table_get(h) = live[h]
      BY DEF NoDeleteNoLoss
    <3>1. /\ h \in 1 .. sz /\ sz < cap /\ sz \in Nat /\ cap \in Nat \ {0}
          /\ \A i \in 0 .. cap - 1 : slots[i].id = IF i \in 1 .. sz THEN i ELSE 0
          /\ slots[h].ud = live[h]
      BY <2>0, Capacity DEF IInv, FreshInv, TypeOK
    <3>2. h \in Nat /\ h < cap /\ h \in 0 .. cap - 1 /\ h # 0 /\ sz # 0
      BY <3>1
    <3>3. hash(cap, h) = h
      BY <3>1, <3>2, HashInTable
    <3> QED BY <3>1, <3>2, <3>3 DEF table_get, Holds
  <2>3. DOMAIN live \subseteq table_list(cap)
    <3> SUFFICES ASSUME NEW h \in DOMAIN live PROVE h \in table_list(cap)
      OBVIOUS
    <3>1. PICK i \in 0 .. cap - 1 : slots[i].id = h
      BY DEF IInv, KnownInv
    <3>2. i \in Occupied
      BY <2>0, <3>1 DEF Occupied, TypeOK, Handles
    <3> QED BY <2>0, <3>1, <3>2, ListsAll
  <2> QED BY <2>1, <2>2, <2>3 DEF LookupExact
<1> QED BY <1>1, TableInvariant, PTL

(* Without an expansion only table_del of a handle makes it unfindable.    *)
THEOREM TableKeptUntilExpanded == Spec => KeptUntilExpanded
<1> DEFINE Kept == cap' = cap => \A h \in DOMAIN live \cap DOMAIN live' :
                                    Holds(h) => table_get(h)' = table_get(h)
<1>1. IInv /\ IInv' /\ [Next]_vars => [Kept]_vars
  <2> SUFFICES ASSUME IInv, IInv', Next, cap' = cap,
                      NEW h \in DOMAIN live, h \in DOMAIN live', Holds(h)
               PROVE  table_get(h)' = table_get(h)
    BY DEF Kept
  <2> DEFINE i == hash(cap, h)
  <2>0. TypeOK /\ CountInv /\ TypeOK' /\ CountInv' /\ h \in Handles
    BY DEF IInv, TypeOK
  <2>1. i \in 0 .. cap - 1 /\ slots[i].id = h /\ h # 0
    BY <2>0, Capacity DEF Holds
  <2>2. slots'[i] = slots[i]
    <3> HIDE DEF i
    <3>1. ASSUME NEW ud \in Ud, table_set(ud) PROVE slots'[i] = slots[i]
      <4>1. PICK g, j : SetsInto(ud, g, j)
        BY <2>0, <3>1, SetFacts
      <4>2. cap \in Nat \ {0} /\ i < cap
        BY <2>0, <2>1, Capacity
      <4>3. i # j
        BY <2>1, <4>1, <4>2 DEF SetsInto
      <4> QED BY <2>1, <4>1, <4>2, <4>3 DEF SetsInto
    <3>2. ASSUME NEW k \in Handles, table_del(k) PROVE slots'[i] = slots[i]
      <4>1. CASE ~Holds(k)
        BY <3>2, <4>1 DEF table_del
      <4>2. CASE Holds(k)
        <5>1. slots' = [slots EXCEPT ![hash(cap, k)] = EmptySlot] /\ DOMAIN live' = DOMAIN live \ {k}
          BY <3>2, <4>2 DEF table_del
        <5>2. k # h /\ slots[hash(cap, k)].id = k
          BY <4>2, <5>1 DEF Holds
        <5>3. hash(cap, k) # i
          BY <2>1, <5>2
        <5> QED BY <2>0, <2>1, <5>1, <5>3 DEF TypeOK
      <4> QED BY <4>1, <4>2
    <3> QED BY <3>1, <3>2 DEF Next
  <2>3. Holds(h)'
    <3>1. hash(cap', h) = i
      OBVIOUS
    <3>2. slots'[hash(cap', h)].id = h
      BY <2>1, <2>2, <3>1
    <3>3. i \in Occupied'
      BY <2>1, <2>2 DEF Occupied
    <3>4. sz' # 0
      <4>1. IsFiniteSet(Occupied')
        <5>1. IsFiniteSet(0 .. cap - 1)
          BY <2>0, Capacity, SlotCount
        <5>2. Occupied' \subseteq 0 .. cap - 1
          BY DEF Occupied
        <5> QED BY <5>1, <5>2, FS_Subset
      <4>2. Cardinality(Occupied') # 0
        BY <3>3, <4>1, FS_EmptySet
      <4> QED BY <2>0, <4>2 DEF CountInv
    <3> QED BY <2>1, <3>2, <3>4 DEF Holds
  <2> QED BY <2>2, <2>3 DEF table_get
<1> QED BY <1>1, TableInvariant, PTL DEF Spec, KeptUntilExpanded
=============================================================================
