-------------------------- MODULE ThreadPoolProofs --------------------------
(***************************************************************************)
(* The thread pool of base/threadpool.c for any number of workers, tasks   *)
(* and spurious wakeups: its intrusive list stays a list, no worker sleeps *)
(* past a task, nothing is lost when the pool is released, and it          *)
(* implements TaskPool.                                                    *)
(*                                                                         *)
(* The first part is about the macros of base/queue.h: what each of them   *)
(* does to a list that represents a sequence.  The second part is the      *)
(* inductive invariant of the pool.                                        *)
(***************************************************************************)
EXTENDS ThreadPool, WellFoundedInduction, SequenceTheorems, FunctionTheorems,
        FiniteSetTheorems, TLAPS

(* The least number principle for sets.  It stands in for induction on the *)
(* length of a walk along the links.                                       *)
LEMMA LeastNat ==
    ASSUME NEW T \in SUBSET Nat, T # {}
    PROVE  \E x \in T : \A y \in T : x <= y
<1>1. PICK x \in T : \A y \in T : <<y, x>> \notin OpToRel(<, Nat)
  BY NatLessThanWellFounded, WFMin
<1>2. \A y \in T : ~(y < x)
  BY <1>1 DEF OpToRel
<1> QED BY <1>2

\* f is the walk of n steps along g that begins at h.
IsIter(f, h, g, n) == f = [i \in 0 .. n |-> IF i = 0 THEN h ELSE g[f[i - 1]]]

(* Such a walk exists, so that the recursive function in Walk is defined.  *)
LEMMA IterExists ==
    ASSUME NEW h, NEW g, NEW n \in Nat
    PROVE  \E f : IsIter(f, h, g, n)
<1> USE DEF IsIter
<1> DEFINE Iter(k) == \E f : IsIter(f, h, g, k)
           Bad == {k \in Nat : ~Iter(k)}
<1> SUFFICES ASSUME n \in Bad PROVE FALSE
  OBVIOUS
<1>1. PICK k \in Bad : \A j \in Bad : k <= j
  BY LeastNat
<1>2. CASE k = 0
  <2>1. [i \in 0 .. 0 |-> h] = [i \in 0 .. 0 |-> IF i = 0 THEN h ELSE g[[j \in 0 .. 0 |-> h][i - 1]]]
    OBVIOUS
  <2> QED BY <1>2, <2>1
<1>3. CASE k # 0
  <2> HIDE DEF Iter
  <2>1. k - 1 \in Nat /\ ~(k <= k - 1)
    BY <1>3
  <2>2. Iter(k - 1)
    BY <1>1, <2>1
  <2>3. PICK f : f = [i \in 0 .. k - 1 |-> IF i = 0 THEN h ELSE g[f[i - 1]]]
    BY <2>2 DEF Iter
  <2> DEFINE e == [i \in 0 .. k |-> IF i < k THEN f[i] ELSE g[f[k - 1]]]
  <2>4. e = [i \in 0 .. k |-> IF i = 0 THEN h ELSE g[e[i - 1]]]
    BY <1>3, <2>3
  <2>5. Iter(k)
    BY <2>4 DEF Iter
  <2> QED BY <2>5
<1> QED BY <1>2, <1>3

-----------------------------------------------------------------------------
\* The nodes of a list with head h and elements s, h at both ends.
Ring(s, h, i) == IF i \in 1 .. Len(s) THEN s[i] ELSE h

\* The links represent the sequence s as a circular list with head h.
IsList(l, h, s) ==
    /\ \A i \in 1 .. Len(s) : s[i] # h
    /\ \A i, j \in 1 .. Len(s) : s[i] = s[j] => i = j
    /\ \A i \in 0 .. Len(s) : l.next[Ring(s, h, i)] = Ring(s, h, i + 1)
    /\ \A i \in 1 .. Len(s) + 1 : l.prev[Ring(s, h, i)] = Ring(s, h, i - 1)

(* Following next from the head yields the sequence that is represented.   *)
LEMMA WalkIsList ==
    ASSUME NEW N, NEW s \in Seq(N), NEW l, NEW h, IsList(l, h, s), NEW n \in Nat, Len(s) <= n
    PROVE  Walk(l, h, n) = s
<1> DEFINE at == CHOOSE f : f = [i \in 0 .. n + 1 |-> IF i = 0 THEN h ELSE l.next[f[i - 1]]]
           ends == {i \in 1 .. n + 1 : at[i] = h}
           first == CHOOSE i \in ends : \A j \in ends : i <= j
           len == IF ends = {} THEN n ELSE first - 1
<1>1. at = [i \in 0 .. n + 1 |-> IF i = 0 THEN h ELSE l.next[at[i - 1]]]
  <2>1. n + 1 \in Nat
    OBVIOUS
  <2>2. \E f : IsIter(f, h, l.next, n + 1)
    BY <2>1, IterExists
  <2> QED BY <2>2 DEF IsIter
<1>2. Walk(l, h, n) = [i \in 1 .. len |-> at[i]]
  BY DEF Walk
<1> HIDE DEF at
<1>3. at[0] = h /\ \A i \in 1 .. n + 1 : at[i] = l.next[at[i - 1]]
  BY <1>1
<1>4. \A i \in 0 .. Len(s) + 1 : at[i] = Ring(s, h, i)
  <2> DEFINE Bad == {k \in 0 .. Len(s) + 1 : at[k] # Ring(s, h, k)}
  <2> SUFFICES ASSUME Bad # {} PROVE FALSE
    OBVIOUS
  <2>0. Bad \in SUBSET Nat
    BY LenProperties
  <2>1. PICK k \in Bad : \A j \in Bad : k <= j
    <3> HIDE DEF Bad
    <3> QED BY <2>0, LeastNat
  <2>2. at[0] = Ring(s, h, 0)
    BY <1>3 DEF Ring
  <2>3. k \in 1 .. Len(s) + 1 /\ k - 1 \in 0 .. Len(s) /\ k \in 1 .. n + 1 /\ ~(k <= k - 1)
    BY <2>2
  <2>4. at[k - 1] = Ring(s, h, k - 1)
    BY <2>1, <2>3
  <2>5. l.next[Ring(s, h, k - 1)] = Ring(s, h, k)
    BY <2>3 DEF IsList
  <2> QED BY <1>3, <2>3, <2>4, <2>5
<1>5. len = Len(s)
  <2>1. Len(s) + 1 \in ends
    BY <1>4 DEF Ring
  <2>2. \A j \in ends : Len(s) + 1 <= j
    BY <1>4 DEF Ring, IsList
  <2>3. first = Len(s) + 1
    <3> HIDE DEF ends
    <3>1. first \in ends /\ \A j \in ends : first <= j
      BY <2>1, <2>2
    <3>2. first \in Nat
      BY <3>1 DEF ends
    <3> QED BY <2>1, <2>2, <3>1, <3>2, LenProperties
  <2> HIDE DEF first, ends
  <2> QED BY <2>1, <2>3, LenProperties
<1>6. \A i \in 1 .. Len(s) : at[i] = s[i]
  BY <1>4 DEF Ring
<1> HIDE DEF len
<1>7. s = [i \in 1 .. Len(s) |-> s[i]]
  BY LenProperties
<1> QED BY <1>2, <1>5, <1>6, <1>7

(* Every node is on the ring once.                                         *)
LEMMA RingFacts ==
    ASSUME NEW N, NEW s \in Seq(N), NEW l, NEW h \in N, IsList(l, h, s)
    PROVE  /\ Len(s) \in Nat
           /\ Ring(s, h, 0) = h /\ Ring(s, h, Len(s) + 1) = h
           /\ \A i \in 1 .. Len(s) : Ring(s, h, i) = s[i]
           /\ \A i \in 0 .. Len(s) + 1 : Ring(s, h, i) \in N
           /\ \A i, j \in 0 .. Len(s) : Ring(s, h, i) = Ring(s, h, j) => i = j
           /\ \A i, j \in 1 .. Len(s) + 1 : Ring(s, h, i) = Ring(s, h, j) => i = j
<1>1. Len(s) \in Nat /\ \A i \in 1 .. Len(s) : s[i] \in N
  BY LenProperties, ElementOfSeq
<1> QED BY <1>1 DEF Ring, IsList

(* QUEUE_INSERT_TAIL of a node that is not on the list appends it, and     *)
(* touches no node off the list.                                           *)
LEMMA InsertTail ==
    ASSUME NEW N, NEW nil, NEW l \in Links(N, nil), NEW h \in N, NEW s \in Seq(N),
           IsList(l, h, s), NEW q \in N, q # h, \A i \in 1 .. Len(s) : s[i] # q
    PROVE  /\ QUEUE_INSERT_TAIL(l, h, q) \in Links(N, nil)
           /\ Append(s, q) \in Seq(N)
           /\ IsList(QUEUE_INSERT_TAIL(l, h, q), h, Append(s, q))
           /\ \A y \in N : y # q /\ y # h /\ (\A i \in 1 .. Len(s) : s[i] # y)
                 => /\ QUEUE_INSERT_TAIL(l, h, q).next[y] = l.next[y]
                    /\ QUEUE_INSERT_TAIL(l, h, q).prev[y] = l.prev[y]
<1> DEFINE m == QUEUE_INSERT_TAIL(l, h, q)
           last == Ring(s, h, Len(s))
           t == Append(s, q)
<1>1. /\ l.next \in [N -> N \cup {nil}] /\ l.prev \in [N -> N \cup {nil}]
      /\ l.prev[h] = last /\ last \in N
      /\ Len(s) \in Nat
  BY RingFacts DEF Links, IsList
<1>2. /\ m.next = [l.next EXCEPT ![q] = h, ![last] = q]
      /\ m.prev = [l.prev EXCEPT ![q] = last, ![h] = q]
      /\ m = [next |-> m.next, prev |-> m.prev]
  BY <1>1 DEF QUEUE_INSERT_TAIL
<1>3. m \in Links(N, nil)
  BY <1>1, <1>2 DEF Links
<1>4. /\ t \in Seq(N) /\ Len(t) = Len(s) + 1
      /\ \A i \in 1 .. Len(s) : t[i] = s[i]
      /\ t[Len(s) + 1] = q
  BY AppendProperties
<1>5. /\ \A i \in 0 .. Len(s) : Ring(t, h, i) = Ring(s, h, i) /\ Ring(s, h, i) # q
      /\ Ring(t, h, Len(s) + 1) = q
      /\ Ring(t, h, Len(s) + 2) = h
  BY <1>1, <1>4 DEF Ring
<1> HIDE DEF m, t, last
<1>6. \A i \in 0 .. Len(s) + 1 : m.next[Ring(t, h, i)] = Ring(t, h, i + 1)
  <2> TAKE i \in 0 .. Len(s) + 1
  <2>1. CASE i = Len(s) + 1
    BY <1>1, <1>2, <1>5, <2>1 DEF last
  <2>2. CASE i = Len(s)
    BY <1>1, <1>2, <1>5, <2>2 DEF last
  <2>3. CASE i \in 0 .. Len(s) - 1
    <3>1. i \in 0 .. Len(s) /\ i + 1 \in 0 .. Len(s) /\ i # Len(s) /\ Len(s) \in 0 .. Len(s)
      BY <1>1, <2>3
    <3>2. Ring(s, h, i) # last /\ Ring(s, h, i) \in N
      BY <3>1, RingFacts DEF last
    <3>3. l.next[Ring(s, h, i)] = Ring(s, h, i + 1)
      BY <3>1 DEF IsList
    <3> QED BY <1>1, <1>2, <1>5, <3>1, <3>2, <3>3
  <2> QED BY <1>1, <2>1, <2>2, <2>3
<1>7. \A i \in 1 .. Len(s) + 2 : m.prev[Ring(t, h, i)] = Ring(t, h, i - 1)
  <2> TAKE i \in 1 .. Len(s) + 2
  <2>1. CASE i = Len(s) + 2
    BY <1>1, <1>2, <1>5, <2>1 DEF last
  <2>2. CASE i = Len(s) + 1
    BY <1>1, <1>2, <1>5, <2>2 DEF last
  <2>3. CASE i \in 1 .. Len(s)
    <3>1. i \in 0 .. Len(s) /\ i - 1 \in 0 .. Len(s) /\ i # 0 /\ 0 \in 0 .. Len(s) /\ i \in 1 .. Len(s) + 1
      BY <1>1, <2>3
    <3>2. Ring(s, h, i) # h /\ Ring(s, h, i) \in N
      <4>1. s[i] # h
        BY <2>3 DEF IsList
      <4> QED BY <2>3, <3>1, <4>1, RingFacts
    <3>3. l.prev[Ring(s, h, i)] = Ring(s, h, i - 1)
      BY <3>1 DEF IsList
    <3> QED BY <1>1, <1>2, <1>5, <3>1, <3>2, <3>3
  <2> QED BY <1>1, <2>1, <2>2, <2>3
<1>8. IsList(m, h, t)
  <2>0. /\ \A i \in 1 .. Len(s) : s[i] # h
        /\ \A i, j \in 1 .. Len(s) : s[i] = s[j] => i = j
    BY DEF IsList
  <2>1. \A i \in 1 .. Len(t) : t[i] # h
    BY <1>1, <1>4, <2>0
  <2>2. \A i, j \in 1 .. Len(t) : t[i] = t[j] => i = j
    BY <1>1, <1>4, <2>0
  <2> QED BY <1>1, <1>4, <1>6, <1>7, <2>1, <2>2 DEF IsList
<1>9. ASSUME NEW y \in N, y # q, y # h, \A i \in 1 .. Len(s) : s[i] # y
      PROVE  m.next[y] = l.next[y] /\ m.prev[y] = l.prev[y]
  <2>1. last # y
    BY <1>9 DEF last, Ring
  <2> QED BY <1>1, <1>2, <1>9, <2>1
<1> QED BY <1>3, <1>4, <1>8, <1>9 DEF m, t

\* The sequence s without its k-th element.
Without(s, k) == [j \in 1 .. Len(s) - 1 |-> IF j < k THEN s[j] ELSE s[j + 1]]

(* It is a sequence, shorter by one.                                       *)
LEMMA WithoutProperties ==
    ASSUME NEW N, NEW s \in Seq(N), NEW k \in 1 .. Len(s)
    PROVE  /\ Without(s, k) \in Seq(N)
           /\ Len(Without(s, k)) = Len(s) - 1
           /\ \A j \in 1 .. Len(s) - 1 : Without(s, k)[j] = IF j < k THEN s[j] ELSE s[j + 1]
<1>1. Len(s) \in Nat /\ Len(s) - 1 \in Nat /\ \A i \in 1 .. Len(s) : s[i] \in N
  BY LenProperties, ElementOfSeq
<1>2. Without(s, k) \in [1 .. Len(s) - 1 -> N]
  BY <1>1 DEF Without
<1> QED BY <1>1, <1>2 DEF Without

(* QUEUE_REMOVE of a node on the list takes it out, and touches no node    *)
(* off the list.                                                           *)
LEMMA RemoveListed ==
    ASSUME NEW N, NEW nil, NEW l \in Links(N, nil), NEW h \in N, NEW s \in Seq(N),
           IsList(l, h, s), NEW k \in 1 .. Len(s)
    PROVE  /\ QUEUE_REMOVE(l, s[k]) \in Links(N, nil)
           /\ IsList(QUEUE_REMOVE(l, s[k]), h, Without(s, k))
           /\ \A y \in N : y # h /\ (\A i \in 1 .. Len(s) : s[i] # y)
                 => /\ QUEUE_REMOVE(l, s[k]).next[y] = l.next[y]
                    /\ QUEUE_REMOVE(l, s[k]).prev[y] = l.prev[y]
<1> DEFINE m == QUEUE_REMOVE(l, s[k])
           t == Without(s, k)
           p == Ring(s, h, k - 1)
           x == Ring(s, h, k + 1)
<1>1. /\ l.next \in [N -> N \cup {nil}] /\ l.prev \in [N -> N \cup {nil}]
      /\ l.prev[s[k]] = p /\ l.next[s[k]] = x /\ p \in N /\ x \in N
      /\ Len(s) \in Nat
  <2>1. Len(s) \in Nat /\ Ring(s, h, k) = s[k] /\ p \in N /\ x \in N
    BY RingFacts
  <2>2. k \in 0 .. Len(s) /\ k \in 1 .. Len(s) + 1
    BY <2>1
  <2>3. l.prev[Ring(s, h, k)] = p /\ l.next[Ring(s, h, k)] = x
    BY <2>2 DEF IsList
  <2> QED BY <2>1, <2>3 DEF Links
<1>2. /\ m.next = [l.next EXCEPT ![p] = x]
      /\ m.prev = [l.prev EXCEPT ![x] = p]
      /\ m = [next |-> m.next, prev |-> m.prev]
  BY <1>1 DEF QUEUE_REMOVE
<1>3. m \in Links(N, nil)
  BY <1>1, <1>2 DEF Links
<1>4. /\ Len(t) = Len(s) - 1
      /\ \A j \in 1 .. Len(s) - 1 : t[j] = IF j < k THEN s[j] ELSE s[j + 1]
  BY WithoutProperties
<1> HIDE DEF m, t
<1>0. /\ \A i \in 0 .. Len(s) + 1 : Ring(s, h, i) \in N
      /\ \A i, j \in 0 .. Len(s) : Ring(s, h, i) = Ring(s, h, j) => i = j
      /\ \A i, j \in 1 .. Len(s) + 1 : Ring(s, h, i) = Ring(s, h, j) => i = j
      /\ \A i \in 0 .. Len(s) : l.next[Ring(s, h, i)] = Ring(s, h, i + 1)
      /\ \A i \in 1 .. Len(s) + 1 : l.prev[Ring(s, h, i)] = Ring(s, h, i - 1)
  <2>1. /\ \A i \in 0 .. Len(s) : l.next[Ring(s, h, i)] = Ring(s, h, i + 1)
        /\ \A i \in 1 .. Len(s) + 1 : l.prev[Ring(s, h, i)] = Ring(s, h, i - 1)
    BY DEF IsList
  <2> QED BY <2>1, RingFacts
<1>5. \A i \in 0 .. Len(s) : Ring(t, h, i) = IF i < k THEN Ring(s, h, i) ELSE Ring(s, h, i + 1)
  BY <1>1, <1>4 DEF Ring
<1>6. \A i \in 0 .. Len(s) - 1 : m.next[Ring(t, h, i)] = Ring(t, h, i + 1)
  <2> TAKE i \in 0 .. Len(s) - 1
  <2>0. /\ i \in 0 .. Len(s) /\ i + 1 \in 0 .. Len(s) /\ k - 1 \in 0 .. Len(s)
        /\ k + 1 \in 0 .. Len(s) + 1 /\ i + 2 \in 0 .. Len(s) + 1
    BY <1>1
  <2>1. CASE i = k - 1
    BY <1>1, <1>2, <1>5, <2>0, <2>1
  <2>2. CASE i < k - 1
    <3>1. Ring(s, h, i) # p /\ Ring(s, h, i) \in N /\ l.next[Ring(s, h, i)] = Ring(s, h, i + 1)
      BY <2>0, <2>2, <1>1, <1>0
    <3> QED BY <1>1, <1>2, <1>5, <2>0, <2>2, <3>1
  <2>3. CASE i > k - 1
    <3>1. /\ Ring(s, h, i + 1) # p /\ Ring(s, h, i + 1) \in N
          /\ l.next[Ring(s, h, i + 1)] = Ring(s, h, i + 2)
      BY <2>0, <2>3, <1>1, <1>0
    <3> QED BY <1>1, <1>2, <1>5, <2>0, <2>3, <3>1
  <2> QED BY <2>0, <1>1, <2>1, <2>2, <2>3
<1>7. \A i \in 1 .. Len(s) : m.prev[Ring(t, h, i)] = Ring(t, h, i - 1)
  <2> TAKE i \in 1 .. Len(s)
  <2>0. /\ i \in 0 .. Len(s) /\ i + 1 \in 1 .. Len(s) + 1 /\ k + 1 \in 1 .. Len(s) + 1
        /\ i - 1 \in 0 .. Len(s) /\ i \in 1 .. Len(s) + 1
    BY <1>1
  <2>1. CASE i = k
    BY <1>1, <1>2, <1>5, <2>0, <2>1
  <2>2. CASE i < k
    <3>1. Ring(s, h, i) # x /\ Ring(s, h, i) \in N /\ l.prev[Ring(s, h, i)] = Ring(s, h, i - 1)
      BY <2>0, <2>2, <1>1, <1>0
    <3> QED BY <1>1, <1>2, <1>5, <2>0, <2>2, <3>1
  <2>3. CASE i > k
    <3>1. /\ Ring(s, h, i + 1) # x /\ Ring(s, h, i + 1) \in N
          /\ l.prev[Ring(s, h, i + 1)] = Ring(s, h, i)
      BY <2>0, <2>3, <1>1, <1>0
    <3> QED BY <1>1, <1>2, <1>5, <2>0, <2>3, <3>1
  <2> QED BY <2>0, <1>1, <2>1, <2>2, <2>3
<1>8. IsList(m, h, t)
  <2>0. /\ \A i \in 1 .. Len(s) : s[i] # h
        /\ \A i, j \in 1 .. Len(s) : s[i] = s[j] => i = j
    BY DEF IsList
  <2>1. \A i \in 1 .. Len(t) : t[i] # h
    BY <1>1, <1>4, <2>0
  <2>2. \A i, j \in 1 .. Len(t) : t[i] = t[j] => i = j
    BY <1>1, <1>4, <2>0
  <2> QED BY <1>1, <1>4, <1>6, <1>7, <2>1, <2>2 DEF IsList
<1>9. ASSUME NEW y \in N, y # h, \A i \in 1 .. Len(s) : s[i] # y
      PROVE  m.next[y] = l.next[y] /\ m.prev[y] = l.prev[y]
  <2>1. p # y /\ x # y
    BY <1>9 DEF Ring
  <2> QED BY <1>1, <1>2, <1>9, <2>1
<1> QED BY <1>3, <1>8, <1>9 DEF m, t

(* QUEUE_REMOVE of a node that is linked to itself changes nothing: what   *)
(* makes threadpool_cancel harmless to the list once a worker has taken    *)
(* the task.                                                               *)
LEMMA RemoveAlone ==
    ASSUME NEW N, NEW nil, NEW l \in Links(N, nil), NEW q \in N, l.next[q] = q, l.prev[q] = q
    PROVE  QUEUE_REMOVE(l, q) = l
<1>1. [l.next EXCEPT ![q] = q] = l.next /\ [l.prev EXCEPT ![q] = q] = l.prev
  BY DEF Links
<1>2. l = [next |-> l.next, prev |-> l.prev]
  BY DEF Links
<1> QED BY <1>1, <1>2 DEF QUEUE_REMOVE

(* QUEUE_INIT of a node off the list leaves the list alone.                *)
LEMMA InitAside ==
    ASSUME NEW N, NEW nil, NEW l \in Links(N, nil), NEW h \in N, NEW s \in Seq(N),
           IsList(l, h, s), NEW q \in N, q # h, \A i \in 1 .. Len(s) : s[i] # q
    PROVE  /\ QUEUE_INIT(l, q) \in Links(N, nil)
           /\ IsList(QUEUE_INIT(l, q), h, s)
           /\ QUEUE_INIT(l, q).next[q] = q /\ QUEUE_INIT(l, q).prev[q] = q
           /\ \A y \in N \ {q} : /\ QUEUE_INIT(l, q).next[y] = l.next[y]
                                 /\ QUEUE_INIT(l, q).prev[y] = l.prev[y]
<1> DEFINE m == QUEUE_INIT(l, q)
<1>1. l.next \in [N -> N \cup {nil}] /\ l.prev \in [N -> N \cup {nil}]
  BY DEF Links
<1>2. /\ m.next = [l.next EXCEPT ![q] = q] /\ m.prev = [l.prev EXCEPT ![q] = q]
      /\ m \in Links(N, nil)
  BY DEF Links, QUEUE_INIT
<1> HIDE DEF m
<1>3. /\ m.next[q] = q /\ m.prev[q] = q
      /\ \A y \in N \ {q} : m.next[y] = l.next[y] /\ m.prev[y] = l.prev[y]
  BY <1>1, <1>2
<1>4. \A i \in 0 .. Len(s) + 1 : Ring(s, h, i) \in N \ {q}
  <2>1. \A i \in 0 .. Len(s) + 1 : Ring(s, h, i) \in N
    BY RingFacts
  <2> QED BY <2>1 DEF Ring
<1>5. Len(s) \in Nat
  BY LenProperties
<1>6. IsList(m, h, s)
  BY <1>3, <1>4, <1>5 DEF IsList
<1> QED BY <1>2, <1>3, <1>6 DEF m

(* A list is well linked in both directions.                               *)
LEMMA ListWellLinked ==
    ASSUME NEW N, IsFiniteSet(N), NEW l, NEW h \in N, NEW s \in Seq(N), IsList(l, h, s)
    PROVE  /\ Walk(l, h, Cardinality(N)) = s
           /\ WellLinked(l, h, Cardinality(N))
<1> DEFINE nodes == {h} \cup {s[i] : i \in 1 .. Len(s)}
           r == [i \in 0 .. Len(s) |-> Ring(s, h, i)]
<1>1. /\ Len(s) \in Nat
      /\ Ring(s, h, 0) = h /\ Ring(s, h, Len(s) + 1) = h
      /\ \A i \in 1 .. Len(s) : Ring(s, h, i) = s[i]
      /\ \A i \in 0 .. Len(s) + 1 : Ring(s, h, i) \in N
      /\ \A i, j \in 0 .. Len(s) : Ring(s, h, i) = Ring(s, h, j) => i = j
  BY RingFacts
<1>2. \A i \in 0 .. Len(s) + 1 : Ring(s, h, i) \in nodes
  BY <1>1
<1>3. nodes \subseteq N /\ \A x \in nodes : \E i \in 0 .. Len(s) : Ring(s, h, i) = x
  BY <1>1
<1>4. r \in Bijection(0 .. Len(s), nodes)
  <2> HIDE DEF nodes
  <2>1. r \in [0 .. Len(s) -> nodes]
    BY <1>1, <1>2
  <2>2. \A i, j \in 0 .. Len(s) : r[i] = r[j] => i = j
    BY <1>1
  <2>3. \A x \in nodes : \E i \in 0 .. Len(s) : r[i] = x
    BY <1>3
  <2> QED BY <2>1, <2>2, <2>3, Fun_IsBij, Fun_IsInj, Fun_IsSurj
<1>5. Cardinality(nodes) = Len(s) + 1
  <2>1. IsFiniteSet(0 .. Len(s)) /\ Cardinality(0 .. Len(s)) = Len(s) + 1
    BY <1>1, FS_Interval
  <2> HIDE DEF nodes, r
  <2>2. ExistsBijection(0 .. Len(s), nodes)
    BY <1>4 DEF ExistsBijection
  <2> QED BY <2>1, <2>2, FS_Bijection
<1>6. Cardinality(N) \in Nat /\ Len(s) <= Cardinality(N)
  <2> HIDE DEF nodes
  <2> QED BY <1>1, <1>3, <1>5, FS_Subset, FS_CardinalityType
<1>7. Walk(l, h, Cardinality(N)) = s
  BY <1>6, WalkIsList
<1>8. \A x \in nodes : l.next[x] \in nodes /\ l.prev[l.next[x]] = x
  <2> TAKE x \in nodes
  <2>1. PICK i \in 0 .. Len(s) : Ring(s, h, i) = x
    BY <1>3
  <2>2. i + 1 \in 1 .. Len(s) + 1 /\ i + 1 \in 0 .. Len(s) + 1 /\ (i + 1) - 1 = i
    BY <1>1
  <2>3. l.next[x] = Ring(s, h, i + 1) /\ l.prev[Ring(s, h, i + 1)] = x
    BY <2>1, <2>2 DEF IsList
  <2> HIDE DEF nodes
  <2> QED BY <1>2, <2>2, <2>3
<1> QED BY <1>5, <1>7, <1>8 DEF WellLinked
-----------------------------------------------------------------------------
USE PoolAssumption

(* The nodes on the list, and the tasks in the workers' hands.             *)
Members == {List[i] : i \in 1 .. Len(List)}

Taken == {cur[w] : w \in Workers}

(* The links represent a sequence of tasks and perhaps the exit message. A *)
(* task that was submitted and is not on the list any more is linked to    *)
(* itself, unless threadpool_cancel took it off.                           *)
ListInv ==
    /\ List \in Seq(Tasks \cup {exit_message})
    /\ IsList(links, wq, List)
    /\ \A t \in submitted \ cancelled : t \notin Members => links.next[t] = t /\ links.prev[t] = t

(* A task waits on the list, is in the hands of a worker, or is done.      *)
TaskInv ==
    /\ \A t \in Tasks \cap Members : /\ t \in submitted \ cancelled /\ t \notin Taken
                                     /\ work[t] /\ runs[t] = 0
    /\ \A t \in Tasks \ submitted : t \notin Taken /\ runs[t] = 0
    /\ \A t \in submitted \ cancelled : t \notin Members \cup Taken => runs[t] = 1 /\ ~work[t]

(* A worker between taking a task and clearing it has one of its own.      *)
WorkerInv ==
    /\ \A w \in Workers : cur[w] = NULL <=> pc[w] \in {"top", "waiting", "exited"}
    /\ \A v, w \in Workers : cur[v] = cur[w] /\ cur[v] # NULL => v = w
    /\ \A w \in Workers : pc[w] = "taken" => work[cur[w]] /\ runs[cur[w]] = 0
    /\ \A w \in Workers : pc[w] \in {"running", "ran"} => runs[cur[w]] = 1

(* The exit message is posted last and stays; a worker that has seen it    *)
(* saw nothing in front of it.                                             *)
ExitInv ==
    /\ releasing <=> exit_message \in Members
    /\ releasing => Len(List) > 0 /\ List[Len(List)] = exit_message
    /\ \A w \in Workers : pc[w] = "exited" => releasing /\ Len(List) = 1
    /\ released => releasing /\ \A w \in Workers : pc[w] = "exited"

Waiting == {w \in Workers : pc[w] = "waiting"}

\* The workers that will look at the list again before they sleep.
Alert == {w \in Workers : pc[w] = "top" \/ (pc[w] = "waiting" /\ w \notin asleep)}

(* Every post wakes a sleeper if there is one, so that those awake always  *)
(* suffice for what is on the list.                                        *)
WakeInv ==
    /\ asleep \subseteq Waiting
    /\ idle_threads = Cardinality(Waiting)
    /\ asleep # {} => Len(List) <= Cardinality(Alert)

Shape == TypeOK /\ ListInv

IInv == Shape /\ TaskInv /\ WorkerInv /\ ExitInv /\ WakeInv

(* There are finitely many nodes and workers.                              *)
LEMMA PoolFinite ==
    /\ IsFiniteSet(Nodes)
    /\ TypeOK => IsFiniteSet(Workers) /\ Cardinality(Workers) = nthreads
<1>1. IsFiniteSet(Nodes)
  <2>1. Nodes = (Tasks \cup {wq}) \cup {exit_message}
    BY DEF Nodes
  <2> QED BY <2>1, FS_AddElement
<1>2. TypeOK => IsFiniteSet(Workers) /\ Cardinality(Workers) = nthreads
  BY FS_Interval DEF TypeOK, Workers
<1> QED BY <1>1, <1>2

(* The list of the next state is whatever its links represent.             *)
LEMMA NextList ==
    ASSUME NEW s \in Seq(Nodes), IsList(links', wq, s)
    PROVE  List' = s
BY PoolFinite, ListWellLinked DEF List, Nodes

(* The elements of the list.                                               *)
LEMMA Listed ==
    ASSUME Shape
    PROVE  /\ List \in Seq(Nodes) /\ IsList(links, wq, List) /\ links \in Links(Nodes, NULL)
           /\ Len(List) \in Nat
           /\ \A i \in 1 .. Len(List) : List[i] \in Members
           /\ \A x \in Members : \E i \in 1 .. Len(List) : List[i] = x
           /\ \A i, j \in 1 .. Len(List) : List[i] = List[j] => i = j
           /\ Members \subseteq Tasks \cup {exit_message}
           /\ QUEUE_EMPTY(links, wq) <=> Len(List) = 0
           /\ Len(List) > 0 => QUEUE_HEAD(links, wq) = List[1]
<1>1. List \in Seq(Tasks \cup {exit_message}) /\ IsList(links, wq, List)
  BY DEF Shape, ListInv
<1>2. List \in Seq(Nodes) /\ wq \in Nodes /\ Len(List) \in Nat
  <2>1. Tasks \cup {exit_message} \subseteq Nodes /\ wq \in Nodes
    BY DEF Nodes
  <2> QED BY <1>1, <2>1, SeqMonotonic, LenProperties
<1>3. \A i \in 1 .. Len(List) : List[i] \in Tasks \cup {exit_message}
  BY <1>1, ElementOfSeq
<1>4. links.next[wq] = Ring(List, wq, 1)
  <2>1. 0 \in 0 .. Len(List) /\ 0 + 1 = 1
    BY <1>2
  <2>2. links.next[Ring(List, wq, 0)] = Ring(List, wq, 0 + 1)
    BY <1>1, <2>1 DEF IsList
  <2>3. Ring(List, wq, 0) = wq
    BY DEF Ring
  <2> QED BY <2>1, <2>2, <2>3
<1>5. /\ QUEUE_EMPTY(links, wq) <=> Len(List) = 0
      /\ Len(List) > 0 => QUEUE_HEAD(links, wq) = List[1]
  BY <1>2, <1>3, <1>4 DEF QUEUE_EMPTY, QUEUE_HEAD, Ring
<1>6. \A i, j \in 1 .. Len(List) : List[i] = List[j] => i = j
  BY <1>1 DEF IsList
<1> QED BY <1>1, <1>2, <1>3, <1>5, <1>6 DEF Members, Shape, TypeOK

(* post puts a node that is not on the list at its end.                    *)
LEMMA PostList ==
    ASSUME Shape, NEW q \in Tasks \cup {exit_message}, q \notin Members,
           links' = QUEUE_INSERT_TAIL(links, wq, q)
    PROVE  /\ links' \in Links(Nodes, NULL)
           /\ List' \in Seq(Tasks \cup {exit_message}) /\ IsList(links', wq, List')
           /\ List' = Append(List, q)
           /\ Len(List') = Len(List) + 1
           /\ List'[Len(List) + 1] = q
           /\ Members' = Members \cup {q}
           /\ \A t \in Tasks : t \notin Members \cup {q} =>
                 links'.next[t] = links.next[t] /\ links'.prev[t] = links.prev[t]
<1>0. q \in Nodes /\ q # wq /\ wq \in Nodes /\ Tasks \subseteq Nodes /\ wq \notin Tasks
  BY DEF Nodes
<1>1. \A i \in 1 .. Len(List) : List[i] # q
  BY Listed
<1>2. /\ links' \in Links(Nodes, NULL)
      /\ Append(List, q) \in Seq(Nodes)
      /\ IsList(links', wq, Append(List, q))
      /\ \A y \in Nodes : y # q /\ y # wq /\ (\A i \in 1 .. Len(List) : List[i] # y)
            => links'.next[y] = links.next[y] /\ links'.prev[y] = links.prev[y]
  BY <1>0, <1>1, Listed, InsertTail
<1>3. List' = Append(List, q)
  BY <1>2, NextList
<1>4. List \in Seq(Tasks \cup {exit_message})
  BY DEF Shape, ListInv
<1>5. /\ List' \in Seq(Tasks \cup {exit_message})
      /\ Len(List') = Len(List) + 1
      /\ \A i \in 1 .. Len(List) : List'[i] = List[i]
      /\ List'[Len(List) + 1] = q
  BY <1>3, <1>4, AppendProperties
<1>6. Members' = Members \cup {q}
  <2>1. Members' = {List'[i] : i \in 1 .. Len(List')}
    BY DEF Members
  <2>2. Len(List) \in Nat
    BY Listed
  <2> QED BY <1>5, <2>1, <2>2 DEF Members
<1>7. ASSUME NEW t \in Tasks, t \notin Members \cup {q}
      PROVE  links'.next[t] = links.next[t] /\ links'.prev[t] = links.prev[t]
  <2>1. t \in Nodes /\ t # wq /\ \A i \in 1 .. Len(List) : List[i] # t
    BY <1>0, <1>7, Listed
  <2> QED BY <1>2, <1>7, <2>1
<1> QED BY <1>2, <1>3, <1>5, <1>6, <1>7

(* QUEUE_REMOVE of the k-th node, as a worker and threadpool_cancel do it.  *)
LEMMA RemoveFromList ==
    ASSUME Shape, NEW k \in 1 .. Len(List)
    PROVE  LET l == QUEUE_REMOVE(links, List[k])
               s == Without(List, k)
           IN  /\ l \in Links(Nodes, NULL)
               /\ s \in Seq(Tasks \cup {exit_message}) /\ s \in Seq(Nodes) /\ IsList(l, wq, s)
               /\ Len(s) = Len(List) - 1
               /\ \A j \in 1 .. Len(List) - 1 : s[j] = IF j < k THEN List[j] ELSE List[j + 1]
               /\ {s[j] : j \in 1 .. Len(s)} = Members \ {List[k]}
               /\ \A t \in Tasks : t \notin Members => l.next[t] = links.next[t] /\ l.prev[t] = links.prev[t]
<1> DEFINE l == QUEUE_REMOVE(links, List[k])
           s == Without(List, k)
<1>0. wq \in Nodes /\ Tasks \subseteq Nodes /\ wq \notin Tasks /\ Tasks \cup {exit_message} \subseteq Nodes
  BY DEF Nodes
<1>1. List \in Seq(Tasks \cup {exit_message})
  BY DEF Shape, ListInv
<1>2. /\ s \in Seq(Tasks \cup {exit_message})
      /\ Len(s) = Len(List) - 1
      /\ \A j \in 1 .. Len(List) - 1 : s[j] = IF j < k THEN List[j] ELSE List[j + 1]
  BY <1>1, WithoutProperties
<1>3. s \in Seq(Nodes)
  BY <1>0, <1>2, SeqMonotonic
<1>4. /\ l \in Links(Nodes, NULL) /\ IsList(l, wq, s)
      /\ \A y \in Nodes : y # wq /\ (\A i \in 1 .. Len(List) : List[i] # y)
            => l.next[y] = links.next[y] /\ l.prev[y] = links.prev[y]
  BY <1>0, Listed, RemoveListed
<1> HIDE DEF l, s
<1>5. {s[j] : j \in 1 .. Len(s)} = Members \ {List[k]}
  <2>0. /\ Len(List) \in Nat
        /\ \A i, j \in 1 .. Len(List) : List[i] = List[j] => i = j
    BY Listed
  <2>1. ASSUME NEW j \in 1 .. Len(s) PROVE s[j] \in Members \ {List[k]}
    <3>1. j \in 1 .. Len(List) /\ j + 1 \in 1 .. Len(List) /\ j \in 1 .. Len(List) - 1
      BY <1>2, <2>0
    <3> QED BY <1>2, <2>0, <3>1 DEF Members
  <2>2. ASSUME NEW x \in Members \ {List[k]} PROVE \E j \in 1 .. Len(s) : s[j] = x
    <3>1. PICK i \in 1 .. Len(List) : List[i] = x /\ i # k
      BY <2>2 DEF Members
    <3>2. CASE i < k
      <4>1. i \in 1 .. Len(s) /\ s[i] = x
        BY <1>2, <2>0, <3>1, <3>2
      <4> QED BY <4>1
    <3>3. CASE i > k
      <4>1. i - 1 \in 1 .. Len(s) /\ s[i - 1] = x
        BY <1>2, <2>0, <3>1, <3>3
      <4> QED BY <4>1
    <3> QED BY <3>1, <3>2, <3>3
  <2> QED BY <2>1, <2>2
<1>6. ASSUME NEW t \in Tasks, t \notin Members
      PROVE  l.next[t] = links.next[t] /\ l.prev[t] = links.prev[t]
  <2>1. t \in Nodes /\ t # wq /\ \A i \in 1 .. Len(List) : List[i] # t
    BY <1>0, <1>6, Listed
  <2> QED BY <1>4, <2>1
<1> QED BY <1>2, <1>3, <1>4, <1>5, <1>6 DEF l, s

(* A step that leaves the links alone leaves the list alone.               *)
LEMMA KeepList ==
    ASSUME Shape, UNCHANGED links
    PROVE  List' = List /\ Members' = Members /\ links' \in Links(Nodes, NULL)
BY DEF List, Members, Shape, TypeOK

(* A worker takes the first node off the list and links it to itself.      *)
LEMMA TakeList ==
    ASSUME Shape, NEW q \in Tasks, q = QUEUE_HEAD(links, wq),
           links' = QUEUE_INIT(QUEUE_REMOVE(links, q), q)
    PROVE  /\ links' \in Links(Nodes, NULL)
           /\ Len(List) > 0 /\ q = List[1] /\ q \in Members
           /\ List' \in Seq(Tasks \cup {exit_message}) /\ IsList(links', wq, List')
           /\ Len(List') = Len(List) - 1
           /\ \A j \in 1 .. Len(List) - 1 : List'[j] = List[j + 1]
           /\ Members' = Members \ {q}
           /\ links'.next[q] = q /\ links'.prev[q] = q
           /\ \A t \in Tasks : t \notin Members =>
                 links'.next[t] = links.next[t] /\ links'.prev[t] = links.prev[t]
<1> DEFINE l == QUEUE_REMOVE(links, q)
           s == Without(List, 1)
<1>0. q \in Nodes /\ q # wq /\ wq \in Nodes /\ Tasks \subseteq Nodes
  BY DEF Nodes
<1>1. Len(List) > 0 /\ q = List[1] /\ q \in Members /\ 1 \in 1 .. Len(List)
  BY <1>0, Listed DEF QUEUE_HEAD, QUEUE_EMPTY
<1>2. /\ l \in Links(Nodes, NULL)
      /\ s \in Seq(Tasks \cup {exit_message}) /\ s \in Seq(Nodes) /\ IsList(l, wq, s)
      /\ Len(s) = Len(List) - 1
      /\ \A j \in 1 .. Len(List) - 1 : s[j] = IF j < 1 THEN List[j] ELSE List[j + 1]
      /\ {s[j] : j \in 1 .. Len(s)} = Members \ {q}
      /\ \A t \in Tasks : t \notin Members => l.next[t] = links.next[t] /\ l.prev[t] = links.prev[t]
  BY <1>1, RemoveFromList
<1> HIDE DEF l, s
<1>3. \A i \in 1 .. Len(s) : s[i] # q
  BY <1>2
<1>4. /\ links' \in Links(Nodes, NULL)
      /\ IsList(links', wq, s)
      /\ links'.next[q] = q /\ links'.prev[q] = q
      /\ \A y \in Nodes \ {q} : links'.next[y] = l.next[y] /\ links'.prev[y] = l.prev[y]
  BY <1>0, <1>2, <1>3, InitAside DEF l
<1>5. List' = s
  BY <1>2, <1>4, NextList
<1>6. Members' = Members \ {q}
  <2>1. Members' = {List'[i] : i \in 1 .. Len(List')}
    BY DEF Members
  <2> QED BY <1>2, <1>5, <2>1
<1>7. \A j \in 1 .. Len(List) - 1 : List'[j] = List[j + 1]
  BY <1>2, <1>5
<1>8. \A t \in Tasks : t \notin Members => links'.next[t] = links.next[t] /\ links'.prev[t] = links.prev[t]
  BY <1>0, <1>1, <1>2, <1>4
<1> QED BY <1>1, <1>2, <1>4, <1>5, <1>6, <1>7, <1>8

(* threadpool_cancel takes its task off the list if it is there, and       *)
(* leaves the list alone if a worker was faster.                           *)
LEMMA CancelList ==
    ASSUME Shape, NEW t \in submitted \ cancelled, links' = QUEUE_REMOVE(links, t)
    PROVE  /\ links' \in Links(Nodes, NULL)
           /\ List' \in Seq(Tasks \cup {exit_message}) /\ IsList(links', wq, List')
           /\ Members' = Members \ {t}
           /\ \/ t \notin Members /\ links' = links /\ List' = List
              \/ \E k \in 1 .. Len(List) : List[k] = t /\ List' = Without(List, k)
           /\ \A u \in Tasks : u \notin Members =>
                 links'.next[u] = links.next[u] /\ links'.prev[u] = links.prev[u]
<1>0. t \in Nodes /\ t \in Tasks
  BY DEF Nodes, Shape, TypeOK
<1>1. CASE t \notin Members
  <2>1. links.next[t] = t /\ links.prev[t] = t
    BY <1>1 DEF Shape, ListInv
  <2>2. links' = links
    BY <1>0, <2>1, RemoveAlone, Listed
  <2> QED BY <1>1, <2>2, KeepList, Listed DEF Shape, ListInv
<1>2. CASE t \in Members
  <2>1. PICK k \in 1 .. Len(List) : List[k] = t
    BY <1>2, Listed
  <2> DEFINE s == Without(List, k)
  <2>2. /\ links' \in Links(Nodes, NULL)
        /\ s \in Seq(Tasks \cup {exit_message}) /\ s \in Seq(Nodes) /\ IsList(links', wq, s)
        /\ {s[j] : j \in 1 .. Len(s)} = Members \ {t}
        /\ \A u \in Tasks : u \notin Members =>
              links'.next[u] = links.next[u] /\ links'.prev[u] = links.prev[u]
    BY <2>1, RemoveFromList
  <2> HIDE DEF s
  <2>3. List' = s
    BY <2>2, NextList
  <2>4. Members' = {List'[i] : i \in 1 .. Len(List')}
    BY DEF Members
  <2> QED BY <2>1, <2>2, <2>3, <2>4 DEF s
<1> QED BY <1>1, <1>2
-----------------------------------------------------------------------------
(* The sizes of sets of workers.                                           *)
LEMMA WorkerSets ==
    ASSUME TypeOK, NEW A \in SUBSET Workers, NEW w \in Workers
    PROVE  /\ IsFiniteSet(A)
           /\ Cardinality(A) \in 0 .. nthreads
           /\ w \in A => Cardinality(A \ {w}) = Cardinality(A) - 1 /\ Cardinality(A) > 0
           /\ w \notin A => Cardinality(A \cup {w}) = Cardinality(A) + 1
<1>1. IsFiniteSet(A) /\ Cardinality(A) <= nthreads
  BY PoolFinite, FS_Subset
<1>2. Cardinality(A) \in Nat /\ nthreads \in Nat
  BY <1>1, FS_CardinalityType DEF TypeOK
<1>3. w \in A => Cardinality(A \ {w}) = Cardinality(A) - 1 /\ Cardinality(A) > 0
  BY <1>1, <1>2, FS_RemoveElement, FS_EmptySet
<1>4. w \notin A => Cardinality(A \cup {w}) = Cardinality(A) + 1
  BY <1>1, FS_AddElement
<1> QED BY <1>1, <1>2, <1>3, <1>4

(* The pool begins with an empty list and nobody asleep.                   *)
LEMMA InitIInv == Init => IInv
<1> SUFFICES ASSUME Init PROVE IInv
  OBVIOUS
<1>1. PICK size \in Sizes : threadpool_create(size)
  BY DEF Init
<1>2. nthreads \in 1 .. MAX_THREADPOOL_SIZE /\ Workers = 1 .. PoolSize(size)
  BY <1>1 DEF threadpool_create, PoolSize, Workers
<1>3. links \in Links(Nodes, NULL) /\ links.next[wq] = wq /\ links.prev[wq] = wq
  BY <1>1 DEF threadpool_create, QUEUE_INIT, Links, Nodes
<1>4. TypeOK
  <2>1. work \in [Tasks -> BOOLEAN]
    BY DEF Init
  <2>2. cur \in [Workers -> Tasks \cup {NULL}] /\ pc = [w \in Workers |-> "top"]
    BY <1>1, <1>2 DEF threadpool_create
  <2>3. idle_threads \in 0 .. nthreads /\ spurious \in 0 .. MaxSpurious
    BY <1>1, <1>2 DEF threadpool_create, Init
  <2>4. /\ submitted \subseteq Tasks /\ cancelled \subseteq submitted
        /\ releasing \in BOOLEAN /\ released \in BOOLEAN
        /\ asleep \subseteq Workers
    BY <1>1 DEF threadpool_create, Init
  <2> QED BY <1>2, <1>3, <2>1, <2>2, <2>3, <2>4 DEF TypeOK, Init
<1>5. <<>> \in Seq(Nodes) /\ <<>> \in Seq(Tasks \cup {exit_message}) /\ IsList(links, wq, <<>>)
  BY <1>3 DEF IsList, Ring
<1>6. List = <<>> /\ Members = {}
  <2>1. wq \in Nodes
    BY DEF Nodes
  <2>2. List = <<>>
    BY <1>5, <2>1, PoolFinite, ListWellLinked DEF List
  <2> QED BY <2>2 DEF Members
<1>7. cur = [w \in Workers |-> NULL] /\ pc = [w \in Workers |-> "top"] /\ asleep = {} /\ idle_threads = 0
  BY <1>1, <1>2 DEF threadpool_create
<1>8. ListInv
  BY <1>5, <1>6 DEF ListInv, Init
<1>9. TaskInv
  BY <1>6, <1>7 DEF TaskInv, Taken, Init, Nodes
<1>10. WorkerInv
  BY <1>7 DEF WorkerInv
<1>11. ExitInv
  BY <1>6, <1>7 DEF ExitInv, Init
<1>12. WakeInv
  <2>1. Waiting = {}
    BY <1>7 DEF Waiting
  <2> QED BY <1>7, <2>1, FS_EmptySet DEF WakeInv
<1> QED BY <1>4, <1>8, <1>9, <1>10, <1>11, <1>12 DEF IInv, Shape
-----------------------------------------------------------------------------
\* What a worker's critical section leaves alone.
SectionFrame == UNCHANGED <<nthreads, work, submitted, cancelled, runs, releasing, released, spurious>>

\* A worker at the test of its loop: it has locked, or its wait has returned.
AtTest(w, idle) ==
    /\ w \in Alert /\ w \in Workers
    /\ idle = Cardinality(Waiting \ {w})

(* The tasks in the workers' hands when a worker without a task goes on    *)
(* without one.                                                            *)
LEMMA SameTaken ==
    ASSUME UNCHANGED <<cur, nthreads>>
    PROVE  Taken' = Taken /\ Workers' = Workers
BY DEF Taken, Workers

(* Going to sleep: the list is empty and one more worker is idle.          *)
LEMMA SleepsStep ==
    ASSUME IInv, NEW w, NEW idle, AtTest(w, idle), Sleeps(w, idle), SectionFrame
    PROVE  IInv'
<1> USE DEF IInv, SectionFrame
<1>0. /\ List' = List /\ Members' = Members /\ links' = links /\ Len(List) = 0
      /\ Taken' = Taken /\ Workers' = Workers /\ cur' = cur
  BY KeepList, Listed, SameTaken DEF Sleeps
<1>1. /\ w \in Workers /\ pc[w] \in {"top", "waiting"} /\ w \notin asleep
      /\ pc \in [Workers -> {"top", "waiting", "taken", "running", "ran", "exited"}]
      /\ pc' = [pc EXCEPT ![w] = "waiting"] /\ asleep' = asleep \cup {w}
  BY DEF AtTest, Alert, Shape, TypeOK, WakeInv, Waiting, Sleeps
<1>2. Waiting' = (Waiting \ {w}) \cup {w}
  BY <1>0, <1>1 DEF Waiting
<1>3. idle_threads' = Cardinality(Waiting') /\ idle_threads' \in 0 .. nthreads
  <2>1. Waiting \ {w} \in SUBSET Workers /\ Waiting' \in SUBSET Workers
    BY <1>0 DEF Waiting
  <2> QED BY <1>1, <1>2, <2>1, WorkerSets DEF AtTest, Sleeps, Shape
<1>4. TypeOK'
  BY <1>0, <1>1, <1>3 DEF Shape, TypeOK
<1>5. ListInv' /\ TaskInv'
  BY <1>0 DEF Shape, ListInv, TaskInv
<1>6. WorkerInv' /\ ExitInv'
  BY <1>0, <1>1 DEF WorkerInv, ExitInv
<1>7. WakeInv'
  <2>1. Alert' \in SUBSET Workers
    BY <1>0 DEF Alert
  <2>2. Cardinality(Alert') \in 0 .. nthreads
    BY <1>1, <2>1, WorkerSets DEF Shape
  <2>3. nthreads \in Nat
    BY DEF Shape, TypeOK
  <2> QED BY <1>0, <1>1, <1>2, <1>3, <2>2, <2>3 DEF WakeInv, Waiting
<1> QED BY <1>4, <1>5, <1>6, <1>7 DEF Shape

(* Seeing the exit message: nothing is in front of it, and the signal that *)
(* is passed on wakes one more worker for it.                              *)
LEMMA SeesExitStep ==
    ASSUME IInv, NEW w, NEW idle, AtTest(w, idle), SeesExit(w, idle), SectionFrame
    PROVE  IInv'
<1> USE DEF IInv, SectionFrame
<1>0. /\ List' = List /\ Members' = Members /\ links' = links
      /\ Taken' = Taken /\ Workers' = Workers /\ cur' = cur
  BY KeepList, SameTaken DEF SeesExit
<1>1. /\ w \in Workers /\ pc[w] \in {"top", "waiting"} /\ w \notin asleep
      /\ pc \in [Workers -> {"top", "waiting", "taken", "running", "ran", "exited"}]
      /\ pc' = [pc EXCEPT ![w] = "exited"] /\ asleep \subseteq Waiting /\ asleep' \subseteq asleep
  BY DEF AtTest, Alert, Shape, TypeOK, WakeInv, Waiting, SeesExit, cond_signal
<1>2. Len(List) = 1 /\ releasing
  <2>1. Len(List) \in Nat /\ Len(List) > 0 /\ List[1] = exit_message
    BY Listed DEF SeesExit, QUEUE_HEAD, QUEUE_EMPTY
  <2>2. releasing /\ List[Len(List)] = exit_message
    BY <2>1, Listed DEF ExitInv
  <2>3. 1 \in 1 .. Len(List) /\ Len(List) \in 1 .. Len(List)
    BY <2>1
  <2> QED BY <2>1, <2>2, <2>3, Listed
<1>3. Waiting' = Waiting \ {w}
  BY <1>0, <1>1 DEF Waiting
<1>4. idle_threads' = Cardinality(Waiting') /\ idle_threads' \in 0 .. nthreads
  <2>1. Waiting \ {w} \in SUBSET Workers
    BY DEF Waiting
  <2> QED BY <1>1, <1>3, <2>1, WorkerSets DEF AtTest, SeesExit, Shape
<1>5. TypeOK'
  BY <1>0, <1>1, <1>4 DEF Shape, TypeOK
<1>6. ListInv' /\ TaskInv'
  BY <1>0 DEF Shape, ListInv, TaskInv
<1>7. WorkerInv' /\ ExitInv'
  BY <1>0, <1>1, <1>2 DEF WorkerInv, ExitInv
<1>8. WakeInv'
  <2>1. asleep' \subseteq Waiting'
    BY <1>1, <1>3
  <2>2. ASSUME asleep' # {} PROVE Cardinality(Alert') >= 1
    <3>1. PICK v \in asleep : asleep' = asleep \ {v}
      BY <2>2 DEF SeesExit, cond_signal
    <3>2. v \in Alert' /\ Alert' \in SUBSET Workers /\ v \in Workers
      BY <1>0, <1>1, <3>1 DEF Alert, Waiting
    <3>3. Cardinality(Alert') \in 0 .. nthreads /\ Cardinality(Alert') > 0
      BY <3>2, WorkerSets DEF Shape
    <3>4. nthreads \in Nat
      BY DEF Shape, TypeOK
    <3> QED BY <3>3, <3>4
  <2> QED BY <1>0, <1>2, <1>4, <2>1, <2>2 DEF WakeInv
<1> QED BY <1>5, <1>6, <1>7, <1>8 DEF Shape

(* Taking a task: one task and one worker fewer.                           *)
LEMMA TakesTaskStep ==
    ASSUME IInv, NEW w, NEW idle, AtTest(w, idle), TakesTask(w, idle), SectionFrame
    PROVE  IInv'
<1> USE DEF IInv, SectionFrame
<1> DEFINE q == QUEUE_HEAD(links, wq)
<1>0. /\ q \in Tasks /\ links' = QUEUE_INIT(QUEUE_REMOVE(links, q), q)
      /\ cur' = [cur EXCEPT ![w] = q] /\ pc' = [pc EXCEPT ![w] = "taken"]
      /\ idle_threads' = idle /\ asleep' = asleep /\ Workers' = Workers
  BY DEF TakesTask, Workers
<1>1. /\ w \in Workers /\ pc[w] \in {"top", "waiting"} /\ w \notin asleep /\ cur[w] = NULL
      /\ pc \in [Workers -> {"top", "waiting", "taken", "running", "ran", "exited"}]
      /\ cur \in [Workers -> Tasks \cup {NULL}]
  BY DEF AtTest, Alert, Shape, TypeOK, WakeInv, Waiting, WorkerInv
<1>2. /\ links' \in Links(Nodes, NULL)
      /\ Len(List) > 0 /\ q = List[1] /\ q \in Members
      /\ List' \in Seq(Tasks \cup {exit_message}) /\ IsList(links', wq, List')
      /\ Len(List') = Len(List) - 1
      /\ \A j \in 1 .. Len(List) - 1 : List'[j] = List[j + 1]
      /\ Members' = Members \ {q}
      /\ links'.next[q] = q /\ links'.prev[q] = q
      /\ \A t \in Tasks : t \notin Members =>
            links'.next[t] = links.next[t] /\ links'.prev[t] = links.prev[t]
  <2> HIDE DEF q
  <2>1. q = QUEUE_HEAD(links, wq)
    BY DEF q
  <2> QED BY <1>0, <2>1, TakeList
<1> HIDE DEF q
<1>3. q \in submitted \ cancelled /\ q \notin Taken /\ work[q] /\ runs[q] = 0 /\ q # NULL /\ q # exit_message
  BY <1>0, <1>2 DEF TaskInv, Nodes
<1>4. \A t \in Tasks : t \in Taken' <=> t \in Taken \/ t = q
  BY <1>0, <1>1 DEF Taken, Nodes
<1>5. Waiting' = Waiting \ {w} /\ Alert' = Alert \ {w}
  BY <1>0, <1>1 DEF Waiting, Alert
<1>6. idle_threads' = Cardinality(Waiting') /\ idle_threads' \in 0 .. nthreads
  <2>1. Waiting \ {w} \in SUBSET Workers
    BY DEF Waiting
  <2> QED BY <1>0, <1>1, <1>5, <2>1, WorkerSets DEF AtTest, Shape
<1>7. TypeOK'
  BY <1>0, <1>1, <1>2, <1>6 DEF Shape, TypeOK
<1>8. ListInv'
  BY <1>2, <1>3 DEF Shape, ListInv, TypeOK
<1>9. TaskInv'
  BY <1>2, <1>3, <1>4 DEF TaskInv, Shape, TypeOK
<1>10. WorkerInv'
  <2>1. \A v \in Workers : cur[v] # q
    BY <1>3 DEF Taken
  <2> QED BY <1>0, <1>1, <1>3, <2>1 DEF WorkerInv
<1>11. ExitInv'
  <2>1. ASSUME releasing PROVE Len(List') > 0 /\ List'[Len(List')] = exit_message
    <3>1. Len(List) \in Nat /\ List[Len(List)] = exit_message /\ Len(List) # 1
      BY <2>1, <1>2, <1>3, Listed DEF ExitInv
    <3> QED BY <1>2, <3>1
  <2>2. \A v \in Workers : pc[v] # "exited"
    <3> SUFFICES ASSUME NEW v \in Workers, pc[v] = "exited" PROVE FALSE
      OBVIOUS
    <3>1. Len(List) = 1 /\ List[1] = exit_message
      BY DEF ExitInv
    <3> QED BY <1>2, <1>3, <3>1
  <2> QED BY <1>0, <1>1, <1>2, <1>3, <2>1, <2>2 DEF ExitInv
<1>12. WakeInv'
  <2>1. Alert \in SUBSET Workers /\ w \in Alert
    BY DEF Alert, AtTest
  <2>2. Cardinality(Alert) \in Nat /\ Cardinality(Alert') = Cardinality(Alert) - 1
    BY <1>1, <1>5, <2>1, WorkerSets DEF Shape
  <2>3. Len(List) \in Nat
    BY Listed
  <2> QED BY <1>0, <1>1, <1>2, <1>5, <1>6, <2>2, <2>3 DEF WakeInv
<1> QED BY <1>7, <1>8, <1>9, <1>10, <1>11, <1>12 DEF Shape
-----------------------------------------------------------------------------
(* A worker's critical section, entered from either side.                  *)
LEMMA SectionStep ==
    ASSUME IInv, NEW w \in Workers, WorkerLocks(w) \/ WorkerWakes(w)
    PROVE  IInv'
<1>1. Waiting \in SUBSET Workers
  BY DEF Waiting
<1>2. TypeOK
  BY DEF IInv, Shape
<1>3. ASSUME NEW idle, AtTest(w, idle), WorkerSection(w, idle) PROVE IInv'
  BY <1>3, SleepsStep, SeesExitStep, TakesTaskStep DEF WorkerSection, SectionFrame
<1>4. CASE WorkerLocks(w)
  <2>1. w \in Alert /\ w \notin Waiting
    BY <1>4 DEF WorkerLocks, Alert, Waiting
  <2>2. Waiting \ {w} = Waiting
    BY <2>1
  <2>3. AtTest(w, idle_threads)
    BY <2>1, <2>2 DEF AtTest, IInv, WakeInv
  <2> QED BY <1>3, <1>4, <2>3 DEF WorkerLocks
<1>5. CASE WorkerWakes(w)
  <2>1. w \in Alert /\ w \in Waiting
    BY <1>5 DEF WorkerWakes, Alert, Waiting
  <2>2. Cardinality(Waiting \ {w}) = Cardinality(Waiting) - 1
    BY <1>1, <1>2, <2>1, WorkerSets
  <2>3. AtTest(w, idle_threads - 1)
    BY <2>1, <2>2 DEF AtTest, IInv, WakeInv
  <2> QED BY <1>3, <1>5, <2>3 DEF WorkerWakes
<1> QED BY <1>4, <1>5

(* Outside the mutex a worker stays out of sight of the others: it is      *)
(* neither waiting nor about to look at the list.                          *)
LEMMA BusyStep ==
    ASSUME IInv, NEW w \in Workers, pc[w] \in {"taken", "running", "ran"},
           NEW l \in {"running", "ran"}, pc' = [pc EXCEPT ![w] = l],
           UNCHANGED <<nthreads, idle_threads, links, asleep, releasing, released>>
    PROVE  Workers' = Workers /\ List' = List /\ Members' = Members /\ ExitInv' /\ WakeInv'
<1>1. Workers' = Workers
  BY DEF Workers
<1>2. List' = List /\ Members' = Members
  BY KeepList DEF IInv
<1>3. pc \in [Workers -> {"top", "waiting", "taken", "running", "ran", "exited"}]
  BY DEF IInv, Shape, TypeOK
<1>4. ExitInv'
  BY <1>1, <1>2, <1>3 DEF ExitInv, IInv
<1>5. Waiting' = Waiting /\ Alert' = Alert
  BY <1>1, <1>3 DEF Waiting, Alert
<1>6. WakeInv'
  BY <1>2, <1>5 DEF WakeInv, IInv
<1> QED BY <1>1, <1>2, <1>4, <1>6

(* Calling the function: nobody else has called it or has the task.        *)
LEMMA CallsStep ==
    ASSUME IInv, NEW w \in Workers, WorkerCalls(w)
    PROVE  IInv'
<1> DEFINE t == cur[w]
<1>0. /\ pc[w] = "taken" /\ pc' = [pc EXCEPT ![w] = "running"]
      /\ runs' = [runs EXCEPT ![t] = @ + 1]
      /\ UNCHANGED <<nthreads, idle_threads, links, work, asleep, cur, submitted, cancelled,
                     releasing, released, spurious>>
  BY DEF WorkerCalls
<1>1. t \in Tasks /\ t \in Taken /\ t # NULL /\ runs[t] = 0
  BY <1>0 DEF IInv, Shape, TypeOK, WorkerInv, Taken
<1>2. Workers' = Workers /\ List' = List /\ Members' = Members /\ ExitInv' /\ WakeInv'
  BY <1>0, BusyStep
<1>3. Taken' = Taken
  BY <1>0, SameTaken
<1>4. /\ pc \in [Workers -> {"top", "waiting", "taken", "running", "ran", "exited"}]
      /\ runs \in [Tasks -> Nat]
  BY DEF IInv, Shape, TypeOK
<1>5. TypeOK'
  BY <1>0, <1>1, <1>2, <1>4 DEF IInv, Shape, TypeOK
<1>6. ListInv'
  BY <1>0, <1>2 DEF IInv, Shape, ListInv
<1>7. WorkerInv'
  <2>1. \A v \in Workers : v # w => cur[v] # t
    BY <1>1 DEF IInv, WorkerInv
  <2>2. \A v \in Workers : v # w /\ cur[v] # NULL => runs'[cur[v]] = runs[cur[v]]
    BY <1>0, <1>4, <2>1 DEF IInv, Shape, TypeOK
  <2>3. runs'[t] = 1
    BY <1>0, <1>1, <1>4
  <2>4. \A v \in Workers : pc[v] \in {"taken", "running", "ran"} => cur[v] # NULL
    BY DEF IInv, WorkerInv
  <2> HIDE DEF t
  <2>5. cur'[w] = t
    BY <1>0 DEF t
  <2> QED BY <1>0, <1>2, <1>4, <2>2, <2>3, <2>4, <2>5 DEF IInv, WorkerInv
<1>8. TaskInv'
  <2> HIDE DEF t
  <2>1. \A u \in Tasks : u \notin Taken => runs'[u] = runs[u]
    BY <1>0, <1>1, <1>4
  <2> QED BY <1>0, <1>2, <1>3, <2>1 DEF IInv, TaskInv, Shape, TypeOK
<1> QED BY <1>2, <1>5, <1>6, <1>7, <1>8 DEF IInv, Shape

(* The function returns.                                                   *)
LEMMA ReturnsStep ==
    ASSUME IInv, NEW w \in Workers, WorkReturns(w)
    PROVE  IInv'
<1>0. /\ pc[w] = "running" /\ pc' = [pc EXCEPT ![w] = "ran"]
      /\ UNCHANGED <<nthreads, idle_threads, links, work, asleep, cur, submitted, cancelled, runs,
                     releasing, released, spurious>>
  BY DEF WorkReturns
<1>1. Workers' = Workers /\ List' = List /\ Members' = Members /\ ExitInv' /\ WakeInv'
  BY <1>0, BusyStep
<1>2. Taken' = Taken
  BY <1>0, SameTaken
<1>3. pc \in [Workers -> {"top", "waiting", "taken", "running", "ran", "exited"}]
  BY DEF IInv, Shape, TypeOK
<1>4. TypeOK' /\ ListInv'
  BY <1>0, <1>1, <1>3 DEF IInv, Shape, TypeOK, ListInv
<1>5. TaskInv'
  BY <1>0, <1>1, <1>2 DEF IInv, TaskInv
<1>6. WorkerInv'
  BY <1>0, <1>1, <1>3 DEF IInv, WorkerInv
<1> QED BY <1>1, <1>4, <1>5, <1>6 DEF IInv, Shape

(* Clearing task->work: the task is done, its worker will look at the list.*)
LEMMA ClearsStep ==
    ASSUME IInv, NEW w \in Workers, WorkerClears(w)
    PROVE  IInv'
<1> DEFINE t == cur[w]
<1>0. /\ pc[w] = "ran" /\ pc' = [pc EXCEPT ![w] = "top"]
      /\ work' = [work EXCEPT ![t] = FALSE] /\ cur' = [cur EXCEPT ![w] = NULL]
      /\ UNCHANGED <<nthreads, idle_threads, links, asleep, submitted, cancelled, runs, releasing,
                     released, spurious>>
  BY DEF WorkerClears
<1>1. /\ pc \in [Workers -> {"top", "waiting", "taken", "running", "ran", "exited"}]
      /\ cur \in [Workers -> Tasks \cup {NULL}]
      /\ work \in [Tasks -> BOOLEAN]
      /\ NULL \notin Tasks
  BY DEF IInv, Shape, TypeOK, Nodes
<1>2. t \in Tasks /\ t \in Taken /\ t # NULL /\ runs[t] = 1
  BY <1>0, <1>1 DEF IInv, WorkerInv, Taken
<1>3. Workers' = Workers /\ List' = List /\ Members' = Members
  BY <1>0, KeepList DEF IInv, Workers
<1>4. \A u \in Tasks : u \in Taken' <=> u \in Taken /\ u # t
  <2>1. \A v \in Workers : v # w => cur[v] # t
    BY <1>2 DEF IInv, WorkerInv
  <2> QED BY <1>0, <1>1, <1>3, <2>1 DEF Taken
<1>5. \A u \in Tasks : work'[u] = IF u = t THEN FALSE ELSE work[u]
  BY <1>0, <1>1
<1>6. TypeOK'
  BY <1>0, <1>1, <1>3 DEF IInv, Shape, TypeOK
<1>7. ListInv'
  BY <1>0, <1>3 DEF IInv, Shape, ListInv
<1>8. TaskInv'
  <2> HIDE DEF t
  <2>1. submitted \subseteq Tasks
    BY DEF IInv, Shape, TypeOK
  <2>2. \A u \in Tasks \cap Members' : /\ u \in (submitted \ cancelled)' /\ u \notin Taken'
                                       /\ work'[u] /\ runs'[u] = 0
    BY <1>0, <1>2, <1>3, <1>4, <1>5 DEF IInv, TaskInv
  <2>3. \A u \in Tasks \ submitted' : u \notin Taken' /\ runs'[u] = 0
    BY <1>0, <1>4 DEF IInv, TaskInv
  <2>4. \A u \in (submitted \ cancelled)' : u \notin Members' \cup Taken' => runs'[u] = 1 /\ ~work'[u]
    BY <1>0, <1>2, <1>3, <1>4, <1>5, <2>1 DEF IInv, TaskInv
  <2> QED BY <2>2, <2>3, <2>4 DEF TaskInv
<1>9. WorkerInv'
  <2>1. \A v \in Workers : v # w => cur[v] # t
    BY <1>2 DEF IInv, WorkerInv
  <2>2. \A v \in Workers : v # w => cur'[v] = cur[v] /\ pc'[v] = pc[v]
    BY <1>0, <1>1
  <2>3. cur'[w] = NULL /\ pc'[w] = "top"
    BY <1>0, <1>1
  <2>4. \A v \in Workers : v # w /\ cur[v] # NULL => work'[cur[v]] = work[cur[v]]
    BY <1>1, <1>5, <2>1
  <2> HIDE DEF t
  <2>5. \A v \in Workers : cur'[v] = NULL <=> pc'[v] \in {"top", "waiting", "exited"}
    BY <2>2, <2>3 DEF IInv, WorkerInv
  <2>6. \A v, x \in Workers : cur'[v] = cur'[x] /\ cur'[v] # NULL => v = x
    BY <2>2, <2>3 DEF IInv, WorkerInv
  <2>7. ASSUME NEW v \in Workers, pc'[v] \in {"taken", "running", "ran"}
        PROVE  /\ pc'[v] = "taken" => work'[cur'[v]] /\ runs'[cur'[v]] = 0
               /\ pc'[v] \in {"running", "ran"} => runs'[cur'[v]] = 1
    <3>1. v # w /\ cur'[v] = cur[v] /\ pc'[v] = pc[v] /\ runs' = runs
      BY <1>0, <2>2, <2>3, <2>7
    <3>2. work'[cur[v]] = work[cur[v]]
      BY <2>4, <2>7, <3>1 DEF IInv, WorkerInv
    <3>3. pc[v] = "taken" => work[cur[v]] /\ runs[cur[v]] = 0
      BY DEF IInv, WorkerInv
    <3>4. pc[v] \in {"running", "ran"} => runs[cur[v]] = 1
      BY DEF IInv, WorkerInv
    <3> QED BY <3>1, <3>2, <3>3, <3>4
  <2> QED BY <1>3, <2>5, <2>6, <2>7 DEF WorkerInv
<1>10. ExitInv'
  BY <1>0, <1>1, <1>3 DEF IInv, ExitInv
<1>11. WakeInv'
  <2>1. Waiting' = Waiting
    BY <1>0, <1>1, <1>3 DEF Waiting
  <2>2. w \notin Alert /\ Alert' = Alert \cup {w} /\ Alert \in SUBSET Workers
    BY <1>0, <1>1, <1>3 DEF Alert
  <2>3. TypeOK
    BY DEF IInv, Shape
  <2>4. Cardinality(Alert') = Cardinality(Alert) + 1 /\ Cardinality(Alert) \in 0 .. nthreads
    BY <2>2, <2>3, WorkerSets
  <2>5. Len(List) \in Nat /\ nthreads \in Nat
    BY <2>3, Listed DEF IInv, TypeOK
  <2> QED BY <1>0, <1>3, <2>1, <2>4, <2>5 DEF IInv, WakeInv
<1> QED BY <1>6, <1>7, <1>8, <1>9, <1>10, <1>11 DEF IInv, Shape

(* A spurious wakeup only adds a worker that looks at the list.            *)
LEMMA SpuriousStep ==
    ASSUME IInv, NEW w \in Workers, SpuriousWakeup(w)
    PROVE  IInv'
<1>0. /\ w \in asleep /\ asleep' = asleep \ {w}
      /\ UNCHANGED <<nthreads, idle_threads, links, work, pc, cur, submitted, cancelled, runs,
                     releasing, released>>
  BY DEF SpuriousWakeup
<1>1. Workers' = Workers /\ Taken' = Taken /\ List' = List /\ Members' = Members
  BY <1>0, KeepList, SameTaken DEF IInv
<1>2. spurious' \in 0 .. MaxSpurious
  BY DEF SpuriousWakeup, IInv, Shape, TypeOK
<1>3. TypeOK' /\ ListInv'
  BY <1>0, <1>1, <1>2 DEF IInv, Shape, TypeOK, ListInv
<1>4. TaskInv'
  BY <1>0, <1>1 DEF IInv, TaskInv
<1>5. WorkerInv' /\ ExitInv'
  BY <1>0, <1>1 DEF IInv, WorkerInv, ExitInv
<1>6. WakeInv'
  <2>1. Waiting' = Waiting
    BY <1>0, <1>1 DEF Waiting
  <2>2. w \notin Alert /\ Alert' = Alert \cup {w} /\ Alert \in SUBSET Workers
    BY <1>0, <1>1 DEF Alert, IInv, WakeInv, Waiting
  <2>3. TypeOK
    BY DEF IInv, Shape
  <2>4. Cardinality(Alert') = Cardinality(Alert) + 1 /\ Cardinality(Alert) \in 0 .. nthreads
    BY <2>2, <2>3, WorkerSets
  <2>5. Len(List) \in Nat /\ nthreads \in Nat
    BY <2>3, Listed DEF IInv, TypeOK
  <2> QED BY <1>0, <1>1, <2>1, <2>4, <2>5 DEF IInv, WakeInv
<1> QED BY <1>3, <1>4, <1>5, <1>6 DEF IInv, Shape
-----------------------------------------------------------------------------
(* The signal of post: if a worker stays asleep, another one was woken for *)
(* the node that was posted.                                               *)
LEMMA PostWakes ==
    ASSUME IInv, NEW q \in Tasks \cup {exit_message}, q \notin Members, post(q),
           UNCHANGED <<nthreads, idle_threads, pc>>
    PROVE  WakeInv' /\ asleep' \subseteq Workers'
<1>1. Workers' = Workers
  BY DEF Workers
<1>2. Waiting' = Waiting
  BY <1>1 DEF Waiting
<1>3. asleep' \subseteq asleep /\ asleep \subseteq Waiting /\ Waiting \in SUBSET Workers
  BY DEF post, cond_signal, IInv, WakeInv, Waiting
<1>4. Len(List') = Len(List) + 1 /\ Len(List) \in Nat
  BY PostList, Listed DEF post, IInv
<1>5. TypeOK
  BY DEF IInv, Shape
<1>6. ASSUME asleep' # {} PROVE Len(List') <= Cardinality(Alert')
  <2>1. PICK u \in Workers : u \in Waiting /\ u \in asleep
    BY <1>3, <1>6
  <2>2. idle_threads > 0
    BY <1>3, <1>5, <2>1, WorkerSets DEF IInv, WakeInv
  <2>3. PICK v \in asleep : asleep' = asleep \ {v}
    BY <1>6, <2>1, <2>2 DEF post, cond_signal
  <2>4. v \in Workers /\ v \notin Alert /\ Alert' = Alert \cup {v} /\ Alert \in SUBSET Workers
    BY <1>1, <1>3, <2>3 DEF Alert, Waiting
  <2>5. Cardinality(Alert') = Cardinality(Alert) + 1 /\ Cardinality(Alert) \in 0 .. nthreads
    BY <1>5, <2>4, WorkerSets
  <2>6. nthreads \in Nat
    BY <1>5 DEF TypeOK
  <2>7. Len(List) <= Cardinality(Alert)
    BY <2>1 DEF IInv, WakeInv
  <2> QED BY <1>4, <2>5, <2>6, <2>7
<1> QED BY <1>1, <1>2, <1>3, <1>6 DEF IInv, WakeInv

(* threadpool_submit: the task was nowhere before.                         *)
LEMMA SubmitStep ==
    ASSUME IInv, NEW t \in Tasks, threadpool_submit(t)
    PROVE  IInv'
<1>0. /\ ~releasing /\ t \notin submitted /\ work[t] /\ post(t)
      /\ links' = QUEUE_INSERT_TAIL(links, wq, t)
      /\ submitted' = submitted \cup {t}
      /\ UNCHANGED <<nthreads, idle_threads, work, pc, cur, cancelled, runs, releasing, released,
                     spurious>>
  BY DEF threadpool_submit, post
<1>1. t \notin Members /\ t \notin Taken /\ runs[t] = 0 /\ t # exit_message /\ t \notin cancelled
  BY <1>0 DEF IInv, TaskInv, Shape, TypeOK
<1>2. Workers' = Workers /\ Taken' = Taken
  BY <1>0, SameTaken
<1>3. /\ links' \in Links(Nodes, NULL)
      /\ List' \in Seq(Tasks \cup {exit_message}) /\ IsList(links', wq, List')
      /\ Members' = Members \cup {t}
      /\ \A u \in Tasks : u \notin Members \cup {t} =>
            links'.next[u] = links.next[u] /\ links'.prev[u] = links.prev[u]
  BY <1>0, <1>1, PostList DEF IInv
<1>4. WakeInv' /\ asleep' \subseteq Workers'
  BY <1>0, <1>1, PostWakes
<1>5. TypeOK'
  BY <1>0, <1>2, <1>3, <1>4 DEF IInv, Shape, TypeOK
<1>6. ListInv'
  <2>1. submitted \subseteq Tasks
    BY DEF IInv, Shape, TypeOK
  <2> QED BY <1>0, <1>3, <2>1 DEF IInv, Shape, ListInv
<1>7. TaskInv'
  BY <1>0, <1>1, <1>2, <1>3 DEF IInv, TaskInv
<1>8. WorkerInv'
  BY <1>0, <1>2 DEF IInv, WorkerInv
<1>9. ExitInv'
  BY <1>0, <1>1, <1>2, <1>3 DEF IInv, ExitInv
<1> QED BY <1>4, <1>5, <1>6, <1>7, <1>8, <1>9 DEF IInv, Shape

(* threadpool_cancel: whether or not a worker was faster, the other tasks  *)
(* stay in line.                                                           *)
LEMMA CancelStep ==
    ASSUME IInv, NEW t \in Tasks, threadpool_cancel(t)
    PROVE  IInv'
<1>0. /\ ~releasing /\ t \in submitted \ cancelled /\ links' = QUEUE_REMOVE(links, t)
      /\ cancelled' = cancelled \cup {t}
      /\ UNCHANGED <<nthreads, idle_threads, work, asleep, pc, cur, submitted, runs, releasing,
                     released, spurious>>
  BY DEF threadpool_cancel
<1>1. Workers' = Workers /\ Taken' = Taken
  BY <1>0, SameTaken
<1>2. /\ links' \in Links(Nodes, NULL)
      /\ List' \in Seq(Tasks \cup {exit_message}) /\ IsList(links', wq, List')
      /\ Members' = Members \ {t}
      /\ \A u \in Tasks : u \notin Members =>
            links'.next[u] = links.next[u] /\ links'.prev[u] = links.prev[u]
  BY <1>0, CancelList DEF IInv
<1>3. Len(List') \in Nat /\ Len(List') <= Len(List) /\ Len(List) \in Nat
  <2>1. Len(List) \in Nat /\ List \in Seq(Nodes)
    BY Listed DEF IInv
  <2>2. CASE List' = List
    BY <2>1, <2>2
  <2>3. CASE \E k \in 1 .. Len(List) : List[k] = t /\ List' = Without(List, k)
    <3>1. PICK k \in 1 .. Len(List) : List' = Without(List, k)
      BY <2>3
    <3>2. Len(List') = Len(List) - 1
      BY <2>1, <3>1, WithoutProperties
    <3> QED BY <2>1, <3>1, <3>2
  <2> QED BY <1>0, <2>2, <2>3, CancelList DEF IInv
<1>4. TypeOK'
  BY <1>0, <1>1, <1>2 DEF IInv, Shape, TypeOK
<1>5. ListInv'
  <2>1. submitted \subseteq Tasks
    BY DEF IInv, Shape, TypeOK
  <2> QED BY <1>0, <1>2, <2>1 DEF IInv, Shape, ListInv
<1>6. TaskInv'
  BY <1>0, <1>1, <1>2 DEF IInv, TaskInv
<1>7. WorkerInv'
  BY <1>0, <1>1 DEF IInv, WorkerInv
<1>8. ExitInv'
  BY <1>0, <1>1, <1>2 DEF IInv, ExitInv
<1>9. WakeInv'
  <2>1. Waiting' = Waiting /\ Alert' = Alert
    BY <1>0, <1>1 DEF Waiting, Alert
  <2>2. Alert \in SUBSET Workers /\ TypeOK /\ 1 \in Workers
    BY DEF Alert, IInv, Shape, TypeOK, Workers
  <2>3. Cardinality(Alert) \in 0 .. nthreads
    BY <2>2, WorkerSets
  <2>4. nthreads \in Nat
    BY <2>2 DEF TypeOK
  <2> QED BY <1>0, <1>3, <2>1, <2>3, <2>4 DEF IInv, WakeInv
<1> QED BY <1>4, <1>5, <1>6, <1>7, <1>8, <1>9 DEF IInv, Shape

(* threadpool_release posts the exit message behind the last task.         *)
LEMMA ReleasePostsStep ==
    ASSUME IInv, ReleasePosts
    PROVE  IInv'
<1>0. /\ ~releasing /\ releasing' = TRUE /\ post(exit_message)
      /\ links' = QUEUE_INSERT_TAIL(links, wq, exit_message)
      /\ UNCHANGED <<nthreads, idle_threads, work, pc, cur, submitted, cancelled, runs, released,
                     spurious>>
  BY DEF ReleasePosts, post
<1>1. exit_message \notin Members /\ exit_message \notin Tasks /\ exit_message \in Tasks \cup {exit_message}
  BY <1>0 DEF IInv, ExitInv
<1>2. Workers' = Workers /\ Taken' = Taken
  BY <1>0, SameTaken
<1>3. /\ links' \in Links(Nodes, NULL)
      /\ List' \in Seq(Tasks \cup {exit_message}) /\ IsList(links', wq, List')
      /\ Len(List') = Len(List) + 1
      /\ List'[Len(List) + 1] = exit_message
      /\ Members' = Members \cup {exit_message}
      /\ \A u \in Tasks : u \notin Members \cup {exit_message} =>
            links'.next[u] = links.next[u] /\ links'.prev[u] = links.prev[u]
  BY <1>0, <1>1, PostList DEF IInv
<1>4. WakeInv' /\ asleep' \subseteq Workers'
  BY <1>0, <1>1, PostWakes
<1>5. TypeOK'
  BY <1>0, <1>2, <1>3, <1>4 DEF IInv, Shape, TypeOK
<1>6. ListInv'
  <2>1. submitted \subseteq Tasks
    BY DEF IInv, Shape, TypeOK
  <2> QED BY <1>0, <1>1, <1>3, <2>1 DEF IInv, Shape, ListInv
<1>7. TaskInv'
  BY <1>0, <1>1, <1>2, <1>3 DEF IInv, TaskInv
<1>8. WorkerInv'
  BY <1>0, <1>2 DEF IInv, WorkerInv
<1>9. ExitInv'
  <2>1. Len(List) \in Nat
    BY Listed DEF IInv
  <2>2. ~released /\ \A w \in Workers : pc[w] # "exited"
    BY <1>0 DEF IInv, ExitInv
  <2> QED BY <1>0, <1>2, <1>3, <2>1, <2>2 DEF ExitInv
<1> QED BY <1>4, <1>5, <1>6, <1>7, <1>8, <1>9 DEF IInv, Shape

(* threadpool_release returns when every worker is gone; and a step that   *)
(* changes nothing else.                                                   *)
LEMMA ReleaseJoinsStep ==
    ASSUME IInv, ReleaseJoins \/ UNCHANGED vars
    PROVE  IInv'
<1>0. UNCHANGED <<nthreads, idle_threads, links, work, asleep, pc, cur, submitted, cancelled,
                  runs, releasing, spurious>>
  BY DEF ReleaseJoins, vars
<1>1. Workers' = Workers /\ Taken' = Taken /\ List' = List /\ Members' = Members
  BY <1>0, KeepList, SameTaken DEF IInv
<1>2. TypeOK' /\ ListInv'
  BY <1>0, <1>1 DEF IInv, Shape, TypeOK, ListInv, ReleaseJoins, vars
<1>3. TaskInv' /\ WorkerInv'
  BY <1>0, <1>1 DEF IInv, TaskInv, WorkerInv
<1>4. ExitInv'
  BY <1>0, <1>1 DEF IInv, ExitInv, ReleaseJoins, vars
<1>5. WakeInv'
  <2>1. Waiting' = Waiting /\ Alert' = Alert
    BY <1>0, <1>1 DEF Waiting, Alert
  <2> QED BY <1>0, <1>1, <2>1 DEF IInv, WakeInv
<1> QED BY <1>2, <1>3, <1>4, <1>5 DEF IInv, Shape

(* Every step keeps the invariant.                                         *)
LEMMA StepIInv == IInv /\ [Next]_vars => IInv'
<1> SUFFICES ASSUME IInv, [Next]_vars PROVE IInv'
  OBVIOUS
<1>1. ASSUME NEW w \in Workers, WorkerStep(w) \/ SpuriousWakeup(w) PROVE IInv'
  BY <1>1, SectionStep, CallsStep, ReturnsStep, ClearsStep, SpuriousStep DEF WorkerStep
<1>2. ASSUME NEW t \in Tasks, threadpool_submit(t) \/ threadpool_cancel(t) PROVE IInv'
  BY <1>2, SubmitStep, CancelStep
<1>3. CASE ReleasePosts
  BY <1>3, ReleasePostsStep
<1>4. CASE ReleaseJoins \/ Finished \/ UNCHANGED vars
  BY <1>4, ReleaseJoinsStep DEF Finished
<1> QED BY <1>1, <1>2, <1>3, <1>4 DEF Next

(* The invariant holds in every reachable state.                           *)
LEMMA PoolInvariant == Spec => []IInv
BY InitIInv, StepIInv, PTL DEF Spec

(* The list stays a well-linked circular list, for every number of tasks,  *)
(* workers and cancels, although a cancelled node keeps its links into it. *)
THEOREM PoolListIntact == Spec => []ListIntact
<1>1. IInv => ListIntact
  <2> SUFFICES ASSUME IInv PROVE ListIntact
    OBVIOUS
  <2>1. wq \in Nodes
    BY DEF Nodes
  <2>2. WellLinked(links, wq, Cardinality(Nodes))
    BY <2>1, Listed, PoolFinite, ListWellLinked DEF IInv
  <2> QED BY <2>2 DEF ListIntact, IInv, Shape
<1> QED BY <1>1, PoolInvariant, PTL

(* No wakeup is lost: idle_threads counts the workers in cond_wait, and    *)
(* while one sleeps enough others are about to look at the list.           *)
THEOREM PoolNoWorkerForgotten == Spec => []NoWorkerForgotten
<1>1. IInv => NoWorkerForgotten
  BY DEF IInv, WakeInv, NoWorkerForgotten, Waiting, Alert
<1> QED BY <1>1, PoolInvariant, PTL

(* A worker leaves only when the list is drained, and the pool is freed    *)
(* only when each task that was not cancelled has run exactly once.        *)
THEOREM PoolDrainedAtExit == Spec => []DrainedAtExit
<1>1. IInv => DrainedAtExit
  <2> SUFFICES ASSUME IInv PROVE DrainedAtExit
    OBVIOUS
  <2>1. \A w \in Workers : pc[w] = "taken" => work[cur[w]]
    BY DEF IInv, WorkerInv
  <2>2. ASSUME NEW w \in Workers, pc[w] = "exited" PROVE List = <<exit_message>>
    <3>1. Len(List) = 1 /\ List[1] = exit_message
      BY <2>2 DEF IInv, ExitInv
    <3>2. List \in Seq(Nodes) /\ <<exit_message>> \in Seq(Nodes)
      BY Listed DEF IInv, Nodes
    <3> QED BY <3>1, <3>2
  <2>3. ASSUME released, NEW t \in submitted \ cancelled PROVE runs[t] = 1 /\ ~work[t]
    <3>1. releasing /\ \A w \in Workers : pc[w] = "exited"
      BY <2>3 DEF IInv, ExitInv
    <3>2. t \in Tasks /\ t # NULL /\ t # exit_message /\ 1 \in Workers
      BY DEF IInv, Shape, TypeOK, Nodes, Workers
    <3>3. t \notin Taken
      BY <3>1, <3>2 DEF Taken, IInv, WorkerInv
    <3>4. Len(List) = 1 /\ List[1] = exit_message
      BY <3>1, <3>2 DEF IInv, ExitInv
    <3>5. t \notin Members
      BY <3>2, <3>4 DEF Members
    <3> QED BY <3>3, <3>5 DEF IInv, TaskInv
  <2> QED BY <2>1, <2>2, <2>3 DEF DrainedAtExit
<1> QED BY <1>1, PoolInvariant, PTL
-----------------------------------------------------------------------------
(* The refinement: the tasks on the list are the line of TaskPool, and a   *)
(* task has started when a worker has taken it off.                        *)
Started == {t \in Tasks : runs[t] > 0 \/ \E w \in Workers : cur[w] = t}

\* The line is the list without the exit message.
LineIsList ==
    /\ TasksInLine \in Seq(Tasks)
    /\ Len(TasksInLine) = IF releasing THEN Len(List) - 1 ELSE Len(List)
    /\ \A i \in 1 .. Len(TasksInLine) : TasksInLine[i] = List[i] /\ i \in 1 .. Len(List)

(* The exit message is the last node, if it is there.                      *)
LEMMA Line == IInv => LineIsList
<1> SUFFICES ASSUME IInv PROVE LineIsList
  OBVIOUS
<1>0. /\ Len(List) \in Nat
      /\ \A i \in 1 .. Len(List) : List[i] \in Members
      /\ \A i, j \in 1 .. Len(List) : List[i] = List[j] => i = j
      /\ Members \subseteq Tasks \cup {exit_message}
      /\ List \in Seq(Nodes)
  BY Listed DEF IInv
<1>1. List \in Seq(Tasks \cup {exit_message})
  BY DEF IInv, Shape, ListInv
<1>2. CASE releasing
  <2>1. Len(List) > 0 /\ List[Len(List)] = exit_message
    BY <1>2 DEF IInv, ExitInv
  <2>2. TasksInLine = SubSeq(List, 1, Len(List) - 1)
    BY <1>2 DEF TasksInLine
  <2>3. /\ Len(TasksInLine) = Len(List) - 1
        /\ \A i \in 1 .. Len(List) - 1 : TasksInLine[i] = List[i]
        /\ TasksInLine \in Seq(Tasks \cup {exit_message})
    <3> DEFINE n == Len(List) - 1
    <3>1. n \in Nat /\ \A i \in 1 .. n : List[i] \in Tasks \cup {exit_message}
      BY <1>0, <2>1
    <3>2. TasksInLine = SubSeq(List, 1, n) /\ 1 \in Int /\ n \in Int
      BY <2>2, <3>1
    <3> HIDE DEF n
    <3>3. /\ TasksInLine \in Seq(Tasks \cup {exit_message})
          /\ Len(TasksInLine) = IF 1 <= n THEN n - 1 + 1 ELSE 0
          /\ \A i \in 1 .. n - 1 + 1 : TasksInLine[i] = List[1 + i - 1]
      BY <3>1, <3>2, SubSeqProperties
    <3>4. Len(TasksInLine) = n /\ \A i \in 1 .. n : i \in 1 .. n - 1 + 1 /\ 1 + i - 1 = i
      BY <3>1, <3>3
    <3> QED BY <3>3, <3>4 DEF n
  <2>4. \A i \in 1 .. Len(TasksInLine) : i \in 1 .. Len(List) /\ i # Len(List) /\ Len(List) \in 1 .. Len(List)
    BY <1>0, <2>1, <2>3
  <2>5. \A i \in 1 .. Len(TasksInLine) : TasksInLine[i] \in Tasks
    BY <1>0, <2>1, <2>3, <2>4
  <2>6. TasksInLine \in Seq(Tasks)
    BY <2>3, <2>5
  <2> QED BY <1>2, <2>3, <2>4, <2>6 DEF LineIsList
<1>3. CASE ~releasing
  <2>1. TasksInLine = List /\ exit_message \notin Members
    BY <1>3 DEF TasksInLine, IInv, ExitInv
  <2>2. \A i \in 1 .. Len(List) : List[i] \in Tasks
    BY <1>0, <2>1
  <2>3. List \in Seq(Tasks)
    BY <1>1, <2>2
  <2> QED BY <1>3, <2>1, <2>3 DEF LineIsList
<1> QED BY <1>2, <1>3

(* A worker's critical section starts the first task or changes nothing.   *)
LEMMA SectionRefines ==
    ASSUME IInv, NEW w \in Workers, WorkerLocks(w) \/ WorkerWakes(w)
    PROVE  \/ UNCHANGED <<TasksInLine, Started>>
           \/ /\ TasksInLine # <<>>
              /\ TasksInLine' = Tail(TasksInLine)
              /\ Started' = Started \cup {Head(TasksInLine)}
<1>1. /\ pc[w] \in {"top", "waiting"}
      /\ UNCHANGED <<nthreads, runs, releasing>>
      /\ \/ UNCHANGED <<links, cur>>
         \/ LET q == QUEUE_HEAD(links, wq)
            IN  /\ q \in Tasks
                /\ links' = QUEUE_INIT(QUEUE_REMOVE(links, q), q)
                /\ cur' = [cur EXCEPT ![w] = q]
  BY DEF WorkerLocks, WorkerWakes, WorkerSection, Sleeps, SeesExit, TakesTask
<1>2. CASE UNCHANGED <<links, cur>>
  BY <1>1, <1>2, KeepList DEF IInv, TasksInLine, Started, Workers
<1>3. ASSUME NEW q \in Tasks, q = QUEUE_HEAD(links, wq),
             links' = QUEUE_INIT(QUEUE_REMOVE(links, q), q), cur' = [cur EXCEPT ![w] = q]
      PROVE  /\ TasksInLine # <<>>
             /\ TasksInLine' = Tail(TasksInLine)
             /\ Started' = Started \cup {Head(TasksInLine)}
  <2>1. /\ Len(List) > 0 /\ q = List[1] /\ Len(List) \in Nat
        /\ Len(List') = Len(List) - 1
        /\ \A j \in 1 .. Len(List) - 1 : List'[j] = List[j + 1]
    BY <1>3, TakeList, Listed DEF IInv
  <2>2. IInv'
    BY SectionStep
  <2>3. /\ TasksInLine \in Seq(Tasks)
        /\ Len(TasksInLine) = IF releasing THEN Len(List) - 1 ELSE Len(List)
        /\ \A i \in 1 .. Len(TasksInLine) : TasksInLine[i] = List[i] /\ i \in 1 .. Len(List)
    BY Line DEF LineIsList
  <2>4. /\ TasksInLine' \in Seq(Tasks)
        /\ Len(TasksInLine') = IF releasing THEN Len(List') - 1 ELSE Len(List')
        /\ \A i \in 1 .. Len(TasksInLine') : TasksInLine'[i] = List'[i] /\ i \in 1 .. Len(List')
    <3>1. releasing' = releasing
      BY <1>1
    <3>2. LineIsList'
      BY <2>2, Line, PTL
    <3> QED BY <3>1, <3>2 DEF LineIsList
  <2>5. Len(TasksInLine) > 0
    <3>1. ASSUME releasing, Len(List) = 1 PROVE FALSE
      BY <1>3, <2>1, <3>1 DEF IInv, ExitInv
    <3> QED BY <2>1, <2>3, <3>1
  <2>6. /\ Head(TasksInLine) = q /\ TasksInLine # <<>>
        /\ Tail(TasksInLine) \in Seq(Tasks) /\ Len(Tail(TasksInLine)) = Len(TasksInLine) - 1
        /\ \A i \in 1 .. Len(TasksInLine) - 1 : Tail(TasksInLine)[i] = TasksInLine[i + 1]
    BY <2>1, <2>3, <2>5
  <2>7. TasksInLine' = Tail(TasksInLine)
    <3>1. Len(TasksInLine') = Len(Tail(TasksInLine))
      BY <2>1, <2>3, <2>4, <2>6
    <3>2. ASSUME NEW i \in 1 .. Len(TasksInLine') PROVE TasksInLine'[i] = Tail(TasksInLine)[i]
      <4>1. i \in 1 .. Len(TasksInLine) - 1 /\ i + 1 \in 1 .. Len(TasksInLine) /\ i \in 1 .. Len(List) - 1
        BY <2>1, <2>3, <2>4
      <4> QED BY <2>1, <2>3, <2>4, <2>6, <4>1
    <3> QED BY <2>4, <2>6, <3>1, <3>2, SeqEqual
  <2>8. Started' = Started \cup {q}
    <3>1. cur[w] = NULL /\ NULL \notin Tasks /\ cur \in [Workers -> Tasks \cup {NULL}] /\ Workers' = Workers
      BY <1>1 DEF IInv, WorkerInv, Shape, TypeOK, Nodes, Workers
    <3> QED BY <1>1, <1>3, <3>1 DEF Started
  <2> QED BY <2>6, <2>7, <2>8
<1> QED BY <1>1, <1>2, <1>3

(* threadpool_submit puts its task at the end of the line.                 *)
LEMMA SubmitRefines ==
    ASSUME IInv, NEW t \in Tasks, threadpool_submit(t)
    PROVE  Abstract!Submit(t)
<1>0. /\ ~releasing /\ t \notin submitted /\ links' = QUEUE_INSERT_TAIL(links, wq, t)
      /\ UNCHANGED <<nthreads, cur, runs, releasing>>
  BY DEF threadpool_submit, post
<1>1. t \notin Members /\ t \notin Taken /\ runs[t] = 0
  BY <1>0 DEF IInv, TaskInv
<1>2. List' = Append(List, t)
  BY <1>0, <1>1, PostList DEF IInv
<1>3. TasksInLine = List /\ TasksInLine' = Append(TasksInLine, t)
  BY <1>0, <1>2 DEF TasksInLine
<1>4. t \notin Abstract!InLine
  BY <1>1, <1>3 DEF Abstract!InLine, Members
<1>5. t \notin Started
  BY <1>1 DEF Started, Taken
<1>6. Started' = Started
  BY <1>0 DEF Started, Workers
<1> QED BY <1>3, <1>4, <1>5, <1>6 DEF Abstract!Submit, Started

(* threadpool_cancel takes its task out of the line, or nothing at all.    *)
LEMMA CancelRefines ==
    ASSUME IInv, NEW t \in Tasks, threadpool_cancel(t)
    PROVE  Abstract!Cancel(t) \/ UNCHANGED <<TasksInLine, Started>>
<1>0. /\ ~releasing /\ t \in submitted \ cancelled /\ links' = QUEUE_REMOVE(links, t)
      /\ UNCHANGED <<nthreads, cur, runs, releasing>>
  BY DEF threadpool_cancel
<1>1. TasksInLine = List /\ TasksInLine' = List'
  BY <1>0 DEF TasksInLine
<1>2. Started' = Started
  BY <1>0 DEF Started, Workers
<1>3. \/ List' = List
      \/ \E k \in 1 .. Len(List) : List[k] = t /\ List' = Without(List, k)
  BY <1>0, CancelList DEF IInv
<1>4. ASSUME NEW k \in 1 .. Len(List), List[k] = t, List' = Without(List, k)
      PROVE  Abstract!Cancel(t)
  BY <1>1, <1>2, <1>4 DEF Abstract!Cancel, Started, Without
<1> QED BY <1>1, <1>2, <1>3, <1>4

(* The exit message is not part of the line.                               *)
LEMMA ReleaseRefines ==
    ASSUME IInv, ReleasePosts
    PROVE  UNCHANGED <<TasksInLine, Started>>
<1>0. /\ ~releasing /\ releasing' /\ links' = QUEUE_INSERT_TAIL(links, wq, exit_message)
      /\ UNCHANGED <<nthreads, cur, runs>>
  BY DEF ReleasePosts, post
<1>1. Started' = Started
  BY <1>0 DEF Started, Workers
<1>2. exit_message \notin Members
  BY <1>0 DEF IInv, ExitInv
<1>3. List' = Append(List, exit_message) /\ Len(List') = Len(List) + 1
  BY <1>0, <1>2, PostList DEF IInv
<1>4. Len(List) \in Nat /\ List \in Seq(Nodes)
  BY Listed DEF IInv
<1>5. \A i \in 1 .. Len(List) : List'[i] = List[i]
  BY <1>3, <1>4, AppendProperties
<1>6. LineIsList /\ LineIsList'
  <2>1. IInv'
    BY ReleasePostsStep
  <2> QED BY <2>1, Line, PTL
<1>7. TasksInLine \in Seq(Tasks) /\ TasksInLine' \in Seq(Tasks) /\ TasksInLine = List
  BY <1>0, <1>6 DEF LineIsList, TasksInLine
<1>8. /\ Len(TasksInLine') = Len(List)
      /\ \A i \in 1 .. Len(List) : TasksInLine'[i] = List[i]
  BY <1>0, <1>3, <1>4, <1>5, <1>6 DEF LineIsList
<1>9. TasksInLine' = TasksInLine
  BY <1>7, <1>8, SeqEqual
<1> QED BY <1>1, <1>9

(* Between taking a task and clearing it a worker changes nothing that     *)
(* TaskPool sees: the task it runs has started already.                    *)
LEMMA BusyRefines ==
    ASSUME IInv, NEW w \in Workers, WorkerCalls(w) \/ WorkReturns(w) \/ WorkerClears(w)
    PROVE  UNCHANGED <<TasksInLine, Started>>
<1>0. UNCHANGED <<nthreads, links, releasing>>
  BY DEF WorkerCalls, WorkReturns, WorkerClears
<1>1. TasksInLine' = TasksInLine /\ Workers' = Workers
  BY <1>0, KeepList DEF IInv, TasksInLine, Workers
<1>2. runs \in [Tasks -> Nat] /\ cur \in [Workers -> Tasks \cup {NULL}] /\ NULL \notin Tasks
  BY DEF IInv, Shape, TypeOK, Nodes
<1>3. CASE WorkerCalls(w)
  <2>1. cur' = cur /\ runs' = [runs EXCEPT ![cur[w]] = @ + 1]
    BY <1>3 DEF WorkerCalls
  <2> QED BY <1>1, <1>2, <2>1 DEF Started
<1>4. CASE WorkReturns(w)
  BY <1>1, <1>4 DEF Started, WorkReturns
<1>5. CASE WorkerClears(w)
  <2>1. runs' = runs /\ cur' = [cur EXCEPT ![w] = NULL] /\ runs[cur[w]] = 1
    BY <1>5 DEF WorkerClears, IInv, WorkerInv
  <2>2. \A t \in Tasks : t = cur[w] => runs[t] > 0
    BY <2>1
  <2> QED BY <1>1, <1>2, <2>1, <2>2 DEF Started
<1> QED BY <1>3, <1>4, <1>5

(* The pool implements TaskPool: tasks start in the order of their         *)
(* submission, each at most once, and a cancel that overtakes or is        *)
(* overtaken by a worker never disturbs another task.                      *)
THEOREM PoolImplementsTaskPool == Spec => ImplementsTaskPool
<1>1. Init => Abstract!Init
  <2> SUFFICES ASSUME Init PROVE Abstract!Init
    OBVIOUS
  <2>1. /\ runs = [t \in Tasks |-> 0] /\ ~releasing
        /\ \A w \in Workers : cur[w] = NULL /\ NULL \notin Tasks
    BY DEF Init, threadpool_create, Workers, Nodes
  <2>2. Started = {}
    BY <2>1 DEF Started
  <2>3. IInv
    BY InitIInv
  <2>4. /\ Members \subseteq Tasks \cup {exit_message} /\ List \in Seq(Nodes) /\ Len(List) \in Nat
        /\ \A i \in 1 .. Len(List) : List[i] \in Members
    BY <2>3, Listed DEF IInv
  <2>5. Members = {}
    BY <2>1, <2>3, <2>4 DEF IInv, TaskInv, ExitInv, Init
  <2>6. List = <<>>
    <3>1. Len(List) = 0
      <4> SUFFICES ASSUME Len(List) # 0 PROVE FALSE
        OBVIOUS
      <4>1. 1 \in 1 .. Len(List)
        BY <2>4
      <4> QED BY <2>4, <2>5, <4>1
    <3> QED BY <2>4, <3>1, EmptySeq
  <2> QED BY <2>1, <2>2, <2>6 DEF Abstract!Init, TasksInLine, Started
<1>2. IInv /\ [Next]_vars => [Abstract!Next]_<<TasksInLine, Started>>
  <2> SUFFICES ASSUME IInv, [Next]_vars PROVE Abstract!Next \/ UNCHANGED <<TasksInLine, Started>>
    OBVIOUS
  <2>1. ASSUME NEW w \in Workers, WorkerStep(w)
        PROVE  Abstract!Next \/ UNCHANGED <<TasksInLine, Started>>
    <3>1. CASE WorkerLocks(w) \/ WorkerWakes(w)
      BY <3>1, SectionRefines DEF Abstract!Next, Abstract!Start, Started
    <3> QED BY <2>1, <3>1, BusyRefines DEF WorkerStep
  <2>2. ASSUME NEW w \in Workers, SpuriousWakeup(w) PROVE UNCHANGED <<TasksInLine, Started>>
    BY <2>2, KeepList DEF SpuriousWakeup, IInv, TasksInLine, Started, Workers
  <2>3. ASSUME NEW t \in Tasks, threadpool_submit(t) \/ threadpool_cancel(t)
        PROVE  Abstract!Next \/ UNCHANGED <<TasksInLine, Started>>
    BY <2>3, SubmitRefines, CancelRefines DEF Abstract!Next
  <2>4. CASE ReleasePosts
    BY <2>4, ReleaseRefines
  <2>5. CASE ReleaseJoins \/ Finished \/ UNCHANGED vars
    BY <2>5, KeepList DEF ReleaseJoins, Finished, vars, IInv, TasksInLine, Started, Workers
  <2> QED BY <2>1, <2>2, <2>3, <2>4, <2>5 DEF Next
<1>3. [][Abstract!Next]_<<TasksInLine, Started>> /\ Abstract!Init => ImplementsTaskPool
  BY DEF ImplementsTaskPool, Abstract!Spec, Started
<1> QED BY <1>1, <1>2, <1>3, PoolInvariant, PTL DEF Spec
=============================================================================
