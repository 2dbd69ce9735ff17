-------------------------------- MODULE Table -------------------------------
(***************************************************************************)
(* The handle table of base/table.c: table_set stores a pointer and hands  *)
(* out a handle for it, an unsigned int that counts up, wraps around and   *)
(* skips 0; a handle lives in the slot that its low bits name.  The table  *)
(* doubles at three quarters of its capacity, copying slot i to slot i.    *)
(*                                                                         *)
(* `live' is the clients' book: the handles they were given and have not   *)
(* deleted, with what they stored.  A table_set that returns 0 (a NULL     *)
(* pointer, or no memory to expand) changes nothing and is no action.      *)
(***************************************************************************)
EXTENDS Integers, FiniteSets

CONSTANTS Ud, NULL,     \* the pointers stored, and NULL
          INIT_SZ,      \* the first capacity, a power of two
          HandleMod,    \* 2^w for handles of w bits
          MaxCap,       \* bound: calloc fails for more slots than this
          MaxLive,      \* bound: handles in the clients' hands at once
          Unique        \* bound: the pointers never stored twice at once

ASSUME TableAssumption ==
    /\ NULL \notin Ud /\ Unique \subseteq Ud
    /\ INIT_SZ \in Nat /\ INIT_SZ >= 4
    /\ HandleMod \in Nat /\ MaxCap \in Nat /\ MaxLive \in Nat
    /\ MaxCap >= INIT_SZ /\ HandleMod >= 2 * MaxCap

VARIABLES last, cap, sz, slots,   \* struct table
          live,                   \* the clients' book
          deleted                 \* table_del has removed something

vars == <<last, cap, sz, slots, live, deleted>>

Handles == 1 .. HandleMod - 1

EmptySlot == [id |-> 0, ud |-> NULL]

table_create ==
    /\ last = 0
    /\ sz = 0
    /\ cap = INIT_SZ
    /\ slots = [i \in 0 .. INIT_SZ - 1 |-> EmptySlot]

Init == table_create /\ live = [h \in {} |-> NULL] /\ deleted = FALSE

\* id & (c - 1), for a power of two c.
hash(c, id) == id % c

\* The n-th handle that ++last yields, 0 left out.
NthHandle(n) == ((last - 1 + n) % (HandleMod - 1)) + 1

MustExpand == 4 * sz >= 3 * cap

table_expand ==
    [i \in 0 .. 2 * cap - 1 |-> IF i < cap THEN slots[i] ELSE EmptySlot]

\* The search without its test.
MutantTakesAny(s, c, n) == n = 1

\* The search of table_set: the first handle whose slot in s is free.
Probes(s, c, n) ==
    /\ s[hash(c, NthHandle(n))].id = 0
    /\ \A m \in 1 .. n - 1 : s[hash(c, NthHandle(m))].id # 0

table_set(ud) ==
    /\ Cardinality(DOMAIN live) < MaxLive
    /\ ud \in Unique => \A i \in 0 .. cap - 1 : slots[i].ud # ud
    /\ MustExpand => 2 * cap <= MaxCap
    /\ cap' = IF MustExpand THEN 2 * cap ELSE cap
    /\ LET s == IF MustExpand THEN table_expand ELSE slots
       IN  \E n \in Handles :
              /\ Probes(s, cap', n)
              /\ last' = NthHandle(n)
              /\ slots' = [s EXCEPT ![hash(cap', NthHandle(n))] = [id |-> NthHandle(n), ud |-> ud]]
              /\ live' = [h \in DOMAIN live \cup {NthHandle(n)} |->
                             IF h = NthHandle(n) THEN ud ELSE live[h]]
    /\ sz' = sz + 1
    /\ UNCHANGED deleted

\* Holds without the comparison of the handle.
MutantAnyHandle(h) == h # 0 /\ sz # 0 /\ slots[hash(cap, h)].id # 0

\* The test that table_get and table_del share.
Holds(h) == h # 0 /\ sz # 0 /\ slots[hash(cap, h)].id = h

table_get(h) == IF Holds(h) THEN slots[hash(cap, h)].ud ELSE NULL

\* table_del without sz--.
MutantForgetsSize(h) ==
    /\ Holds(h)
    /\ slots' = [slots EXCEPT ![hash(cap, h)] = EmptySlot]
    /\ deleted' = TRUE
    /\ live' = [k \in DOMAIN live \ {h} |-> live[k]]
    /\ UNCHANGED <<last, cap, sz>>

\* table_del.  When it returns NULL only the clients' book changes; of a
\* handle that is not even there it changes nothing and is no step.
table_del(h) ==
    /\ Holds(h) \/ h \in DOMAIN live
    /\ \/ /\ Holds(h)
          /\ slots' = [slots EXCEPT ![hash(cap, h)] = EmptySlot]
          /\ sz' = sz - 1
          /\ deleted' = TRUE
       \/ /\ ~Holds(h)
          /\ UNCHANGED <<slots, sz, deleted>>
    /\ live' = [k \in DOMAIN live \ {h} |-> live[k]]
    /\ UNCHANGED <<last, cap>>

Next == (\E ud \in Ud : table_set(ud)) \/ (\E h \in Handles : table_del(h))

Spec == Init /\ [][Next]_vars
-----------------------------------------------------------------------------
Occupied == {i \in 0 .. cap - 1 : slots[i].id # 0}

\* table_list with an array of n: the ids of the first n occupied slots.
table_list(n) ==
    {slots[i].id : i \in {j \in Occupied : Cardinality({k \in Occupied : k < j}) < n}}

\* The type invariant.
TypeOK ==
    /\ last \in 0 .. HandleMod - 1
    /\ cap \in INIT_SZ .. MaxCap
    /\ sz \in 0 .. cap
    /\ slots \in [0 .. cap - 1 -> [id : 0 .. HandleMod - 1, ud : Ud \cup {NULL}]]
    /\ DOMAIN live \subseteq Handles /\ \A h \in DOMAIN live : live[h] \in Ud
    /\ deleted \in BOOLEAN

(* sz, which decides when to expand, counts the occupied slots, leaked     *)
(* ones included, and so table_set never searches for ever: a handle whose *)
(* slot is free comes up although 0 is skipped.                            *)
SearchEnds ==
    /\ TypeOK
    /\ sz = Cardinality(Occupied)
    /\ ~MustExpand => \E n \in Handles : slots[hash(cap, NthHandle(n))].id = 0

(* A handle never yields what was stored under another one, nor anything   *)
(* once it was deleted, however often handles wrap around and are reused.  *)
LookupSound ==
    \A h \in Handles : Holds(h) => h \in DOMAIN live /\ live[h] = table_get(h)

(* Only table_del of that handle, or an expansion, makes a handle that     *)
(* was found unfindable: table_set takes no slot that is in use.           *)
KeptUntilExpanded ==
    [][cap' = cap => \A h \in DOMAIN live \cap DOMAIN live' :
                        Holds(h) => table_get(h)' = table_get(h)]_vars

(* Clients that never delete never lose a handle: copying the slots        *)
(* without rehashing is right as long as every handle is below cap.        *)
NoDeleteNoLoss == ~deleted => \A h \in DOMAIN live : table_get(h) = live[h]

(* table_get is right as far as the code allows: never another entry's     *)
(* pointer, and none lost to a client that never deletes; and table_list   *)
(* still knows every handle, the ones an expansion made unfindable too.    *)
LookupExact == /\ LookupSound
               /\ NoDeleteNoLoss
               /\ DOMAIN live \subseteq table_list(cap)
=============================================================================
