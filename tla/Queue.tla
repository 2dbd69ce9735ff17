------------------------------- MODULE Queue --------------------------------
(***************************************************************************)
(* The intrusive circular list of base/queue.h.  A list is a head node; an *)
(* empty head points to itself.  The macros are functions on the links of  *)
(* all nodes, so a node that was removed keeps its stale links, as in C.   *)
(***************************************************************************)
EXTENDS Naturals, Sequences, FiniteSets

\* QUEUE_NEXT and QUEUE_PREV of every node; calloc leaves nil links.
Links(Nodes, nil) == [next : [Nodes -> Nodes \cup {nil}], prev : [Nodes -> Nodes \cup {nil}]]

QUEUE_HEAD(l, h) == l.next[h]

QUEUE_EMPTY(l, h) == l.next[h] = h

QUEUE_INIT(l, q) == [l EXCEPT !.next[q] = q, !.prev[q] = q]

\* QUEUE_INSERT_TAIL at the wrong end.
MutantInsertHead(l, h, q) ==
    LET first == l.next[h]
    IN  [next |-> [l.next EXCEPT ![q] = first, ![h] = q],
         prev |-> [l.prev EXCEPT ![q] = h, ![first] = q]]

QUEUE_INSERT_TAIL(l, h, q) ==
    LET last == l.prev[h]
    IN  [next |-> [l.next EXCEPT ![q] = h, ![last] = q],
         prev |-> [l.prev EXCEPT ![q] = last, ![h] = q]]

\* QUEUE_REMOVE that unlinks in one direction only.
MutantRemoveOneWay(l, q) == [l EXCEPT !.next[l.prev[q]] = l.next[q]]

\* prev(q).next = next(q); next(q).prev = prev(q): q keeps its own links.
QUEUE_REMOVE(l, q) ==
    [next |-> [l.next EXCEPT ![l.prev[q]] = l.next[q]],
     prev |-> [l.prev EXCEPT ![l.next[q]] = l.prev[q]]]

\* The nodes met from h along next, at most n of them.
Walk(l, h, n) ==
    LET at[i \in 0 .. n + 1] == IF i = 0 THEN h ELSE l.next[at[i - 1]]
        ends == {i \in 1 .. n + 1 : at[i] = h}
        len  == IF ends = {} THEN n ELSE (CHOOSE i \in ends : \A j \in ends : i <= j) - 1
    IN  [i \in 1 .. len |-> at[i]]

\* Along prev the same nodes are met in the opposite order, and h closes both.
WellLinked(l, h, n) ==
    LET nodes == {h} \cup {Walk(l, h, n)[i] : i \in 1 .. Len(Walk(l, h, n))}
    IN  /\ Cardinality(nodes) = Len(Walk(l, h, n)) + 1
        /\ \A x \in nodes : l.next[x] \in nodes /\ l.prev[l.next[x]] = x
=============================================================================
