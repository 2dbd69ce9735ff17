----------------------------- MODULE CJsonTree ------------------------------
(***************************************************************************)
(* The item trees of base/cJSON.c as functions from heap to heap: items    *)
(* linked by next, prev and child, their key (string) and their own        *)
(* text (valuestring).                                                     *)
(*                                                                         *)
(* A heap is [item, strs, bad]: the items by address, the live allocations *)
(* made by cJSON_strdup, and whether memory was misused (a free of what is *)
(* not allocated, a strcmp of NULL).  A string is [mem, text]; mem = 0 is  *)
(* the caller's own memory.  An allocation takes the lowest free address   *)
(* and fails when there is none.  Operators that also return a pointer     *)
(* return [h, p].                                                          *)
(***************************************************************************)
EXTENDS Integers, Sequences, SequencesExt, FiniteSets, FiniteSetsExt

CONSTANTS MaxStrs,       \* bound: strings the memory has room for
          Keys           \* the keys and texts, none the empty string

ASSUME TreeAssumption == MaxStrs \in Nat /\ "" \notin Keys

NULL == 0
NoString == [mem |-> 0, text |-> ""]
Static(k) == [mem |-> 0, text |-> k]
tolower(k) == IF k = "K" THEN "k" ELSE k

\* What memset leaves in a new item; an address not in use has type "free".
Zeroed(type) == [type |-> type, isref |-> FALSE, isconst |-> FALSE, next |-> NULL,
                 prev |-> NULL, child |-> NULL, string |-> NoString, valuestring |-> NoString,
                 valuedouble |-> 0]
EmptyHeap(room) == [item |-> [i \in 1 .. room |-> Zeroed("free")], strs |-> {}, bad |-> FALSE]
Live(h) == {i \in DOMAIN h.item : h.item[i].type # "free"}
-----------------------------------------------------------------------------
cJSON_New_Item(h) ==
    IF Live(h) = DOMAIN h.item THEN [h |-> h, p |-> NULL]
    ELSE LET i == Min(DOMAIN h.item \ Live(h))
         IN  [h |-> [h EXCEPT !.item[i] = Zeroed("Invalid")], p |-> i]

cJSON_strdup(h, s) ==
    LET room == (1 .. MaxStrs) \ h.strs IN
    IF s = NoString \/ room = {} THEN [h |-> h, p |-> NoString]
    ELSE [h |-> [h EXCEPT !.strs = @ \cup {Min(room)}],
          p |-> [mem |-> Min(room), text |-> s.text]]

\* global_hooks.deallocate, of a string and of an item.
FreeString(h, s) == [h EXCEPT !.strs = @ \ {s.mem}, !.bad = @ \/ s.mem \notin h.strs]
FreeItem(h, i) == [h EXCEPT !.item[i] = Zeroed("free"), !.bad = @ \/ i \notin Live(h)]

\* Deletes the item and everything after it in its list.
RECURSIVE cJSON_Delete(_, _)
cJSON_Delete(h, i) ==
    IF i = NULL THEN h ELSE
    LET it == h.item[i]
        h1 == IF ~it.isref /\ it.child # NULL THEN cJSON_Delete(h, it.child) ELSE h
        h2 == IF ~it.isref /\ it.valuestring # NoString
                THEN FreeString(h1, it.valuestring) ELSE h1
        h3 == IF ~it.isconst /\ it.string # NoString THEN FreeString(h2, it.string) ELSE h2
    IN  cJSON_Delete(FreeItem(h3, i), it.next)
-----------------------------------------------------------------------------
(* Looking items up.                                                       *)

\* cJSON_IsInvalid to cJSON_IsRaw.
IsType(h, i, type) == i # NULL /\ h.item[i].type = type

\* The items on the next chain from i on.
RECURSIVE Chain(_, _)
Chain(h, i) == IF i = NULL THEN <<>> ELSE <<i>> \o Chain(h, h.item[i].next)
Children(h, a) == Chain(h, h.item[a].child)

cJSON_GetArraySize(h, a) == Len(Children(h, a))

get_array_item(h, a, index) ==
    IF index < cJSON_GetArraySize(h, a) THEN Children(h, a)[index + 1] ELSE NULL

\* case_insensitive_strcmp = 0; two NULL pointers are not equal.
SameIgnoringCase(k, s) == s # NoString /\ tolower(k) = tolower(s.text)

get_object_item(h, o, k, case_sensitive) ==
    LET c == Children(h, o)
        Hits == {n \in DOMAIN c : IF case_sensitive THEN h.item[c[n]].string.text = k
                                  ELSE SameIgnoringCase(k, h.item[c[n]].string)}
    IN  IF Hits = {} THEN NULL ELSE c[Min(Hits)]

\* A case sensitive search calls strcmp with each key up to the hit.
StrcmpOfNull(h, o, k) ==
    LET hit == get_object_item(h, o, k, TRUE)
    IN  \E n \in DOMAIN Children(h, o) :
            /\ h.item[Children(h, o)[n]].string = NoString
            /\ \A m \in 1 .. n - 1 : Children(h, o)[m] # hit
-----------------------------------------------------------------------------
(* Making items.                                                           *)

Typed(r, type) == IF r.p = NULL THEN r ELSE [r EXCEPT !.h.item[r.p].type = type]
cJSON_CreateNull(h) == Typed(cJSON_New_Item(h), "NULL")
cJSON_CreateTrue(h) == Typed(cJSON_New_Item(h), "True")
cJSON_CreateFalse(h) == Typed(cJSON_New_Item(h), "False")
cJSON_CreateArray(h) == Typed(cJSON_New_Item(h), "Array")
cJSON_CreateObject(h) == Typed(cJSON_New_Item(h), "Object")

\* valueint, a saturated copy of valuedouble, is left out.
cJSON_CreateNumber(h, num) ==
    LET r == Typed(cJSON_New_Item(h), "Number")
    IN  IF r.p = NULL THEN r ELSE [r EXCEPT !.h.item[r.p].valuedouble = num]

cJSON_SetNumberHelper(h, i, num) == [h EXCEPT !.item[i].valuedouble = num]

WithText(r, text) ==
    IF r.p = NULL THEN r ELSE
    LET s == cJSON_strdup(r.h, Static(text))
    IN  IF s.p = NoString THEN [h |-> cJSON_Delete(s.h, r.p), p |-> NULL]
        ELSE [h |-> [s.h EXCEPT !.item[r.p].valuestring = s.p], p |-> r.p]
cJSON_CreateString(h, text) == WithText(Typed(cJSON_New_Item(h), "String"), text)
cJSON_CreateRaw(h, text) == WithText(Typed(cJSON_New_Item(h), "Raw"), text)

\* The item a client asks for: k is [type, num, text].
Create(h, k) ==
    CASE k.type = "NULL" -> cJSON_CreateNull(h)
      [] k.type = "True" -> cJSON_CreateTrue(h)
      [] k.type = "False" -> cJSON_CreateFalse(h)
      [] k.type = "Number" -> cJSON_CreateNumber(h, k.num)
      [] k.type = "String" -> cJSON_CreateString(h, k.text)
      [] k.type = "Raw" -> cJSON_CreateRaw(h, k.text)
      [] k.type = "Array" -> cJSON_CreateArray(h)
      [] k.type = "Object" -> cJSON_CreateObject(h)

suffix_object(h, prev, i) == [h EXCEPT !.item[prev].next = i, !.item[i].prev = prev]

\* The loop of the four cJSON_Create...Array: n more elements after p.
RECURSIVE ArrayOf(_, _, _, _)
ArrayOf(r, k, n, p) ==
    IF r.p = NULL \/ n = 0 THEN r ELSE
    LET e == Create(r.h, k)
    IN  IF e.p = NULL THEN [h |-> cJSON_Delete(e.h, r.p), p |-> NULL]
        ELSE LET linked == IF p = NULL THEN [e.h EXCEPT !.item[r.p].child = e.p]
                           ELSE suffix_object(e.h, p, e.p)
             IN  ArrayOf([h |-> linked, p |-> r.p], k, n - 1, e.p)
cJSON_CreateIntArray(h, num, n) ==
    ArrayOf(cJSON_CreateArray(h), [type |-> "Number", num |-> num, text |-> ""], n, NULL)
cJSON_CreateFloatArray(h, num, n) == cJSON_CreateIntArray(h, num, n)
cJSON_CreateDoubleArray(h, num, n) == cJSON_CreateIntArray(h, num, n)
cJSON_CreateStringArray(h, text, n) ==
    ArrayOf(cJSON_CreateArray(h), [type |-> "String", num |-> 0, text |-> text], n, NULL)

\* create_reference that keeps the item's key.
MutantSharesKey(h, i) ==
    LET r == cJSON_New_Item(h)
    IN  IF r.p = NULL THEN r
        ELSE [r EXCEPT !.h.item[r.p] = [h.item[i] EXCEPT !.isref = TRUE, !.next = NULL,
                                                         !.prev = NULL]]

create_reference(h, i) ==
    LET r == cJSON_New_Item(h)
    IN  IF r.p = NULL THEN r
        ELSE [r EXCEPT !.h.item[r.p] = [h.item[i] EXCEPT !.string = NoString, !.isref = TRUE,
                                                         !.next = NULL, !.prev = NULL]]
-----------------------------------------------------------------------------
(* Linking items.                                                          *)

\* i is a live item or NULL (a reference that could not be made).
cJSON_AddItemToArray(h, a, i) ==
    IF i = NULL THEN h
    ELSE IF h.item[a].child = NULL THEN [h EXCEPT !.item[a].child = i]
    ELSE suffix_object(h, Last(Children(h, a)), i)

\* s = NoString: nothing is done.
cJSON_AddItemToObjectCS(h, o, s, i) ==
    IF s = NoString THEN h ELSE
    LET it == h.item[i]
        h1 == IF ~it.isconst /\ it.string # NoString THEN FreeString(h, it.string) ELSE h
    IN  cJSON_AddItemToArray([h1 EXCEPT !.item[i].string = s, !.item[i].isconst = TRUE], o, i)

cJSON_AddItemToObject(h, o, k, i) ==
    IF i = NULL THEN h ELSE
    LET s == cJSON_strdup(h, Static(k))
    IN  [cJSON_AddItemToObjectCS(s.h, o, s.p, i) EXCEPT !.item[i].isconst = FALSE]

cJSON_AddItemReferenceToArray(h, a, i) ==
    LET r == create_reference(h, i) IN cJSON_AddItemToArray(r.h, a, r.p)
cJSON_AddItemReferenceToObject(h, o, k, i) ==
    LET r == create_reference(h, i) IN cJSON_AddItemToObject(r.h, o, k, r.p)

\* cJSON_DetachItemViaPointer that forgets the link back of the next item.
MutantOneWay(h, parent, i) ==
    LET it == h.item[i]
        h1 == IF it.prev # NULL THEN [h EXCEPT !.item[it.prev].next = it.next] ELSE h
        h2 == IF i = h.item[parent].child THEN [h1 EXCEPT !.item[parent].child = it.next] ELSE h1
    IN  [h2 EXCEPT !.item[i].prev = NULL, !.item[i].next = NULL]

cJSON_DetachItemViaPointer(h, parent, i) ==
    LET it == h.item[i]
        h1 == IF it.prev # NULL THEN [h EXCEPT !.item[it.prev].next = it.next] ELSE h
        h2 == IF it.next # NULL THEN [h1 EXCEPT !.item[it.next].prev = it.prev] ELSE h1
        h3 == IF i = h.item[parent].child THEN [h2 EXCEPT !.item[parent].child = it.next] ELSE h2
    IN  [h3 EXCEPT !.item[i].prev = NULL, !.item[i].next = NULL]

cJSON_InsertItemInArray(h, a, which, i) ==
    LET after == get_array_item(h, a, which)
        prev == h.item[after].prev
        h1 == [h EXCEPT !.item[i].next = after, !.item[i].prev = prev, !.item[after].prev = i]
    IN  IF after = NULL THEN cJSON_AddItemToArray(h, a, i)
        ELSE IF after = h.item[a].child THEN [h1 EXCEPT !.item[a].child = i]
        ELSE [h1 EXCEPT !.item[prev].next = i]

cJSON_ReplaceItemViaPointer(h, parent, i, new) ==
    LET it == h.item[i]
        h1 == [h EXCEPT !.item[new].next = it.next, !.item[new].prev = it.prev]
        h2 == IF it.next # NULL THEN [h1 EXCEPT !.item[it.next].prev = new] ELSE h1
        h3 == IF it.prev # NULL THEN [h2 EXCEPT !.item[it.prev].next = new] ELSE h2
        h4 == IF h.item[parent].child = i THEN [h3 EXCEPT !.item[parent].child = new] ELSE h3
    IN  IF i = NULL \/ i = new THEN h
        ELSE cJSON_Delete([h4 EXCEPT !.item[i].next = NULL, !.item[i].prev = NULL], i)

\* The replacement gets the key, whether or not the object has one to replace.
replace_item_in_object(h, o, k, new, case_sensitive) ==
    LET it == h.item[new]
        h1 == IF ~it.isconst /\ it.string # NoString THEN FreeString(h, it.string) ELSE h
        s == cJSON_strdup(h1, Static(k))
        h2 == [s.h EXCEPT !.item[new].string = s.p, !.item[new].isconst = FALSE,
                          !.bad = @ \/ (case_sensitive /\ StrcmpOfNull(s.h, o, k))]
    IN  cJSON_ReplaceItemViaPointer(h2, o, get_object_item(h2, o, k, case_sensitive), new)
-----------------------------------------------------------------------------
(* Copies and comparison.                                                  *)

\* Failed without deleting what was made so far.
MutantLeaksCopy(h, new) == [h |-> h, p |-> NULL]

\* The label fail of cJSON_Duplicate.
Failed(h, new) == [h |-> cJSON_Delete(h, new), p |-> NULL]

RECURSIVE cJSON_Duplicate(_, _, _)
cJSON_Duplicate(h, i, recurse) ==
    LET n == cJSON_New_Item(h)
        it == h.item[i]
        new == [Zeroed(it.type) EXCEPT !.isconst = it.isconst, !.valuedouble = it.valuedouble]
        v == cJSON_strdup([n.h EXCEPT !.item[n.p] = new], it.valuestring)
        k == IF it.isconst THEN [h |-> v.h, p |-> it.string] ELSE cJSON_strdup(v.h, it.string)
        made == [k.h EXCEPT !.item[n.p].valuestring = v.p, !.item[n.p].string = k.p]
        WithChild(r, c) ==
            IF r.p = NULL THEN r ELSE
            LET d == cJSON_Duplicate(r.h, c, TRUE)
            IN  IF d.p = NULL THEN Failed(d.h, r.p)
                ELSE [h |-> cJSON_AddItemToArray(d.h, r.p, d.p), p |-> r.p]
    IN  IF n.p = NULL THEN n
        ELSE IF it.valuestring # NoString /\ v.p = NoString THEN Failed(v.h, n.p)
        ELSE IF it.string # NoString /\ k.p = NoString
               THEN Failed([k.h EXCEPT !.item[n.p].valuestring = v.p], n.p)
        ELSE IF ~recurse THEN [h |-> made, p |-> n.p]
        ELSE FoldLeft(WithChild, [h |-> made, p |-> n.p], Children(h, i))

Scalars == {"False", "True", "NULL", "Number", "String", "Raw"}

\* What cJSON_Compare looks at in two items of the same type without children.
SameScalar(x, y) ==
    \/ x.type \in {"False", "True", "NULL"}
    \/ x.type = "Number" /\ x.valuedouble = y.valuedouble
    \/ x.type \in {"String", "Raw"} /\ x.valuestring.text = y.valuestring.text

RECURSIVE cJSON_Compare(_, _, _, _)

\* SameElements that takes the elements in any order.
MutantAnyOrder(h, ca, cb, cs) ==
    /\ Len(ca) = Len(cb)
    /\ \A n \in DOMAIN ca : \E m \in DOMAIN cb : cJSON_Compare(h, ca[n], cb[m], cs)

SameElements(h, ca, cb, cs) ==
    Len(ca) = Len(cb) /\ \A n \in DOMAIN ca : cJSON_Compare(h, ca[n], cb[n], cs)

\* Every member of one object is in the other, under its key.
MembersIn(h, from, in, cs) ==
    \A n \in DOMAIN from :
        LET s == h.item[from[n]].string
            e == get_object_item(h, in, s.text, cs)
        IN  s # NoString /\ e # NULL /\ cJSON_Compare(h, from[n], e, cs)

cJSON_Compare(h, a, b, cs) ==
    LET x == h.item[a]
        y == h.item[b]
    IN  /\ x.type = y.type /\ ~IsType(h, a, "Invalid")
        /\ \/ a = b
           \/ SameScalar(x, y)
           \/ x.type = "Array" /\ SameElements(h, Children(h, a), Children(h, b), cs)
           \/ x.type = "Object" /\ MembersIn(h, Children(h, a), b, cs)
                                /\ MembersIn(h, Children(h, b), a, cs)
=============================================================================
