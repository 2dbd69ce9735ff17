------------------------------- MODULE CJson --------------------------------
(***************************************************************************)
(* A client of base/cJSON.c that builds, edits, copies and deletes trees.  *)
(*                                                                         *)
(* The client's rules, which cJSON leaves to it: it adds only items it     *)
(* holds, never under themselves; arrays take items without and objects    *)
(* items with a key; while a reference shares the children or the text of  *)
(* an item, the client does not edit that item, and deletes it only with   *)
(* all its references; it edits nothing through a reference.               *)
(*                                                                         *)
(* The calls that link an item return nothing: the client counts on them   *)
(* and lets go of the item.                                                *)
(***************************************************************************)
EXTENDS CJsonTree, JsonGrammar

CONSTANTS TypeSets,      \* bound: the sets of item types a behaviour creates from
          Numbers,       \* bound: the numbers
          Literals,      \* bound: the keys the client has in its own memory
          Copied,        \* bound: the keys it has cJSON copy
          Room, RoomForObjects,  \* bound: items, without and with objects
          MaxLost,       \* bound: a behaviour ends when it has lost more items
          MaxText, MaxLiteral    \* bound: pieces of a text, and of a string literal

ASSUME ClientAssumption ==
    /\ Literals \cup Copied \subseteq Keys
    /\ Room \in Nat /\ RoomForObjects \in Nat /\ MaxLost \in Nat
    /\ MaxText \in Nat /\ MaxLiteral \in Nat

VARIABLES task,          \* what this behaviour is about: "edit", "compare", "text", "literal", "print"
          text,          \* what has been typed
          value,         \* what is printed
          heap,
          kinds,         \* what this behaviour creates: [type, num, text]
          roots,         \* the items the client holds
          kids,          \* the children the client gave each item, in order
          lost,          \* items whose linking failed unnoticed
          keyless        \* a member was left without a key

tree_vars == <<heap, kinds, roots, kids, lost, keyless>>
vars == <<task, text, value, tree_vars>>

\* The pieces of texts: punctuation, a string, a digit and white space.
TextPieces == {<<LBRACKET>>, <<RBRACKET>>, <<LBRACE>>, <<RBRACE>>, <<COMMA>>, <<COLON>>,
               <<QUOTE, 97, QUOTE>>, <<ZERO + 1>>, <<SPACE>>}
\* And of string literals: quote, backslash, n, \u, U+00E9, U+20AC, the two
\* halves of a surrogate pair, and z.
LiteralPieces == {<<QUOTE>>, <<BACKSLASH>>, <<110>>, <<BACKSLASH, 117>>,
                  <<48, 48, 69, 57>>, <<50, 48, 97, 99>>, <<68, 56, 51, 68>>, <<68, 69, 48, 48>>,
                  <<122>>}
Typing == FlattenSeq(text)

\* What is printed: scalars, and arrays and objects of up to two of them, and
\* of these.
Strings == {<<>>, <<97, SPACE>>, <<QUOTE, BACKSLASH>>, <<1, LF>>}
Scalar == {Literal("NULL"), Literal("True"), Literal("False"), Number(0), Number(-12), Raw(<<55>>)}
          \cup {String(s) : s \in Strings}
UpTo2(S) == {<<>>} \cup {<<v>> : v \in S} \cup {<<v, w>> : v \in S, w \in S}
Flat == {Array(s) : s \in UpTo2(Scalar)}
        \cup {Object(s) : s \in UpTo2(Strings \X {Number(7), Literal("True")})}
Few == {Literal("NULL"), Array(<<>>), Object(<<>>), Array(<<Number(7), Number(7)>>),
        Object(<<<<<<97>>, Literal("True")>>, <<<<98>>, Number(7)>>>>)}
Values == Scalar \cup Flat \cup {Array(s) : s \in UpTo2(Few)}
          \cup {Object(s) : s \in UpTo2({<<97>>} \X Few)}

\* What is compared: numbers, arrays and objects of up to two of them in either
\* order, and arrays and objects of these.
Leaf == {Number(1), Number(2), Literal("True")}
Pairs(S) == {<<>>} \cup {<<<<k, v>>>> : k \in {"k", "K"}, v \in S}
            \cup {<<<<k, v>>, <<l, w>>>> : k \in {"k"}, l \in {"K"}, v \in S, w \in S}
            \cup {<<<<l, w>>, <<k, v>>>> : k \in {"k"}, l \in {"K"}, v \in S, w \in S}
Nested == {Array(<<Number(1), Number(2)>>), Array(<<Number(2), Number(1)>>),
           Object(<<<<"k", Number(1)>>, <<"K", Number(2)>>>>),
           Object(<<<<"K", Number(2)>>, <<"k", Number(1)>>>>),
           Object(<<<<"k", Number(2)>>, <<"K", Number(1)>>>>)}
Compared == Leaf \cup {Array(s) : s \in UpTo2(Leaf)} \cup {Object(s) : s \in Pairs(Leaf)}
            \cup {Array(s) : s \in UpTo2(Nested)} \cup {Object(<<<<"k", v>>>>) : v \in Nested}
RoomForPairs == 14       \* two of the largest

\* The client builds the tree of a value bottom up: [h, p].
RECURSIVE Built(_, _)
Built(h, v) ==
    LET r == Create(h, [type |-> v.type, num |-> IF v.type = "Number" THEN v.number ELSE 0,
                        text |-> ""])
        PutElement(g, e) == LET b == Built(g, e) IN cJSON_AddItemToArray(b.h, r.p, b.p)
        PutMember(g, m) == LET b == Built(g, m[2])
                            IN  cJSON_AddItemToObjectCS(b.h, r.p, Static(m[1]), b.p)
    IN  [h |-> CASE v.type = "Array" -> FoldLeft(PutElement, r.h, v.elements)
                 [] v.type = "Object" -> FoldLeft(PutMember, r.h, v.members)
                 [] OTHER -> r.h,
         p |-> r.p]

Texted == {"String", "Raw"}
Kinds(types) ==
    [type : types \cap {"Number"}, num : Numbers, text : {""}]
    \cup [type : types \cap Texted, num : {0}, text : {"k"}]
    \cup [type : types \ (Texted \cup {"Number"}), num : {0}, text : {""}]

\* Two trees that are there to be compared, or room to edit in.
StartsWithTrees ==
    \E v, w \in Compared :
        LET one == Built(EmptyHeap(RoomForPairs), v)
            two == Built(one.h, w)
        IN  heap = two.h /\ roots = {one.p, two.p} /\ kinds = {}
StartsEmpty ==
    \E types \in IF task = "edit" THEN TypeSets ELSE {{}} :
        /\ kinds = Kinds(types) /\ roots = {}
        /\ heap = EmptyHeap(IF types = {} THEN 0 ELSE
                            IF "Object" \in types THEN RoomForObjects ELSE Room)

Init ==
    /\ task \in {"edit", "compare", "text", "literal", "print"} /\ text = <<>>
    /\ value \in IF task = "print" THEN Values ELSE {Literal("NULL")}
    /\ IF task = "compare" THEN StartsWithTrees ELSE StartsEmpty
    /\ lost = {} /\ keyless = FALSE
    /\ kids = [i \in DOMAIN heap.item |->
                 IF i \in Live(heap) THEN Children(heap, i) ELSE <<>>]
-----------------------------------------------------------------------------
It(i) == heap.item[i]

\* What hangs below the items of S: owned, and also through references.
RECURSIVE Owned(_, _)
Owned(h, S) == IF S = {} THEN {} ELSE
    S \cup Owned(h, UNION {Range(Children(h, i)) : i \in {i \in S : ~h.item[i].isref}})
RECURSIVE Seen(_, _)
Seen(h, S) == IF S = {} THEN {} ELSE S \cup Seen(h, UNION {Range(Children(h, i)) : i \in S})

\* The references that share the children or the text of i.
Sharers(i) == {r \in Live(heap) :
    /\ It(r).isref
    /\ \/ It(i).child # NULL /\ It(r).child = It(i).child
       \/ It(i).valuestring # NoString /\ It(r).valuestring = It(i).valuestring}

Held == Owned(heap, roots)
Editable(type) == {p \in Held : IsType(heap, p, type) /\ ~It(p).isref /\ Sharers(p) = {}}
Addable(p) == {i \in roots : p \notin Seen(heap, {i})}
MayDelete(i) == \A j \in Owned(heap, {i}) : It(j).isref \/ Sharers(j) \subseteq Owned(heap, {i})

\* The client's own record of a parent's children after it deletes some items.
Forget(k, gone) == [i \in DOMAIN kids |-> IF i \in gone THEN <<>> ELSE k[i]]
Without(s, i) == SelectSeq(s, LAMBDA j : j # i)
Same == UNCHANGED <<kinds, keyless, task, text, value>>
Running == task = "edit" /\ ~heap.bad /\ Cardinality(lost) <= MaxLost
-----------------------------------------------------------------------------
\* A fresh item, array or copy; nothing is held when memory runs out.
Takes(r) ==
    /\ Running
    /\ heap' = r.h
    /\ roots' = IF r.p = NULL THEN roots ELSE roots \cup {r.p}
    /\ kids' = [i \in DOMAIN kids |-> IF i \in Live(heap) THEN kids[i]
                                ELSE IF i \in Live(r.h) THEN Children(r.h, i) ELSE <<>>]
    /\ Same /\ UNCHANGED lost

Creates == \E k \in kinds : Takes(Create(heap, k))
CreatesArray == \E k \in kinds, n \in 0 .. 2 :
    \/ /\ k.type = "Number"
       /\ \E r \in {cJSON_CreateIntArray(heap, k.num, n), cJSON_CreateFloatArray(heap, k.num, n),
                   cJSON_CreateDoubleArray(heap, k.num, n)} : Takes(r)
    \/ k.type = "String" /\ Takes(cJSON_CreateStringArray(heap, k.text, n))
Duplicates == \E i \in Held, recurse \in BOOLEAN : Takes(cJSON_Duplicate(heap, i, recurse))

SetsNumber == \E i \in Held, num \in Numbers :
    /\ Running /\ IsType(heap, i, "Number")
    /\ heap' = cJSON_SetNumberHelper(heap, i, num)
    /\ Same /\ UNCHANGED <<roots, kids, lost>>

\* The client lets go of i.
Links(h, i) ==
    /\ Running
    /\ heap' = h
    /\ roots' = roots \ {i}
    /\ Same

Adds == \E p \in Editable("Array") : \E i \in Addable(p) :
    /\ Links(cJSON_AddItemToArray(heap, p, i), i)
    /\ kids' = [kids EXCEPT ![p] = Append(@, i)]
    /\ UNCHANGED lost

Inserts == \E p \in Editable("Array"), which \in 0 .. Room : \E i \in Addable(p) :
    /\ which < Len(kids[p])
    /\ Links(cJSON_InsertItemInArray(heap, p, which, i), i)
    /\ kids' = [kids EXCEPT ![p] = InsertAt(@, which + 1, i)]
    /\ UNCHANGED lost

\* cJSON_AddItemToObject fails unnoticed when the key cannot be copied.
AddsMember == \E p \in Editable("Object"), k \in Copied : \E i \in Addable(p) :
    LET linked == cJSON_strdup(heap, Static(k)).p # NoString
    IN  /\ Links(cJSON_AddItemToObject(heap, p, k, i), i)
        /\ kids' = IF linked THEN [kids EXCEPT ![p] = Append(@, i)] ELSE kids
        /\ lost' = IF linked THEN lost ELSE lost \cup {i}
AddsMemberCS == \E p \in Editable("Object"), k \in Literals : \E i \in Addable(p) :
    /\ Links(cJSON_AddItemToObjectCS(heap, p, Static(k), i), i)
    /\ kids' = [kids EXCEPT ![p] = Append(@, i)]
    /\ UNCHANGED lost

\* The item added is a new reference to i.
Refers(p, i, h, linked) ==
    LET r == create_reference(heap, i).p
    IN  /\ Running
        /\ p \notin Seen(heap, {i})
        /\ r # NULL
        /\ heap' = h
        /\ kids' = IF linked THEN [kids EXCEPT ![p] = Append(@, r)] ELSE kids
        /\ lost' = IF linked THEN lost ELSE lost \cup {r}
        /\ Same /\ UNCHANGED roots

AddsReference == \E p \in Editable("Array"), i \in Held :
    Refers(p, i, cJSON_AddItemReferenceToArray(heap, p, i), TRUE)
AddsReferenceMember == \E p \in Editable("Object"), i \in Held, k \in Copied :
    Refers(p, i, cJSON_AddItemReferenceToObject(heap, p, k, i),
           cJSON_strdup(heap, Static(k)).p # NoString)

\* The client takes i out of p, and holds it or deletes it.
TakesOut(p, i, delete, crash) ==
    LET h == [cJSON_DetachItemViaPointer(heap, p, i) EXCEPT !.bad = @ \/ crash]
    IN  /\ Running
        /\ i # NULL
        /\ delete => MayDelete(i)
        /\ heap' = IF delete THEN cJSON_Delete(h, i) ELSE h
        /\ roots' = IF delete THEN roots ELSE roots \cup {i}
        /\ kids' = Forget([kids EXCEPT ![p] = Without(@, i)],
                          IF delete THEN Owned(heap, {i}) ELSE {})
        /\ Same /\ UNCHANGED lost

FromArray == \E p \in Editable("Array"), which \in 0 .. Room, delete \in BOOLEAN :
    TakesOut(p, get_array_item(heap, p, which), delete, FALSE)
FromObject == \E p \in Editable("Object"), k \in Keys, cs, delete \in BOOLEAN :
    TakesOut(p, get_object_item(heap, p, k, cs), delete, cs /\ StrcmpOfNull(heap, p, k))

\* new takes the place of old in the client's book.
Replaced(p, old, new) ==
    Forget([kids EXCEPT ![p] = [n \in DOMAIN @ |-> IF @[n] = old THEN new ELSE @[n]]],
           Owned(heap, {old}))

Replaces == \E p \in Editable("Array"), which \in 0 .. Room : \E new \in Addable(p) :
    LET old == get_array_item(heap, p, which)
    IN  /\ old # NULL /\ MayDelete(old)
        /\ Links(cJSON_ReplaceItemViaPointer(heap, p, old, new), new)
        /\ kids' = Replaced(p, old, new)
        /\ UNCHANGED lost

\* A key the object does not have: the replacement is lost.
ReplacesMember ==
  \E p \in Editable("Object"), k \in Copied, cs \in BOOLEAN : \E new \in Addable(p) :
    LET old == get_object_item(heap, p, k, cs)
        h == replace_item_in_object(heap, p, k, new, cs)
    IN  /\ Running
        /\ old # NULL => MayDelete(old)
        /\ heap' = h
        /\ roots' = roots \ {new}
        /\ kids' = IF old = NULL THEN kids ELSE Replaced(p, old, new)
        /\ lost' = IF old = NULL THEN lost \cup {new} ELSE lost
        /\ keyless' = (keyless \/ h.item[new].string = NoString)
        /\ UNCHANGED <<kinds, task, text, value>>

Deletes == \E i \in roots :
    /\ Running /\ MayDelete(i)
    /\ heap' = cJSON_Delete(heap, i)
    /\ roots' = roots \ {i}
    /\ kids' = Forget(kids, Owned(heap, {i}))
    /\ Same /\ UNCHANGED lost

-----------------------------------------------------------------------------
\* The user adds a piece to the text that will be parsed.
Types ==
    /\ Len(text) < IF task = "text" THEN MaxText ELSE MaxLiteral
    /\ \E c \in CASE task = "text" -> TextPieces [] task = "literal" -> LiteralPieces
                  [] OTHER -> {} :
          text' = Append(text, c)
    /\ UNCHANGED <<task, value, tree_vars>>

Next ==
    \/ Creates \/ CreatesArray \/ Duplicates \/ SetsNumber
    \/ Adds \/ Inserts \/ AddsMember \/ AddsMemberCS \/ AddsReference \/ AddsReferenceMember
    \/ FromArray \/ FromObject \/ Replaces \/ ReplacesMember
    \/ Deletes
    \/ Types

Spec == Init /\ [][Next]_vars
-----------------------------------------------------------------------------
\* Every list of children is, in both directions, the sequence that the
\* client's calls describe, and what the client holds is in no list: no
\* sequence of adding, inserting, replacing and detaching (the first, a middle
\* or the last item, after any other) leaves a stale next, prev or child.
ListsAreSequences ==
    /\ \A i \in Live(heap) : ~It(i).isref =>
          LET c == Children(heap, i)
          IN  /\ c = kids[i]
              /\ \A n \in DOMAIN c : It(c[n]).prev = IF n = 1 THEN NULL ELSE c[n - 1]
    /\ \A i \in roots \cup lost : It(i).next = NULL /\ It(i).prev = NULL

\* Memory is exact: the live items are those below what the client holds or
\* lost, each below one of them only; the live strings are the keys and texts
\* these items own, none shared.  So cJSON_Delete of all trees leaves nothing,
\* and nothing is freed twice or leaked but what a call lost: an item whose key
\* could not be copied, and a replacement for a key that is not there.  Nothing
\* unallocated is freed and no NULL handed to strcmp, unless a replacement was
\* put into an object when its key could not be copied.
OwnsText(i) == ~It(i).isref /\ It(i).valuestring.mem # 0
OwnsKey(i) == ~It(i).isconst /\ It(i).string.mem # 0
MemoryExact ==
    /\ heap.bad => keyless
    /\ Live(heap) = Owned(heap, roots \cup lost)
    /\ \A i, j \in roots \cup lost : i # j => Owned(heap, {i}) \cap Owned(heap, {j}) = {}
    /\ heap.strs = {It(i).valuestring.mem : i \in {i \in Live(heap) : OwnsText(i)}}
                   \cup {It(i).string.mem : i \in {i \in Live(heap) : OwnsKey(i)}}
    /\ Cardinality(heap.strs) = Cardinality({i \in Live(heap) : OwnsText(i)})
                                + Cardinality({i \in Live(heap) : OwnsKey(i)})

\* The JSON value of an item whose objects have distinct keys.
RECURSIVE Value(_, _)
Value(h, i) ==
    LET it == h.item[i]
        c == Children(h, i)
    IN  [type |-> it.type, number |-> it.valuedouble, text |-> it.valuestring.text,
         elements |-> IF it.type = "Array" THEN [n \in DOMAIN c |-> Value(h, c[n])] ELSE <<>>,
         members |-> IF it.type = "Object"
                       THEN {<<h.item[c[n]].string.text, Value(h, c[n])>> : n \in DOMAIN c}
                       ELSE {}]
DistinctKeys(i) == \A o \in Seen(heap, {i}) : It(o).type = "Object" =>
    LET c == Children(heap, o)
    IN  \A n, m \in DOMAIN c : /\ It(c[n]).string # NoString
                               /\ n # m => It(c[n]).string.text # It(c[m]).string.text

\* cJSON_Compare with case_sensitive is equality of the JSON values: order
\* matters in arrays and not in objects, at any depth, members are matched by
\* key, an object with more members is not equal, and no value equals a part of
\* itself.
CompareIsEquality ==
    \A i, j \in {i \in Live(heap) : DistinctKeys(i)} :
        cJSON_Compare(heap, i, j, TRUE) <=> Value(heap, i) = Value(heap, j)

\* cJSON_Duplicate makes an equal value that shares no item with the original
\* and leaves the rest of memory alone, or, when memory runs out at any point,
\* deletes all that it has made.
DuplicateAllOrNothing ==
    \A i \in Held :
        LET d == cJSON_Duplicate(heap, i, TRUE)
        IN  IF d.p = NULL THEN d.h = heap
            ELSE /\ Value(d.h, d.p) = Value(heap, i)
                 /\ Owned(d.h, {d.p}) \cap Live(heap) = {}
                 /\ \A j \in Live(heap) : d.h.item[j] = It(j)
-----------------------------------------------------------------------------
\* The text itself, and inside brackets and braces.
TextsParse ==
    task = "text" =>
        \A s \in {Typing, <<LBRACKET>> \o Typing \o <<RBRACKET>>,
                 <<LBRACE>> \o Typing \o <<RBRACE>>} :
            LET r == cJSON_ParseWithOpts(s, TRUE)
                vs == ValuesOf(Trim(s), CJSON_NESTING_LIMIT)
            IN  /\ r.ok => vs = {r.v} /\ cJSON_Parse(s).v = r.v
                /\ ~r.ok => vs = {} /\ r.off \in 0 .. Len(s)
                /\ r.ok => LET m == cJSON_Minify(s)
                           IN  ~m.over /\ cJSON_ParseWithOpts(m.text, TRUE).v = r.v

\* What is written for a literal fits what was allocated by counting backslashes.
LiteralsDecode ==
    task = "literal" =>
        LET s == <<QUOTE>> \o Typing \o <<QUOTE>>
            r == parse_string(Append(s, NUL), 0)
            lits == {n \in 2 .. Len(s) : StringsOf(SubSeq(s, 1, n)) # {}}
        IN  /\ r.used <= r.room
            /\ r.ok <=> lits # {}
            /\ r.ok => /\ r.off \in lits
                       /\ StringsOf(SubSeq(s, 1, r.off)) = {CodePoints(r.v.text)}

\* cJSON_ParseWithOpts accepts exactly the texts of the grammar, with the value
\* they stand for; otherwise it fails, pointing into the text.  A string literal
\* is read as the code points it stands for, surrogate pairs included, and
\* without writing past its memory.
ParseIsTheGrammar == TextsParse /\ LiteralsDecode

\* What the printed text of a value is read as.
RECURSIVE ReadsBack(_)
ReadsBack(v) ==
    CASE v.type = "Raw" -> Number(7)
      [] v.type = "Array" -> Array([n \in DOMAIN v.elements |-> ReadsBack(v.elements[n])])
      [] v.type = "Object" ->
            Object([n \in DOMAIN v.members |-> <<v.members[n][1], ReadsBack(v.members[n][2])>>])
      [] OTHER -> v

\* 5 bytes more than the text and its NUL are always enough.  When memory runs
\* out the printer fails, and its buffer is freed once.
PrintsWithinMemory ==
    task = "print" =>
        \A fmt \in BOOLEAN, memory \in 0 .. INT_MAX :
            LET r == PrintIn(value, fmt, memory)
                q == cJSON_PrintBuffered(value, 1, fmt, memory)
            IN  \A p \in {r, q} : /\ ~p.over
                                  /\ p.held <=> p.ok
                                  /\ p.freed = IF p.ok \/ memory = 0 THEN 0 ELSE 1
                                  /\ p.ok => p.text = print(value, fmt).text
PrintsWithinRoom ==
    task = "print" =>
        \A fmt \in BOOLEAN :
            LET whole == print(value, fmt)
            IN  whole.ok => \A n \in 0 .. Len(whole.text) + 6 :
                    LET p == cJSON_PrintPreallocated(value, n, fmt)
                        q == cJSON_PrintBuffered(value, n, fmt, INT_MAX)
                    IN  /\ ~p.over /\ ~q.over
                        /\ p.ok => p.text = whole.text
                        /\ q.ok => q.text = whole.text
                        /\ n = Len(whole.text) + 6 => p.ok /\ (n <= INT_MAX => q.ok)

LongestWrite == 12       \* what the values printed here ask of ensure, at most
PrintedTextReads ==
    task = "print" =>
        LET p == print(value, TRUE)
            q == print(value, FALSE)
        IN  /\ \A r \in {p, q} :
                  /\ ~r.over
                  /\ r.ok => cJSON_ParseWithOpts(r.text, TRUE).v = ReadsBack(value)
                  /\ ~r.ok => Len(r.text) + LongestWrite > INT_MAX
            /\ p.ok => cJSON_Minify(p.text) = [text |-> q.text, over |-> FALSE]

\* What is printed reads back as the value, formatted or not, and the formatted
\* text minifies to the unformatted one; while memory lasts, printing fails
\* only near INT_MAX, and when it does not, the buffer is freed once.
\* However much room the printer is given (cJSON_PrintPreallocated,
\* cJSON_PrintBuffered), it writes no further, and what it completes is the
\* whole text.
PrintReadsBack == PrintedTextReads /\ PrintsWithinRoom /\ PrintsWithinMemory
=============================================================================
