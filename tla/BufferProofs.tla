---------------------------- MODULE BufferProofs ----------------------------
(***************************************************************************)
(* The byte buffer of base/buffer.c for memory, reserves and calls of any  *)
(* size and for any number of nested views: a buffer reads as what was put *)
(* into it through growth and compaction, refcount counts the views, and   *)
(* the assertions of buf_makeSpace fail only after buf_prepend.            *)
(*                                                                         *)
(* The first part is about the contents under each operation on memory and *)
(* indexes, the second about the tree of views, the third puts them into   *)
(* one inductive invariant.                                                *)
(***************************************************************************)
EXTENDS Buffer, SequenceTheorems, FiniteSetTheorems, TLAPS

(* The fields of a struct buffer are sizes; what is read and stored are    *)
(* bytes; the root's memory is as long as it says.                         *)
BufRec == [r : Nat, w : Nat, sz : Nat, p : Nat, base : Nat]

FieldInv ==
    /\ buf \in [Bufs -> BufRec]
    /\ mem \in [0 .. buf[root].sz - 1 -> Byte]
    /\ contents \in [Bufs -> Seq(Byte)]
    /\ buf[root].base = 0 /\ buf[root].sz <= MaxSz
    /\ status \in {"ok", "aborted", "released", "trodden", "skewed"}

(* The views form a tree below the root: a view's source is in use, and no *)
(* set of views is closed under taking the source.                         *)
TreeInv ==
    /\ src \in [Bufs -> Bufs \cup {NULL}] /\ src[root] = NULL
    /\ \A v \in Live \ {root} : src[v] \in Live
    /\ \A S \in SUBSET (Live \ {root}) : S # {} => \E v \in S : src[v] \notin S

(* Counts and caches; nothing is said once the root is freed.              *)
CountInv ==
    /\ refcount \in [Bufs -> 0 .. Cardinality(Views)]
    /\ \A x \in Bufs : refcount[x] = Cardinality({v \in Views : src[v] = x})

CacheInv ==
    /\ cache \in [Bufs -> Views \cup {NULL}] /\ alloc \subseteq Views
    /\ status # "released" =>
        /\ Live \ {root} \subseteq alloc
        /\ \A x \in Live : cache[x] # NULL =>
              cache[x] \in alloc \ Live /\ \A y \in Live \ {x} : cache[y] # cache[x]

(* The indexes are in order; the reserve fits; a view lies inside.         *)
IndexInv == status # "skewed" => \A x \in Live :
    /\ buf[x].r <= buf[x].w /\ buf[x].w <= buf[x].sz /\ buf[x].p <= buf[x].sz
    /\ buf[x].base + buf[x].sz <= buf[root].sz

ReadInv == status \notin {"skewed", "trodden"} =>
    \A x \in Live : Bytes(mem, buf[x]) = contents[x]

IInv == FieldInv /\ TreeInv /\ CountInv /\ CacheInv /\ IndexInv /\ ReadInv /\ AbortsOnlyAfterPrepend
-----------------------------------------------------------------------------
(* The bytes c are in memory m from index i on.                            *)
At(m, i, c) == \A k \in 1 .. Len(c) : m[i + k - 1] = c[k]

(* Bytes, byte by byte.                                                    *)
LEMMA BytesAre ==
    ASSUME NEW b \in BufRec, b.r <= b.w, NEW c \in Seq(Byte), NEW m
    PROVE  Bytes(m, b) = c <=> Len(c) = b.w - b.r /\ At(m, b.base + b.r, c)
<1> DEFINE n == b.w - b.r
<1>1. n \in Nat
  BY DEF BufRec
<1>2. Bytes(m, b) = [i \in 1 .. n |-> m[b.base + b.r + i - 1]]
  BY DEF Bytes, buf_readable
<1>3. Len(c) \in Nat /\ c = [i \in 1 .. Len(c) |-> c[i]]
  BY LenProperties
<1> HIDE DEF n
<1>4. ASSUME Bytes(m, b) = c
      PROVE  Len(c) = n /\ \A i \in 1 .. n : m[b.base + b.r + i - 1] = c[i]
  <2>1. 1 .. n = 1 .. Len(c)
    BY <1>2, <1>3, <1>4
  <2>2. Len(c) = n
    BY <1>1, <1>3, <2>1
  <2> QED BY <1>2, <1>4, <2>2
<1>5. ASSUME Len(c) = n, \A i \in 1 .. n : m[b.base + b.r + i - 1] = c[i]
      PROVE  Bytes(m, b) = c
  BY <1>2, <1>3, <1>5
<1> QED BY <1>4, <1>5 DEF n, At

(* Stored, byte by byte.                                                   *)
LEMMA StoredBytes ==
    ASSUME NEW n \in Nat, NEW m \in [0 .. n - 1 -> Byte], NEW d \in Seq(Byte),
           NEW i \in Nat, i + Len(d) <= n
    PROVE  /\ Stored(m, i, d) \in [0 .. n - 1 -> Byte]
           /\ At(Stored(m, i, d), i, d)
           /\ \A k \in 0 .. n - 1 : k < i \/ k >= i + Len(d) => Stored(m, i, d)[k] = m[k]
<1>1. Len(d) \in Nat /\ DOMAIN m = 0 .. n - 1 /\ \A k \in 1 .. Len(d) : d[k] \in Byte
  BY LenProperties, ElementOfSeq
<1>2. \A k \in 0 .. n - 1 : k \in i .. i + Len(d) - 1 => k - i + 1 \in 1 .. Len(d)
  BY <1>1
<1>3. Stored(m, i, d) = [k \in 0 .. n - 1 |-> IF k \in i .. i + Len(d) - 1 THEN d[k - i + 1] ELSE m[k]]
  BY <1>1 DEF Stored
<1>4. Stored(m, i, d) \in [0 .. n - 1 -> Byte]
  BY <1>1, <1>2, <1>3
<1>5. ASSUME NEW k \in 1 .. Len(d) PROVE Stored(m, i, d)[i + k - 1] = d[k]
  <2>1. i + k - 1 \in 0 .. n - 1 /\ i + k - 1 \in i .. i + Len(d) - 1 /\ (i + k - 1) - i + 1 = k
    BY <1>1
  <2> QED BY <1>3, <2>1
<1>6. ASSUME NEW k \in 0 .. n - 1, k < i \/ k >= i + Len(d) PROVE Stored(m, i, d)[k] = m[k]
  <2>1. k \notin i .. i + Len(d) - 1
    BY <1>1, <1>6
  <2> QED BY <1>3, <2>1
<1> QED BY <1>4, <1>5, <1>6 DEF At

(* Fresh memory is bytes.                                                  *)
LEMMA ZeroedBytes ==
    ASSUME NEW n \in Nat
    PROVE  Zeroed(n) \in [0 .. n - 1 -> Byte]
BY BufferAssumption DEF Zeroed

(* Two pieces one behind the other are their concatenation.                *)
LEMMA AtConcat ==
    ASSUME NEW m, NEW i \in Nat, NEW c \in Seq(Byte), NEW d \in Seq(Byte),
           At(m, i, c), At(m, i + Len(c), d)
    PROVE  At(m, i, c \o d) /\ c \o d \in Seq(Byte) /\ Len(c \o d) = Len(c) + Len(d)
<1>1. Len(c) \in Nat /\ Len(d) \in Nat
  BY LenProperties
<1>2. /\ c \o d \in Seq(Byte) /\ Len(c \o d) = Len(c) + Len(d)
      /\ \A k \in 1 .. Len(c) + Len(d) : (c \o d)[k] = IF k <= Len(c) THEN c[k] ELSE d[k - Len(c)]
  BY ConcatProperties
<1>3. ASSUME NEW k \in 1 .. Len(c) + Len(d) PROVE m[i + k - 1] = (c \o d)[k]
  <2>1. CASE k <= Len(c)
    <3>1. k \in 1 .. Len(c)
      BY <1>1, <2>1
    <3> QED BY <1>2, <2>1, <3>1 DEF At
  <2>2. CASE k > Len(c)
    <3>1. k - Len(c) \in 1 .. Len(d) /\ i + Len(c) + (k - Len(c)) - 1 = i + k - 1 /\ ~(k <= Len(c))
      BY <1>1, <2>2
    <3>2. m[i + Len(c) + (k - Len(c)) - 1] = d[k - Len(c)]
      BY <3>1 DEF At
    <3> QED BY <1>2, <3>1, <3>2
  <2> QED BY <1>1, <2>1, <2>2
<1> QED BY <1>2, <1>3 DEF At

(* The rest of the contents behind the first a bytes.                      *)
LEMMA AtRest ==
    ASSUME NEW m, NEW i \in Nat, NEW c \in Seq(Byte), At(m, i, c), NEW a \in Nat, a <= Len(c)
    PROVE  LET d == SubSeq(c, a + 1, Len(c))
           IN  At(m, i + a, d) /\ d \in Seq(Byte) /\ Len(d) = Len(c) - a
<1> DEFINE d == SubSeq(c, a + 1, Len(c))
           l == Len(c)
<1>1. l \in Nat /\ \A k \in 1 .. l : c[k] \in Byte
  BY LenProperties, ElementOfSeq
<1>2. a + 1 \in Int /\ l \in Int /\ \A k \in a + 1 .. l : c[k] \in Byte
  BY <1>1
<1>3. /\ d \in Seq(Byte)
      /\ Len(d) = IF a + 1 <= l THEN l - (a + 1) + 1 ELSE 0
      /\ \A k \in 1 .. l - (a + 1) + 1 : d[k] = c[a + 1 + k - 1]
  BY <1>2, SubSeqProperties
<1> HIDE DEF d
<1>4. Len(d) = l - a /\ l - (a + 1) + 1 = l - a
  BY <1>1, <1>3
<1>5. ASSUME NEW k \in 1 .. l - a PROVE m[i + a + k - 1] = d[k]
  <2>1. a + k \in 1 .. l /\ i + (a + k) - 1 = i + a + k - 1 /\ a + 1 + k - 1 = a + k
    BY <1>1
  <2>2. m[i + (a + k) - 1] = c[a + k]
    BY <2>1 DEF At
  <2> QED BY <1>3, <1>4, <2>1, <2>2
<1> QED BY <1>3, <1>4, <1>5 DEF At, d

(* The front of the contents.                                              *)
LEMMA AtFront ==
    ASSUME NEW m, NEW i \in Nat, NEW c \in Seq(Byte), At(m, i, c),
           NEW z \in Nat, z <= Len(c)
    PROVE  At(m, i, SubSeq(c, 1, z)) /\ SubSeq(c, 1, z) \in Seq(Byte) /\ Len(SubSeq(c, 1, z)) = z
<1> DEFINE d == SubSeq(c, 1, z)
<1>1. Len(c) \in Nat /\ \A k \in 1 .. Len(c) : c[k] \in Byte
  BY LenProperties, ElementOfSeq
<1>2. 1 \in Int /\ z \in Int /\ \A k \in 1 .. z : c[k] \in Byte
  BY <1>1
<1>3. /\ d \in Seq(Byte)
      /\ Len(d) = IF 1 <= z THEN z - 1 + 1 ELSE 0
      /\ \A k \in 1 .. z - 1 + 1 : d[k] = c[1 + k - 1]
  BY <1>2, SubSeqProperties
<1> HIDE DEF d
<1>4. Len(d) = z /\ z - 1 + 1 = z
  BY <1>3
<1>5. ASSUME NEW k \in 1 .. z PROVE m[i + k - 1] = d[k]
  <2>1. k \in 1 .. Len(c) /\ 1 + k - 1 = k
    BY <1>1
  <2> QED BY <1>3, <1>4, <2>1 DEF At
<1> QED BY <1>3, <1>4, <1>5 DEF At, d
-----------------------------------------------------------------------------
(* Memory m and the indexes b of a buffer are in order and hold c.         *)
InOrder(m, b, c) ==
    /\ b \in BufRec /\ b.base = 0
    /\ m \in [0 .. b.sz - 1 -> Byte] /\ c \in Seq(Byte)
    /\ b.r <= b.w /\ b.w <= b.sz /\ b.p <= b.sz
    /\ Len(c) = b.w - b.r /\ At(m, b.r, c)

(* The fields are numbers.                                                 *)
LEMMA Fields ==
    ASSUME NEW b \in BufRec
    PROVE  b.r \in Nat /\ b.w \in Nat /\ b.sz \in Nat /\ b.p \in Nat /\ b.base \in Nat
BY DEF BufRec

(* Moving write_idx.                                                       *)
LEMMA MovesWrite ==
    ASSUME NEW b \in BufRec, NEW k \in Nat
    PROVE  LET n == [b EXCEPT !.w = k]
           IN  n \in BufRec /\ n.r = b.r /\ n.w = k /\ n.sz = b.sz /\ n.p = b.p /\ n.base = b.base
BY DEF BufRec

(* What is in order reads as its contents.                                 *)
LEMMA InOrderReads ==
    ASSUME NEW m, NEW b, NEW c, InOrder(m, b, c)
    PROVE  Bytes(m, b) = c
<1>1. b \in BufRec /\ b.r <= b.w /\ c \in Seq(Byte) /\ Len(c) = b.w - b.r /\ At(m, b.r, c) /\ b.base = 0
  BY DEF InOrder
<1>2. b.base + b.r = b.r
  BY <1>1, Fields
<1> QED BY <1>1, <1>2, BytesAre

(* Writing behind the contents appends to them.                            *)
LEMMA WrittenInOrder ==
    ASSUME NEW m, NEW b, NEW c, InOrder(m, b, c),
           NEW d \in Seq(Byte), b.w + Len(d) <= b.sz
    PROVE  LET n == Written([m |-> m, b |-> b], d)
           IN  /\ InOrder(n.m, n.b, c \o d)
               /\ n.b = [b EXCEPT !.w = @ + Len(d)]
<1> DEFINE m2 == Stored(m, b.w, d)
           b2 == [b EXCEPT !.w = @ + Len(d)]
<1>0. /\ b \in BufRec /\ b.base = 0
      /\ m \in [0 .. b.sz - 1 -> Byte] /\ c \in Seq(Byte)
      /\ b.r <= b.w /\ b.w <= b.sz /\ b.p <= b.sz
      /\ Len(c) = b.w - b.r /\ At(m, b.r, c)
  BY DEF InOrder
<1>1. b.r \in Nat /\ b.w \in Nat /\ b.sz \in Nat /\ b.p \in Nat /\ Len(d) \in Nat /\ Len(c) \in Nat
  BY <1>0, Fields, LenProperties
<1>2. b.w + Len(d) <= b.sz /\ b.r + Len(c) = b.w
  BY <1>0, <1>1
<1>3. /\ m2 \in [0 .. b.sz - 1 -> Byte] /\ At(m2, b.w, d)
      /\ \A i \in 0 .. b.sz - 1 : i < b.w \/ i >= b.w + Len(d) => m2[i] = m[i]
  <2>1. b.w + Len(d) <= b.sz /\ b.sz \in Nat /\ b.w \in Nat /\ m \in [0 .. b.sz - 1 -> Byte]
    BY <1>0, <1>1, <1>2
  <2> QED BY <2>1, StoredBytes
<1>4. /\ b2 \in BufRec /\ b2.r = b.r /\ b2.w = b.w + Len(d) /\ b2.sz = b.sz /\ b2.p = b.p /\ b2.base = 0
  <2>1. b.w + Len(d) \in Nat
    BY <1>1
  <2> QED BY <1>0, <2>1, MovesWrite
<1>5. Written([m |-> m, b |-> b], d) = [m |-> m2, b |-> b2]
  BY DEF Written
<1> HIDE DEF m2, b2
<1>6. At(m2, b.r, c)
  <2> SUFFICES ASSUME NEW i \in 1 .. Len(c) PROVE m2[b.r + i - 1] = c[i]
    BY DEF At
  <2>1. b.r + i - 1 \in 0 .. b.sz - 1 /\ b.r + i - 1 < b.w
    BY <1>0, <1>1, <1>2
  <2>2. m[b.r + i - 1] = c[i]
    BY <1>0 DEF At
  <2> QED BY <1>3, <2>1, <2>2
<1>7. At(m2, b.r, c \o d) /\ c \o d \in Seq(Byte) /\ Len(c \o d) = Len(c) + Len(d)
  <2>1. At(m2, b.r + Len(c), d)
    BY <1>2, <1>3
  <2>2. b.r \in Nat /\ c \in Seq(Byte)
    BY <1>0, <1>1
  <2> QED BY <1>6, <2>1, <2>2, AtConcat
<1>8. b2.r <= b2.w /\ b2.w <= b2.sz /\ b2.p <= b2.sz /\ Len(c \o d) = b2.w - b2.r
  BY <1>0, <1>1, <1>2, <1>4, <1>7
<1>9. InOrder(m2, b2, c \o d)
  BY <1>3, <1>4, <1>7, <1>8 DEF InOrder
<1> QED BY <1>5, <1>9 DEF b2

(* Moving the contents behind the reserve, in the same memory or another.  *)
LEMMA RelocatedInOrder ==
    ASSUME NEW b \in BufRec, NEW c \in Seq(Byte), NEW m \in [0 .. b.sz - 1 -> Byte],
           b.base = 0, b.r = b.p, b.w = b.p + Len(c), b.w <= b.sz
    PROVE  InOrder(Stored(m, b.p, c), b, c)
<1>1. b.r \in Nat /\ b.w \in Nat /\ b.sz \in Nat /\ b.p \in Nat /\ Len(c) \in Nat
  BY Fields, LenProperties
<1>2. b.p + Len(c) <= b.sz
  BY <1>1
<1>3. Stored(m, b.p, c) \in [0 .. b.sz - 1 -> Byte] /\ At(Stored(m, b.p, c), b.p, c)
  BY <1>1, <1>2, StoredBytes
<1>4. b.r <= b.w /\ b.p <= b.sz /\ Len(c) = b.w - b.r
  BY <1>1, <1>2
<1> QED BY <1>3, <1>4 DEF InOrder

(* buf_makeSpace where none of its assertions fails: the contents are kept *)
(* and there is room.                                                      *)
LEMMA SpaceInOrder ==
    ASSUME NEW m, NEW b, NEW c, InOrder(m, b, c), NEW len \in Nat,
           ~AssertFails([m |-> m, b |-> b], len), b.sz - b.w < len
    PROVE  LET n == buf_makeSpace([m |-> m, b |-> b], len)
           IN  /\ InOrder(n.m, n.b, c)
               /\ n.b.w + len <= n.b.sz /\ n.b.p = b.p
               /\ n.b.sz = b.sz \/ n.b.sz = b.w + len
<1> DEFINE s == [m |-> m, b |-> b]
           n == buf_makeSpace(s, len)
           grow == MustGrow(b, len)
           z == IF grow THEN Zeroed(b.w + len) ELSE m
           nsz == IF grow THEN b.w + len ELSE b.sz
<1>0. /\ b \in BufRec /\ b.base = 0
      /\ m \in [0 .. b.sz - 1 -> Byte] /\ c \in Seq(Byte)
      /\ b.r <= b.w /\ b.w <= b.sz /\ b.p <= b.sz
      /\ Len(c) = b.w - b.r /\ At(m, b.r, c)
  BY DEF InOrder
<1>1. b.r \in Nat /\ b.w \in Nat /\ b.sz \in Nat /\ b.p \in Nat /\ Len(c) \in Nat
  BY <1>0, Fields, LenProperties
<1>2. Bytes(m, b) = c
  BY InOrderReads
<1>3. /\ n.m = Stored(z, b.p, c)
      /\ n.b = [[b EXCEPT !.sz = nsz] EXCEPT !.r = b.p, !.w = b.p + buf_readable(b)]
  <2>1. CASE grow
    BY <1>2, <2>1 DEF buf_makeSpace, buf_swap, NewSize
  <2>2. CASE ~grow
    <3>1. [b EXCEPT !.sz = b.sz] = b
      BY <1>0 DEF BufRec
    <3>2. n.b = [b EXCEPT !.r = b.p, !.w = b.p + buf_readable(b)]
      BY <2>2 DEF buf_makeSpace
    <3>3. n.m = Stored(m, b.p, c)
      BY <1>2, <2>2 DEF buf_makeSpace
    <3> QED BY <2>2, <3>1, <3>2, <3>3
  <2> QED BY <2>1, <2>2
<1>4. nsz \in Nat /\ buf_readable(b) = Len(c) /\ b.p + Len(c) \in Nat
  BY <1>0, <1>1 DEF buf_readable
<1>5. z \in [0 .. nsz - 1 -> Byte]
  <2>1. b.w + len \in Nat
    BY <1>1
  <2> QED BY <1>0, <2>1, ZeroedBytes
<1>6. ~(n.b.sz - n.b.w < len)
  BY DEF AssertFails, buf_writable
<1> HIDE DEF n, nsz, z
<1>7. /\ n.b \in BufRec /\ n.b.r = b.p /\ n.b.w = b.p + Len(c) /\ n.b.sz = nsz
      /\ n.b.p = b.p /\ n.b.base = 0
  BY <1>0, <1>1, <1>3, <1>4 DEF BufRec
<1>8. n.b.w + len <= n.b.sz /\ n.b.w <= n.b.sz
  BY <1>1, <1>4, <1>6, <1>7
<1>9. z \in [0 .. n.b.sz - 1 -> Byte] /\ c \in Seq(Byte) /\ n.b.r = n.b.p /\ n.b.w = n.b.p + Len(c)
  BY <1>0, <1>5, <1>7
<1>10. InOrder(Stored(z, n.b.p, c), n.b, c)
  BY <1>7, <1>8, <1>9, RelocatedInOrder
<1>11. n.b.sz = b.sz \/ n.b.sz = b.w + len
  BY <1>7 DEF nsz
<1> QED BY <1>3, <1>7, <1>8, <1>10, <1>11 DEF n

(* buf_ensureWritable.                                                     *)
LEMMA EnsureInOrder ==
    ASSUME NEW m, NEW b, NEW c, InOrder(m, b, c), NEW len \in Nat,
           ~AssertFails([m |-> m, b |-> b], len)
    PROVE  LET n == buf_ensureWritable([m |-> m, b |-> b], len)
           IN  /\ InOrder(n.m, n.b, c)
               /\ n.b.w + len <= n.b.sz /\ n.b.p = b.p
               /\ n.b.sz = b.sz \/ n.b.sz = b.w + len
<1>1. b.w \in Nat /\ b.sz \in Nat
  BY Fields DEF InOrder
<1>2. CASE b.sz - b.w < len
  BY <1>2, SpaceInOrder DEF buf_ensureWritable, buf_writable
<1>3. CASE ~(b.sz - b.w < len)
  <2>1. buf_ensureWritable([m |-> m, b |-> b], len) = [m |-> m, b |-> b]
    BY <1>3 DEF buf_ensureWritable, buf_writable
  <2>2. b.w + len <= b.sz
    BY <1>1, <1>3
  <2> QED BY <2>1, <2>2
<1> QED BY <1>2, <1>3

(* The assertions hold as long as read_idx is not in the reserve.          *)
LEMMA AssertsHold ==
    ASSUME NEW m, NEW b, NEW c, InOrder(m, b, c), NEW len \in Nat,
           b.sz <= MaxSz, b.r >= b.p
    PROVE  ~AssertFails([m |-> m, b |-> b], len)
<1> DEFINE s == [m |-> m, b |-> b]
           room == b.r + (b.sz - b.w) - b.p
<1>0. /\ b.r \in Nat /\ b.w \in Nat /\ b.sz \in Nat /\ b.p \in Nat /\ b \in BufRec
      /\ b.r <= b.w /\ b.w <= b.sz
  BY Fields DEF InOrder
<1>1. room \in Nat /\ room < SizeMod /\ SizeMod \in Nat
  BY <1>0, BufferAssumption
<1>2. room % SizeMod = room
  BY <1>1
<1>3. MustGrow(b, len) <=> room < len
  BY <1>2 DEF MustGrow, buf_prependable, buf_writable
<1>4. ASSUME b.sz - b.w < len, ~MustGrow(b, len) PROVE b.p < b.r
  BY <1>0, <1>3, <1>4
<1>5. buf_makeSpace(s, len).b = [[b EXCEPT !.sz = IF MustGrow(b, len) THEN b.w + len ELSE b.sz]
                                    EXCEPT !.r = b.p, !.w = b.p + (b.w - b.r)]
  <2>1. CASE MustGrow(b, len)
    BY <2>1 DEF buf_makeSpace, buf_swap, NewSize, buf_readable
  <2>2. CASE ~MustGrow(b, len)
    <3>1. [b EXCEPT !.sz = b.sz] = b
      BY <1>0 DEF BufRec
    <3> QED BY <2>2, <3>1 DEF buf_makeSpace, buf_readable
  <2> QED BY <2>1, <2>2
<1>6. /\ buf_makeSpace(s, len).b.w = b.p + (b.w - b.r)
      /\ buf_makeSpace(s, len).b.sz = IF MustGrow(b, len) THEN b.w + len ELSE b.sz
  BY <1>0, <1>5 DEF BufRec
<1>7. ~(buf_writable(buf_makeSpace(s, len).b) < len)
  <2>1. CASE MustGrow(b, len)
    BY <1>0, <1>6, <2>1 DEF buf_writable
  <2>2. CASE ~MustGrow(b, len)
    BY <1>0, <1>3, <1>6, <2>2 DEF buf_writable
  <2> QED BY <2>1, <2>2
<1> QED BY <1>4, <1>7 DEF AssertFails, buf_writable

(* Any buffer, the root or a view, whose indexes are in order and which    *)
(* holds c.                                                                *)
Sound(m, b, c) ==
    /\ b \in BufRec /\ c \in Seq(Byte)
    /\ b.r <= b.w /\ b.w <= b.sz /\ b.p <= b.sz
    /\ Len(c) = b.w - b.r /\ At(m, b.base + b.r, c)

(* A sound buffer reads as what it holds.                                  *)
LEMMA SoundReads ==
    ASSUME NEW m, NEW b, NEW c, Sound(m, b, c)
    PROVE  Bytes(m, b) = c
BY BytesAre DEF Sound

(* What buf_retrieve and buf_retrieveAll make of the indexes, and what is  *)
(* left of the contents.                                                   *)
Retrieved(b, len) == IF len < b.w - b.r THEN [b EXCEPT !.r = @ + len]
                     ELSE [b EXCEPT !.r = b.p, !.w = b.p]

Left(c, len) == SubSeq(c, len + 1, Len(c))

(* They take from the front.                                               *)
LEMMA RetrieveSound ==
    ASSUME NEW m, NEW b, NEW c, Sound(m, b, c), NEW len \in Nat, len <= b.w - b.r
    PROVE  /\ Sound(m, Retrieved(b, len), Left(c, len))
           /\ Retrieved(b, len).base = b.base /\ Retrieved(b, len).sz = b.sz
<1> DEFINE n == Retrieved(b, len)
<1>0. /\ b \in BufRec /\ c \in Seq(Byte) /\ b.r <= b.w /\ b.w <= b.sz /\ b.p <= b.sz
      /\ Len(c) = b.w - b.r /\ At(m, b.base + b.r, c)
  BY DEF Sound
<1>1. b.r \in Nat /\ b.w \in Nat /\ b.sz \in Nat /\ b.p \in Nat /\ b.base \in Nat /\ Len(c) \in Nat
  BY <1>0, Fields, LenProperties
<1> DEFINE i == b.base + b.r
           e == Left(c, len)
<1>2. i \in Nat /\ len <= Len(c)
  BY <1>0, <1>1
<1> HIDE DEF i
<1>3. At(m, i, c) /\ c \in Seq(Byte)
  BY <1>0 DEF i
<1>4. At(m, i + len, e) /\ e \in Seq(Byte) /\ Len(e) = Len(c) - len
  BY ONLY <1>2, <1>3, len \in Nat, AtRest DEF Left
<1> HIDE DEF e
<1>6. CASE len < b.w - b.r
  <2>1. b.r + len \in Nat
    BY <1>1
  <2>2. n \in BufRec /\ n.r = b.r + len /\ n.w = b.w /\ n.sz = b.sz /\ n.p = b.p /\ n.base = b.base
    BY <1>0, <1>6, <2>1 DEF BufRec, Retrieved
  <2>3. n.r <= n.w /\ n.w <= n.sz /\ n.p <= n.sz /\ Len(e) = n.w - n.r /\ n.base + n.r = i + len
    BY <1>0, <1>1, <1>2, <1>4, <1>6, <2>2 DEF i
  <2> QED BY <1>4, <2>2, <2>3 DEF Sound, e
<1>7. CASE ~(len < b.w - b.r)
  <2>1. n \in BufRec /\ n.r = b.p /\ n.w = b.p /\ n.sz = b.sz /\ n.p = b.p /\ n.base = b.base
    BY <1>0, <1>1, <1>7 DEF BufRec, Retrieved
  <2>2. n.r <= n.w /\ n.w <= n.sz /\ n.p <= n.sz /\ n.w - n.r = 0
    BY <1>0, <1>1, <2>1
  <2>3. Len(e) = 0
    BY <1>0, <1>1, <1>2, <1>4, <1>7
  <2>4. At(m, n.base + n.r, e)
    BY <2>3 DEF At
  <2> QED BY <1>4, <2>1, <2>2, <2>3, <2>4 DEF Sound, e
<1> QED BY <1>6, <1>7

(* buf_unwrite takes from the end.                                         *)
LEMMA UnwriteInOrder ==
    ASSUME NEW m, NEW b, NEW c, InOrder(m, b, c), NEW len \in Nat, len <= b.w - b.r,
           NEW n, n = [b EXCEPT !.w = @ - len]
    PROVE  InOrder(m, n, SubSeq(c, 1, Len(c) - len)) /\ n.sz = b.sz
<1>0. /\ b \in BufRec /\ b.base = 0
      /\ m \in [0 .. b.sz - 1 -> Byte] /\ c \in Seq(Byte)
      /\ b.r <= b.w /\ b.w <= b.sz /\ b.p <= b.sz
      /\ Len(c) = b.w - b.r /\ At(m, b.r, c)
  BY DEF InOrder
<1>1. b.r \in Nat /\ b.w \in Nat /\ b.sz \in Nat /\ b.p \in Nat /\ Len(c) \in Nat
  BY <1>0, Fields, LenProperties
<1> DEFINE z == Len(c) - len
           d == SubSeq(c, 1, z)
<1>2. z \in Nat /\ z <= Len(c)
  BY <1>0, <1>1
<1> HIDE DEF z
<1>3. At(m, b.r, d) /\ d \in Seq(Byte) /\ Len(d) = z
  <2>1. b.r \in Nat /\ c \in Seq(Byte) /\ At(m, b.r, c)
    BY <1>0, <1>1
  <2> QED BY <1>2, <2>1, AtFront
<1>4. d = SubSeq(c, 1, Len(c) - len)
  BY DEF z
<1> HIDE DEF d
<1>5. b.w - len \in Nat
  BY <1>0, <1>1
<1>6. n \in BufRec /\ n.r = b.r /\ n.w = b.w - len /\ n.sz = b.sz /\ n.p = b.p /\ n.base = b.base
  BY <1>0, <1>5 DEF BufRec
<1>7. n.r <= n.w /\ n.w <= n.sz /\ n.p <= n.sz /\ Len(d) = n.w - n.r
  BY <1>0, <1>1, <1>3, <1>6 DEF z
<1> QED BY <1>0, <1>2, <1>3, <1>4, <1>6, <1>7 DEF InOrder

(* buf_prepend puts bytes into the reserve.                                *)
LEMMA PrependInOrder ==
    ASSUME NEW m, NEW b, NEW c, InOrder(m, b, c), NEW d \in Seq(Byte), Len(d) <= b.r,
           NEW n, n = [b EXCEPT !.r = @ - Len(d)]
    PROVE  InOrder(Stored(m, b.base + b.r - Len(d), d), n, d \o c) /\ n.sz = b.sz
<1>0. /\ b \in BufRec /\ b.base = 0
      /\ m \in [0 .. b.sz - 1 -> Byte] /\ c \in Seq(Byte)
      /\ b.r <= b.w /\ b.w <= b.sz /\ b.p <= b.sz
      /\ Len(c) = b.w - b.r /\ At(m, b.r, c)
  BY DEF InOrder
<1>1. /\ b.r \in Nat /\ b.w \in Nat /\ b.sz \in Nat /\ b.p \in Nat
      /\ Len(c) \in Nat /\ Len(d) \in Nat
  BY <1>0, Fields, LenProperties
<1> DEFINE i == b.r - Len(d)
           m2 == Stored(m, i, d)
<1>2. i \in Nat /\ i + Len(d) = b.r /\ i + Len(d) <= b.sz /\ b.base + b.r - Len(d) = i
  BY <1>0, <1>1
<1>3. n \in BufRec /\ n.r = i /\ n.w = b.w /\ n.sz = b.sz /\ n.p = b.p /\ n.base = 0
  BY <1>0, <1>2 DEF BufRec
<1> HIDE DEF i
<1>4. /\ m2 \in [0 .. b.sz - 1 -> Byte] /\ At(m2, i, d)
      /\ \A k \in 0 .. b.sz - 1 : k < i \/ k >= i + Len(d) => m2[k] = m[k]
  <2>1. b.sz \in Nat /\ m \in [0 .. b.sz - 1 -> Byte]
    BY <1>0, <1>1
  <2> QED BY <1>2, <2>1, StoredBytes
<1> HIDE DEF m2
<1>5. At(m2, i + Len(d), c)
  <2> SUFFICES ASSUME NEW k \in 1 .. Len(c) PROVE m2[b.r + k - 1] = c[k]
    BY <1>2 DEF At
  <2>0. b.w <= b.sz /\ Len(c) = b.w - b.r /\ b.r <= b.w
    BY <1>0
  <2>1. b.r + k - 1 \in 0 .. b.sz - 1 /\ b.r + k - 1 >= i + Len(d)
    BY <1>1, <1>2, <2>0
  <2>2. m[b.r + k - 1] = c[k]
    BY <1>0 DEF At
  <2> QED BY <1>4, <2>1, <2>2
<1>6. At(m2, i, d \o c) /\ d \o c \in Seq(Byte) /\ Len(d \o c) = Len(d) + Len(c)
  <2>1. i \in Nat /\ At(m2, i, d) /\ c \in Seq(Byte)
    BY <1>0, <1>2, <1>4
  <2> QED BY <1>5, <2>1, AtConcat
<1>7. n.r <= n.w /\ n.w <= n.sz /\ n.p <= n.sz /\ Len(d \o c) = n.w - n.r
  BY <1>0, <1>1, <1>2, <1>3, <1>6
<1>8. InOrder(m2, n, d \o c)
  BY <1>3, <1>4, <1>6, <1>7 DEF InOrder
<1> QED BY <1>2, <1>3, <1>8 DEF m2

(* buf_shrink, and what it leaves when bytes had been retrieved.           *)
LEMMA ShrinkInOrder ==
    ASSUME NEW m, NEW b, NEW c, InOrder(m, b, c), NEW reserve \in Nat
    PROVE  LET n == buf_swap([m |-> m, b |-> b], b.p + buf_readable(b) + reserve)
           IN  /\ n.b \in BufRec /\ n.b.base = 0 /\ n.m \in [0 .. n.b.sz - 1 -> Byte]
               /\ b.r = b.p => InOrder(n.m, n.b, c)
<1>0. /\ b \in BufRec /\ b.base = 0 /\ c \in Seq(Byte)
      /\ b.r <= b.w /\ Len(c) = b.w - b.r
  BY DEF InOrder
<1>1. b.r \in Nat /\ b.w \in Nat /\ b.p \in Nat /\ Len(c) \in Nat
  BY <1>0, Fields, LenProperties
<1> DEFINE nsz == b.p + buf_readable(b) + reserve
           n == buf_swap([m |-> m, b |-> b], nsz)
<1>2. nsz \in Nat /\ nsz = b.p + Len(c) + reserve /\ b.p + Len(c) <= nsz
  BY <1>0, <1>1 DEF buf_readable
<1> HIDE DEF nsz
<1>3. n.b = [b EXCEPT !.sz = nsz] /\ n.m = Stored(Zeroed(nsz), b.p, c)
  BY InOrderReads DEF buf_swap
<1> HIDE DEF n
<1>4. /\ n.b \in BufRec /\ n.b.r = b.r /\ n.b.w = b.w /\ n.b.sz = nsz /\ n.b.p = b.p /\ n.b.base = 0
  BY <1>0, <1>2, <1>3 DEF BufRec
<1>5. Zeroed(nsz) \in [0 .. nsz - 1 -> Byte]
  BY <1>2, ZeroedBytes
<1>6. n.m \in [0 .. nsz - 1 -> Byte]
  BY <1>0, <1>1, <1>2, <1>3, <1>5, StoredBytes
<1>7. ASSUME b.r = b.p PROVE InOrder(n.m, n.b, c)
  <2>1. n.b.w = n.b.p + Len(c) /\ n.b.w <= n.b.sz
    BY <1>0, <1>1, <1>2, <1>4, <1>7
  <2>2. /\ n.b \in BufRec /\ c \in Seq(Byte) /\ Zeroed(nsz) \in [0 .. n.b.sz - 1 -> Byte]
        /\ n.b.base = 0 /\ n.b.r = n.b.p /\ n.m = Stored(Zeroed(nsz), n.b.p, c)
    BY <1>0, <1>3, <1>4, <1>5, <1>7
  <2> QED BY <2>1, <2>2, RelocatedInOrder
<1> QED BY <1>4, <1>6, <1>7 DEF n, nsz

(* A view of the first k bytes.                                            *)
LEMMA ViewSound ==
    ASSUME NEW m, NEW b, NEW c, Sound(m, b, c), NEW k \in Nat, k <= b.w - b.r,
           NEW n, n = [r |-> 0, w |-> k, sz |-> k, p |-> 0, base |-> b.base + b.r]
    PROVE  Sound(m, n, SubSeq(c, 1, k)) /\ n.base + n.sz <= b.base + b.sz
<1>0. /\ b \in BufRec /\ c \in Seq(Byte) /\ b.r <= b.w /\ b.w <= b.sz
      /\ Len(c) = b.w - b.r /\ At(m, b.base + b.r, c)
  BY DEF Sound
<1>1. b.r \in Nat /\ b.w \in Nat /\ b.sz \in Nat /\ b.base \in Nat
  BY <1>0, Fields
<1> DEFINE i == b.base + b.r
           d == SubSeq(c, 1, k)
<1>2. i \in Nat /\ k <= Len(c)
  BY <1>0, <1>1
<1>3. n \in BufRec /\ n.r = 0 /\ n.w = k /\ n.sz = k /\ n.p = 0 /\ n.base = i
  BY <1>1 DEF BufRec
<1> HIDE DEF i
<1>4. At(m, i, d) /\ d \in Seq(Byte) /\ Len(d) = k
  <2>1. i \in Nat /\ c \in Seq(Byte) /\ At(m, i, c)
    BY <1>0, <1>2 DEF i
  <2> QED BY <1>2, <2>1, AtFront
<1>5. d = SubSeq(c, 1, k)
  OBVIOUS
<1> HIDE DEF d
<1>6. n.r <= n.w /\ n.w <= n.sz /\ n.p <= n.sz /\ Len(d) = n.w - n.r /\ n.base + n.r = i
  BY <1>2, <1>3, <1>4
<1>7. Sound(m, n, d)
  BY <1>2, <1>3, <1>4, <1>6 DEF Sound
<1>8. n.base + n.sz <= b.base + b.sz
  BY <1>0, <1>1, <1>3 DEF i
<1> QED BY <1>5, <1>7, <1>8
-----------------------------------------------------------------------------
(* A buffer in use is sound, and the root's memory is in order.            *)
LEMMA LiveSound ==
    ASSUME IInv, status = "ok", NEW x \in Live
    PROVE  /\ Sound(mem, buf[x], contents[x]) /\ x \in Bufs
           /\ buf[x].base + buf[x].sz <= buf[root].sz
<1>1. x \in Bufs
  BY DEF Live
<1>2. buf[x] \in BufRec /\ contents[x] \in Seq(Byte)
  BY <1>1 DEF IInv, FieldInv
<1>3. /\ buf[x].r <= buf[x].w /\ buf[x].w <= buf[x].sz /\ buf[x].p <= buf[x].sz
      /\ buf[x].base + buf[x].sz <= buf[root].sz
  BY DEF IInv, IndexInv
<1>4. Bytes(mem, buf[x]) = contents[x]
  BY DEF IInv, ReadInv
<1>5. Len(contents[x]) = buf[x].w - buf[x].r /\ At(mem, buf[x].base + buf[x].r, contents[x])
  BY <1>2, <1>3, <1>4, BytesAre
<1> QED BY <1>1, <1>2, <1>3, <1>5 DEF Sound

(* The root in particular.                                                 *)
LEMMA RootInOrder ==
    ASSUME IInv, status = "ok"
    PROVE  /\ InOrder(mem, buf[root], contents[root]) /\ buf[root].sz <= MaxSz
           /\ root \in Live /\ root \in Bufs
<1>1. root \in Live /\ root \in Bufs
  BY DEF Live, Bufs
<1>2. Sound(mem, buf[root], contents[root])
  BY <1>1, LiveSound
<1>3. mem \in [0 .. buf[root].sz - 1 -> Byte] /\ buf[root].base = 0 /\ buf[root].sz <= MaxSz
  BY DEF IInv, FieldInv
<1>4. buf[root].base + buf[root].r = buf[root].r
  BY <1>2, <1>3, Fields DEF Sound
<1> QED BY <1>1, <1>2, <1>3, <1>4 DEF Sound, InOrder

(* The root is locked by any view, however deep it is nested: from each    *)
(* view the sources lead to the root, so one of them is the root's own.    *)
LEMMA RootAlone ==
    ASSUME IInv, ~buf_writeLocked(root)
    PROVE  Live = {root} /\ refcount[root] = 0
<1>1. IsFiniteSet(Views)
  BY BufferAssumption
<1>2. refcount[root] = 0
  <2>1. refcount[root] \in 0 .. Cardinality(Views) /\ Cardinality(Views) \in Nat
    BY <1>1, FS_CardinalityType DEF IInv, CountInv, Bufs
  <2> QED BY <2>1 DEF buf_writeLocked
<1> DEFINE own == {v \in Views : src[v] = root}
<1>3. own = {}
  <2>1. Cardinality(own) = 0
    BY <1>2 DEF IInv, CountInv, Bufs
  <2>2. IsFiniteSet(own)
    BY <1>1, FS_Subset
  <2> QED BY <2>1, <2>2, FS_EmptySet
<1>4. Live \ {root} = {}
  <2> SUFFICES ASSUME Live \ {root} # {} PROVE FALSE
    OBVIOUS
  <2>1. PICK v \in Live \ {root} : src[v] \notin Live \ {root}
    BY DEF IInv, TreeInv
  <2>2. src[v] = root /\ v \in Views
    BY <2>1 DEF IInv, TreeInv, Live, Bufs
  <2> QED BY <1>3, <2>2
<1> QED BY <1>2, <1>4 DEF Live, Bufs

(* A call that makes and releases no view leaves the tree of views.        *)
LEMMA LinksSame ==
    ASSUME IInv, status = "ok", UNCHANGED links
    PROVE  Live' = Live /\ TreeInv' /\ CountInv' /\ CacheInv'
<1>1. src' = src /\ refcount' = refcount /\ cache' = cache /\ alloc' = alloc
  BY DEF links
<1>2. Live' = Live
  BY <1>1 DEF Live
<1>3. TreeInv'
  BY <1>1, <1>2 DEF IInv, TreeInv
<1>4. CountInv'
  BY <1>1 DEF IInv, CountInv
<1>5. CacheInv'
  BY <1>1, <1>2 DEF IInv, CacheInv
<1> QED BY <1>2, <1>3, <1>4, <1>5

(* A call that writes to the unlocked root and leaves its memory in order. *)
LEMMA RootStep ==
    ASSUME IInv, status = "ok", status' = "ok", ~buf_writeLocked(root), UNCHANGED links,
           NEW n, NEW d, buf' = [buf EXCEPT ![root] = n],
           contents' = [contents EXCEPT ![root] = d],
           InOrder(mem', n, d), n.sz <= MaxSz
    PROVE  IInv'
<1>1. Live' = Live /\ TreeInv' /\ CountInv' /\ CacheInv' /\ Live = {root}
  BY LinksSame, RootAlone
<1>2. /\ n \in BufRec /\ n.base = 0 /\ mem' \in [0 .. n.sz - 1 -> Byte] /\ d \in Seq(Byte)
      /\ n.r <= n.w /\ n.w <= n.sz /\ n.p <= n.sz
  BY DEF InOrder
<1>3. buf \in [Bufs -> BufRec] /\ contents \in [Bufs -> Seq(Byte)] /\ root \in Bufs
  BY DEF IInv, FieldInv, Bufs
<1>4. buf'[root] = n /\ contents'[root] = d
  BY <1>3
<1>5. buf' \in [Bufs -> BufRec] /\ contents' \in [Bufs -> Seq(Byte)]
  BY <1>2, <1>3
<1>6. FieldInv'
  BY <1>2, <1>4, <1>5 DEF FieldInv
<1>7. IndexInv'
  <2>1. n.sz \in Nat /\ n.base + n.sz <= n.sz
    BY <1>2, Fields
  <2> QED BY <1>1, <1>2, <1>4, <2>1 DEF IndexInv
<1>8. ReadInv'
  <2>1. Bytes(mem', n) = d
    BY InOrderReads
  <2> QED BY <1>1, <1>4, <2>1 DEF ReadInv
<1>9. AbortsOnlyAfterPrepend'
  BY DEF AbortsOnlyAfterPrepend
<1> QED BY <1>1, <1>6, <1>7, <1>8, <1>9 DEF IInv

(* buf_append to the root, or to the root with bytes already put in place. *)
LEMMA AppendsStep ==
    ASSUME IInv, status = "ok", ~buf_writeLocked(root),
           NEW m, NEW b, NEW before, NEW d \in Seq(Byte),
           InOrder(m, b, contents[root] \o before), b.sz <= MaxSz,
           b.r = buf[root].r, b.p = buf[root].p,
           Appends([m |-> m, b |-> b], before, d)
    PROVE  IInv'
<1> DEFINE s == [m |-> m, b |-> b]
           c == contents[root] \o before
<1>1. Len(d) \in Nat /\ b.r \in Nat /\ b.p \in Nat /\ b.w \in Nat /\ b.sz \in Nat
  BY LenProperties, Fields DEF InOrder
<1>2. b.w + Len(d) <= MaxSz
  BY DEF Appends, NewSize
<1>3. CASE AssertFails(s, Len(d))
  <2>1. status' = "aborted" /\ UNCHANGED <<mem, buf, links, contents>>
    BY <1>3 DEF Appends
  <2>2. b.r < b.p
    BY <1>1, <1>3, AssertsHold
  <2>3. Live' = Live /\ TreeInv' /\ CountInv' /\ CacheInv'
    BY <2>1, LinksSame
  <2>4. FieldInv'
    BY <2>1 DEF IInv, FieldInv
  <2>5. IndexInv'
    BY <2>1, <2>3 DEF IInv, IndexInv
  <2>6. ReadInv'
    BY <2>1, <2>3 DEF IInv, ReadInv
  <2>7. AbortsOnlyAfterPrepend'
    BY <2>1, <2>2 DEF AbortsOnlyAfterPrepend
  <2> QED BY <2>3, <2>4, <2>5, <2>6, <2>7 DEF IInv
<1>4. CASE ~AssertFails(s, Len(d))
  <2> DEFINE e == buf_ensureWritable(s, Len(d))
             n == Written(e, d)
  <2>1. /\ mem' = n.m /\ buf' = [buf EXCEPT ![root] = n.b]
        /\ contents' = [contents EXCEPT ![root] = @ \o before \o d]
        /\ UNCHANGED <<links, status>>
    BY <1>4 DEF Appends
  <2>2. /\ InOrder(e.m, e.b, c) /\ e.b.w + Len(d) <= e.b.sz
        /\ e.b.sz = b.sz \/ e.b.sz = b.w + Len(d)
    BY <1>1, <1>4, EnsureInOrder
  <2>3. Written([m |-> e.m, b |-> e.b], d) = n
    BY DEF Written
  <2> HIDE DEF e, n, c
  <2>4. InOrder(n.m, n.b, c \o d) /\ n.b = [e.b EXCEPT !.w = @ + Len(d)]
    <3>1. InOrder(e.m, e.b, c) /\ e.b.w + Len(d) <= e.b.sz
      BY <2>2
    <3> DEFINE f == Written([m |-> e.m, b |-> e.b], d)
    <3>2. InOrder(f.m, f.b, c \o d) /\ f.b = [e.b EXCEPT !.w = @ + Len(d)]
      BY ONLY <3>1, d \in Seq(Byte), WrittenInOrder
    <3> QED BY <2>3, <3>2
  <2>5. n.b.sz <= MaxSz
    <3>1. n.b.sz = e.b.sz
      BY <2>2, <2>4 DEF InOrder, BufRec
    <3> QED BY <1>2, <2>2, <3>1
  <2>6. contents' = [contents EXCEPT ![root] = c \o d] /\ status' = "ok" /\ UNCHANGED links
    BY <2>1 DEF c
  <2>7. InOrder(mem', n.b, c \o d) /\ buf' = [buf EXCEPT ![root] = n.b]
    BY <2>1, <2>4
  <2> QED BY <2>5, <2>6, <2>7, RootStep
<1> QED BY <1>3, <1>4

(* What a client passes is a sequence of bytes.                            *)
LEMMA DataBytes ==
    ASSUME NEW d \in Data
    PROVE  d \in Seq(Byte) /\ Len(d) \in Nat
<1>1. PICK k \in 1 .. MaxLen : d \in [1 .. k -> Byte]
  BY DEF Data
<1>2. k \in Nat
  BY BufferAssumption
<1> QED BY <1>1, <1>2, LenProperties

(* buf_append.                                                             *)
LEMMA AppendKeeps ==
    ASSUME IInv, NEW d \in Data, buf_append(d)
    PROVE  IInv'
<1>1. status = "ok" /\ ~buf_writeLocked(root) /\ Appends(Root, <<>>, d)
  BY DEF buf_append
<1>2. d \in Seq(Byte)
  BY DataBytes
<1>3. InOrder(mem, buf[root], contents[root]) /\ buf[root].sz <= MaxSz
  BY <1>1, RootInOrder
<1>4. contents[root] \o <<>> = contents[root]
  BY <1>3, ConcatEmptySeq DEF InOrder
<1>5. Appends([m |-> mem, b |-> buf[root]], <<>>, d)
  BY <1>1 DEF Root
<1>6. InOrder(mem, buf[root], contents[root] \o <<>>)
  BY <1>3, <1>4
<1> QED BY <1>1, <1>2, <1>3, <1>5, <1>6, AppendsStep

(* buf_prepend or buf_has_written on a locked buffer: what is read is      *)
(* given up, the indexes stay in order.                                    *)
LEMMA TroddenStep ==
    ASSUME IInv, status = "ok", status' = "trodden", UNCHANGED links, NEW x \in Live,
           NEW n \in BufRec, buf' = [buf EXCEPT ![x] = n],
           NEW c \in Seq(Byte), contents' = [contents EXCEPT ![x] = c],
           n.r <= n.w, n.w <= n.sz, n.sz = buf[x].sz, n.p = buf[x].p, n.base = buf[x].base,
           NEW i \in Nat, NEW d \in Seq(Byte), mem' = Stored(mem, i, d),
           i + Len(d) <= buf[root].sz
    PROVE  IInv'
<1>1. x \in Bufs /\ buf \in [Bufs -> BufRec] /\ contents \in [Bufs -> Seq(Byte)] /\ root \in Bufs
  BY DEF IInv, FieldInv, Bufs, Live
<1>2. mem' \in [0 .. buf[root].sz - 1 -> Byte]
  <2>1. buf[root].sz \in Nat /\ mem \in [0 .. buf[root].sz - 1 -> Byte]
    BY <1>1, Fields DEF IInv, FieldInv
  <2> QED BY <2>1, StoredBytes
<1>3. buf'[x] = n /\ \A y \in Bufs \ {x} : buf'[y] = buf[y]
  BY <1>1
<1>4. buf'[root].sz = buf[root].sz /\ buf'[root].base = buf[root].base
  BY <1>1, <1>3
<1>5. Live' = Live /\ TreeInv' /\ CountInv' /\ CacheInv' /\ Live \subseteq Bufs
  BY LinksSame DEF Live
<1>6. FieldInv'
  <2>1. buf' \in [Bufs -> BufRec] /\ contents' \in [Bufs -> Seq(Byte)]
    BY <1>1
  <2> QED BY <1>2, <1>4, <2>1 DEF IInv, FieldInv
<1>7. IndexInv'
  <2> SUFFICES ASSUME NEW y \in Live
               PROVE  /\ buf'[y].r <= buf'[y].w /\ buf'[y].w <= buf'[y].sz
                      /\ buf'[y].p <= buf'[y].sz /\ buf'[y].base + buf'[y].sz <= buf'[root].sz
    BY <1>5 DEF IndexInv
  <2>0. buf[y].r <= buf[y].w /\ buf[y].w <= buf[y].sz /\ buf[y].p <= buf[y].sz
        /\ buf[y].base + buf[y].sz <= buf[root].sz
    BY DEF IInv, IndexInv
  <2>1. CASE y = x
    BY <1>3, <1>4, <2>0, <2>1
  <2>2. CASE y # x
    <3>1. buf'[y] = buf[y]
      BY <1>3, <1>5, <2>2
    <3> QED BY <1>4, <2>0, <3>1
  <2> QED BY <2>1, <2>2
<1> QED BY <1>5, <1>6, <1>7 DEF IInv, ReadInv, AbortsOnlyAfterPrepend

(* buf_has_written.                                                        *)
LEMMA HasWrittenKeeps ==
    ASSUME IInv, NEW x \in Live, NEW d \in Data, buf_has_written(x, d)
    PROVE  IInv'
<1> DEFINE c == contents[x]
           b == buf[x]
           n == [b EXCEPT !.w = @ + Len(d)]
           i == b.base + b.w
<1>1. /\ status = "ok" /\ Len(d) <= b.sz - b.w
      /\ contents' = [contents EXCEPT ![x] = c \o d] /\ mem' = Stored(mem, i, d)
      /\ status' = (IF buf_writeLocked(x) THEN "trodden" ELSE status) /\ UNCHANGED links
  BY DEF buf_has_written, buf_writable, Trodden
<1>2. buf' = [buf EXCEPT ![x] = n]
  BY DEF buf_has_written
<1>3. x \in Bufs /\ b \in BufRec
  BY DEF IInv, FieldInv, Bufs, Live
<1>4. d \in Seq(Byte) /\ Len(d) \in Nat
  BY DataBytes
<1>5. CASE ~buf_writeLocked(x)
  <2>1. x = root /\ status' = "ok"
    BY <1>1, <1>5 DEF buf_writeLocked, Live
  <2>2. InOrder(mem, b, c) /\ b.sz <= MaxSz
    BY <1>1, <2>1, RootInOrder
  <2>3. b.w \in Nat /\ b.sz \in Nat /\ b.base = 0
    BY <1>3, <2>2, Fields DEF InOrder
  <2>4. b.w + Len(d) <= b.sz
    BY <1>1, <1>4, <2>3
  <2> DEFINE w == Written([m |-> mem, b |-> b], d)
  <2>5. w.m = Stored(mem, i, d) /\ w.b = n
    <3>1. i = b.w
      BY <2>3
    <3> HIDE DEF i
    <3> QED BY <3>1 DEF Written
  <2>6. InOrder(w.m, w.b, c \o d) /\ n.sz = b.sz
    <3>1. InOrder(w.m, w.b, c \o d)
      <4> HIDE DEF b, c
      <4> QED BY ONLY <1>4, <2>2, <2>4, WrittenInOrder
    <3>2. n.sz = b.sz
      BY <1>3 DEF BufRec
    <3> QED BY <3>1, <3>2
  <2> HIDE DEF w, n, c
  <2>7. /\ InOrder(mem', n, c \o d) /\ n.sz <= MaxSz
        /\ buf' = [buf EXCEPT ![root] = n] /\ contents' = [contents EXCEPT ![root] = c \o d]
        /\ ~buf_writeLocked(root)
    BY <1>1, <1>2, <1>5, <2>1, <2>2, <2>5, <2>6
  <2> QED BY <1>1, <2>1, <2>7, RootStep
<1>6. CASE buf_writeLocked(x)
  <2>1. Sound(mem, b, c) /\ b.base + b.sz <= buf[root].sz
    BY <1>1, LiveSound
  <2>2. /\ c \in Seq(Byte) /\ b.r <= b.w /\ b.w <= b.sz
        /\ b.r \in Nat /\ b.w \in Nat /\ b.sz \in Nat /\ b.base \in Nat
    BY <2>1, Fields DEF Sound
  <2>3. /\ n \in BufRec /\ n.r = b.r /\ n.w = b.w + Len(d) /\ n.sz = b.sz
        /\ n.p = b.p /\ n.base = b.base
    <3>1. b.w + Len(d) \in Nat
      BY <1>4, <2>2
    <3> HIDE DEF b
    <3> QED BY <1>3, <3>1 DEF BufRec
  <2>4. c \o d \in Seq(Byte)
    BY <1>4, <2>2, ConcatProperties
  <2>5. i \in Nat /\ i + Len(d) <= buf[root].sz /\ n.r <= n.w /\ n.w <= n.sz
    <3>0. buf[root].sz \in Nat
      BY Fields DEF IInv, FieldInv, Bufs
    <3>1. Len(d) <= b.sz - b.w /\ b.base + b.sz <= buf[root].sz
      BY <1>1, <2>1
    <3> HIDE DEF b, n
    <3>2. /\ i \in Nat /\ i + Len(d) <= buf[root].sz
          /\ b.r <= b.w + Len(d) /\ b.w + Len(d) <= b.sz
      <4>1. PICK B \in Nat, R \in Nat, W \in Nat, S \in Nat, T \in Nat, L \in Nat :
               /\ B = b.base /\ R = b.r /\ W = b.w /\ S = b.sz /\ T = buf[root].sz /\ L = Len(d)
               /\ L <= S - W /\ B + S <= T /\ R <= W /\ W <= S
        BY ONLY <1>4, <2>2, <3>0, <3>1
      <4>2. B + W \in Nat /\ (B + W) + L <= T /\ R <= W + L /\ W + L <= S
        <5>1. L <= S - W /\ B + S <= T /\ R <= W /\ W <= S
          BY <4>1
        <5> QED BY ONLY <5>1, B \in Nat, R \in Nat, W \in Nat, S \in Nat, T \in Nat, L \in Nat
      <4> QED BY ONLY <4>1, <4>2
    <3> QED BY <2>3, <3>2
  <2>6. status' = "trodden"
    BY <1>1, <1>6
  <2> HIDE DEF n, c, i
  <2> QED BY <1>1, <1>2, <1>4, <2>3, <2>4, <2>5, <2>6, TroddenStep
<1> QED BY <1>5, <1>6

(* buf_readFd, in one part or in two.                                      *)
LEMMA ReadFdKeeps ==
    ASSUME IInv, NEW d \in Data, buf_readFd(d)
    PROVE  IInv'
<1> DEFINE fit == buf_writable(buf[root])
           d1 == SubSeq(d, 1, fit)
           d2 == SubSeq(d, fit + 1, Len(d))
           c == contents[root]
<1>1. CASE Len(d) <= fit /\ buf_has_written(root, d)
  <2>1. root \in Live
    BY DEF Live, Bufs
  <2> QED BY <1>1, <2>1, HasWrittenKeeps
<1>2. CASE /\ status = "ok" /\ ~buf_writeLocked(root) /\ Len(d) > fit
           /\ Appends(Written(Root, d1), d1, d2)
  <2>1. d \in Seq(Byte) /\ Len(d) \in Nat /\ \A k \in 1 .. Len(d) : d[k] \in Byte
    BY DataBytes, ElementOfSeq
  <2>2. InOrder(mem, buf[root], c) /\ buf[root].sz <= MaxSz
    BY <1>2, RootInOrder
  <2>3. /\ buf[root] \in BufRec /\ buf[root].w \in Nat /\ buf[root].sz \in Nat
        /\ buf[root].w <= buf[root].sz
    BY <2>2, Fields DEF InOrder
  <2>4. fit \in Nat /\ fit < Len(d) /\ buf[root].w + fit = buf[root].sz
    BY <1>2, <2>1, <2>3 DEF buf_writable
  <2> HIDE DEF fit, c
  <2>5. d1 \in Seq(Byte) /\ Len(d1) = fit
    <3>1. 1 \in Int /\ fit \in Int /\ \A k \in 1 .. fit : d[k] \in Byte
      BY <2>1, <2>4
    <3>2. d1 \in Seq(Byte) /\ Len(d1) = IF 1 <= fit THEN fit - 1 + 1 ELSE 0
      BY <3>1, SubSeqProperties
    <3> HIDE DEF d1
    <3> QED BY <2>4, <3>2
  <2>6. d2 \in Seq(Byte)
    <3>1. fit + 1 \in Int /\ Len(d) \in Int /\ \A k \in fit + 1 .. Len(d) : d[k] \in Byte
      BY <2>1, <2>4
    <3> QED BY <3>1, SubSeqProperties
  <2> HIDE DEF d1, d2
  <2> DEFINE n == Written([m |-> mem, b |-> buf[root]], d1)
  <2>7. buf[root].w + Len(d1) <= buf[root].sz
    BY <2>3, <2>4, <2>5
  <2>8. InOrder(n.m, n.b, c \o d1) /\ n.b = [buf[root] EXCEPT !.w = @ + Len(d1)]
    BY ONLY <2>2, <2>5, <2>7, WrittenInOrder
  <2>9. n.b.sz <= MaxSz /\ n.b.r = buf[root].r /\ n.b.p = buf[root].p
    BY <2>2, <2>3, <2>8 DEF BufRec
  <2>10. n = [m |-> n.m, b |-> n.b] /\ n = Written(Root, d1)
    BY DEF Written, Root
  <2> HIDE DEF n
  <2>11. Appends([m |-> n.m, b |-> n.b], d1, d2) /\ status = "ok" /\ ~buf_writeLocked(root)
    BY <1>2, <2>10
  <2>12. InOrder(n.m, n.b, contents[root] \o d1)
    BY <2>8 DEF c
  <2> QED BY <2>6, <2>9, <2>11, <2>12, AppendsStep
<1> QED BY <1>1, <1>2 DEF buf_readFd

(* buf_unwrite.                                                            *)
LEMMA UnwriteKeeps ==
    ASSUME IInv, NEW len \in 1 .. MaxLen, buf_unwrite(len)
    PROVE  IInv'
<1> DEFINE c == contents[root]
           b == buf[root]
           n == [b EXCEPT !.w = @ - len]
           d == SubSeq(c, 1, Len(c) - len)
<1>1. /\ status = "ok" /\ ~buf_writeLocked(root) /\ len <= b.w - b.r
      /\ contents' = [contents EXCEPT ![root] = d]
      /\ mem' = mem /\ UNCHANGED links /\ status' = "ok"
  BY DEF buf_unwrite, buf_readable
<1>2. buf' = [buf EXCEPT ![root] = n]
  BY DEF buf_unwrite
<1>3. InOrder(mem, b, c) /\ b.sz <= MaxSz /\ len \in Nat
  BY <1>1, RootInOrder, BufferAssumption
<1>4. InOrder(mem, n, d) /\ n.sz = b.sz
  <2> HIDE DEF b, c
  <2> QED BY ONLY <1>1, <1>3, UnwriteInOrder
<1> HIDE DEF n, d
<1>5. InOrder(mem', n, d) /\ n.sz <= MaxSz
  BY <1>1, <1>3, <1>4
<1> QED BY <1>1, <1>2, <1>5, RootStep

(* buf_shrink.                                                             *)
LEMMA ShrinkKeeps ==
    ASSUME IInv, NEW reserve \in Nat, buf_shrink(reserve)
    PROVE  IInv'
<1> DEFINE c == contents[root]
           b == buf[root]
           n == buf_swap([m |-> mem, b |-> b], b.p + buf_readable(b) + reserve)
<1>1. /\ status = "ok" /\ ~buf_writeLocked(root) /\ n.b.sz <= MaxSz
      /\ mem' = n.m /\ buf' = [buf EXCEPT ![root] = n.b]
      /\ status' = (IF b.r # b.p THEN "skewed" ELSE status)
      /\ UNCHANGED links /\ contents' = contents
  BY DEF buf_shrink, Root
<1>2. InOrder(mem, b, c)
  BY <1>1, RootInOrder
<1>3. contents \in [Bufs -> Seq(Byte)] /\ buf \in [Bufs -> BufRec] /\ root \in Bufs
  BY DEF IInv, FieldInv, Bufs
<1>4. contents' = [contents EXCEPT ![root] = c]
  BY <1>1, <1>3
<1>5. /\ n.b \in BufRec /\ n.b.base = 0 /\ n.m \in [0 .. n.b.sz - 1 -> Byte]
      /\ b.r = b.p => InOrder(n.m, n.b, c)
  <2> HIDE DEF b, c
  <2> QED BY ONLY <1>2, reserve \in Nat, ShrinkInOrder
<1> HIDE DEF n
<1>6. CASE b.r = b.p
  <2>1. InOrder(mem', n.b, c) /\ status' = "ok"
    BY <1>1, <1>5, <1>6
  <2> HIDE DEF c
  <2> QED BY <1>1, <1>4, <2>1, RootStep
<1>7. CASE b.r # b.p
  <2>1. status' = "skewed"
    BY <1>1, <1>7
  <2>2. Live' = Live /\ TreeInv' /\ CountInv' /\ CacheInv'
    BY <1>1, LinksSame
  <2>3. buf'[root] = n.b /\ buf' \in [Bufs -> BufRec]
    BY <1>1, <1>3, <1>5
  <2>4. FieldInv'
    BY <1>1, <1>3, <1>5, <2>1, <2>3 DEF FieldInv
  <2> QED BY <2>1, <2>2, <2>4 DEF IInv, IndexInv, ReadInv, AbortsOnlyAfterPrepend
<1> QED BY <1>6, <1>7

(* buf_retrieve, from the root or from a view: the memory stays, and so do *)
(* the other buffers that share it.                                        *)
LEMMA RetrieveKeeps ==
    ASSUME IInv, NEW x \in Live, NEW len \in Nat, buf_retrieve(x, len)
    PROVE  IInv'
<1> DEFINE c == contents[x]
           b == buf[x]
           n == Retrieved(b, len)
           d == Left(c, len)
<1>1. /\ status = "ok" /\ len <= b.w - b.r
      /\ contents' = [contents EXCEPT ![x] = d]
      /\ mem' = mem /\ UNCHANGED links /\ status' = "ok"
  BY DEF buf_retrieve, buf_readable, Left
<1>2. x \in Bufs /\ buf \in [Bufs -> BufRec] /\ contents \in [Bufs -> Seq(Byte)] /\ root \in Bufs
  BY DEF IInv, FieldInv, Bufs, Live
<1>3. buf' = [buf EXCEPT ![x] = n]
  <2>1. CASE len < b.w - b.r
    BY <2>1 DEF buf_retrieve, buf_readable, Retrieved
  <2>2. CASE ~(len < b.w - b.r)
    <3>1. buf' = [buf EXCEPT ![x].r = b.p, ![x].w = b.p]
      BY <2>2 DEF buf_retrieve, buf_readable
    <3>2. [buf EXCEPT ![x].r = b.p, ![x].w = b.p] = [buf EXCEPT ![x] = [b EXCEPT !.r = b.p, !.w = b.p]]
      BY <1>2 DEF BufRec
    <3> QED BY <2>2, <3>1, <3>2 DEF Retrieved
  <2> QED BY <2>1, <2>2
<1>4. Sound(mem, b, c) /\ b.base + b.sz <= buf[root].sz
  BY <1>1, LiveSound
<1>5. Sound(mem, n, d) /\ n.base = b.base /\ n.sz = b.sz
  <2>1. len <= b.w - b.r /\ Sound(mem, b, c)
    BY <1>1, <1>4
  <2> QED BY <2>1, RetrieveSound
<1>6. n \in BufRec /\ d \in Seq(Byte) /\ n.r <= n.w /\ n.w <= n.sz /\ n.p <= n.sz
  BY <1>5 DEF Sound
<1> HIDE DEF n, d
<1>7. buf'[x] = n /\ contents'[x] = d /\ \A y \in Bufs \ {x} : buf'[y] = buf[y] /\ contents'[y] = contents[y]
  BY <1>1, <1>2, <1>3
<1>8. Live' = Live /\ TreeInv' /\ CountInv' /\ CacheInv' /\ Live \subseteq Bufs
  BY <1>1, LinksSame DEF Live
<1>9. buf'[root].sz = buf[root].sz /\ buf'[root].base = buf[root].base
  BY <1>2, <1>5, <1>7
<1>10. FieldInv'
  <2>1. buf' \in [Bufs -> BufRec] /\ contents' \in [Bufs -> Seq(Byte)]
    BY <1>1, <1>2, <1>3, <1>6
  <2> QED BY <1>1, <1>9, <2>1 DEF IInv, FieldInv
<1>11. IndexInv'
  <2> SUFFICES ASSUME NEW y \in Live
               PROVE  /\ buf'[y].r <= buf'[y].w /\ buf'[y].w <= buf'[y].sz /\ buf'[y].p <= buf'[y].sz
                      /\ buf'[y].base + buf'[y].sz <= buf'[root].sz
    BY <1>8 DEF IndexInv
  <2>1. CASE y = x
    BY <1>4, <1>5, <1>6, <1>7, <1>9, <2>1
  <2>2. CASE y # x
    <3>1. buf'[y] = buf[y]
      BY <1>7, <1>8, <2>2
    <3> QED BY <1>1, <1>9, <3>1 DEF IInv, IndexInv
  <2> QED BY <2>1, <2>2
<1>12. ReadInv'
  <2> SUFFICES ASSUME NEW y \in Live PROVE Bytes(mem', buf'[y]) = contents'[y]
    BY <1>8 DEF ReadInv
  <2>1. CASE y = x
    BY <1>1, <1>5, <1>7, <2>1, SoundReads
  <2>2. CASE y # x
    <3>1. buf'[y] = buf[y] /\ contents'[y] = contents[y]
      BY <1>7, <1>8, <2>2
    <3> QED BY <1>1, <3>1 DEF IInv, ReadInv
  <2> QED BY <2>1, <2>2
<1> QED BY <1>1, <1>8, <1>10, <1>11, <1>12 DEF IInv, AbortsOnlyAfterPrepend

(* buf_prepend.                                                            *)
LEMMA PrependKeeps ==
    ASSUME IInv, NEW x \in Live, NEW d \in Data, buf_prepend(x, d)
    PROVE  IInv'
<1> DEFINE c == contents[x]
           b == buf[x]
           n == [b EXCEPT !.r = @ - Len(d)]
           i == b.base + b.r - Len(d)
<1>1. /\ status = "ok" /\ Len(d) <= b.r
      /\ contents' = [contents EXCEPT ![x] = d \o c] /\ mem' = Stored(mem, i, d)
      /\ status' = (IF buf_writeLocked(x) THEN "trodden" ELSE status) /\ UNCHANGED links
  BY DEF buf_prepend, buf_prependable, Trodden
<1>2. buf' = [buf EXCEPT ![x] = n]
  BY DEF buf_prepend
<1>3. x \in Bufs /\ buf \in [Bufs -> BufRec] /\ contents \in [Bufs -> Seq(Byte)] /\ root \in Bufs
  BY DEF IInv, FieldInv, Bufs, Live
<1>4. d \in Seq(Byte) /\ Len(d) \in Nat
  BY DataBytes
<1>5. CASE ~buf_writeLocked(x)
  <2>1. x = root /\ status' = "ok"
    BY <1>1, <1>5 DEF buf_writeLocked, Live
  <2>2. InOrder(mem, b, c) /\ b.sz <= MaxSz
    BY <1>1, <2>1, RootInOrder
  <2>3. InOrder(Stored(mem, i, d), n, d \o c) /\ n.sz = b.sz
    <3>1. Len(d) <= b.r
      BY <1>1
    <3> HIDE DEF b, c
    <3> QED BY ONLY <1>4, <2>2, <3>1, PrependInOrder
  <2> HIDE DEF n, c
  <2>4. /\ InOrder(mem', n, d \o c) /\ n.sz <= MaxSz
        /\ buf' = [buf EXCEPT ![root] = n] /\ contents' = [contents EXCEPT ![root] = d \o c]
        /\ ~buf_writeLocked(root)
    BY <1>1, <1>2, <1>5, <2>1, <2>2, <2>3
  <2> QED BY <1>1, <2>1, <2>4, RootStep
<1>6. CASE buf_writeLocked(x)
  <2>1. status' = "trodden"
    BY <1>1, <1>6
  <2>2. Sound(mem, b, c) /\ b.base + b.sz <= buf[root].sz
    BY <1>1, LiveSound
  <2>3. /\ b \in BufRec /\ c \in Seq(Byte) /\ b.r <= b.w /\ b.w <= b.sz /\ b.p <= b.sz
        /\ b.r \in Nat /\ b.w \in Nat /\ b.sz \in Nat /\ b.base \in Nat
    BY <2>2, Fields DEF Sound
  <2>4. n \in BufRec /\ n.r = b.r - Len(d) /\ n.w = b.w /\ n.sz = b.sz /\ n.p = b.p /\ n.base = b.base
    <3>1. b.r - Len(d) \in Nat
      BY <1>1, <1>4, <2>3
    <3> HIDE DEF b
    <3> QED BY <2>3, <3>1 DEF BufRec
  <2>5. i \in Nat /\ i + Len(d) <= buf[root].sz /\ n.r <= n.w /\ n.w <= n.sz
    <3>0. buf[root].sz \in Nat
      BY Fields DEF IInv, FieldInv, Bufs
    <3>1. Len(d) <= b.r
      BY <1>1
    <3>2. /\ b.r \in Nat /\ b.w \in Nat /\ b.sz \in Nat /\ b.base \in Nat
          /\ b.r <= b.w /\ b.w <= b.sz /\ b.base + b.sz <= buf[root].sz
      BY <2>2, <2>3
    <3> HIDE DEF b, n
    <3>3. i \in Nat /\ i + Len(d) <= buf[root].sz /\ b.r - Len(d) <= b.w
      <4>1. PICK B \in Nat, R \in Nat, W \in Nat, S \in Nat, T \in Nat, L \in Nat :
               /\ B = b.base /\ R = b.r /\ W = b.w /\ S = b.sz /\ T = buf[root].sz /\ L = Len(d)
               /\ L <= R /\ B + S <= T /\ R <= W /\ W <= S
        BY ONLY <1>4, <3>0, <3>1, <3>2
      <4>2. B + R - L \in Nat /\ (B + R - L) + L <= T /\ R - L <= W
        <5>1. L <= R /\ B + S <= T /\ R <= W /\ W <= S
          BY <4>1
        <5> QED BY ONLY <5>1, B \in Nat, R \in Nat, W \in Nat, S \in Nat, T \in Nat, L \in Nat
      <4> QED BY ONLY <4>1, <4>2
    <3> QED BY <2>4, <3>2, <3>3
  <2>6. d \o c \in Seq(Byte)
    BY <1>4, <2>3, ConcatProperties
  <2> HIDE DEF n, c, i
  <2> QED BY <1>1, <1>2, <1>4, <2>1, <2>4, <2>5, <2>6, TroddenStep
<1> QED BY <1>5, <1>6
-----------------------------------------------------------------------------
(* The counts when src of one struct v changes, in terms of the sets of    *)
(* views that have a given source.                                         *)
LEMMA CountOneMore ==
    ASSUME NEW S, NEW T, IsFiniteSet(S), NEW v, v \notin S, T = S \cup {v}
    PROVE  Cardinality(T) = Cardinality(S) + 1
BY FS_AddElement

(* And when v is taken out.                                                *)
LEMMA CountOneLess ==
    ASSUME NEW S, NEW T, IsFiniteSet(S), NEW v \in S, T = S \ {v}
    PROVE  Cardinality(T) = Cardinality(S) - 1
BY FS_RemoveElement

(* The views made from x.                                                  *)
ViewsOf(x) == {v \in Views : src[v] = x}

(* They are finitely many, and refcount is their number.                   *)
LEMMA ViewsCounted ==
    ASSUME CountInv
    PROVE  \A x \in Bufs : IsFiniteSet(ViewsOf(x)) /\ refcount[x] = Cardinality(ViewsOf(x))
<1> SUFFICES ASSUME NEW x \in Bufs PROVE IsFiniteSet(ViewsOf(x)) /\ refcount[x] = Cardinality(ViewsOf(x))
  OBVIOUS
<1>1. IsFiniteSet(ViewsOf(x))
  BY BufferAssumption, FS_Subset DEF ViewsOf
<1>2. refcount[x] = Cardinality(ViewsOf(x))
  BY DEF CountInv, ViewsOf
<1> QED BY <1>1, <1>2

(* Conversely, counts that are exact are in range.                         *)
LEMMA CountsExact ==
    ASSUME DOMAIN refcount' = Bufs, refcount' = [x \in Bufs |-> refcount'[x]],
           \A x \in Bufs : refcount'[x] = Cardinality(ViewsOf(x)')
    PROVE  CountInv'
<1>1. ASSUME NEW x \in Bufs PROVE refcount'[x] \in 0 .. Cardinality(Views)
  <2>1. /\ IsFiniteSet(ViewsOf(x)') /\ Cardinality(ViewsOf(x)') <= Cardinality(Views)
        /\ IsFiniteSet(Views)
    BY BufferAssumption, FS_Subset DEF ViewsOf
  <2>2. Cardinality(ViewsOf(x)') \in Nat /\ Cardinality(Views) \in Nat
    BY <2>1, FS_CardinalityType
  <2> QED BY <2>1, <2>2
<1>2. refcount' \in [Bufs -> 0 .. Cardinality(Views)]
  BY <1>1
<1>3. \A x \in Bufs : refcount'[x] = Cardinality({v \in Views : src'[v] = x})
  BY DEF ViewsOf
<1> QED BY <1>2, <1>3 DEF CountInv

(* buf_readonlyView: the new view is a leaf of the tree.                   *)
LEMMA ViewKeepsTree ==
    ASSUME TreeInv, NEW x \in Live, NEW v \in Views \ Live,
           src' = [src EXCEPT ![v] = x]
    PROVE  TreeInv' /\ Live' = Live \cup {v}
<1>1. /\ v \in Bufs /\ x \in Bufs /\ x # v /\ v # root /\ root \in Bufs /\ root # NULL
      /\ x # NULL /\ src \in [Bufs -> Bufs \cup {NULL}] /\ src[root] = NULL
  BY BufferAssumption DEF TreeInv, Live, Bufs
<1>2. src'[v] = x /\ \A u \in Bufs \ {v} : src'[u] = src[u]
  BY <1>1
<1>3. Live' = Live \cup {v}
  BY <1>1, <1>2 DEF Live
<1>4. src' \in [Bufs -> Bufs \cup {NULL}] /\ src'[root] = NULL
  BY <1>1, <1>2
<1>5. \A u \in Live \ {root} : src'[u] = src[u] /\ src[u] \in Live
  BY <1>1, <1>2 DEF TreeInv, Live
<1>6. \A u \in Live' \ {root} : src'[u] \in Live'
  BY <1>2, <1>3, <1>5
<1>7. ASSUME NEW S \in SUBSET (Live' \ {root}), S # {}
      PROVE  \E u \in S : src'[u] \notin S
  <2>1. CASE S \ {v} = {}
    BY <1>1, <1>2, <1>7, <2>1
  <2>2. CASE S \ {v} # {}
    <3>1. S \ {v} \in SUBSET (Live \ {root})
      BY <1>3
    <3>2. PICK u \in S \ {v} : src[u] \notin S \ {v}
      BY <2>2, <3>1 DEF TreeInv
    <3>3. u \in Live \ {root}
      BY <3>1
    <3> QED BY <1>5, <3>2, <3>3
  <2> QED BY <2>1, <2>2
<1> QED BY <1>3, <1>4, <1>6, <1>7 DEF TreeInv

(* buf_readonlyView.                                                       *)
LEMMA ViewKeeps ==
    ASSUME IInv, NEW x \in Live, NEW len \in 1 .. MaxLen, buf_readonlyView(x, len)
    PROVE  IInv'
<1> DEFINE b == buf[x]
           c == contents[x]
           n == IF len > b.w - b.r THEN b.w - b.r ELSE len
           nb == [r |-> 0, w |-> n, sz |-> n, p |-> 0, base |-> b.base + b.r]
           d == SubSeq(c, 1, n)
<1>1. PICK v \in IF cache[x] # NULL THEN {cache[x]} ELSE Views \ alloc :
              /\ alloc' = alloc \cup {v}
              /\ cache' = [cache EXCEPT ![x] = NULL, ![v] = NULL]
              /\ buf' = [buf EXCEPT ![v] = nb]
              /\ src' = [src EXCEPT ![v] = x]
              /\ refcount' = [refcount EXCEPT ![v] = 0, ![x] = @ + 1]
              /\ contents' = [contents EXCEPT ![v] = d]
  BY DEF buf_readonlyView, buf_readable
<1>2. status = "ok" /\ mem' = mem /\ status' = "ok"
  BY DEF buf_readonlyView
<1>3. Sound(mem, b, c) /\ x \in Bufs /\ b.base + b.sz <= buf[root].sz
  BY <1>2, LiveSound
<1>4. n \in Nat /\ n <= b.w - b.r
  <2>1. b \in BufRec /\ b.r \in Nat /\ b.w \in Nat /\ b.r <= b.w /\ b.sz \in Nat /\ b.base \in Nat
    BY <1>3, Fields DEF Sound
  <2>2. len \in Nat
    BY BufferAssumption
  <2> HIDE DEF b
  <2> QED BY <2>1, <2>2
<1> HIDE DEF n
<1>5. Sound(mem, nb, d) /\ nb.base + nb.sz <= b.base + b.sz
  <2>1. nb = [r |-> 0, w |-> n, sz |-> n, p |-> 0, base |-> b.base + b.r]
    OBVIOUS
  <2> HIDE DEF b, c, nb
  <2> QED BY ONLY <1>3, <1>4, <2>1, ViewSound
<1>6. /\ nb \in BufRec /\ d \in Seq(Byte) /\ nb.r <= nb.w /\ nb.w <= nb.sz /\ nb.p <= nb.sz
      /\ nb.base \in Nat /\ nb.sz \in Nat
  BY <1>5, Fields DEF Sound
<1>7. nb.base + nb.sz <= buf[root].sz
  <2>1. buf[root].sz \in Nat /\ b.base \in Nat /\ b.sz \in Nat
    BY <1>3, Fields DEF IInv, FieldInv, Bufs
  <2> HIDE DEF b, nb
  <2> QED BY <1>3, <1>5, <1>6, <2>1
<1> HIDE DEF nb, d, b, c
<1>8. v \in Views \ Live /\ v \in Bufs /\ v # root /\ v # x /\ root \in Bufs /\ root # NULL
  <2>1. v \in Views /\ v \notin Live
    BY <1>1, <1>2, BufferAssumption DEF IInv, CacheInv, Live
  <2> QED BY <2>1, BufferAssumption DEF Live, Bufs
<1>9. TreeInv' /\ Live' = Live \cup {v}
  BY <1>1, <1>8, ViewKeepsTree DEF IInv
<1>10. CountInv'
  <2>1. /\ refcount = [y \in Bufs |-> refcount[y]] /\ CountInv
        /\ \A y \in Bufs : IsFiniteSet(ViewsOf(y)) /\ refcount[y] = Cardinality(ViewsOf(y))
    BY ViewsCounted DEF IInv, CountInv
  <2>2. /\ refcount' = [y \in Bufs |-> refcount'[y]] /\ DOMAIN refcount' = Bufs
        /\ refcount'[v] = 0 /\ refcount'[x] = refcount[x] + 1
        /\ \A y \in Bufs \ {v, x} : refcount'[y] = refcount[y]
    BY <1>1, <1>3, <1>8, <2>1
  <2>3. src \in [Bufs -> Bufs \cup {NULL}] /\ src[v] = NULL /\ x # NULL /\ src'[v] = x
        /\ \A u \in Views \ {v} : src'[u] = src[u]
    BY <1>1, <1>3, <1>8, BufferAssumption DEF IInv, TreeInv, Live, Bufs
  <2>4. ViewsOf(x)' = ViewsOf(x) \cup {v} /\ v \notin ViewsOf(x)
    BY <1>8, <2>3 DEF ViewsOf
  <2>5. ViewsOf(v)' = {}
    <3>1. ASSUME NEW u \in Views, src[u] = v PROVE FALSE
      <4>1. u \in Live \ {root}
        BY <1>8, <3>1, BufferAssumption DEF Live, Bufs
      <4> QED BY <1>8, <3>1, <4>1 DEF IInv, TreeInv
    <3> QED BY <1>8, <2>3, <3>1 DEF ViewsOf
  <2>6. \A y \in Bufs \ {v, x} : ViewsOf(y)' = ViewsOf(y)
    <3>1. NULL \notin Bufs
      BY BufferAssumption DEF Bufs
    <3> QED BY <2>3, <3>1 DEF ViewsOf
  <2>7. \A y \in Bufs : refcount'[y] = Cardinality(ViewsOf(y)')
    <3>1. Cardinality(ViewsOf(x)') = Cardinality(ViewsOf(x)) + 1
      BY <1>3, <2>1, <2>4, CountOneMore
    <3>2. Cardinality(ViewsOf(v)') = 0
      BY <2>5, FS_EmptySet
    <3> QED BY <1>3, <1>8, <2>1, <2>2, <2>6, <3>1, <3>2
  <2> QED BY <2>2, <2>7, CountsExact
<1>11. CacheInv'
  <2>1. cache \in [Bufs -> Views \cup {NULL}] /\ alloc \subseteq Views /\ Live \ {root} \subseteq alloc
    BY <1>2 DEF IInv, CacheInv
  <2>2. /\ cache' \in [Bufs -> Views \cup {NULL}] /\ alloc' \subseteq Views
        /\ cache'[x] = NULL /\ cache'[v] = NULL /\ \A y \in Bufs \ {v, x} : cache'[y] = cache[y]
    BY <1>1, <1>3, <1>8, <2>1
  <2>3. Live' \ {root} \subseteq alloc'
    BY <1>1, <1>9, <2>1
  <2>4. ASSUME NEW y \in Live', cache'[y] # NULL
        PROVE  cache'[y] \in alloc' \ Live' /\ \A z \in Live' \ {y} : cache'[z] # cache'[y]
    <3>1. y \in Live \ {x} /\ y # v /\ y \in Bufs /\ cache'[y] = cache[y]
      BY <1>9, <2>2, <2>4 DEF Live
    <3>2. cache[y] \in alloc \ Live /\ \A z \in Live \ {y} : cache[z] # cache[y]
      BY <1>2, <2>4, <3>1 DEF IInv, CacheInv
    <3>3. cache[y] # v
      BY <1>1, <3>1, <3>2
    <3>4. ASSUME NEW z \in Live' \ {y} PROVE cache'[z] # cache'[y]
      <4>1. CASE z \in {v, x}
        BY <2>2, <2>4, <4>1
      <4>2. CASE z \notin {v, x}
        <5>1. z \in Live \ {y} /\ cache'[z] = cache[z]
          BY <1>9, <2>2, <4>2 DEF Live
        <5> QED BY <3>1, <3>2, <5>1
      <4> QED BY <4>1, <4>2
    <3>5. cache'[y] \in alloc' \ Live'
      <4>1. alloc' = alloc \cup {v}
        BY <1>1
      <4> QED BY <1>9, <3>1, <3>2, <3>3, <4>1
    <3> QED BY <3>4, <3>5
  <2> QED BY <2>2, <2>3, <2>4 DEF CacheInv
<1>12. /\ buf \in [Bufs -> BufRec] /\ contents \in [Bufs -> Seq(Byte)] /\ Live \subseteq Bufs
  BY DEF IInv, FieldInv, Live
<1>13. /\ buf'[v] = nb /\ contents'[v] = d
       /\ \A y \in Bufs \ {v} : buf'[y] = buf[y] /\ contents'[y] = contents[y]
  BY <1>1, <1>8, <1>12
<1>14. FieldInv'
  <2>1. buf' \in [Bufs -> BufRec] /\ contents' \in [Bufs -> Seq(Byte)]
    BY <1>1, <1>6, <1>12
  <2>2. buf'[root] = buf[root]
    BY <1>8, <1>13
  <2> QED BY <1>2, <2>1, <2>2 DEF IInv, FieldInv
<1>15. IndexInv' /\ ReadInv'
  <2>1. buf'[root] = buf[root]
    BY <1>8, <1>13
  <2>2. ASSUME NEW y \in Live'
        PROVE  /\ buf'[y].r <= buf'[y].w /\ buf'[y].w <= buf'[y].sz /\ buf'[y].p <= buf'[y].sz
               /\ buf'[y].base + buf'[y].sz <= buf'[root].sz
               /\ Bytes(mem', buf'[y]) = contents'[y]
    <3>1. CASE y = v
      <4>1. Bytes(mem, nb) = d
        BY <1>5, SoundReads
      <4> QED BY <1>2, <1>6, <1>7, <1>13, <2>1, <3>1, <4>1
    <3>2. CASE y # v
      <4>1. y \in Live /\ buf'[y] = buf[y] /\ contents'[y] = contents[y]
        BY <1>9, <1>12, <1>13, <3>2
      <4> QED BY <1>2, <2>1, <4>1 DEF IInv, IndexInv, ReadInv
    <3> QED BY <3>1, <3>2
  <2> QED BY <2>2 DEF IndexInv, ReadInv
<1> QED BY <1>2, <1>9, <1>10, <1>11, <1>14, <1>15 DEF IInv, AbortsOnlyAfterPrepend

(* buf_release of a view: only a leaf of the tree is released.             *)
LEMMA ReleaseViewKeeps ==
    ASSUME IInv, NEW v \in Live \ {root}, ReleaseView(v)
    PROVE  IInv'
<1>0. PICK s : s = src[v]
  OBVIOUS
<1>1. /\ status = "ok" /\ refcount[v] = 0 /\ src' = [src EXCEPT ![v] = NULL]
      /\ refcount' = [refcount EXCEPT ![s] = @ - 1]
      /\ buf' = [buf EXCEPT ![v] = NoBuf[v]] /\ contents' = [contents EXCEPT ![v] = <<>>]
      /\ mem' = mem /\ status' = "ok"
  BY <1>0 DEF ReleaseView
<1>2. \/ cache[s] = NULL /\ cache' = [cache EXCEPT ![s] = v] /\ alloc' = alloc
      \/ cache[s] # NULL /\ alloc' = alloc \ {v} /\ cache' = cache
  BY <1>0 DEF ReleaseView
<1>3. /\ v \in Views /\ v \in Bufs /\ v # root /\ root \in Bufs /\ NULL \notin Bufs
      /\ Live \subseteq Bufs /\ src \in [Bufs -> Bufs \cup {NULL}] /\ s \in Live
  BY <1>0, BufferAssumption DEF IInv, TreeInv, Live, Bufs
<1>4. s # v
  <2>1. {v} \in SUBSET (Live \ {root}) /\ {v} # {}
    OBVIOUS
  <2>2. \E u \in {v} : src[u] \notin {v}
    BY <2>1 DEF IInv, TreeInv
  <2> QED BY <1>0, <2>2
<1>5. src'[v] = NULL /\ \A u \in Bufs \ {v} : src'[u] = src[u]
  BY <1>1, <1>3
<1>6. Live' = Live \ {v}
  BY <1>3, <1>5 DEF Live
<1>7. /\ refcount = [y \in Bufs |-> refcount[y]]
      /\ \A y \in Bufs : IsFiniteSet(ViewsOf(y)) /\ refcount[y] = Cardinality(ViewsOf(y))
  BY ViewsCounted DEF IInv, CountInv
<1>8. ViewsOf(v) = {}
  BY <1>1, <1>3, <1>7, FS_EmptySet
<1>9. TreeInv'
  <2>1. src' \in [Bufs -> Bufs \cup {NULL}] /\ src'[root] = NULL
    BY <1>1, <1>3, <1>5 DEF IInv, TreeInv
  <2>2. \A u \in Live' \ {root} : src'[u] = src[u] /\ src[u] \in Live
    BY <1>3, <1>5, <1>6 DEF IInv, TreeInv
  <2>3. \A u \in Live' \ {root} : src'[u] \in Live'
    BY <1>3, <1>6, <1>8, <2>2 DEF ViewsOf, Bufs
  <2>4. ASSUME NEW S \in SUBSET (Live' \ {root}), S # {}
        PROVE  \E u \in S : src'[u] \notin S
    <3>1. S \in SUBSET (Live \ {root})
      BY <1>6
    <3>2. PICK u \in S : src[u] \notin S
      BY <2>4, <3>1 DEF IInv, TreeInv
    <3> QED BY <2>2, <3>2
  <2> QED BY <2>1, <2>3, <2>4 DEF TreeInv
<1>10. CountInv'
  <2>1. s \in Bufs
    BY <1>3
  <2>2. /\ refcount' = [y \in Bufs |-> refcount'[y]] /\ DOMAIN refcount' = Bufs
        /\ refcount'[s] = refcount[s] - 1 /\ \A y \in Bufs \ {s} : refcount'[y] = refcount[y]
    BY <1>1, <1>7, <2>1
  <2>3. ViewsOf(s)' = ViewsOf(s) \ {v} /\ v \in ViewsOf(s)
    BY <1>0, <1>3, <1>5, <2>1 DEF ViewsOf, Bufs
  <2>4. \A y \in Bufs \ {s} : ViewsOf(y)' = ViewsOf(y)
    BY <1>0, <1>3, <1>5 DEF ViewsOf, Bufs
  <2>5. Cardinality(ViewsOf(s)') = Cardinality(ViewsOf(s)) - 1
    BY <1>7, <2>1, <2>3, CountOneLess
  <2>6. \A y \in Bufs : refcount'[y] = Cardinality(ViewsOf(y)')
    BY <1>7, <2>1, <2>2, <2>4, <2>5
  <2> QED BY <2>2, <2>6, CountsExact
<1>11. CacheInv'
  <2>1. /\ cache \in [Bufs -> Views \cup {NULL}] /\ alloc \subseteq Views /\ Live \ {root} \subseteq alloc
        /\ \A y \in Live : cache[y] # NULL =>
              cache[y] \in alloc \ Live /\ \A z \in Live \ {y} : cache[z] # cache[y]
    BY <1>1 DEF IInv, CacheInv
  <2>2. CASE cache[s] = NULL /\ cache' = [cache EXCEPT ![s] = v] /\ alloc' = alloc
    <3>1. /\ cache' \in [Bufs -> Views \cup {NULL}] /\ cache'[s] = v
          /\ \A y \in Bufs \ {s} : cache'[y] = cache[y]
      BY <1>3, <2>1, <2>2
    <3>2. ASSUME NEW y \in Live', cache'[y] # NULL
          PROVE  cache'[y] \in alloc' \ Live' /\ \A z \in Live' \ {y} : cache'[z] # cache'[y]
      <4>1. CASE y = s
        <5>1. v \in alloc' \ Live'
          BY <1>6, <2>1, <2>2
        <5>2. ASSUME NEW z \in Live' \ {y} PROVE cache'[z] # v
          <6>1. z \in Live /\ cache'[z] = cache[z]
            BY <1>3, <1>6, <3>1, <4>1
          <6>2. cache[z] # NULL => cache[z] \notin Live
            BY <2>1, <6>1
          <6> QED BY <1>3, <6>1, <6>2
        <5> QED BY <3>1, <4>1, <5>1, <5>2
      <4>2. CASE y # s
        <5>1. y \in Live /\ cache'[y] = cache[y] /\ cache[y] # NULL
          BY <1>3, <1>6, <3>1, <3>2, <4>2
        <5>2. cache[y] \in alloc \ Live /\ \A z \in Live \ {y} : cache[z] # cache[y]
          BY <2>1, <5>1
        <5>3. cache'[y] \in alloc' \ Live'
          BY <1>6, <2>2, <5>1, <5>2
        <5>4. ASSUME NEW z \in Live' \ {y} PROVE cache'[z] # cache'[y]
          <6>1. CASE z = s
            BY <3>1, <5>1, <5>2, <6>1
          <6>2. CASE z # s
            <7>1. z \in Live \ {y} /\ cache'[z] = cache[z]
              BY <1>3, <1>6, <3>1, <6>2
            <7> QED BY <5>1, <5>2, <7>1
          <6> QED BY <6>1, <6>2
        <5> QED BY <5>3, <5>4
      <4> QED BY <4>1, <4>2
    <3>3. alloc' \subseteq Views /\ Live' \ {root} \subseteq alloc'
      BY <1>6, <2>1, <2>2
    <3> QED BY <3>1, <3>2, <3>3 DEF CacheInv
  <2>3. CASE cache[s] # NULL /\ alloc' = alloc \ {v} /\ cache' = cache
    <3>1. alloc' \subseteq Views /\ Live' \ {root} \subseteq alloc'
      BY <1>6, <2>1, <2>3
    <3>2. ASSUME NEW y \in Live', cache'[y] # NULL
          PROVE  cache'[y] \in alloc' \ Live' /\ \A z \in Live' \ {y} : cache'[z] # cache'[y]
      <4>1. y \in Live /\ cache'[y] = cache[y]
        BY <1>6, <2>3
      <4>2. cache[y] \in alloc \ Live /\ \A z \in Live \ {y} : cache[z] # cache[y]
        BY <2>1, <3>2, <4>1
      <4> QED BY <1>6, <2>3, <4>1, <4>2
    <3> QED BY <2>1, <2>3, <3>1, <3>2 DEF CacheInv
  <2> QED BY <1>2, <2>2, <2>3
<1>12. buf \in [Bufs -> BufRec] /\ contents \in [Bufs -> Seq(Byte)]
  BY DEF IInv, FieldInv
<1>13. \A y \in Bufs \ {v} : buf'[y] = buf[y] /\ contents'[y] = contents[y]
  BY <1>1, <1>3, <1>12
<1>14. FieldInv'
  <2>1. NoBuf[v] \in BufRec /\ <<>> \in Seq(Byte)
    BY <1>3, EmptySeq DEF NoBuf, BufRec
  <2>2. buf' \in [Bufs -> BufRec] /\ contents' \in [Bufs -> Seq(Byte)]
    BY <1>1, <1>12, <2>1
  <2>3. buf'[root] = buf[root]
    BY <1>3, <1>13
  <2> QED BY <1>1, <2>2, <2>3 DEF IInv, FieldInv
<1>15. IndexInv' /\ ReadInv'
  <2>1. buf'[root] = buf[root]
    BY <1>3, <1>13
  <2>2. ASSUME NEW y \in Live'
        PROVE  y \in Live /\ buf'[y] = buf[y] /\ contents'[y] = contents[y]
    BY <1>3, <1>6, <1>13
  <2> QED BY <1>1, <2>1, <2>2 DEF IInv, IndexInv, ReadInv
<1> QED BY <1>1, <1>9, <1>10, <1>11, <1>14, <1>15 DEF IInv, AbortsOnlyAfterPrepend

(* buf_release of the root.                                                *)
LEMMA ReleaseRootKeeps ==
    ASSUME IInv, ReleaseRoot
    PROVE  IInv'
<1>1. /\ status = "ok" /\ status' = "released" /\ alloc' = alloc \ {cache[root]}
      /\ UNCHANGED <<mem, buf, src, refcount, cache, contents>>
  BY DEF ReleaseRoot
<1>2. Live' = Live
  BY <1>1 DEF Live
<1>3. TreeInv'
  BY <1>1, <1>2 DEF IInv, TreeInv
<1>4. CountInv'
  BY <1>1 DEF IInv, CountInv
<1>5. CacheInv'
  BY <1>1 DEF IInv, CacheInv
<1>6. FieldInv'
  BY <1>1 DEF IInv, FieldInv
<1>7. IndexInv' /\ ReadInv'
  BY <1>1, <1>2 DEF IInv, IndexInv, ReadInv
<1> QED BY <1>1, <1>3, <1>4, <1>5, <1>6, <1>7 DEF IInv, AbortsOnlyAfterPrepend
-----------------------------------------------------------------------------
(* What buf_create_ex leaves.                                              *)
LEMMA InitIInv == Init => IInv
<1> SUFFICES ASSUME Init PROVE IInv
  OBVIOUS
<1>1. PICK size \in Sizes, reserve \in Reserves : buf_create_ex(size, reserve)
  BY DEF Init
<1> DEFINE n == size + reserve
           b == [r |-> reserve, w |-> reserve, sz |-> n, p |-> reserve, base |-> 0]
<1>2. size \in Nat /\ reserve \in Nat /\ n \in Nat /\ n <= MaxSz /\ reserve <= n
  BY BufferAssumption
<1> HIDE DEF n
<1>3. /\ mem = Zeroed(n) /\ buf = [NoBuf EXCEPT ![root] = b]
      /\ src = [x \in Bufs |-> NULL] /\ refcount = [x \in Bufs |-> 0]
      /\ cache = [x \in Bufs |-> NULL] /\ alloc = {}
      /\ status = "ok" /\ contents = [x \in Bufs |-> <<>>]
  BY <1>1 DEF Init, buf_create_ex, n
<1>4. b \in BufRec /\ b.r = reserve /\ b.w = reserve /\ b.p = reserve /\ b.sz = n /\ b.base = 0
  BY <1>2 DEF BufRec
<1> HIDE DEF b
<1>5. NoBuf \in [Bufs -> BufRec] /\ root \in Bufs /\ NULL \notin Bufs
  BY BufferAssumption DEF NoBuf, BufRec, Bufs
<1>6. buf \in [Bufs -> BufRec] /\ buf[root] = b
  BY <1>3, <1>4, <1>5
<1>7. Live = {root}
  BY <1>3, <1>5 DEF Live
<1>8. FieldInv
  <2>1. Zeroed(n) \in [0 .. n - 1 -> Byte]
    BY <1>2, ZeroedBytes
  <2>2. contents \in [Bufs -> Seq(Byte)]
    BY <1>3, EmptySeq
  <2> QED BY <1>2, <1>3, <1>4, <1>6, <2>1, <2>2 DEF FieldInv
<1>9. TreeInv
  BY <1>3, <1>5, <1>7 DEF TreeInv
<1>10. CountInv
  <2>1. Cardinality(Views) \in Nat
    BY BufferAssumption, FS_CardinalityType
  <2>2. \A x \in Bufs : {v \in Views : src[v] = x} = {}
    BY <1>3, <1>5 DEF Bufs
  <2>3. refcount \in [Bufs -> 0 .. Cardinality(Views)]
    BY <1>3, <2>1
  <2>4. \A x \in Bufs : refcount[x] = Cardinality({v \in Views : src[v] = x})
    BY <1>3, <2>2, FS_EmptySet
  <2> QED BY <2>3, <2>4 DEF CountInv
<1>11. CacheInv
  BY <1>3, <1>5, <1>7 DEF CacheInv
<1>12. IndexInv
  BY <1>2, <1>4, <1>6, <1>7 DEF IndexInv
<1>13. ReadInv
  <2>1. <<>> \in Seq(Byte) /\ Len(<<>>) = 0
    BY EmptySeq
  <2>2. Len(<<>>) = b.w - b.r /\ b.r <= b.w
    BY <1>2, <1>4, <2>1
  <2>3. At(mem, b.base + b.r, <<>>)
    BY <2>1 DEF At
  <2>4. Bytes(mem, b) = <<>>
    BY <1>4, <2>1, <2>2, <2>3, BytesAre
  <2> QED BY <1>3, <1>5, <1>6, <1>7, <2>4 DEF ReadInv
<1> QED BY <1>3, <1>8, <1>9, <1>10, <1>11, <1>12, <1>13 DEF IInv, AbortsOnlyAfterPrepend

(* Every step keeps the invariant.                                         *)
LEMMA StepIInv == IInv /\ [Next]_vars => IInv'
<1> SUFFICES ASSUME IInv, [Next]_vars PROVE IInv'
  OBVIOUS
<1>1. ASSUME NEW d \in Data, buf_append(d) \/ buf_readFd(d) PROVE IInv'
  BY <1>1, AppendKeeps, ReadFdKeeps
<1>2. ASSUME NEW k \in 1 .. MaxLen, buf_unwrite(k) \/ buf_shrink(k - 1) PROVE IInv'
  <2>1. k - 1 \in Nat
    BY BufferAssumption
  <2> QED BY <1>2, <2>1, UnwriteKeeps, ShrinkKeeps
<1>3. ASSUME NEW x \in Live, Uses(x) PROVE IInv'
  <2>1. ASSUME NEW k \in 0 .. buf_readable(buf[x]), buf_retrieve(x, k) PROVE IInv'
    <3>1. x \in Bufs /\ buf[x] \in BufRec
      BY DEF IInv, FieldInv, Live
    <3>2. buf_readable(buf[x]) \in Int
      BY <3>1, Fields DEF buf_readable
    <3>3. k \in Nat
      BY <3>2
    <3> QED BY <2>1, <3>3, RetrieveKeeps
  <2>2. ASSUME NEW d \in Data, buf_prepend(x, d) \/ buf_has_written(x, d) PROVE IInv'
    BY <2>2, PrependKeeps, HasWrittenKeeps
  <2>3. ASSUME NEW k \in 1 .. MaxLen, buf_readonlyView(x, k) PROVE IInv'
    BY <2>3, ViewKeeps
  <2> QED BY <1>3, <2>1, <2>2, <2>3 DEF Uses
<1>4. ASSUME UNCHANGED vars PROVE IInv'
  <2>1. /\ mem' = mem /\ buf' = buf /\ src' = src /\ refcount' = refcount /\ cache' = cache
        /\ alloc' = alloc /\ status' = status /\ contents' = contents
    BY <1>4 DEF vars
  <2>2. Live' = Live
    BY <2>1 DEF Live
  <2>3. FieldInv' /\ CountInv' /\ AbortsOnlyAfterPrepend'
    BY <2>1 DEF IInv, FieldInv, CountInv, AbortsOnlyAfterPrepend
  <2>4. TreeInv' /\ CacheInv'
    BY <2>1, <2>2 DEF IInv, TreeInv, CacheInv
  <2>5. IndexInv' /\ ReadInv'
    BY <2>1, <2>2 DEF IInv, IndexInv, ReadInv
  <2> QED BY <2>3, <2>4, <2>5 DEF IInv
<1> QED
  BY <1>1, <1>2, <1>3, <1>4, ReleaseViewKeeps, ReleaseRootKeeps DEF Next, Writes, Finished

(* The invariant gives the properties.                                     *)
LEMMA IInvGives == IInv => ContentsKept /\ RefcountExact /\ AbortsOnlyAfterPrepend
<1> SUFFICES ASSUME IInv PROVE ContentsKept /\ RefcountExact /\ AbortsOnlyAfterPrepend
  OBVIOUS
<1>1. TypeOK
  <2>1. DOMAIN mem = 0 .. buf[root].sz - 1 /\ \A i \in DOMAIN mem : mem[i] \in Byte
    BY DEF IInv, FieldInv
  <2>2. \A x \in Live : buf[x].r \in Nat
    BY Fields DEF IInv, FieldInv, Live
  <2>3. status # "skewed" =>
          \A x \in Live : /\ 0 <= buf[x].r /\ buf[x].r <= buf[x].w /\ buf[x].w <= buf[x].sz
                          /\ buf[x].base + buf[x].sz <= buf[root].sz
    BY <2>2 DEF IInv, IndexInv
  <2> QED BY <2>1, <2>3 DEF IInv, FieldInv, TreeInv, CountInv, CacheInv, TypeOK
<1>2. ContentsKept
  BY <1>1 DEF IInv, ReadInv, ContentsKept
<1>3. RefcountExact
  BY DEF IInv, CountInv, CacheInv, RefcountExact, Live
<1> QED BY <1>2, <1>3 DEF IInv

(* The invariant holds throughout.                                         *)
LEMMA BufferInvariant == Spec => []IInv
BY InitIInv, StepIInv, PTL DEF Spec

(* A buffer reads as what was put into it and not yet taken, and a view as *)
(* what it was made of, through buf_makeSpace's growth and compaction,     *)
(* buf_readFd's two parts, buf_prepend and buf_unwrite, with the indexes   *)
(* inside the memory; for buffers, reserves and calls of any size.         *)
THEOREM BufferContentsKept == Spec => []ContentsKept
BY BufferInvariant, IInvGives, PTL

(* refcount of every buffer is the number of the views made from it, for   *)
(* any number of views nested in any way, and no struct is both in use and *)
(* in a cache, or in two caches: what buf_release and ASSERT_WRITE go by.  *)
THEOREM BufferRefcountExact == Spec => []RefcountExact
BY BufferInvariant, IInvGives, PTL

(* The assertions of buf_makeSpace and buf_ensureWritable fail in no       *)
(* sequence of calls that has not put bytes into the reserve.              *)
THEOREM BufferAbortsOnlyAfterPrepend == Spec => []AbortsOnlyAfterPrepend
BY BufferInvariant, IInvGives, PTL
=============================================================================
