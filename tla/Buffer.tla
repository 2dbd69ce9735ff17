------------------------------- MODULE Buffer -------------------------------
(***************************************************************************)
(* The byte buffer of base/buffer.c: one block of memory, a reserve in     *)
(* front of the contents for headers, growth and compaction on demand, and *)
(* read-only views, nested if need be, that share the memory and lock the  *)
(* buffer they were made from.                                             *)
(*                                                                         *)
(* `contents' is what every buffer should read as, by the calls made: the  *)
(* bytes put in behind or in front and not yet taken.  A write that the    *)
(* code rejects at once (ASSERT_WRITE on a locked buffer, a length that is *)
(* asserted against) is a client's mistake and no step.                    *)
(***************************************************************************)
EXTENDS Integers, Sequences, FiniteSets, TLC

CONSTANTS Byte, Nul,    \* the bytes, and the one calloc fills memory with
          root,         \* the buffer buf_create_ex makes
          Views, NULL,  \* the structs available for views, and no struct
          Sizes, Reserves,  \* the arguments of buf_create_ex
          SizeMod,      \* 2^w for a size_t of w bits
          MaxLen,       \* bound: bytes given to one call
          MaxSz         \* bound: calloc gives no more bytes than this

ASSUME BufferAssumption ==
    /\ Nul \in Byte
    /\ root \notin Views /\ NULL \notin Views \cup {root}
    /\ Sizes \subseteq Nat \ {0} /\ Reserves \subseteq Nat
    /\ IsFiniteSet(Views)
    /\ MaxLen \in Nat /\ MaxSz \in Nat
    /\ \A s \in Sizes, r \in Reserves : s + r <= MaxSz
    /\ SizeMod \in Nat /\ SizeMod > 2 * MaxSz + MaxLen

Bufs == Views \cup {root}

VARIABLES mem,        \* the memory, buf->buf[0 .. sz-1] of the root
          buf,        \* struct buffer: read_idx, write_idx, sz, p_sz, and where
                      \* in mem the buffer begins
          src, refcount, cache,   \* struct buffer, of the root and of the views
          alloc,      \* the view structs that were allocated and not freed
          status,     \* "ok", or how it ended: "aborted" by an assertion, "released",
                      \* "trodden" by a write to a locked buffer, "skewed" by
                      \* buf_shrink behind retrieved bytes
          contents    \* what each buffer should read as

links == <<src, refcount, cache, alloc>>
vars == <<mem, buf, src, refcount, cache, alloc, status, contents>>

Live == {x \in Bufs : x = root \/ src[x] # NULL}

Zeroed(n) == [i \in 0 .. n - 1 |-> Nul]

\* Memory m with the bytes s from index i on.
Stored(m, i, s) == [k \in DOMAIN m |-> IF k \in i .. i + Len(s) - 1 THEN s[k - i + 1] ELSE m[k]]

\* The fields of structs not in use: cleared, whatever is left in them.
NoBuf == [x \in Bufs |-> [r |-> 0, w |-> 0, sz |-> 0, p |-> 0, base |-> 0]]

buf_create_ex(size, prepend_size) ==
    /\ mem = Zeroed(size + prepend_size)
    /\ buf = [NoBuf EXCEPT ![root] = [r |-> prepend_size, w |-> prepend_size,
                                      sz |-> size + prepend_size, p |-> prepend_size,
                                      base |-> 0]]
    /\ src = [x \in Bufs |-> NULL]
    /\ refcount = [x \in Bufs |-> 0]
    /\ cache = [x \in Bufs |-> NULL]
    /\ alloc = {}

Init ==
    /\ \E size \in Sizes, reserve \in Reserves : buf_create_ex(size, reserve)
    /\ status = "ok"
    /\ contents = [x \in Bufs |-> <<>>]
-----------------------------------------------------------------------------
buf_readable(b) == b.w - b.r
buf_writable(b) == b.sz - b.w
buf_prependable(b) == b.r

\* The bytes that b offers to its reader in memory m, from buf_peek on.
Bytes(m, b) == [i \in 1 .. buf_readable(b) |-> m[b.base + b.r + i - 1]]

buf_writeLocked(x) == src[x] # NULL \/ refcount[x] > 0

\* buf_swap if it copied to the front of the new memory.
MutantSwapToFront(s, nsz) ==
    [m |-> Stored(Zeroed(nsz), 0, Bytes(s.m, s.b)), b |-> [s.b EXCEPT !.sz = nsz]]

\* buf_swap: new memory with the contents behind the reserve.
buf_swap(s, nsz) ==
    [m |-> Stored(Zeroed(nsz), s.b.p, Bytes(s.m, s.b)), b |-> [s.b EXCEPT !.sz = nsz]]

\* The first test of buf_makeSpace, in the arithmetic of size_t.
MustGrow(b, len) == (buf_prependable(b) + buf_writable(b) - b.p) % SizeMod < len

\* NewSize if it forgot what is in front of write_idx.
MutantTightSize(b, len) == b.p + len

\* buf_makeSpace: the size of the new memory.
NewSize(b, len) == b.w + len

(* buf_makeSpace: memory and buffer with room for len more bytes, by       *)
(* growing or by moving the contents back to the reserve.                  *)
buf_makeSpace(s, len) ==
    LET at == IF MustGrow(s.b, len) THEN buf_swap(s, NewSize(s.b, len))
              ELSE [s EXCEPT !.m = Stored(s.m, s.b.p, Bytes(s.m, s.b))]
    IN  [at EXCEPT !.b.r = s.b.p, !.b.w = s.b.p + buf_readable(s.b)]

buf_ensureWritable(s, len) ==
    IF buf_writable(s.b) < len THEN buf_makeSpace(s, len) ELSE s

\* One of the assertions of buf_makeSpace and buf_ensureWritable fails.
AssertFails(s, len) ==
    /\ buf_writable(s.b) < len
    /\ \/ ~MustGrow(s.b, len) /\ ~(s.b.p < s.b.r)
       \/ buf_writable(buf_makeSpace(s, len).b) < len

Root == [m |-> mem, b |-> buf[root]]

\* s with the bytes d written at buf_beginWrite.
Written(s, d) == [m |-> Stored(s.m, s.b.w, d), b |-> [s.b EXCEPT !.w = @ + Len(d)]]

\* buf_append of d to s, after the bytes `before' were put in place.
Appends(s, before, d) ==
    /\ NewSize(s.b, Len(d)) <= MaxSz
    /\ \/ /\ AssertFails(s, Len(d))
          /\ status' = "aborted"
          /\ UNCHANGED <<mem, buf, links, contents>>
       \/ /\ ~AssertFails(s, Len(d))
          /\ LET n == Written(buf_ensureWritable(s, Len(d)), d)
             IN  mem' = n.m /\ buf' = [buf EXCEPT ![root] = n.b]
          /\ contents' = [contents EXCEPT ![root] = @ \o before \o d]
          /\ UNCHANGED <<links, status>>

buf_append(d) ==
    /\ status = "ok" /\ ~buf_writeLocked(root)
    /\ Appends(Root, <<>>, d)

\* Where a call leaves the program that writes to x without ASSERT_WRITE.
Trodden(x) == IF buf_writeLocked(x) THEN "trodden" ELSE status

(* A client stores d at buf_beginWrite and calls buf_has_written, which    *)
(* asks for room and not whether the buffer is locked.                     *)
buf_has_written(x, d) ==
    /\ status = "ok"
    /\ Len(d) <= buf_writable(buf[x])
    /\ mem' = Stored(mem, buf[x].base + buf[x].w, d)
    /\ buf' = [buf EXCEPT ![x].w = @ + Len(d)]
    /\ contents' = [contents EXCEPT ![x] = @ \o d]
    /\ status' = Trodden(x)
    /\ UNCHANGED links

(* buf_readFd: readv stores what fits and puts the rest into a buffer of   *)
(* its own, which is appended.                                             *)
buf_readFd(d) ==
    LET fit == buf_writable(buf[root])
    IN  /\ status = "ok" /\ ~buf_writeLocked(root)
        /\ \/ Len(d) <= fit /\ buf_has_written(root, d)
           \/ Len(d) > fit /\ Appends(Written(Root, SubSeq(d, 1, fit)), SubSeq(d, 1, fit),
                                       SubSeq(d, fit + 1, Len(d)))

buf_unwrite(len) ==
    /\ status = "ok" /\ ~buf_writeLocked(root)
    /\ len <= buf_readable(buf[root])
    /\ buf' = [buf EXCEPT ![root].w = @ - len]
    /\ contents' = [contents EXCEPT ![root] = SubSeq(@, 1, Len(@) - len)]
    /\ UNCHANGED <<mem, links, status>>

\* buf_retrieve, and buf_retrieveAll where it takes everything.
buf_retrieve(x, len) ==
    /\ status = "ok"
    /\ len <= buf_readable(buf[x])
    /\ buf' = IF len < buf_readable(buf[x])
              THEN [buf EXCEPT ![x].r = @ + len]
              ELSE [buf EXCEPT ![x].r = buf[x].p, ![x].w = buf[x].p]
    /\ contents' = [contents EXCEPT ![x] = SubSeq(@, len + 1, Len(@))]
    /\ UNCHANGED <<mem, links, status>>

\* buf_prepend, which does not ask whether the buffer is locked either.
buf_prepend(x, d) ==
    /\ status = "ok"
    /\ Len(d) <= buf_prependable(buf[x])
    /\ buf' = [buf EXCEPT ![x].r = @ - Len(d)]
    /\ mem' = Stored(mem, buf[x].base + buf[x].r - Len(d), d)
    /\ contents' = [contents EXCEPT ![x] = d \o @]
    /\ status' = Trodden(x)
    /\ UNCHANGED links

(* buf_shrink: buf_swap moves the contents and the indexes stay, so that   *)
(* after a buf_retrieve they no longer meet the contents, or even memory:  *)
(* nothing can be said from then on.                                       *)
buf_shrink(reserve) ==
    LET b == buf[root]
        n == buf_swap(Root, b.p + buf_readable(b) + reserve)
    IN  /\ status = "ok" /\ ~buf_writeLocked(root)
        /\ n.b.sz <= MaxSz
        /\ mem' = n.m
        /\ buf' = [buf EXCEPT ![root] = n.b]
        /\ status' = IF b.r # b.p THEN "skewed" ELSE status
        /\ UNCHANGED <<links, contents>>
-----------------------------------------------------------------------------
(* buf_readonlyView: the struct is the one cached by the source, cleared,  *)
(* or a new one.                                                           *)
buf_readonlyView(x, len) ==
    LET n == IF len > buf_readable(buf[x]) THEN buf_readable(buf[x]) ELSE len
    IN  /\ status = "ok" /\ len > 0
        /\ \E v \in IF cache[x] # NULL THEN {cache[x]} ELSE Views \ alloc :
              /\ alloc' = alloc \cup {v}
              /\ cache' = [cache EXCEPT ![x] = NULL, ![v] = NULL]
              /\ buf' = [buf EXCEPT ![v] = [r |-> 0, w |-> n, sz |-> n, p |-> 0,
                                            base |-> buf[x].base + buf[x].r]]
              /\ src' = [src EXCEPT ![v] = x]
              /\ refcount' = [refcount EXCEPT ![v] = 0, ![x] = @ + 1]
              /\ contents' = [contents EXCEPT ![v] = SubSeq(contents[x], 1, n)]
        /\ UNCHANGED <<mem, status>>

\* buf_release of a view that keeps the source's count.
MutantKeepsCount(v) ==
    LET s == src[v]
    IN  /\ status = "ok" /\ refcount[v] = 0
        /\ src' = [src EXCEPT ![v] = NULL]
        /\ \/ cache[s] = NULL /\ cache' = [cache EXCEPT ![s] = v] /\ UNCHANGED alloc
           \/ cache[s] # NULL /\ alloc' = alloc \ {v} /\ UNCHANGED cache
        /\ buf' = [buf EXCEPT ![v] = NoBuf[v]]
        /\ contents' = [contents EXCEPT ![v] = <<>>]
        /\ UNCHANGED <<mem, refcount, status>>

\* buf_release of a view: it goes to the cache of its source, or is freed.
ReleaseView(v) ==
    LET s == src[v]
    IN  /\ status = "ok" /\ refcount[v] = 0
        /\ src' = [src EXCEPT ![v] = NULL]
        /\ refcount' = [refcount EXCEPT ![s] = @ - 1]
        /\ \/ cache[s] = NULL /\ cache' = [cache EXCEPT ![s] = v] /\ UNCHANGED alloc
           \/ cache[s] # NULL /\ alloc' = alloc \ {v} /\ UNCHANGED cache
        /\ buf' = [buf EXCEPT ![v] = NoBuf[v]]
        /\ contents' = [contents EXCEPT ![v] = <<>>]
        /\ UNCHANGED <<mem, status>>

\* buf_release of the root: the memory and the one cached view.
ReleaseRoot ==
    /\ status = "ok" /\ refcount[root] = 0
    /\ status' = "released"
    /\ alloc' = alloc \ {cache[root]}
    /\ UNCHANGED <<mem, buf, src, refcount, cache, contents>>

Finished == status # "ok" /\ UNCHANGED vars

Data == UNION {[1 .. n -> Byte] : n \in 1 .. MaxLen}

Writes == \/ \E d \in Data : buf_append(d) \/ buf_readFd(d)
          \/ \E n \in 1 .. MaxLen : buf_unwrite(n) \/ buf_shrink(n - 1)

Uses(x) == \/ \E n \in 0 .. buf_readable(buf[x]) : buf_retrieve(x, n)
           \/ \E d \in Data : buf_prepend(x, d) \/ buf_has_written(x, d)
           \/ \E n \in 1 .. MaxLen : buf_readonlyView(x, n)

Next == \/ Writes
        \/ \E x \in Live : Uses(x)
        \/ \E v \in Live \ {root} : ReleaseView(v)
        \/ ReleaseRoot
        \/ Finished

Spec == Init /\ [][Next]_vars

\* Structs for views are interchangeable.
Symmetry == Permutations(Views)
-----------------------------------------------------------------------------
\* The type invariant: indexes in order and inside the memory.
TypeOK ==
    /\ DOMAIN mem = 0 .. buf[root].sz - 1 /\ \A i \in DOMAIN mem : mem[i] \in Byte
    /\ status \in {"ok", "aborted", "released", "trodden", "skewed"}
    /\ status # "skewed" =>
          \A x \in Live : /\ 0 <= buf[x].r /\ buf[x].r <= buf[x].w /\ buf[x].w <= buf[x].sz
                          /\ buf[x].base + buf[x].sz <= buf[root].sz
    /\ src \in [Bufs -> Bufs \cup {NULL}] /\ cache \in [Bufs -> Views \cup {NULL}]
    /\ refcount \in [Bufs -> 0 .. Cardinality(Views)]
    /\ alloc \subseteq Views

(* A buffer reads as what was put into it, in order, through growth,       *)
(* compaction, prepending and reading from a descriptor in two parts, and  *)
(* a view keeps showing what it was made of, whatever is read from its     *)
(* source meanwhile.  Only buf_shrink behind retrieved bytes breaks it,    *)
(* and the two writers that do not test the lock, buf_prepend and          *)
(* buf_has_written, on a view or on a buffer with views.  Even they leave  *)
(* the indexes in order and inside the memory (TypeOK).                    *)
ContentsKept ==
    /\ TypeOK
    /\ status \notin {"skewed", "trodden"} => \A x \in Live : Bytes(mem, buf[x]) = contents[x]

(* refcount, which decides whether a buffer may be written and released,   *)
(* counts the live views made from it; and a struct that is live is in no  *)
(* cache, nor is any struct in two.                                        *)
RefcountExact == status # "released" =>
    /\ \A x \in Live : refcount[x] = Cardinality({v \in Views : src[v] = x})
    /\ \A x \in Live : cache[x] # NULL =>
          /\ cache[x] \in alloc \ Live
          /\ \A y \in Live \ {x} : cache[y] # cache[x]

(* The assertions of buf_makeSpace and buf_ensureWritable fail only after  *)
(* buf_prepend has gone into the reserve: then the size computed for the   *)
(* new memory is too small, or the subtraction of sizes wraps around.      *)
AbortsOnlyAfterPrepend == status = "aborted" => buf[root].r < buf[root].p
=============================================================================
