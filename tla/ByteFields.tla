----------------------------- MODULE ByteFields -----------------------------
(***************************************************************************)
(* How the codecs put integers and strings into a buffer and take them out *)
(* again (the Int and AsString functions of base/buffer.c).  A buffer is   *)
(* here the sequence of its readable bytes, which module Buffer justifies; *)
(* an operator that appends gives the bytes it appends.                    *)
(***************************************************************************)
EXTENDS Integers, Sequences, SequencesExt

\* How a decoding function ends: false or NULL, an assertion that fails, a
\* walk out of its memory, or a result.
Fails == [is |-> "false"]
Aborts == [is |-> "abort"]
Overruns == [is |-> "overrun"]
Gives(v) == [is |-> "ok", v |-> v]

\* The w bytes of x in network order; x is small, its upper bytes its sign.
buf_appendInt(x, w) ==
    [i \in 1 .. w |-> IF w - i > 3 THEN (IF x < 0 THEN 255 ELSE 0)
                      ELSE (x \div 256 ^ (w - i)) % 256]

\* An integer of w bytes at the front, signed as the C type is.
buf_peekInt(b, w) ==
    FoldLeft(LAMBDA v, x : 256 * v + x, IF b[1] >= 128 THEN b[1] - 256 ELSE b[1], SubSeq(b, 2, w))

\* A length of four bytes and the string itself.
WithLength(s) == buf_appendInt(Len(s), 4) \o s

Drop(b, n) == SubSeq(b, n + 1, Len(b))

\* A reader: what is left, what was read, and whether an assertion of
\* buf_peekInt or buf_retrieve has ended the program.
Reader(b) == [rest |-> b, vals |-> <<>>, bad |-> FALSE]
Stuck(r) == [r EXCEPT !.bad = TRUE]

buf_readInt(r, w) ==
    IF r.bad \/ Len(r.rest) < w THEN Stuck(r)
    ELSE [r EXCEPT !.rest = Drop(@, w), !.vals = Append(@, buf_peekInt(r.rest, w))]

\* A negative length is a huge one for buf_retrieve.
buf_retrieveAsString(r, len) ==
    IF len < 0 \/ Len(r.rest) < len THEN Stuck(r)
    ELSE [r EXCEPT !.rest = Drop(@, len), !.vals = Append(@, SubSeq(r.rest, 1, len))]

\* The string replaces its length among what was read.
ReadString(r) ==
    IF r.bad \/ Len(r.rest) < 4 THEN Stuck(r)
    ELSE buf_retrieveAsString([r EXCEPT !.rest = Drop(@, 4)], buf_peekInt(r.rest, 4))

\* The fields of a layout: integers by their width, strings by 0.
ReadFields(b, layout) ==
    FoldLeft(LAMBDA r, w : IF w = 0 THEN ReadString(r) ELSE buf_readInt(r, w), Reader(b), layout)
=============================================================================
