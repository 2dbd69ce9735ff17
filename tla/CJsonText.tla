----------------------------- MODULE CJsonText ------------------------------
(***************************************************************************)
(* The parser and the printer of base/cJSON.c as functions.                *)
(*                                                                         *)
(* A text is a sequence of character codes; what is parsed ends with NUL.  *)
(* Offsets count from 0, as in the code.  A value is a record: a type and  *)
(* the number, text, elements or members (pairs of key and value) it has.  *)
(* Linking parsed items into a list is Append; the lists themselves are    *)
(* the subject of CJsonTree.  Numbers are integers: strtod and sprintf are *)
(* modelled on them.                                                       *)
(***************************************************************************)
EXTENDS Integers, Sequences, SequencesExt

CONSTANTS CJSON_NESTING_LIMIT,
          NUMBER_SIZE,    \* sizeof(number_c_string) in parse_number
          INT_MAX         \* the limit of a print buffer

ASSUME TextAssumption ==
    CJSON_NESTING_LIMIT \in Nat /\ NUMBER_SIZE \in Nat \ {0} /\ INT_MAX \in Nat

NUL == 0
TAB == 9
LF == 10
SPACE == 32
QUOTE == 34
STAR == 42
COMMA == 44
MINUS == 45
SLASH == 47
COLON == 58
BACKSLASH == 92
ZERO == 48
LBRACKET == 91
RBRACKET == 93
LBRACE == 123
RBRACE == 125
null == <<110, 117, 108, 108>>
true == <<116, 114, 117, 101>>
false == <<102, 97, 108, 115, 101>>
Digit == 48 .. 57

Literal(type) == [type |-> type]
Number(n) == [type |-> "Number", number |-> n]
String(s) == [type |-> "String", text |-> s]
Raw(s) == [type |-> "Raw", text |-> s]
Array(s) == [type |-> "Array", elements |-> s]
Object(s) == [type |-> "Object", members |-> s]

\* What a parsing function leaves: its result, and the offset in the buffer.
Parsed(v, off) == [ok |-> TRUE, v |-> v, off |-> off]
Fail(off) == [ok |-> FALSE, v |-> Literal("Invalid"), off |-> off]

At(t, off) == t[off + 1]
can_access(t, off) == off < Len(t)
Sees(t, off, char) == can_access(t, off) /\ At(t, off) = char
Reads(t, off, word) == off + Len(word) <= Len(t) /\ SubSeq(t, off + 1, off + Len(word)) = word
-----------------------------------------------------------------------------
(* Parsing.                                                                *)

RECURSIVE parse_value(_, _, _)

RECURSIVE SkipFrom(_, _)
SkipFrom(t, off) == IF can_access(t, off) /\ At(t, off) <= 32 THEN SkipFrom(t, off + 1) ELSE off

\* NUL counts as white space, so the last step is back to it.
buffer_skip_whitespace(t, off) ==
    IF SkipFrom(t, off) = Len(t) THEN Len(t) - 1 ELSE SkipFrom(t, off)

\* The longest prefix of s whose characters are in set.
RECURSIVE Span(_, _)
Span(s, set) ==
    IF s = <<>> \/ (s # <<>> /\ Head(s) \notin set) THEN 0 ELSE 1 + Span(Tail(s), set)

\* strtod on integers: [len, number], len = 0 when there is no number.
strtod(s) ==
    LET sign == IF s # <<>> /\ Head(s) = MINUS THEN 1 ELSE 0
        n == Span(SubSeq(s, sign + 1, Len(s)), Digit)
        abs == FoldLeft(LAMBDA a, c : 10 * a + (c - ZERO), 0, SubSeq(s, sign + 1, sign + n))
    IN  [len |-> IF n = 0 THEN 0 ELSE sign + n, number |-> IF sign = 1 THEN -abs ELSE abs]

\* '+' - '.' 'E' 'e' and the digits.
NumberChars == Digit \cup {43, MINUS, 46, 69, 101}

\* parse_number that copies without a limit.
MutantNoLimit(t, off) ==
    LET d == strtod(SubSeq(t, off + 1, Len(t)))
    IN  IF d.len = 0 THEN Fail(off) ELSE Parsed(Number(d.number), off + d.len)

\* Copies what looks like a number, at most NUMBER_SIZE - 1 characters of it.
parse_number(t, off) ==
    LET window == SubSeq(t, off + 1, Min({off + NUMBER_SIZE - 1, Len(t)}))
        d == strtod(SubSeq(window, 1, Span(window, NumberChars)))
    IN  IF d.len = 0 THEN Fail(off) ELSE Parsed(Number(d.number), off + d.len)

HexDigit(c) ==
    CASE c \in Digit -> c - ZERO
      [] c \in 65 .. 70 -> 10 + c - 65
      [] c \in 97 .. 102 -> 10 + c - 97
      [] OTHER -> -1
\* Four digits, or 0.
parse_hex4(s) ==
    IF \E n \in 1 .. 4 : HexDigit(s[n]) = -1 THEN 0
    ELSE FoldLeft(LAMBDA a, c : 16 * a + HexDigit(c), 0, s)

Continuation(c) == 128 + (c % 64)
\* The bytes the encoding loop writes for a code point.
ToUtf8(c) ==
    CASE c < 128 -> <<c>>
      [] c \in 128 .. 2047 -> <<192 + c \div 64, Continuation(c)>>
      [] c \in 2048 .. 65535 ->
            <<224 + c \div 4096, Continuation(c \div 64), Continuation(c)>>
      [] c > 65535 -> <<240 + c \div 262144, Continuation(c \div 4096),
                        Continuation(c \div 64), Continuation(c)>>

\* [len, bytes] of the literal at p; len = 0 is failure.
NoLiteral == [len |-> 0, bytes |-> <<>>]

utf16_literal_to_utf8(t, p, end) ==
    LET Code(q) == parse_hex4(SubSeq(t, q + 3, q + 6))
    IN  IF end - p < 6 \/ Code(p) \in 56320 .. 57343 THEN NoLiteral
        ELSE IF Code(p) \notin 55296 .. 56319 THEN [len |-> 6, bytes |-> ToUtf8(Code(p))]
        ELSE IF \/ end - (p + 6) < 6 \/ At(t, p + 6) # BACKSLASH \/ At(t, p + 7) # 117
                \/ Code(p + 6) \notin 56320 .. 57343
               THEN NoLiteral
        ELSE [len |-> 12, bytes |-> ToUtf8(65536 + (Code(p) % 1024) * 1024 + (Code(p + 6) % 1024))]

\* Where the string literal ends (or -1), and how many backslashes precede.
RECURSIVE FindEnd(_, _, _)
FindEnd(t, end, skipped) ==
    IF ~can_access(t, end) THEN [end |-> -1, skipped |-> skipped]
    ELSE IF At(t, end) = QUOTE THEN [end |-> end, skipped |-> skipped]
    ELSE IF At(t, end) # BACKSLASH THEN FindEnd(t, end + 1, skipped)
    ELSE IF ~can_access(t, end + 1) THEN [end |-> -1, skipped |-> skipped]
    ELSE FindEnd(t, end + 2, skipped + 1)

\* b f n r t " \ / after a backslash.
Escapes == {98, 102, 110, 114, 116, QUOTE, BACKSLASH, SLASH}
Unescaped(c) == CASE c = 98 -> 8 [] c = 102 -> 12 [] c = 110 -> LF [] c = 114 -> 13
                  [] c = 116 -> TAB [] OTHER -> c

\* The loop through the literal: [ok, p, bytes].
RECURSIVE Decode(_, _, _, _)
Decode(t, p, end, bytes) ==
    IF p >= end THEN [ok |-> TRUE, p |-> p, bytes |-> bytes]
    ELSE IF At(t, p) # BACKSLASH THEN Decode(t, p + 1, end, Append(bytes, At(t, p)))
    ELSE IF At(t, p + 1) \in Escapes
           THEN Decode(t, p + 2, end, Append(bytes, Unescaped(At(t, p + 1))))
    ELSE LET u == utf16_literal_to_utf8(t, p, end)
         IN  IF At(t, p + 1) # 117 \/ u.len = 0 THEN [ok |-> FALSE, p |-> p, bytes |-> bytes]
             ELSE Decode(t, p + u.len, end, bytes \o u.bytes)

\* The text up to its first NUL byte is what valuestring means.
CString(bytes) == SubSeq(bytes, 1, Span(bytes, 1 .. 255))

\* The output: room is what was allocated for it, used what is written to it.
Output(off, scan, d) ==
    [room |-> scan.end - off - scan.skipped + 1, used |-> Len(d.bytes) + 1]
    @@ (IF d.ok THEN Parsed(String(CString(d.bytes)), scan.end + 1) ELSE Fail(d.p))
NoOutput(off) == [room |-> 0, used |-> 0] @@ Fail(off)
WithinQuotes(t, off, scan) ==
    IF scan.end = -1 THEN NoOutput(off + 1)
    ELSE Output(off, scan, Decode(t, off + 1, scan.end, <<>>))
parse_string(t, off) ==
    IF At(t, off) # QUOTE THEN NoOutput(off + 1) ELSE WithinQuotes(t, off, FindEnd(t, off + 1, 0))

\* The loop of parse_array, from the character before an element.
RECURSIVE Elements(_, _, _, _)
AfterElement(t, next, depth, done) ==
    IF Sees(t, next, COMMA) THEN Elements(t, next, depth, done)
    ELSE IF Sees(t, next, RBRACKET) THEN Parsed(Array(done), next + 1) ELSE Fail(next)
WithElement(t, r, depth, done) ==
    IF ~r.ok THEN r
    ELSE AfterElement(t, buffer_skip_whitespace(t, r.off), depth, Append(done, r.v))
Elements(t, off, depth, done) ==
    WithElement(t, parse_value(t, buffer_skip_whitespace(t, off + 1), depth), depth, done)

\* The loop of parse_object, from the character before a key.
RECURSIVE Members(_, _, _, _)
AfterMember(t, next, depth, done) ==
    IF Sees(t, next, COMMA) THEN Members(t, next, depth, done)
    ELSE IF Sees(t, next, RBRACE) THEN Parsed(Object(done), next + 1) ELSE Fail(next)
WithMember(t, key, r, depth, done) ==
    IF ~r.ok THEN r
    ELSE AfterMember(t, buffer_skip_whitespace(t, r.off), depth, Append(done, <<key, r.v>>))
AfterKey(t, key, colon, depth, done) ==
    IF ~Sees(t, colon, COLON) THEN Fail(colon)
    ELSE WithMember(t, key, parse_value(t, buffer_skip_whitespace(t, colon + 1), depth), depth, done)
WithKey(t, k, depth, done) ==
    IF ~k.ok THEN Fail(k.off)
    ELSE AfterKey(t, k.v.text, buffer_skip_whitespace(t, k.off), depth, done)
Members(t, off, depth, done) ==
    WithKey(t, parse_string(t, buffer_skip_whitespace(t, off + 1)), depth, done)

\* first: the offset of the first character inside.
FirstElement(t, first, depth) ==
    IF Sees(t, first, RBRACKET) THEN Parsed(Array(<<>>), first + 1)
    ELSE Elements(t, first - 1, depth + 1, <<>>)
parse_array(t, off, depth) ==
    IF depth >= CJSON_NESTING_LIMIT THEN Fail(off)
    ELSE FirstElement(t, buffer_skip_whitespace(t, off + 1), depth)

FirstMember(t, first, depth) ==
    IF Sees(t, first, RBRACE) THEN Parsed(Object(<<>>), first + 1)
    ELSE Members(t, first - 1, depth + 1, <<>>)
parse_object(t, off, depth) ==
    IF depth >= CJSON_NESTING_LIMIT THEN Fail(off)
    ELSE FirstMember(t, buffer_skip_whitespace(t, off + 1), depth)

ValueOf(s) == [ok |-> s.ok, v |-> s.v, off |-> s.off]
parse_value(t, off, depth) ==
    CASE Reads(t, off, null) -> Parsed(Literal("NULL"), off + 4)
      [] Reads(t, off, false) -> Parsed(Literal("False"), off + 5)
      [] Reads(t, off, true) -> Parsed(Literal("True"), off + 4)
      [] Sees(t, off, QUOTE) -> ValueOf(parse_string(t, off))
      [] Sees(t, off, MINUS) \/ \E c \in Digit : Sees(t, off, c) -> parse_number(t, off)
      [] Sees(t, off, LBRACKET) -> parse_array(t, off, depth)
      [] Sees(t, off, LBRACE) -> parse_object(t, off, depth)
      [] OTHER -> Fail(off)

\* On failure off is the position of the error.
Failure(t, off) == Fail(IF off < Len(t) THEN off ELSE Len(t) - 1)
NulRequired(t, v, end) ==
    IF end >= Len(t) \/ At(t, end) # NUL THEN Failure(t, end) ELSE Parsed(v, end)
AtEnd(t, r, require_null_terminated) ==
    IF ~r.ok THEN Failure(t, r.off)
    ELSE IF require_null_terminated THEN NulRequired(t, r.v, buffer_skip_whitespace(t, r.off))
    ELSE r
\* t ends with NUL.
ParseText(t, require_null_terminated) ==
    AtEnd(t, parse_value(t, buffer_skip_whitespace(t, 0), 0), require_null_terminated)
cJSON_ParseWithOpts(s, require_null_terminated) ==
    ParseText(Append(s, NUL), require_null_terminated)
cJSON_Parse(s) == cJSON_ParseWithOpts(s, FALSE)
-----------------------------------------------------------------------------
(* Printing.  A printbuffer: its length and offset, the text in it up to   *)
(* NUL, whether a call has failed (every caller then returns at once),     *)
(* whether anything was written beyond its length, whether its memory is   *)
(* there (buffer is not NULL) and how often it was freed.  No allocation   *)
(* of more than `memory' bytes succeeds.                                   *)

RECURSIVE print_value(_, _)

printbuffer(length, noalloc, format, memory) ==
    [length |-> length, offset |-> 0, depth |-> 0, noalloc |-> noalloc, format |-> format,
     text |-> <<>>, ok |-> TRUE, over |-> FALSE, held |-> TRUE, freed |-> 0, memory |-> memory]
NoBuffer(format) == [printbuffer(0, FALSE, format, 0) EXCEPT !.ok = FALSE, !.held = FALSE]
deallocate(p) == IF p.held THEN [p EXCEPT !.held = FALSE, !.freed = @ + 1] ELSE p

ensure(p, more) ==
    LET needed == more + p.offset + 1
        newsize == IF needed > INT_MAX \div 2 THEN INT_MAX ELSE 2 * needed
    IN  IF ~p.ok \/ (p.length > 0 /\ p.offset >= p.length) \/ more > INT_MAX
          THEN [p EXCEPT !.ok = FALSE]
        ELSE IF needed <= p.length THEN p
        ELSE IF p.noalloc \/ needed > INT_MAX THEN [p EXCEPT !.ok = FALSE]
        ELSE IF newsize > p.memory THEN [deallocate(p) EXCEPT !.ok = FALSE, !.length = 0]
        ELSE [p EXCEPT !.length = newsize]

\* Writes s at the offset, and a NUL after it if nul = 1.
Write(p, s, nul) ==
    IF ~p.ok THEN p ELSE
    [p EXCEPT !.text = SubSeq(@, 1, p.offset) \o s,
              !.over = @ \/ p.offset + Len(s) + nul > p.length]
update_offset(p) == [p EXCEPT !.offset = Len(p.text)]
Deeper(p, by) == [p EXCEPT !.depth = @ + by]

RECURSIVE Decimal(_)
Decimal(n) ==
    IF n < 0 THEN <<MINUS>> \o Decimal(-n)
    ELSE IF n < 10 THEN <<ZERO + n>>
    ELSE Append(Decimal(n \div 10), ZERO + (n % 10))

print_number(n, p) ==
    update_offset(Write(ensure(p, Len(Decimal(n))), Decimal(n), 1))

\* The characters that get a backslash and a letter.
Short == {QUOTE, BACKSLASH, 8, 12, LF, 13, TAB}
HexChar(d) == IF d < 10 THEN ZERO + d ELSE 87 + d
Escaped(c) ==
    CASE c \in {QUOTE, BACKSLASH} -> <<BACKSLASH, c>>
      [] c = 8 -> <<BACKSLASH, 98>> [] c = 12 -> <<BACKSLASH, 102>>
      [] c = LF -> <<BACKSLASH, 110>> [] c = 13 -> <<BACKSLASH, 114>>
      [] c = TAB -> <<BACKSLASH, 116>>
      [] c < 32 /\ c \notin Short ->
            <<BACKSLASH, 117, ZERO, ZERO, HexChar(c \div 16), HexChar(c % 16)>>
      [] OTHER -> <<c>>

\* EscapeCharacters that counts a \uXXXX like a short escape.
MutantCountsOne(s) == Len(SelectSeq(s, LAMBDA c : c \in Short \/ c < 32))

\* The count made before the output is reserved.
EscapeCharacters(s) ==
    Len(SelectSeq(s, LAMBDA c : c \in Short))
    + 5 * Len(SelectSeq(s, LAMBDA c : c < 32 /\ c \notin Short))

print_string_ptr(s, p) ==
    Write(ensure(p, Len(s) + EscapeCharacters(s) + 3),
          <<QUOTE>> \o FlattenSeq([n \in DOMAIN s |-> Escaped(s[n])]) \o <<QUOTE>>, 1)

If(p, formatted, plain) == IF p.format THEN formatted ELSE plain
Tabs(n) == [k \in 1 .. n |-> TAB]
\* print_value leaves the offset to its caller.
PrintElement(p, v, last) ==
    LET q == update_offset(print_value(v, p))
        comma == If(q, <<COMMA, SPACE>>, <<COMMA>>)
    IN  IF last THEN q ELSE update_offset(Write(ensure(q, Len(comma) + 1), comma, 1))
RECURSIVE PrintElements(_, _, _)
PrintElements(p, s, n) ==
    IF ~p.ok \/ n > Len(s) THEN p
    ELSE PrintElements(PrintElement(p, s[n], n = Len(s)), s, n + 1)

print_array(s, p) ==
    LET open == Deeper(update_offset(Write(ensure(p, 1), <<LBRACKET>>, 0)), 1)
        all == PrintElements(open, s, 1)
    IN  Deeper(Write(ensure(all, 2), <<RBRACKET>>, 1), -1)

\* Key, colon, value and comma.
PrintMember(p, k, v, last) ==
    LET indent == If(p, update_offset(Write(ensure(p, p.depth), Tabs(p.depth), 0)), p)
        key == update_offset(print_string_ptr(k, indent))
        colon == If(p, <<COLON, TAB>>, <<COLON>>)
        named == update_offset(Write(ensure(key, Len(colon)), colon, 0))
        value == update_offset(print_value(v, named))
        tail == (IF last THEN <<>> ELSE <<COMMA>>) \o If(p, <<LF>>, <<>>)
    IN  update_offset(Write(ensure(value, Len(tail) + 1), tail, 1))
RECURSIVE PrintMembers(_, _, _)
PrintMembers(p, s, n) ==
    IF ~p.ok \/ n > Len(s) THEN p
    ELSE PrintMembers(PrintMember(p, s[n][1], s[n][2], n = Len(s)), s, n + 1)

print_object(s, p) ==
    LET brace == If(p, <<LBRACE, LF>>, <<LBRACE>>)
        open == Deeper(update_offset(Write(ensure(p, Len(brace) + 1), brace, 0)), 1)
        all == PrintMembers(open, s, 1)
        close == If(p, Append(Tabs(all.depth - 1), RBRACE), <<RBRACE>>)
    IN  Deeper(Write(ensure(all, If(p, all.depth + 1, 2)), close, 1), -1)

print_value(v, p) ==
    CASE v.type = "NULL" -> Write(ensure(p, 5), null, 1)
      [] v.type = "False" -> Write(ensure(p, 6), false, 1)
      [] v.type = "True" -> Write(ensure(p, 5), true, 1)
      [] v.type = "Number" -> print_number(v.number, p)
      [] v.type = "Raw" -> Write(ensure(p, Len(v.text) + 1), v.text, 1)
      [] v.type = "String" -> print_string_ptr(v.text, p)
      [] v.type = "Array" -> print_array(v.elements, p)
      [] v.type = "Object" -> print_object(v.members, p)

\* The label fail: what is left of the buffer is freed.
Given(p) == IF p.ok THEN p ELSE deallocate(p)

\* print: the buffer has 256 bytes (here: none is had only without memory), but
\* a length of 0; the last reallocate keeps its size.
PrintIn(v, format, memory) ==
    IF memory = 0 THEN NoBuffer(format)
    ELSE Given(print_value(v, printbuffer(0, FALSE, format, memory)))
print(v, format) == PrintIn(v, format, INT_MAX)

cJSON_PrintBuffered(v, prebuffer, fmt, memory) ==
    IF prebuffer > memory THEN NoBuffer(fmt)
    ELSE Given(print_value(v, printbuffer(prebuffer, FALSE, fmt, memory)))
cJSON_PrintPreallocated(v, len, fmt) == print_value(v, printbuffer(len, TRUE, fmt, 0))
-----------------------------------------------------------------------------
(* Minifying in place: [text, over], over when it reads past the NUL.      *)

White == {SPACE, TAB, 13, LF}

\* The end of a comment or string that starts at j: past its last character.
RECURSIVE LineEnd(_, _)
LineEnd(t, j) == IF At(t, j) \in {NUL, LF} THEN j ELSE LineEnd(t, j + 1)
RECURSIVE CommentEnd(_, _)
CommentEnd(t, j) == IF At(t, j) = NUL \/ Reads(t, j, <<STAR, SLASH>>) THEN j + 2
                    ELSE CommentEnd(t, j + 1)
RECURSIVE StringEnd(_, _)
\* A backslash takes the next character along, be it the NUL.
StringEnd(t, j) == IF j >= Len(t) THEN j
                   ELSE IF At(t, j) \in {NUL, QUOTE} THEN j + 1
                   ELSE StringEnd(t, j + IF At(t, j) = BACKSLASH THEN 2 ELSE 1)

RECURSIVE MinifyFrom(_, _, _)
MinifyFrom(t, j, into) ==
    IF j >= Len(t) THEN [text |-> into, over |-> TRUE]
    ELSE IF At(t, j) = NUL THEN [text |-> into, over |-> FALSE]
    ELSE IF At(t, j) \in White THEN MinifyFrom(t, j + 1, into)
    ELSE IF Reads(t, j, <<SLASH, SLASH>>) THEN MinifyFrom(t, LineEnd(t, j), into)
    ELSE IF Reads(t, j, <<SLASH, STAR>>) THEN MinifyFrom(t, CommentEnd(t, j), into)
    ELSE LET next == IF At(t, j) = QUOTE THEN StringEnd(t, j + 1) ELSE j + 1
         IN  MinifyFrom(t, next, into \o SubSeq(t, j + 1, next))

cJSON_Minify(s) == MinifyFrom(Append(s, NUL), 0, <<>>)
=============================================================================
