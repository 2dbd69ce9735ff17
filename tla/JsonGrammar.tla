---------------------------- MODULE JsonGrammar -----------------------------
(***************************************************************************)
(* What base/cJSON.c promises to read, stated without its parser: the      *)
(* values a text stands for, found by trying every way to split it.        *)
(***************************************************************************)
EXTENDS CJsonText

RECURSIVE ValuesOf(_, _)

Part(s, a, b) == SubSeq(s, a, b)

RECURSIVE Trim(_)
Trim(s) == IF s # <<>> /\ Head(s) <= 32 THEN Trim(Tail(s))
           ELSE IF s # <<>> /\ Last(s) <= 32 THEN Trim(Front(s)) ELSE s

\* The code points that UTF-8 bytes encode.
RECURSIVE CodePoints(_)
CodePoints(b) ==
    IF b = <<>> THEN <<>> ELSE
    LET n == CASE b[1] < 128 -> 1 [] b[1] \in 192 .. 223 -> 2
               [] b[1] \in 224 .. 239 -> 3 [] b[1] >= 240 -> 4
        lead == CASE n = 1 -> b[1] [] n = 2 -> b[1] - 192 [] n = 3 -> b[1] - 224
                  [] n = 4 -> b[1] - 240
    IN  <<FoldLeft(LAMBDA c, x : 64 * c + (x - 128), lead, SubSeq(b, 2, n))>>
        \o CodePoints(SubSeq(b, n + 1, Len(b)))

\* The code points of a string literal's inside: a set of at most one sequence.
\* Four characters after \u that are not all hexadecimal count as 0.
Utf16(s) == parse_hex4(SubSeq(s, 3, 6))
IsUtf16(s, codes) == Len(s) >= 6 /\ s[1] = BACKSLASH /\ s[2] = 117 /\ Utf16(s) \in codes
Leading == 55296 .. 56319
Trailing == 56320 .. 57343
RECURSIVE Inside(_)
Inside(s) ==
    LET Rest(n) == Part(s, n, Len(s)) IN
    IF s = <<>> THEN {<<>>}
    ELSE IF s[1] # BACKSLASH THEN {<<s[1]>> \o r : r \in Inside(Rest(2))}
    ELSE IF s[1] = BACKSLASH /\ Len(s) >= 2 /\ s[2] \in Escapes
           THEN {<<Unescaped(s[2])>> \o r : r \in Inside(Rest(3))}
    ELSE IF IsUtf16(s, (0 .. 55295) \cup (57344 .. 65535))
           THEN {<<Utf16(s)>> \o r : r \in Inside(Rest(7))}
    ELSE IF IsUtf16(s, Leading) /\ IsUtf16(Rest(7), Trailing)
           THEN {<<65536 + (Utf16(s) - 55296) * 1024 + Utf16(Rest(7)) - 56320>> \o r :
                    r \in Inside(Rest(13))}
    ELSE {}

\* The quotes after the first that an even number of backslashes precedes.
Backslashes(s, n) == Max({k \in 0 .. n - 1 : \A m \in n - k .. n - 1 : s[m] = BACKSLASH})
ClosingQuotes(s) == {n \in 2 .. Len(s) : s[n] = QUOTE /\ Backslashes(s, n) % 2 = 0}

\* The strings, as code points up to a NUL, that s is a literal of.
StringsOf(s) ==
    IF Len(s) >= 2 /\ s[1] = QUOTE /\ ClosingQuotes(s) = {Len(s)}
      THEN {SubSeq(b, 1, Span(b, 1 .. 1114111)) : b \in Inside(Part(s, 2, Len(s) - 1))} ELSE {}

\* Numbers: a sign, digits, and fewer than NUMBER_SIZE characters.
NumbersOf(s) ==
    IF s # <<>> /\ strtod(s).len = Len(s) /\ Len(s) < NUMBER_SIZE THEN {strtod(s).number} ELSE {}

Wrapped(s, open, close) == Len(s) >= 2 /\ s[1] = open /\ Last(s) = close
Unwrapped(s) == Trim(Part(s, 2, Len(s) - 1))
CommasOf(s) == {n \in DOMAIN s : s[n] = COMMA}

\* The values that s, without white space around it, stands for; at most
\* `depth' arrays and objects inside one another.
\* The sequences that s stands for as a list of what Item reads.
RECURSIVE ElementsOf(_, _)
ElementsOf(s, depth) ==
    {<<v>> : v \in ValuesOf(Trim(s), depth)}
    \cup UNION {{<<v>> \o r : v \in ValuesOf(Trim(Part(s, 1, n - 1)), depth),
                              r \in ElementsOf(Part(s, n + 1, Len(s)), depth)} : n \in CommasOf(s)}

MemberOf(s, depth) ==
    UNION {{<<k, v>> : k \in StringsOf(Trim(Part(s, 1, n - 1))),
                       v \in ValuesOf(Trim(Part(s, n + 1, Len(s))), depth)} :
           n \in {n \in DOMAIN s : s[n] = COLON}}
RECURSIVE MembersOf(_, _)
MembersOf(s, depth) ==
    {<<m>> : m \in MemberOf(s, depth)}
    \cup UNION {{<<m>> \o r : m \in MemberOf(Part(s, 1, n - 1), depth),
                              r \in MembersOf(Part(s, n + 1, Len(s)), depth)} : n \in CommasOf(s)}

ValuesOf(s, depth) ==
    {Number(n) : n \in NumbersOf(s)} \cup {String(x) : x \in StringsOf(s)}
    \cup {Literal(w) : w \in {w \in {"NULL", "True", "False"} :
              s = CASE w = "NULL" -> null [] w = "True" -> true [] w = "False" -> false}}
    \cup (IF ~Wrapped(s, LBRACKET, RBRACKET) \/ depth = 0 THEN {}
          ELSE IF Unwrapped(s) = <<>> THEN {Array(<<>>)}
          ELSE {Array(e) : e \in ElementsOf(Unwrapped(s), depth - 1)})
    \cup (IF ~Wrapped(s, LBRACE, RBRACE) \/ depth = 0 THEN {}
          ELSE IF Unwrapped(s) = <<>> THEN {Object(<<>>)}
          ELSE {Object(m) : m \in MembersOf(Unwrapped(s), depth - 1)})
=============================================================================
