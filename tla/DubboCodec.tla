----------------------------- MODULE DubboCodec -----------------------------
(***************************************************************************)
(* The packets of the dubbo client: requests and responses                 *)
(* (dubbo_client/dubbo_codec.c), hessian strings                           *)
(* (dubbo_client/dubbo_hessian.c) and the strict UTF-8 decoder             *)
(* (base/utf8_decode.c).  JSON is read and printed by cJSON (CJsonText).   *)
(* The fixed names of the generic service are stood for by short ones.     *)
(***************************************************************************)
EXTENDS ByteFields, CJsonText

CONSTANTS DUBBO_BUF_LEN,     \* room for the body of a request
          HS_STRING_MAX      \* the longest string that is encoded, 0x8000

ASSUME DubboAssumption == DUBBO_BUF_LEN \in Nat /\ HS_STRING_MAX \in 1 .. 65535

DUBBO_HDR_LEN == 16
DUBBO_MAGIC == <<218, 187>>
DUBBO_MAX_PKT_SZ == 4194304
DUBBO_HESSIAN2_SERI_ID == 2
DUBBO_FLAG_REQ == 128
DUBBO_FLAG_TWOWAY == 64
DUBBO_FLAG_EVT == 32
DUBBO_RES_T_OK == 20
DUBBO_RES_EX == 0
DUBBO_RES_VAL == 1
DUBBO_RES_NULL == 2
DUBBO_VER == <<51>>
DUBBO_GENERIC_METHOD_VER == <<48>>
DUBBO_GENERIC_METHOD_NAME == <<36>>
DUBBO_GENERIC_METHOD_PARA_TYPES == <<76>>
-----------------------------------------------------------------------------
UTF8_ERROR == -2

\* The payload of the continuation byte at i.
cont(s, i) == IF i <= Len(s) /\ s[i] \in 128 .. 191 THEN s[i] - 128 ELSE UTF8_ERROR

\* The character that starts at i, in len bytes.
Char(c, least, most, len) ==
    IF c >= least /\ c <= most /\ c \notin 55296 .. 57343 THEN [c |-> c, len |-> len]
    ELSE [c |-> UTF8_ERROR, len |-> len]
NoChar == [c |-> UTF8_ERROR, len |-> 1]

utf8_decode_next(s, i) ==
    LET c1 == cont(s, i + 1)
        c2 == cont(s, i + 2)
        c3 == cont(s, i + 3)
    IN  CASE s[i] < 128 -> [c |-> s[i], len |-> 1]
          [] s[i] \in 192 .. 223 /\ c1 >= 0 -> Char((s[i] % 32) * 64 + c1, 128, 2047, 2)
          [] s[i] \in 224 .. 239 /\ c1 >= 0 /\ c2 >= 0 ->
                Char((s[i] % 16) * 4096 + c1 * 64 + c2, 2048, 65535, 3)
          [] s[i] \in 240 .. 247 /\ c1 >= 0 /\ c2 >= 0 /\ c3 >= 0 ->
                Char((s[i] % 8) * 262144 + c1 * 4096 + c2 * 64 + c3, 65536, 1114111, 4)
          [] OTHER -> NoChar

UnicodeEscape(c) ==
    <<BACKSLASH, 117, HexChar(c \div 4096), HexChar((c \div 256) % 16),
      HexChar((c \div 16) % 16), HexChar(c % 16)>>


\* One character: itself, an escape, or the escapes of a surrogate pair.
Ascii(c) ==
    CASE c < 128 -> <<c>>
      [] c >= 65536 -> UnicodeEscape(55296 + (c - 65536) \div 1024)
                         \o UnicodeEscape(56320 + ((c - 65536) % 1024))
      [] OTHER -> UnicodeEscape(c)

RECURSIVE AsciiFrom(_, _, _)
AsciiAfter(s, i, char, out) ==
    IF char.c = UTF8_ERROR THEN Fails ELSE AsciiFrom(s, i + char.len, out \o Ascii(char.c))
AsciiFrom(s, i, out) ==
    IF i > Len(s) THEN Gives(out) ELSE AsciiAfter(s, i, utf8_decode_next(s, i), out)

\* s is not empty (buf_create asserts a size).
utf82ascii(s) == AsciiFrom(s, 1, <<>>)

\* The elements of an array, or the values of an object, as an array.
Arguments(v) == IF v.type = "Array" THEN v.elements ELSE [n \in DOMAIN v.members |-> v.members[n][2]]
rebuild_json_args(json_str) ==
    LET root == cJSON_Parse(json_str)
    IN  IF ~root.ok \/ root.v.type \notin {"Array", "Object"} THEN Fails
        ELSE utf82ascii(print(Array(Arguments(root.v)), FALSE).text)
-----------------------------------------------------------------------------
\* The length in front of a hessian string.
HsLength(n) ==
    CASE n <= 31 -> <<n>>
      [] n \in 32 .. 1023 -> <<48 + n \div 256, n % 256>>
      [] OTHER -> <<83, n \div 256, n % 256>>

hs_encode_string(str) == IF Len(str) > HS_STRING_MAX THEN Fails ELSE Gives(HsLength(Len(str)) \o str)
hs_encode_null == <<78>>

(* The byte behind sz characters from i on, judged by their first bytes:   *)
(* -1 for one that starts no character.  The loop is split in halves.      *)
RECURSIVE utf8cpy(_, _, _)
utf8cpy(src, i, sz) ==
    IF sz = 0 \/ i = -1 THEN i
    ELSE IF i >= Len(src) THEN i + sz                   \* at least: see Piece
    ELSE IF sz > 1 THEN utf8cpy(src, utf8cpy(src, i, sz \div 2), sz - sz \div 2)
    ELSE CASE src[i + 1] <= 128 -> i + 1
           [] src[i + 1] \in 192 .. 223 -> i + 2
           [] src[i + 1] \in 224 .. 239 -> i + 3
           [] src[i + 1] \in 240 .. 247 -> i + 4
           [] OTHER -> -1

\* A decoded string; realloc(.., 0) may have freed the memory of an empty one.
Text(v) == [is |-> "ok", v |-> v, freed |-> v = <<>>]
NoText == [is |-> "ok", v |-> <<>>, freed |-> FALSE]

\* A piece of `size' bytes behind h bytes of code and length.  Its size is
\* compared with all of buf, and that only by buf_retrieve in read_hs_str, so
\* that up to h bytes of it may come from `beyond' buf, from other memory.
\* After a piece that is not the last (0x52) the function calls itself on the
\* same bytes, again and again, until its memory is full.
Piece(buf, beyond, h, size) ==
    IF size = -1 THEN Fails
    ELSE IF size > Len(buf) \/ buf[1] = 82 THEN Overruns
    ELSE Text(SubSeq(buf \o beyond, h + 1, h + size))
Delta(buf) ==
    CASE buf[1] <= 31 -> [h |-> 1, n |-> buf[1]]
      [] buf[1] \in 48 .. 51 /\ Len(buf) >= 2 -> [h |-> 2, n |-> (buf[1] - 48) * 256 + buf[2]]
      [] buf[1] \in {82, 83} /\ Len(buf) >= 3 -> [h |-> 3, n |-> buf[2] * 256 + buf[3]]
      [] OTHER -> [h |-> Len(buf) + 1, n |-> 0]

\* internal_decode_string that takes the length for a number of bytes.
MutantBytes(buf, beyond, d) ==
    IF Len(buf) < d.h + d.n THEN Fails ELSE Piece(buf, beyond, d.h, d.n)

internal_decode_string(buf, beyond, d) ==
    IF Len(buf) < d.h + d.n THEN Fails
    ELSE Piece(buf, beyond, d.h, utf8cpy(Drop(buf, d.h) \o beyond, 0, d.n))

\* Of an empty rest the code reads the byte before it, which is no string.
hs_decode_string(buf, beyond) ==
    IF buf = <<>> THEN Fails ELSE internal_decode_string(buf, beyond, Delta(buf))

-----------------------------------------------------------------------------
next_reqid(id) == id + 1           \* far from where it starts over

dubbo_req_create(service, method, args) ==
    IF args.is # "ok" THEN Fails
    ELSE Gives([reqid |-> next_reqid(0), service |-> service, method |-> method, args |-> args.v])

\* The strings of a body: all of them, or what comes before the first that
\* hs_encode_string refuses.  write_hs_str stores each without asking for room.
write_hs_str(strs) == FlattenSeq([n \in DOMAIN strs |-> hs_encode_string(strs[n]).v])
Written(bytes, result) == IF Len(bytes) > DUBBO_BUF_LEN THEN Overruns ELSE result
WriteAll(strs, args) ==
    LET refused == {n \in DOMAIN strs : hs_encode_string(strs[n]).is # "ok"}
        body == write_hs_str(strs) \o hs_encode_null \o write_hs_str(<<args>>) \o hs_encode_null
    IN  IF refused # {} THEN Written(write_hs_str(SubSeq(strs, 1, Min(refused) - 1)), Fails)
        ELSE IF hs_encode_string(args).is # "ok" THEN Written(write_hs_str(strs) \o hs_encode_null, Fails)
        ELSE Written(body, Gives(body))

encode_req_data(req) ==
    WriteAll(<<DUBBO_VER, req.service, DUBBO_GENERIC_METHOD_VER, DUBBO_GENERIC_METHOD_NAME,
               DUBBO_GENERIC_METHOD_PARA_TYPES, req.method>>, req.args)

encode_req_hdr(flag, status, reqid, body_sz) ==
    DUBBO_MAGIC \o <<flag>> \o <<status>> \o buf_appendInt(reqid, 8) \o buf_appendInt(body_sz, 4)

encode_req(req, data) ==
    IF data.is # "ok" THEN data
    ELSE Gives(encode_req_hdr(DUBBO_FLAG_REQ + DUBBO_HESSIAN2_SERI_ID + DUBBO_FLAG_TWOWAY, 0,
                              req.reqid, Len(data.v)) \o data.v)
dubbo_encode(req) == encode_req(req, encode_req_data(req))
-----------------------------------------------------------------------------
is_dubbo_pkt(b) == Len(b) >= DUBBO_HDR_LEN /\ SubSeq(b, 1, 2) = DUBBO_MAGIC
BodySize(b) == buf_peekInt(SubSeq(b, 13, 16), 4)

is_completed_dubbo_pkt(b) == is_dubbo_pkt(b) /\ BodySize(b) \in 1 .. DUBBO_MAX_PKT_SZ
Remaining(b) == BodySize(b) + DUBBO_HDR_LEN - Len(b)

decode_res_hdr(b) ==
    /\ is_dubbo_pkt(b)
    /\ BodySize(b) <= DUBBO_MAX_PKT_SZ
    /\ b[3] % 32 = DUBBO_HESSIAN2_SERI_ID
    /\ b[3] < DUBBO_FLAG_REQ

get_res_status_desc(status) ==
    CASE status = DUBBO_RES_T_OK -> "OK"
      [] status = 30 -> "CLIENT TIMEOUT" [] status = 31 -> "SERVER TIMEOUT"
      [] status = 40 -> "BAD REQUEST" [] status = 50 -> "BAD RESPONSE"
      [] status = 60 -> "SERVICE NOT FOUND" [] status = 70 -> "SERVICE ERROR"
      [] status = 80 -> "SERVER ERROR" [] status = 90 -> "CLIENT ERROR"
      [] OTHER -> "UNKNOWN"

Res(b, ok, data) ==
    IF data.is # "ok" THEN data
    ELSE Gives([is_evt |-> (b[3] \div DUBBO_FLAG_EVT) % 2 = 1, ok |-> ok,
                desc |-> get_res_status_desc(b[4]), data |-> data.v, freed |-> data.freed])

decode_res_data(body, beyond) ==
    IF body[1] \notin 128 .. 191 THEN Fails
    ELSE CASE body[1] - 144 = DUBBO_RES_NULL -> NoText
           [] body[1] - 144 \in {DUBBO_RES_EX, DUBBO_RES_VAL} ->
                 hs_decode_string(Tail(body), beyond)
           [] OTHER -> Fails

decode_res(b, body, beyond) ==
    CASE b[4] # DUBBO_RES_T_OK -> Res(b, FALSE, hs_decode_string(body, beyond))
      [] b[4] = DUBBO_RES_T_OK /\ (b[3] \div DUBBO_FLAG_EVT) % 2 = 1 -> Res(b, TRUE, NoText)
      [] OTHER -> Res(b, TRUE, decode_res_data(body, beyond))

\* The body is copied whether it has arrived or not; then buf_retrieve asserts.
dubbo_decode(b, beyond) ==
    IF ~decode_res_hdr(b) THEN Fails
    ELSE IF Len(b) < DUBBO_HDR_LEN + BodySize(b) THEN Aborts
    ELSE decode_res(b, SubSeq(b, DUBBO_HDR_LEN + 1, DUBBO_HDR_LEN + BodySize(b)), beyond)
-----------------------------------------------------------------------------
\* What a server sends: a header and a body; strings by their characters.
HsText(chars) == HsLength(Len(chars)) \o FlattenSeq(chars)
DubboPacket(flag, status, body) ==
    encode_req_hdr(flag + DUBBO_HESSIAN2_SERI_ID, status, next_reqid(0), Len(body)) \o body
=============================================================================
