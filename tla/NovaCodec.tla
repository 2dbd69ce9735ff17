----------------------------- MODULE NovaCodec ------------------------------
(***************************************************************************)
(* The packets of the nova client: the nova header (nova_client/codec.c)   *)
(* in front of a generic thrift call or its answer                         *)
(* (nova_client/generic.c).  The service's and the method's long names are *)
(* stood for by short ones.                                                *)
(***************************************************************************)
EXTENDS ByteFields

CONSTANT MaxHead        \* the largest header, 0x7fff

ASSUME NovaAssumption == MaxHead \in Nat

NOVA_MAGIC == <<218, 188>>
NOVA_HEADER_COMMON_LEN == 37
GENERIC_SERVICE == <<103>>
GENERIC_METHOD == <<105, 110>>
VER1 == <<128, 1>>
T_CALL == 1
T_REPLY == 2
T_EX == 3
TYPE_STRUCT == 12
TYPE_STRING == 11
FIELD_STOP == 0

Field(type, id) == buf_appendInt(type, 1) \o buf_appendInt(id, 2)
StringField(id, s) == Field(TYPE_STRING, id) \o WithLength(s)
Message(type, seq) ==
    VER1 \o buf_appendInt(type, 2) \o WithLength(GENERIC_METHOD) \o buf_appendInt(seq, 4)

thrift_generic_pack(seq, serv, method, json_args) ==
    Message(T_CALL, seq) \o Field(TYPE_STRUCT, 1)
    \o StringField(1, serv) \o StringField(2, method) \o StringField(3, json_args)
    \o <<FIELD_STOP>> \o <<FIELD_STOP>>

\* The checks and the assertions in the order of the code.  The type is taken
\* from what VER_MASK has left of the first word and is always 0, so an
\* exception is never recognised.
thrift_generic_unpack(b) ==
    LET name == ReadFields(b, <<4, 0>>)
        field == ReadFields(b, <<4, 0, 4, 1, 2>>)
        all == ReadFields(b, <<4, 0, 4, 1, 2, 0, 1>>)
    IN  IF Len(b) < 4 THEN Aborts
        ELSE IF SubSeq(b, 1, 2) # VER1 THEN Fails
        ELSE IF name.bad THEN Aborts
        ELSE IF name.vals[2] # GENERIC_METHOD THEN Fails
        ELSE IF field.bad THEN Aborts
        ELSE IF field.vals[5] # 0 THEN Aborts
        ELSE IF field.vals[4] # TYPE_STRING THEN Fails
        ELSE IF all.bad THEN Aborts
        ELSE IF all.vals[7] # FIELD_STOP THEN Aborts
        ELSE Gives(all.vals[6])
-----------------------------------------------------------------------------
HeadSize(attach) ==
    NOVA_HEADER_COMMON_LEN + Len(GENERIC_SERVICE) + Len(GENERIC_METHOD) + Len(attach)

create_nova_generic(attach) ==
    IF HeadSize(attach) > MaxHead THEN Fails
    ELSE Gives([head_size |-> HeadSize(attach), version |-> 1, ip |-> 0, port |-> 0,
                service |-> GENERIC_SERVICE, method |-> GENERIC_METHOD, seq_no |-> 1,
                attach |-> attach])

nova_pack(hdr, body) ==
    buf_appendInt(hdr.head_size + Len(body), 4) \o NOVA_MAGIC \o buf_appendInt(hdr.head_size, 2)
    \o buf_appendInt(hdr.version, 1) \o buf_appendInt(hdr.ip, 4) \o buf_appendInt(hdr.port, 4)
    \o WithLength(hdr.service) \o WithLength(hdr.method) \o buf_appendInt(hdr.seq_no, 8)
    \o WithLength(hdr.attach) \o body

nova_detect(b) == Len(b) >= NOVA_HEADER_COMMON_LEN /\ SubSeq(b, 5, 6) = NOVA_MAGIC

nova_unpack(b) ==
    LET r == ReadFields(b, <<4, 2, 2, 1, 4, 4, 0, 0, 8, 0>>)
        v == r.vals
    IN  IF Len(b) <= NOVA_HEADER_COMMON_LEN THEN Fails
        ELSE IF \/ v[1] <= NOVA_HEADER_COMMON_LEN \/ ~nova_detect(b) \/ v[3] > v[1] THEN Fails
        ELSE IF r.bad THEN Aborts
        ELSE Gives([head_size |-> v[3], version |-> v[4], ip |-> v[5], port |-> v[6],
                    service |-> v[7], method |-> v[8], seq_no |-> v[9], attach |-> v[10],
                    body |-> r.rest])
-----------------------------------------------------------------------------
\* What the server sends: an answer with its JSON text, or an exception (a
\* message and a type, in a struct of their own), packed the same way.
ThriftReply(json) == Message(T_REPLY, 0) \o StringField(0, json) \o <<FIELD_STOP>>
ThriftException(json) ==
    Message(T_EX, 0) \o StringField(1, json) \o Field(8, 2) \o buf_appendInt(6, 4) \o <<FIELD_STOP>>
NovaReply(attach, body) == nova_pack(create_nova_generic(attach).v, body)
=============================================================================
