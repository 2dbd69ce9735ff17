----------------------------- MODULE MCClients ------------------------------
(***************************************************************************)
(* An instance of Clients: many askings of a silent server, and many       *)
(* replies to a plain asking.                                              *)
(***************************************************************************)
EXTENDS Clients

CONSTANTS Lengths,      \* of a method's name
          Wides,        \* of texts of wide characters
          Leads, Bytes  \* for the texts of up to three and of four bytes

a == <<97>>
Json(v) == print(v, FALSE).text
Numbered(n) == Object(<< <<a, Number(n)>> >>)
Good == [family |-> "inet", socket |-> TRUE, option |-> TRUE, bind |-> TRUE, reach |-> TRUE]

Asked(client, args) ==
    [client |-> client, args |-> args, attach |-> <<LBRACE, RBRACE>>, method |-> 1,
     addrs |-> <<Good>>]

Texts == {<<b>> : b \in Bytes \cup Leads} \cup ((Bytes \cup Leads) \X Bytes)
         \cup (Leads \X Bytes \X Bytes) \cup (Leads \X Bytes \X Bytes \X Bytes)
Quoted(s) == <<LBRACKET, QUOTE>> \o s \o <<QUOTE, RBRACKET>>

NovaArgs ==
    {Numbered(1), Object(<<>>), Array(<<>>),
     Object(<< <<a, Number(1)>>, <<<<98>>, Array(<<String(<<QUOTE>>)>>)>>,
               <<<<99>>, Numbered(2)>> >>),
     Object(<< <<a, Number(1)>>, <<<<65>>, Array(<<>>)>>, <<<<99>>, Array(<<>>)>> >>)}
\* Texts that escapes make three times as long, up to where they do not fit the
\* buffer and are refused.
Smiles(n) == String(FlattenSeq([k \in 1 .. n |-> <<240, 159, 152, 128>>]))
WideTexts == {Json(Array([k \in 1 .. 6 |-> Smiles(n)])) : n \in Wides}
DubboArgs ==
    {Array(<<Number(1), String(<<QUOTE, LF, 200>>)>>), Numbered(1), Object(<<>>), Number(1)}
Attachments == {Json(Numbered(1)), <<LBRACKET>>,
                Json(Object(<< <<a, String([n \in 1 .. 20 |-> 97])>> >>))}

Addresses(as) == {<<>>} \cup (as \X {[Good EXCEPT !.reach = FALSE]}) \cup {<<x>> : x \in as}
                 \cup (as \X as)
ForClients == {x \in Address : x.bind}
ForServers == {x \in Address : x.reach /\ x.family = "inet"}

MCAsks ==
    {Asked("nova", Json(v)) : v \in NovaArgs}
    \cup {[Asked("nova", Json(v)) EXCEPT !.attach = t] :
             v \in {Numbered(1), Object(<< <<a, Array(<<>>)>> >>)}, t \in Attachments}
    \cup {Asked("dubbo", Json(v)) : v \in DubboArgs} \cup {Asked("dubbo", Quoted(s)) : s \in Texts}
    \cup {Asked("dubbo", s) : s \in WideTexts}
    \cup {[Asked("dubbo", Quoted(a)) EXCEPT !.attach = t] : t \in Attachments}
    \cup {[Asked("dubbo", Quoted(s)) EXCEPT !.method = n] :
             n \in Lengths, s \in {a, [k \in 1 .. 20 |-> 97]}}
    \cup {[Asked("nova", Json(Numbered(1))) EXCEPT !.addrs = s] : s \in Addresses(ForClients)}
    \cup {[Asked("server", a) EXCEPT !.addrs = s] : s \in Addresses(ForServers)}
-----------------------------------------------------------------------------
Reply(bytes, whole, good, color, json) ==
    [bytes |-> bytes, whole |-> whole, good |-> good, color |-> color, json |-> json,
     answer |-> json, desc |-> "", harm |-> FALSE, short |-> 0]
Packet(bytes, color, json) == Reply(bytes, Len(bytes), TRUE, color, json)
Bad(bytes) == Reply(bytes, Len(bytes), FALSE, "none", <<>>)
Harmful(bytes) == [Bad(bytes) EXCEPT !.harm = TRUE]
Silence == Bad(<<>>)

\* A nova answer: the member that is shown, and the whole of it.
Answers == {[color |-> "green", shown |-> Numbered(1),
             all |-> Object(<< <<RESPONSE, Numbered(1)>> >>)],
            [color |-> "red", shown |-> Number(2),
             all |-> Object(<< <<RESPONSE, Number(1)>>, <<<<69>>, Number(2)>> >>)],
            [color |-> "plain", shown |-> Numbered(1), all |-> Numbered(1)],
            [color |-> "plain", shown |-> Array(<<>>), all |-> Array(<<>>)]}
NovaAnswers(attach) ==
    {[Packet(NovaReply(attach, ThriftReply(Json(x.all))), x.color, Json(x.shown))
        EXCEPT !.answer = Json(x.all)] : x \in Answers}
\* A packet with byte n changed.
Changed(bytes, n, to) == [bytes EXCEPT ![n] = to]
Plain == NovaReply(<<LBRACE, RBRACE>>, ThriftReply(Json(Numbered(1))))
Header == HeadSize(<<LBRACE, RBRACE>>)
NovaReplies ==
    NovaAnswers(<<>>) \cup NovaAnswers(<<LBRACE, RBRACE>>) \cup NovaAnswers(Json(Numbered(3)))
    \cup {[Packet(NovaReply(<<>>, ThriftReply(<<LBRACE>>)), "plain", <<LBRACE>>) EXCEPT !.answer = <<>>],
          [Packet(Plain, "plain", Json(Numbered(1))) EXCEPT !.bytes = @ \o Plain],
          [Packet(NovaReply(<<>>, ThriftReply(<<97, 0, 98>>)), "plain", a) EXCEPT !.answer = <<>>],
          Harmful(NovaReply(<<>>, ThriftException(a))),
          Bad(Changed(Plain, 5, 0)), Bad(Changed(Plain, 1, 200)), Bad(Changed(Plain, 1, 1)),
          Bad(Changed(Plain, 7, 127)), Bad(Changed(Plain, Header + 1, 0)),
          Bad(Changed(Plain, Header + 9, 0)), Harmful(Changed(Plain, Header + 5, 1)),
          Bad(Changed(Plain, Header + 15, 12)), Harmful(Changed(Plain, Header + 18, 127)),
          Harmful(Changed(Plain, Len(Plain), 1)), Harmful(Changed(Plain, 20, 100))}

Value(chars) == <<145>> \o HsText(chars)
Chars(s) == [n \in DOMAIN s |-> <<s[n]>>]
Wide == <<LBRACKET, QUOTE>> \o <<195, 169>> \o <<240, 159, 152, 128>> \o <<QUOTE, RBRACKET>>
WideChars == <<<<LBRACKET>>, <<QUOTE>>, <<195, 169>>,
               <<240, 159, 152, 128>>, <<QUOTE>>, <<RBRACKET>>>>
Long == [n \in 1 .. 40 |-> 97]
Ok(body) == DubboPacket(0, DUBBO_RES_T_OK, body)
Cut(body, text, n) == [Packet(Ok(body), "green", text) EXCEPT !.good = FALSE, !.short = n]
DubboReplies ==
    {Packet(Ok(Value(WideChars)), "green", Wide), Packet(Ok(Value(Chars(Long))), "green", Long),
     Packet(Ok(Value(<<<<LBRACE>>>>)), "green", <<LBRACE>>),
     Packet(Ok(<<146>>), "green", <<>>), Packet(Ok(<<144>> \o HsText(<<a>>)), "green", a),
     Packet(DubboPacket(0, 40, HsText(<<a>>)), "red", a),
     [Packet(DubboPacket(0, 70, HsText(Chars(Json(Numbered(1))))), "red", Json(Numbered(1)))
        EXCEPT !.desc = "SERVICE ERROR"],
     Packet(DubboPacket(DUBBO_FLAG_EVT, DUBBO_RES_T_OK, hs_encode_null), "none", <<>>),
     [Packet(Ok(Value(<<a>>)), "green", a) EXCEPT !.bytes = @ \o Ok(<<146>>) \o Ok(<<146>>)],
     [Packet(Ok(Value(<<>>)), "green", <<>>) EXCEPT !.harm = TRUE],
     Cut(<<145, 2, 97, 195>>, <<97, 195>>, 1), Cut(<<145, 48, 2, 97, 224>>, <<97, 224>>, 2),
     Cut(<<145, 83, 0, 2, 97, 240>>, <<97, 240>>, 3),
     [Cut(<<145, 2, 195, 169>>, <<195, 169>>, 1) EXCEPT !.harm = TRUE],
     Harmful(Ok(<<145, 82, 0, 1, 97>>)), Harmful(Ok(<<145, 2, 97, 240>>)),
     Bad(Ok(<<145, 3, 97>>)), Bad(Ok(<<145, 48>>)), Bad(Ok(<<145, 1, 255>>)), Bad(Ok(<<147>>)),
     Bad(Ok(<<1>>)), Bad(Ok(<<145>>)), Bad(Ok(<<145, 84>>)), Bad(Ok(<<>>)),
     Bad(DubboPacket(DUBBO_FLAG_REQ, DUBBO_RES_T_OK, <<146>>)),
     Bad(Changed(Ok(<<146>>), 3, 3)), Bad(Changed(Ok(<<146>>), 2, 0)),
     Bad(Changed(Ok(<<146>>), 13, 255)), Bad(Changed(Ok(<<146>>), 13, 1))}

MCCases ==
    {[ask |-> x, reply |-> Silence] : x \in MCAsks}
    \cup {[ask |-> Asked("nova", Json(Numbered(1))), reply |-> r] : r \in NovaReplies}
    \cup {[ask |-> Asked("dubbo", Quoted(a)), reply |-> r] : r \in DubboReplies}
=============================================================================
