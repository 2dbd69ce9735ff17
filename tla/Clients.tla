------------------------------ MODULE Clients -------------------------------
(***************************************************************************)
(* One call of a command line client, nova (nova_client/nova.c) or dubbo   *)
(* without pipelining (dubbo_client/dubbo.c, dubbo_invoke_sync), or a      *)
(* server's socket: from the options to the exit, against a server that    *)
(* may answer in pieces, partly, late or never, close or reset.            *)
(*                                                                         *)
(* The buffer a client reads into is the first `got' bytes of the reply,   *)
(* of which `sent' have arrived.                                           *)
(***************************************************************************)
EXTENDS NovaCodec, DubboCodec, Sockets

CONSTANTS Cases,      \* pairs of what is asked of the program and a server's reply
          Marks,      \* where a stream may be cut, besides its end
          Outside     \* bytes that memory behind a packet may hold

ASSUME ClientsAssumption == Marks \subseteq Nat /\ Outside \subseteq 0 .. 255

VARIABLES ask,        \* the program's options
          reply,      \* what the server has to send
          pc,         \* where the program is
          request,    \* the bytes to send
          up,         \* how many of them are sent
          sent, srv,  \* how much of the reply has arrived; the server's end
          got,        \* how much of it is read
          remaining,  \* dubbo_invoke_sync's count
          open,       \* open sockets
          out, ret    \* what was printed, and the exit status

clientvars == <<pc, request, up, got, remaining, open, out, ret>>
vars == <<ask, reply, sent, srv, clientvars>>

NOTHING == [color |-> "none", text |-> <<>>, attach |-> <<>>, desc |-> ""]
SERVICE == <<115>>
\* The members of an answer that nova looks for, under short names.
ERROR_RESPONSE == <<101>>
RESPONSE == <<114>>
MAX_NOVA_SIZE == 2097152

Init ==
    /\ \E c \in Cases : ask = c.ask /\ reply = c.reply
    /\ pc = "start" /\ request = <<>> /\ up = 0
    /\ sent = 0 /\ srv = "open" /\ got = 0 /\ remaining = 0
    /\ open = 0 /\ out = NOTHING /\ ret = 0

\* How a program ends: it returns, having closed its socket or not, or it is
\* killed (an assertion, an access outside its memory, or SIGPIPE).
Exit(status, sockets) == pc' = "done" /\ ret' = status /\ open' = sockets
Killed == pc' = "killed" /\ UNCHANGED <<ret, open>>
GoesTo(label) == pc' = label /\ UNCHANGED <<ret, open>>
-----------------------------------------------------------------------------
(* The options.                                                            *)

Method == [n \in 1 .. ask.method |-> 109]
IsComposite(v) == v.type \in {"Array", "Object"}
IsObject(t) == cJSON_Parse(t).ok /\ cJSON_Parse(t).v.type = "Object"

Lower(c) == IF c \in 65 .. 90 THEN c + 32 ELSE c
SameKey(k, l) == Len(k) = Len(l) /\ \A n \in DOMAIN k : Lower(k[n]) = Lower(l[n])
\* get_object_item without regard to case.
FirstNamed(members, key) == Min({n \in DOMAIN members : SameKey(members[n][1], key)})

\* main's loop through the arguments, by what it may leave: an array or object
\* is replaced by its text.  When that frees the member the loop stands at, its
\* `next' is read from freed memory: the loop goes on or stops there (or the
\* program is killed, see NovaMain).
RECURSIVE Repacked(_, _)
ReplacedAt(members, n, k) ==
    LET new == [members EXCEPT ![k] = <<members[n][1], String(print(members[n][2], FALSE).text)>>]
    IN  Repacked(new, n + 1) \cup (IF k = n THEN {new} ELSE {})
Repacked(members, n) ==
    IF n > Len(members) THEN {members}
    ELSE IF ~IsComposite(members[n][2]) THEN Repacked(members, n + 1)
    ELSE ReplacedAt(members, n, FirstNamed(members, members[n][1]))
UsesFreed(members) ==
    \E n \in DOMAIN members :
        IsComposite(members[n][2]) /\ FirstNamed(members, members[n][1]) = n

NovaRequest(members, hdr) ==
    nova_pack(hdr, thrift_generic_pack(0, SERVICE, Method, print(Object(members), FALSE).text))

\* The start of nova_invoke.
nova(members, hdr) ==
    \/ hdr.is # "ok" /\ Killed /\ UNCHANGED request             \* a NULL header
    \/ /\ hdr.is = "ok" /\ GoesTo("connect")
       /\ \E given \in Repacked(members, 1) : request' = NovaRequest(given, hdr.v)
\* main of nova.c: the arguments, and after them the attachment.
AskedMembers == cJSON_Parse(ask.args).v.members
NovaMain ==
    /\ pc = "start" /\ ask.client = "nova"
    /\ \/ IsObject(ask.args) /\ UsesFreed(AskedMembers) /\ Killed /\ UNCHANGED request
       \/ (~IsObject(ask.args) \/ ~IsObject(ask.attach)) /\ Exit(1, 0) /\ UNCHANGED request
       \/ /\ IsObject(ask.args) /\ IsObject(ask.attach)
          /\ nova(AskedMembers, create_nova_generic(ask.attach))
    /\ UNCHANGED <<ask, reply, sent, srv, up, got, remaining, out>>

\* main of dubbo.c and the start of dubbo_invoke_sync.
dubbo(packet) ==
    CASE packet.is = "ok" -> request' = packet.v /\ GoesTo("connect")
      [] packet.is = "false" -> Exit(1, 0) /\ UNCHANGED request
      [] OTHER -> Killed /\ UNCHANGED request
Encoded(req) == IF req.is = "ok" THEN dubbo_encode(req.v) ELSE req
DubboMain ==
    /\ pc = "start" /\ ask.client = "dubbo"
    /\ IF cJSON_Parse(ask.args).ok /\ IsComposite(cJSON_Parse(ask.args).v) /\ IsObject(ask.attach)
         THEN dubbo(Encoded(dubbo_req_create(SERVICE, Method, rebuild_json_args(ask.args))))
         ELSE Exit(1, 0) /\ UNCHANGED request
    /\ UNCHANGED <<ask, reply, sent, srv, up, got, remaining, out>>
-----------------------------------------------------------------------------
(* The connection.                                                         *)

Connecting(socket) ==
    IF socket.ok THEN pc' = "send" /\ open' = socket.open /\ UNCHANGED ret ELSE Exit(1, socket.open)
Connect ==
    /\ pc = "connect" /\ Connecting(socket_clientSync(ask.addrs))
    /\ UNCHANGED <<ask, reply, sent, srv, request, up, got, remaining, out>>
Listen ==
    /\ pc = "start" /\ ask.client = "server"
    /\ LET socket == socket_serverSync(ask.addrs)
       IN  Exit(IF socket.ok THEN 0 ELSE 1, socket.open)
    /\ UNCHANGED <<ask, reply, sent, srv, request, up, got, remaining, out>>

Cuts(s) == {n \in Marks \cup {Len(s) - 1, Len(s)} : n \in 1 .. Len(s)}

\* One send of socket_sendAllSync; then the buffer is reset for the answer.
Send ==
    /\ pc = "send" /\ srv # "reset"
    /\ \E n \in Cuts(request) :
         /\ n > up /\ up' = n
         /\ GoesTo(IF n = Len(request) THEN "first" ELSE "send")
    /\ UNCHANGED <<ask, reply, sent, srv, request, got, remaining, out>>
\* Any error but EINTR, the timeout of SO_SNDTIMEO among them.  Where the
\* server is gone it may be EPIPE, and only a server ignores its SIGPIPE.
SendFails ==
    /\ pc = "send" /\ (Exit(1, 0) \/ (srv # "open" /\ Killed))
    /\ UNCHANGED <<ask, reply, sent, srv, request, up, got, remaining, out>>

\* readv fails: the timeout of SO_RCVTIMEO, a signal, a reset.  buf_readFd
\* stores its result for errno, so that no caller sees EINTR and tries again.
Blocks == sent = got /\ srv = "open"
MutantTriesAgain ==
    /\ pc \in {"first", "more"} /\ (Blocks \/ srv = "reset")
    /\ UNCHANGED vars
ReadFails ==
    /\ pc \in {"first", "more"} /\ (Blocks \/ srv = "reset")
    /\ Exit(1, 0)
    /\ UNCHANGED <<ask, reply, sent, srv, request, up, got, remaining, out>>

\* readv returns what has arrived, or 0 at the end of the stream.
Readable == sent > got \/ srv = "closed"
ReadSoFar == SubSeq(reply.bytes, 1, sent)
Received == SubSeq(reply.bytes, 1, got)
-----------------------------------------------------------------------------
(* nova_invoke from the first read on.                                     *)

\* The loop ends with a whole message.
MutantDoesNotWait(b) ==
    CASE Len(b) < 4 -> Exit(1, 0)
      [] OTHER -> IF buf_peekInt(b, 4) \in 1 .. MAX_NOVA_SIZE THEN GoesTo("decode") ELSE Exit(1, 0)
NovaFirst(b) ==
    CASE Len(b) < 4 -> Exit(1, 0)
      [] OTHER -> IF buf_peekInt(b, 4) \in 1 .. MAX_NOVA_SIZE
                    THEN GoesTo(IF Len(b) < buf_peekInt(b, 4) THEN "more" ELSE "decode")
                    ELSE Exit(1, 0)
NovaReadsFirst ==
    /\ pc = "first" /\ ask.client = "nova" /\ Readable
    /\ got' = sent /\ NovaFirst(ReadSoFar)
    /\ UNCHANGED <<ask, reply, sent, srv, request, up, remaining, out>>
\* At the end of the stream nothing changes, again and again.
NovaReadsMore ==
    /\ pc = "more" /\ ask.client = "nova" /\ Readable
    /\ got' = sent /\ GoesTo(IF sent < buf_peekInt(ReadSoFar, 4) THEN "more" ELSE "decode")
    /\ UNCHANGED <<ask, reply, sent, srv, request, up, remaining, out>>

Shown(color, v) == [NOTHING EXCEPT !.color = color, !.text = print(v, TRUE).text]
Answer(root, json) ==
    IF ~root.ok \/ root.v.type # "Object" THEN [NOTHING EXCEPT !.color = "plain", !.text = json]
    ELSE LET Named(key) == {n \in DOMAIN root.v.members : SameKey(root.v.members[n][1], key)}
             Item(key) == root.v.members[Min(Named(key))][2]
         IN  CASE Named(ERROR_RESPONSE) # {} -> Shown("red", Item(ERROR_RESPONSE))
               [] Named(ERROR_RESPONSE) = {} /\ Named(RESPONSE) # {} ->
                     Shown("green", Item(RESPONSE))
               [] OTHER -> Shown("plain", root.v)
Attachment(attach) ==
    IF attach \in {<<>>, <<LBRACE, RBRACE>>} \/ ~cJSON_Parse(attach).ok THEN <<>>
    ELSE print(cJSON_Parse(attach).v, FALSE).text

NovaPrints(attach, json) ==
    /\ out' = [Answer(cJSON_Parse(json), json) EXCEPT !.attach = Attachment(attach)]
    /\ Exit(IF IsObject(json) THEN 0 ELSE 1, 0)
Failing(result) == out' = NOTHING /\ IF result.is = "false" THEN Exit(1, 0) ELSE Killed
NovaAnswer(attach, json) == 
    IF json.is = "ok" THEN NovaPrints(CString(attach), CString(json.v)) ELSE Failing(json)
NovaHeader(hdr) ==
    IF hdr.is = "ok" THEN NovaAnswer(hdr.v.attach, thrift_generic_unpack(hdr.v.body))
    ELSE Failing(hdr)
NovaDecodes ==
    /\ pc = "decode" /\ ask.client = "nova"
    /\ IF nova_detect(Received) THEN NovaHeader(nova_unpack(Received)) ELSE Failing(Fails)
    /\ UNCHANGED <<ask, reply, sent, srv, request, up, got, remaining>>
-----------------------------------------------------------------------------
(* dubbo_invoke_sync from the first read on.                               *)

\* remaining is positive while bytes are missing; the loop waits for as many
\* bytes as there were too many.
DubboFirst(b) ==
    IF ~is_completed_dubbo_pkt(b) THEN Exit(1, 0) /\ UNCHANGED remaining
    ELSE remaining' = Remaining(b) /\ GoesTo(IF Remaining(b) < 0 THEN "more" ELSE "decode")
DubboReadsFirst ==
    /\ pc = "first" /\ ask.client = "dubbo" /\ Readable
    /\ got' = sent /\ DubboFirst(ReadSoFar)
    /\ UNCHANGED <<ask, reply, sent, srv, request, up, out>>
DubboReadsMore ==
    /\ pc = "more" /\ ask.client = "dubbo" /\ Readable
    /\ got' = sent /\ remaining' = remaining + sent - got
    /\ GoesTo(IF remaining' < 0 THEN "more" ELSE "decode")
    /\ UNCHANGED <<ask, reply, sent, srv, request, up, out>>

\* An event is only logged; the text is printed as it is if it is no JSON.
DubboPrints(res) ==
    LET color == IF res.ok THEN "green" ELSE "red"
        json == cJSON_Parse(CString(res.data))
    IN  CASE res.is_evt -> NOTHING
          [] ~res.is_evt /\ res.data = <<>> -> [NOTHING EXCEPT !.color = "green"]
          [] OTHER -> IF Head(res.data) \in {LBRACKET, LBRACE} /\ json.ok
                        THEN [Shown(color, json.v) EXCEPT !.desc = IF res.ok THEN "" ELSE res.desc]
                        ELSE [NOTHING EXCEPT !.color = color, !.text = CString(res.data)]

\* The exit status is that of a failure even now.  An empty text that realloc
\* has freed may be freed again.  Without a result, the socket stays open.
DubboResult(res) ==
    CASE res.is = "ok" -> out' = DubboPrints(res.v) /\ (Exit(1, 0) \/ (res.v.freed /\ Killed))
      [] res.is = "false" -> out' = NOTHING /\ Exit(1, open)
      [] OTHER -> out' = NOTHING /\ Killed
DubboDecodes ==
    /\ pc = "decode" /\ ask.client = "dubbo"
    /\ \E beyond \in [1 .. 3 -> Outside] : DubboResult(dubbo_decode(Received, beyond))
    /\ UNCHANGED <<ask, reply, sent, srv, request, up, got, remaining>>
-----------------------------------------------------------------------------
(* The server: it answers a whole request, if it does.  It may end sooner, *)
(* and a closed connection may still be reset.                             *)

ServerSends ==
    /\ srv = "open" /\ up > 0 /\ up = Len(request) /\ pc \notin {"done", "killed"}
    /\ \E n \in Cuts(reply.bytes) : n > sent /\ sent' = n
    /\ UNCHANGED <<ask, reply, srv, clientvars>>
ServerEnds ==
    /\ pc \in {"send", "first", "more"}
    /\ \/ srv = "open" /\ srv' \in {"closed", "reset"}
       \/ srv = "closed" /\ srv' = "reset"
    /\ UNCHANGED <<ask, reply, sent, clientvars>>

Sending == Connect \/ Send \/ SendFails
Reading == ReadFails \/ NovaReadsFirst \/ NovaReadsMore \/ DubboReadsFirst \/ DubboReadsMore
Computing == NovaMain \/ DubboMain \/ Listen \/ NovaDecodes \/ DubboDecodes
Next == Sending \/ Reading \/ Computing \/ ServerSends \/ ServerEnds

\* The program runs, its computations end, and its sockets have timeouts; the
\* server owes nothing.
Leaves(label) == pc = label /\ pc' \in {"connect", "done", "killed"}
Spec == /\ Init /\ [][Next]_vars
        /\ WF_vars(Sending) /\ WF_vars(Reading)
        /\ WF_pc(Leaves("start")) /\ WF_pc(Leaves("decode"))
-----------------------------------------------------------------------------
(* Properties.  Of a reply: `whole' is the length of its first packet,     *)
(* `good' whether a server means something by it, `color', `desc' and      *)
(* `json' how and what should be printed, `answer' all of it, `harm'       *)
(* whether it may stop the client, and `short' by how many bytes it is     *)
(* shorter than its last character, when that is what is wrong with it.    *)

Ended == pc \in {"done", "killed"}

\* UTF-8, stated by what encodes a code point: ToUtf8.
Payload(b) ==
    FoldLeft(LAMBDA c, x : 64 * c + (x % 64),
             CASE Len(b) = 1 -> b[1] [] Len(b) = 2 -> b[1] % 32
               [] Len(b) = 3 -> b[1] % 16 [] OTHER -> b[1] % 8, Tail(b))
IsCharacter(b) ==
    /\ Payload(b) <= 1114111 /\ Payload(b) \notin 55296 .. 57343
    /\ ToUtf8(Payload(b)) = b
RECURSIVE IsUtf8(_)
IsUtf8(s) ==
    s = <<>> \/ \E n \in 1 .. Min({4, Len(s)}) : IsCharacter(SubSeq(s, 1, n)) /\ IsUtf8(Drop(s, n))

\* What main may make of the asked members: the first array or object is given
\* as its text, a later one as its text or as it was asked, and everything else
\* as it was asked.
PackedAs(asked, given) ==
    LET composite == {n \in DOMAIN asked : IsComposite(asked[n][2])}
        first == IF composite = {} THEN 0 ELSE Min(composite)
    IN  /\ Len(given) = Len(asked)
        /\ \A n \in DOMAIN asked :
             /\ given[n][1] = asked[n][1]
             /\ \/ n # first /\ given[n][2] = asked[n][2]
                \/ /\ n \in composite /\ given[n][2].type = "String"
                   /\ cJSON_Parse(given[n][2].text).v = asked[n][2]
KeysDiffer(members) ==
    \A m, n \in DOMAIN members : m # n => ~SameKey(members[m][1], members[n][1])

NovaServerReads(body) ==
    LET r == ReadFields(body, <<2, 2, 0, 4, 1, 2, 1, 2, 0, 1, 2, 0, 1, 2, 0, 1, 1>>)
    IN  /\ ~r.bad /\ r.rest = <<>>
        /\ [r.vals EXCEPT ![15] = <<>>] =
             <<-32767, T_CALL, GENERIC_METHOD, 0, TYPE_STRUCT, 1, TYPE_STRING, 1, SERVICE,
               TYPE_STRING, 2, Method, TYPE_STRING, 3, <<>>, FIELD_STOP, FIELD_STOP>>
        /\ KeysDiffer(AskedMembers) => PackedAs(AskedMembers, cJSON_Parse(r.vals[15]).v.members)

\* The strings of a request's body, in the client's own reading.
HsStrings(body) ==
    FoldLeft(LAMBDA r, null_ :
               IF null_ THEN IF r.rest # <<>> /\ Head(r.rest) = 78 THEN [r EXCEPT !.rest = Tail(@)]
                             ELSE Stuck(r)
               ELSE LET d == hs_decode_string(r.rest, <<>>)
                    IN  IF d.is # "ok" THEN Stuck(r)
                        ELSE [r EXCEPT !.rest = Drop(@, Delta(@).h + Len(d.v)),
                                       !.vals = Append(@, d.v)],
             Reader(body), <<FALSE, FALSE, FALSE, FALSE, FALSE, FALSE, TRUE, FALSE, TRUE>>)
DubboServerReads(body) ==
    LET r == HsStrings(body)
    IN  /\ ~r.bad /\ r.rest = <<>>
        /\ SubSeq(r.vals, 2, 6) = <<SERVICE, DUBBO_GENERIC_METHOD_VER, DUBBO_GENERIC_METHOD_NAME,
                                    DUBBO_GENERIC_METHOD_PARA_TYPES, Method>>
        /\ \A n \in DOMAIN r.vals[7] : r.vals[7][n] < 128
        /\ cJSON_Parse(r.vals[7]).v = Array(Arguments(cJSON_Parse(ask.args).v))

\* The length of the arguments once they are escaped.
EscapedSize == LET args == rebuild_json_args(ask.args) IN IF args.is = "ok" THEN Len(args.v) ELSE 0


(* What is printed is a whole reply and nothing else, in its colour, and a *)
(* reply that has arrived whole is printed, however it was cut; but dubbo  *)
(* waits for more when more than a packet came in one read.  One kind of   *)
(* reply is printed with bytes that no server sent: a dubbo text that ends *)
(* inside its last character, or before it, by no more bytes than hessian  *)
(* spends on its length (utf8cpy, read_hs_str); and it gets no more of     *)
(* them than it is short of.  The exit status is 0 exactly for nova's JSON *)
(* answers.                                                                *)
RepliesArePrinted ==
    pc = "done" /\ ask.client \in {"nova", "dubbo"} =>
        /\ out # NOTHING => got >= reply.whole /\ (reply.good \/ reply.short \in 1 .. 3)
        /\ out # NOTHING \/ (reply.good /\ got = reply.whole) =>
             /\ out.color = reply.color /\ out.desc = reply.desc
             /\ IF cJSON_Parse(reply.json).ok
                  THEN cJSON_Parse(out.text).v = cJSON_Parse(reply.json).v
                  ELSE IsPrefix(reply.json, out.text) /\ Len(out.text) <= Len(reply.json) + reply.short
        /\ ret = 0 <=> /\ out # NOTHING /\ ask.client = "nova"
                       /\ cJSON_Parse(reply.answer).ok /\ IsObject(reply.answer)

(* The ways to kill a client, and no others: a header that is too large; a *)
(* nova argument that is an array or object; a request too large for its   *)
(* buffer, with its arguments as they are escaped (up to three times as    *)
(* long as they were asked); SIGPIPE, when the server ends before it has   *)
(* the whole request; a reply that trips an assertion or is copied beyond  *)
(* its memory; and a dubbo reply of which the first read gets only a part. *)
KnownCrashes ==
    pc = "killed" =>
        \/ /\ ask.client = "nova" /\ up = 0
           /\ \/ HeadSize(ask.attach) > MaxHead
              \/ \E n \in DOMAIN AskedMembers : IsComposite(AskedMembers[n][2])
        \/ ask.client = "dubbo" /\ request = <<>> /\ ask.method + EscapedSize + 20 > DUBBO_BUF_LEN
        \/ up < Len(request) /\ srv # "open"
        \/ reply.harm /\ got >= reply.whole
        \/ ask.client = "dubbo" /\ got \in DUBBO_HDR_LEN .. reply.whole - 1

(* Every socket is closed when the program returns, except the connection  *)
(* of a dubbo reply that cannot be decoded, and what a server has bound    *)
(* and the sockets of the addresses it could not bind.                     *)
NothingLeftOpen ==
    pc = "done" =>
        CASE ask.client = "nova" -> open = 0
          [] ask.client = "dubbo" -> open = 0 \/ (~reply.good /\ got >= DUBBO_HDR_LEN)
          [] ask.client = "server" ->
               open <= (IF ret = 0 THEN 1 ELSE 0)
                       + Cardinality({n \in DOMAIN ask.addrs :
                                          ask.addrs[n].socket /\ ~ask.addrs[n].bind})

(* Every call ends, the timeouts see to it, unless the server closes the   *)
(* connection while the client still waits for bytes: both loops read the  *)
(* end of the stream forever.                                              *)
CallsReturn == <>(Ended \/ (pc = "more" /\ srv = "closed" /\ sent = got))
=============================================================================
