------------------------- MODULE DubboClientProofs --------------------------
(***************************************************************************)
(* The pipelining Dubbo client for any number of requests, any depth of    *)
(* the pipeline and any number of faults: the pipeline stays full, what is *)
(* unsent is watched for, flags and registered events agree, and only      *)
(* responses the server sent are counted.                                  *)
(*                                                                         *)
(* The invariant is a balance: every place of the pipeline is free or held *)
(* by a request that is buffered, at the server or answered.  It needs to  *)
(* know of the stream of responses that dubbo_decode takes exactly one     *)
(* header's end from it.                                                   *)
(***************************************************************************)
EXTENDS DubboClient, SequenceTheorems, FiniteSetTheorems, FunctionTheorems, TLAPS

(* The records of the model, without the bounds.                           *)
Piece == {"head", "tail", "big", "body"}

CliRec == [connected : BOOLEAN, timer : BOOLEAN, fd : {"none", "closed", "open"},
           pipe_left : Nat, rcv : Seq(Piece), snd : Nat, req_left : Nat, ok_n : Nat,
           mask : SUBSET {"R", "W"}, wproc : {"cli_on_connect", "cli_on_write"}]

ConnRec == [state : {"none", "connecting", "up", "dead"}, srv : Nat, wire : Seq(Piece),
            fin : BOOLEAN]

(* FlagAndEventsAgree and UnsentIsWatched, of a client c.                  *)
FlagsAgree(c) == /\ "R" \in c.mask => c.connected
                 /\ c.connected => "R" \in c.mask \/ c.mask = {}
                 /\ c.timer <=> c.fd = "open" /\ ~c.connected

UnsentWatched(c) == c.snd > 0 <=> "W" \in c.mask /\ c.wproc = "cli_on_write"

(* A client that is deaf, or still waits for its connection, has sent      *)
(* nothing.                                                                *)
Unused(c) ==
    /\ c.connected /\ "R" \notin c.mask => c.pipe_left = pipe_n
    /\ "W" \in c.mask /\ c.wproc = "cli_on_connect" => ~c.connected /\ c.pipe_left = pipe_n

(* Every place of the pipeline is free or held by one request: in snd_buf, *)
(* at the server or answered.  A connection that breaks loses some.        *)
Held(c, k) == c.snd + k.srv + Tails(c.rcv) + Tails(k.wire)

Balanced(c, k) == /\ c.pipe_left + Held(c, k) <= pipe_n
                  /\ k.state # "dead" => c.pipe_left + Held(c, k) = pipe_n

(* No header ends twice.                                                   *)
NoTwins(s) == \A k \in 1 .. Len(s) - 1 : s[k] \in HeaderEnds => s[k + 1] \notin HeaderEnds

Good(c, k) == /\ c \in CliRec /\ k \in ConnRec
              /\ FlagsAgree(c) /\ Unused(c) /\ UnsentWatched(c)
              /\ Balanced(c, k) /\ NoTwins(c.rcv \o k.wire)

(* Responses counted and responses still to be counted were sent.          *)
Counted(c, k, a) == /\ c.req_left <= ReqN /\ c.ok_n <= ReqN - c.req_left
                    /\ ReqN - c.req_left + Tails(c.rcv) + Tails(k.wire) <= a

(* What cli_reset leaves.                                                  *)
Closed(c) == /\ c \in CliRec
             /\ c.connected = FALSE /\ c.timer = FALSE /\ c.fd = "none" /\ c.mask = {}
             /\ c.pipe_left = pipe_n /\ c.rcv = <<>> /\ c.snd = 0

(* A closed fd in the loop's table, and a deaf client, come from a fault.  *)
Refused(c, k) == (c.connected /\ c.mask = {}) \/ (k.state = "none" /\ c.mask # {})

Control ==
    /\ status \in {"start", "running", "ended", "aborted", "split"}
    /\ at \in {"poll", "dispatch", "pipe"}
    /\ fired \subseteq {"R", "W"}
    /\ answered \in Nat /\ faults \in 0 .. MaxFaults
    /\ status \in {"start", "running"} => cli.req_left > 0
    /\ status = "start" => Closed(cli)
    /\ Settled /\ "R" \in cli.mask => cli.pipe_left = 0
    /\ at = "pipe" /\ cli.connected /\ "R" \notin cli.mask => conn.state = "none"
    /\ Refused(cli, conn) => faults > 0

IInv == Control /\ Good(cli, conn) /\ Counted(cli, conn, answered)
-----------------------------------------------------------------------------
(* The places in s where a header ends.                                    *)
TailsAt(s) == {k \in DOMAIN s : s[k] \in HeaderEnds}

(* They are finitely many.                                                 *)
LEMMA TailsType ==
    ASSUME NEW s \in Seq(Piece)
    PROVE  IsFiniteSet(TailsAt(s)) /\ Tails(s) = Cardinality(TailsAt(s)) /\ Tails(s) \in Nat
<1>1. DOMAIN s = 1 .. Len(s) /\ Len(s) \in Nat
  BY LenProperties
<1>2. IsFiniteSet(1 .. Len(s)) /\ TailsAt(s) \in SUBSET (1 .. Len(s))
  BY <1>1, FS_Interval DEF TailsAt
<1>3. IsFiniteSet(TailsAt(s))
  BY <1>2, FS_Subset
<1>4. Tails(s) = Cardinality(TailsAt(s))
  BY DEF Tails, TailsAt
<1> QED BY <1>3, <1>4, FS_CardinalityType

(* A set of numbers moved by l.                                            *)
LEMMA ShiftCardinality ==
    ASSUME NEW S, S \subseteq Nat, IsFiniteSet(S), NEW l \in Nat, NEW T, T = {k + l : k \in S}
    PROVE  IsFiniteSet(T) /\ Cardinality(T) = Cardinality(S)
<1> DEFINE f == [k \in S |-> k + l]
<1>1. f \in [S -> T]
  OBVIOUS
<1>2. \A a, b \in S : f[a] = f[b] => a = b
  OBVIOUS
<1>3. \A t \in T : \E k \in S : f[k] = t
  OBVIOUS
<1>4. f \in Bijection(S, T)
  BY <1>1, <1>2, <1>3, Fun_IsBij
<1>5. ExistsBijection(S, T)
  BY <1>4, Fun_ExistsBij
<1> QED BY <1>5, FS_Bijection

(* Header ends of two streams one behind the other.                        *)
LEMMA TailsConcat ==
    ASSUME NEW s \in Seq(Piece), NEW t \in Seq(Piece)
    PROVE  s \o t \in Seq(Piece) /\ Tails(s \o t) = Tails(s) + Tails(t)
<1> DEFINE u == s \o t
           l == Len(s)
           T == {k + l : k \in TailsAt(t)}
<1>1. /\ DOMAIN s = 1 .. l /\ l \in Nat /\ DOMAIN t = 1 .. Len(t) /\ Len(t) \in Nat
  BY LenProperties
<1>2. /\ u \in Seq(Piece) /\ Len(u) = l + Len(t)
      /\ \A i \in 1 .. l + Len(t) : u[i] = IF i <= l THEN s[i] ELSE t[i - l]
  BY ConcatProperties
<1>3. DOMAIN u = 1 .. l + Len(t)
  BY <1>2, LenProperties
<1> HIDE DEF u, l
<1>4. TailsAt(s) \subseteq 1 .. l /\ TailsAt(t) \subseteq 1 .. Len(t) /\ TailsAt(t) \subseteq Nat
  BY <1>1 DEF TailsAt
<1>5. IsFiniteSet(T) /\ Cardinality(T) = Cardinality(TailsAt(t))
  BY <1>1, <1>4, TailsType, ShiftCardinality
<1>6. TailsAt(u) \subseteq TailsAt(s) \cup T
  <2> SUFFICES ASSUME NEW k \in TailsAt(u) PROVE k \in TailsAt(s) \cup T
    OBVIOUS
  <2>1. k \in 1 .. l + Len(t) /\ u[k] \in HeaderEnds
    BY <1>3 DEF TailsAt
  <2>2. CASE k <= l
    <3>1. k \in 1 .. l /\ s[k] \in HeaderEnds
      BY <1>1, <1>2, <2>1, <2>2
    <3> QED BY <1>1, <3>1 DEF TailsAt
  <2>3. CASE ~(k <= l)
    <3>1. k - l \in 1 .. Len(t) /\ t[k - l] \in HeaderEnds /\ k = (k - l) + l
      BY <1>1, <1>2, <2>1, <2>3
    <3>2. k - l \in TailsAt(t)
      BY <1>1, <3>1 DEF TailsAt
    <3> QED BY <3>1, <3>2
  <2> QED BY <2>2, <2>3
<1>7. TailsAt(s) \subseteq TailsAt(u)
  <2> SUFFICES ASSUME NEW k \in TailsAt(s) PROVE k \in TailsAt(u)
    OBVIOUS
  <2>1. k \in 1 .. l /\ s[k] \in HeaderEnds
    BY <1>1 DEF TailsAt
  <2>2. k \in 1 .. l + Len(t) /\ u[k] \in HeaderEnds
    BY <1>1, <1>2, <2>1
  <2> QED BY <1>3, <2>2 DEF TailsAt
<1>8. T \subseteq TailsAt(u)
  <2> SUFFICES ASSUME NEW j \in TailsAt(t) PROVE j + l \in TailsAt(u)
    OBVIOUS
  <2>1. j \in 1 .. Len(t) /\ t[j] \in HeaderEnds
    BY <1>1 DEF TailsAt
  <2>2. j + l \in 1 .. l + Len(t) /\ ~(j + l <= l) /\ (j + l) - l = j
    BY <1>1, <2>1
  <2>3. u[j + l] \in HeaderEnds
    BY <1>2, <2>1, <2>2
  <2> QED BY <1>3, <2>2, <2>3 DEF TailsAt
<1>9. TailsAt(s) \cap T = {}
  BY <1>1, <1>4
<1>10. TailsAt(u) = TailsAt(s) \cup T
  BY <1>6, <1>7, <1>8
<1> HIDE DEF T
<1>11. Cardinality(TailsAt(u)) = Cardinality(TailsAt(s)) + Cardinality(T) - Cardinality(TailsAt(s) \cap T)
  BY <1>5, <1>10, TailsType, FS_Union
<1>12. Cardinality(TailsAt(s) \cap T) = 0
  BY <1>9, FS_EmptySet
<1>13. Tails(u) = Tails(s) + Tails(t)
  <2>1. /\ Tails(u) = Cardinality(TailsAt(u)) /\ Tails(s) = Cardinality(TailsAt(s))
        /\ Tails(t) = Cardinality(TailsAt(t)) /\ Tails(s) \in Nat /\ Tails(t) \in Nat
    BY <1>2, TailsType
  <2> QED BY <1>5, <1>11, <1>12, <2>1
<1> QED BY <1>2, <1>13 DEF u

(* A stream is cut in two without losing a header's end.                   *)
LEMMA TailsCut ==
    ASSUME NEW s \in Seq(Piece), NEW n \in 0 .. Len(s)
    PROVE  /\ SubSeq(s, 1, n) \in Seq(Piece) /\ SubSeq(s, n + 1, Len(s)) \in Seq(Piece)
           /\ Len(SubSeq(s, 1, n)) = n /\ Len(SubSeq(s, n + 1, Len(s))) = Len(s) - n
           /\ \A k \in 1 .. n : SubSeq(s, 1, n)[k] = s[k]
           /\ \A k \in 1 .. Len(s) - n : SubSeq(s, n + 1, Len(s))[k] = s[n + k]
           /\ SubSeq(s, 1, n) \o SubSeq(s, n + 1, Len(s)) = s
           /\ Tails(s) = Tails(SubSeq(s, 1, n)) + Tails(SubSeq(s, n + 1, Len(s)))
<1> DEFINE l == Len(s)
           a == SubSeq(s, 1, n)
           b == SubSeq(s, n + 1, l)
<1>1. l \in Nat /\ n \in Nat /\ n <= l /\ \A k \in 1 .. l : s[k] \in Piece
  BY LenProperties, ElementOfSeq
<1>2. 1 \in Int /\ n \in Int /\ n + 1 \in Int /\ l \in Int
  BY <1>1
<1>3. (\A k \in 1 .. n : s[k] \in Piece) /\ (\A k \in n + 1 .. l : s[k] \in Piece)
  BY <1>1
<1>4. /\ a \in Seq(Piece) /\ Len(a) = IF 1 <= n THEN n - 1 + 1 ELSE 0
      /\ \A k \in 1 .. n - 1 + 1 : a[k] = s[1 + k - 1]
  BY <1>2, <1>3, SubSeqProperties
<1>5. /\ b \in Seq(Piece) /\ Len(b) = IF n + 1 <= l THEN l - (n + 1) + 1 ELSE 0
      /\ \A k \in 1 .. l - (n + 1) + 1 : b[k] = s[n + 1 + k - 1]
  BY <1>2, <1>3, SubSeqProperties
<1> HIDE DEF l, a, b
<1>6. Len(a) = n /\ \A k \in 1 .. n : a[k] = s[k]
  <2>1. n - 1 + 1 = n /\ \A k \in 1 .. n : 1 + k - 1 = k
    BY <1>1
  <2> QED BY <1>1, <1>4, <2>1
<1>7. Len(b) = l - n /\ \A k \in 1 .. l - n : b[k] = s[n + k]
  <2>1. l - (n + 1) + 1 = l - n /\ \A k \in 1 .. l - n : n + 1 + k - 1 = n + k
    BY <1>1
  <2> QED BY <1>1, <1>5, <2>1
<1>8. a \o b = s
  <2>1. /\ a \o b \in Seq(Piece) /\ Len(a \o b) = Len(a) + Len(b)
        /\ \A i \in 1 .. Len(a) + Len(b) : (a \o b)[i] = IF i <= Len(a) THEN a[i] ELSE b[i - Len(a)]
    BY <1>4, <1>5, ConcatProperties
  <2>2. Len(a) + Len(b) = l
    BY <1>1, <1>6, <1>7
  <2>3. ASSUME NEW k \in 1 .. l PROVE (a \o b)[k] = s[k]
    <3>1. CASE k <= n
      <4>1. k \in 1 .. n
        BY <1>1, <3>1
      <4> QED BY <1>6, <2>1, <2>2, <3>1, <4>1
    <3>2. CASE ~(k <= n)
      <4>1. k - n \in 1 .. l - n /\ n + (k - n) = k
        BY <1>1, <3>2
      <4>2. (a \o b)[k] = b[k - n]
        BY <1>6, <2>1, <2>2, <3>2
      <4> QED BY <1>7, <4>1, <4>2
    <3> QED BY <3>1, <3>2
  <2>4. Len(a \o b) = Len(s)
    BY <2>1, <2>2 DEF l
  <2>5. \A i \in 1 .. Len(a \o b) : (a \o b)[i] = s[i]
    BY <2>3, <2>4 DEF l
  <2> QED BY <2>1, <2>4, <2>5, SeqEqual
<1>9. Tails(s) = Tails(a) + Tails(b)
  BY <1>4, <1>5, <1>8, TailsConcat
<1> QED BY <1>4, <1>5, <1>6, <1>7, <1>8, <1>9 DEF a, b, l

(* What there is in nothing.                                               *)
LEMMA TailsOfFew == <<>> \in Seq(Piece) /\ Tails(<<>>) = 0
<1>1. TailsAt(<<>>) = {}
  BY DEF TailsAt
<1> QED BY <1>1, EmptySeq, FS_EmptySet DEF Tails, TailsAt

(* A response is one header and a body, whatever size the header gives.    *)
LEMMA TailsOfResponse ==
    ASSUME NEW r \in {Response, BadResponse}
    PROVE  /\ r \in Seq(Piece) /\ Len(r) = 3 /\ Tails(r) = 1
           /\ r[1] \notin HeaderEnds /\ r[3] \notin HeaderEnds
<1>1. PICK e \in HeaderEnds : r = <<"head", e, "body">>
  BY DEF Response, BadResponse, HeaderEnds
<1>2. e \in Piece /\ "head" \in Piece /\ "body" \in Piece
  BY DEF Piece, HeaderEnds
<1>3. /\ r \in Seq(Piece) /\ Len(r) = 3 /\ DOMAIN r = 1 .. 3
      /\ r[1] = "head" /\ r[2] = e /\ r[3] = "body"
  BY <1>1, <1>2
<1>4. r[1] \notin HeaderEnds /\ r[2] \in HeaderEnds /\ r[3] \notin HeaderEnds
  BY <1>3 DEF HeaderEnds
<1>5. TailsAt(r) = {2}
  BY <1>3, <1>4 DEF TailsAt
<1>6. Tails(r) = 1
  BY <1>3, <1>5, TailsType, FS_Singleton
<1> QED BY <1>3, <1>4, <1>6

(* A stream that loses its front.                                          *)
LEMMA NoTwinsRest ==
    ASSUME NEW s \in Seq(Piece), NoTwins(s), NEW t \in Seq(Piece), NEW o \in Nat,
           Len(s) = Len(t) + o, \A k \in 1 .. Len(t) : t[k] = s[k + o]
    PROVE  NoTwins(t)
<1>1. Len(s) \in Nat /\ Len(t) \in Nat
  BY LenProperties
<1> SUFFICES ASSUME NEW k \in 1 .. Len(t) - 1, t[k] \in HeaderEnds PROVE t[k + 1] \notin HeaderEnds
  BY DEF NoTwins
<1>2. /\ k + o \in 1 .. Len(s) - 1 /\ k \in 1 .. Len(t) /\ k + 1 \in 1 .. Len(t)
      /\ (k + 1) + o = (k + o) + 1
  BY <1>1
<1>3. t[k] = s[k + o] /\ t[k + 1] = s[(k + 1) + o]
  BY <1>2
<1> QED BY <1>2, <1>3 DEF NoTwins

(* What is_dubbo_pkt looks at.                                             *)
LEMMA PacketStarts ==
    ASSUME NEW b \in Seq(Piece), is_dubbo_pkt(b)
    PROVE  /\ Len(b) \in Nat /\ Len(b) >= 2 /\ b[1] \notin HeaderEnds /\ b[2] \in HeaderEnds
BY LenProperties DEF is_dubbo_pkt, HeaderEnds

(* dubbo_decode takes exactly one header's end from the stream, also when  *)
(* it refuses the header and the body is not there.                        *)
LEMMA DecodeTakesOne ==
    ASSUME NEW b \in Seq(Piece), NEW rest \in Seq(Piece), NoTwins(b \o rest), is_dubbo_pkt(b)
    PROVE  /\ dubbo_decode(b) \in Seq(Piece) /\ Tails(b) = Tails(dubbo_decode(b)) + 1
           /\ NoTwins(dubbo_decode(b) \o rest)
<1>1. /\ Len(b) \in Nat /\ Len(b) >= 2 /\ b[1] \notin HeaderEnds /\ b[2] \in HeaderEnds
      /\ Len(rest) \in Nat
  BY PacketStarts, LenProperties
<1> DEFINE s == b \o rest
<1>2. /\ s \in Seq(Piece) /\ Len(s) = Len(b) + Len(rest)
      /\ \A i \in 1 .. Len(b) + Len(rest) : s[i] = IF i <= Len(b) THEN b[i] ELSE rest[i - Len(b)]
  BY ConcatProperties
<1>3. NoTwins(s)
  OBVIOUS
<1> HIDE DEF s
<1>4. CASE Len(b) >= 3
  <2> DEFINE a == SubSeq(b, 1, 3)
             r == SubSeq(b, 4, Len(b))
  <2>1. /\ a \in Seq(Piece) /\ r \in Seq(Piece) /\ Len(a) = 3 /\ Len(r) = Len(b) - 3
        /\ \A k \in 1 .. 3 : a[k] = b[k]
        /\ \A k \in 1 .. Len(b) - 3 : r[k] = b[3 + k]
        /\ Tails(b) = Tails(a) + Tails(r)
    <3>1. PICK n \in 0 .. Len(b) : n = 3
      BY <1>1, <1>4
    <3>2. /\ SubSeq(b, 1, n) \in Seq(Piece) /\ SubSeq(b, n + 1, Len(b)) \in Seq(Piece)
          /\ Len(SubSeq(b, 1, n)) = n /\ Len(SubSeq(b, n + 1, Len(b))) = Len(b) - n
          /\ \A k \in 1 .. n : SubSeq(b, 1, n)[k] = b[k]
          /\ \A k \in 1 .. Len(b) - n : SubSeq(b, n + 1, Len(b))[k] = b[n + k]
          /\ Tails(b) = Tails(SubSeq(b, 1, n)) + Tails(SubSeq(b, n + 1, Len(b)))
      BY TailsCut
    <3>3. SubSeq(b, 1, n) = a /\ SubSeq(b, n + 1, Len(b)) = r
      BY <3>1
    <3> HIDE DEF a, r
    <3> QED BY ONLY <3>1, <3>2, <3>3
  <2>2. dubbo_decode(b) = r
    BY <1>4 DEF dubbo_decode
  <2> HIDE DEF a, r
  <2>3. b[3] \notin HeaderEnds
    <3>1. 2 \in 1 .. Len(s) - 1 /\ 2 + 1 = 3 /\ 2 \in 1 .. Len(b) + Len(rest) /\ 3 \in 1 .. Len(b) + Len(rest)
      BY <1>1, <1>2, <1>4
    <3>2. s[2] = b[2] /\ s[3] = b[3]
      BY <1>1, <1>2, <1>4, <3>1
    <3> QED BY <1>1, <1>3, <3>1, <3>2 DEF NoTwins
  <2>4. TailsAt(a) = {2}
    <3>1. DOMAIN a = 1 .. 3
      BY <2>1, LenProperties
    <3>2. a[1] \notin HeaderEnds /\ a[2] \in HeaderEnds /\ a[3] \notin HeaderEnds
      BY <1>1, <2>1, <2>3
    <3> QED BY <3>1, <3>2 DEF TailsAt
  <2>5. Tails(a) = 1 /\ Tails(r) \in Nat
    BY <2>1, <2>4, TailsType, FS_Singleton
  <2>6. NoTwins(r \o rest)
    <3> DEFINE t == r \o rest
    <3>1. /\ t \in Seq(Piece) /\ Len(t) = Len(r) + Len(rest)
          /\ \A i \in 1 .. Len(r) + Len(rest) : t[i] = IF i <= Len(r) THEN r[i] ELSE rest[i - Len(r)]
      BY <2>1, ConcatProperties
    <3> HIDE DEF t
    <3>2. Len(s) = Len(t) + 3 /\ Len(t) = Len(b) - 3 + Len(rest)
      BY <1>1, <1>2, <2>1, <3>1
    <3>3. ASSUME NEW k \in 1 .. Len(t) PROVE t[k] = s[k + 3]
      <4>1. k + 3 \in 1 .. Len(b) + Len(rest) /\ k \in 1 .. Len(r) + Len(rest)
        BY <1>1, <3>1, <3>2
      <4>2. CASE k <= Len(r)
        <5>1. k \in 1 .. Len(b) - 3 /\ k + 3 <= Len(b) /\ 3 + k = k + 3
          BY <1>1, <2>1, <4>1, <4>2
        <5> QED BY <1>2, <2>1, <3>1, <4>1, <4>2, <5>1
      <4>3. CASE ~(k <= Len(r))
        <5>1. ~(k + 3 <= Len(b)) /\ (k + 3) - Len(b) = k - Len(r)
          BY <1>1, <2>1, <4>1, <4>3
        <5> QED BY <1>2, <3>1, <4>1, <4>3, <5>1
      <4> QED BY <4>2, <4>3
    <3>4. NoTwins(t)
      BY <1>2, <1>3, <3>1, <3>2, <3>3, NoTwinsRest
    <3> QED BY <3>4 DEF t
  <2> QED BY <2>1, <2>2, <2>5, <2>6
<1>5. CASE ~(Len(b) >= 3)
  <2>0. Len(b) = 2
    <3>1. Len(b) \in Nat /\ Len(b) >= 2 /\ ~(Len(b) >= 3)
      BY <1>1, <1>5
    <3>2. \A l \in Nat : l >= 2 /\ ~(l >= 3) => l = 2
      OBVIOUS
    <3> QED BY ONLY <3>1, <3>2
  <2>1. Len(b) = 2 /\ DOMAIN b = 1 .. 2
    <3>1. DOMAIN b = 1 .. Len(b)
      BY LenProperties
    <3> QED BY <2>0, <3>1
  <2>2. dubbo_decode(b) = <<>>
    <3>1. dubbo_decode(b) = SubSeq(b, 4, 2)
      BY <2>0 DEF dubbo_decode
    <3>2. \A i \in 4 .. 2 : b[i] \in Piece
      OBVIOUS
    <3>3. SubSeq(b, 4, 2) \in Seq(Piece) /\ Len(SubSeq(b, 4, 2)) = 0
      BY <3>2, SubSeqProperties
    <3> QED BY <3>1, <3>3, EmptySeq
  <2>3. TailsAt(b) = {2}
    BY <1>1, <2>1 DEF TailsAt
  <2>4. Tails(b) = 1
    BY <2>3, TailsType, FS_Singleton
  <2>5. <<>> \o rest = rest
    BY ConcatEmptySeq
  <2>6. ASSUME NEW k \in 1 .. Len(rest) PROVE rest[k] = s[k + 2]
    <3>1. k + 2 \in 1 .. Len(b) + Len(rest) /\ ~(k + 2 <= Len(b)) /\ (k + 2) - Len(b) = k
      BY <1>1, <2>1
    <3> QED BY <1>2, <3>1
  <2>7. Len(s) = Len(rest) + 2
    BY <1>1, <1>2, <2>1
  <2>8. NoTwins(rest)
    BY <1>2, <1>3, <2>6, <2>7, NoTwinsRest
  <2> QED BY <2>2, <2>4, <2>5, <2>8, TailsOfFew
<1> QED BY <1>4, <1>5

(* A response put behind the stream.                                       *)
LEMMA AnswerKeepsNoTwins ==
    ASSUME NEW s \in Seq(Piece), NoTwins(s), NEW r \in {Response, BadResponse}
    PROVE  NoTwins(s \o r)
<1> DEFINE t == s \o r
<1>1. Len(s) \in Nat /\ r \in Seq(Piece) /\ Len(r) = 3
  BY LenProperties, TailsOfResponse
<1>2. /\ Len(t) = Len(s) + 3
      /\ \A i \in 1 .. Len(s) + 3 : t[i] = IF i <= Len(s) THEN s[i] ELSE r[i - Len(s)]
  <2>1. /\ Len(t) = Len(s) + Len(r)
        /\ \A i \in 1 .. Len(s) + Len(r) :
              t[i] = IF i <= Len(s) THEN s[i] ELSE r[i - Len(s)]
    BY <1>1, ConcatProperties
  <2> HIDE DEF t
  <2> QED BY <1>1, <2>1
<1>3. r[1] \notin HeaderEnds /\ r[3] \notin HeaderEnds
  BY TailsOfResponse
<1> HIDE DEF t
<1> SUFFICES ASSUME NEW k \in 1 .. Len(t) - 1, t[k] \in HeaderEnds PROVE t[k + 1] \notin HeaderEnds
  BY DEF NoTwins, t
<1>4. k \in 1 .. Len(s) + 3 /\ k + 1 \in 1 .. Len(s) + 3
  BY <1>1, <1>2
<1>5. CASE k + 1 <= Len(s)
  <2>1. k \in 1 .. Len(s) - 1 /\ k <= Len(s)
    BY <1>1, <1>4, <1>5
  <2>2. t[k] = s[k] /\ t[k + 1] = s[k + 1]
    BY <1>2, <1>4, <1>5, <2>1
  <2> QED BY <2>1, <2>2 DEF NoTwins
<1>6. CASE k = Len(s)
  <2>1. ~(k + 1 <= Len(s)) /\ (k + 1) - Len(s) = 1
    BY <1>1, <1>6
  <2> QED BY <1>2, <1>3, <1>4, <2>1
<1>7. CASE k > Len(s)
  <2>1. ~(k <= Len(s)) /\ ~(k + 1 <= Len(s)) /\ k - Len(s) \in 1 .. 2
        /\ (k + 1) - Len(s) = (k - Len(s)) + 1
    BY <1>1, <1>4, <1>7, <1>2
  <2>2. t[k] = r[k - Len(s)] /\ t[k + 1] = r[(k - Len(s)) + 1]
    BY <1>2, <1>4, <2>1
  <2>3. CASE k - Len(s) = 1
    BY <1>3, <2>2, <2>3
  <2>4. CASE k - Len(s) = 2
    BY <1>3, <2>2, <2>4
  <2> QED BY <2>1, <2>3, <2>4
<1> QED BY <1>1, <1>4, <1>5, <1>6, <1>7
-----------------------------------------------------------------------------
(* The depth of the pipeline.                                              *)
LEMMA PipeNType == pipe_n \in Nat \ {0} /\ ReqN \in Nat \ {0} /\ MaxFaults \in Nat
BY ClientAssumption DEF pipe_n

(* The types of the fields.                                                *)
LEMMA CliFields ==
    ASSUME NEW c \in CliRec
    PROVE  /\ c.connected \in BOOLEAN /\ c.timer \in BOOLEAN /\ c.pipe_left \in Nat
           /\ c.rcv \in Seq(Piece) /\ c.snd \in Nat /\ c.req_left \in Nat /\ c.ok_n \in Nat
           /\ c.mask \subseteq {"R", "W"} /\ Tails(c.rcv) \in Nat
           /\ c.wproc \in {"cli_on_connect", "cli_on_write"} /\ c.fd \in {"none", "closed", "open"}
BY TailsType DEF CliRec

(* And of a connection's.                                                  *)
LEMMA ConnFields ==
    ASSUME NEW k \in ConnRec
    PROVE  /\ k.state \in {"none", "connecting", "up", "dead"} /\ k.srv \in Nat
           /\ k.wire \in Seq(Piece) /\ k.fin \in BOOLEAN /\ Tails(k.wire) \in Nat
BY TailsType DEF ConnRec

(* cli_close, from whatever state.                                         *)
LEMMA CloseCloses ==
    ASSUME NEW c \in CliRec
    PROVE  /\ Closed(cli_close(c)) /\ cli_close(c).req_left = c.req_left
           /\ cli_close(c).ok_n = c.ok_n
<1> DEFINE d == cli_close(c)
<1>1. pipe_n \in Nat /\ <<>> \in Seq(Piece)
  BY PipeNType, TailsOfFew
<1>2. d = [c EXCEPT !.mask = {}, !.connected = FALSE, !.timer = FALSE, !.fd = "none",
                    !.pipe_left = pipe_n, !.rcv = <<>>, !.snd = 0]
  BY DEF cli_close, cli_reset, CliRec
<1> HIDE DEF d
<1>3. d \in CliRec
  BY <1>1, <1>2 DEF CliRec
<1>4. /\ d.connected = FALSE /\ d.timer = FALSE /\ d.fd = "none" /\ d.mask = {}
      /\ d.pipe_left = pipe_n /\ d.rcv = <<>> /\ d.snd = 0
      /\ d.req_left = c.req_left /\ d.ok_n = c.ok_n
  BY <1>2 DEF CliRec
<1> QED BY <1>3, <1>4 DEF Closed, d

(* A client and a connection that have just been made.                     *)
LEMMA FreshGood ==
    ASSUME NEW c \in CliRec, NEW k \in ConnRec, c.rcv = <<>>, c.snd = 0, c.pipe_left = pipe_n,
           k.srv = 0, k.wire = <<>>, FlagsAgree(c),
           "W" \in c.mask => c.wproc = "cli_on_connect" /\ ~c.connected
    PROVE  Good(c, k)
<1>1. Tails(<<>>) = 0 /\ <<>> \in Seq(Piece) /\ pipe_n \in Nat
  BY TailsOfFew, PipeNType
<1>2. Balanced(c, k)
  BY <1>1 DEF Balanced, Held
<1>3. UnsentWatched(c) /\ Unused(c)
  BY DEF UnsentWatched, Unused
<1>4. NoTwins(c.rcv \o k.wire)
  <2>1. c.rcv \o k.wire = <<>>
    BY <1>1, ConcatEmptySeq
  <2>2. Len(<<>>) = 0
    BY EmptySeq
  <2> QED BY <2>1, <2>2 DEF NoTwins
<1> QED BY <1>2, <1>3, <1>4 DEF Good

(* What cli_connect leaves of a client that was closed as c.               *)
Connected(c, back) ==
    /\ Good(cli', conn') /\ cli'.req_left = c.req_left /\ cli'.ok_n = c.ok_n
    /\ cli'.rcv = <<>> /\ conn'.wire = <<>>
    /\ "R" \in cli'.mask => at' = "pipe"
    /\ cli'.connected /\ "R" \notin cli'.mask => conn'.state = "none"
    /\ Refused(cli', conn') => faults' > 0
    /\ at' \in {back, "pipe"} /\ faults' \in 0 .. MaxFaults

(* cli_connect of a closed client, in its six outcomes.                    *)
LEMMA ConnectGood ==
    ASSUME NEW c, Closed(c), NEW back, NEW n \in Nat, cli_connect(c, back, n), faults \in 0 .. MaxFaults
    PROVE  Connected(c, back)
<1>0. /\ c \in CliRec /\ c.connected = FALSE /\ c.timer = FALSE /\ c.fd = "none" /\ c.mask = {}
      /\ c.pipe_left = pipe_n /\ c.rcv = <<>> /\ c.snd = 0
  BY DEF Closed
<1>1. <<>> \in Seq(Piece)
  BY TailsOfFew
<1>2. NoConn \in ConnRec /\ NoConn.srv = 0 /\ NoConn.wire = <<>> /\ NoConn.state = "none"
  BY <1>1 DEF NoConn, ConnRec
<1>3. /\ Faults(n) => faults' \in 0 .. MaxFaults
      /\ Faults(n + 1) => faults' \in 0 .. MaxFaults /\ faults' > 0
  BY PipeNType DEF Faults
<1>4. ASSUME NEW d, Faults(n + 1), cli' = d, conn' = NoConn, at' = back,
             d \in CliRec, d.req_left = c.req_left, d.ok_n = c.ok_n,
             d.pipe_left = pipe_n, d.rcv = <<>>, d.snd = 0, FlagsAgree(d), d.mask \subseteq {"W"},
             "W" \in d.mask => d.wproc = "cli_on_connect" /\ ~d.connected
      PROVE  Connected(c, back)
  <2>1. Good(d, NoConn)
    BY <1>2, <1>4, FreshGood
  <2> QED BY <1>2, <1>3, <1>4, <2>1 DEF Connected
<1>5. CASE Faults(n + 1) /\ cli' = c /\ conn' = NoConn /\ at' = back
  <2>1. FlagsAgree(c)
    BY <1>0 DEF FlagsAgree
  <2> QED BY <1>0, <1>4, <1>5, <2>1
<1>6. CASE Faults(n + 1) /\ cli' = [c EXCEPT !.fd = "closed"] /\ conn' = NoConn /\ at' = back
  <2> DEFINE d == [c EXCEPT !.fd = "closed"]
  <2>1. /\ d \in CliRec /\ d.connected = FALSE /\ d.timer = FALSE /\ d.fd = "closed" /\ d.mask = {}
        /\ d.pipe_left = pipe_n /\ d.rcv = <<>> /\ d.snd = 0
        /\ d.req_left = c.req_left /\ d.ok_n = c.ok_n
    BY <1>0 DEF CliRec
  <2>2. cli' = d
    BY <1>6
  <2> HIDE DEF d
  <2>3. FlagsAgree(d)
    BY <2>1 DEF FlagsAgree
  <2> QED BY <1>4, <1>6, <2>1, <2>2, <2>3
<1>7. CASE /\ Faults(n + 1) /\ cli' = [WatchWrite(c, "cli_on_connect") EXCEPT !.fd = "closed"]
           /\ conn' = NoConn /\ at' = back
  <2> DEFINE d == [WatchWrite(c, "cli_on_connect") EXCEPT !.fd = "closed"]
  <2>1. d = [c EXCEPT !.mask = @ \cup {"W"}, !.wproc = "cli_on_connect", !.fd = "closed"]
    BY DEF WatchWrite
  <2>2. cli' = d
    BY <1>7
  <2> HIDE DEF d
  <2>3. /\ d \in CliRec /\ d.connected = FALSE /\ d.timer = FALSE /\ d.fd = "closed"
        /\ d.mask = {"W"} /\ d.wproc = "cli_on_connect"
        /\ d.pipe_left = pipe_n /\ d.rcv = <<>> /\ d.snd = 0
        /\ d.req_left = c.req_left /\ d.ok_n = c.ok_n
    BY <1>0, <2>1 DEF CliRec
  <2>4. FlagsAgree(d)
    BY <2>3 DEF FlagsAgree
  <2> QED BY <1>4, <1>7, <2>2, <2>3, <2>4
<1>8. CASE /\ Faults(n + 1) /\ cli' = cli_connected([c EXCEPT !.fd = "closed"], FALSE)
           /\ conn' = NoConn /\ at' = back
  <2> DEFINE d == cli_connected([c EXCEPT !.fd = "closed"], FALSE)
  <2>1. d = [c EXCEPT !.fd = "closed", !.connected = TRUE, !.timer = FALSE]
    BY <1>0 DEF cli_connected, CliRec
  <2>2. cli' = d
    BY <1>8
  <2> HIDE DEF d
  <2>3. /\ d \in CliRec /\ d.connected = TRUE /\ d.timer = FALSE /\ d.fd = "closed" /\ d.mask = {}
        /\ d.pipe_left = pipe_n /\ d.rcv = <<>> /\ d.snd = 0
        /\ d.req_left = c.req_left /\ d.ok_n = c.ok_n
    BY <1>0, <2>1 DEF CliRec
  <2>4. FlagsAgree(d)
    BY <2>3 DEF FlagsAgree
  <2> QED BY <1>4, <1>8, <2>2, <2>3, <2>4
<1>9. CASE /\ Faults(n)
           /\ cli' = [WatchWrite(c, "cli_on_connect") EXCEPT !.fd = "open", !.timer = TRUE]
           /\ conn' = [NoConn EXCEPT !.state = "connecting"] /\ at' = back
  <2> DEFINE d == [WatchWrite(c, "cli_on_connect") EXCEPT !.fd = "open", !.timer = TRUE]
             k == [NoConn EXCEPT !.state = "connecting"]
  <2>1. d = [c EXCEPT !.mask = @ \cup {"W"}, !.wproc = "cli_on_connect", !.fd = "open", !.timer = TRUE]
    BY DEF WatchWrite
  <2>2. k \in ConnRec /\ k.srv = 0 /\ k.wire = <<>> /\ k.state = "connecting"
    BY <1>2 DEF ConnRec
  <2>3. cli' = d /\ conn' = k
    BY <1>9
  <2> HIDE DEF d, k
  <2>4. /\ d \in CliRec /\ d.connected = FALSE /\ d.timer = TRUE /\ d.fd = "open" /\ d.mask = {"W"}
        /\ d.pipe_left = pipe_n /\ d.rcv = <<>> /\ d.snd = 0 /\ d.wproc = "cli_on_connect"
        /\ d.req_left = c.req_left /\ d.ok_n = c.ok_n
    BY <1>0, <2>1 DEF CliRec
  <2>5. FlagsAgree(d)
    BY <2>4 DEF FlagsAgree
  <2>6. Good(d, k) /\ ~Refused(d, k)
    BY <2>2, <2>4, <2>5, FreshGood DEF Refused
  <2>7. "R" \notin cli'.mask /\ ~cli'.connected /\ Good(cli', conn') /\ ~Refused(cli', conn')
    BY <2>3, <2>4, <2>6
  <2> QED BY <1>3, <1>9, <2>2, <2>3, <2>4, <2>7 DEF Connected
<1>10. CASE /\ Faults(n) /\ cli' = cli_connected([c EXCEPT !.fd = "open"], TRUE)
            /\ conn' = [NoConn EXCEPT !.state = "up"] /\ at' = "pipe"
  <2> DEFINE d == cli_connected([c EXCEPT !.fd = "open"], TRUE)
             k == [NoConn EXCEPT !.state = "up"]
  <2>1. d = [c EXCEPT !.fd = "open", !.connected = TRUE, !.timer = FALSE, !.mask = @ \cup {"R"}]
    BY <1>0 DEF cli_connected, CliRec
  <2>2. k \in ConnRec /\ k.srv = 0 /\ k.wire = <<>> /\ k.state = "up"
    BY <1>2 DEF ConnRec
  <2>3. cli' = d /\ conn' = k
    BY <1>10
  <2> HIDE DEF d, k
  <2>4. /\ d \in CliRec /\ d.connected = TRUE /\ d.timer = FALSE /\ d.fd = "open" /\ d.mask = {"R"}
        /\ d.pipe_left = pipe_n /\ d.rcv = <<>> /\ d.snd = 0
        /\ d.req_left = c.req_left /\ d.ok_n = c.ok_n
    BY <1>0, <2>1 DEF CliRec
  <2>5. FlagsAgree(d)
    BY <2>4 DEF FlagsAgree
  <2>6. Good(d, k) /\ ~Refused(d, k)
    BY <2>2, <2>4, <2>5, FreshGood DEF Refused
  <2> QED BY <1>3, <1>10, <2>2, <2>3, <2>4, <2>6 DEF Connected
<1> QED BY <1>5, <1>6, <1>7, <1>8, <1>9, <1>10 DEF cli_connect
-----------------------------------------------------------------------------
(* A step that reconnects a client c with the counts of its responses.     *)
LEMMA ReconnectKeeps ==
    ASSUME IInv, NEW c \in CliRec, c.req_left > 0, c.req_left <= ReqN,
           c.ok_n <= ReqN - c.req_left, ReqN - c.req_left <= answered,
           status = "running", status' = "running", answered' = answered, fired' \subseteq {"R", "W"},
           NEW back \in {"poll", "dispatch", "pipe"}, NEW n \in Nat, cli_reconnect(c, back, n)
    PROVE  IInv'
<1>1. Closed(cli_close(c)) /\ cli_close(c).req_left = c.req_left /\ cli_close(c).ok_n = c.ok_n
  BY CloseCloses
<1>2. faults \in 0 .. MaxFaults /\ answered \in Nat
  BY DEF IInv, Control
<1>3. cli_connect(cli_close(c), back, n)
  BY DEF cli_reconnect
<1>4. /\ Good(cli', conn') /\ cli'.req_left = c.req_left /\ cli'.ok_n = c.ok_n
      /\ cli'.rcv = <<>> /\ conn'.wire = <<>>
      /\ "R" \in cli'.mask => at' = "pipe"
      /\ cli'.connected /\ "R" \notin cli'.mask => conn'.state = "none"
      /\ Refused(cli', conn') => faults' > 0
      /\ at' \in {back, "pipe"} /\ faults' \in 0 .. MaxFaults
  BY <1>1, <1>2, <1>3, ConnectGood DEF Connected
<1>5. Counted(cli', conn', answered')
  <2>1. Tails(<<>>) = 0 /\ ReqN \in Nat /\ c.req_left \in Nat
    BY TailsOfFew, PipeNType, CliFields
  <2> QED BY <1>2, <1>4, <2>1 DEF Counted
<1>6. Control'
  BY <1>2, <1>4 DEF Control, Settled
<1> QED BY <1>4, <1>5, <1>6 DEF IInv

(* All of Good but the registration of the write event.                    *)
Half(c, k) == /\ c \in CliRec /\ k \in ConnRec /\ FlagsAgree(c)
              /\ Balanced(c, k) /\ NoTwins(c.rcv \o k.wire)

(* cli_write of k requests registers the write event exactly for the rest. *)
LEMMA WritesGood ==
    ASSUME NEW c, Half(c, conn), c.connected => "R" \in c.mask, NEW k \in 0 .. c.snd, Writes(c, k)
    PROVE  /\ Good(cli', conn') /\ cli'.rcv = c.rcv /\ conn'.wire = conn.wire
           /\ cli'.req_left = c.req_left /\ cli'.ok_n = c.ok_n
           /\ cli'.pipe_left = c.pipe_left /\ cli'.connected = c.connected
           /\ ("R" \in cli'.mask <=> "R" \in c.mask) /\ conn'.state = conn.state
           /\ c.snd = 0 => cli'.mask \subseteq c.mask
<1>0. /\ c \in CliRec /\ conn \in ConnRec /\ FlagsAgree(c)
      /\ Balanced(c, conn) /\ NoTwins(c.rcv \o conn.wire)
  BY DEF Half
<1>1. /\ c.snd \in Nat /\ c.pipe_left \in Nat /\ Tails(c.rcv) \in Nat
      /\ conn.srv \in Nat /\ Tails(conn.wire) \in Nat
  BY <1>0, CliFields, ConnFields
<1>2. c.snd - k \in Nat /\ conn.srv + k \in Nat
  BY <1>1
<1> DEFINE s == [c EXCEPT !.snd = @ - k]
<1>3. /\ s \in CliRec /\ s.snd = c.snd - k /\ s.rcv = c.rcv /\ s.req_left = c.req_left
      /\ s.ok_n = c.ok_n /\ s.pipe_left = c.pipe_left /\ s.connected = c.connected
      /\ s.timer = c.timer /\ s.fd = c.fd /\ s.mask = c.mask
  BY <1>0, <1>2 DEF CliRec
<1>4. /\ cli' = IF s.snd = 0 THEN UnwatchWrite(s) ELSE WatchWrite(s, "cli_on_write")
      /\ conn' = [conn EXCEPT !.srv = @ + k]
  BY DEF Writes
<1> HIDE DEF s
<1>5. /\ conn' \in ConnRec /\ conn'.srv = conn.srv + k /\ conn'.wire = conn.wire
      /\ conn'.state = conn.state
  BY <1>0, <1>2, <1>4 DEF ConnRec
<1>6. /\ cli' \in CliRec /\ cli'.snd = c.snd - k /\ cli'.rcv = c.rcv /\ cli'.req_left = c.req_left
      /\ cli'.ok_n = c.ok_n /\ cli'.pipe_left = c.pipe_left /\ cli'.connected = c.connected
      /\ cli'.timer = c.timer /\ cli'.fd = c.fd /\ ("R" \in cli'.mask <=> "R" \in c.mask)
      /\ UnsentWatched(cli') /\ ("W" \in cli'.mask => cli'.wproc = "cli_on_write")
      /\ c.snd = 0 => cli'.mask \subseteq c.mask
  <2>1. CASE s.snd = 0
    <3>1. cli' = [s EXCEPT !.mask = @ \ {"W"}]
      BY <1>4, <2>1 DEF UnwatchWrite
    <3>2. /\ cli' \in CliRec /\ cli'.snd = s.snd /\ cli'.rcv = s.rcv /\ cli'.req_left = s.req_left
          /\ cli'.ok_n = s.ok_n /\ cli'.pipe_left = s.pipe_left /\ cli'.connected = s.connected
          /\ cli'.timer = s.timer /\ cli'.fd = s.fd /\ cli'.mask = s.mask \ {"W"}
      BY <1>3, <3>1 DEF CliRec
    <3>3. UnsentWatched(cli')
      BY <2>1, <3>2 DEF UnsentWatched
    <3> QED BY <1>3, <3>2, <3>3
  <2>2. CASE s.snd # 0
    <3>1. cli' = [s EXCEPT !.mask = @ \cup {"W"}, !.wproc = "cli_on_write"]
      BY <1>4, <2>2 DEF WatchWrite
    <3>2. /\ cli' \in CliRec /\ cli'.snd = s.snd /\ cli'.rcv = s.rcv /\ cli'.req_left = s.req_left
          /\ cli'.ok_n = s.ok_n /\ cli'.pipe_left = s.pipe_left /\ cli'.connected = s.connected
          /\ cli'.timer = s.timer /\ cli'.fd = s.fd /\ cli'.mask = s.mask \cup {"W"}
          /\ cli'.wproc = "cli_on_write"
      BY <1>3, <3>1 DEF CliRec
    <3>3. cli'.snd > 0
      BY <1>2, <1>3, <2>2, <3>2
    <3>4. UnsentWatched(cli')
      BY <3>2, <3>3 DEF UnsentWatched
    <3>5. c.snd # 0
      BY <1>1, <1>2, <1>3, <2>2
    <3> QED BY <1>3, <3>2, <3>4, <3>5
  <2> QED BY <2>1, <2>2
<1>7. FlagsAgree(cli') /\ Unused(cli')
  <2>1. cli'.connected => "R" \in cli'.mask
    BY <1>6
  <2> QED BY <1>0, <1>6, <2>1 DEF FlagsAgree, Unused
<1>8. Balanced(cli', conn')
  <2>1. c.pipe_left + Held(c, conn) = cli'.pipe_left + Held(cli', conn')
    BY <1>1, <1>5, <1>6 DEF Held
  <2> QED BY <1>0, <1>5, <2>1 DEF Balanced
<1>9. NoTwins(cli'.rcv \o conn'.wire)
  BY <1>0, <1>5, <1>6
<1> QED BY <1>5, <1>6, <1>7, <1>8, <1>9 DEF Good

(* A step that calls cli_write.                                            *)
LEMMA WriteKeeps ==
    ASSUME IInv, NEW c, Half(c, conn), c.req_left = cli.req_left, c.ok_n = cli.ok_n, c.rcv = cli.rcv,
           NEW back \in {"poll", "dispatch", "pipe"},
           back = "pipe" \/ c.pipe_left = 0, c.mask = cli.mask,
           c.connected /\ "R" \notin c.mask => conn.state = "none" /\ c.snd > 0,
           status = "running", status' = "running", answered' = answered, fired' \subseteq {"R", "W"},
           cli_write(c, back)
    PROVE  IInv'
<1>0. c \in CliRec /\ conn \in ConnRec /\ c.snd \in Nat /\ c.req_left \in Nat
  BY CliFields DEF Half
<1>1. /\ faults \in 0 .. MaxFaults /\ answered \in Nat /\ cli.req_left > 0
      /\ Counted(cli, conn, answered) /\ (Refused(cli, conn) => faults > 0)
  BY DEF IInv, Control
<1>2. ASSUME NEW k \in 0 .. c.snd, Writes(c, k), at' = back, conn.state # "none" \/ c.snd = 0,
             faults' \in 0 .. MaxFaults, faults' >= faults
      PROVE  IInv'
  <2>0. c.connected => "R" \in c.mask
    BY <1>0, <1>2
  <2>1. /\ Good(cli', conn') /\ cli'.rcv = c.rcv /\ conn'.wire = conn.wire
        /\ cli'.req_left = c.req_left /\ cli'.ok_n = c.ok_n
        /\ cli'.pipe_left = c.pipe_left /\ cli'.connected = c.connected
        /\ ("R" \in cli'.mask <=> "R" \in c.mask) /\ conn'.state = conn.state
        /\ c.snd = 0 => cli'.mask \subseteq c.mask
    BY <1>2, <2>0, WritesGood
  <2>2. Counted(cli', conn', answered')
    BY <1>1, <2>1 DEF Counted
  <2>3. Refused(cli', conn') => faults' > 0
    <3>1. Refused(cli', conn') => Refused(cli, conn)
      BY <1>2, <2>0, <2>1 DEF Refused
    <3>2. faults > 0 => faults' > 0
      BY <1>1, <1>2
    <3> QED BY <1>1, <3>1, <3>2
  <2>4. Control'
    BY <1>1, <1>2, <2>0, <2>1, <2>3 DEF Control, Settled
  <2> QED BY <2>1, <2>2, <2>4 DEF IInv
<1>3. ASSUME NEW m \in Nat, Faults(m) PROVE faults' \in 0 .. MaxFaults /\ faults' >= faults
  BY <1>1, <1>3, PipeNType DEF Faults
<1>4. CASE (conn.state = "up" \/ c.snd = 0) /\ Writes(c, c.snd) /\ at' = back /\ Faults(0)
  BY <1>0, <1>2, <1>3, <1>4
<1>5. CASE /\ conn.state = "up" /\ (\E k \in 0 .. c.snd - 1 : Writes(c, k))
           /\ at' = back /\ Faults(1)
  <2>1. PICK k \in 0 .. c.snd - 1 : Writes(c, k)
    BY <1>5
  <2>2. k \in 0 .. c.snd
    BY <1>0
  <2> QED BY <1>2, <1>3, <1>5, <2>1, <2>2
<1>6. CASE conn.state = "connecting" /\ Writes(c, 0) /\ at' = back /\ Faults(0)
  BY <1>0, <1>2, <1>3, <1>6
<1>7. ASSUME NEW n \in Nat, cli_reconnect(c, back, n) PROVE IInv'
  <2>1. /\ c.req_left > 0 /\ c.req_left <= ReqN /\ c.ok_n <= ReqN - c.req_left
        /\ ReqN - c.req_left <= answered
    <3>1. Tails(cli.rcv) \in Nat /\ Tails(conn.wire) \in Nat /\ ReqN \in Nat
      BY CliFields, ConnFields, PipeNType DEF IInv, Good
    <3>2. /\ c.req_left <= ReqN /\ c.ok_n <= ReqN - c.req_left
          /\ ReqN - c.req_left + Tails(cli.rcv) + Tails(conn.wire) <= answered
      BY <1>1 DEF Counted
    <3> QED BY <1>0, <1>1, <3>1, <3>2
  <2> QED BY <1>0, <1>7, <2>1, ReconnectKeeps
<1>8. 0 \in Nat /\ 1 \in Nat /\ 2 \in Nat
  OBVIOUS
<1>9. CASE \E n \in {0, 1, 2} : cli_reconnect(c, back, n)
  BY <1>7, <1>8, <1>9
<1> QED BY <1>4, <1>5, <1>6, <1>9 DEF cli_write

(* A step that calls cli_end.                                              *)
LEMMA EndKeeps ==
    ASSUME IInv, NEW c \in CliRec, c.req_left <= ReqN, c.ok_n <= ReqN - c.req_left,
           ReqN - c.req_left <= answered, cli_end(c), at' = at, answered' = answered,
           fired' \subseteq {"R", "W"}, faults' \in 0 .. MaxFaults
    PROVE  IInv'
<1> DEFINE d == cli_close(c)
<1>1. cli' = d /\ conn' = NoConn /\ status' = "ended"
  BY DEF cli_end
<1>2. Closed(d) /\ d.req_left = c.req_left /\ d.ok_n = c.ok_n
  BY CloseCloses
<1> HIDE DEF d
<1>3. <<>> \in Seq(Piece) /\ Tails(<<>>) = 0
  BY TailsOfFew
<1>4. NoConn \in ConnRec /\ NoConn.srv = 0 /\ NoConn.wire = <<>>
  BY <1>3 DEF NoConn, ConnRec
<1>5. /\ d \in CliRec /\ d.connected = FALSE /\ d.timer = FALSE /\ d.fd = "none" /\ d.mask = {}
      /\ d.pipe_left = pipe_n /\ d.rcv = <<>> /\ d.snd = 0
  BY <1>2 DEF Closed
<1>6. Good(d, NoConn)
  <2>1. FlagsAgree(d)
    BY <1>5 DEF FlagsAgree
  <2> QED BY <1>4, <1>5, <2>1, FreshGood
<1>7. Counted(d, NoConn, answered)
  <2>1. ReqN \in Nat /\ c.req_left \in Nat /\ answered \in Nat
    BY PipeNType, CliFields DEF IInv, Control
  <2> QED BY <1>2, <1>3, <1>4, <1>5, <2>1 DEF Counted
<1>8. Control'
  <2>1. cli'.connected = FALSE /\ cli'.mask = {}
    BY <1>1, <1>5
  <2> QED BY <1>1, <2>1 DEF IInv, Control, Settled, Refused
<1> QED BY <1>1, <1>6, <1>7, <1>8 DEF IInv
-----------------------------------------------------------------------------
(* What the invariant says of the client and the connection.               *)
LEMMA ClientFacts ==
    ASSUME IInv
    PROVE  /\ cli \in CliRec /\ conn \in ConnRec /\ Half(cli, conn)
           /\ cli.req_left \in Nat /\ cli.req_left <= ReqN /\ cli.ok_n <= ReqN - cli.req_left
           /\ ReqN - cli.req_left <= answered
           /\ ReqN - cli.req_left + Tails(cli.rcv) + Tails(conn.wire) <= answered
<1>1. cli \in CliRec /\ conn \in ConnRec /\ Half(cli, conn)
  BY DEF IInv, Good, Half
<1>2. /\ cli.req_left <= ReqN /\ cli.ok_n <= ReqN - cli.req_left
      /\ ReqN - cli.req_left + Tails(cli.rcv) + Tails(conn.wire) <= answered
  BY DEF IInv, Counted
<1>3. /\ Tails(cli.rcv) \in Nat /\ Tails(conn.wire) \in Nat /\ cli.req_left \in Nat
      /\ ReqN \in Nat /\ answered \in Nat
  BY <1>1, CliFields, ConnFields, PipeNType DEF IInv, Control
<1>4. ReqN - cli.req_left <= answered
  BY <1>2, <1>3
<1> QED BY <1>1, <1>2, <1>3, <1>4

(* A step that moves only the control.                                     *)
LEMMA ControlKeeps ==
    ASSUME IInv, Control', cli' = cli, conn' = conn, answered' = answered
    PROVE  IInv'
BY DEF IInv

(* cli_start.                                                              *)
LEMMA StartKeeps == ASSUME IInv, cli_start PROVE IInv'
<1>1. /\ status = "start" /\ cli_connect(cli, "poll", 0)
      /\ status' = (IF cli'.fd = "open" THEN "running" ELSE "ended")
      /\ fired' = fired /\ answered' = answered
  BY DEF cli_start
<1>2. Closed(cli) /\ faults \in 0 .. MaxFaults /\ cli.req_left > 0 /\ answered \in Nat /\ fired \subseteq {"R", "W"}
  BY <1>1 DEF IInv, Control
<1>3. 0 \in Nat
  OBVIOUS
<1>4. /\ Good(cli', conn') /\ cli'.req_left = cli.req_left /\ cli'.ok_n = cli.ok_n
      /\ cli'.rcv = <<>> /\ conn'.wire = <<>>
      /\ "R" \in cli'.mask => at' = "pipe"
      /\ cli'.connected /\ "R" \notin cli'.mask => conn'.state = "none"
      /\ Refused(cli', conn') => faults' > 0
      /\ at' \in {"poll", "pipe"} /\ faults' \in 0 .. MaxFaults
  BY <1>1, <1>2, <1>3, ConnectGood DEF Connected
<1>5. Counted(cli', conn', answered')
  <2>1. Tails(<<>>) = 0 /\ ReqN \in Nat
    BY TailsOfFew, PipeNType
  <2> QED BY <1>1, <1>4, <2>1, ClientFacts DEF Counted
<1>6. status' \in {"running", "ended"}
  BY <1>1
<1>7. Control'
  BY <1>1, <1>2, <1>4, <1>6 DEF Control, Settled
<1> QED BY <1>4, <1>5, <1>7 DEF IInv

(* One turn of cli_pipe_send: a free place becomes a buffered request.     *)
LEMMA PipeSendsKeeps == ASSUME IInv, PipeSends PROVE IInv'
<1> DEFINE c == [cli EXCEPT !.pipe_left = @ - 1, !.snd = @ + 1]
<1>1. /\ status = "running" /\ at = "pipe" /\ cli.pipe_left # 0 /\ cli_write(c, "pipe")
      /\ status' = status /\ fired' = fired /\ answered' = answered
  BY DEF PipeSends
<1>2. /\ cli \in CliRec /\ conn \in ConnRec /\ FlagsAgree(cli)
      /\ Balanced(cli, conn) /\ NoTwins(cli.rcv \o conn.wire)
  BY ClientFacts DEF Half
<1>3. /\ cli.pipe_left \in Nat /\ cli.snd \in Nat /\ Tails(cli.rcv) \in Nat
      /\ conn.srv \in Nat /\ Tails(conn.wire) \in Nat
  BY <1>2, CliFields, ConnFields
<1>4. cli.pipe_left - 1 \in Nat /\ cli.snd + 1 \in Nat
  BY <1>1, <1>3
<1>5. /\ c \in CliRec /\ c.pipe_left = cli.pipe_left - 1 /\ c.snd = cli.snd + 1 /\ c.rcv = cli.rcv
      /\ c.req_left = cli.req_left /\ c.ok_n = cli.ok_n /\ c.connected = cli.connected
      /\ c.timer = cli.timer /\ c.fd = cli.fd /\ c.mask = cli.mask
  BY <1>2, <1>4 DEF CliRec
<1> HIDE DEF c
<1>6. FlagsAgree(c)
  BY <1>2, <1>5 DEF FlagsAgree
<1>7. Balanced(c, conn)
  <2>1. c.pipe_left + Held(c, conn) = cli.pipe_left + Held(cli, conn)
    BY <1>3, <1>5 DEF Held
  <2> QED BY <1>2, <2>1 DEF Balanced
<1>8. Half(c, conn)
  BY <1>2, <1>5, <1>6, <1>7 DEF Half
<1>9. fired' \subseteq {"R", "W"} /\ "pipe" \in {"poll", "dispatch", "pipe"}
  BY <1>1 DEF IInv, Control
<1>10. c.connected /\ "R" \notin c.mask => conn.state = "none" /\ c.snd > 0
  <2>1. cli.connected /\ "R" \notin cli.mask => conn.state = "none"
    BY <1>1 DEF IInv, Control
  <2>2. c.snd > 0
    BY <1>3, <1>5
  <2> QED BY <1>5, <2>1, <2>2
<1> QED BY <1>1, <1>5, <1>8, <1>9, <1>10, WriteKeeps

(* The end of cli_pipe_send, the poll, and events that are passed over.    *)
LEMMA LoopKeeps == ASSUME IInv, PipeEnds \/ aeApiPoll \/ Skips \/ TimersDone PROVE IInv'
<1>1. ASSUME PipeEnds PROVE IInv'
  <2>1. Control'
    BY <1>1 DEF PipeEnds, IInv, Control, Settled
  <2> QED BY <1>1, <2>1, ControlKeeps DEF PipeEnds
<1>2. ASSUME aeApiPoll PROVE IInv'
  <2>1. Ready \subseteq {"R", "W"}
    BY DEF Ready
  <2>2. Control'
    BY <1>2, <2>1 DEF aeApiPoll, IInv, Control, Settled
  <2> QED BY <1>2, <2>2, ControlKeeps DEF aeApiPoll
<1>3. ASSUME Skips PROVE IInv'
  <2>1. fired' \subseteq fired
    BY <1>3 DEF Skips
  <2>2. Control'
    BY <1>3, <2>1 DEF Skips, Dispatching, IInv, Control, Settled
  <2> QED BY <1>3, <2>2, ControlKeeps DEF Skips
<1>4. ASSUME TimersDone PROVE IInv'
  <2>1. Control'
    BY <1>4 DEF TimersDone, Dispatching, IInv, Control, Settled
  <2> QED BY <1>4, <2>1, ControlKeeps DEF TimersDone
<1> QED BY <1>1, <1>2, <1>3, <1>4

(* The step of a callback takes its event from fired.                      *)
LEMMA DispatchFacts ==
    ASSUME IInv
    PROVE  /\ DispatchRead => /\ status = "running" /\ at = "dispatch" /\ fired' \subseteq {"R", "W"}
                              /\ "R" \in cli.mask
           /\ \A p : DispatchWrite(p) =>
                 /\ status = "running" /\ at = "dispatch" /\ fired' \subseteq {"R", "W"}
                 /\ "W" \in cli.mask /\ cli.wproc = p
<1>1. fired \subseteq {"R", "W"}
  BY DEF IInv, Control
<1> QED BY <1>1 DEF DispatchRead, DispatchWrite, Dispatching

(* A failed assertion.                                                     *)
LEMMA AssertFailsKeeps == ASSUME IInv, AssertFails PROVE IInv'
<1>1. /\ fired' \subseteq {"R", "W"} /\ status' = "aborted"
      /\ at' = at /\ cli' = cli /\ conn' = conn /\ answered' = answered /\ faults' = faults
  BY DispatchFacts DEF AssertFails
<1>2. Control'
  BY <1>1 DEF IInv, Control, Settled
<1> QED BY <1>1, <1>2, ControlKeeps

(* read() fails.                                                           *)
LEMMA ReadFailsKeeps == ASSUME IInv, ReadFails PROVE IInv'
<1>1. /\ DispatchRead /\ cli_reconnect(cli, "dispatch", 0) /\ status' = status /\ answered' = answered
  BY DEF ReadFails
<1>2. status = "running" /\ fired' \subseteq {"R", "W"}
  BY <1>1, DispatchFacts
<1>3. /\ cli \in CliRec /\ cli.req_left <= ReqN /\ cli.ok_n <= ReqN - cli.req_left
      /\ ReqN - cli.req_left <= answered /\ cli.req_left > 0
  BY <1>2, ClientFacts DEF IInv, Control
<1>4. 0 \in Nat /\ "dispatch" \in {"poll", "dispatch", "pipe"}
  OBVIOUS
<1> QED BY <1>1, <1>2, <1>3, <1>4, ReconnectKeeps

(* The timer of the connection attempt.                                    *)
LEMMA TimeoutKeeps == ASSUME IInv, cli_connect_timeout PROVE IInv'
<1> DEFINE n == IF conn.state = "connecting" \/ Ready # {} THEN 1 ELSE 0
<1>1. /\ status = "running" /\ cli_reconnect(cli, "poll", n)
      /\ status' = status /\ answered' = answered /\ fired' = fired
  BY DEF cli_connect_timeout
<1>2. n \in Nat /\ "poll" \in {"poll", "dispatch", "pipe"}
  OBVIOUS
<1> HIDE DEF n
<1>3. /\ cli \in CliRec /\ cli.req_left <= ReqN /\ cli.ok_n <= ReqN - cli.req_left
      /\ ReqN - cli.req_left <= answered /\ cli.req_left > 0 /\ fired' \subseteq {"R", "W"}
  BY <1>1, ClientFacts DEF IInv, Control
<1> QED BY <1>1, <1>2, <1>3, ReconnectKeeps

(* cli_on_connect: nothing is in snd_buf yet.                              *)
LEMMA OnConnectKeeps == ASSUME IInv, cli_on_connect PROVE IInv'
<1>1. PICK watched \in BOOLEAN :
         /\ DispatchWrite("cli_on_connect") /\ cli' = cli_connected(UnwatchWrite(cli), watched)
         /\ at' = (IF watched THEN "pipe" ELSE "dispatch")
         /\ Faults(IF watched \/ conn.state = "none" THEN 0 ELSE 1)
         /\ status' = status /\ conn' = conn /\ answered' = answered
  BY DEF cli_on_connect
<1>2. status = "running" /\ fired' \subseteq {"R", "W"} /\ "W" \in cli.mask /\ cli.wproc = "cli_on_connect"
  BY <1>1, DispatchFacts
<1>3. /\ cli \in CliRec /\ conn \in ConnRec /\ FlagsAgree(cli) /\ Unused(cli) /\ UnsentWatched(cli)
      /\ Balanced(cli, conn) /\ NoTwins(cli.rcv \o conn.wire)
  BY DEF IInv, Good
<1>4. cli.snd = 0 /\ cli.pipe_left = pipe_n /\ cli.mask = {"W"}
  <2>1. cli.snd \in Nat /\ ~(cli.snd > 0) /\ cli.mask \subseteq {"R", "W"}
    BY <1>2, <1>3, CliFields DEF UnsentWatched
  <2>2. ~cli.connected /\ cli.pipe_left = pipe_n
    BY <1>2, <1>3 DEF Unused
  <2>3. "R" \notin cli.mask
    BY <1>3, <2>2 DEF FlagsAgree
  <2> QED BY <1>2, <2>1, <2>2, <2>3
<1> DEFINE m == IF watched THEN {"R"} ELSE {}
<1>5. cli' = [cli EXCEPT !.mask = m, !.connected = TRUE, !.timer = FALSE]
  BY <1>1, <1>3, <1>4 DEF cli_connected, UnwatchWrite, CliRec
<1>6. m \subseteq {"R", "W"} /\ "W" \notin m /\ ("R" \in m <=> watched) /\ (m = {} <=> ~watched)
  OBVIOUS
<1> HIDE DEF m
<1>7. /\ cli' \in CliRec /\ cli'.pipe_left = pipe_n /\ cli'.snd = 0 /\ cli'.rcv = cli.rcv
      /\ cli'.req_left = cli.req_left /\ cli'.ok_n = cli.ok_n /\ cli'.connected = TRUE
      /\ cli'.timer = FALSE /\ cli'.fd = cli.fd /\ cli'.mask = m
  BY <1>3, <1>4, <1>5, <1>6 DEF CliRec
<1>8. FlagsAgree(cli') /\ Unused(cli') /\ UnsentWatched(cli')
  BY <1>6, <1>7 DEF FlagsAgree, Unused, UnsentWatched
<1>9. Balanced(cli', conn')
  BY <1>1, <1>3, <1>4, <1>7 DEF Balanced, Held
<1>10. Good(cli', conn')
  BY <1>1, <1>3, <1>7, <1>8, <1>9 DEF Good
<1>11. Counted(cli', conn', answered')
  BY <1>1, <1>7 DEF IInv, Counted
<1>12. faults' \in 0 .. MaxFaults /\ (Refused(cli', conn') => faults' > 0)
  <2>1. faults \in 0 .. MaxFaults /\ MaxFaults \in Nat /\ (Refused(cli, conn) => faults > 0)
    BY PipeNType DEF IInv, Control
  <2>2. CASE conn.state = "none"
    <3>1. faults > 0
      BY <1>4, <2>1, <2>2 DEF Refused
    <3>2. Faults(0)
      BY <1>1, <2>2
    <3> QED BY <2>1, <3>1, <3>2 DEF Faults
  <2>3. CASE conn.state # "none" /\ watched
    <3>1. ~Refused(cli', conn')
      BY <1>1, <1>6, <1>7, <2>3 DEF Refused
    <3>2. Faults(0)
      BY <1>1, <2>3
    <3> QED BY <2>1, <3>1, <3>2 DEF Faults
  <2>4. CASE conn.state # "none" /\ ~watched
    BY <1>1, <2>1, <2>4 DEF Faults
  <2> QED BY <2>2, <2>3, <2>4
<1>13. Control'
  BY <1>1, <1>2, <1>6, <1>7, <1>12 DEF IInv, Control, Settled
<1> QED BY <1>10, <1>11, <1>13 DEF IInv

(* cli_on_write.                                                           *)
LEMMA OnWriteKeeps == ASSUME IInv, cli_on_write PROVE IInv'
<1>1. /\ DispatchWrite("cli_on_write") /\ cli.connected /\ cli_write(cli, "dispatch")
      /\ status' = status /\ answered' = answered
  BY DEF cli_on_write
<1>2. status = "running" /\ at = "dispatch" /\ fired' \subseteq {"R", "W"} /\ "W" \in cli.mask
  BY <1>1, DispatchFacts
<1>3. "R" \in cli.mask /\ cli.pipe_left = 0
  <2>1. "R" \in cli.mask
    BY <1>1, <1>2 DEF IInv, Good, FlagsAgree
  <2> QED BY <1>2, <2>1 DEF IInv, Control, Settled
<1>4. Half(cli, conn) /\ "dispatch" \in {"poll", "dispatch", "pipe"}
  BY ClientFacts
<1> QED BY <1>1, <1>2, <1>3, <1>4, WriteKeeps

(* Three streams one behind the other.                                     *)
LEMMA StreamsAssociate ==
    \A s, t, u \in Seq(Piece) : (s \o t) \o u = s \o (t \o u)
BY ConcatAssociative

(* The client with n pieces more in rcv_buf, and the connection without.   *)
ReadIn(n) == [cli EXCEPT !.rcv = @ \o SubSeq(conn.wire, 1, n)]

ReadOut(n) == [conn EXCEPT !.wire = SubSeq(@, n + 1, Len(@))]

(* Reading moves pieces of the stream and changes nothing else.            *)
LEMMA ReadInGood ==
    ASSUME IInv, NEW n \in 1 .. Len(conn.wire)
    PROVE  /\ Good(ReadIn(n), ReadOut(n)) /\ Counted(ReadIn(n), ReadOut(n), answered)
           /\ ReadIn(n).req_left = cli.req_left /\ ReadIn(n).ok_n = cli.ok_n
           /\ ReadIn(n).pipe_left = cli.pipe_left /\ ReadIn(n).connected = cli.connected
           /\ ReadIn(n).mask = cli.mask /\ ReadOut(n).state = conn.state
<1> DEFINE c == ReadIn(n)
           k == ReadOut(n)
           w == conn.wire
           a == SubSeq(w, 1, n)
           rest == SubSeq(w, n + 1, Len(w))
<1>1. /\ cli \in CliRec /\ conn \in ConnRec /\ FlagsAgree(cli) /\ Unused(cli) /\ UnsentWatched(cli)
      /\ Balanced(cli, conn) /\ NoTwins(cli.rcv \o conn.wire)
  BY DEF IInv, Good
<1>2. /\ cli.pipe_left \in Nat /\ cli.snd \in Nat /\ Tails(cli.rcv) \in Nat /\ cli.rcv \in Seq(Piece)
      /\ conn.srv \in Nat /\ Tails(w) \in Nat /\ w \in Seq(Piece)
  BY <1>1, CliFields, ConnFields
<1>3. n \in 0 .. Len(w)
  BY <1>2, LenProperties
<1>4. /\ a \in Seq(Piece) /\ rest \in Seq(Piece) /\ a \o rest = w
      /\ Tails(w) = Tails(a) + Tails(rest)
  <2> HIDE DEF w
  <2> QED BY <1>2, <1>3, TailsCut
<1>5. k \in ConnRec /\ k.wire = rest /\ k.srv = conn.srv /\ k.state = conn.state
  <2>1. k = [conn EXCEPT !.wire = rest]
    BY DEF ReadOut
  <2> HIDE DEF k, rest
  <2> QED BY <1>1, <1>4, <2>1 DEF ConnRec
<1>6. cli.rcv \o a \in Seq(Piece) /\ Tails(cli.rcv \o a) = Tails(cli.rcv) + Tails(a)
  <2> HIDE DEF a
  <2> QED BY <1>2, <1>4, TailsConcat
<1>7. (cli.rcv \o a) \o rest = cli.rcv \o w
  <2> HIDE DEF a, rest, w
  <2>1. (cli.rcv \o a) \o rest = cli.rcv \o (a \o rest)
    <3>1. cli.rcv \in Seq(Piece) /\ a \in Seq(Piece) /\ rest \in Seq(Piece)
      BY <1>2, <1>4
    <3> QED BY ONLY <3>1, StreamsAssociate
  <2> QED BY <1>4, <2>1
<1> HIDE DEF k, rest
<1>8. c = [cli EXCEPT !.rcv = cli.rcv \o a]
  BY DEF ReadIn
<1> HIDE DEF a, w, c
<1>9. /\ c \in CliRec /\ c.rcv = cli.rcv \o a /\ c.pipe_left = cli.pipe_left /\ c.snd = cli.snd
      /\ c.req_left = cli.req_left /\ c.ok_n = cli.ok_n /\ c.connected = cli.connected
      /\ c.timer = cli.timer /\ c.fd = cli.fd /\ c.mask = cli.mask /\ c.wproc = cli.wproc
  BY <1>1, <1>6, <1>8 DEF CliRec
<1>10. FlagsAgree(c) /\ Unused(c) /\ UnsentWatched(c)
  BY <1>1, <1>9 DEF FlagsAgree, Unused, UnsentWatched
<1>11. PICK ta \in Nat, tr \in Nat, tt \in Nat :
          /\ tt = Tails(cli.rcv) /\ tr = Tails(k.wire) /\ tt + ta = Tails(c.rcv)
          /\ Tails(conn.wire) = ta + tr
  <2>1. Tails(a) \in Nat /\ Tails(rest) \in Nat
    BY <1>4, TailsType
  <2> QED BY <1>2, <1>4, <1>5, <1>6, <1>9, <2>1 DEF w
<1>12. Balanced(c, k)
  <2>1. /\ Held(c, k) = cli.snd + conn.srv + (tt + ta) + tr
        /\ Held(cli, conn) = cli.snd + conn.srv + tt + (ta + tr)
    BY <1>5, <1>9, <1>11 DEF Held
  <2>2. \A x, v, t, y, z \in Nat : x + v + (t + y) + z = x + v + t + (y + z)
    OBVIOUS
  <2>3. Held(c, k) = Held(cli, conn)
    <3>1. PICK x \in Nat, v \in Nat : x = cli.snd /\ v = conn.srv
      BY <1>2
    <3>2. x + v + (tt + ta) + tr = x + v + tt + (ta + tr)
      BY ONLY <2>2, x \in Nat, v \in Nat, tt \in Nat, ta \in Nat, tr \in Nat
    <3> QED BY ONLY <2>1, <3>1, <3>2
  <2> QED BY <1>1, <1>5, <1>9, <2>3 DEF Balanced
<1>13. NoTwins(c.rcv \o k.wire)
  BY <1>1, <1>5, <1>7, <1>9 DEF w
<1>14. Counted(c, k, answered)
  <2>1. /\ cli.req_left <= ReqN /\ cli.ok_n <= ReqN - cli.req_left
        /\ ReqN - cli.req_left + tt + (ta + tr) <= answered
        /\ ReqN \in Nat /\ answered \in Nat /\ cli.req_left \in Nat
    BY <1>11, ClientFacts, PipeNType DEF IInv, Control
  <2>2. \A N, l, t, y, z, b \in Nat : N - l + t + (y + z) <= b => N - l + (t + y) + z <= b
    OBVIOUS
  <2>3. ReqN - cli.req_left + (tt + ta) + tr <= answered
    BY ONLY <2>1, <2>2, tt \in Nat, ta \in Nat, tr \in Nat
  <2> QED BY <1>9, <1>11, <2>1, <2>3 DEF Counted
<1>15. Good(c, k)
  BY <1>5, <1>9, <1>10, <1>12, <1>13 DEF Good
<1> QED BY <1>5, <1>9, <1>14, <1>15 DEF c, k

(* A response read and decoded: a place of the pipeline is free again.     *)
LEMMA ReadGood ==
    ASSUME IInv, cli.req_left > 0, NEW n \in 1 .. Len(conn.wire), NEW ok \in BOOLEAN,
           is_dubbo_pkt(ReadIn(n).rcv), cli.connected, "R" \in cli.mask
    PROVE  LET d == cli_decode_resp(ReadIn(n), ok)
           IN  /\ Good(d, ReadOut(n)) /\ Counted(d, ReadOut(n), answered)
               /\ d.req_left = cli.req_left - 1 /\ d.connected /\ "R" \in d.mask
<1> DEFINE c == ReadIn(n)
           k == ReadOut(n)
           d == cli_decode_resp(c, ok)
<1>1. /\ Good(c, k) /\ Counted(c, k, answered) /\ c.req_left = cli.req_left
      /\ c.connected = cli.connected /\ c.mask = cli.mask
  BY ReadInGood
<1>2. is_dubbo_pkt(c.rcv)
  OBVIOUS
<1> HIDE DEF c, k
<1>3. /\ c \in CliRec /\ k \in ConnRec /\ FlagsAgree(c) /\ Unused(c) /\ UnsentWatched(c)
      /\ Balanced(c, k) /\ NoTwins(c.rcv \o k.wire)
  BY <1>1 DEF Good
<1>4. /\ c.pipe_left \in Nat /\ c.snd \in Nat /\ Tails(c.rcv) \in Nat /\ c.rcv \in Seq(Piece)
      /\ c.req_left \in Nat /\ c.req_left > 0 /\ c.ok_n \in Nat
      /\ k.srv \in Nat /\ Tails(k.wire) \in Nat /\ k.wire \in Seq(Piece)
  BY <1>1, <1>3, CliFields, ConnFields
<1> DEFINE e == dubbo_decode(c.rcv)
<1>5. e \in Seq(Piece) /\ Tails(c.rcv) = Tails(e) + 1 /\ NoTwins(e \o k.wire)
  BY <1>2, <1>3, <1>4, DecodeTakesOne
<1>6. Tails(e) \in Nat
  BY <1>5, TailsType
<1> HIDE DEF e
<1> DEFINE o == IF ok THEN c.ok_n + 1 ELSE c.ok_n
<1>7. c.pipe_left + 1 \in Nat /\ c.req_left - 1 \in Nat /\ o \in Nat /\ o <= c.ok_n + 1
  <2>1. c.pipe_left \in Nat /\ c.req_left \in Nat /\ c.req_left > 0 /\ c.ok_n \in Nat
    BY <1>4
  <2> QED BY ONLY <2>1, ok \in BOOLEAN
<1>8. d = [c EXCEPT !.pipe_left = @ + 1, !.req_left = @ - 1, !.rcv = e, !.ok_n = o]
  BY DEF cli_decode_resp, e
<1> HIDE DEF d, o
<1>9. /\ d \in CliRec /\ d.rcv = e /\ d.pipe_left = c.pipe_left + 1 /\ d.snd = c.snd
      /\ d.req_left = c.req_left - 1 /\ d.ok_n = o /\ d.connected = c.connected
      /\ d.timer = c.timer /\ d.fd = c.fd /\ d.mask = c.mask /\ d.wproc = c.wproc
  BY <1>3, <1>5, <1>7, <1>8 DEF CliRec
<1>10. FlagsAgree(d) /\ Unused(d) /\ UnsentWatched(d)
  <2>1. d.connected /\ "R" \in d.mask
    BY <1>1, <1>9
  <2> QED BY <1>3, <1>9, <2>1 DEF FlagsAgree, Unused, UnsentWatched
<1>11. PICK te \in Nat, tr \in Nat :
          te = Tails(d.rcv) /\ te + 1 = Tails(c.rcv) /\ tr = Tails(k.wire)
  BY <1>4, <1>5, <1>6, <1>9
<1>12. Balanced(d, k)
  <2>1. /\ d.pipe_left + Held(d, k) = (c.pipe_left + 1) + (c.snd + k.srv + te + tr)
        /\ c.pipe_left + Held(c, k) = c.pipe_left + (c.snd + k.srv + (te + 1) + tr)
    BY <1>9, <1>11 DEF Held
  <2>2. \A p, x, v, t, z \in Nat : (p + 1) + (x + v + t + z) = p + (x + v + (t + 1) + z)
    OBVIOUS
  <2>3. d.pipe_left + Held(d, k) = c.pipe_left + Held(c, k)
    <3>1. PICK p \in Nat, x \in Nat, v \in Nat : p = c.pipe_left /\ x = c.snd /\ v = k.srv
      BY <1>4
    <3>2. (p + 1) + (x + v + te + tr) = p + (x + v + (te + 1) + tr)
      BY ONLY <2>2, p \in Nat, x \in Nat, v \in Nat, te \in Nat, tr \in Nat
    <3> QED BY ONLY <2>1, <3>1, <3>2
  <2> QED BY <1>3, <2>3 DEF Balanced
<1>13. Good(d, k)
  BY <1>3, <1>5, <1>9, <1>10, <1>12 DEF Good
<1>14. Counted(d, k, answered)
  <2>1. /\ c.req_left <= ReqN /\ c.ok_n <= ReqN - c.req_left
        /\ ReqN - c.req_left + (te + 1) + tr <= answered
        /\ ReqN \in Nat /\ answered \in Nat
    BY <1>1, <1>11, PipeNType DEF Counted, IInv, Control
  <2>2. \A N, l, p, q, t, z, b \in Nat :
           l <= N /\ l > 0 /\ p <= N - l /\ q <= p + 1 /\ N - l + (t + 1) + z <= b =>
              l - 1 <= N /\ q <= N - (l - 1) /\ N - (l - 1) + t + z <= b
    OBVIOUS
  <2>3. /\ c.req_left - 1 <= ReqN /\ o <= ReqN - (c.req_left - 1)
        /\ ReqN - (c.req_left - 1) + te + tr <= answered
    BY ONLY <1>4, <1>7, <2>1, <2>2, te \in Nat, tr \in Nat
  <2> QED BY <1>9, <1>11, <2>3 DEF Counted
<1> QED BY <1>1, <1>9, <1>13, <1>14 DEF c, d, k

(* cli_on_read: too little for a header reconnects, a header with an       *)
(* invalid size stays, a body that is not there ends the program, and a    *)
(* response is decoded and its place filled again, or the benchmark ends.  *)
LEMMA OnReadKeeps ==
    ASSUME IInv, NEW n \in 1 .. Len(conn.wire), cli_on_read(n)
    PROVE  IInv'
<1> DEFINE c == ReadIn(n)
           cost == IF n < Len(conn.wire) THEN 1 ELSE 0
           k == ReadOut(n)
<1>0. cost \in Nat
  OBVIOUS
<1>1. /\ DispatchRead /\ cli.connected /\ answered' = answered
      /\ \/ cli_reconnect(c, "dispatch", cost) /\ UNCHANGED status
         \/ cli' = c /\ conn' = k /\ UNCHANGED <<status, at>> /\ Faults(cost)
         \/ status' = "split" /\ UNCHANGED <<at, cli, conn>> /\ Faults(cost)
         \/ /\ is_dubbo_pkt(c.rcv)
            /\ \E ok \in BOOLEAN :
                  LET d == cli_decode_resp(c, ok)
                  IN  \/ d.req_left <= 0 /\ cli_end(d) /\ UNCHANGED at /\ Faults(cost)
                      \/ /\ d.req_left > 0 /\ cli' = d /\ at' = "pipe" /\ conn' = k
                         /\ UNCHANGED status /\ Faults(cost)
                      \/ /\ d.req_left > 0 /\ cli_reconnect(d, "dispatch", cost)
                         /\ UNCHANGED status
  BY DEF cli_on_read, is_completed_dubbo_pkt, ReadIn, ReadOut
<1> HIDE DEF cost
<1>2. status = "running" /\ at = "dispatch" /\ fired' \subseteq {"R", "W"} /\ "R" \in cli.mask
  BY <1>1, DispatchFacts
<1>3. /\ cli.req_left > 0 /\ answered \in Nat /\ faults \in 0 .. MaxFaults /\ cli.pipe_left = 0
      /\ (Refused(cli, conn) => faults > 0)
  BY <1>2 DEF IInv, Control, Settled
<1>4. Faults(cost) => faults' \in 0 .. MaxFaults /\ faults' >= faults
  BY <1>0, <1>3, PipeNType DEF Faults
<1>5. "dispatch" \in {"poll", "dispatch", "pipe"}
  OBVIOUS
<1>6. /\ Good(c, k) /\ Counted(c, k, answered) /\ c.req_left = cli.req_left
      /\ c.pipe_left = cli.pipe_left /\ c.connected = cli.connected /\ c.mask = cli.mask
      /\ k.state = conn.state
  BY ReadInGood
<1>7. ASSUME NEW d, Good(d, k), Counted(d, k, answered)
      PROVE  /\ d \in CliRec /\ d.req_left <= ReqN /\ d.ok_n <= ReqN - d.req_left
             /\ ReqN - d.req_left <= answered
  <2> HIDE DEF k
  <2>1. d \in CliRec /\ k \in ConnRec
    BY <1>7 DEF Good
  <2>2. /\ d.req_left \in Nat /\ Tails(d.rcv) \in Nat /\ Tails(k.wire) \in Nat /\ ReqN \in Nat
    BY <2>1, CliFields, ConnFields, PipeNType
  <2>3. \A N, l, t, w, a \in Nat : N - l + t + w <= a => N - l <= a
    OBVIOUS
  <2>4. /\ d.req_left <= ReqN /\ d.ok_n <= ReqN - d.req_left
        /\ ReqN - d.req_left + Tails(d.rcv) + Tails(k.wire) <= answered
    BY <1>7 DEF Counted
  <2> QED BY <1>3, <2>1, <2>2, <2>3, <2>4
<1>8. CASE cli_reconnect(c, "dispatch", cost) /\ UNCHANGED status
  <2> HIDE DEF c, k
  <2> QED BY <1>0, <1>1, <1>2, <1>3, <1>5, <1>6, <1>7, <1>8, ReconnectKeeps
<1>9. CASE cli' = c /\ conn' = k /\ UNCHANGED <<status, at>> /\ Faults(cost)
  <2> HIDE DEF c, k
  <2>1. Good(cli', conn') /\ Counted(cli', conn', answered')
    BY <1>1, <1>6, <1>9
  <2>2. Refused(cli', conn') => faults' > 0
    <3>1. Refused(cli', conn') => Refused(cli, conn)
      BY <1>6, <1>9 DEF Refused
    <3> QED BY <1>3, <1>4, <1>9, <3>1
  <2>3. Control'
    BY <1>1, <1>2, <1>3, <1>4, <1>6, <1>9, <2>2 DEF Control, Settled
  <2> QED BY <2>1, <2>3 DEF IInv
<1>10. CASE status' = "split" /\ UNCHANGED <<at, cli, conn>> /\ Faults(cost)
  <2>1. Refused(cli', conn') => faults' > 0
    BY <1>3, <1>4, <1>10
  <2>2. Control'
    BY <1>1, <1>2, <1>3, <1>4, <1>10, <2>1 DEF Control, Settled
  <2> QED BY <1>1, <1>10, <2>2, ControlKeeps
<1>11. CASE /\ is_dubbo_pkt(c.rcv)
            /\ \E ok \in BOOLEAN :
                  LET d == cli_decode_resp(c, ok)
                  IN  \/ d.req_left <= 0 /\ cli_end(d) /\ UNCHANGED at /\ Faults(cost)
                      \/ /\ d.req_left > 0 /\ cli' = d /\ at' = "pipe" /\ conn' = k
                         /\ UNCHANGED status /\ Faults(cost)
                      \/ /\ d.req_left > 0 /\ cli_reconnect(d, "dispatch", cost)
                         /\ UNCHANGED status
  <2>1. PICK ok \in BOOLEAN :
           LET d == cli_decode_resp(c, ok)
           IN  \/ d.req_left <= 0 /\ cli_end(d) /\ UNCHANGED at /\ Faults(cost)
               \/ /\ d.req_left > 0 /\ cli' = d /\ at' = "pipe" /\ conn' = k
                  /\ UNCHANGED status /\ Faults(cost)
               \/ d.req_left > 0 /\ cli_reconnect(d, "dispatch", cost) /\ UNCHANGED status
    BY <1>11
  <2> DEFINE d == cli_decode_resp(c, ok)
  <2>2. /\ Good(d, k) /\ Counted(d, k, answered) /\ d.req_left = cli.req_left - 1
        /\ d.connected /\ "R" \in d.mask
    BY <1>1, <1>2, <1>3, <1>11, ReadGood
  <2>3. \/ d.req_left <= 0 /\ cli_end(d) /\ UNCHANGED at /\ Faults(cost)
        \/ /\ d.req_left > 0 /\ cli' = d /\ at' = "pipe" /\ conn' = k
           /\ UNCHANGED status /\ Faults(cost)
        \/ d.req_left > 0 /\ cli_reconnect(d, "dispatch", cost) /\ UNCHANGED status
    BY <2>1
  <2> HIDE DEF c, d, k
  <2>4. /\ d \in CliRec /\ d.req_left <= ReqN /\ d.ok_n <= ReqN - d.req_left
        /\ ReqN - d.req_left <= answered
    BY <1>7, <2>2
  <2>5. CASE d.req_left <= 0 /\ cli_end(d) /\ UNCHANGED at /\ Faults(cost)
    BY <1>1, <1>2, <1>4, <2>4, <2>5, EndKeeps
  <2>6. CASE /\ d.req_left > 0 /\ cli' = d /\ at' = "pipe" /\ conn' = k
             /\ UNCHANGED status /\ Faults(cost)
    <3>1. Good(cli', conn') /\ Counted(cli', conn', answered')
      BY <1>1, <2>2, <2>6
    <3>2. "R" \in cli'.mask
      BY <2>2, <2>6
    <3>3. Refused(cli', conn') => faults' > 0
      <4>1. conn'.state = conn.state /\ (Refused(cli', conn') => Refused(cli, conn))
        BY <1>2, <1>6, <2>6, <3>2 DEF Refused
      <4> QED BY <1>3, <1>4, <2>6, <4>1
    <3>4. Control'
      BY <1>1, <1>2, <1>3, <1>4, <2>6, <3>2, <3>3 DEF Control, Settled
    <3> QED BY <3>1, <3>4 DEF IInv
  <2>7. CASE d.req_left > 0 /\ cli_reconnect(d, "dispatch", cost) /\ UNCHANGED status
    BY <1>0, <1>1, <1>2, <1>5, <2>4, <2>7, ReconnectKeeps
  <2> QED BY <2>3, <2>5, <2>6, <2>7
<1> QED BY <1>1, <1>8, <1>9, <1>10, <1>11

(* A signal.                                                               *)
LEMMA SigKeeps == ASSUME IInv, sig_handler PROVE IInv'
<1>1. /\ cli_end(cli) /\ at' = at /\ fired' = fired /\ answered' = answered /\ faults' = faults
  BY DEF sig_handler
<1>2. fired' \subseteq {"R", "W"} /\ faults' \in 0 .. MaxFaults
  BY <1>1 DEF IInv, Control
<1> QED BY <1>1, <1>2, ClientFacts, EndKeeps
-----------------------------------------------------------------------------
(* A step of the network or the server leaves the control of the client.   *)
LEMMA NetworkControl ==
    ASSUME IInv, UNCHANGED <<status, at, cli, fired>>, answered' \in Nat,
           conn.state # "none", conn'.state # "none", faults' \in 0 .. MaxFaults, faults' >= faults
    PROVE  Control'
<1>1. Refused(cli', conn') => faults' > 0
  <2>1. Refused(cli', conn') => Refused(cli, conn)
    BY DEF Refused
  <2>2. (Refused(cli, conn) => faults > 0) /\ faults \in 0 .. MaxFaults
    BY DEF IInv, Control
  <2> QED BY <2>1, <2>2
<1> QED BY <1>1 DEF IInv, Control, Settled

(* The beginning of a stream.                                              *)
LEMMA NoTwinsFront ==
    ASSUME NEW s \in Seq(Piece), NEW t \in Seq(Piece), NoTwins(s \o t)
    PROVE  NoTwins(s)
<1>1. Len(s) \in Nat /\ Len(t) \in Nat
  BY LenProperties
<1> DEFINE u == s \o t
<1>2. /\ Len(u) = Len(s) + Len(t)
      /\ \A i \in 1 .. Len(s) + Len(t) : u[i] = IF i <= Len(s) THEN s[i] ELSE t[i - Len(s)]
  BY ConcatProperties
<1>3. NoTwins(u)
  OBVIOUS
<1> HIDE DEF u
<1> SUFFICES ASSUME NEW k \in 1 .. Len(s) - 1, s[k] \in HeaderEnds PROVE s[k + 1] \notin HeaderEnds
  BY DEF NoTwins
<1>4. /\ k \in 1 .. Len(u) - 1 /\ k \in 1 .. Len(s) + Len(t) /\ k + 1 \in 1 .. Len(s) + Len(t)
      /\ k <= Len(s) /\ k + 1 <= Len(s)
  BY <1>1, <1>2
<1>5. u[k] = s[k] /\ u[k + 1] = s[k + 1]
  BY <1>2, <1>4
<1> QED BY <1>3, <1>4, <1>5 DEF NoTwins

(* The attempt succeeds, or the server closes its side.                    *)
LEMMA LinkKeeps == ASSUME IInv, Connects \/ ServerCloses PROVE IInv'
<1>1. /\ cli \in CliRec /\ conn \in ConnRec /\ FlagsAgree(cli) /\ Unused(cli) /\ UnsentWatched(cli)
      /\ Balanced(cli, conn) /\ NoTwins(cli.rcv \o conn.wire)
  BY DEF IInv, Good
<1>2. /\ cli' = cli /\ answered' = answered /\ conn.state # "dead"
      /\ UNCHANGED <<status, at, cli, fired>> /\ faults' \in 0 .. MaxFaults /\ faults' >= faults
      /\ conn.state # "none"
  <2>1. faults \in 0 .. MaxFaults /\ MaxFaults \in Nat
    BY PipeNType DEF IInv, Control
  <2> QED BY <2>1 DEF Connects, ServerCloses, Faults
<1>3. \/ conn' = [conn EXCEPT !.state = "up"]
      \/ conn' = [conn EXCEPT !.fin = TRUE]
  BY DEF Connects, ServerCloses
<1>4. /\ conn' \in ConnRec /\ conn'.srv = conn.srv /\ conn'.wire = conn.wire
      /\ conn'.state \in {"up", conn.state}
  BY <1>1, <1>3 DEF ConnRec
<1>5. Balanced(cli', conn')
  BY <1>1, <1>2, <1>4 DEF Balanced, Held
<1>6. Good(cli', conn')
  BY <1>1, <1>2, <1>4, <1>5 DEF Good
<1>7. Counted(cli', conn', answered')
  BY <1>2, <1>4 DEF IInv, Counted
<1>8. Control'
  <2>1. answered' \in Nat
    BY <1>2 DEF IInv, Control
  <2> QED BY <1>2, <1>4, <2>1, NetworkControl
<1> QED BY <1>6, <1>7, <1>8 DEF IInv

(* A request at the server becomes a response on the wire.                 *)
LEMMA AnswersKeeps == ASSUME IInv, Answers \/ AnswersBadly PROVE IInv'
<1>1. /\ cli \in CliRec /\ conn \in ConnRec /\ FlagsAgree(cli) /\ Unused(cli) /\ UnsentWatched(cli)
      /\ Balanced(cli, conn) /\ NoTwins(cli.rcv \o conn.wire)
  BY DEF IInv, Good
<1>2. /\ cli.pipe_left \in Nat /\ cli.snd \in Nat /\ Tails(cli.rcv) \in Nat /\ cli.rcv \in Seq(Piece)
      /\ cli.req_left \in Nat /\ conn.srv \in Nat /\ Tails(conn.wire) \in Nat
      /\ conn.wire \in Seq(Piece) /\ ReqN \in Nat
  BY <1>1, CliFields, ConnFields, PipeNType
<1>3. PICK r \in {Response, BadResponse} :
         /\ conn.srv > 0 /\ conn' = [conn EXCEPT !.srv = @ - 1, !.wire = @ \o r]
         /\ answered' = answered + 1 /\ cli' = cli /\ UNCHANGED <<status, at, cli, fired>>
         /\ (Faults(0) \/ Faults(1)) /\ conn.state = "up"
  BY DEF Answers, AnswersBadly, AnswersWith
<1>4. /\ r \in Seq(Piece) /\ conn.wire \o r \in Seq(Piece)
      /\ Tails(conn.wire \o r) = Tails(conn.wire) + 1
  <2>1. r \in Seq(Piece) /\ Tails(r) = 1
    BY TailsOfResponse
  <2> QED BY <1>2, <2>1, TailsConcat
<1>5. /\ conn' \in ConnRec /\ conn'.srv = conn.srv - 1 /\ conn'.wire = conn.wire \o r
      /\ conn'.state = conn.state
  <2>1. conn.srv - 1 \in Nat
    BY <1>2, <1>3
  <2>2. PICK w \in Seq(Piece) : w = conn.wire \o r
    BY <1>4
  <2>3. conn' = [conn EXCEPT !.srv = @ - 1, !.wire = w]
    BY <1>3, <2>2
  <2> QED BY <1>1, <2>1, <2>2, <2>3 DEF ConnRec
<1>6. Tails(conn'.wire) = Tails(conn.wire) + 1
  BY <1>4, <1>5
<1>7. Balanced(cli', conn')
  <2>1. cli.pipe_left + Held(cli, conn) = cli'.pipe_left + Held(cli', conn')
    <3>1. /\ Held(cli, conn) = cli.snd + conn.srv + Tails(cli.rcv) + Tails(conn.wire)
          /\ Held(cli', conn') = cli.snd + (conn.srv - 1) + Tails(cli.rcv) + (Tails(conn.wire) + 1)
      BY <1>3, <1>5, <1>6 DEF Held
    <3>2. \A s, v, t, w \in Nat : s + (v - 1) + t + (w + 1) = s + v + t + w
      OBVIOUS
    <3>3. Held(cli', conn') = Held(cli, conn)
      <4>1. PICK s \in Nat, v \in Nat, t \in Nat, w \in Nat :
               s = cli.snd /\ v = conn.srv /\ t = Tails(cli.rcv) /\ w = Tails(conn.wire)
        BY <1>2
      <4>2. s + (v - 1) + t + (w + 1) = s + v + t + w
        BY ONLY <3>2, s \in Nat, v \in Nat, t \in Nat, w \in Nat
      <4> QED BY ONLY <3>1, <4>1, <4>2
    <3> QED BY <1>3, <3>3
  <2> QED BY <1>1, <1>5, <2>1 DEF Balanced
<1>8. NoTwins(cli'.rcv \o conn'.wire)
  <2>1. cli.rcv \o conn.wire \in Seq(Piece)
    BY <1>2, TailsConcat
  <2>2. NoTwins((cli.rcv \o conn.wire) \o r)
    BY <1>1, <2>1, AnswerKeepsNoTwins
  <2>3. (cli.rcv \o conn.wire) \o r = cli.rcv \o (conn.wire \o r)
    <3>1. cli.rcv \in Seq(Piece) /\ conn.wire \in Seq(Piece) /\ r \in Seq(Piece)
      BY <1>2, <1>4
    <3> QED BY ONLY <3>1, StreamsAssociate
  <2> QED BY <1>3, <1>5, <2>2, <2>3
<1>9. Good(cli', conn')
  BY <1>1, <1>3, <1>5, <1>7, <1>8 DEF Good
<1>10. answered \in Nat /\ faults' \in 0 .. MaxFaults /\ faults' >= faults
  <2>1. faults \in 0 .. MaxFaults /\ MaxFaults \in Nat /\ answered \in Nat
    BY PipeNType DEF IInv, Control
  <2> QED BY <1>3, <2>1 DEF Faults
<1>11. Counted(cli', conn', answered')
  <2>1. /\ cli.req_left <= ReqN /\ cli.ok_n <= ReqN - cli.req_left
        /\ ReqN - cli.req_left + Tails(cli.rcv) + Tails(conn.wire) <= answered
    BY ClientFacts
  <2>2. \A N, l, t, w, a \in Nat : N - l + t + w <= a => N - l + t + (w + 1) <= a + 1
    OBVIOUS
  <2>3. ReqN - cli.req_left + Tails(cli.rcv) + (Tails(conn.wire) + 1) <= answered + 1
    <3>1. answered \in Nat
      BY <1>10
    <3> QED BY ONLY <1>2, <2>1, <2>2, <3>1
  <2> QED BY <1>3, <1>6, <2>1, <2>3 DEF Counted
<1>12. Control'
  <2>1. answered' \in Nat
    BY <1>3, <1>10
  <2> QED BY <1>3, <1>5, <1>10, <2>1, NetworkControl
<1> QED BY <1>9, <1>11, <1>12 DEF IInv

(* The connection breaks: the requests at the server are lost, and perhaps *)
(* the responses under way.                                                *)
LEMMA BreaksKeeps == ASSUME IInv, Breaks PROVE IInv'
<1>1. /\ cli \in CliRec /\ conn \in ConnRec /\ FlagsAgree(cli) /\ Unused(cli) /\ UnsentWatched(cli)
      /\ Balanced(cli, conn) /\ NoTwins(cli.rcv \o conn.wire)
  BY DEF IInv, Good
<1>2. /\ cli.pipe_left \in Nat /\ cli.snd \in Nat /\ Tails(cli.rcv) \in Nat /\ cli.rcv \in Seq(Piece)
      /\ cli.req_left \in Nat /\ conn.srv \in Nat /\ Tails(conn.wire) \in Nat
      /\ conn.wire \in Seq(Piece) /\ ReqN \in Nat /\ pipe_n \in Nat
  BY <1>1, CliFields, ConnFields, PipeNType
<1>3. PICK w \in {<<>>, conn.wire} : conn' = [conn EXCEPT !.state = "dead", !.srv = 0, !.wire = w]
  BY DEF Breaks
<1>4. /\ cli' = cli /\ answered' = answered /\ UNCHANGED <<status, at, cli, fired>>
      /\ answered \in Nat /\ faults' \in 0 .. MaxFaults /\ faults' >= faults /\ conn.state # "none"
  <2>1. faults \in 0 .. MaxFaults /\ MaxFaults \in Nat /\ answered \in Nat
    BY PipeNType DEF IInv, Control
  <2> QED BY <2>1 DEF Breaks, Faults
<1>5. /\ w \in Seq(Piece) /\ Tails(w) \in Nat /\ Tails(w) <= Tails(conn.wire)
      /\ NoTwins(cli.rcv \o w)
  <2>1. CASE w = conn.wire
    BY <1>1, <1>2, <2>1
  <2>2. CASE w = <<>>
    <3>1. <<>> \in Seq(Piece) /\ Tails(<<>>) = 0
      BY TailsOfFew
    <3>2. cli.rcv \o <<>> = cli.rcv
      BY <1>2, ConcatEmptySeq
    <3>3. NoTwins(cli.rcv)
      BY <1>1, <1>2, NoTwinsFront
    <3> QED BY <1>2, <2>2, <3>1, <3>2, <3>3
  <2> QED BY <2>1, <2>2
<1>6. conn' \in ConnRec /\ conn'.srv = 0 /\ conn'.wire = w /\ conn'.state = "dead"
  BY <1>1, <1>3, <1>5 DEF ConnRec
<1>7. Balanced(cli', conn')
  <2>1. cli.pipe_left + (cli.snd + conn.srv + Tails(cli.rcv) + Tails(conn.wire)) <= pipe_n
    BY <1>1 DEF Balanced, Held
  <2>2. \A p, s, v, t, u, x, N \in Nat :
           p + (s + v + t + u) <= N /\ x <= u => p + (s + 0 + t + x) <= N
    OBVIOUS
  <2>3. cli.pipe_left + (cli.snd + 0 + Tails(cli.rcv) + Tails(w)) <= pipe_n
    <3>1. Tails(w) \in Nat /\ Tails(w) <= Tails(conn.wire)
      BY <1>5
    <3> QED BY ONLY <1>2, <2>1, <2>2, <3>1
  <2> QED BY <1>4, <1>6, <2>3 DEF Balanced, Held
<1>8. Good(cli', conn')
  BY <1>1, <1>4, <1>5, <1>6, <1>7 DEF Good
<1>9. Counted(cli', conn', answered')
  <2>1. /\ cli.req_left <= ReqN /\ cli.ok_n <= ReqN - cli.req_left
        /\ ReqN - cli.req_left + Tails(cli.rcv) + Tails(conn.wire) <= answered
    BY ClientFacts
  <2>2. \A N, l, t, u, x, a \in Nat : N - l + t + u <= a /\ x <= u => N - l + t + x <= a
    OBVIOUS
  <2>3. ReqN - cli.req_left + Tails(cli.rcv) + Tails(w) <= answered
    <3>1. Tails(w) \in Nat /\ Tails(w) <= Tails(conn.wire) /\ answered \in Nat
      BY <1>4, <1>5
    <3> QED BY ONLY <1>2, <2>1, <2>2, <3>1
  <2> QED BY <1>4, <1>6, <2>1, <2>3 DEF Counted
<1>10. Control'
  BY <1>4, <1>6, NetworkControl
<1> QED BY <1>8, <1>9, <1>10 DEF IInv
-----------------------------------------------------------------------------
(* cli_create leaves a closed client with everything to do.                *)
LEMMA InitIInv == Init => IInv
<1> SUFFICES ASSUME Init PROVE IInv
  OBVIOUS
<1> DEFINE b == [connected |-> FALSE, timer |-> FALSE, fd |-> "none", pipe_left |-> PipeN,
                 rcv |-> <<>>, snd |-> 0, req_left |-> ReqN, ok_n |-> 0,
                 mask |-> {}, wproc |-> "cli_on_connect"]
<1>1. /\ status = "start" /\ at = "poll" /\ cli = cli_reset(b) /\ fired = {} /\ conn = NoConn
      /\ answered = 0 /\ faults = 0
  BY DEF Init, cli_create
<1>2. <<>> \in Seq(Piece) /\ Tails(<<>>) = 0
  BY TailsOfFew
<1>3. ReqN \in Nat \ {0} /\ pipe_n \in Nat /\ PipeN \in Nat /\ MaxFaults \in Nat
  BY PipeNType, ClientAssumption
<1>4. cli = [connected |-> FALSE, timer |-> FALSE, fd |-> "none", pipe_left |-> pipe_n,
             rcv |-> <<>>, snd |-> 0, req_left |-> ReqN, ok_n |-> 0,
             mask |-> {}, wproc |-> "cli_on_connect"]
  BY <1>1 DEF cli_reset
<1> HIDE DEF b
<1>5. /\ cli \in CliRec /\ cli.connected = FALSE /\ cli.timer = FALSE /\ cli.fd = "none"
      /\ cli.mask = {} /\ cli.pipe_left = pipe_n /\ cli.rcv = <<>> /\ cli.snd = 0
      /\ cli.req_left = ReqN /\ cli.ok_n = 0
  BY <1>2, <1>3, <1>4 DEF CliRec
<1>6. conn \in ConnRec /\ conn.srv = 0 /\ conn.wire = <<>>
  BY <1>1, <1>2 DEF NoConn, ConnRec
<1>7. Good(cli, conn)
  <2>1. FlagsAgree(cli)
    BY <1>5 DEF FlagsAgree
  <2> QED BY <1>5, <1>6, <2>1, FreshGood
<1>8. Counted(cli, conn, answered)
  BY <1>1, <1>2, <1>3, <1>5, <1>6 DEF Counted
<1>9. Closed(cli)
  BY <1>5 DEF Closed
<1>10. Control
  BY <1>1, <1>3, <1>5, <1>9 DEF Control, Settled, Refused
<1> QED BY <1>7, <1>8, <1>10 DEF IInv

(* Every step keeps the invariant.                                         *)
LEMMA StepIInv == IInv /\ [Next]_vars => IInv'
<1> SUFFICES ASSUME IInv, [Next]_vars PROVE IInv'
  OBVIOUS
<1>1. CASE cli_start
  BY <1>1, StartKeeps
<1>2. CASE PipeSends
  BY <1>2, PipeSendsKeeps
<1>3. CASE PipeEnds \/ aeApiPoll \/ Skips \/ TimersDone
  BY <1>3, LoopKeeps
<1>4. CASE AssertFails
  BY <1>4, AssertFailsKeeps
<1>5. CASE ReadFails
  BY <1>5, ReadFailsKeeps
<1>6. CASE \E n \in 1 .. Len(conn.wire) : cli_on_read(n)
  BY <1>6, OnReadKeeps
<1>7. CASE cli_on_connect
  BY <1>7, OnConnectKeeps
<1>8. CASE cli_on_write
  BY <1>8, OnWriteKeeps
<1>9. CASE cli_connect_timeout
  BY <1>9, TimeoutKeeps
<1>10. CASE sig_handler
  BY <1>10, SigKeeps
<1>11. CASE Connects \/ ServerCloses
  BY <1>11, LinkKeeps
<1>12. CASE Answers \/ AnswersBadly
  BY <1>12, AnswersKeeps
<1>13. CASE Breaks
  BY <1>13, BreaksKeeps
<1>14. CASE UNCHANGED vars
  <2>1. Control'
    BY <1>14 DEF vars, IInv, Control, Settled, Refused
  <2> QED BY <1>14, <2>1, ControlKeeps DEF vars
<1> QED BY <1>1, <1>2, <1>3, <1>4, <1>5, <1>6, <1>7, <1>8, <1>9, <1>10, <1>11, <1>12, <1>13, <1>14
        DEF Next, LoopStep, Callback, Rests

(* What the invariant says of the properties.                              *)
LEMMA IInvGives ==
    IInv => PipelineFull /\ UnsentIsWatched /\ FlagAndEventsAgree /\ CountsRealResponses
<1> SUFFICES ASSUME IInv
             PROVE  PipelineFull /\ UnsentIsWatched /\ FlagAndEventsAgree /\ CountsRealResponses
  OBVIOUS
<1>1. /\ cli \in CliRec /\ conn \in ConnRec /\ FlagsAgree(cli) /\ Unused(cli) /\ UnsentWatched(cli)
      /\ Balanced(cli, conn)
  BY DEF IInv, Good
<1>2. /\ cli.connected \in BOOLEAN /\ cli.timer \in BOOLEAN /\ cli.fd \in {"none", "closed", "open"}
      /\ cli.pipe_left \in Nat /\ cli.rcv \in Seq(Piece) /\ cli.snd \in Nat /\ cli.req_left \in Nat
      /\ cli.ok_n \in Nat /\ cli.mask \subseteq {"R", "W"} /\ Tails(cli.rcv) \in Nat
      /\ cli.wproc \in {"cli_on_connect", "cli_on_write"}
  BY <1>1, CliFields
<1>3. /\ conn.state \in {"none", "connecting", "up", "dead"} /\ conn.srv \in Nat
      /\ conn.wire \in Seq(Piece) /\ conn.fin \in BOOLEAN /\ Tails(conn.wire) \in Nat
  BY <1>1, ConnFields
<1>4. pipe_n \in Nat /\ ReqN \in Nat
  BY PipeNType
<1>5. cli.pipe_left \in 0 .. pipe_n /\ cli.snd \in 0 .. pipe_n /\ conn.srv \in 0 .. pipe_n
  <2>1. cli.pipe_left + (cli.snd + conn.srv + Tails(cli.rcv) + Tails(conn.wire)) <= pipe_n
    BY <1>1 DEF Balanced, Held
  <2>2. \A p, s, v, t, w, N \in Nat : p + (s + v + t + w) <= N => p <= N /\ s <= N /\ v <= N
    OBVIOUS
  <2>3. cli.pipe_left <= pipe_n /\ cli.snd <= pipe_n /\ conn.srv <= pipe_n
    BY ONLY <1>2, <1>3, <1>4, <2>1, <2>2
  <2> QED BY <1>2, <1>3, <1>4, <2>3
<1>6. cli.req_left \in 0 .. ReqN /\ cli.ok_n \in 0 .. ReqN
  BY <1>2, <1>4, ClientFacts
<1>7. cli \in [connected : BOOLEAN, timer : BOOLEAN, fd : {"none", "closed", "open"},
               pipe_left : 0 .. pipe_n, rcv : Seq(Piece), snd : 0 .. pipe_n,
               req_left : 0 .. ReqN, ok_n : 0 .. ReqN,
               mask : SUBSET {"R", "W"}, wproc : {"cli_on_connect", "cli_on_write"}]
  BY <1>1, <1>5, <1>6 DEF CliRec
<1>8. conn \in [state : {"none", "connecting", "up", "dead"}, srv : 0 .. pipe_n,
                wire : Seq(Piece), fin : BOOLEAN]
  BY <1>1, <1>5 DEF ConnRec
<1>9. TypeOK
  BY <1>7, <1>8 DEF TypeOK, Piece, IInv, Control
<1>10. ASSUME Settled, cli.connected, ~Deaf, conn.state # "dead"
       PROVE  cli.pipe_left = 0 /\ cli.snd + conn.srv + Unread = pipe_n
  <2>0. "R" \in cli.mask
    BY <1>1, <1>10 DEF FlagsAgree, Deaf
  <2>1. cli.pipe_left = 0
    BY <1>10, <2>0 DEF IInv, Control
  <2>2. Unread = Tails(cli.rcv) + Tails(conn.wire)
    BY <1>2, <1>3, TailsConcat DEF Unread
  <2>3. cli.pipe_left + (cli.snd + conn.srv + Tails(cli.rcv) + Tails(conn.wire)) = pipe_n
    BY <1>1, <1>10 DEF Balanced, Held
  <2>4. \A s, v, t, w \in Nat : 0 + (s + v + t + w) = s + v + (t + w)
    OBVIOUS
  <2>5. cli.snd + conn.srv + (Tails(cli.rcv) + Tails(conn.wire)) = pipe_n
    BY ONLY <1>2, <1>3, <2>1, <2>3, <2>4
  <2> QED BY <2>1, <2>2, <2>5
<1>11. UnsentIsWatched
  BY <1>1 DEF UnsentIsWatched, UnsentWatched
<1>12. FlagAndEventsAgree
  <2>1. Deaf => faults > 0
    BY DEF Deaf, Refused, IInv, Control
  <2> QED BY <1>1, <2>1 DEF FlagAndEventsAgree, FlagsAgree, Deaf
<1>13. CountsRealResponses
  BY ClientFacts DEF CountsRealResponses
<1>14. ASSUME Deaf PROVE cli.pipe_left = pipe_n /\ cli.snd + conn.srv + Unread = 0
  <2>1. cli.pipe_left = pipe_n
    BY <1>1, <1>14 DEF Unused, Deaf
  <2>2. Unread = Tails(cli.rcv) + Tails(conn.wire)
    BY <1>2, <1>3, TailsConcat DEF Unread
  <2>3. cli.pipe_left + (cli.snd + conn.srv + Tails(cli.rcv) + Tails(conn.wire)) <= pipe_n
    BY <1>1 DEF Balanced, Held
  <2>4. \A s, v, t, w, N \in Nat : N + (s + v + t + w) <= N => s + v + (t + w) = 0
    OBVIOUS
  <2>5. cli.snd + conn.srv + (Tails(cli.rcv) + Tails(conn.wire)) = 0
    BY ONLY <1>2, <1>3, <1>4, <2>1, <2>3, <2>4
  <2> QED BY <2>1, <2>2, <2>5
<1> QED BY <1>9, <1>10, <1>11, <1>12, <1>13, <1>14 DEF PipelineFull

(* The invariant holds throughout.                                         *)
LEMMA Invariance == Spec => []IInv
BY InitIInv, StepIInv, PTL DEF Spec

(* Between callbacks the pipeline of a connected client is full: pipe_left *)
(* is spent and exactly pipe_n requests are buffered, at the server or     *)
(* answered and not yet read, and no counter leaves its range, for every   *)
(* number of requests, every depth of the pipeline, whatever call of the   *)
(* system or the loop fails, and however often cli_pipe_send is            *)
(* interrupted by a reconnection.  Only a client whose read event was      *)
(* refused in cli_connected is connected and has sent nothing.             *)
THEOREM ClientPipelineFull == Spec => []PipelineFull
BY Invariance, IInvGives, PTL

(* Requests left in snd_buf are watched for by cli_on_write, which is      *)
(* registered only then: cli_write neither stalls nor spins.               *)
THEOREM ClientUnsentIsWatched == Spec => []UnsentIsWatched
BY Invariance, IInvGives, PTL

(* The read event is registered exactly while `connected' is set, but for  *)
(* a client whose read event was refused, which has no event at all, and   *)
(* the connect timer runs exactly while an attempt is open.                *)
THEOREM ClientFlagAndEventsAgree == Spec => []FlagAndEventsAgree
BY Invariance, IInvGives, PTL

(* cli_decode_resp counts no response twice and none that was not sent,    *)
(* whatever pieces read() delivers, also when a response without its body  *)
(* ends the program or one of an invalid size stays in rcv_buf, and        *)
(* however often the client reconnects.                                    *)
THEOREM ClientCountsRealResponses == Spec => []CountsRealResponses
BY Invariance, IInvGives, PTL
=============================================================================
