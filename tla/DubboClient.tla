---------------------------- MODULE DubboClient -----------------------------
(***************************************************************************)
(* The pipelining Dubbo client of dubbo_client/dubbo_client.c on the event *)
(* loop of 3rd/ae, with the kernel's socket and the server around it.      *)
(*                                                                         *)
(* One thread runs everything.  A round of aeMain polls, dispatches the    *)
(* read event and then the write event of the mask that poll returned, and *)
(* fires the timer.  A callback is one step, except that every turn of the *)
(* loop in cli_pipe_send is a step of its own (at = "pipe"): each turn may *)
(* fail, reconnect and even run a nested cli_pipe_send, which leaves       *)
(* pipe_left at 0, so that the outer loop ends right after it and needs no *)
(* stack.  The network and the server move between any two steps.          *)
(*                                                                         *)
(* A request is a unit that counts as sent with its last byte.  A response *)
(* is three pieces, two of the header and one for the body, and read takes *)
(* any number of pieces, as TCP may deliver them.  The header ends with    *)
(* the size of the body: "tail" if the size is valid, "big" if it is not.  *)
(*                                                                         *)
(* Every call the client makes of the system and of the loop may fail:     *)
(* socket, connect, write, aeCreateFileEvent and aeCreateTimeEvent.  A     *)
(* failure nobody has to expect takes one of MaxFaults faults.             *)
(***************************************************************************)
EXTENDS Integers, Sequences, FiniteSets

CONSTANTS ReqN, PipeN,    \* struct dubbo_async_args: req_n, pipe_n
          MaxFaults       \* bound: faults of system, network and server in a behaviour

ASSUME ClientAssumption ==
    ReqN \in Nat \ {0} /\ PipeN \in Nat \ {0} /\ MaxFaults \in Nat

VARIABLES status,     \* "start", "running", "ended", or killed by an assertion:
                      \* "aborted" in a callback, "split" in buf_retrieve
          at,         \* "poll", "dispatch": in aeMain; "pipe": in cli_pipe_send
          cli,        \* struct dubbo_client and the event and timer it registered
          fired,      \* what aeApiPoll reported and is not dispatched yet
          conn,       \* the connection behind cli->fd
          answered,   \* responses the server has sent
          faults

vars == <<status, at, cli, fired, conn, answered, faults>>

HeaderEnds == {"tail", "big"}

Response == <<"head", "tail", "body">>

\* A response whose header gives a body size of 0 or above DUBBO_MAX_PKT_SZ.
BadResponse == <<"head", "big", "body">>

\* cli_create: no more requests in flight than requests.
pipe_n == IF PipeN > ReqN THEN ReqN ELSE PipeN

NoConn == [state |-> "none", srv |-> 0, wire |-> <<>>, fin |-> FALSE]

\* cli_reset without the reset of pipe_left.
MutantKeepsPipeLeft(c) ==
    [c EXCEPT !.connected = FALSE, !.timer = FALSE, !.fd = "none", !.rcv = <<>>, !.snd = 0]

cli_reset(c) ==
    [c EXCEPT !.connected = FALSE, !.timer = FALSE, !.fd = "none", !.pipe_left = pipe_n,
              !.rcv = <<>>, !.snd = 0]

cli_create ==
    cli_reset([connected |-> FALSE, timer |-> FALSE, fd |-> "none", pipe_left |-> PipeN,
               rcv |-> <<>>, snd |-> 0, req_left |-> ReqN, ok_n |-> 0,
               mask |-> {}, wproc |-> "cli_on_connect"])

Init ==
    /\ status = "start" /\ at = "poll"
    /\ cli = cli_create
    /\ fired = {}
    /\ conn = NoConn
    /\ answered = 0 /\ faults = 0
-----------------------------------------------------------------------------
\* A step that takes n faults to happen.
Faults(n) == faults + n <= MaxFaults /\ faults' = faults + n

\* aeCreateFileEvent(AE_WRITABLE, proc), aeDeleteFileEvent(AE_WRITABLE).
WatchWrite(c, proc) == [c EXCEPT !.mask = @ \cup {"W"}, !.wproc = proc]
UnwatchWrite(c) == [c EXCEPT !.mask = @ \ {"W"}]

\* cli_connected without cli_clear_timer.
MutantKeepsTimer(c, watched) ==
    [c EXCEPT !.connected = TRUE, !.mask = IF watched THEN @ \cup {"R"} ELSE @]

(* cli_connected up to its call of cli_pipe_send, which it makes only if   *)
(* aeCreateFileEvent has registered the read event.                        *)
cli_connected(c, watched) ==
    [c EXCEPT !.connected = TRUE, !.timer = FALSE, !.mask = IF watched THEN @ \cup {"R"} ELSE @]

cli_close(c) == cli_reset([c EXCEPT !.mask = {}])

(* cli_connect on a closed client, from a caller that goes on at `back'.   *)
(* What the label close leaves: the fd is closed and cli->fd names it      *)
(* still, `connected' may be set, and the write event stays in the loop's  *)
(* table, for an fd that the kernel has forgotten.                         *)
cli_connect(c, back, n) ==
    \/ /\ Faults(n + 1)                         \* socket() fails
       /\ cli' = c /\ conn' = NoConn /\ at' = back
    \/ /\ Faults(n + 1)
       /\ \/ cli' = [c EXCEPT !.fd = "closed"]  \* connect() or aeCreateFileEvent fails
          \/ cli' = [WatchWrite(c, "cli_on_connect") EXCEPT !.fd = "closed"] \* aeCreateTimeEvent
          \/ cli' = cli_connected([c EXCEPT !.fd = "closed"], FALSE)
       /\ conn' = NoConn /\ at' = back
    \/ /\ Faults(n)                             \* EINPROGRESS
       /\ cli' = [WatchWrite(c, "cli_on_connect") EXCEPT !.fd = "open", !.timer = TRUE]
       /\ conn' = [NoConn EXCEPT !.state = "connecting"]
       /\ at' = back
    \/ /\ Faults(n)
       /\ cli' = cli_connected([c EXCEPT !.fd = "open"], TRUE)
       /\ conn' = [NoConn EXCEPT !.state = "up"]
       /\ at' = "pipe"

cli_reconnect(c, back, n) == cli_connect(cli_close(c), back, n)

\* cli_end: everything is closed and freed, and aeStop ends aeMain.
cli_end(c) ==
    /\ cli' = cli_close(c)
    /\ conn' = NoConn
    /\ status' = "ended"

\* dubbo_bench_async, and main: without a first connection it gives up.
cli_start ==
    /\ status = "start"
    /\ cli_connect(cli, "poll", 0)
    /\ status' = IF cli'.fd = "open" THEN "running" ELSE "ended"
    /\ UNCHANGED <<fired, answered>>
-----------------------------------------------------------------------------
\* Writes without the write event for the rest.
MutantForgetsRest(c, k) ==
    /\ cli' = UnwatchWrite([c EXCEPT !.snd = @ - k])
    /\ conn' = [conn EXCEPT !.srv = @ + k]

\* cli_write with k of the requests in snd_buf accepted by write().
Writes(c, k) ==
    /\ cli' = LET s == [c EXCEPT !.snd = @ - k]
              IN  IF s.snd = 0 THEN UnwatchWrite(s) ELSE WatchWrite(s, "cli_on_write")
    /\ conn' = [conn EXCEPT !.srv = @ + k]

(* cli_write and, where it returns false, the cli_reconnect of its callers. *)
(* A socket that is still connecting takes nothing: EAGAIN.  After EAGAIN  *)
(* aeCreateFileEvent may fail.                                             *)
cli_write(c, back) ==
    \/ /\ conn.state = "up" \/ c.snd = 0
       /\ Writes(c, c.snd) /\ at' = back /\ Faults(0)
    \/ /\ conn.state = "up"
       /\ \E k \in 0 .. c.snd - 1 : Writes(c, k)
       /\ at' = back /\ Faults(1)
    \/ /\ conn.state = "connecting"
       /\ Writes(c, 0) /\ at' = back /\ Faults(0)
    \/ /\ c.snd > 0
       /\ cli_reconnect(c, back, CASE conn.state = "up" -> 2
                                  [] conn.state = "connecting" -> 1
                                  [] OTHER -> 0)

\* One turn of cli_pipe_send: cli_send_req.
PipeSends ==
    /\ status = "running" /\ at = "pipe"
    /\ cli.pipe_left # 0
    /\ cli_write([cli EXCEPT !.pipe_left = @ - 1, !.snd = @ + 1], "pipe")
    /\ UNCHANGED <<status, fired, answered>>

\* pipe_left-- yields 0 and ends the loop, pipe_left++ restores it.
PipeEnds ==
    /\ status = "running" /\ at = "pipe"
    /\ cli.pipe_left = 0
    /\ at' = "dispatch"
    /\ UNCHANGED <<status, cli, fired, conn, answered, faults>>
-----------------------------------------------------------------------------
\* epoll_wait and aeApiPoll: errors and hangups count as writable.
Ready == {e \in {"R", "W"} :
             \/ e = "R" /\ e \in cli.mask /\ (conn.wire # <<>> \/ conn.fin \/ conn.state = "dead")
             \/ e = "W" /\ e \in cli.mask /\ conn.state = "up"
             \/ e = "W" /\ cli.mask # {} /\ conn.state = "dead"}

aeApiPoll ==
    /\ status = "running" /\ at = "poll"
    /\ Ready # {}
    /\ fired' = Ready
    /\ at' = "dispatch"
    /\ UNCHANGED <<status, cli, conn, answered, faults>>

Dispatching == status = "running" /\ at = "dispatch"

\* An event that fired and is registered no more is skipped.
Skips ==
    /\ Dispatching /\ fired # {}
    /\ LET e == IF "R" \in fired THEN "R" ELSE "W"
       IN  e \notin cli.mask /\ fired' = fired \ {e}
    /\ UNCHANGED <<status, at, cli, conn, answered, faults>>

DispatchRead == Dispatching /\ "R" \in fired /\ "R" \in cli.mask /\ fired' = fired \ {"R"}

DispatchWrite(proc) ==
    /\ Dispatching /\ fired = {"W"} /\ "W" \in cli.mask /\ cli.wproc = proc
    /\ fired' = {}

\* cli_on_read, cli_on_write: assert(cli->connected) fails.
AssertFails ==
    /\ DispatchRead \/ DispatchWrite("cli_on_write")
    /\ ~cli.connected
    /\ status' = "aborted"
    /\ UNCHANGED <<at, cli, conn, answered, faults>>

\* A whole header with its magic.
is_dubbo_pkt(b) == Len(b) >= 2 /\ b[1] = "head" /\ b[2] \in HeaderEnds

\* The test looks at the size of the body, not for the body.
is_completed_dubbo_pkt(b) == is_dubbo_pkt(b) /\ b[2] = "tail"

\* dubbo_decode if it left the response in the buffer.
MutantPeeks(b) == b

\* dubbo_decode takes the header and the body.
dubbo_decode(b) == SubSeq(b, 4, Len(b))

\* cli_decode_resp without pipe_left++.
MutantLosesPlace(c, ok) ==
    [c EXCEPT !.req_left = @ - 1, !.rcv = dubbo_decode(c.rcv),
              !.ok_n = IF ok THEN @ + 1 ELSE @]

\* The client after a response was counted and decoded, successfully or not.
cli_decode_resp(c, ok) ==
    [c EXCEPT !.pipe_left = @ + 1, !.req_left = @ - 1, !.rcv = dubbo_decode(c.rcv),
              !.ok_n = IF ok THEN @ + 1 ELSE @]

(* cli_on_read, read() failing or at the end of the stream.  buf_readFd    *)
(* does not report EINTR and EAGAIN as such, so every failure reconnects.  *)
ReadFails ==
    /\ DispatchRead
    /\ cli.connected
    /\ conn.wire = <<>>
    /\ cli_reconnect(cli, "dispatch", 0)
    /\ UNCHANGED <<status, answered>>

(* cli_on_read once n pieces have been read: all there are or, as a fault, *)
(* not all of them.  A header with an invalid size stays in rcv_buf.  A    *)
(* body that is not all there fails the assertion of buf_retrieve in       *)
(* dubbo_decode, unless the header is refused first.                       *)
cli_on_read(n) ==
    LET c    == [cli EXCEPT !.rcv = @ \o SubSeq(conn.wire, 1, n)]
        cost == IF n < Len(conn.wire) THEN 1 ELSE 0
    IN  /\ DispatchRead
        /\ cli.connected
        /\ \/ /\ ~is_dubbo_pkt(c.rcv)
              /\ cli_reconnect(c, "dispatch", cost)
              /\ UNCHANGED status
           \/ /\ is_dubbo_pkt(c.rcv) /\ ~is_completed_dubbo_pkt(c.rcv)
              /\ cli' = c
              /\ conn' = [conn EXCEPT !.wire = SubSeq(@, n + 1, Len(@))]
              /\ UNCHANGED <<status, at>> /\ Faults(cost)
           \/ /\ is_completed_dubbo_pkt(c.rcv) /\ Len(c.rcv) < 3
              /\ status' = "split"
              /\ UNCHANGED <<at, cli, conn>> /\ Faults(cost)
           \/ /\ is_completed_dubbo_pkt(c.rcv)
              /\ \E ok \in {o \in BOOLEAN : o => Len(c.rcv) >= 3} :
                    LET d == cli_decode_resp(c, ok)
                    IN  \/ /\ d.req_left <= 0
                           /\ cli_end(d)
                           /\ UNCHANGED at /\ Faults(cost)
                        \/ /\ d.req_left > 0 /\ ok
                           /\ cli' = d /\ at' = "pipe"
                           /\ conn' = [conn EXCEPT !.wire = SubSeq(@, n + 1, Len(@))]
                           /\ UNCHANGED status /\ Faults(cost)
                        \/ /\ d.req_left > 0 /\ ~ok
                           /\ cli_reconnect(d, "dispatch", cost)
                           /\ UNCHANGED status
        /\ UNCHANGED answered

(* cli_on_connect takes a writable socket for a connected one, and ignores *)
(* what cli_connected returns.  A closed fd cannot be registered.          *)
cli_on_connect ==
    /\ DispatchWrite("cli_on_connect")
    /\ \/ /\ conn.state # "none"
          /\ cli' = cli_connected(UnwatchWrite(cli), TRUE)
          /\ at' = "pipe" /\ Faults(0)
       \/ /\ cli' = cli_connected(UnwatchWrite(cli), FALSE)
          /\ at' = "dispatch" /\ Faults(IF conn.state = "none" THEN 0 ELSE 1)
    /\ UNCHANGED <<status, conn, answered>>

cli_on_write ==
    /\ DispatchWrite("cli_on_write")
    /\ cli.connected
    /\ cli_write(cli, "dispatch")
    /\ UNCHANGED <<status, answered>>

\* processTimeEvents with no timer due: the next round.
TimersDone ==
    /\ Dispatching /\ fired = {}
    /\ at' = "poll"
    /\ UNCHANGED <<status, cli, fired, conn, answered, faults>>

(* The timer is due, at the end of a round or because nothing else ended   *)
(* the poll.  It takes a fault while the connection could still be made.   *)
cli_connect_timeout ==
    /\ status = "running" /\ fired = {} /\ cli.timer
    /\ at = "dispatch" \/ (at = "poll" /\ Ready = {})
    /\ cli_reconnect(cli, "poll", IF conn.state = "connecting" \/ Ready # {} THEN 1 ELSE 0)
    /\ UNCHANGED <<status, fired, answered>>

\* SIGINT or SIGTERM at any moment: cli_end, then exit.
sig_handler ==
    /\ status = "running"
    /\ cli_end(cli)
    /\ UNCHANGED <<at, fired, answered, faults>>
-----------------------------------------------------------------------------
\* The network and the server.
Connects ==
    /\ conn.state = "connecting"
    /\ conn' = [conn EXCEPT !.state = "up"]
    /\ UNCHANGED <<status, at, cli, fired, answered, faults>>

AnswersWith(r) ==
    /\ conn.state = "up" /\ ~conn.fin /\ conn.srv > 0
    /\ conn' = [conn EXCEPT !.srv = @ - 1, !.wire = @ \o r]
    /\ answered' = answered + 1
    /\ UNCHANGED <<status, at, cli, fired>>

Answers == AnswersWith(Response) /\ Faults(0)

AnswersBadly == AnswersWith(BadResponse) /\ Faults(1)

\* The server closes after its last response.
ServerCloses ==
    /\ conn.state = "up" /\ ~conn.fin
    /\ conn' = [conn EXCEPT !.fin = TRUE]
    /\ Faults(1)
    /\ UNCHANGED <<status, at, cli, fired, answered>>

\* A refused connection, or a reset that may spare what arrived before it.
Breaks ==
    /\ conn.state \in {"connecting", "up"}
    /\ \E w \in {<<>>, conn.wire} : conn' = [conn EXCEPT !.state = "dead", !.srv = 0, !.wire = w]
    /\ Faults(1)
    /\ UNCHANGED <<status, at, cli, fired, answered>>

(* A reconnection that fails outside cli_pipe_send, or a read event that   *)
(* was refused, leaves nothing to wait for: epoll_wait sleeps for ever.    *)
Hung == /\ status = "running" /\ at = "poll" /\ ~cli.timer
        /\ cli.mask = {} \/ conn.state = "none"

Over == status \in {"ended", "aborted", "split"}

Rests == (Hung \/ Over) /\ UNCHANGED vars

Callback == \/ AssertFails \/ ReadFails \/ cli_on_connect \/ cli_on_write
            \/ \E n \in 1 .. Len(conn.wire) : cli_on_read(n)

LoopStep == \/ cli_start \/ PipeSends \/ PipeEnds \/ aeApiPoll \/ Skips \/ Callback
            \/ TimersDone \/ cli_connect_timeout

Next == \/ LoopStep \/ sig_handler
        \/ Connects \/ Answers \/ AnswersBadly \/ ServerCloses \/ Breaks \/ Rests

Spec == Init /\ [][Next]_vars

(* The thread runs, a connection attempt is decided, and a server that is  *)
(* there answers.  Nothing forces faults or signals.                       *)
FairSpec == Spec /\ WF_vars(LoopStep) /\ WF_vars(Connects) /\ WF_vars(Answers)
-----------------------------------------------------------------------------
\* The type invariant.
TypeOK ==
    /\ status \in {"start", "running", "ended", "aborted", "split"}
    /\ at \in {"poll", "dispatch", "pipe"}
    /\ cli \in [connected : BOOLEAN, timer : BOOLEAN, fd : {"none", "closed", "open"},
                pipe_left : 0 .. pipe_n, rcv : Seq({"head", "tail", "big", "body"}), snd : 0 .. pipe_n,
                req_left : 0 .. ReqN, ok_n : 0 .. ReqN,
                mask : SUBSET {"R", "W"}, wproc : {"cli_on_connect", "cli_on_write"}]
    /\ fired \subseteq {"R", "W"}
    /\ conn \in [state : {"none", "connecting", "up", "dead"}, srv : 0 .. pipe_n,
                 wire : Seq({"head", "tail", "big", "body"}), fin : BOOLEAN]
    /\ answered \in Nat
    /\ faults \in 0 .. MaxFaults

Settled == status = "running" /\ at # "pipe"

\* The responses whose header ends among the pieces s.
Tails(s) == Cardinality({k \in DOMAIN s : s[k] \in HeaderEnds})

\* The responses whose header has not been taken for one yet.
Unread == Tails(cli.rcv \o conn.wire)

(* What a refused read event makes of a client: `connected' is set and no  *)
(* event is registered.                                                    *)
Deaf == cli.connected /\ cli.mask = {}

(* The pipeline is always full: between callbacks a client that takes      *)
(* itself for connected has spent pipe_left and has exactly pipe_n         *)
(* requests under way, buffered, at the server or answered and not yet     *)
(* read, also after reconnections from inside cli_pipe_send; no counter    *)
(* ever leaves its range.  A client whose read event was refused has sent  *)
(* nothing, for dubbo_client.c:368 does not look at what cli_connected     *)
(* returns.                                                                *)
PipelineFull ==
    /\ TypeOK
    /\ Settled /\ cli.connected /\ ~Deaf /\ conn.state # "dead" =>
        cli.pipe_left = 0 /\ cli.snd + conn.srv + Unread = pipe_n
    /\ Settled /\ Deaf => cli.pipe_left = pipe_n /\ cli.snd + conn.srv + Unread = 0

(* Requests left in snd_buf are watched for a chance to send them, and     *)
(* cli_on_write is registered only then: no stall and no busy loop.        *)
UnsentIsWatched ==
    Settled => (cli.snd > 0 <=> "W" \in cli.mask /\ cli.wproc = "cli_on_write")

(* The read event is registered only while `connected' is set, which is    *)
(* what cli_on_read asserts, and always then, but for a client whose read  *)
(* event was refused, which is left with no event at all; and the connect  *)
(* timer runs exactly while a connection attempt is open.                  *)
FlagAndEventsAgree ==
    Settled => /\ cli.connected <=> "R" \in cli.mask \/ Deaf
               /\ Deaf => faults > 0
               /\ cli.timer <=> cli.fd = "open" /\ ~cli.connected

(* Only responses the server sent are counted, none twice: not across      *)
(* partial reads, responses read together, and reconnections.              *)
CountsRealResponses == ReqN - cli.req_left <= answered

\* A header with an invalid size is at the front of rcv_buf, and stays there.
Stuck == is_dubbo_pkt(cli.rcv) /\ ~is_completed_dubbo_pkt(cli.rcv)

(* The benchmark ends, although responses read together wait in rcv_buf    *)
(* for the next read event, unless an assertion, a failed reconnection or  *)
(* a refused read event stops it, or a response with an invalid size stays *)
(* at the front of rcv_buf for ever.                                       *)
Completes == <>(Over \/ Hung) \/ <>[]Stuck

(* What assert(cli->connected) in cli_on_write says: the callback is never *)
(* called on a client that is not connected.                               *)
AssertionsHold == status # "aborted"
=============================================================================
