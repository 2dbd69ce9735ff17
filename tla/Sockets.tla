------------------------------ MODULE Sockets -------------------------------
(***************************************************************************)
(* Opening a blocking socket (net/socket.c).  The addresses that           *)
(* getaddrinfo finds are a sequence, empty when it fails.  Of an address   *)
(* matters whether a socket of its family can be made, its options set,    *)
(* the address bound and a server reached there.                           *)
(***************************************************************************)
EXTENDS Integers, Sequences, FiniteSetsExt

Address == [family : {"inet", "inet6"}, socket : BOOLEAN, option : BOOLEAN,
            bind : BOOLEAN, reach : BOOLEAN]

\* The loop leaves or returns at the first address that does not `continue'.
Stops(a, isServer) == a.socket /\ (~a.option \/ ~isServer \/ a.bind)
Stopping(addrs, isServer) == {k \in DOMAIN addrs : Stops(addrs[k], isServer)}

\* The sockets that the loop made before address k, and that nobody closes.
Forgotten(addrs, k) == Cardinality({n \in 1 .. k - 1 : addrs[n].socket})

\* The socket is made for address k, but connected to the first one.
Connects(addrs, k) == addrs[1].reach /\ addrs[1].family = addrs[k].family

\* What a constructor leaves: whether it returns a socket, and the number of
\* sockets open.
Opened(forgotten) == [ok |-> TRUE, open |-> 1 + forgotten]
Refused(forgotten) == [ok |-> FALSE, open |-> forgotten]

\* The end of socket_ctor with the socket of address k.
Bound(addrs, k) == Opened(Forgotten(addrs, k))
MutantStaysOpen(addrs, k) ==
    IF Connects(addrs, k) THEN Opened(0) ELSE Refused(1)
Connected(addrs, k) == IF Connects(addrs, k) THEN Opened(0) ELSE Refused(0)

\* When no address was usable, the last socket made is closed if the last
\* address had one.
NoneUsable(addrs) ==
    Refused(IF addrs # <<>> /\ addrs[Len(addrs)].socket THEN Forgotten(addrs, Len(addrs))
            ELSE Forgotten(addrs, Len(addrs) + 1))

socket_ctor(addrs, isServer) ==
    IF Stopping(addrs, isServer) = {} THEN NoneUsable(addrs)
    ELSE LET k == Min(Stopping(addrs, isServer))
         IN  CASE ~addrs[k].option -> Refused(Forgotten(addrs, k))
               [] addrs[k].option /\ isServer -> Bound(addrs, k)
               [] OTHER -> Connected(addrs, k)

socket_clientSync(addrs) == socket_ctor(addrs, FALSE)
socket_serverSync(addrs) == socket_ctor(addrs, TRUE)
=============================================================================
