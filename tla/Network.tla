------------------------------ MODULE Network -------------------------------
(***************************************************************************)
(* The programs that talk over sockets: Daniel/src/udp_ping.c (a server),  *)
(* udp_pong.c (its client) and udp_broadcast.c, which reaches the same     *)
(* port; tcp_ping.c and tcp_pong.c; tcp_servers.c and tcp_clients.c; and   *)
(* Daniel/SERVER_TCP_UDP.  Datagrams to a port that nobody has bound are   *)
(* lost, and a stream may deliver any part of what was sent.  A call that  *)
(* sets a socket up may fail; then its program exits.                      *)
(***************************************************************************)
EXTENDS Exercise

NtGames == {"udp_ping", "tcp_ping", "tcp_servers", "tcp_udp"}

CONSTANTS NtRounds,   \* ten in the programs
          NtLen       \* the bytes of a message, 4 and 14
ASSUME NetworkAssumption == NtRounds \in Nat \ {0} /\ NtLen \in Nat \ {0}

Server == 1
Client == 2
Other  == 3     \* the broadcaster, a second client, the client of UDP
NtPeers == {Client, Other}
NtOf(g) == IF g = "tcp_ping" THEN {Server, Client} ELSE {Server, Client, Other}

\* ExitIfError and RETURN_IF_ERROR, on the calls before a program's first step.
NtFirst(g, t) == IF t = Server THEN "bind"
                 ELSE IF g = "udp_ping" \/ (g = "tcp_udp" /\ t = Other) THEN "send"
                 ELSE "connect"
ExitIfError(t) == hand[t].i = 0 /\ Moves(t, NtFirst(game, t), "exit") /\ Nothing

NtCounts(t) == [hand EXCEPT ![t].i = @ + 1]

-----------------------------------------------------------------------------
\* udp_ping.c: i counts rounds, from is who is answered; box is what a socket
\* has received, by its sender.  lost and stranger: a PING came before the port
\* was bound or after it was closed, or somebody else was answered.
UdpShared == [bound |-> FALSE, box |-> [t \in 1..3 |-> <<>>], lost |-> FALSE,
              stranger |-> FALSE]

UdpSends(t, to) ==
    IF shared.bound THEN [shared EXCEPT !.box[to] = Append(@, t)]
    ELSE [shared EXCEPT !.lost = @ \/ t = Client]

\* Mutated form: the answer goes to the client, whoever asked.
UdpServerDeaf ==
    \/ Moves(Server, "bind", "receive") /\ Sets([shared EXCEPT !.bound = TRUE])
    \/ /\ shared.box[Server] # <<>> /\ Moves(Server, "receive", "reply")
       /\ shared' = [shared EXCEPT !.box[Server] = Tail(@)]
       /\ hand' = [hand EXCEPT ![Server].from = Client]
    \/ /\ Moves(Server, "reply", IF hand[Server].i + 1 < NtRounds THEN "receive" ELSE "end")
       /\ hand' = NtCounts(Server)
       /\ shared' = [shared EXCEPT !.box[Client] = Append(@, Server),
                                   !.bound = hand[Server].i + 1 < NtRounds]

\* Any datagram counts, whatever it says; the one who sent it is answered, and
\* a broadcaster is not there any more.
UdpServer ==
    \/ Moves(Server, "bind", "receive") /\ Sets([shared EXCEPT !.bound = TRUE])
    \/ /\ shared.box[Server] # <<>> /\ Moves(Server, "receive", "reply")
       /\ shared' = [shared EXCEPT !.box[Server] = Tail(@),
                                   !.stranger = @ \/ Head(shared.box[Server]) # Client]
       /\ hand' = [hand EXCEPT ![Server].from = Head(shared.box[Server])]
    \/ /\ Moves(Server, "reply", IF hand[Server].i + 1 < NtRounds THEN "receive" ELSE "end")
       /\ hand' = NtCounts(Server)
       /\ shared' = [shared EXCEPT !.bound = hand[Server].i + 1 < NtRounds,
                         !.box[Client] = IF hand[Server].from = Client THEN Append(@, Server)
                                         ELSE @]

UdpClient ==
    \/ Moves(Client, "send", "receive") /\ Sets(UdpSends(Client, Server))
    \/ /\ shared.box[Client] # <<>>
       /\ Moves(Client, "receive", IF hand[Client].i + 1 < NtRounds THEN "send" ELSE "end")
       /\ hand' = NtCounts(Client)
       /\ shared' = [shared EXCEPT !.box[Client] = Tail(@)]

UdpBroadcast == Moves(Other, "send", "end") /\ Sets(UdpSends(Other, Server))

\* Server and client are in the same round, or one apart, but for what was lost
\* and for one stranger; the client has its answers from the server only.
UdpRoundsMatch ==
    LET ahead == hand[Server].i - hand[Client].i
    IN  /\ ahead \in 0 .. IF shared.stranger THEN 2 ELSE 1
        /\ at[Client] = "end" => at[Server] = "end"
        /\ at[Client] # "receive" => shared.box[Client] = <<>>

-----------------------------------------------------------------------------
\* tcp_ping.c: ping and pong are the bytes under way, to the server and to the
\* client.  torn: a PING came in parts; split: a PONG did.
TcpShared == [conn |-> "none", ping |-> 0, pong |-> 0, torn |-> FALSE, split |-> FALSE]

\* accept; read until the client is gone; only a whole PING is answered.
TcpServer ==
    \/ Moves(Server, "bind", "accept") /\ Sets([shared EXCEPT !.conn = "listening"])
    \/ shared.conn = "open" /\ Moves(Server, "accept", "read") /\ Nothing
    \/ \E n \in 1..shared.ping :
          /\ Moves(Server, "read", IF n = NtLen THEN "write" ELSE "read")
          /\ Sets([shared EXCEPT !.ping = @ - n, !.torn = @ \/ n < NtLen])
    \/ /\ shared.ping = 0 /\ shared.conn \in {"closed", "reset"}
       /\ Moves(Server, "read", IF shared.conn = "closed" THEN "end" ELSE "exit") /\ Nothing
    \/ /\ Moves(Server, "write", "read") /\ hand' = NtCounts(Server)
       /\ shared' = IF shared.conn = "open" THEN [shared EXCEPT !.pong = @ + NtLen]
                    ELSE [shared EXCEPT !.conn = "reset"]

\* Connecting to a port that nobody listens on fails.  Closing what was not
\* read resets the connection.
TcpClient ==
    \/ /\ at[Client] = "connect"
       /\ IF shared.conn = "listening"
          THEN Moves(Client, "connect", "send") /\ Sets([shared EXCEPT !.conn = "open"])
          ELSE Moves(Client, "connect", "exit") /\ Nothing
    \/ Moves(Client, "send", "recv") /\ Sets([shared EXCEPT !.ping = @ + NtLen])
    \/ \E n \in 1..shared.pong :
          /\ Moves(Client, "recv", IF hand[Client].i + 1 < NtRounds THEN "send" ELSE "close")
          /\ hand' = NtCounts(Client)
          /\ shared' = [shared EXCEPT !.pong = @ - n, !.split = @ \/ n < NtLen]
    \/ /\ Moves(Client, "close", "end")
       /\ Sets([shared EXCEPT !.conn = IF shared.pong = 0 THEN "closed" ELSE "reset",
                              !.pong = 0])

\* However the stream cuts the messages, the server never answers more PINGs than
\* the client has sent, which is one ahead of what it has read.  If each message
\* came as it was sent, each PING is answered once, and all of them when the
\* client ends.
TcpRoundsMatch ==
    /\ hand[Server].i - hand[Client].i <= 1
    /\ ~shared.torn /\ ~shared.split =>
          /\ hand[Server].i >= hand[Client].i
          /\ at[Client] = "end" => hand[Server].i = NtRounds /\ shared.conn = "closed"

-----------------------------------------------------------------------------
\* tcp_servers.c: one recv for each connection, one connection at a time; got
\* is what the server has had from each client, or -1.
SrvShared == [listening |-> FALSE, backlog |-> <<>>, bytes |-> <<0, 0, 0>>,
              closed |-> <<FALSE, FALSE, FALSE>>, got |-> <<-1, -1, -1>>]

\* Mutated form: the connection stays open and the server goes on reading it.
SrvServerStays ==
    LET c == hand[Server].from
    IN  \/ Moves(Server, "bind", "accept") /\ Sets([shared EXCEPT !.listening = TRUE])
        \/ /\ shared.backlog # <<>> /\ Moves(Server, "accept", "recv")
           /\ hand' = [hand EXCEPT ![Server].from = Head(shared.backlog)]
           /\ shared' = [shared EXCEPT !.backlog = Tail(@)]
        \/ /\ at[Server] = "recv" /\ shared.bytes[c] > 0
           /\ UNCHANGED <<at, hand>>
           /\ shared' = [shared EXCEPT !.got[c] = shared.bytes[c], !.bytes[c] = 0]

SrvServer ==
    LET c == hand[Server].from
    IN  \/ Moves(Server, "bind", "accept") /\ Sets([shared EXCEPT !.listening = TRUE])
        \/ /\ shared.backlog # <<>> /\ Moves(Server, "accept", "recv")
           /\ hand' = [hand EXCEPT ![Server].from = Head(shared.backlog)]
           /\ shared' = [shared EXCEPT !.backlog = Tail(@)]
        \/ /\ shared.bytes[c] > 0 \/ shared.closed[c]
           /\ Moves(Server, "recv", "accept")
           /\ hand' = [hand EXCEPT ![Server].from = Server]
           /\ \E n \in Min({1, shared.bytes[c]}) .. shared.bytes[c] :
                 shared' = [shared EXCEPT !.got[c] = n, !.bytes[c] = 0]

\* A send that fails ends the program, and so closes its connection.
SrvClient(t) ==
    \/ /\ at[t] = "connect"
       /\ IF shared.listening
          THEN Moves(t, "connect", "send") /\ Sets([shared EXCEPT !.backlog = Append(@, t)])
          ELSE Moves(t, "connect", "exit") /\ Nothing
    \/ Moves(t, "send", "close") /\ Sets([shared EXCEPT !.bytes[t] = NtLen])
    \/ Moves(t, "send", "exit") /\ Sets([shared EXCEPT !.closed[t] = TRUE])
    \/ Moves(t, "close", "end") /\ Sets([shared EXCEPT !.closed[t] = TRUE])

\* Who was heard is not waiting to be, nobody is heard twice, or before it has
\* sent something.
SrvHearsEach ==
    LET c == hand[Server].from
        served == {t \in NtPeers : shared.got[t] # -1}
    IN  /\ served \cap ToSet(shared.backlog) = {}
        /\ \A t \in NtPeers : /\ at[t] = "connect" => shared.got[t] = -1
                              /\ shared.got[t] > 0 => at[t] \in {"close", "end"}
        /\ at[Server] = "recv" => c \in NtPeers \ served

-----------------------------------------------------------------------------
\* SERVER_TCP_UDP: pending are the descriptors with something to read.
SelShared == [up |-> FALSE, master_fds |-> {}, pending |-> {}, answered |-> FALSE]

\* Mutated form: the listening socket is in the set that select watches.
RunServerWatching ==
    LET ready == {"stdin", "tcp"} \cap shared.pending
    IN  \/ Moves(Server, "bind", "select") /\ Sets([shared EXCEPT !.up = TRUE])
        \/ /\ ready # {}
           /\ Moves(Server, "select", IF "stdin" \in ready THEN "exit" ELSE "select")
           /\ Sets(IF "stdin" \in ready THEN [shared EXCEPT !.up = FALSE]
                   ELSE [shared EXCEPT !.pending = @ \ {"tcp"}, !.answered = TRUE])

\* select watches a copy of master_fds with stdin: nothing puts the sockets in,
\* so HandleTCP, which would answer, is not reached.  Of the lines typed only
\* "quit" is modelled, others change nothing.
RunServer ==
    LET read_fds == shared.master_fds \cup {"stdin"}
        ready == read_fds \cap shared.pending
    IN  \/ Moves(Server, "bind", "select") /\ Sets([shared EXCEPT !.up = TRUE])
        \/ /\ ready # {}
           /\ Moves(Server, "select", IF "stdin" \in ready THEN "exit" ELSE "select")
           /\ Sets(IF "stdin" \in ready THEN [shared EXCEPT !.up = FALSE]
                   ELSE [shared EXCEPT !.pending = @ \ {"tcp"}, !.answered = TRUE])

SelTypes == /\ shared.up /\ "stdin" \notin shared.pending /\ UNCHANGED at
            /\ Sets([shared EXCEPT !.pending = @ \cup {"stdin"}])

\* The connection is made before anybody accepts it, and reset when the server
\* exits.
RunTCPClient ==
    \/ /\ Moves(Client, "connect", IF shared.up THEN "send" ELSE "exit") /\ Nothing
    \/ /\ Moves(Client, "send", IF shared.up THEN "recv" ELSE "exit")
       /\ Sets([shared EXCEPT !.pending = IF shared.up THEN @ \cup {"tcp"} ELSE @])
    \/ /\ shared.answered \/ ~shared.up
       /\ Moves(Client, "recv", IF shared.up THEN "send" ELSE "exit")
       /\ hand' = IF shared.up THEN NtCounts(Client) ELSE hand
       /\ shared' = [shared EXCEPT !.answered = FALSE]

\* recvfrom waits for ever: nothing is sent to it, and nothing tells it that its
\* datagram is lost.
RunUDPClient == /\ Moves(Other, "send", "recv")
                /\ Sets([shared EXCEPT !.pending = IF shared.up THEN @ \cup {"udp"} ELSE @])

\* No client gets past its first PING, as long as the server does not watch the
\* sockets it has bound; what is sent to them stays there.
SelAnswersNobody == /\ hand[Client].i = 0
                    /\ at[Client] = "recv" /\ shared.up => "tcp" \in shared.pending

-----------------------------------------------------------------------------
NtInit ==
    /\ game \in NtGames
    /\ shared = CASE game = "udp_ping" -> UdpShared
                  [] game = "tcp_ping" -> TcpShared
                  [] game = "tcp_servers" -> SrvShared
                  [] game = "tcp_udp" -> SelShared
    /\ at = [t \in NtOf(game) |-> NtFirst(game, t)]
    /\ hand = [t \in NtOf(game) |-> [i |-> 0, from |-> t]]

NtStep(t) ==
    \/ ExitIfError(t)
    \/ /\ game = "udp_ping"
       /\ \/ t = Server /\ UdpServer
          \/ t = Client /\ UdpClient
          \/ t = Other /\ UdpBroadcast
    \/ /\ game = "tcp_ping"
       /\ \/ t = Server /\ TcpServer
          \/ t = Client /\ TcpClient
    \/ /\ game = "tcp_servers"
       /\ \/ t = Server /\ SrvServer
          \/ t \in NtPeers /\ SrvClient(t)
    \/ /\ game = "tcp_udp"
       /\ \/ t = Server /\ RunServer
          \/ t = Client /\ RunTCPClient
          \/ t = Other /\ RunUDPClient

NtAreRight == /\ game = "udp_ping" => UdpRoundsMatch
              /\ game = "tcp_ping" => TcpRoundsMatch
              /\ game = "tcp_servers" => SrvHearsEach
              /\ game = "tcp_udp" => SelAnswersNobody

\* A client that waits for its PONG gets it, unless a datagram is lost or a
\* stranger served, or its PING came in parts; the server of the stream sees
\* its client's end; who sends the other server a message is heard; and when
\* the select loop is told to quit, its client over TCP is told too.
NtAwaits == \/ game = "udp_ping" /\ at[Client] = "receive"
            \/ game = "tcp_ping" /\ (at[Client] = "recv" \/ at[Server] = "read")
            \/ game = "tcp_servers" /\ \E t \in NtPeers : at[t] = "end"
            \/ game = "tcp_udp" /\ "stdin" \in shared.pending
NtGets == \/ /\ game = "udp_ping"
             /\ at[Client] \in {"send", "end"} \/ shared.lost \/ shared.stranger
          \/ game = "tcp_ping" /\ (at[Server] \in {"end", "exit"} \/ shared.torn)
          \/ game = "tcp_servers" /\ \A t \in NtPeers : at[t] = "end" => shared.got[t] > 0
          \/ game = "tcp_udp" /\ at[Client] = "exit"
=============================================================================
