------------------------------ MODULE MCServer -------------------------------
(* The server's message gate, its TCP transport and the sockets below, for TLC.  *)
(* "part" says which one runs.                                                 *)
EXTENDS ServerGate, Sequences, TLC

CONSTANTS w1, w2

VARIABLES part, t_running, cleanup_running, clients, active_connections, acceptor,
          pending, worker, t_owner, open, gone, accepted, messages

tcpVars == <<t_running, cleanup_running, clients, active_connections, acceptor,
             pending, worker, t_owner, open, gone, accepted, messages>>

Symmetry == Permutations({w1, w2})

Tcp == INSTANCE TcpServer WITH
    running <- t_running, owner <- t_owner,
    MaxClients <- 2, Workers <- {w1, w2}, IdleTimeout <- TRUE, MaxConnections <- 3,
    MaxMessages <- 1

-----------------------------------------------------------------------------
(* Sockets: two addresses; three messages, one of them too long for the receiver, *)
(* or two that are sent and received at once; timeouts around a second           *)

VARIABLES dial, link, wire, stop_flag, sender, receiver, sent, got, k_undefined, now, wait

socketVars == <<dial, link, wire, stop_flag, sender, receiver, sent, got, k_undefined, now,
                wait>>

Fitting == {<<>>, <<1>>, <<0, 1>>}

Single == INSTANCE TcpStream WITH
    undefined <- k_undefined, Kinds <- {"connect", "nonblocking", "listen"}, Addresses <- 2,
    ErrorsShow <- TRUE, Senders <- {"s"}, Messages <- Fitting \cup {<<1, 0, 1>>}, Base <- 2,
    MaxSize <- 2, Batch <- 1, Window <- 4, MaxFrames <- 3, Timeouts <- {-1, 0, 1, 5, 6, 7},
    Interval <- 2, Second <- 6, MaxTime <- 20

Batched == INSTANCE TcpStream WITH
    undefined <- k_undefined, Kinds <- {"connect", "nonblocking", "listen"}, Addresses <- 2,
    ErrorsShow <- FALSE, Senders <- {"s"}, Messages <- Fitting, Base <- 2,
    MaxSize <- 2, Batch <- 2, Window <- 4, MaxFrames <- 3, Timeouts <- {6},
    Interval <- 2, Second <- 6, MaxTime <- 20

-----------------------------------------------------------------------------
Parts == {"gate", "tcp", "dial", "dial_hidden", "stream", "batched", "wait"}

PartsInit ==
    /\ Init /\ Tcp!Init /\ Single!Init
    /\ part \notin {"dial", "dial_hidden"} => dial.kind = "connect"

ServerInit == part \in Parts /\ PartsInit

ServerNext ==
    \/ part = "gate" /\ Next /\ UNCHANGED <<tcpVars, socketVars>>
    \/ part = "tcp" /\ Tcp!Next /\ UNCHANGED <<vars, socketVars>>
    \/ /\ \/ part = "dial" /\ Single!Dial
          \/ part = "dial_hidden" /\ Batched!Dial
          \/ part = "stream" /\ Single!StreamNext
          \/ part = "batched" /\ Batched!StreamNext
          \/ part = "wait" /\ Single!WaitNext
       /\ UNCHANGED <<vars, tcpVars>>

ServerVars == <<part, vars, tcpVars, socketVars>>

ServerSpec == ServerInit /\ [][ServerNext /\ UNCHANGED part]_ServerVars

\* The gate alone.
GateSpec ==
    /\ part = "gate" /\ PartsInit
    /\ [][Next /\ UNCHANGED <<part, tcpVars, socketVars>>]_ServerVars

\* The TCP transport alone.
TcpSpec ==
    /\ part = "tcp" /\ PartsInit
    /\ [][Tcp!Next /\ UNCHANGED <<part, vars, socketVars>>]_ServerVars

\* The types of the parts' states.
TypesOK ==
    /\ part = "gate" => TypeOK
    /\ part = "tcp" => Tcp!TypeOK
    /\ part \in {"dial", "stream", "wait"} => Single!TypeOK
    /\ part \in {"dial_hidden", "batched"} => Batched!TypeOK

\* The states have their types, and the table of clients and the connections agree:
\* a slot has at most one handler, waiting or running, every socket that is open is
\* held in exactly one place, and active_connections never exceeds the connections.
ClientsExact ==
    /\ TypesOK
    /\ part = "tcp" => Tcp!ClientsExact

\* A socket that is connected or made to listen is the only one left open, and in the
\* mode that was asked for; messages are received as they were sent and in their order
\* however writes and reads are cut (mcp_framing_send_message, mcp_framing_recv_message);
\* and a wait for input ends near its timeout.
SocketsExact ==
    /\ part = "dial" => Single!SocketExact
    /\ part = "dial_hidden" => Batched!SocketExact
    /\ part = "stream" => Single!FramesExact
    /\ part = "batched" => Batched!FramesExact
    /\ part = "wait" => Single!TimeoutNear

\* When tcp_transport_stop returns no socket is open and no handler runs.
StopLeavesNothing == part = "tcp" => Tcp!StopLeavesNothing

\* The acceptor finds a client's state changed under it only when the server
\* is being stopped (mcp_tcp_acceptor.c:241).
ChangedOnlyByStop == Tcp!ChangedOnlyByStop
=============================================================================
