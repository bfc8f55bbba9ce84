------------------------------ MODULE TcpClient ------------------------------
(* The TCP client transport with its reconnection: the owner that starts and   *)
(* stops it, threads that send, a manual reconnection, the thread that tries   *)
(* to reconnect and the receive threads.  Sources:                             *)
(* src/transport/mcp_tcp_client_{transport,reconnect,receiver}.c.              *)
(*                                                                             *)
(* "mutex" is reconnect_mutex where it is held while a thread connects; shorter *)
(* critical sections are one action.  Sockets and receive threads are numbered *)
(* as they are made.  Messages carry no data; the delays between attempts are  *)
(* any time.  Nothing is called while stop or destroy runs; a reconnection may *)
(* be asked for before start, beside it and after stop as well.                *)
EXTENDS Integers, FiniteSets

CONSTANTS Senders,
          MaxAttempts,     \* max_reconnect_attempts, 0 for no limit
          MaxConnections,  \* bound: connections made
          MaxThreads       \* bound: reconnect threads

VARIABLES running, connected, sock, reconnect_enabled,
          attempt,           \* reconnect_attempt
          state,             \* connection_state
          flag,              \* reconnect_thread_running
          reconnect_thread, receive_thread,  \* handles
          mutex,             \* who holds reconnect_mutex
          owner, manual,     \* where the owner and the manual reconnection are
          sender, reconnector, receiver,     \* where each thread is
          open, broken,      \* sockets: open, and ended by the peer or shut down
          made, threads,     \* connections, reconnect threads made so far
          outside            \* a manual reconnection was begun when not started

control == <<running, reconnect_enabled>>
handles == <<reconnect_thread, receive_thread>>
network == <<open, broken, made>>
vars == <<running, connected, sock, reconnect_enabled, attempt, state, flag, handles,
          mutex, owner, manual, sender, reconnector, receiver, network, threads, outside>>

Sockets == 1 .. MaxConnections
Reconnectors == 1 .. MaxThreads
None == 0                     \* MCP_INVALID_SOCKET, no thread
Manual == -1                  \* the manual reconnection, as holder of the mutex

Init ==
    /\ running = FALSE /\ connected = FALSE /\ sock = None
    /\ reconnect_enabled \in BOOLEAN
    /\ attempt = 0
    /\ state = "disconnected"
    /\ flag = FALSE
    /\ reconnect_thread = None /\ receive_thread = None
    /\ mutex = None
    /\ owner = "created" /\ manual = "idle"
    /\ sender = [s \in Senders |-> "idle"]
    /\ reconnector = [r \in Reconnectors |-> "none"]
    /\ receiver = [v \in Sockets |-> "none"]
    /\ open = {} /\ broken = {} /\ made = 0 /\ threads = 0
    /\ outside = FALSE

Live == owner # "freed"
Callable == owner \notin {"stopping", "stop", "joining", "freed"}

-----------------------------------------------------------------------------
(* Reconnection *)

\* A reconnect thread is created, or cannot be.
NewReconnector ==
    /\ threads < MaxThreads
    /\ \/ /\ threads' = threads + 1
          /\ reconnector' = [reconnector EXCEPT ![threads + 1] = "loop"]
          /\ reconnect_thread' = threads + 1
          /\ flag' = TRUE
          /\ state' = "reconnecting"
       \/ /\ flag' = FALSE
          /\ state' = "failed"
          /\ UNCHANGED <<threads, reconnector, reconnect_thread>>

\* Mutant: a thread that is already running is not taken into account.
StartReconnectionAgain ==
    /\ mutex = None
    /\ IF reconnect_enabled
       THEN attempt' = 1 /\ NewReconnector
       ELSE UNCHANGED <<attempt, state, flag, threads, reconnector, reconnect_thread>>

StartReconnection ==
    /\ mutex = None
    /\ IF reconnect_enabled /\ ~flag
       THEN attempt' = 1 /\ NewReconnector
       ELSE UNCHANGED <<attempt, state, flag, threads, reconnector, reconnect_thread>>

\* Mutant: the old socket is forgotten.
BeginAttemptLeaking ==
    /\ state' = "reconnecting"
    /\ sock' = None
    /\ UNCHANGED open

\* attempt_reconnect, up to the connect: the old socket is closed.
BeginAttempt ==
    /\ state' = "reconnecting"
    /\ open' = open \ {sock}
    /\ sock' = None

\* A connect succeeds; the socket in data->sock is overwritten.
Connect ==
    /\ made < MaxConnections
    /\ made' = made + 1
    /\ sock' = made + 1
    /\ open' = open \cup {made + 1}
    /\ connected' = TRUE

\* A receive thread is created; nobody joins the one whose handle is overwritten.
CreateReceiver(pc) ==
    LET v == Cardinality({w \in Sockets : receiver[w] # "none"}) + 1
    IN  /\ receiver' = [receiver EXCEPT ![v] = pc]
        /\ receive_thread' = v

\* The receive thread of a new connection is created, which is to skip the ping.
\* (That the thread of a start beside it may take this order, which is a global
\* flag, is left out.)
NewReceiver ==
    /\ CreateReceiver("skip")
    /\ state' = "connected"
    /\ attempt' = 0

\* It cannot be created.
NoReceiver ==
    /\ open' = open \ {sock}
    /\ sock' = None
    /\ connected' = FALSE

Exhausted(n) == MaxAttempts > 0 /\ n > MaxAttempts

\* The loop condition, then the checks under the mutex, then the wait.
Loop(r) ==
    /\ Live /\ reconnector[r] = "loop"
    /\ mutex = None
    /\ reconnector' = [reconnector EXCEPT ![r] =
          IF ~flag \/ ~reconnect_enabled \/ connected \/ Exhausted(attempt)
          THEN "done" ELSE "wait"]
    /\ UNCHANGED <<control, connected, sock, attempt, state, flag, handles, mutex,
                   owner, manual, sender, receiver, network, threads>>

\* The wait is over.  The mutex is kept until the attempt is.
Wake(r) ==
    /\ Live /\ reconnector[r] = "wait"
    /\ mutex = None
    /\ IF flag
       THEN /\ BeginAttempt
            /\ mutex' = r
            /\ reconnector' = [reconnector EXCEPT ![r] = "connect"]
       ELSE /\ reconnector' = [reconnector EXCEPT ![r] = "done"]
            /\ UNCHANGED <<state, open, sock, mutex>>
    /\ UNCHANGED <<control, connected, attempt, flag, handles, owner, manual, sender,
                   receiver, broken, made, threads>>

ConnectSucceeds(r) ==
    /\ Live /\ reconnector[r] = "connect"
    /\ Connect
    /\ reconnector' = [reconnector EXCEPT ![r] = "connected"]
    /\ UNCHANGED <<control, attempt, state, flag, handles, mutex, owner, manual, sender,
                   receiver, broken, threads>>

\* After a failure the thread tries again or gives up; flag stays as it is.
AttemptFails(r) ==
    /\ Live
    /\ \/ reconnector[r] = "connect" /\ UNCHANGED <<open, sock, connected>>
       \/ reconnector[r] = "connected" /\ NoReceiver
    /\ attempt' = attempt + 1
    /\ IF Exhausted(attempt + 1)
       THEN /\ state' = "failed"
            /\ reconnector' = [reconnector EXCEPT ![r] = "done"]
       ELSE /\ reconnector' = [reconnector EXCEPT ![r] = "loop"]
            /\ UNCHANGED state
    /\ mutex' = None
    /\ UNCHANGED <<control, flag, handles, owner, manual, sender, receiver, broken, made,
                   threads>>

Reconnected(r) ==
    /\ Live /\ reconnector[r] = "connected"
    /\ NewReceiver
    /\ reconnector' = [reconnector EXCEPT ![r] = "done"]
    /\ mutex' = None
    /\ UNCHANGED <<control, connected, sock, flag, reconnect_thread, owner, manual,
                   sender, network, threads>>

-----------------------------------------------------------------------------
(* mcp_tcp_client_reconnect *)

ManualBegin ==
    /\ Callable /\ manual = "idle" /\ mutex = None
    /\ ~connected /\ ~flag
    /\ reconnect_enabled' = TRUE
    /\ attempt' = 1
    /\ BeginAttempt
    /\ mutex' = Manual
    /\ manual' = "connect"
    /\ outside' = (outside \/ owner \notin {"marking", "up"})
    /\ UNCHANGED <<running, connected, flag, handles, owner, sender, reconnector,
                   receiver, broken, made, threads>>

ManualConnects ==
    /\ manual = "connect"
    /\ Connect
    /\ manual' = "connected"
    /\ UNCHANGED <<control, attempt, state, flag, handles, mutex, owner, sender,
                   reconnector, receiver, broken, threads>>

ManualSucceeds ==
    /\ manual = "connected"
    /\ NewReceiver
    /\ manual' = "idle"
    /\ mutex' = None
    /\ UNCHANGED <<control, connected, sock, flag, reconnect_thread, owner, sender,
                   reconnector, network, threads>>

ManualFails ==
    /\ \/ manual = "connect" /\ UNCHANGED <<open, sock, connected>>
       \/ manual = "connected" /\ NoReceiver
    /\ NewReconnector
    /\ manual' = "idle"
    /\ mutex' = None
    /\ UNCHANGED <<control, attempt, receive_thread, owner, sender, receiver, broken,
                   made>>

-----------------------------------------------------------------------------
(* tcp_client_transport_start *)

Start ==
    /\ owner \in {"created", "stopped"}
    /\ made < MaxConnections
    /\ owner' = "connecting"
    /\ state' = "connecting"
    /\ UNCHANGED <<control, connected, sock, attempt, flag, handles, mutex, manual,
                   sender, reconnector, receiver, network, threads>>

\* establish_connection: a socket that a manual reconnection opened meanwhile is
\* overwritten, whether the connect succeeds or fails.
StartConnects ==
    /\ owner = "connecting"
    /\ Connect
    /\ attempt' = 0
    /\ state' = "connected"
    /\ owner' = "connected"
    /\ UNCHANGED <<control, flag, handles, mutex, manual, sender, reconnector, receiver,
                   broken, threads>>

Started ==
    /\ owner = "connected"
    /\ running' = TRUE
    /\ CreateReceiver("ping")
    /\ owner' = "up"
    /\ UNCHANGED <<connected, sock, reconnect_enabled, attempt, state, flag,
                   reconnect_thread, mutex, manual, sender, reconnector, network, threads>>

\* No connection, or no receive thread.
StartFails ==
    /\ \/ /\ owner = "connecting" /\ ~reconnect_enabled
          /\ sock' = None
          /\ UNCHANGED <<open, connected>>
       \/ owner = "connected" /\ NoReceiver
    /\ state' = "failed"
    /\ owner' = "created"
    /\ UNCHANGED <<control, attempt, flag, handles, mutex, manual, sender, reconnector,
                   receiver, broken, made, threads>>

\* No connection: reconnection is left to a thread, and running set afterwards.
StartLater ==
    /\ owner = "connecting" /\ reconnect_enabled
    /\ sock' = None
    /\ StartReconnection
    /\ owner' = "marking"
    /\ UNCHANGED <<control, connected, receive_thread, mutex, manual, sender,
                   receiver, network>>

StartMarks ==
    /\ owner = "marking"
    /\ owner' = "up"
    /\ running' = TRUE
    /\ UNCHANGED <<connected, sock, reconnect_enabled, attempt, state, flag, handles,
                   mutex, manual, sender, reconnector, receiver, network, threads>>

-----------------------------------------------------------------------------
(* tcp_client_transport_send and sendv; receive differs in what it does with   *)
(* the socket only *)

\* check_transport_ready.
Send(s) ==
    /\ owner = "up" /\ sender[s] = "idle"
    /\ sender' = [sender EXCEPT ![s] =
          IF connected /\ sock # None THEN "send"
          ELSE IF reconnect_enabled /\ (connected \/ state # "reconnecting") THEN "restart"
          ELSE "idle"]
    /\ IF connected /\ sock = None
       THEN connected' = FALSE /\ state' = "disconnected"
       ELSE UNCHANGED <<connected, state>>
    /\ UNCHANGED <<control, sock, attempt, flag, handles, mutex, owner, manual,
                   reconnector, receiver, network, threads>>

Usable == sock \in open \ broken

Sent(s) ==
    /\ sender[s] = "send"
    /\ sock \in open
    /\ sender' = [sender EXCEPT ![s] = "idle"]
    /\ UNCHANGED <<control, connected, sock, attempt, state, flag, handles, mutex, owner,
                   manual, reconnector, receiver, network, threads>>

\* handle_send_error: whatever connection there is by now is marked.
SendFails(s) ==
    /\ sender[s] = "send"
    /\ ~Usable
    /\ connected' = FALSE
    /\ state' = "disconnected"
    /\ sender' = [sender EXCEPT ![s] = IF reconnect_enabled THEN "restart" ELSE "idle"]
    /\ UNCHANGED <<control, sock, attempt, flag, handles, mutex, owner, manual,
                   reconnector, receiver, network, threads>>

Restart(s) ==
    /\ sender[s] = "restart"
    /\ StartReconnection
    /\ sender' = [sender EXCEPT ![s] = "idle"]
    /\ UNCHANGED <<control, connected, sock, receive_thread, mutex, owner, manual,
                   receiver, network>>

-----------------------------------------------------------------------------
(* tcp_client_receive_thread_func: it uses whatever socket there is *)

Move(v, pc) == receiver' = [receiver EXCEPT ![v] = pc]

ReceiverSame == UNCHANGED <<control, sock, attempt, state, flag, handles, mutex, owner,
                            manual, sender, reconnector, network, threads>>

\* The arena and the ping; if one fails the thread ends and leaves connected as
\* it is.
Ping(v) ==
    /\ Live /\ receiver[v] \in {"ping", "skip"}
    /\ \/ /\ receiver[v] = "ping" => connected /\ sock \in open
          /\ Move(v, "loop")
       \/ Move(v, "done")
    /\ UNCHANGED connected /\ ReceiverSame

Check(v) ==
    /\ Live /\ receiver[v] = "loop"
    /\ Move(v, IF running /\ connected /\ sock # None THEN "select" ELSE "exit")
    /\ UNCHANGED connected /\ ReceiverSame

\* Stopped meanwhile; nothing to read; something to read.
Select(v) ==
    /\ Live /\ receiver[v] = "select"
    /\ IF running THEN \E pc \in {"loop", "recv"} : Move(v, pc) ELSE Move(v, "exit")
    /\ UNCHANGED connected /\ ReceiverSame

Receive(v) ==
    /\ Live /\ receiver[v] = "recv"
    /\ \/ sock \in open /\ Move(v, "loop") /\ UNCHANGED connected
       \/ ~Usable /\ Move(v, "exit") /\ connected' = FALSE
    /\ ReceiverSame

Exit(v) ==
    /\ Live /\ receiver[v] = "exit"
    /\ Move(v, "done")
    /\ connected' = FALSE
    /\ ReceiverSame

-----------------------------------------------------------------------------
(* tcp_client_transport_stop and destroy, called when no other call is made *)

StopReconnection ==
    /\ owner = "up" /\ manual = "idle" /\ mutex = None
    /\ \A s \in Senders : sender[s] = "idle"
    /\ owner' = IF flag THEN "stopping" ELSE "stop"
    /\ flag' = FALSE
    /\ UNCHANGED <<control, connected, sock, attempt, state, handles, mutex, manual,
                   sender, reconnector, receiver, network, threads>>

JoinReconnector ==
    /\ owner = "stopping"
    /\ reconnector[reconnect_thread] = "done"
    /\ reconnect_thread' = None
    /\ owner' = "stop"
    /\ UNCHANGED <<control, connected, sock, attempt, state, flag, receive_thread, mutex,
                   manual, sender, reconnector, receiver, network, threads>>

Shutdown ==
    /\ owner = "stop"
    /\ running' = FALSE
    /\ reconnect_enabled' = FALSE
    /\ broken' = broken \cup ({sock} \ {None})
    /\ owner' = "joining"
    /\ UNCHANGED <<connected, sock, attempt, state, flag, handles, mutex, manual, sender,
                   reconnector, receiver, open, made, threads>>

Stopped ==
    /\ owner = "joining"
    /\ receive_thread # None => receiver[receive_thread] = "done"
    /\ receive_thread' = None
    /\ state' = "disconnected"
    /\ open' = open \ {sock}
    /\ sock' = None
    /\ connected' = FALSE
    /\ owner' = "stopped"
    /\ UNCHANGED <<control, attempt, flag, reconnect_thread, mutex, manual, sender,
                   reconnector, receiver, broken, made, threads>>

Destroy ==
    /\ owner \in {"created", "stopped"} /\ manual = "idle"
    /\ owner' = "freed"
    /\ UNCHANGED <<control, connected, sock, attempt, state, flag, handles, mutex, manual,
                   sender, reconnector, receiver, network, threads>>

\* The peer ends a connection.
PeerCloses ==
    /\ \E c \in open \ broken : broken' = broken \cup {c}
    /\ UNCHANGED <<control, connected, sock, attempt, state, flag, handles, mutex, owner,
                   manual, sender, reconnector, receiver, open, made, threads>>

-----------------------------------------------------------------------------
Step ==
    \/ \E r \in Reconnectors : \/ Loop(r) \/ Wake(r) \/ ConnectSucceeds(r)
                               \/ AttemptFails(r) \/ Reconnected(r)
    \/ ManualConnects \/ ManualSucceeds \/ ManualFails
    \/ Start \/ StartConnects \/ Started \/ StartFails \/ StartLater \/ StartMarks
    \/ \E s \in Senders : Send(s) \/ Sent(s) \/ SendFails(s) \/ Restart(s)
    \/ \E v \in Sockets : Ping(v) \/ Check(v) \/ Select(v) \/ Receive(v) \/ Exit(v)
    \/ StopReconnection \/ JoinReconnector \/ Shutdown \/ Stopped \/ Destroy
    \/ PeerCloses

Next == ManualBegin \/ (Step /\ UNCHANGED outside)

Spec == Init /\ [][Next]_vars

-----------------------------------------------------------------------------
TypeOK ==
    /\ {running, connected, reconnect_enabled, flag, outside} \subseteq BOOLEAN
    /\ sock \in Sockets \cup {None}
    /\ attempt \in Nat
    /\ state \in {"disconnected", "connecting", "connected", "reconnecting", "failed"}
    /\ reconnect_thread \in Reconnectors \cup {None}
    /\ receive_thread \in Sockets \cup {None}
    /\ mutex \in Reconnectors \cup {None, Manual}
    /\ owner \in {"created", "connecting", "connected", "marking", "up", "stopping", "stop", "joining",
                  "stopped", "freed"}
    /\ manual \in {"idle", "connect", "connected"}
    /\ sender \in [Senders -> {"idle", "send", "restart"}]
    /\ reconnector \in [Reconnectors -> {"none", "loop", "wait", "connect", "connected",
                                         "done"}]
    /\ receiver \in [Sockets -> {"none", "ping", "skip", "loop", "select", "recv", "exit",
                               "done"}]
    /\ broken \subseteq Sockets /\ open \subseteq Sockets
    /\ made \in 0 .. MaxConnections /\ threads \in 0 .. MaxThreads

Reconnecting == {r \in Reconnectors : reconnector[r] \notin {"none", "done"}}

\* "It ensures that only one reconnection thread is running at a time"
\* (start_reconnection_process), also when a send fails, a manual reconnection
\* and a start overlap, and when the transport is stopped and started again.
\* Once stop has returned there is none, unless a manual reconnection was begun
\* while the transport was not started: stop does nothing then.
OneReconnector ==
    /\ Cardinality(Reconnecting) <= 1
    /\ owner \in {"stopped", "freed"} => outside \/ Reconnecting = {}

\* As long as every manual reconnection is begun after start, no socket is left
\* open: the open one is data->sock, and once stop has returned there is none.
\* Begun before start or beside it, a manual reconnection opens a socket that
\* start overwrites; begun after stop, one that nothing closes.
SocketNotLeaked ==
    \/ outside
    \/ /\ open \subseteq {sock}
       /\ owner \in {"stopped", "freed"} => open = {}

\* "If the client is already connected or if a reconnection attempt is in
\* progress, this function has no effect" (mcp_tcp_client_reconnect): otherwise
\* it has one, so the flag it looks at means that a thread tries to reconnect.
FlagMeansReconnecting == flag => Reconnecting # {}
=============================================================================
