------------------------------ MODULE TcpServer ------------------------------
(* The TCP server transport: the accept thread, the client handlers that run   *)
(* as tasks of a thread pool, the cleanup thread that marks idle clients, and  *)
(* the owner that stops and destroys the transport.  Sources:                  *)
(* src/transport/mcp_tcp_{acceptor,client_handler,server_utils,transport}.c.   *)
(* One step is one stretch of code between two points where another thread can *)
(* be seen; a critical section on client_mutex is one step.  The pool is       *)
(* abstracted to a bag of submitted tasks; its own algorithm is not in here.   *)
(* Time is abstracted to one flag per client, "idle": the idle timeout has     *)
(* passed since its last activity.                                             *)
EXTENDS Integers, FiniteSets, FiniteSetsExt

CONSTANTS MaxClients,      \* data->max_clients, the number of client slots
          Workers,         \* threads of the pool
          IdleTimeout,     \* data->idle_timeout_ms > 0
          MaxConnections,  \* bound: connections the clients open
          MaxMessages      \* bound: messages the clients send

ASSUME TcpAssumption ==
    /\ MaxClients \in Nat \ {0}
    /\ IsFiniteSet(Workers)
    /\ IdleTimeout \in BOOLEAN
    /\ MaxConnections \in Nat
    /\ MaxMessages \in Nat

VARIABLES running,             \* data->running
          cleanup_running,     \* data->cleanup_running
          clients,             \* data->clients
          active_connections,  \* data->stats.active_connections
          acceptor,            \* the accept thread: where it is, its locals
          pending,             \* submitted and not yet started tasks, per slot
          worker,              \* each pool thread: where it is, its locals
          owner,               \* how far the owner's stop and destroy have come
          open,                \* sockets the server holds open
          gone,                \* sockets whose peer has closed or failed
          accepted,            \* connections accepted so far
          messages             \* messages received so far

vars == <<running, cleanup_running, clients, active_connections, acceptor,
          pending, worker, owner, open, gone, accepted, messages>>

pool == <<pending, worker>>
peers == <<gone, messages>>

Slots == 0 .. MaxClients - 1
Sockets == 1 .. MaxConnections

\* MCP_INVALID_SOCKET
Invalid == 0

ClientStates == {"inactive", "initializing", "active"}

Client == [state : ClientStates, socket : Sockets \cup {Invalid},
           should_stop : BOOLEAN, idle : BOOLEAN]

AcceptorStates == {"poll", "accepted", "initialized", "submitted", "done"}

WorkerStates == {"free", "start", "loop", "wait", "recv", "callback", "send",
                 "cleanup", "close"}

OwnerStates == {"created", "up", "stopping", "accept_joined", "cleanup_joined",
                "pool_destroyed", "stopped", "destroyed"}

\* The local variables of the accept thread and of a handler.
AcceptorLocals == [pc : AcceptorStates, slot : Slots, socket : Sockets \cup {Invalid}]
HandlerLocals == [pc : WorkerStates, slot : Slots, socket : Sockets \cup {Invalid}]

Free == [pc |-> "free", slot |-> 0, socket |-> Invalid]

-----------------------------------------------------------------------------
\* mcp_transport_tcp_create.
Init ==
    /\ running = FALSE
    /\ cleanup_running = FALSE
    /\ clients = [i \in Slots |-> [state |-> "inactive", socket |-> Invalid,
                                   should_stop |-> FALSE, idle |-> FALSE]]
    /\ active_connections = 0
    /\ acceptor = [pc |-> "done", slot |-> 0, socket |-> Invalid]
    /\ pending = [i \in Slots |-> 0]
    /\ worker = [w \in Workers |-> Free]
    /\ owner = "created"
    /\ open = {}
    /\ gone = {}
    /\ accepted = 0
    /\ messages = 0

-----------------------------------------------------------------------------
(* The accept thread. *)

\* A pending connection is accepted; the loop looked at running before it.
Accept ==
    /\ acceptor.pc = "poll"
    /\ running
    /\ accepted < MaxConnections
    /\ accepted' = accepted + 1
    /\ open' = open \cup {accepted + 1}
    /\ acceptor' = [pc |-> "accepted", slot |-> 0, socket |-> accepted + 1]
    /\ UNCHANGED <<running, cleanup_running, clients, active_connections, pool,
                   owner, peers>>

\* Mutant: a slot whose client is marked for closing counts as free.
FreeSlotsMarked ==
    {i \in Slots : clients[i].state = "inactive" \/ clients[i].should_stop}

\* tcp_find_free_client_slot: the free slots, the first of which is taken.
FreeSlots == {i \in Slots : clients[i].state = "inactive"}

\* The free slot is filled in as INITIALIZING, all under client_mutex.
AssignSlot ==
    /\ acceptor.pc = "accepted"
    /\ FreeSlots # {}
    /\ LET i == Min(FreeSlots)
       IN  /\ clients' = [clients EXCEPT ![i] =
                 [state |-> "initializing", socket |-> acceptor.socket,
                  should_stop |-> FALSE, idle |-> FALSE]]
           /\ acceptor' = [acceptor EXCEPT !.pc = "initialized", !.slot = i]
    /\ UNCHANGED <<running, cleanup_running, active_connections, pool, owner,
                   open, accepted, peers>>

\* No slot is free: the connection is closed at once.
Reject ==
    /\ acceptor.pc = "accepted"
    /\ FreeSlots = {}
    /\ open' = open \ {acceptor.socket}
    /\ acceptor' = [pc |-> "poll", slot |-> 0, socket |-> Invalid]
    /\ UNCHANGED <<running, cleanup_running, clients, active_connections, pool,
                   owner, accepted, peers>>

Submit ==
    /\ acceptor.pc = "initialized"
    /\ pending' = [pending EXCEPT ![acceptor.slot] = @ + 1]
    /\ acceptor' = [acceptor EXCEPT !.pc = "submitted"]
    /\ UNCHANGED <<running, cleanup_running, clients, active_connections,
                   worker, owner, open, accepted, peers>>

\* The pool refuses the task: the socket is closed, the slot is given back.
SubmitFails ==
    /\ acceptor.pc = "initialized"
    /\ open' = open \ {acceptor.socket}
    /\ clients' = [clients EXCEPT ![acceptor.slot].state = "inactive",
                                  ![acceptor.slot].socket = Invalid]
    /\ acceptor' = [pc |-> "poll", slot |-> 0, socket |-> Invalid]
    /\ UNCHANGED <<running, cleanup_running, active_connections, pool, owner,
                   accepted, peers>>

\* The submitted client becomes ACTIVE, if its state is still INITIALIZING.
Activate ==
    /\ acceptor.pc = "submitted"
    /\ IF clients[acceptor.slot].state = "initializing"
       THEN /\ clients' = [clients EXCEPT ![acceptor.slot].state = "active"]
            /\ active_connections' = active_connections + 1
       ELSE /\ clients' = [clients EXCEPT ![acceptor.slot].state = "inactive",
                                          ![acceptor.slot].socket = Invalid]
            /\ UNCHANGED active_connections
    /\ acceptor' = [pc |-> "poll", slot |-> 0, socket |-> Invalid]
    /\ UNCHANGED <<running, cleanup_running, pool, owner, open, accepted,
                   peers>>

\* The stop pipe, or a look at running, ends the accept thread.
AcceptorExit ==
    /\ acceptor.pc = "poll"
    /\ ~running
    /\ acceptor' = [acceptor EXCEPT !.pc = "done"]
    /\ UNCHANGED <<running, cleanup_running, clients, active_connections, pool,
                   owner, open, accepted, peers>>

-----------------------------------------------------------------------------
(* The client handlers. *)

\* tcp_client_handler_wrapper skips a client that is closed or marked, or when
\* the server is stopping.
Skips(i) ==
    \/ clients[i].socket = Invalid
    \/ clients[i].should_stop
    \/ clients[i].state = "inactive"
    \/ ~running

\* A free pool thread takes a task and the wrapper decides whether to run it.
TakeTask(w, i) ==
    /\ worker[w].pc = "free"
    /\ pending[i] > 0
    /\ pending' = [pending EXCEPT ![i] = @ - 1]
    /\ worker' = IF Skips(i) THEN worker
                 ELSE [worker EXCEPT ![w].pc = "start", ![w].slot = i]
    /\ UNCHANGED <<running, cleanup_running, clients, active_connections,
                   acceptor, owner, open, accepted, peers>>

\* The handler starts: the mark is cleared, the activity time is now.
HandlerStart(w) ==
    /\ worker[w].pc = "start"
    /\ clients' = [clients EXCEPT ![worker[w].slot].should_stop = FALSE,
                                  ![worker[w].slot].idle = FALSE]
    /\ worker' = [worker EXCEPT ![w].pc = "loop"]
    /\ UNCHANGED <<running, cleanup_running, active_connections, acceptor,
                   pending, owner, open, accepted, peers>>

\* No memory for the thread's arena: the handler returns and leaves the slot.
ArenaFails(w) ==
    /\ worker[w].pc = "start"
    /\ worker' = [worker EXCEPT ![w] = Free]
    /\ UNCHANGED <<running, cleanup_running, clients, active_connections,
                   acceptor, pending, owner, open, accepted, peers>>

Goes(w, pc) == worker' = [worker EXCEPT ![w].pc = pc]

\* The loop's condition and the checks up to the wait.
LoopTop(w) ==
    LET c == clients[worker[w].slot]
    IN  /\ worker[w].pc = "loop"
        /\ Goes(w, IF ~c.should_stop /\ c.state = "active" /\ c.socket # Invalid
                   THEN "wait" ELSE "cleanup")
        /\ UNCHANGED <<running, cleanup_running, clients, active_connections,
                       acceptor, pending, owner, open, accepted, peers>>

\* The wait ends with data or with the end of the stream: both are "readable".  The
\* data may be a part of a frame, and its rest may never come.
Readable(w) ==
    LET c == clients[worker[w].slot]
    IN  /\ worker[w].pc = "wait"
        /\ messages < MaxMessages \/ c.socket \in gone
        /\ Goes(w, IF c.should_stop THEN "cleanup" ELSE "recv")
        /\ UNCHANGED <<running, cleanup_running, clients, active_connections,
                       acceptor, pending, owner, open, accepted, peers>>

\* Mutant: only the cleanup thread's mark ends an idle client.
WaitEndsByMarkOnly(w) ==
    LET c == clients[worker[w].slot]
    IN  /\ worker[w].pc = "wait"
        /\ Goes(w, IF c.should_stop THEN "cleanup" ELSE "loop")
        /\ UNCHANGED <<running, cleanup_running, clients, active_connections,
                       acceptor, pending, owner, open, accepted, peers>>

\* The wait ends by its timeout or because the client is marked.
WaitEnds(w) ==
    LET c == clients[worker[w].slot]
    IN  /\ worker[w].pc = "wait"
        /\ Goes(w, IF c.should_stop \/ (IdleTimeout /\ c.idle)
                   THEN "cleanup" ELSE "loop")
        /\ UNCHANGED <<running, cleanup_running, clients, active_connections,
                       acceptor, pending, owner, open, accepted, peers>>

\* The wait ends with an error.
WaitFails(w) ==
    /\ worker[w].pc = "wait"
    /\ Goes(w, "cleanup")
    /\ UNCHANGED <<running, cleanup_running, clients, active_connections,
                   acceptor, pending, owner, open, accepted, peers>>

\* A framed message has been received; this is activity.
ReceiveFrame(w) ==
    /\ worker[w].pc = "recv"
    /\ messages < MaxMessages
    /\ messages' = messages + 1
    /\ clients' = [clients EXCEPT ![worker[w].slot].idle = FALSE]
    /\ Goes(w, "callback")
    /\ UNCHANGED <<running, cleanup_running, active_connections, acceptor,
                   pending, owner, open, gone, accepted>>

\* The frame cannot be read: the peer is gone, it sends what is no frame, or the
\* client was marked before the next recv.  Otherwise recv waits for the peer.
ReceiveFails(w) ==
    LET c == clients[worker[w].slot]
    IN  /\ worker[w].pc = "recv"
        /\ c.socket \in gone \/ messages < MaxMessages \/ c.should_stop
        /\ Goes(w, "cleanup")
        /\ UNCHANGED <<running, cleanup_running, clients, active_connections,
                       acceptor, pending, owner, open, accepted, peers>>

\* The callback returns with a response, or with nothing to send.
CallbackReturns(w) ==
    /\ worker[w].pc = "callback"
    /\ \E next \in {"send", "loop"} : Goes(w, next)
    /\ UNCHANGED <<running, cleanup_running, clients, active_connections,
                   acceptor, pending, owner, open, accepted, peers>>

\* The response is sent, which is activity, or the send fails.
SendResponse(w) ==
    LET c == clients[worker[w].slot]
    IN  /\ worker[w].pc = "send"
        /\ \E sent \in BOOLEAN :
              LET ok == sent /\ c.state = "active" /\ ~c.should_stop
              IN  /\ sent => c.socket \notin gone
                  /\ clients' = IF ok
                                THEN [clients EXCEPT ![worker[w].slot].idle = FALSE]
                                ELSE clients
                  /\ Goes(w, IF ok THEN "loop" ELSE "cleanup")
        /\ UNCHANGED <<running, cleanup_running, active_connections, acceptor,
                       pending, owner, open, accepted, peers>>

\* Mutant: the closed connection is not taken off the statistics.
CleanupUncounted(w) ==
    LET i == worker[w].slot
    IN  /\ worker[w].pc = "cleanup"
        /\ clients' = [clients EXCEPT ![i].state = "inactive",
                                      ![i].socket = Invalid]
        /\ worker' = [worker EXCEPT ![w].pc = "close",
                                    ![w].socket = clients[i].socket]
        /\ UNCHANGED <<running, cleanup_running, active_connections, acceptor,
                       pending, owner, open, accepted, peers>>

\* client_cleanup: the slot is freed and the connection counted out, under
\* client_mutex; the socket is closed after it.
Cleanup(w) ==
    LET i == worker[w].slot
    IN  /\ worker[w].pc = "cleanup"
        /\ IF clients[i].state # "inactive"
           THEN /\ clients' = [clients EXCEPT ![i].state = "inactive",
                                              ![i].socket = Invalid]
                /\ active_connections' = Max({active_connections - 1, 0})
                /\ worker' = [worker EXCEPT ![w].pc = "close",
                                            ![w].socket = clients[i].socket]
           ELSE /\ Goes(w, "close")
                /\ UNCHANGED <<clients, active_connections>>
        /\ UNCHANGED <<running, cleanup_running, acceptor, pending, owner,
                       open, accepted, peers>>

CloseSocket(w) ==
    /\ worker[w].pc = "close"
    /\ open' = open \ {worker[w].socket}
    /\ worker' = [worker EXCEPT ![w] = Free]
    /\ UNCHANGED <<running, cleanup_running, clients, active_connections,
                   acceptor, pending, owner, accepted, peers>>

-----------------------------------------------------------------------------
(* The cleanup thread and the world outside. *)

\* One pass of the cleanup thread marks every ACTIVE client that is idle.
MarkIdle ==
    /\ cleanup_running
    /\ IdleTimeout
    /\ \E i \in Slots : clients[i].state = "active" /\ clients[i].idle
    /\ clients' = [i \in Slots |->
          [clients[i] EXCEPT !.should_stop =
              @ \/ (clients[i].state = "active" /\ clients[i].idle)]]
    /\ UNCHANGED <<running, cleanup_running, active_connections, acceptor,
                   pool, owner, open, accepted, peers>>

\* The idle timeout passes for a client with no activity.
TimePasses(i) ==
    /\ IdleTimeout
    /\ clients[i].state # "inactive"
    /\ ~clients[i].idle
    /\ clients' = [clients EXCEPT ![i].idle = TRUE]
    /\ UNCHANGED <<running, cleanup_running, active_connections, acceptor,
                   pool, owner, open, accepted, peers>>

\* A peer closes its end.
PeerCloses(s) ==
    /\ s \in open \ gone
    /\ gone' = gone \cup {s}
    /\ UNCHANGED <<running, cleanup_running, clients, active_connections,
                   acceptor, pool, owner, open, accepted, messages>>

-----------------------------------------------------------------------------
(* tcp_transport_start, _stop and _destroy, called by the owner. *)

\* A start that succeeds; one that fails undoes what it did.
Start ==
    /\ owner = "created"
    /\ owner' = "up"
    /\ running' = TRUE
    /\ cleanup_running' = TRUE
    /\ acceptor' = [acceptor EXCEPT !.pc = "poll"]
    /\ UNCHANGED <<clients, active_connections, pool, open, accepted, peers>>

Stop ==
    /\ owner = "up"
    /\ owner' = "stopping"
    /\ running' = FALSE
    /\ UNCHANGED <<cleanup_running, clients, active_connections, acceptor,
                   pool, open, accepted, peers>>

JoinAcceptor ==
    /\ owner = "stopping"
    /\ acceptor.pc = "done"
    /\ owner' = "accept_joined"
    /\ UNCHANGED <<running, cleanup_running, clients, active_connections,
                   acceptor, pool, open, accepted, peers>>

\* The cleanup and the monitor thread see their flags and are joined.
JoinCleanup ==
    /\ owner = "accept_joined"
    /\ owner' = "cleanup_joined"
    /\ cleanup_running' = FALSE
    /\ UNCHANGED <<running, clients, active_connections, acceptor, pool, open,
                   accepted, peers>>

\* Mutant: the pool is given up after the two seconds of the wait.
DestroyPoolUnjoined ==
    /\ owner = "cleanup_joined"
    /\ owner' = "pool_destroyed"
    /\ UNCHANGED <<running, cleanup_running, clients, active_connections,
                   acceptor, pool, open, accepted, peers>>

\* mcp_thread_pool_destroy returns once every task has run and every thread
\* of the pool has been joined.
DestroyPool ==
    /\ owner = "cleanup_joined"
    /\ \A i \in Slots : pending[i] = 0
    /\ \A w \in Workers : worker[w].pc = "free"
    /\ owner' = "pool_destroyed"
    /\ UNCHANGED <<running, cleanup_running, clients, active_connections,
                   acceptor, pool, open, accepted, peers>>

\* tcp_transport_signal_clients_to_stop closes what is left.
StopClients ==
    /\ owner = "pool_destroyed"
    /\ owner' = "stopped"
    /\ open' = open \ {clients[i].socket : i \in Slots \ FreeSlots}
    /\ clients' = [i \in Slots |->
          IF clients[i].state = "inactive" THEN clients[i]
          ELSE [clients[i] EXCEPT !.should_stop = TRUE, !.socket = Invalid,
                                  !.state = "inactive"]]
    /\ UNCHANGED <<running, cleanup_running, active_connections, acceptor,
                   pool, accepted, peers>>

\* Destroy calls stop first, which does nothing when it is not running.
Destroy ==
    /\ owner \in {"created", "stopped"}
    /\ owner' = "destroyed"
    /\ UNCHANGED <<running, cleanup_running, clients, active_connections,
                   acceptor, pool, open, accepted, peers>>

-----------------------------------------------------------------------------
Acceptor ==
    Accept \/ AssignSlot \/ Reject \/ Submit \/ SubmitFails \/ Activate
           \/ AcceptorExit

HandlerStep(w) ==
    \/ \E i \in Slots : TakeTask(w, i)
    \/ HandlerStart(w) \/ LoopTop(w) \/ WaitEnds(w) \/ ReceiveFails(w)
    \/ CallbackReturns(w) \/ SendResponse(w) \/ Cleanup(w) \/ CloseSocket(w)

Owner ==
    JoinAcceptor \/ JoinCleanup \/ DestroyPool \/ StopClients

Next ==
    \/ Acceptor
    \/ \E w \in Workers :
          HandlerStep(w) \/ ArenaFails(w) \/ Readable(w) \/ WaitFails(w)
                         \/ ReceiveFrame(w)
    \/ MarkIdle
    \/ \E i \in Slots : TimePasses(i)
    \/ \E s \in open : PeerCloses(s)
    \/ Start \/ Stop \/ Owner \/ Destroy

Spec == Init /\ [][Next]_vars

\* The handler is in a recv or a send, which have no timeout and do not look at
\* should_stop, and its peer is still there: how long this takes is up to the peer.
AwaitsPeer(w) ==
    /\ worker[w].pc \in {"recv", "send"}
    /\ clients[worker[w].slot].socket \notin gone

\* Every thread that can take a step by itself does so, the operating system
\* sees to that; time passes.  Nothing is assumed of the clients: that they
\* send, read, close or keep quiet; nor that the owner starts, stops or destroys the
\* transport, but a stop that was called goes on.
Fairness ==
    /\ WF_vars(Acceptor)
    /\ \A w \in Workers : WF_vars(~AwaitsPeer(w) /\ HandlerStep(w))
    /\ WF_vars(MarkIdle)
    /\ \A i \in Slots : WF_vars(TimePasses(i))
    /\ WF_vars(Owner)

FairSpec == Spec /\ Fairness

-----------------------------------------------------------------------------
(* Properties. *)

TypeOK ==
    /\ running \in BOOLEAN
    /\ cleanup_running \in BOOLEAN
    /\ clients \in [Slots -> Client]
    /\ active_connections \in Nat
    /\ acceptor \in AcceptorLocals
    /\ pending \in [Slots -> Nat]
    /\ worker \in [Workers -> HandlerLocals]
    /\ owner \in OwnerStates
    /\ open \subseteq Sockets
    /\ gone \subseteq Sockets
    /\ accepted \in 0 .. MaxConnections
    /\ messages \in 0 .. MaxMessages

\* Worker w runs the handler of slot i, up to the point where it has freed it.
Handles(w, i) == worker[w].pc \notin {"free", "close"} /\ worker[w].slot = i

OneHandler(i) ==
    /\ pending[i] <= 1
    /\ pending[i] = 1 => \A w \in Workers : ~Handles(w, i)
    /\ \A v, w \in Workers : Handles(v, i) /\ Handles(w, i) => v = w

\* A slot is never worked on twice: it has at most one task waiting or handler
\* running, although the slot is freed by the handler, given back by the
\* acceptor and handed out again while other handlers run.
OneHandlerPerSlot == \A i \in Slots : OneHandler(i)

\* The one place that is to close socket s: the acceptor that just got it, a
\* slot of the table, or a handler that has freed its slot.
AcceptorHolds(s) == acceptor.pc = "accepted" /\ acceptor.socket = s
SlotHolds(i, s) == clients[i].socket = s
WorkerHolds(w, s) == worker[w].pc = "close" /\ worker[w].socket = s

HeldOnce(s) ==
    /\ s \in open <=> \/ AcceptorHolds(s)
                      \/ \E i \in Slots : SlotHolds(i, s)
                      \/ \E w \in Workers : WorkerHolds(w, s)
    /\ \A i, j \in Slots : SlotHolds(i, s) /\ SlotHolds(j, s) => i = j
    /\ \A v, w \in Workers : WorkerHolds(v, s) /\ WorkerHolds(w, s) => v = w
    /\ \A i \in Slots, w \in Workers : ~(SlotHolds(i, s) /\ WorkerHolds(w, s))
    /\ AcceptorHolds(s) => /\ \A i \in Slots : ~SlotHolds(i, s)
                           /\ \A w \in Workers : ~WorkerHolds(w, s)

\* An open socket is held in exactly one place and a closed one nowhere: no
\* connection is leaked by the error paths of the acceptor and the handlers,
\* and no handle is closed twice (it may by then be another connection's).
SocketHeldOnce == \A s \in Sockets : HeldOnce(s)

ActiveSlots == {i \in Slots : clients[i].state = "active"}

\* While the server runs, the statistics never report more connections than
\* the table holds ACTIVE, although the count is changed by the acceptor and
\* by every handler.
NeverOvercounts == running => active_connections <= Cardinality(ActiveSlots)

\* The table of clients and the connections agree: one handler for a slot, one
\* place for a socket, and no connection counted that is not there.
ClientsExact == OneHandlerPerSlot /\ SocketHeldOnce /\ NeverOvercounts

\* When stop has returned no socket is open, no task waits and no handler
\* runs: destroy may free the table and the transport.
StopLeavesNothing ==
    owner \in {"stopped", "destroyed"} =>
       /\ open = {}
       /\ acceptor.pc = "done"
       /\ \A i \in Slots : pending[i] = 0
       /\ \A w \in Workers : worker[w].pc = "free"

\* Stop returns, once it has been called, if no handler is left in a recv or send
\* that its peer never ends: the other handlers end by their idle timeout although
\* nobody marks them any more.  Stop waits for all of them before it closes their
\* sockets, so that a peer that sends half a frame and keeps the connection holds it
\* up for ever.  (This needs an idle timeout, and clients that do not send for ever,
\* which is what MaxMessages says.)
StopReturns ==
    (\A w \in Workers : []<>~AwaitsPeer(w)) => (owner = "stopping" ~> owner = "stopped")

\* The acceptor finds a client's state changed under it only when the server
\* is being stopped (mcp_tcp_acceptor.c:241).
ChangedOnlyByStop ==
    acceptor.pc = "submitted" /\ running
       => clients[acceptor.slot].state = "initializing"
=============================================================================
