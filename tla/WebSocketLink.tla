---------------------------- MODULE WebSocketLink ----------------------------
(* The connection of the WebSocket client transport: the owner that starts and *)
(* stops it, the event thread with the callbacks of libwebsockets and its      *)
(* reconnection, and callers that wait until the client is connected.          *)
(* Sources: src/transport/mcp_websocket_client_{connection,transport}.c.       *)
(*                                                                             *)
(* Critical sections of connection_mutex are one action.  Times are any time.  *)
(* libwebsockets keeps the connections it was asked for in "dialled" until the *)
(* callback tells how that ended, and the established ones in "live".          *)
EXTENDS Integers, FiniteSets

CONSTANTS Callers,
          MaxReconnects,   \* WS_MAX_RECONNECT_ATTEMPTS
          MaxConnections   \* bound: connections asked for

VARIABLES running, reconnect,
          state, wsi,
          attempts,         \* reconnect_attempts
          owner, event,     \* where the owner and the event thread are
          caller, result,   \* where each caller is; its local "result"
          returned,         \* history: the last call's value, and the state then
          dialled, live, made

flags == <<running, reconnect>>
network == <<dialled, live, made>>
calls == <<caller, result, returned>>
vars == <<flags, state, wsi, attempts, owner, event, calls, network>>

Connections == 1 .. MaxConnections
None == 0
TimedOut == -2
Failed == -1
States == {"disconnected", "connecting", "connected", "closing", "error"}
NotReturned == [value |-> None, state |-> "connected"]

Init ==
    /\ running = FALSE /\ reconnect = TRUE
    /\ state = "disconnected" /\ wsi = None
    /\ attempts = 0
    /\ owner = "created" /\ event = "none"
    /\ caller = [c \in Callers |-> "idle"]
    /\ result = [c \in Callers |-> 0]
    /\ returned = NotReturned
    /\ dialled = {} /\ live = {} /\ made = 0

\* lws_client_connect_via_info, the second part of ws_client_connect.
Dial ==
    /\ made < MaxConnections
    /\ made' = made + 1
    /\ dialled' = dialled \cup {made + 1}
    /\ UNCHANGED <<live, state>>

DialFails == state' = "error" /\ UNCHANGED network

-----------------------------------------------------------------------------
(* ws_client_transport_start, stop and destroy *)

Start ==
    /\ owner \in {"created", "stopped"}
    /\ attempts' = 0
    /\ state' = "disconnected"
    /\ running' = TRUE
    /\ event' = "service"
    /\ owner' = "connect"
    /\ UNCHANGED <<reconnect, wsi, calls, network>>

\* No context, mutex, buffers or thread.
StartFails ==
    /\ owner \in {"created", "stopped"}
    /\ \/ UNCHANGED <<state, attempts>>
       \/ attempts' = 0 /\ state' = "closing"
    /\ UNCHANGED <<flags, wsi, owner, event, calls, network>>

OwnerConnects ==
    /\ owner = "connect"
    /\ state' = "connecting"
    /\ owner' = "dial"
    /\ UNCHANGED <<flags, wsi, attempts, event, calls, network>>

OwnerDials ==
    /\ owner = "dial"
    /\ Dial \/ DialFails
    /\ owner' = "up"
    /\ UNCHANGED <<flags, wsi, attempts, event, calls>>

Stop ==
    /\ owner = "up"
    /\ reconnect' = FALSE
    /\ state' = "closing"
    /\ owner' = "stopping"
    /\ UNCHANGED <<running, wsi, attempts, event, calls, network>>

StopEvents ==
    /\ owner = "stopping"
    /\ running' = FALSE
    /\ owner' = "joining"
    /\ UNCHANGED <<reconnect, state, wsi, attempts, event, calls, network>>

\* The event thread is joined and the resources are freed.  lws_context_destroy
\* closes all connections; the mutexes go a moment later.
Cleanup ==
    /\ owner = "joining" /\ event = "done"
    /\ \/ state' = "closing"
       \/ live # {} /\ state' = "disconnected"
       \/ dialled # {} /\ state' = "error"
    /\ wsi' = None
    /\ dialled' = {} /\ live' = {}
    /\ event' = "none"
    /\ owner' = "stopped"
    /\ UNCHANGED <<flags, attempts, calls, made>>

Destroy ==
    /\ owner \in {"created", "stopped"}
    /\ owner' = "freed"
    /\ UNCHANGED <<flags, state, wsi, attempts, event, calls, network>>

-----------------------------------------------------------------------------
(* ws_client_event_thread: lws_service and the callbacks it makes *)

EventSame == UNCHANGED <<flags, owner, calls>>

\* LWS_CALLBACK_CLIENT_ESTABLISHED, which sets wsi before it takes the mutex.
Established ==
    /\ event = "service"
    /\ \E n \in dialled : /\ dialled' = dialled \ {n}
                          /\ live' = live \cup {n}
                          /\ wsi' = n
    /\ event' = "established"
    /\ UNCHANGED <<state, attempts, made>> /\ EventSame

MarkEstablished ==
    /\ event = "established"
    /\ state' = "connected"
    /\ attempts' = 0
    /\ event' = "service"
    /\ UNCHANGED <<wsi, network>> /\ EventSame

\* LWS_CALLBACK_CLIENT_CONNECTION_ERROR
ConnectionError ==
    /\ event = "service"
    /\ \E n \in dialled : dialled' = dialled \ {n}
    /\ wsi' = None
    /\ event' = "error"
    /\ UNCHANGED <<state, attempts, live, made>> /\ EventSame

\* Mutant: the state is left as it is.
MarkErrorNot ==
    /\ event = "error"
    /\ event' = "service"
    /\ UNCHANGED <<state, wsi, attempts, network>> /\ EventSame

MarkError ==
    /\ event = "error"
    /\ state' = "error"
    /\ event' = "service"
    /\ UNCHANGED <<wsi, attempts, network>> /\ EventSame

\* LWS_CALLBACK_CLIENT_CLOSED of whichever connection was closed.
Closed ==
    /\ event = "service"
    /\ \E n \in live : live' = live \ {n}
    /\ wsi' = None
    /\ event' = "closed"
    /\ UNCHANGED <<state, attempts, dialled, made>> /\ EventSame

MarkClosed ==
    /\ event = "closed"
    /\ state' = "disconnected"
    /\ event' = "service"
    /\ UNCHANGED <<wsi, attempts, network>> /\ EventSame

\* The periodic check of the state.
NeedsReconnect ==
    /\ event = "service" /\ running /\ reconnect
    /\ state \in {"disconnected", "error"}
    /\ event' = "reconnect"
    /\ UNCHANGED <<state, wsi, attempts, network>> /\ EventSame

\* Mutant: one attempt too many.
HandleReconnectOneMore ==
    /\ event = "reconnect"
    /\ IF attempts > MaxReconnects
       THEN event' = "service" /\ state' = "error" /\ UNCHANGED attempts
       ELSE event' = "connect" /\ attempts' = attempts + 1 /\ UNCHANGED state
    /\ UNCHANGED <<wsi, network>> /\ EventSame

\* ws_client_handle_reconnect, up to the sleep.
HandleReconnect ==
    /\ event = "reconnect"
    /\ IF ~reconnect \/ ~running
       THEN event' = "service" /\ UNCHANGED <<state, attempts>>
       ELSE IF attempts >= MaxReconnects
       THEN event' = "service" /\ state' = "error" /\ UNCHANGED attempts
       ELSE /\ event' = IF running THEN "connect" ELSE "service"
            /\ attempts' \in {1, attempts + 1}
            /\ attempts = 0 => attempts' = 1
            /\ UNCHANGED state
    /\ UNCHANGED <<wsi, network>> /\ EventSame

EventConnects ==
    /\ event = "connect"
    /\ state' = "connecting"
    /\ event' = "dial"
    /\ UNCHANGED <<wsi, attempts, network>> /\ EventSame

EventDials ==
    /\ event = "dial"
    /\ Dial \/ DialFails
    /\ event' = "service"
    /\ UNCHANGED <<wsi, attempts>> /\ EventSame

EventEnds ==
    /\ event = "service" /\ ~running
    /\ event' = "done"
    /\ UNCHANGED <<state, wsi, attempts, network>> /\ EventSame

-----------------------------------------------------------------------------
(* ws_client_ensure_connected and ws_client_wait_for_connection *)

CallerSame == UNCHANGED <<flags, wsi, attempts, owner, event>>

\* The mutexes exist; what a caller does without them is undefined.
Present == owner \notin {"created", "stopped", "freed"}

At(c, pc) == Present /\ caller[c] = pc

To(c, pc) == caller' = [caller EXCEPT ![c] = pc] /\ UNCHANGED <<result, returned>>

Return(c, value) ==
    /\ caller' = [caller EXCEPT ![c] = "idle"]
    /\ result' = [result EXCEPT ![c] = 0]
    /\ returned' = [value |-> value, state |-> state]

Ensure(c) ==
    /\ At(c, "idle")
    /\ IF running /\ state # "connected"
       THEN To(c, "decide")
       ELSE Return(c, IF running THEN 0 ELSE Failed)
    /\ UNCHANGED <<state, network>> /\ CallerSame

\* need_connect is read in one critical section and used after it.
Decide(c) ==
    /\ At(c, "decide")
    /\ IF state = "connected" THEN Return(c, 0)
       ELSE To(c, IF state = "connecting" THEN "loop" ELSE "connect")
    /\ UNCHANGED <<state, network>> /\ CallerSame

CallerConnects(c) ==
    /\ At(c, "connect")
    /\ state' = "connecting"
    /\ To(c, "dial")
    /\ UNCHANGED network /\ CallerSame

CallerDials(c) ==
    /\ At(c, "dial")
    /\ \/ Dial /\ To(c, "loop")
       \/ /\ DialFails
          /\ caller' = [caller EXCEPT ![c] = "idle"]
          /\ result' = [result EXCEPT ![c] = 0]
          /\ returned' = [value |-> Failed, state |-> "error"]
    /\ CallerSame

\* The head of the loop; the time may be up.  The value is that of the last
\* wait if the client is connected.
Loop(c) ==
    /\ At(c, "loop")
    /\ \/ /\ state \notin {"connected", "error"} /\ running
          /\ To(c, "wait")
       \/ Return(c, IF state = "connected" THEN result[c] ELSE Failed)
    /\ UNCHANGED <<state, network>> /\ CallerSame

\* mcp_cond_timedwait returns: signalled or not.  A client that is disconnected
\* is connected again, and so is one that has been connecting for 2 seconds.
Wake(c) ==
    /\ At(c, "wait")
    /\ \E r \in {0, TimedOut}, long \in BOOLEAN :
          IF state = "disconnected" \/ (state = "connecting" /\ long)
          THEN IF running
               THEN /\ caller' = [caller EXCEPT ![c] = "connect"]
                    /\ result' = [result EXCEPT ![c] = r]
                    /\ UNCHANGED returned
               ELSE Return(c, Failed)
          ELSE /\ caller' = [caller EXCEPT ![c] = "loop"]
               /\ result' = [result EXCEPT ![c] = r]
               /\ UNCHANGED returned
    /\ UNCHANGED <<state, network>> /\ CallerSame

-----------------------------------------------------------------------------
Next ==
    \/ Start \/ StartFails \/ OwnerConnects \/ OwnerDials
    \/ Stop \/ StopEvents \/ Cleanup \/ Destroy
    \/ Established \/ MarkEstablished \/ ConnectionError \/ MarkError
    \/ Closed \/ MarkClosed \/ NeedsReconnect \/ HandleReconnect
    \/ EventConnects \/ EventDials \/ EventEnds
    \/ \E c \in Callers : \/ Ensure(c) \/ Decide(c) \/ CallerConnects(c)
                          \/ CallerDials(c) \/ Loop(c) \/ Wake(c)

Spec == Init /\ [][Next]_vars

-----------------------------------------------------------------------------
TypeOK ==
    /\ flags \in BOOLEAN \X BOOLEAN
    /\ state \in States
    /\ wsi \in Connections \cup {None}
    /\ attempts \in 0 .. MaxReconnects
    /\ owner \in {"created", "connect", "dial", "up", "stopping", "joining", "stopped",
                  "freed"}
    /\ event \in {"none", "service", "established", "error", "closed", "reconnect",
                  "connect", "dial", "done"}
    /\ caller \in [Callers -> {"idle", "decide", "connect", "dial", "loop", "wait"}]
    /\ result \in [Callers -> {0, TimedOut}]
    /\ returned \in [value : {0, Failed, TimedOut}, state : States]
    /\ dialled \subseteq Connections /\ live \subseteq Connections
    /\ made \in 0 .. MaxConnections

\* When the client says it is connected it has the handle of a connection that
\* is established, whatever connections were made at the same time and
\* whichever of them was closed (outside the callbacks, which write the two one
\* after the other).
ConnectedHasWsi ==
    /\ wsi \in live \cup {None}
    /\ state = "connected" /\ event \notin {"established", "closed", "error"} => wsi # None

\* Once stop has returned there is no connection and no event thread.
StoppedHasNothing ==
    owner \in {"stopped", "freed"} => live \cup dialled = {} /\ event = "none" /\ ~running

\* ws_client_wait_for_connection returns 0 when it logs "successfully connected".
WaitReportsConnection == returned.state = "connected" => returned.value = 0

\* "Cancel any pending connection and try again": no more than one connection
\* is kept.
OneConnection == Cardinality(live \cup dialled) <= 1
=============================================================================
