----------------------------- MODULE MCRequests ------------------------------
(* Requests and who answers them, for TLC: the client's requests and the table   *)
(* they are kept in, the dispatch of requests in the server, and the sessions,    *)
(* streams and connections of its HTTP and WebSocket transports.  "part" says     *)
(* which one runs.                                                             *)
(*                                                                             *)
(* The client's requests go over an asynchronous transport, the same with a       *)
(* table so small that it moves, or over a synchronous transport.               *)
EXTENDS ClientRequests, Sequences, TLC

VARIABLES part, table, t_slots, count

Symmetry == Permutations(Callers)

Small == INSTANCE ClientRequests WITH Capacity <- 2
Sync == INSTANCE ClientRequests WITH Synchronous <- TRUE

\* Ids that collide.  Id i of the code's fast path hashes to i * 2654435761,
\* which is i * 177 in the 8 low bits that tables of up to 256 slots look at.  Five
\* of them collide in 16 slots, so that a resize goes beyond the probes of a search.
TableIds == {1, 3, 17, 33, 49, 65}

Table == INSTANCE RequestTable WITH
    capacity <- t_slots, Ids <- TableIds, Hash <- [id \in TableIds |-> id * 177],
    InitialCapacity <- 8, MaxCapacity <- 16, SmallTable <- 16, ProbeLimit <- 2, RehashLimit <- 4

tableVars == <<table, t_slots, count>>

-----------------------------------------------------------------------------
(* Two clients of server-sent events, one with a filter and each with a session:  *)
(* events sent by the event thread alone, and by another thread as well          *)

VARIABLES ring, e_head, e_tail, e_count, e_sent, sse_clients, sender, client, e_broken

sseVars == <<ring, e_head, e_tail, e_count, e_sent, sse_clients, sender, client, e_broken>>

Call(event, session) == [event |-> event, session |-> session]

Calls == {Call("a", "x"), Call("b", "y"), Call("a", "y"), Call("NULL", "x")}

OneSender == INSTANCE HttpSse WITH
    head <- e_head, tail <- e_tail, count <- e_count, sent <- e_sent,
    broken <- e_broken, Senders <- {"e"}, Clients <- {"c1", "c2"}, Session <- [c1 |-> "x", c2 |-> "y"],
    Filter <- [c1 |-> "NULL", c2 |-> "a"], NULL <- "NULL", Serial <- TRUE,
    MaxStored <- 2, MaxClients <- 2, MaxEvents <- 3

Concurrent == INSTANCE HttpSse WITH
    head <- e_head, tail <- e_tail, count <- e_count, sent <- e_sent,
    broken <- e_broken, Senders <- {"e"}, Clients <- {"c1", "c2"}, Session <- [c1 |-> "x", c2 |-> "y"],
    Filter <- [c1 |-> "NULL", c2 |-> "a"], NULL <- "NULL", Serial <- FALSE,
    MaxStored <- 2, MaxClients <- 1, MaxEvents <- 3

-----------------------------------------------------------------------------
(* Two session slots for three sessions, with the default timeout or none *)

VARIABLES slots, active_count, h_next_id, h_worker, ended, h_running, cleanup_shutdown,
          cleaner

sessionVars == <<slots, active_count, h_next_id, h_worker, ended, h_running,
                 cleanup_shutdown, cleaner>>

Sessions == INSTANCE HttpSessions WITH
    worker <- h_worker, running <- h_running, next_id <- h_next_id, Workers <- {"w"}, MaxSessions <- 2,
    Timeouts <- {0, 9}, Default <- 1, Never <- 9, MaxIds <- 3

-----------------------------------------------------------------------------
(* Streams: three events for a ring of two, and three clients for an array of one *)

VARIABLES stored_events, event_head, event_tail, stored_event_count, next_event_id,
          event_hash, replayed, s_clients, client_count, wsi, s_broken

streamVars == <<stored_events, event_head, event_tail, stored_event_count,
                next_event_id, event_hash, replayed, s_clients, client_count, wsi,
                s_broken>>

Stored == INSTANCE SthttpStreams WITH
    clients <- s_clients, broken <- s_broken, Wsis <- {11}, Ids <- {1}, NULL <- 0,
    InitialCapacity <- 1, MaxEvents <- 3, MaxStored <- 2

Streams == INSTANCE SthttpStreams WITH
    clients <- s_clients, broken <- s_broken, Wsis <- {11, 12, 13}, Ids <- {1}, NULL <- 0,
    InitialCapacity <- 1, MaxEvents <- 1, MaxStored <- 1

-----------------------------------------------------------------------------
(* Three WebSocket connections for two slots, and one buffer in the pool *)

VARIABLES w_running, w_clients, client_bitmap, active_clients, opaque, socket, pool,
          corrupted

webSocketVars == <<w_running, w_clients, client_bitmap, active_clients, opaque, socket,
                   pool, corrupted>>

WebSockets == INSTANCE WebSocketServer WITH
    running <- w_running, clients <- w_clients, Wsis <- {11, 12, 13}, max_clients <- 2,
    UintMax <- 7, Page <- 4, DefaultSize <- 4, buffer_size <- 4, PoolSize <- 1,
    Fragments <- {2, 4}, Prefix <- 1, MaxMessage <- 6, MaxPings <- 1, None <- 99

-----------------------------------------------------------------------------
(* Batches of up to three of the requests below, notifications, responses and      *)
(* what is no message at all                                                     *)

VARIABLES api_key, supported, payload, d_messages, context, buffer, d_next, responses, final,
          phase

dispatchVars == <<api_key, supported, payload, d_messages, context, buffer, d_next, responses,
                  final, phase>>

Object(id, method, params, result, error, key) ==
    [value |-> "object", id |-> id, method |-> method, params |-> params,
     result |-> result, error |-> error, key |-> key]

Request(method, params, key) == Object("number", method, params, "none", "none", key)

Items == {Request("ping", "none", "none"), Request("call_tool", "named", "k"),
          Request("read_resource", "named", "none"), Request("list_tools", "unnamed", "x"),
          Request("get_performance_metrics", "none", "none"),
          Object("none", "note", "none", "none", "none", "none"),
          Object("number", "none", "none", "some", "none", "none"),
          Object("number", "none", "none", "some", "object", "none"),
          [Request("none", "none", "none") EXCEPT !.value = "other"]}

Dispatches == INSTANCE Dispatch WITH
    messages <- d_messages, i <- d_next, Items <- Items, MaxBatch <- 3, ApiKeys <- {"NULL", "", "k"},
    Sources <- [cached : {FALSE}, template : {"none", "error", "nothing", "contents"},
                handler : {"none", "nothing", "error", "contents"}, listed : BOOLEAN]

-----------------------------------------------------------------------------
(* All of them side by side *)

webVars == <<sseVars, sessionVars, streamVars, webSocketVars, dispatchVars>>

WebParts == {"one_sender", "concurrent", "sessions", "stored", "streams", "websocket",
             "dispatch"}

WebInit ==
    /\ OneSender!Init /\ Sessions!Init /\ WebSockets!Init /\ Dispatches!Init
    /\ part # "dispatch" => api_key = "NULL" /\ supported
    /\ IF part = "streams" THEN Streams!Init ELSE Stored!Init

WebNext ==
    \/ /\ \/ part = "one_sender" /\ OneSender!Next
          \/ part = "concurrent" /\ Concurrent!Next
       /\ UNCHANGED <<sessionVars, streamVars, webSocketVars, dispatchVars>>
    \/ /\ part = "sessions" /\ Sessions!Next
       /\ UNCHANGED <<sseVars, streamVars, webSocketVars, dispatchVars>>
    \/ /\ \/ part = "stored" /\ Stored!Next
          \/ part = "streams" /\ Streams!Next
       /\ UNCHANGED <<sseVars, sessionVars, webSocketVars, dispatchVars>>
    \/ /\ part = "websocket" /\ WebSockets!Next
       /\ UNCHANGED <<sseVars, sessionVars, streamVars, dispatchVars>>
    \/ /\ part = "dispatch" /\ Dispatches!Next
       /\ UNCHANGED <<sseVars, sessionVars, streamVars, webSocketVars>>

RequestsInit ==
    /\ part \in {"async", "small", "sync", "table"} \cup WebParts
    /\ IF part = "small" THEN Small!Init ELSE Init
    /\ Table!Init /\ WebInit

ClientNext ==
    \/ /\ \/ part = "async" /\ Next
          \/ part = "small" /\ Small!Next
          \/ part = "sync" /\ Sync!Next
       /\ UNCHANGED tableVars
    \/ part = "table" /\ Table!Next /\ UNCHANGED vars

RequestsNext ==
    \/ ClientNext /\ UNCHANGED webVars
    \/ part \in WebParts /\ WebNext /\ UNCHANGED <<vars, tableVars>>

RequestsVars == <<part, vars, tableVars, webVars>>

RequestsSpec == RequestsInit /\ [][RequestsNext /\ UNCHANGED part]_RequestsVars

\* The client whose table moves, alone.
SmallSpec ==
    /\ part = "small" /\ Small!Init /\ Table!Init /\ WebInit
    /\ [][Small!Next /\ UNCHANGED <<part, tableVars, webVars>>]_RequestsVars

\* The types of the parts' states.
TypesOK ==
    /\ TypeOK /\ Table!TypeOK
    /\ part = "one_sender" => OneSender!TypeOK
    /\ part = "concurrent" => Concurrent!TypeOK
    /\ part = "sessions" => Sessions!TypeOK
    /\ part = "stored" => Stored!TypeOK
    /\ part = "streams" => Streams!TypeOK
    /\ part = "websocket" => WebSockets!TypeOK
    /\ part = "dispatch" => Dispatches!TypeOK

\* The states have their types; mcp_client_find_pending_request_entry finds a
\* request exactly if it is pending, through tombstones, probe limit and resizes;
\* pending_requests_count is the number of live entries and no id has two.
TableExact ==
    TypesOK /\ (part = "table" => Table!LookupFindsPending /\ Table!CountExact)

\* The requests change the set of pending ids as PendingSet says, and adding,
\* removing and resizing in the table do as well.
RefinesPendingSet == UsesPendingSet /\ Table!ImplementsPendingSet

\* A transport's table of clients and its connections agree.  HTTP: a session ends
\* once, by its client or by its timeout, and the count of the active ones is exact.
\* WebSocket: a connection has one slot, whose bit is set, and the receive buffers
\* that are out are those of the slots.  Streamable HTTP: the streams in the array
\* are the open ones, each once.
WebClientsExact ==
    /\ part = "sessions" => Sessions!SessionsEndOnce
    /\ part = "websocket" => WebSockets!SlotsExact /\ WebSockets!BuffersExact
    /\ part = "stored" => Stored!ClientsExact
    /\ part = "streams" => Streams!ClientsExact

\* The ring of stored events holds the last ones sent, and the list of clients
\* those that are connected; and when only the event thread sends, a client that
\* comes back before the ring has wrapped has missed nothing that is meant for it.
EventsExact ==
    /\ part = "one_sender" => OneSender!RingAndListExact /\ OneSender!SerialNothingMissed
    /\ part = "concurrent" => Concurrent!RingAndListExact

\* The ring of a streamable HTTP transport with the hash table of its positions is
\* a log that keeps the last events and replays those after an id.
ImplementsEventLog == Stored!L!Init /\ [][part = "stored" => Stored!L!Next]_(Stored!L!vars)

\* The responses to a payload answer its requests, in their order and each at most
\* once, and when all of it is valid they answer every one.
AnswersMatchRequests == part = "dispatch" => Dispatches!AnswersMatchRequests
=============================================================================
