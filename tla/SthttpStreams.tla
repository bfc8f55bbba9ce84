---------------------------- MODULE SthttpStreams ----------------------------
(* The event streams of the streamable HTTP transport: the stored events with   *)
(* the hash map that finds them, and the growing array of connected clients.    *)
(* Sources: src/transport/mcp_sthttp_utils.c, mcp_sthttp_dynamic_utils.c,       *)
(* mcp_sthttp_threads.c, mcp_sthttp_callbacks.c.                                *)
(*                                                                             *)
(* Requests and closures run in the event thread, one at a time; broadcasts     *)
(* come from any thread and the removal of dead clients from the cleanup        *)
(* thread.  Each function holds its mutex throughout and is one action.         *)
EXTENDS Naturals, Sequences, SequencesExt, FiniteSets

CONSTANTS Wsis,             \* connections
          Ids,              \* event ids given by the caller
          NULL,
          MaxStored,        \* max_stored_events
          InitialCapacity,
          MaxEvents         \* bound: events that get an id of their own

VARIABLES stored_events,    \* the ids in the ring, by position
          event_head, event_tail, stored_event_count,
          next_event_id,
          event_hash,       \* id -> position
          replayed,         \* the id the last replay was asked for, and what it sent
          clients, client_count,
          wsi,              \* of a connection: its socket, and its user data
          broken            \* a connection was used that is freed

log == <<stored_events, event_head, event_tail, stored_event_count, next_event_id,
         event_hash>>
array == <<clients, client_count>>
vars == <<log, replayed, array, wsi, broken>>

AllIds == Ids \cup 1 .. MaxEvents
Positions == 0 .. MaxStored - 1

TypeOK ==
    /\ stored_events \in [Positions -> AllIds \cup {NULL}]
    /\ event_head \in Positions /\ event_tail \in Positions
    /\ stored_event_count \in 0 .. MaxStored
    /\ next_event_id \in 1 .. MaxEvents + 1
    /\ DOMAIN event_hash \subseteq AllIds
    /\ \A id \in DOMAIN event_hash : event_hash[id] \in Positions
    /\ replayed.last \in AllIds \cup {NULL} /\ replayed.events \in Seq(AllIds)
    /\ clients \in Seq(Wsis \cup {NULL}) /\ client_count \in Nat
    /\ wsi \in [Wsis -> [socket : {"none", "open", "dead", "freed"}, is_sse_stream : BOOLEAN]]
    /\ broken \in BOOLEAN

Init ==
    /\ stored_events = [i \in Positions |-> NULL]
    /\ event_head = 0 /\ event_tail = 0 /\ stored_event_count = 0
    /\ next_event_id = 1
    /\ event_hash = <<>>
    /\ replayed = [last |-> NULL, events |-> <<>>]
    /\ clients = [i \in 1 .. InitialCapacity |-> NULL]
    /\ client_count = 0
    /\ wsi = [w \in Wsis |-> [socket |-> "none", is_sse_stream |-> FALSE]]
    /\ broken = FALSE

-----------------------------------------------------------------------------
(* Stored events *)

\* event_hash_map_put and event_hash_map_remove.
Put(map, id, at) == [x \in DOMAIN map \cup {id} |-> IF x = id THEN at ELSE map[x]]
Without(map, id) == [x \in DOMAIN map \ {id} |-> map[x]]

\* Mutant: the hash map keeps what the ring drops.
StoreKeepHash(event_id) ==
    LET id == IF event_id = NULL THEN next_event_id ELSE event_id
        full == stored_event_count = MaxStored
    IN  /\ event_id = NULL => next_event_id <= MaxEvents
        /\ next_event_id' = IF event_id = NULL THEN next_event_id + 1 ELSE next_event_id
        /\ stored_events' = [stored_events EXCEPT ![event_tail] = id]
        /\ event_hash' = Put(event_hash, id, event_tail)
        /\ event_head' = IF full THEN (event_head + 1) % MaxStored ELSE event_head
        /\ event_tail' = (event_tail + 1) % MaxStored
        /\ stored_event_count' = IF full THEN stored_event_count ELSE stored_event_count + 1
        /\ UNCHANGED <<replayed, array, wsi, broken>>

\* sse_stream_context_store_event: a full ring drops its oldest event first.
StoreEvent(event_id) ==
    LET id == IF event_id = NULL THEN next_event_id ELSE event_id
        full == stored_event_count = MaxStored
        map == IF full THEN Without(event_hash, stored_events[event_tail]) ELSE event_hash
    IN  /\ event_id = NULL => next_event_id <= MaxEvents
        /\ next_event_id' = IF event_id = NULL THEN next_event_id + 1 ELSE next_event_id
        /\ stored_events' = [stored_events EXCEPT ![event_tail] = id]
        /\ event_hash' = Put(map, id, event_tail)
        /\ event_head' = IF full THEN (event_head + 1) % MaxStored ELSE event_head
        /\ event_tail' = (event_tail + 1) % MaxStored
        /\ stored_event_count' = IF full THEN stored_event_count ELSE stored_event_count + 1
        /\ UNCHANGED <<replayed, array, wsi, broken>>

\* The events in the ring, oldest first.
Kept == [i \in 1 .. stored_event_count |-> stored_events[(event_head + i - 1) % MaxStored]]

\* The number of events to skip: found by the hash map, or by comparing ids.
StartIndex(last) ==
    LET hit == last \in DOMAIN event_hash
        i == (event_hash[last] + MaxStored - event_head) % MaxStored
    IN  IF hit /\ i < stored_event_count THEN i + 1
        ELSE SelectInSeq(Kept, LAMBDA id : id = last)

\* sse_stream_context_replay_events, of the events that belong to no session.
Replay(last) == SubSeq(Kept, StartIndex(last) + 1, stored_event_count)

-----------------------------------------------------------------------------
(* Connected clients *)

Free == {i \in DOMAIN clients : clients[i] = NULL}

\* dynamic_sse_clients_add, with grow_clients_array.
Add(w) ==
    /\ clients' =
           IF Free # {} THEN [clients EXCEPT ![CHOOSE i \in Free : \A j \in Free : i <= j] = w]
           ELSE [i \in 1 .. 2 * Len(clients) |->
                     IF i = client_count + 1 THEN w
                     ELSE IF i <= Len(clients) THEN clients[i] ELSE NULL]
    /\ client_count' = client_count + 1

\* Mutant: the count follows even when the client is not there any more.
DropClientAlways(w) ==
    /\ clients' = [i \in DOMAIN clients |-> IF clients[i] = w THEN NULL ELSE clients[i]]
    /\ client_count' = IF client_count > 0 THEN client_count - 1 ELSE 0

\* dynamic_sse_clients_remove.
DropClient(w) ==
    IF Contains(clients, w)
    THEN /\ clients' = [clients EXCEPT ![SelectInSeq(clients, LAMBDA x : x = w)] = NULL]
         /\ client_count' = client_count - 1
    ELSE UNCHANGED array

\* dynamic_sse_clients_cleanup: the cleanup thread drops who has no socket.
Cleanup ==
    LET live(x) == x # NULL /\ wsi[x].socket = "open"
    IN  /\ clients' = [i \in DOMAIN clients |-> IF live(clients[i]) THEN clients[i] ELSE NULL]
        /\ client_count' = Cardinality({i \in DOMAIN clients : live(clients[i])})
        /\ broken' = (broken \/ \E w \in Wsis : Contains(clients, w) /\ wsi[w].socket = "freed")
        /\ UNCHANGED <<log, replayed, wsi>>

\* dynamic_sse_clients_broadcast and dynamic_sse_clients_broadcast_heartbeat:
\* every entry's socket is looked at.
Broadcast ==
    /\ broken' = (broken \/ \E w \in Wsis : Contains(clients, w) /\ wsi[w].socket = "freed")
    /\ UNCHANGED <<log, replayed, array, wsi>>

-----------------------------------------------------------------------------
(* The event thread *)

\* handle_mcp_get_request: the client is added, then sent what it missed.  Its
\* stream has no events of its own, and those of no session are for clients
\* without one.
GetRequest(w, has_session, last) ==
    /\ wsi[w].socket = "none"
    /\ wsi' = [wsi EXCEPT ![w] = [socket |-> "open", is_sse_stream |-> TRUE]]
    /\ Add(w)
    /\ replayed' = IF last = NULL THEN replayed
                   ELSE [last |-> last, events |-> IF has_session THEN <<>> ELSE Replay(last)]
    /\ UNCHANGED <<log, broken>>

\* The same, when it fails before the client is added: the connection ends.
GetRequestFails(w) ==
    /\ wsi[w].socket = "none"
    /\ \E sse \in BOOLEAN :
        wsi' = [wsi EXCEPT ![w] = [socket |-> "dead", is_sse_stream |-> sse]]
    /\ UNCHANGED <<log, replayed, array, broken>>

\* The connection loses its socket.
Disconnect(w) ==
    /\ wsi[w].socket = "open"
    /\ wsi' = [wsi EXCEPT ![w].socket = "dead"]
    /\ UNCHANGED <<log, replayed, array, broken>>

\* handle_closed_http, after which libwebsockets frees the connection.
Closed(w) ==
    /\ wsi[w].socket = "dead"
    /\ IF wsi[w].is_sse_stream THEN DropClient(w) ELSE UNCHANGED array
    /\ wsi' = [wsi EXCEPT ![w].socket = "freed"]
    /\ UNCHANGED <<log, replayed, broken>>

\* The freed memory serves another connection.
Reuse(w) ==
    /\ wsi[w].socket = "freed"
    /\ wsi' = [wsi EXCEPT ![w] = [socket |-> "none", is_sse_stream |-> FALSE]]
    /\ UNCHANGED <<log, replayed, array, broken>>

Next ==
    \/ \E id \in Ids \cup {NULL} : StoreEvent(id)
    \/ Cleanup \/ Broadcast
    \/ \E w \in Wsis :
           \/ \E h \in BOOLEAN, last \in AllIds \cup {NULL} : GetRequest(w, h, last)
           \/ GetRequestFails(w) \/ Disconnect(w) \/ Closed(w) \/ Reuse(w)

Spec == Init /\ [][Next]_vars

-----------------------------------------------------------------------------
\* A closed connection is never looked at again by a broadcast or the cleanup,
\* no connection is in the array twice, and the count is exact, which growing
\* the array relies on, however closures, failed requests and the cleanup
\* thread interleave.
ClientsExact ==
    /\ ~broken
    /\ client_count = Cardinality(DOMAIN clients \ Free)
    /\ \A w \in Wsis :
           /\ Contains(clients, w) => wsi[w].socket \in {"open", "dead"}
           /\ wsi[w].socket = "open" => Contains(clients, w)
           /\ Cardinality({i \in DOMAIN clients : clients[i] = w}) <= 1

L == INSTANCE EventLog WITH Ids <- AllIds, kept <- Kept

\* The ring and the hash map implement a log of the last events: however ids
\* repeat and the ring wraps round, a replay begins right after an event with
\* the client's id, or sends everything when that event is gone.
ImplementsEventLog == L!Spec
=============================================================================
