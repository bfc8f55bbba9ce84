--------------------------- MODULE WebSocketServer ---------------------------
(* The clients of the WebSocket server transport: their slots and the bitmap    *)
(* of slots, the count of active clients, receive buffers from the buffer pool  *)
(* or the heap, pings and timeouts, start and stop.                             *)
(* Sources: src/transport/mcp_websocket_server_callback.c, _client.c, _bitmap.c, *)
(* _event.c, mcp_websocket_transport.c and src/common/mcp_buffer_pool.c.        *)
(*                                                                             *)
(* Callbacks and the checks of the event loop run in the event thread, so each  *)
(* is one action; stop acts after that thread has ended.                        *)
EXTENDS Naturals, FiniteSets, FiniteSetsExt

CONSTANTS Wsis,          \* connections
          max_clients,
          UintMax,       \* active_clients is counted modulo UintMax + 1
          Page,          \* what heap buffers are rounded up to
          DefaultSize,   \* WS_DEFAULT_BUFFER_SIZE
          buffer_size,   \* the size of the buffers of the pool
          PoolSize,      \* buffers the pool is created with
          Fragments,     \* sizes of the fragments received
          Prefix,        \* the size of a length prefix
          MaxMessage,    \* bound: the size of a message
          MaxPings,      \* WS_MAX_PING_FAILURES
          None

VARIABLES running,
          clients,         \* the slots
          client_bitmap,   \* the slots whose bit is set
          active_clients,
          opaque,          \* the slot a connection points to
          socket,          \* of a connection: "none", "open", "refused"
          pool,            \* the buffer pool: buffers that are free and out
          corrupted        \* realloc was given a buffer of the pool

vars == <<running, clients, client_bitmap, active_clients, opaque, socket, pool, corrupted>>

Slots == 0 .. max_clients - 1
NoBuffer == [from |-> "none", len |-> 0, used |-> 0]
Vacant == [wsi |-> None, state |-> "INACTIVE", buffer |-> NoBuffer,
           quiet |-> FALSE, ping_sent |-> 0]
FullPool == [free |-> PoolSize, out |-> 0]

TypeOK ==
    /\ running \in BOOLEAN /\ corrupted \in BOOLEAN
    /\ DOMAIN clients = Slots
    /\ \A s \in Slots :
           /\ clients[s].wsi \in Wsis \cup {None}
           /\ clients[s].state \in {"INACTIVE", "ACTIVE", "CLOSING"}
           /\ clients[s].buffer.from \in {"none", "pool", "heap"}
           /\ clients[s].ping_sent \in 0 .. MaxPings
    /\ client_bitmap \subseteq Slots
    /\ active_clients \in 0 .. UintMax
    /\ opaque \in [Wsis -> Slots \cup {None}]
    /\ socket \in [Wsis -> {"none", "open", "refused"}]
    /\ pool.free \in Nat /\ pool.out \in Nat

Init ==
    /\ running = FALSE
    /\ clients = [s \in Slots |-> Vacant]
    /\ client_bitmap = {}
    /\ active_clients = 0
    /\ opaque = [w \in Wsis |-> None]
    /\ socket = [w \in Wsis |-> "none"]
    /\ pool = FullPool
    /\ corrupted = FALSE

-----------------------------------------------------------------------------
(* The buffer pool: mcp_buffer_pool_acquire makes a buffer when none is free. *)

Acquire(p) == [free |-> IF p.free > 0 THEN p.free - 1 ELSE 0, out |-> p.out + 1]

ReleaseBuffer(p, buffer) ==
    IF buffer.from = "pool" THEN [free |-> p.free + 1, out |-> p.out - 1] ELSE p

-----------------------------------------------------------------------------
(* Slots *)

\* Mutant: the count of clients is taken for the first free slot.
FindSlotByCount == IF active_clients >= max_clients THEN None ELSE active_clients

\* ws_server_find_free_client_slot.
FindFreeSlot ==
    LET free == Slots \ client_bitmap
    IN  IF active_clients >= max_clients \/ free = {} THEN None ELSE Min(free)

\* LWS_CALLBACK_FILTER_NETWORK_CONNECTION, then LWS_CALLBACK_ESTABLISHED, which
\* ends the connection when it finds no slot.
Established(w) ==
    /\ running /\ socket[w] = "none"
    /\ active_clients < max_clients
    /\ LET s == FindFreeSlot
       IN  IF s = None
           THEN /\ socket' = [socket EXCEPT ![w] = "refused"]
                /\ UNCHANGED <<clients, client_bitmap, active_clients, opaque>>
           ELSE /\ socket' = [socket EXCEPT ![w] = "open"]
                /\ clients' = [clients EXCEPT ![s] = [Vacant EXCEPT !.wsi = w, !.state = "ACTIVE"]]
                /\ opaque' = [opaque EXCEPT ![w] = s]
                /\ client_bitmap' = client_bitmap \cup {s}
                /\ active_clients' = active_clients + 1
    /\ UNCHANGED <<running, pool, corrupted>>

\* unsigned --
Less1(n) == IF n = 0 THEN UintMax ELSE n - 1

\* Mutant: the buffer of the pool is not given back.
CleanupKeepsBuffer(s) ==
    /\ clients' = [clients EXCEPT ![s] = Vacant]
    /\ client_bitmap' = client_bitmap \ {s}
    /\ UNCHANGED pool

\* ws_server_client_cleanup, without the count.
ClientCleanup(s) ==
    /\ clients' = [clients EXCEPT ![s] = Vacant]
    /\ client_bitmap' = client_bitmap \ {s}
    /\ pool' = ReleaseBuffer(pool, clients[s].buffer)

\* LWS_CALLBACK_CLOSED counts the client off, and so does the cleanup unless the
\* count is 0.
Closed(w) ==
    /\ running /\ socket[w] # "none"
    /\ socket' = [socket EXCEPT ![w] = "none"]
    /\ opaque' = [opaque EXCEPT ![w] = None]
    /\ IF opaque[w] = None
       THEN UNCHANGED <<clients, client_bitmap, active_clients, pool>>
       ELSE /\ ClientCleanup(opaque[w])
            /\ active_clients' =
                   LET n == Less1(active_clients) IN IF n > 0 THEN n - 1 ELSE 0
    /\ UNCHANGED <<running, corrupted>>

-----------------------------------------------------------------------------
(* Receiving *)

RoundUp(n) == ((n + Page - 1) \div Page) * Page

\* The size ws_server_client_resize_buffer settles on: half as much again, in
\* pages, until it is enough.
NewLen(len, needed) ==
    LET grow[n \in Nat] == IF n >= needed THEN n ELSE grow[RoundUp(n + n \div 2)]
    IN  grow[IF len = 0 THEN DefaultSize ELSE RoundUp(len + len \div 2)]

\* ws_server_client_resize_buffer: from the pool when the size fits, else with
\* realloc or malloc.
Resized(b, needed) ==
    LET new_len == NewLen(b.len, needed)
    IN  IF b.len >= needed THEN b
        ELSE IF new_len <= buffer_size
             THEN [from |-> "pool", len |-> buffer_size, used |-> b.used]
             ELSE [from |-> "heap", len |-> new_len, used |-> b.used]

\* The pool after that.
ResizedPool(b, needed) ==
    LET new_len == NewLen(b.len, needed)
    IN  IF b.len < needed /\ new_len <= buffer_size
        THEN ReleaseBuffer(Acquire(pool), b) ELSE pool

\* realloc is given a buffer that is in the middle of a block of the pool.
ReallocOfPooled(b, needed) ==
    b.from = "pool" /\ b.len < needed /\ NewLen(b.len, needed) > buffer_size

\* The room ws_server_client_process_message wants, for a zero after the message.
ZeroRoom(b) == IF b.used < b.len THEN 0 ELSE b.used + 1

\* ws_server_client_handle_received_data; a length prefix is not copied.  After
\* the final fragment the message is processed and the buffer is empty again.
Receive(w, len, prefixed, final) ==
    LET s == opaque[w]
        b == clients[s].buffer
        put == IF prefixed THEN len - Prefix ELSE len
        needed == IF b.used + len > b.len THEN b.used + len ELSE 0
        c == [Resized(b, needed) EXCEPT !.used = @ + put]
    IN  /\ running /\ ~corrupted /\ socket[w] = "open"
        /\ prefixed => len > Prefix
        /\ b.used + len <= MaxMessage
        /\ clients' = [clients EXCEPT ![s].quiet = FALSE, ![s].ping_sent = 0,
               ![s].buffer = IF final THEN [Resized(c, ZeroRoom(c)) EXCEPT !.used = 0] ELSE c]
        /\ pool' = ResizedPool(b, needed)
        /\ corrupted' = (ReallocOfPooled(b, needed) \/ (final /\ ReallocOfPooled(c, ZeroRoom(c))))
        /\ UNCHANGED <<running, client_bitmap, active_clients, opaque, socket>>

-----------------------------------------------------------------------------
(* Pings *)

\* LWS_CALLBACK_RECEIVE_PONG, and LWS_CALLBACK_SERVER_WRITEABLE, which a ping asks
\* for and which sends nothing.
Active(w) ==
    /\ running /\ socket[w] = "open"
    /\ clients[opaque[w]].quiet
    /\ clients' = [clients EXCEPT ![opaque[w]].quiet = FALSE, ![opaque[w]].ping_sent = 0]
    /\ UNCHANGED <<running, client_bitmap, active_clients, opaque, socket, pool, corrupted>>

\* WS_PING_TIMEOUT_MS pass for a client.
Quiet(s) ==
    /\ clients[s].state = "ACTIVE" /\ ~clients[s].quiet
    /\ clients' = [clients EXCEPT ![s].quiet = TRUE]
    /\ UNCHANGED <<running, client_bitmap, active_clients, opaque, socket, pool, corrupted>>

\* ws_server_check_timeouts.
CheckTimeouts ==
    LET late == {s \in Slots : clients[s].state = "ACTIVE" /\ clients[s].quiet}
    IN  /\ running /\ late # {}
        /\ clients' = [s \in Slots |->
               IF s \notin late THEN clients[s]
               ELSE IF clients[s].ping_sent >= MaxPings
                    THEN [clients[s] EXCEPT !.state = "CLOSING"]
                    ELSE [clients[s] EXCEPT !.ping_sent = @ + 1]]
        /\ UNCHANGED <<running, client_bitmap, active_clients, opaque, socket, pool, corrupted>>

-----------------------------------------------------------------------------
(* Start and stop *)

\* ws_server_transport_start.
Start ==
    /\ ~running
    /\ running' = TRUE
    /\ clients' = [s \in Slots |-> Vacant]
    /\ client_bitmap' = {}
    /\ active_clients' = 0
    /\ pool' = FullPool
    /\ UNCHANGED <<opaque, socket, corrupted>>

\* ws_server_transport_stop: the event thread has ended; all clients are cleaned
\* up and the pool goes; the connections that are closed with the context count
\* off once more clients that are gone, which the next start forgets.
Stop ==
    /\ running
    /\ running' = FALSE
    /\ clients' = [s \in Slots |-> Vacant]
    /\ client_bitmap' = {}
    /\ active_clients' = 0
    /\ opaque' = [w \in Wsis |-> None]
    /\ socket' = [w \in Wsis |-> "none"]
    /\ pool' = [FullPool EXCEPT !.free = 0]
    /\ UNCHANGED corrupted

Next ==
    \/ \E w \in Wsis :
           \/ Established(w) \/ Closed(w) \/ Active(w)
           \/ \E len \in Fragments, prefixed, final \in BOOLEAN : Receive(w, len, prefixed, final)
    \/ \E s \in Slots : Quiet(s)
    \/ CheckTimeouts \/ Start \/ Stop

Spec == Init /\ [][Next]_vars

-----------------------------------------------------------------------------
\* A slot and a connection point at each other, the bitmap has the slots in use,
\* and no slot waits for ws_server_cleanup_inactive_clients, which looks for a
\* closing client without a connection: whatever the count of clients says, a
\* slot is never given to two connections.
SlotsExact ==
    /\ client_bitmap = {s \in Slots : clients[s].state # "INACTIVE"}
    /\ \A s \in client_bitmap :
           clients[s].wsi # None /\ opaque[clients[s].wsi] = s /\ socket[clients[s].wsi] = "open"
    /\ \A w \in Wsis : socket[w] = "open" => opaque[w] \in client_bitmap /\ clients[opaque[w]].wsi = w

\* Until a buffer of the pool is given to realloc, the pool counts the buffers
\* that clients hold, no heap buffer has the size by which the code knows those
\* of the pool, and what was received fits.
BuffersExact ==
    ~corrupted =>
        /\ running => pool.out = Cardinality({s \in Slots : clients[s].buffer.from = "pool"})
        /\ \A s \in Slots :
               LET b == clients[s].buffer
               IN  b.used <= b.len /\ (b.from = "pool" <=> b.len = buffer_size)

\* The count of active clients is their number.
ActiveClientsExact == active_clients = Cardinality(client_bitmap)

\* A buffer acquired from the pool is only ever released to it.
PooledNotReallocated == ~corrupted
=============================================================================
