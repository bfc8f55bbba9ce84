# Formal models of SupaMCP

This directory holds TLA+ models of SupaMCP, the C implementation of the Model
Context Protocol in this repository: what its concurrent and stateful parts do,
the properties they should have, TLC configurations that check the properties on
small instances, and TLAPS proofs of the most important ones for all instances.
Paths below are relative to the repository; line numbers are in `PROJECT.json`,
which maps every definition to the code it models.

## 1. The system

An MCP **server** receives JSON-RPC requests over a **transport** (stdio, TCP,
HTTP with SSE, streamable HTTP, WebSocket, MQTT), checks them against a rate
limit and credentials, dispatches them to resource, tool and template handlers
or, as a **gateway**, forwards them to other servers, and sends the response
back. A **client** numbers its requests, keeps a table of those that wait for an
answer, and matches the answers that its transport's receive thread delivers.
Below both is a **common** library: threads, locks and condition variables, a
work-stealing thread pool, memory pools and caches, hash tables, lists, framing,
sockets, JSON, logging.

### Inventory

For every part: its state, its operations, who calls them, what makes it hard,
and what should be true of it.

| Part (source) | State and operations | Hard behaviour | What should hold | Module |
|---|---|---|---|---|
| Basic rate limiter (`server/mcp_rate_limiter.c`) | hash table of per-client windows; check, grow, free | growth rehashes entries; window boundaries | entries stay findable; the rate is bounded; no unjustified refusal | `RateLimiter` |
| Request gate, start, stop, destroy (`server/mcp_server.c`, `mcp_server_task.c`) | `running`, `shutting_down`, `active_requests`; the transport callback | callbacks race with stop; early returns between the counter's increment and decrement | no callback on a freed server; the counter is exact; stop returns | `ServerGate` |
| TCP server transport (`transport/mcp_tcp_*.c`, server side) | client slots, accept thread, handler tasks, cleanup thread | slot reuse, unlocked writes of a slot's state, stop while clients are connected | one handler per slot, no socket leaked or closed twice, stop returns | `TcpServer` |
| Table of pending requests (`client/mcp_client_hash_table.c`) | open addressing with tombstones; add, find, remove, resize | probe limits, reuse of removed ids | what is pending is found; the count is exact | `RequestTable`, `PendingSet` |
| Client requests (`client/mcp_client_request.c`, `mcp_client_core.c`) | ids, table entries with status, condition variables; send, wait, receive, time out | answers late, lost, duplicate or before the wait; the table moves while a thread waits | each call gets its own answer, entries do not leak, calls return | `ClientRequests` |
| Connection pool (`connection_pool/`) | list of idle connections, counters, maintenance thread; get, release, destroy | the mutex is released while connecting, checking and closing | no connection shared or leaked, counters exact, no waiter forgotten | `ConnectionPool` |
| Work-stealing deque (`common/mcp_thread_pool_deque.c`) | `top`, `bottom`, ring buffer; push, pop, steal | lock-free races for the last task, ring reuse | a task is taken once and never lost | `WorkDeque` |
| Thread pool (`common/mcp_thread_pool*.c`) | threads, deques, counters, shutdown flag; create, add, worker loop, resize, wait, destroy | start-up, resizing and shutdown races | accepted tasks run; wait and destroy keep their promises | `ThreadPool` |
| Cache of resources (`server/mcp_cache.c`) | hash table, LRU list, expiry times, pooled content items; get, put, invalidate, prune, destroy | get copies items after it has given up the lock; any allocation may fail half-way | table and list agree, capacity holds, hits are valid | `Cache` |
| Limiter with rules (`server/mcp_advanced_rate_limiter.c`) | rules by key type, one entry per key, four algorithms; check, add and remove a rule, clear | rules change under entries made for other rules; checks that overlap | every algorithm keeps its bound | `AdvancedRateLimiter` |
| TCP client (`transport/mcp_tcp_client_*.c`) | socket, receive thread, reconnect thread and flag; start, send, receive, reconnect, stop | a send error, a read error and a manual reconnection meet; a reconnection is asked for before start or after stop; threads outlive their connection | one reconnector; between start and stop no socket leaked | `TcpClient` |
| WebSocket client (`transport/mcp_websocket_client_*.c`) | connection state, event thread, one slot for a response, one send buffer; start, wait, sendv, receive, stop | callbacks race with callers; responses that come late | the state matches the connection, a response has one owner and is not older than the request it is returned for | `WebSocketLink`, `WebSocketExchange` |
| Gateway pool (`gateway/mcp_gateway_pool.c`, `mcp_gateway_routing.c`) | linked list of idle clients, three counters; get, release, forward, destroy | the walk over the list gives the lock up in its middle | no client used twice, the counters cover all clients | `GatewayPool` |
| MQTT stored sessions and outgoing queue (`transport/mqtt_session_persistence.c`, `mcp_mqtt_*.c`) | one file for a session, rewritten section by section; in-flight messages, packet ids; a queue with a limit | the process is killed in the middle of a save; a save beside a load; two critical sections of one addition | what was acknowledged can be loaded in full, no part of a list is; the limits hold | `MqttSession` |
| HTTP server with SSE (`transport/mcp_http_server_*.c`) | ring of stored events, list of clients; send, connect, replay, close | a thread sends while clients come and go; a client comes back with the id of its last event | ring and list are exact, nothing is missed within the ring | `HttpSse` |
| HTTP sessions (`transport/mcp_http_session_manager.c`) | slots with expiry, cleanup thread; create, look up, touch, terminate | sessions that expire or end while a request holds a pointer | a session ends once; an expired one is freed | `HttpSessions` |
| Streamable HTTP server (`transport/mcp_sthttp_*.c`) | stored events with a hash map, growing array of clients; store, replay, broadcast, remove | ring positions that are used again, array growth, removal by two threads | the ring is a log; the array holds the open streams | `SthttpStreams`, `EventLog` |
| HTTP client (`transport/mcp_http_client_*.c`) | event thread, descriptors, one slot for a response; start, send, receive, stop | stop and the event thread both close the stream | a descriptor has one owner; a lone caller gets its own response | `HttpClient` |
| Streamable HTTP client (`transport/mcp_sthttp_client_*.c`) | state, session id, attempts to connect | two ways of reading a response; a session that the server replaces or a call ends, without a lock | the session is the one named last, as long as calls that change it do not overlap | `SthttpClient` |
| Standard input and output (`transport/mcp_stdio_transport.c`) | pipe, stream buffer, read thread; send, receive, stop | frames in the buffer that select does not see; refused lengths; stop while the thread reads | frames are handed on in order, each once, and none is lost until the body of a refused one is left in the stream | `Stdio` |
| WebSocket server (`transport/mcp_websocket_server_*.c`, `common/mcp_buffer_pool.c`) | slots with a bitmap, count, receive buffers from a pool or the heap; connect, receive, close, ping, time out, stop | slots reused; buffers that grow and change their origin | slots, bitmap and connections agree; a buffer has one owner | `WebSocketServer` |
| WebSocket connection pool (`transport/mcp_websocket_connection_pool.c`) | array of connections, counters, health check; get, release | connections made and closed outside of the lock | no client is lent twice | `WebSocketPool` |
| Memory pools and thread cache (`common/mcp_memory_pool.c`, `mcp_thread_cache.c`) | free lists, cached blocks, list of recently used ones; allocate, free, configure, flush | blocks of one class that serve another; positions moved by eviction | a block is in one place and large enough | `ThreadCache` |
| Object pools (`common/mcp_object_pool.c`) | free list, caches of threads by pool, capacity; acquire, release, destroy | a thread's slot is taken over by another pool; the capacity is checked outside of the lock | an object has one holder; the capacity is nearly kept | `ObjectPool` |
| Object caches (`common/mcp_object_cache.c`) | caches by type with constructor and destructor; allocate, free, configure, flush | sizes and constructors that change while objects are cached | an object is in one place | `ObjectCache` |
| Hash table (`common/mcp_hashtable.c`) | chains, capacity; put, batch, get, remove, clear | growth, allocations that fail | it is a map that owns its values | `HashTable`, `OwningMap` |
| DNS cache (`connection_pool/mcp_connection_pool_dns_cache.c`, `_socket.c`) | slots with reference counts and expiry; look up, store, release, clear | a slot chosen before the name is resolved and used after | a list is counted and freed once | `DnsCache` |
| Schema cache (`json/mcp_json_schema_cache.c`) | table and list of compiled schemas; find, add, evict, remove, clear, validate | the lock is given up between find and use | table and list agree within the capacity | `SchemaCache` |
| Gateway configuration and routing (`gateway/mcp_gateway_config*.c`, `mcp_gateway_routing.c`) | list of backends, cache of methods; load, reload, find | pointers into a list that a reload frees | no backend of a freed list is used | `BackendCache` |
| Templates (`common/mcp_template*.c`, `server/mcp_server_template_router.c`, `server/mcp_template_security.c`, `client/mcp_client_template.c`) | cache of parsed templates, validators; expand, match, extract, route | two implementations of one language; a cache without a lock | a URI is routed to the first match, with parameters that expand to it | `TemplateRoutes` |
| Dispatch and handlers (`server/mcp_server_dispatch.c`, `mcp_server_handlers.c`, `mcp_auth.c`, `json/mcp_json_message.c`) | one payload and its messages; parse, authenticate, handle, answer | batches in which some messages are invalid | answers belong to the requests, each at most once | `Dispatch` |
| Sockets and framing (`common/mcp_socket_utils.c`, `mcp_framing.c`) | addresses of a host, a socket's mode, the bytes of a connection, a vector of buffers; connect, listen, send, receive, wait | partial writes and reads, lengths that are refused, errors that do not show, a clock of whole seconds | one socket is left open, in the mode asked for; messages arrive as they were sent; a wait ends near its timeout | `TcpStream` |
| JSON text, logging, metrics, programs | text, system calls, counters | | | not modelled |


## 2. Modules and code

`PROJECT.json` gives for every definition the file and the lines it stands for.
A step of a model is what one thread does between two points at which another
thread can see the difference: a critical section is one step, and what happens
between two critical sections (a connect, a close, a copy) is a step of its own.
Data is abstracted: a message is a number, a name a model value, a payload
nothing; above `TcpStream` frames are sent and received whole or fail. What C leaves undefined (a
read of freed memory, an unlock of another thread's lock) is either a choice of
every outcome or an absorbing state (`undefined`, `broken`, `crashed`), and the
properties are then about everything that happens before it; each such state is
described in section 6.

| Module | State | Actions |
|---|---|---|
| `RateLimiter` | buckets, clock; history of grants and refusals | `CheckNewWindow`, `CheckInWindow`, `CheckDenied`, time |
| `AdvancedRateLimiter` | list of rules, entries; history of grants | `Check` of a request with up to one key of each type, `AddRule`, `RemoveRule`, `ClearData`, time |
| `Cache` | table, LRU list, entries, items that were given back | get in three looks and a copy, put in preparation and insertion, invalidate, prune, destroy |
| `ServerGate` | flags, counter, owner, transport threads | the callback's steps with its early returns; start, stop, destroy |
| `TcpStream` | the socket asked for; bytes under way, what each sender has left to write, what the receiver needs; clock and waiting thread | the steps of connect and listen for each address; write and read as far as possible, one message or a batch, close, reset, stop; the rounds of a wait |
| `TcpServer` | slots, accept thread, tasks, handlers, owner, sockets | accept and its error paths, handler steps, marking of idle clients, stop |
| `PendingSet` | a set of ids | register, complete: what the client's table promises |
| `RequestTable` | slots with tombstones, count, capacity | add, remove, with probing and resizing |
| `ClientRequests` | entries, callers, requests and answers under way | the steps of a call, delivery, loss, transport errors, timeouts |
| `ConnectionPool` | idle list, counters, users, maintenance thread | get, wait, release, idle scan, health checks, refill, destroy |
| `GatewayPool` | linked idle list, counters, forwarders | get with its walk, connect, wait, release, ageing, destroy |
| `WorkDeque` | top, bottom, ring buffer, each thread's locals | every shared read and write of push, pop and steal |
| `ThreadPool` | threads, deques, counters, submitters, waiter | create, add, worker loop, resize, smart adjustment, wait, destroy |
| `TcpClient` | socket, state, handles, threads | start, send, receive, reconnect by thread or by hand, stop |
| `WebSocketLink` | state, handle, event thread, callers | connect, callbacks, reconnection, waiting, stop |
| `WebSocketExchange` | response slot, send buffer, callers | sendv and its wait, receive, arrival of messages, stop |
| `HttpSse` | ring, list of clients, senders, history of events | send in its critical sections, connect with replay, close |
| `HttpSessions` | slots, count, pointers held by workers, cleanup thread | create, get, terminate, touch, user data, time, cleanup, start and stop |
| `EventLog` | the events kept | store, replay: what stored events promise |
| `SthttpStreams` | ring, hash map, array of clients, connections | store, replay, request, closure, broadcast, cleanup, growth |
| `WebSocketServer` | slots, bitmap, count, buffers | connect, receive with growth, close, ping and timeout checks, start, stop |
| `HttpClient` | event thread, descriptors, response slot, callers | the event thread's connect, select, receive, split and cleanup; post, receive, start, stop, destroy |
| `SthttpClient` | state, session and whether its text was freed, callers | start, attempts, stop, destroy, send with both readers, the steps in which a session is stored and ended |
| `Stdio` | pipe, buffer, read thread, senders | arrival, reading a frame, the two writes of a frame, receive, stop, destroy |
| `MqttSession` | store, files, calls, the client's messages; queue, counter, publishers | open, close, save by sections, load, delete, connect, crash; find room, add, send or drop |
| `WebSocketPool` | array, counters, users, health check | create, get, connect, release, check, reconnect, destroy |
| `ThreadCache` | blocks, pools, the cache's arrays and list | initialise, configure, allocate, free, evict, adjust, flush |
| `ObjectPool` | pools, objects, caches of threads | create, acquire in two steps, release, take a slot over, destroy |
| `ObjectCache` | caches of types, objects | initialise, configure, register, allocate, free, flush, clean up |
| `OwningMap` | a map and the values it owns | put, get, remove, clear: what a hash table promises |
| `HashTable` | chains, capacity, size | create, put with growth and failures, get, remove, clear |
| `DnsCache` | slots, lists that exist, threads | look up, resolve, store, connect, release, clear, time |
| `SchemaCache` | table, list, objects, threads | find, compile, add, remove, clear, validate |
| `BackendCache` | list of backends, method cache, threads | the steps of a lookup, load, reload |
| `TemplateRoutes` | cache, validators, workers | expand, register a validator, and the steps of a route; parse, validate, expand, match and extract in both implementations as functions on texts |
| `Dispatch` | payload, messages, responses | parse, authenticate, handle one message, put the answer together |

How they meet: `RequestTable` implements `PendingSet` and `ClientRequests` uses
it as `PendingSet` allows, so the request protocol and the table are checked
against the same abstract set. `TcpServer` uses a thread pool as a bag of tasks
that are run once; `ThreadPool` has the pool's own steps and `WorkDeque` those of
one deque, which are atomic in `ThreadPool`. `ServerGate` takes any transport
that joins its threads in stop, which is what `TcpServer` does, and `Dispatch` is
what the gate's step "handling" stands for. `TcpStream` shows of the framing what
the TCP transports take for granted. `SthttpStreams` keeps its events as
`EventLog` says, and `HashTable` is the `OwningMap` below the caches.

The modules whose names start with MC give constants their values. Each puts
components that belong together side by side, with a variable `part` that says
which of them runs while the others stay in their initial states; the same
component appears there several times where one configuration cannot be large in
every respect at once.

## 3. What is checked

Numbers of distinct states are for the configurations in this directory. Where a
property holds within a certain use only (one sender, no request beside a
reload), the configuration says so and section 6 says what happens outside of it.

**server_state** (560 thousand states). Two clients of the basic limiter whose
hash values collide in the first table and not in the second, which the second
client's arrival makes necessary; window 2, limit 2, up to 5 seconds and 6
grants, enough for three windows. *EntriesFindable*: an entry is found after
every resize. *RateBound*: of 2 * limit + 1 consecutive grants the first and the
last are a window apart (a fixed window admits twice its limit around its
boundary, and no more). *DenialJustified*: nobody is refused without having used
up the limit in the last window. The resource cache with two threads, one entry
and items whose number grows, and with one thread and three keys for two entries:
*CacheExact* (table and list hold the same entries, once, within the capacity,
and a hit is content of its key that had not expired when it was looked at). The
limiter with rules, with windows and with buckets: *RulesBound* (buckets keep
their bound through every change of the rules, windows while the rules stay).
Three hosts for the two slots of the DNS cache; five schema texts, two of them
with one key and one malformed, in a cache of two, and two threads on a cache of
one; configuration files with overlapping prefixes, malformed and unreadable ones
among them, and one reload: *SharedExact* (what is cached is allocated, counted
and freed once, and no backend of a freed list is found or used). The hash table
with three keys of which two collide, growing from one chain to eight, with
allocations that fail: *ImplementsOwningMap*. Templates with types, patterns,
optional and default values, malformed ones, against texts of up to three
symbols and two that run through two parameters: *TemplatesExact* (the first
match is taken, its parameters expand to the URI again, the cache holds every
template once and what parsing gives; with two workers and a cache of one, until
both are in the cache at once or one uses what the other has freed).

**server** (1.0 million). Three transport threads and four messages against start,
stop and destroy: *NeverUndercounts*, *NoCallbackAfterFree*, *WaitOnlyOnLeak* (the
graceful wait of stop is entered only because of requests that were counted and
never discounted). Three TCP connections, two slots, two pool threads, failures,
idle timeouts and stop at any time: *ClientsExact* (a slot has one handler, an open
socket is held in one place, the statistics report no connection that is not there) and *StopLeavesNothing*. Three connections for two
slots are the least for which a slot is refused, freed and used again. Sockets for
a host with two addresses, where a refused connection shows as an error and where
it does not; messages of up to three bytes, one of them too long for the receiver,
through a window of four bytes, and batches of two; waits with timeouts below, at
and above a second: *SocketsExact* (the socket that is returned is the only one
left open and in the mode asked for; what is received is what was sent, in its
order, however writes and reads are cut; a wait ends near its timeout).

**requests** (480 thousand). Two callers, three requests, on an asynchronous
transport with a table that does not move and with one of two slots that does,
and on a synchronous one whose receive may return another caller's response;
messages are lost, late, answered after the timeout, or fail. *EntriesMatchCalls*
(every entry has a caller that will remove it, and a completed one has its
result), *ReturnMatchesUnmoved* (the return value tells whether the call holds
the result of its own request, as long as the table does not move). The table
with six ids of which five collide, 8 slots that grow to 16, and in the larger table
2 probes for a search and 4 for a resize (in the code 16 and 64): *TableExact* (what
is pending is found, the count is exact), through a resize that puts entries where
only the scan of the whole table finds them, a resize that fails, and a table that
may not grow. *RefinesPendingSet*: the requests and the table both change the
pending ids as `PendingSet` says. On the server's side, batches of up to three
messages of nine kinds with three settings of the key: *AnswersMatchRequests*
(responses answer the requests, in their order, each at most once, and all of them
when the whole payload is valid). Three HTTP sessions for two slots, with the
default timeout or none; three WebSocket connections for two slots and one pooled
buffer; three streams for an array that starts with one place: *WebClientsExact* (a
session ends once, a buffer belongs to one slot, the array holds the open streams).
Two clients of server-sent events, one with a filter, three events for a ring of
two, sent by the event thread alone or by another one too: *EventsExact* (ring and
list are exact; with one sender a client that comes back before the ring has
wrapped has missed nothing). Three events for a ring of two with its hash map:
*ImplementsEventLog*.

**pools** (140 thousand). Three users, at most two and at
least one connection, failing connects, all kinds of waits, destruction at any
time, and the same with health checks whose results are applied to a list that
has changed since: *OwnedOnce* (no connection is shared or leaked; without health
checks the counters are exact and the maximum holds). Two users with an idle
timeout: *OneUserPerAgingSocket*. Three forwarders of the gateway with at most two
and at most four connections: *GatewayExact* (a
connection is held by one forwarder, nothing the walk can reach is held or
destroyed, the counters cover what exists and what is held). Two users of at most two WebSocket
connections, with three addresses so that an address is used again, and the
health check: *LentOnce* (no connection has two users); when no connection fails the
counts are exact too (checked with *OwnedOnce*).

**threads** (600 thousand). Two workers and their creation that may fail, two submitters, or one and more
tasks than the deques have room for, waiting and
destruction at any time, and the same with resizing: *PoolServes* (every index
below thread_count keeps a worker, and destroy frees a pool that was not resized
when all tasks are done and all workers gone; both up to a misused deque, section 6).
A deque with an owner, others that push, and two
thieves, four tasks and a ring of two, so that the ring is used twice:
*DequeExact* (a task is taken once and none is lost, until the deque is misused). Three blocks of two classes in a thread's cache: *BlocksExact*. Two
threads and two pools of objects, with room for one pool in each thread's cache;
caches of one type with a constructor and of two types: *ObjectsExact*.

**transports** (1.5 million). The TCP client with connections that break, manual
reconnections before, beside and after start and stop, with two senders or with a
third connection, and the WebSocket client's connection: *LinksConsistent*
(one reconnector; no socket or thread left while manual reconnections come between
start and stop; a client that says it is connected has a live
handle). WebSocket requests with one caller: *ResponsesOwned* (a response has one
owner, is newer than the request it is returned for, and is its own if nothing else
was on its way when the request began; with two callers it still has one owner,
which is checked with *ExchangesExact*). The
HTTP client with one caller, two, and TLS, whose event stream comes in chunks that
end in the middle of an event; the streamable HTTP client with two sessions, a call
that ends them and two senders; three
frames on standard input, one of them refused or not, and two beside another
sender; three publishers and a queue of two: *ExchangesExact* (a descriptor has
one owner; the session is the one named last while its changes do not overlap;
frames are handed on in order, and none is lost until the body of one is left in
the stream; the queue exceeds its limit by the threads between its critical sections
at the most). MQTT sessions with two threads, with ids of one path and of two, with a
process that is killed between any two writes:
*SessionsRecovered* (a save that was acknowledged can be loaded in full after any
number of crashes; of one that was cut short a load gives all subscriptions with
either all messages in flight and the packet id or no message, or fails; restoring
keeps the limit of messages in flight).

**liveness** (22 thousand). *StopsReturn* (stop of the server and, with one slot,
one worker and two connections, of the TCP transport; destruction of the thread pool and of the connection pool),
*TasksRun*, *GetReturns*, *AnsweredCallsReturn*, *ExpiredFreed* (an expired session
is freed while the transport runs for the first time), under the fairness of
section 4.

The remaining runs end in a counterexample and go with the first five
disagreements of section 6.

Deadlock is not looked for: every component may come to rest, with its owner
gone or the bounded input used up. That a component does not come to rest too
early is what the liveness run is about. *TypesOK* is checked with every run, as a
conjunct of *ClientsExact*, *TableExact*, *OwnedOnce*, *PoolServes* and *LinksConsistent* where it
is not listed.

## 4. Fairness

Fairness is given to threads, never to the environment. A thread of
the operating system that can take a step eventually takes one; a wait with a
timeout eventually ends by it. It is weak but for one step: a worker that looks
again and again for work to steal eventually finds a task that is there again and
again, because every eighth of its rounds looks into the deques of all
workers (`mcp_thread_pool_worker.c:157`); the model does not count the rounds, and
so a steal has strong fairness. In detail: the steps of a caller and its timeout
(`ClientRequests`); the steps of get, the end of its wait, the passing of its
time, release, and the maintenance thread (`ConnectionPool`: a user gives back
what it got); owner and callback steps (`ServerGate`); accept thread, handlers,
cleanup thread, owner, and the passing of the idle time (`TcpServer`); creation,
workers and submitters (`ThreadPool`); the rounds of the cleanup thread
(`HttpSessions`). No fairness is assumed of clients, servers
or the network: messages need not arrive, connections need not break, and a
handler that waits in a recv or send for its client need not go on (`AwaitsPeer`).
*StopsReturn* for TCP is for a configuration with an idle timeout and finitely
many messages; without these stop does not return (section 6).

## 5. Proofs

TLAPS proves these for all values of the constants that satisfy the assumption
named with each. Every result is `Spec => []P` for a property P of section 3 (or a
refinement), from an invariant that the initial states satisfy, that every action
keeps, and that implies P. The proofs have a module of their own or are at the end
of the component's module.

| Module | Theorem | Property | Assumed of the constants |
|---|---|---|---|
| `RateLimiter` | *TableCorrect*, *RateBounded*, *DenialsJustified* | EntriesFindable, RateBound, DenialJustified | `LimiterAssumption`: finitely many clients, hash values in Nat, window, limit and minimal capacity not 0 |
| `ServerGate` | *CounterNeverUndercounts*, *FreedAfterCallbacks*, *GracefulWaitOnlyOnLeak* | NeverUndercounts, NoCallbackAfterFree, WaitOnlyOnLeak | `GateAssumption`: finitely many threads |
| `TcpServerProofs` | *ClientsAlwaysExact*, *StopIsComplete* | ClientsExact, StopLeavesNothing | `TcpAssumption`: at least one slot |
| `ClientRequestsProofs` | *TableMatchesCalls*, *ReturnsTellResults*, *ImplementsPendingSet* | EntriesMatchCalls, ReturnMatchesUnmoved, the refinement of `PendingSet` | `ClientAssumption`: finitely many callers, an initial capacity that is not 0 |
| `WorkDequeProofs` | *DequeCorrect* | DequeExact | `DequeConstants`: the owner does not steal from itself, the ring has room for a task; anyone may push (the property is stated up to a misuse, section 6) |
| `GatewayPool` | *GatewayCorrect* | GatewayExact | `Sizes`: finitely many forwarders, MinConnections at most MaxConnections |
| `WebSocketPool` | *PoolLends* | LentOnce | `Sizes`: the minimum is at most the maximum, 0 is no address |
| `WebSocketExchange` | *ResponsesCorrect* | ResponsesOwned | `Sizes`: MaxRequests is a number |

The arguments:

`RateLimiter`. RateBound is not inductive: it speaks of the grants only, while the
code decides by the entry. The strengthening `GrantsOf` ties the two together: the last `requests` grants are
those of the entry's window, and any two windows among the grants are
WindowSeconds apart and hold at most the limit each. The argument for the bound:
2 * limit + 1 grants touch three windows, and the third starts a window's length
after the second, which starts no earlier than the first grant.

`ServerGate`. The strengthening says what the counter is made of (`Accounting`: requests in
progress plus those that left early) and that a transport that is stopped has no
threads (`Joined`).

`ClientRequestsProofs`, for any number of requests, timed or not, on either kind
of transport. That entries have callers is not inductive: a new request must not meet an entry, which is so
because ids are never used twice (`OwnIds`); a call that is over must not leave
one, which is so because a registered call has its entry until it removes it
(`HasEntry`, `EntryHasCaller`); and a synchronous transport, whose calls write
their output themselves, never has one (`OnlyAsynchronous`). For the return value
every caller is `Good`: its pointer into the table is not newer than the table (so
that it is its own entry's until the first move), nothing was written for it
before it was registered, and a call that could not be sent is known as one. The
refinement follows from the same invariant: an id is added by a call that has no
entry and removed by one that has.

`TcpServerProofs`. A slot could get a second handler if a free slot could still
have a task or a handler (`InactiveUnused`), or if somebody else touched it between
the two critical sections of the acceptor (`AcceptorKnows`: nobody knows the slot
until its task is submitted, and only the acceptor makes a client active). A socket
could be held twice if the number of the next connection were in use
(`FreshClosed`). What stop leaves depends on what each of its joins has waited for
(`Stages`). The statistics never count too many (`Counted`) because a client
becomes ACTIVE and is counted, and is cleaned up and counted out, in one critical
section each.

`WorkDequeProofs`. Anyone may push at any time, as submitters do; `misused` notes a
push that meets another push, a pop or a full ring, and the invariant is about what
happens before (`OneWriter`: one thread at a time is in a push or a pop). Between the owner's store of `bottom` and its compare-and-swap the
positions in use do not end at `bottom`; `Window` says where they end. A thief whose
compare-and-swap would succeed has read the task that is still first
(`ThiefKnows`), and the owner that takes without a compare-and-swap is not alone
with the last task (`OwnerKnows`). `Accounted` gives every task one place: to come,
at one position, held by one thread, or taken. That positions less than the
capacity apart have different slots is the lemma `SlotsApart`.

`GatewayPool`. The walks over the idle list follow pointers that other threads
change while the lock is given up, and what a walk reaches cannot be proved about
as such. What makes them safe is local: no pointer of the list, of a node or of a
walk leads to a connection that is held or was destroyed (`Pointers`); it holds of
pointers that lead nowhere useful too, so the nodes the walk drops do no harm here.
`Holding` and `Counts` then follow the forwarders.

`WebSocketPool`. An invalid entry keeps the address of a destroyed transport, and
the allocator may use that address again, so an address may be in several entries
and release sets the first of them. Nobody is lent what another has because what
is idle nobody uses (`IdleFree`), every user has an entry that says IN_USE and that
the health check will not overwrite (`Backed`), and the entry the health check is
replacing, if a release has set it, has a later one for the same address
(`Replacing`, which needs that release takes the first match). For the exact counts
without failures `Steady` counts transports rather than positions, since closing a
connection moves the positions.

`WebSocketExchange`. Copies are compared by their numbers of arrival, and the next
one is larger than all (`Bounded`); then no copy is in two places, or in one after
it was released (`Apart`). With one caller everything it can find is newer than its
request (`Fresh`); the step that needs the caller to be alone is the one in which
sendv puts its response back. That a request which began with nothing on its way
gets its own response is a second invariant on top of the first (`Alone`): as long
as the request is in progress, nothing but its response is on the wire, in the slot
or in the caller's hands.

Only model-checked, and why:

- Liveness (the run *liveness*): it needs fairness and ENABLED.
- What a recursive definition or a fold computes for every input: the lookups of
  `RequestTable` (*TableExact*, and its half of *RefinesPendingSet*) and `HashTable`
  (*ImplementsOwningMap*), list and table of `Cache` (*CacheExact*),
  `SchemaCache` and `DnsCache` (*SharedExact*), the texts of `TemplateRoutes`
  (*TemplatesExact*), the byte streams of `TcpStream` (*SocketsExact*), the batches
  of `Dispatch` (*AnswersMatchRequests*), the rings of *EventsExact* and
  *ImplementsEventLog*, and *SessionsRecovered*. Such facts need induction over the
  data, which the installed provers cannot do.
- *OwnedOnce*, *OneUserPerAgingSocket*, *RulesBound*, *LinksConsistent*,
  *ExchangesExact*, *PoolServes*, *BlocksExact*, *ObjectsExact*, *WebClientsExact*:
  invariants like those above for which no proof has been written yet (section 8).
  *TypesOK* is proved for the components of the table only, as a part of their
  inductive invariants.

## 6. Where code and documentation disagree

Shown by a run that ends in a counterexample (details in `PROJECT.json`):

1. *server_gate_counter*: `active_requests` keeps counting requests that end by
   an early return (`mcp_server_task.c:217`, `244`).
2. *tcp_server_activation*: a handler that starts before the acceptor has made
   its client ACTIVE closes the connection (`mcp_tcp_acceptor.c:242`).
3. *client_moved*: a caller waits with a pointer into a table that another
   caller's request moves (`mcp_client_request.c:322`).
4. *pools_closed*: get returns a socket it has just closed
   (`mcp_connection_pool.c:162`).
5. *threads_shared*: a task pushed by a submitter can be lost, because push is
   for the owner of the deque only (`mcp_thread_pool_deque.c:12`).

Met while modelling. The models contain them, or stop there in an absorbing
state; the properties above hold beside them:

- Server: the last request does not signal the waiting stop (`mcp_server_task.c:290`,
  comment at 293); it is the timeout that ends the wait. After a stop
  `shutting_down` stays set, also when the server is started again.
- TCP server: stop waits for the handlers (`mcp_tcp_transport.c:387`) before it tells
  them to stop (392). It does not return when there is no idle timeout, when a client
  sends for ever, or when one keeps a handler in the middle of a frame: a recv or
  send that has begun waits for the rest (`mcp_framing.c:155`, `193`;
  `mcp_socket_utils.c:713`). A client marked while its task waits
  is never closed by a running server (`mcp_tcp_server_utils.c:48`).
  `active_connections` is decremented for a client that was never counted
  (`mcp_tcp_client_handler.c:336`), hence *NeverOvercounts* and not equality.
- Client: an id that was used before is refused while its tombstone is there
  (`mcp_client_hash_table.c:94`). The check for an id that is pending already looks
  no further than a search probes (208), so one that a resize has put beyond would
  get a second entry; no caller in `src/` adds a pending id, and the model does not. A timeout returns -1 where the comment says -2
  (`mcp_client_request.c:284`).
- Connection pool: the idle scan can lose connections
  (`mcp_connection_pool_maintenance.c:240`); a failed connect makes room and wakes
  nobody (`mcp_connection_pool.c:218`); the pool is freed while a get may be in it
  (388). The number of a closed socket that get hands out (162, 193) may be that of
  the next connection, which then has two owners: the model lets the system use
  numbers again and stops when get hands out a closed one, so *OwnedOnce* and
  *OneUserPerAgingSocket* hold until then.
- Gateway pool: the walk over the idle list keeps a pointer across an unlock and
  drops the nodes before it (`mcp_gateway_pool.c:325`-`361`; `NothingLeaked` does
  not hold); a failed connect unlocks twice (397-472); the wait has no timeout and
  a connection that cannot be made wakes nobody, while
  `include/mcp_gateway_pool.h:49` lists "timeout" as a reason for NULL.
- Thread pool: a push into a full deque overwrites (`mcp_thread_pool_deque.c:17`),
  while `include/mcp_thread_pool.h:71` says "-1 on failure (e.g., pool is shutting
  down, queue is full)"; a push may overlap another push or a pop, and after a resize
  two workers may pop from one deque. `WorkDeque` goes on after that (finding 5);
  `ThreadPool` stops there, in the state "misused", so that *PoolServes*, *TasksRun*
  and *StopsReturn* hold up to it. A worker that starts before it is counted ends
  (`mcp_thread_pool.c:154`), or, if it is the first, divides by a thread_count of 0
  (`mcp_thread_pool_worker.c:50`; the model stops, in "crashed"); tasks
  are stranded in a deque whose worker was removed (`mcp_thread_pool_tasks.c:33`);
  wait may return before a task it should wait for is done (141).
- Cache: get copies items after it has unlocked (`mcp_cache.c:434`, while
  `include/mcp_cache.h:40` says "This function is thread-safe."; `HitsIntact` does
  not hold); the array for the copy has the size of the first look (363); a failed
  copy in put releases items twice (589, 599); a failed growth of the table leaves
  a node of a freed entry in the list (266).
- Limiter with rules: a sliding window keeps the buffer of its first rule, so a
  later rule with a larger limit admits every request (`SlidingBoundAlways` does
  not hold); a rule of another algorithm reads the entry as its own; check changes
  shared state under a read lock (847); the pattern `*admin*` (comment at 279) is
  taken for a prefix (293).
- TCP client: `reconnect_thread_running` stays set after the thread has ended
  (`mcp_tcp_client_reconnect.c:476`; `FlagMeansReconnecting` does not hold); the
  receive thread of the last connection is not joined
  (`mcp_tcp_client_receiver.c:336`); a failed ping ends the receive thread with
  `connected` still set (167). A manual reconnection does not look whether the
  transport is started (`mcp_tcp_client_reconnect.c:658`-`699`): the socket it opens
  before start or beside it is overwritten by start (`mcp_tcp_client_transport.c:61`)
  and never closed, and after stop its socket and its threads stay, because stop
  returns at once when the transport does not run (192). The model notes it in
  `outside`; `SocketNotLeaked`, and that stop leaves no thread, hold without it.
- WebSocket client: waiting for the connection reports a timeout though the
  client is connected (`mcp_websocket_client_connection.c:310`, `472`;
  `WaitReportsConnection` does not hold); a forced reconnection leaves the first
  connection pending (370; `OneConnection` does not hold); two senders share one
  buffer (`mcp_websocket_client_message.c:344`; `WrittenAsGiven` does not hold).
  A response is compared with the request only while that request is noted as timed
  out (192-199), and the next request resets the note (497): a late response that comes
  after the next request has begun is stored for that one (215-241) and returned to it.
- Sockets: after a partial write that passed a whole buffer, the copy of the vector
  is freed by a pointer that was moved (`mcp_socket_utils.c:962`; the model notes it
  in `undefined`); a refused connection counts as made where select reports it as a
  socket that can be written to, because its error is looked at only if select
  reports an error (556, while the header says "The connected socket descriptor on
  success"); a receive or send that reached its timeout is made again, so that
  timeouts of the socket never take effect; a batch that was refused after its first
  message is answered with that message, and the next call reads from the middle of
  the refused one; senders of the TCP client share a socket without a lock, so that
  their frames may mix (`FramesExact` is for one sender).
- HTTP client: lines are split with strtok, which never gives an empty one, so no
  event is ever complete (`EventsProcessed` does not hold); two callers share the
  slot of the response (`OwnResponse` does not hold); stop and the event thread
  both close the stream's descriptor, and the second close may hit another
  connection (`mcp_http_client_transport.c:354`); a body that ends too early counts
  as a response.
- HTTP server: an event or session of NULL is refused, while
  `include/mcp_http_transport.h` says "(NULL to send to all clients)"; the label of
  an event is read after the lock (`mcp_http_server_sse.c:545`), so with two senders
  a client may miss events (`NothingMissed` does not hold); the replay does not
  look at sessions; a closed client is freed before it is taken off the list; a
  client that finds the list full stays connected and gets nothing.
- Sessions: a pointer outlives its session and may write into the next one
  (`DataIsOwn` does not hold); `cleanup_shutdown` is never reset, so after a second
  start nothing is freed (`mcp_sthttp_threads.c:90`).
- Streamable HTTP: nothing stores events or creates sessions, while
  `docs/streamable_http_transport.md:16` and `:67` describe streams that can be
  resumed. Its client locks `state_mutex` in start and in the function that start
  calls, which a default POSIX mutex does not allow (`StartReturns` does not hold
  for one); its session is read, replaced and ended without a lock
  (`mcp_sthttp_client_core.c:103`, `325`, `mcp_sthttp_client_transport.c:612`), so that a
  request may copy a freed text (the model stops, in `undefined`), and of two calls that
  change it at once one may drop or overwrite what the other has stored (`overlapped`);
  a reconnection of the stream after stop leaves its structure until destroy (563); a response that the fast parser understands is not delivered
  (`ResponsesDelivered` does not hold).
- Standard input: select does not see frames that the stream has buffered
  (`TimeoutMeansNothing` does not hold); two senders mix the parts of their frames
  (`FramesWhole` does not hold); a refused length, or a body there is no memory for,
  leaves the body in the stream (`mcp_stdio_transport.c:144`, `151`), and the reads of a
  transport that is started again, or of receive, begin in the middle of a frame: they
  may return bytes that are no message and use up frames (`strayed`); stop
  waits until a message or the end of the input comes.
- Templates: `{name:type?}` stays required, while `include/mcp_template.h:46` and
  `docs/template_guide.md:27` describe it as optional (`TypedOptionalOmitted` does not
  hold); the two implementations differ (`SameAnswer` does not hold); the cache of
  parsed templates has no lock (`mcp_template_optimized.c:141`-`275`): two workers in
  it at once may add one template twice, overrun the array or free what the other
  uses (the model stops there, in `undefined`).
- MQTT: no code services the libwebsockets context; nothing removes or retries an
  in-flight message, while `docs/mqtt_session_persistence.md:9` says "QoS > 0 messages
  are tracked and retried"; a file that a save was cut short of is loaded as a session
  without in-flight messages, and with packet id 1, if its subscriptions are complete
  (`mqtt_session_persistence.c:498`-`507`; `CutFileRefused` does not hold), and is
  refused but stays otherwise, while `docs/mqtt_session_persistence.md:134` says
  "Corrupted files are automatically deleted";
  the answer of fclose is not looked at (`mqtt_session_persistence.c:317`), so on a
  full disk an acknowledged save may be lost; a load that finds a session expired
  may delete a newer one (406; `FreshSaveKept` does not hold); expired sessions are
  never removed by the cleanup, because the id is cut twice (121); ids that differ in
  their last character only have one path.
- WebSocket server: a comment says "Send a ping" where none is sent
  (`mcp_websocket_server_event.c:35`); `active_clients` is decremented twice for one
  client (`mcp_websocket_server_callback.c:76`; `ActiveClientsExact` does not hold); a
  pooled buffer may be given to realloc (`PooledNotReallocated` does not hold).
- WebSocket pool: two getters may exceed `max_connections`; after a failed
  reconnection the health check goes on with a freed address
  (`mcp_websocket_connection_pool.c:389`).
- Dispatch: messages of a batch keep their positions while only valid ones are
  counted, so that the last ones are not handled (`mcp_json_message.c:594`); a batch of
  one message is answered by an object (`BatchAnsweredByArray` does not hold); an empty
  batch is answered "Parse error" while the comment at 560 says it is "technically
  valid"; two methods are compared with the wrong length and never reached
  (`mcp_server_dispatch.c:458`, `461`; `MethodsReachable` does not hold).
- Gateway configuration: the method cache answers with the backend of an earlier
  request of the same method, while `include/mcp_gateway_config_manager.h:71`
  promises "Pointer to the matching backend" (`MatchingBackend` does not hold); it is
  not locked, so a reload beside a request may leave a freed backend in it
  (`CacheCleared` does not hold), and a request may read an entry that another one
  has replaced and freed since it looked it up (`mcp_gateway_config_manager.c:219`;
  the model notes it in `undefined`). The calls of the table below are single steps
  of the model, though no lock makes them so.
- DNS cache and schema cache: a slot chosen before resolving may be in use when it
  is filled (`NotFreedInUse` does not hold for overlapping lookups); two threads that
  compile one schema leave a freed one in the list, and a key shared by two texts
  gives the schema of the other (`OwnSchema` does not hold).
- Memory: a thread's cache may hand out a block that is too small when the pools are
  made after its first call (`LargeEnoughAlways` does not hold); threads together
  exceed an object pool's capacity (`CapacityKept` does not hold); a type whose
  constructor is registered late hands out objects that were never constructed, and a
  change of sizes forgets objects (`ConstructedWhenHeld`, `NoneLost` do not hold).

## 7. Not modelled

JSON text, logging, metrics, configuration files, plugins and
the programs: text, system calls and counters on which no protocol depends. The
models take a message for what its text says and, above `TcpStream`, a frame as
sent or received whole, or not at all. Of the sockets, the setting of options and
accept are single system calls, and `mcp_socket_send_batch` has no caller. Locks, condition variables and threads are the operating
system's, and the models use their semantics. The list, the arena, the memory
tracker and thread-local storage are containers of one thread. The client's
interface and its batches wrap single requests. Memory exhaustion is modelled in
`Cache`, `HashTable` and in the thread pool's creation only. `PROJECT.json` lists
every part with the reason.

## 8. Plan

1. Proofs, in this order: *OwnedOnce* of `ConnectionPool`, *OneReconnector* and
   *SocketNotLeaked* of `TcpClient`, *BucketBound* of `AdvancedRateLimiter`, the
   refinement of `EventLog`.
2. `Dispatch` composed with `ServerGate`, whose step "handling" it stands for, and
   `HashTable` below `SchemaCache`.
3. The transport over the connection pool, client batches, the list and the arena.
