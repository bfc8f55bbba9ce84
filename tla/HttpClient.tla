----------------------------- MODULE HttpClient -----------------------------
(***************************************************************************)
(* The HTTP client transport: the event thread, which keeps a connection   *)
(* to the server's event stream and reads it line by line, the calls that  *)
(* post a request over a connection of their own and leave the response in *)
(* one slot for mcp_transport_receive, and start, stop and destroy.        *)
(* Descriptors are modelled, because stop and the event thread both close  *)
(* the socket of the stream: the kernel gives a new socket the lowest free *)
(* descriptor.                                                             *)
(***************************************************************************)
EXTENDS Naturals, FiniteSets, SequencesExt

CONSTANTS
    Callers,       \* threads that call send and then receive
    Descriptors,   \* descriptors the process may open, 1..n
    use_ssl,       \* the transport was made for https
    Chunks,        \* what one recv may return: sequences of lines
    MaxEvents      \* bound on the events of the stream

VARIABLES
    alive,         \* the transport has not been destroyed
    running,
    stopping,      \* where stop stands: "no", "locking" or "joining"
    thread,        \* event_thread: its place, its socket and the event it is collecting
    sse_socket,
    ssl_ctx,       \* the context of the stream's connection is there
    last_event_id, \* some event's id has been kept
    last_response, \* the slot: whose response it holds, or None; "stale" when the caller
                   \* has begun a later call since
    open,          \* what each descriptor is open for, or None
    caller,        \* each call: its place, its descriptor and what it received
    stream,        \* history: data has come since the last empty line, and events completed
    processed,     \* history: events given to process_sse_event
    undefined      \* a descriptor of another owner was read or closed, or a freed context used

vars == <<alive, running, stopping, thread, sse_socket, ssl_ctx, last_event_id, last_response,
          open, caller, stream, processed, undefined>>

None == "none"

Invalid == 0

NoEvent == [id |-> FALSE, data |-> FALSE]

Ended == [pc |-> "ended", sock |-> Invalid, event |-> NoEvent]

NotCalling == [pc |-> "idle", fd |-> Invalid, got |-> None]

TypeOK ==
    /\ {alive, running, ssl_ctx, last_event_id, undefined} \subseteq BOOLEAN
    /\ stopping \in {"no", "locking", "joining"}
    /\ thread \in [pc : {"ended", "loop", "connecting", "storing", "reading", "receiving", "cleaning"},
                   sock : Descriptors \cup {Invalid},
                   event : [id : BOOLEAN, data : BOOLEAN]]
    /\ sse_socket \in Descriptors \cup {Invalid}
    /\ last_response \in Callers \cup {None, "stale"}
    /\ open \in [Descriptors -> Callers \cup {"sse", None}]
    /\ caller \in [Callers -> [pc : {"idle", "posting", "posted", "headers", "body", "sent"},
                               fd : Descriptors \cup {Invalid},
                               got : Callers \cup {None, "nothing", "stale"}]]
    /\ stream \in [data : BOOLEAN, events : 0..MaxEvents]
    /\ processed \in 0..MaxEvents

\* mcp_transport_http_client_create_with_config.
Init ==
    /\ alive = TRUE /\ running = FALSE /\ stopping = "no"
    /\ thread = Ended
    /\ sse_socket = Invalid /\ ssl_ctx = FALSE
    /\ last_event_id = FALSE /\ last_response = None
    /\ open = [d \in Descriptors |-> None]
    /\ caller = [c \in Callers |-> NotCalling]
    /\ stream = [data |-> FALSE, events |-> 0] /\ processed = 0
    /\ undefined = FALSE

\* socket() returns the lowest descriptor that is free.
Lowest(d) == open[d] = None /\ \A e \in Descriptors : e < d => open[e] # None

\* mcp_socket_close by the one who believes to own the descriptor.  Closing a
\* descriptor that is not open fails and changes nothing.
Close(d, owner) ==
    /\ open' = [open EXCEPT ![d] = None]
    /\ undefined' = (undefined \/ open[d] \notin {owner, None})

\* http_client_transport_start: the flag is set and the event thread made.
Start ==
    /\ alive /\ ~running /\ stopping = "no" /\ thread.pc = "ended"
    /\ running' = TRUE
    /\ thread' = [Ended EXCEPT !.pc = "loop"]
    /\ UNCHANGED <<alive, stopping, sse_socket, ssl_ctx, last_event_id, last_response, open,
                   caller, stream, processed, undefined>>

\* http_client_transport_stop: the flag is cleared without the mutex.
StopBegins ==
    /\ alive /\ running /\ stopping = "no"
    /\ running' = FALSE
    /\ stopping' = "locking"
    /\ UNCHANGED <<alive, thread, sse_socket, ssl_ctx, last_event_id, last_response, open,
                   caller, stream, processed, undefined>>

\* Under the mutex stop frees the context and closes the socket of the stream,
\* which the event thread may still be using.
StopCloses ==
    /\ stopping = "locking"
    /\ ssl_ctx' = FALSE
    /\ IF sse_socket = Invalid THEN UNCHANGED <<open, undefined>> ELSE Close(sse_socket, "sse")
    /\ sse_socket' = Invalid
    /\ stopping' = "joining"
    /\ UNCHANGED <<alive, running, thread, last_event_id, last_response, caller, stream, processed>>

StopJoins ==
    /\ stopping = "joining" /\ thread.pc = "ended"
    /\ stopping' = "no"
    /\ UNCHANGED <<alive, running, thread, sse_socket, ssl_ctx, last_event_id, last_response, open,
                   caller, stream, processed, undefined>>

\* http_client_transport_destroy, after the calls have returned; it stops a
\* running transport first, which is Stop above.
Destroy ==
    /\ alive /\ ~running /\ stopping = "no"
    /\ \A c \in Callers : caller[c].pc = "idle"
    /\ alive' = FALSE
    /\ last_response' = None
    /\ ssl_ctx' = FALSE
    /\ UNCHANGED <<running, stopping, thread, sse_socket, last_event_id, open, caller, stream,
                   processed, undefined>>

\* connect_to_sse_endpoint: the socket, and the time its connection takes.
Connect ==
    /\ thread.pc = "loop" /\ running
    /\ \E d \in Descriptors :
          /\ Lowest(d)
          /\ open' = [open EXCEPT ![d] = "sse"]
          /\ thread' = [thread EXCEPT !.pc = "connecting", !.sock = d]
    /\ UNCHANGED <<alive, running, stopping, sse_socket, ssl_ctx, last_event_id, last_response,
                   caller, stream, processed, undefined>>

\* The connection could not be made, or the context, or the request not sent:
\* the socket is closed, and the thread waits and retries.
ConnectFails ==
    /\ thread.pc = "connecting"
    /\ Close(thread.sock, "sse")
    /\ thread' = [Ended EXCEPT !.pc = "loop"]
    /\ UNCHANGED <<alive, running, stopping, sse_socket, ssl_ctx, last_event_id, last_response,
                   caller, stream, processed>>

\* The context of https is stored and the request sent.
Connected ==
    /\ thread.pc = "connecting"
    /\ ssl_ctx' = use_ssl
    /\ thread' = [thread EXCEPT !.pc = "storing"]
    /\ UNCHANGED <<alive, running, stopping, sse_socket, last_event_id, last_response, open,
                   caller, stream, processed, undefined>>

\* The loop ends when the flag is seen cleared.
ThreadEnds ==
    /\ thread.pc = "loop" /\ ~running
    /\ thread' = Ended
    /\ UNCHANGED <<alive, running, stopping, sse_socket, ssl_ctx, last_event_id, last_response,
                   open, caller, stream, processed, undefined>>

StoreSocket ==
    /\ thread.pc = "storing"
    /\ sse_socket' = thread.sock
    /\ thread' = [thread EXCEPT !.pc = "reading"]
    /\ stream' = [stream EXCEPT !.data = FALSE]
    /\ UNCHANGED <<alive, running, stopping, ssl_ctx, last_event_id, last_response, open, caller,
                   processed, undefined>>

\* The reading loop: it ends when the flag is cleared, when nothing came for
\* too long, or when select fails on a descriptor that stop has closed.
ReadEnds ==
    /\ thread.pc = "reading"
    /\ thread' = [thread EXCEPT !.pc = "cleaning"]
    /\ UNCHANGED <<alive, running, stopping, sse_socket, ssl_ctx, last_event_id, last_response,
                   open, caller, stream, processed, undefined>>

\* select reports data; the context, or the descriptor, is used after it.
Select ==
    /\ thread.pc = "reading" /\ running
    /\ open[thread.sock] # None
    /\ thread' = [thread EXCEPT !.pc = "receiving"]
    /\ UNCHANGED <<alive, running, stopping, sse_socket, ssl_ctx, last_event_id, last_response,
                   open, caller, stream, processed, undefined>>

\* strtok(buffer, "\r\n") skips the empty lines.
Tokens(chunk) == SelectSeq(chunk, LAMBDA line : line # "")

\* process_sse_line, and the event that is complete at an empty line.
Line(state, line) ==
    IF line = ""
    THEN IF state.event.data
         THEN [event |-> NoEvent, done |-> state.done + 1, kept |-> state.kept \/ state.event.id]
         ELSE state
    ELSE [state EXCEPT !.event = CASE line = "id" -> [@ EXCEPT !.id = TRUE]
                                   [] line = "data" -> [@ EXCEPT !.data = TRUE]
                                   [] OTHER -> @]

Lines(state, lines) == FoldLeft(Line, state, lines)

\* The data of one recv goes through strtok and process_sse_line; each complete
\* event through process_sse_event, which keeps its id.
Receive ==
    /\ thread.pc = "receiving"
    /\ ~ (use_ssl /\ ~ssl_ctx) /\ open[thread.sock] = "sse"
    /\ \E chunk \in Chunks :
          LET read == Lines([event |-> thread.event, done |-> processed, kept |-> last_event_id],
                            Tokens(chunk))
              sent == Lines([event |-> [id |-> FALSE, data |-> stream.data],
                             done |-> stream.events, kept |-> FALSE], chunk)
          IN  /\ sent.done <= MaxEvents
              /\ stream' = [data |-> sent.event.data, events |-> sent.done]
              /\ thread' = [thread EXCEPT !.pc = "reading", !.event = read.event]
              /\ processed' = read.done
              /\ last_event_id' = read.kept
    /\ UNCHANGED <<alive, running, stopping, sse_socket, ssl_ctx, last_response, open, caller,
                   undefined>>

\* The server closed the connection, or the descriptor is no longer open.
ReceiveFails ==
    /\ thread.pc = "receiving"
    /\ open[thread.sock] \in {"sse", None}
    /\ thread' = [thread EXCEPT !.pc = "cleaning"]
    /\ UNCHANGED <<alive, running, stopping, sse_socket, ssl_ctx, last_event_id, last_response,
                   open, caller, stream, processed, undefined>>

\* The read uses the context stop has freed, or takes the bytes of another
\* call's connection.
ReceiveForeign ==
    /\ thread.pc = "receiving"
    /\ (use_ssl /\ ~ssl_ctx) \/ open[thread.sock] \in Callers
    /\ undefined' = TRUE
    /\ thread' = [thread EXCEPT !.pc = "cleaning"]
    /\ UNCHANGED <<alive, running, stopping, sse_socket, ssl_ctx, last_event_id, last_response,
                   open, caller, stream, processed>>

CleanKeepsOpen ==
    /\ thread.pc = "cleaning"
    /\ ssl_ctx' = FALSE
    /\ sse_socket' = Invalid
    /\ thread' = [Ended EXCEPT !.pc = "loop"]
    /\ UNCHANGED <<alive, running, stopping, last_event_id, last_response, open, caller, stream,
                   processed, undefined>>

\* Under the mutex the thread frees the context, closes the socket it kept in a
\* local variable, whether or not stop has closed it, and drops the event it
\* was collecting.
Clean ==
    /\ thread.pc = "cleaning"
    /\ ssl_ctx' = FALSE
    /\ Close(thread.sock, "sse")
    /\ sse_socket' = Invalid
    /\ thread' = [Ended EXCEPT !.pc = "loop"]
    /\ UNCHANGED <<alive, running, stopping, last_event_id, last_response, caller, stream, processed>>

\* http_client_transport_send: the flag is read once, then http_post_request
\* opens a connection of its own; https is not implemented there.
Send(c) ==
    /\ alive /\ running /\ ~use_ssl
    /\ caller[c].pc = "idle"
    /\ \/ caller' = [caller EXCEPT ![c] = [NotCalling EXCEPT !.pc = "posting"]]
       \/ caller' = [caller EXCEPT ![c] = NotCalling]
    /\ last_response' = IF last_response = c THEN "stale" ELSE last_response
    /\ UNCHANGED <<alive, running, stopping, thread, sse_socket, ssl_ctx, last_event_id,
                   open, stream, processed, undefined>>

\* setup_socket, connect_to_server and the two sends of the request.
PostConnects(c) ==
    /\ caller[c].pc = "posting"
    /\ \E d \in Descriptors :
          /\ Lowest(d)
          /\ open' = [open EXCEPT ![d] = c]
          /\ caller' = [caller EXCEPT ![c].pc = "posted", ![c].fd = d]
    /\ UNCHANGED <<alive, running, stopping, thread, sse_socket, ssl_ctx, last_event_id,
                   last_response, stream, processed, undefined>>

\* read_http_headers, which waits for the socket as long as its timeout allows.
ReadHeaders(c) ==
    /\ caller[c].pc = "posted"
    /\ caller' = [caller EXCEPT ![c].pc = "headers"]
    /\ UNCHANGED <<alive, running, stopping, thread, sse_socket, ssl_ctx, last_event_id,
                   last_response, open, stream, processed, undefined>>

\* The body is read to its length or to the end of the connection; what has
\* come when the time is up, or the server closes, counts as the body.
ReadBody(c) ==
    /\ caller[c].pc = "headers"
    /\ caller' = [caller EXCEPT ![c].pc = "body"]
    /\ UNCHANGED <<alive, running, stopping, thread, sse_socket, ssl_ctx, last_event_id,
                   last_response, open, stream, processed, undefined>>

\* The exchange fails: the socket is closed and send returns -1.
PostFails(c) ==
    /\ caller[c].pc \in {"posted", "headers"}
    /\ Close(caller[c].fd, c)
    /\ caller' = [caller EXCEPT ![c] = NotCalling]
    /\ UNCHANGED <<alive, running, stopping, thread, sse_socket, ssl_ctx, last_event_id,
                   last_response, stream, processed>>

StoreResponseOnce(c) ==
    /\ caller[c].pc = "body"
    /\ Close(caller[c].fd, c)
    /\ last_response' = IF last_response = None THEN c ELSE last_response
    /\ caller' = [caller EXCEPT ![c].pc = "sent", ![c].fd = Invalid]
    /\ UNCHANGED <<alive, running, stopping, thread, sse_socket, ssl_ctx, last_event_id, stream,
                   processed>>

\* The body has come and the socket is closed; the response replaces whatever
\* the slot holds.
StoreResponse(c) ==
    /\ caller[c].pc = "body"
    /\ Close(caller[c].fd, c)
    /\ last_response' = c
    /\ caller' = [caller EXCEPT ![c].pc = "sent", ![c].fd = Invalid]
    /\ UNCHANGED <<alive, running, stopping, thread, sse_socket, ssl_ctx, last_event_id, stream,
                   processed>>

\* http_client_transport_receive: refused when the flag is cleared, and empty
\* handed when the slot is; it takes whatever response is there.
ReceiveResponse(c) ==
    /\ caller[c].pc = "sent"
    /\ LET taken == running /\ last_response # None
       IN  /\ caller' = [caller EXCEPT ![c] = [NotCalling EXCEPT !.got =
                                                  IF taken THEN last_response ELSE "nothing"]]
           /\ last_response' = IF taken THEN None ELSE last_response
    /\ UNCHANGED <<alive, running, stopping, thread, sse_socket, ssl_ctx, last_event_id, open,
                   stream, processed, undefined>>

EventThread ==
    \/ Connect \/ ConnectFails \/ Connected \/ ThreadEnds \/ StoreSocket \/ ReadEnds \/ Select
    \/ Receive \/ ReceiveFails \/ ReceiveForeign \/ Clean

Next ==
    /\ ~undefined
    /\ \/ Start \/ StopBegins \/ StopCloses \/ StopJoins \/ Destroy
       \/ EventThread
       \/ \E c \in Callers :
             \/ Send(c) \/ PostConnects(c) \/ ReadHeaders(c) \/ ReadBody(c)
             \/ PostFails(c) \/ StoreResponse(c) \/ ReceiveResponse(c)

Spec == Init /\ [][Next]_vars

\* Every open descriptor has exactly the owner that will close it, so none leaks
\* over any number of reconnections, stops and failed requests; and a lone
\* caller receives the response to its own request, never one an earlier call
\* left in the slot (http_client_event_thread_func, http_client_transport_stop,
\* http_post_request, last_response).
ClientExact ==
    \/ undefined
    \/ /\ \A d \in Descriptors :
             /\ open[d] = "sse" => /\ thread.sock = d
                                   /\ thread.pc \notin {"ended", "loop"}
             /\ open[d] \in Callers => caller[open[d]].fd = d
       /\ sse_socket # Invalid => open[sse_socket] = "sse"
       /\ (~running /\ stopping = "no") => \A d \in Descriptors : open[d] # "sse"
       /\ \A c \in Callers :
             /\ caller[c].fd # Invalid => open[caller[c].fd] = c
             /\ Cardinality(Callers) = 1 => caller[c].got \in {c, None, "nothing"}

\* "This thread connects to the SSE endpoint and processes events in a loop":
\* an event whose empty line was received has been processed.  It has not:
\* strtok never returns the empty line that ends an event.
EventsProcessed == thread.pc = "reading" => processed = stream.events

\* Only the owner of a socket reads and closes it.  The event thread closes the
\* descriptor a second time after stop, when it may be another call's.
NeverUndefined == ~undefined

\* Two callers do not take each other's responses out of the one slot.
OwnResponse == \A c \in Callers : caller[c].got \in {c, None}
=============================================================================
