----------------------------- MODULE MCTransports ----------------------------
(* The client transports, for TLC.  "part" says which one runs: TCP with its   *)
(* reconnection and one thread that sends or two, the connection of the WebSocket client, its requests with one *)
(* caller or with two, HTTP, streamable HTTP, standard input, or MQTT.        *)
EXTENDS WebSocketExchange, Sequences

CONSTANT NoPayload      \* the MQTT message whose payload is empty

-----------------------------------------------------------------------------
(* HTTP: chunks of a stream in which an event ends in the middle; one caller, two  *)
(* callers, and one caller with a context for TLS                                 *)

VARIABLES h_alive, h_running, h_stopping, h_thread, sse_socket, ssl_ctx, last_event_id,
          last_response, h_open, h_caller, stream, processed, h_undefined

httpVars == <<h_alive, h_running, h_stopping, h_thread, sse_socket, ssl_ctx,
              last_event_id, last_response, h_open, h_caller, stream, processed,
              h_undefined>>

Chunks == {<<"id", "data">>, <<"data", "">>, <<"", "event", "id", "data", "", "data">>}

OneCall == INSTANCE HttpClient WITH
    alive <- h_alive, running <- h_running, stopping <- h_stopping, thread <- h_thread,
    open <- h_open, caller <- h_caller, undefined <- h_undefined,
    Callers <- {"c"}, Descriptors <- {1, 2}, use_ssl <- FALSE, MaxEvents <- 2

TwoCalls == INSTANCE HttpClient WITH
    alive <- h_alive, running <- h_running, stopping <- h_stopping, thread <- h_thread,
    open <- h_open, caller <- h_caller, undefined <- h_undefined,
    Callers <- {"c", "d"}, Descriptors <- {1, 2, 3}, use_ssl <- FALSE, MaxEvents <- 1

Secure == INSTANCE HttpClient WITH
    alive <- h_alive, running <- h_running, stopping <- h_stopping, thread <- h_thread,
    open <- h_open, caller <- h_caller, undefined <- h_undefined,
    Callers <- {"c"}, Descriptors <- {1, 2}, use_ssl <- TRUE, MaxEvents <- 2

-----------------------------------------------------------------------------
(* Streamable HTTP: two callers and two sessions that the server names *)

VARIABLES s_state, shutdown_requested, sse_conn, session_id, freed, s_main, terminator,
          s_caller, assigned, sessions, overlapped, s_undefined

sthttpVars == <<s_state, shutdown_requested, sse_conn, session_id, freed, s_main,
                terminator, s_caller, assigned, sessions, overlapped, s_undefined>>

Sthttp == INSTANCE SthttpClient WITH
    state <- s_state, main <- s_main, caller <- s_caller, undefined <- s_undefined,
    Callers <- {"c", "d"}, Recursive <- TRUE, enable_sessions <- TRUE,
    enable_sse_streams <- TRUE, MaxSessions <- 2

-----------------------------------------------------------------------------
(* Standard input and output: three frames, all good or one refused, and two       *)
(* frames beside a thread that sends                                             *)

VARIABLES o_arrived, eof, pipe, o_buffer, garbled, strayed, o_running, reader, o_main, handled,
          out, cut, o_sender, waited

stdioVars == <<o_arrived, eof, pipe, o_buffer, garbled, strayed, o_running, reader,
               o_main, handled, out, cut, o_sender, waited>>

Good == INSTANCE Stdio WITH
    arrived <- o_arrived, buffer <- o_buffer, running <- o_running, main <- o_main,
    sender <- o_sender, MaxMessages <- 3, BadLengths <- {}, Senders <- {}

Refused == INSTANCE Stdio WITH
    arrived <- o_arrived, buffer <- o_buffer, running <- o_running, main <- o_main,
    sender <- o_sender, MaxMessages <- 3, BadLengths <- {2}, Senders <- {}

Answered == INSTANCE Stdio WITH
    arrived <- o_arrived, buffer <- o_buffer, running <- o_running, main <- o_main,
    sender <- o_sender, MaxMessages <- 2, BadLengths <- {}, Senders <- {9}

-----------------------------------------------------------------------------
(* MQTT sessions: two threads and two ids with the same path; two ids with paths   *)
(* of their own; two sessions of different length.  The queue: three threads      *)
(* publish five messages over a queue of two.                                     *)

VARIABLES store, file, m_thread, m_client, saved,
          queue, q_size, publisher, added, q_sent, lost

mqttVars == <<store, file, m_thread, m_client, saved,
              queue, q_size, publisher, added, q_sent, lost>>

Session(subs, inflight, last, expires) ==
    [subs |-> subs, inflight |-> inflight, last |-> last, expires |-> expires]

Racing == INSTANCE MqttSession WITH
    thread <- m_thread, client <- m_client, size <- q_size, sent <- q_sent,
    Threads <- {"t1", "t2"}, Ids <- {<<1, 1>>, <<1, 2>>},
    Sessions <- {Session(<<"a">>, <<>>, 2, TRUE)}, MaxInflight <- 1,
    Publishers <- {}, MaxQueue <- 2, MaxMessages <- 0

OwnPaths == INSTANCE MqttSession WITH
    thread <- m_thread, client <- m_client, size <- q_size, sent <- q_sent,
    Threads <- {"t1"}, Ids <- {<<1, 1>>, <<1, 1, 1>>},
    Sessions <- {Session(<<"a">>, <<>>, 2, TRUE)}, MaxInflight <- 1,
    Publishers <- {}, MaxQueue <- 2, MaxMessages <- 0

LongAndShort == {Session(<<"a", "b">>, <<"m", "n">>, 2, TRUE),
                 Session(<<"a">>, <<"m", NoPayload>>, 3, FALSE)}

Long == INSTANCE MqttSession WITH
    thread <- m_thread, client <- m_client, size <- q_size, sent <- q_sent,
    Threads <- {"t1"}, Ids <- {<<1, 1>>}, Sessions <- LongAndShort, MaxInflight <- 1,
    Publishers <- {}, MaxQueue <- 2, MaxMessages <- 0

Queue == INSTANCE MqttSession WITH
    thread <- m_thread, client <- m_client, size <- q_size, sent <- q_sent,
    Threads <- {}, Ids <- {}, Sessions <- {}, MaxInflight <- 1,
    Publishers <- {"p1", "p2", "p3"}, MaxQueue <- 2, MaxMessages <- 5

-----------------------------------------------------------------------------
exchangesVars == <<httpVars, sthttpVars, stdioVars, mqttVars>>

-----------------------------------------------------------------------------
(* The TCP and WebSocket clients and all of them side by side *)

VARIABLES part,
          t_running, connected, sock, reconnect_enabled, attempt, state, flag,
          reconnect_thread, receive_thread, mutex, t_owner, manual, sender, reconnector,
          receiver, open, broken, made, threads, outside,
          l_running, l_reconnect, l_state, wsi, attempts, l_owner, event,
          l_caller, l_result, l_returned, dialled, live, l_made,
          y_caller, y_got

Tcp == INSTANCE TcpClient WITH
    running <- t_running, owner <- t_owner, Senders <- {},
    MaxAttempts <- 1, MaxConnections <- 3, MaxThreads <- 2

\* Two threads that send, and a connection less.
TwoSenders == INSTANCE TcpClient WITH
    running <- t_running, owner <- t_owner, Senders <- {"s1", "s2"},
    MaxAttempts <- 1, MaxConnections <- 2, MaxThreads <- 2

tcpVars == <<t_running, connected, sock, reconnect_enabled, attempt, state, flag,
             reconnect_thread, receive_thread, mutex, t_owner, manual, sender,
             reconnector, receiver, open, broken, made, threads, outside>>

Link == INSTANCE WebSocketLink WITH
    Callers <- {"c1"}, MaxReconnects <- 1, MaxConnections <- 3,
    running <- l_running, reconnect <- l_reconnect, state <- l_state, owner <- l_owner,
    caller <- l_caller, result <- l_result, returned <- l_returned, made <- l_made

linkVars == <<l_running, l_reconnect, l_state, wsi, attempts, l_owner, event, l_caller,
              l_result, l_returned, dialled, live, l_made>>

\* WebSocket requests of two callers, with places of their own.
Two == INSTANCE WebSocketExchange WITH
    Callers <- {"c1", "c2"}, MaxRequests <- 2, MaxNotices <- 0,
    caller <- y_caller, got <- y_got

exchangeVars == <<vars, y_caller, y_got>>

Exchanges == {"one_call", "two_calls", "secure", "sthttp", "good", "refused", "answered",
              "racing", "apart", "long", "queue"}

ExchangesInit ==
    /\ Sthttp!Init
    /\ IF part = "two_calls" THEN TwoCalls!Init ELSE OneCall!Init
    /\ IF part = "answered" THEN Answered!Init ELSE Good!Init
    /\ CASE part = "racing" -> Racing!Init
         [] part = "apart" -> OwnPaths!Init
         [] part = "queue" -> Queue!Init
         [] OTHER -> Long!Init

ExchangesNext ==
    \/ /\ \/ part = "one_call" /\ OneCall!Next
          \/ part = "two_calls" /\ TwoCalls!Next
          \/ part = "secure" /\ Secure!Next
       /\ UNCHANGED <<sthttpVars, stdioVars, mqttVars>>
    \/ /\ part = "sthttp" /\ Sthttp!Next
       /\ UNCHANGED <<httpVars, stdioVars, mqttVars>>
    \/ /\ \/ part = "good" /\ Good!Next
          \/ part = "refused" /\ Refused!Next
          \/ part = "answered" /\ Answered!Next
       /\ UNCHANGED <<httpVars, sthttpVars, mqttVars>>
    \/ /\ \/ part = "racing" /\ Racing!Next
          \/ part = "apart" /\ OwnPaths!Next
          \/ part = "long" /\ Long!Next
          \/ part = "queue" /\ Queue!Next
       /\ UNCHANGED <<httpVars, sthttpVars, stdioVars>>

TransportsInit ==
    /\ part \in {"tcp", "senders", "link", "one", "two"} \cup Exchanges
    /\ IF part = "senders" THEN TwoSenders!Init ELSE Tcp!Init
    /\ Link!Init /\ ExchangesInit
    /\ caller = [c \in Callers |-> Idle] /\ got = Nothing
    /\ y_caller = [c \in {"c1", "c2"} |-> Idle] /\ y_got = got
    /\ IF part = "two" THEN Two!Init ELSE Init
    /\ part \notin {"tcp", "senders"} => reconnect_enabled

TransportsNext ==
    \/ /\ \/ part = "tcp" /\ Tcp!Next
          \/ part = "senders" /\ TwoSenders!Next
       /\ UNCHANGED <<linkVars, exchangeVars, exchangesVars>>
    \/ part = "link" /\ Link!Next /\ UNCHANGED <<tcpVars, exchangeVars, exchangesVars>>
    \/ /\ \/ part = "one" /\ Next /\ UNCHANGED <<y_caller, y_got>>
          \/ part = "two" /\ Two!Next /\ UNCHANGED <<caller, got>>
       /\ UNCHANGED <<tcpVars, linkVars, exchangesVars>>
    \/ part \in Exchanges /\ ExchangesNext /\ UNCHANGED <<tcpVars, linkVars, exchangeVars>>

TransportsSpec ==
    /\ TransportsInit
    /\ [][TransportsNext /\ UNCHANGED part]_<<part, tcpVars, linkVars, exchangeVars,
                                             exchangesVars>>

\* The types of the parts' states.
TypesOK ==
    /\ part = "senders" => TwoSenders!TypeOK
    /\ part = "link" => Link!TypeOK
    /\ part = "one" => TypeOK
    /\ part = "one_call" => OneCall!TypeOK
    /\ part = "two_calls" => TwoCalls!TypeOK
    /\ part = "sthttp" => Sthttp!TypeOK
    /\ part = "answered" => Answered!TypeOK
    /\ part = "racing" => Racing!TypeOK
    /\ part = "long" => Long!TypeOK
    /\ part = "queue" => Queue!TypeOK

\* The states have their types.  The TCP client never has two threads that
\* reconnect, and while reconnections are asked for between start and stop only, a
\* socket it gives up is closed and stop leaves no thread; a WebSocket client that
\* says it is connected has the handle of an established connection, and a stopped
\* one has neither connection nor thread.
LinksConsistent ==
    /\ TypesOK
    /\ part = "tcp" => Tcp!OneReconnector /\ Tcp!SocketNotLeaked
    /\ part = "senders" => TwoSenders!OneReconnector /\ TwoSenders!SocketNotLeaked
    /\ part = "link" => Link!ConnectedHasWsi /\ Link!StoppedHasNothing

\* Every descriptor the HTTP client opens has one owner that closes it, and a lone
\* caller receives the response to its own request; requests over streamable HTTP
\* carry the session named last while calls that change it do not overlap; frames
\* from standard input are handed on in order, each once, and none is lost until the
\* body of a refused one is left in the stream; and the queue of the MQTT client
\* exceeds its limit at most by the threads between its two critical sections.  With
\* two callers as with one, no response of the WebSocket client is in two places or
\* used after it was freed.
ExchangesExact ==
    /\ part = "two" => Two!ResponsesOwned
    /\ part = "one_call" => OneCall!ClientExact
    /\ part = "two_calls" => TwoCalls!ClientExact
    /\ part = "secure" => Secure!ClientExact
    /\ part = "sthttp" => Sthttp!SessionCurrent
    /\ part = "good" => Good!StreamsExact
    /\ part = "refused" => Refused!StreamsExact
    /\ part = "answered" => Answered!StreamsExact
    /\ part = "queue" => Queue!QueueBounded

\* A session that was saved and acknowledged is loaded in full after any number of
\* crashes; what is loaded of a save that was cut short is all of its subscriptions
\* for that client and all of its messages in flight or none; and restoring sessions
\* never exceeds the limit of messages in flight.
SessionsRecovered ==
    /\ part = "racing" => Racing!AckedSaveLoads /\ Racing!LoadedFromOneSave
    /\ part = "apart" => OwnPaths!AckedSaveLoads /\ OwnPaths!LoadedFromOneSave
    /\ part = "long" => Long!AckedSaveLoads /\ Long!LoadedFromOneSave /\ Long!InflightBounded
=============================================================================
