------------------------------- MODULE HttpSse -------------------------------
(* Server-sent events of the HTTP server transport: events are stored in a ring *)
(* and written to the listed clients; a client that comes back with the id of   *)
(* the last event it got has the later ones replayed.                          *)
(* Sources: src/transport/mcp_http_server_{sse,handlers,callbacks}.c.          *)
(*                                                                             *)
(* Connections are handled by the event thread alone, one callback at a time.  *)
(* A critical section of event_mutex or of sse_mutex is one action.  An event   *)
(* is known by the number it has in the ring.  Allocations succeed.            *)
EXTENDS Naturals, Sequences, FiniteSets, SequencesExt

CONSTANTS Senders,         \* threads that call mcp_http_transport_send_sse
          Clients,
          Session, Filter, \* what each client puts in its query, NULL if nothing
          Calls,           \* what is sent: [event, session]
          NULL,
          Serial,          \* the event thread is the only sender
          MaxStored,       \* MAX_SSE_STORED_EVENTS
          MaxClients,      \* MAX_SSE_CLIENTS
          MaxEvents        \* bound: events that are sent

VARIABLES ring,            \* stored_events
          head, tail, count,
          sent,            \* history: the calls that were stored, by number
          sse_clients,
          sender,          \* where each sender is, its event and the id it read
          client,          \* each client's connection; the last id it saw; its
                           \* session's last_event_id; history: the events it
                           \* got, and how many were sent when it got the first
          broken           \* freed memory was read

stored == <<ring, head, tail, count, sent>>
vars == <<stored, sse_clients, sender, client, broken>>

Empty == [id |-> 0, event |-> NULL]
Resting == [pc |-> "idle", n |-> 0, id |-> 0]
Listed == {"listed", "open", "gone", "closing"}

\* next_event_id: every number is used.
next_event_id == Len(sent) + 1

\* The ring, the list and every sender and client have their types.
TypeOK ==
    /\ ring \in [0 .. MaxStored - 1 -> [id : 0 .. MaxEvents, event : {NULL} \cup {c.event : c \in Calls}]]
    /\ {head, tail} \subseteq 0 .. MaxStored - 1
    /\ count \in 0 .. MaxStored
    /\ sent \in Seq(Calls)
    /\ sse_clients \in Seq(Clients)
    /\ sender \in [Senders -> [pc : {"idle", "stored", "labelled"}, n : 0 .. MaxEvents, id : 0 .. MaxEvents]]
    /\ client \in [Clients -> [state : Listed \cup {"away", "rejected"}, last : 0 .. MaxEvents,
                               mark : 0 .. MaxEvents, got : SUBSET (1 .. MaxEvents), since : 0 .. MaxEvents]]
    /\ broken \in BOOLEAN

Init ==
    /\ ring = [i \in 0 .. MaxStored - 1 |-> Empty]
    /\ head = 0 /\ tail = 0 /\ count = 0
    /\ sent = <<>>
    /\ sse_clients = <<>>
    /\ sender = [s \in Senders |-> Resting]
    /\ client = [c \in Clients |->
           [state |-> "away", last |-> 0, mark |-> 0, got |-> {}, since |-> 0]]
    /\ broken = FALSE

\* The event thread is between two callbacks, and is not sending itself.
EventThreadFree ==
    /\ \A c \in Clients : client[c].state \notin {"listed", "closing"}
    /\ Serial => \A s \in Senders : sender[s].pc = "idle"

-----------------------------------------------------------------------------
(* Sending *)

\* Mutant: the head stays on the event that is replaced.
StoreKeepHead(call) ==
    /\ ring' = [ring EXCEPT ![tail] = [id |-> next_event_id, event |-> call.event]]
    /\ tail' = (tail + 1) % MaxStored
    /\ count' = IF count = MaxStored THEN count ELSE count + 1
    /\ sent' = Append(sent, call)
    /\ UNCHANGED head

\* store_sse_event: a full ring loses its oldest event.
Store(call) ==
    /\ ring' = [ring EXCEPT ![tail] = [id |-> next_event_id, event |-> call.event]]
    /\ tail' = (tail + 1) % MaxStored
    /\ IF count = MaxStored
       THEN head' = (head + 1) % MaxStored /\ UNCHANGED count
       ELSE count' = count + 1 /\ UNCHANGED head
    /\ sent' = Append(sent, call)

\* is_valid_sse_text is false of NULL, so both texts must be given.
SendBegin(s, call) ==
    /\ sender[s].pc = "idle"
    /\ Serial => EventThreadFree
    /\ call.event # NULL /\ call.session # NULL
    /\ Len(sent) < MaxEvents
    /\ Store(call)
    /\ sender' = [sender EXCEPT ![s] = [pc |-> "stored", n |-> next_event_id, id |-> 0]]
    /\ UNCHANGED <<sse_clients, client, broken>>

\* The id is read from next_event_id, without a lock.
SendLabel(s) ==
    /\ sender[s].pc = "stored"
    /\ sender' = [sender EXCEPT ![s].pc = "labelled", ![s].id = next_event_id - 1]
    /\ UNCHANGED <<stored, sse_clients, client, broken>>

\* session_matches_filter.
MatchesFilter(c, event) == Filter[c] = NULL \/ Filter[c] = event

\* session_matches_filter and session_matches_id, for calls that name a session.
Wants(c, call) == MatchesFilter(c, call.event) /\ Session[c] = call.session

\* The delivery: every listed client that wants the event is written to.  One
\* that closes has no session id any more; what is written to one that is gone
\* does not arrive.
SendDeliver(s) ==
    LET n == sender[s].n
        to == {c \in ToSet(sse_clients) : client[c].state # "closing" /\ Wants(c, sent[n])}
    IN  /\ sender[s].pc = "labelled"
        /\ client' = [c \in Clients |->
               IF c \notin to THEN client[c]
               ELSE IF client[c].state = "gone" THEN [client[c] EXCEPT !.mark = sender[s].id]
               ELSE [client[c] EXCEPT !.mark = sender[s].id, !.last = sender[s].id,
                                      !.got = @ \cup {n},
                                      !.since = IF client[c].got = {} THEN Len(sent) ELSE @]]
        /\ sender' = [sender EXCEPT ![s] = Resting]
        /\ UNCHANGED <<stored, sse_clients, broken>>

\* The filter or the session id of a client that is closing was freed between
\* the test of the pointer and its use.
SendReadsFreed(s) ==
    /\ sender[s].pc = "labelled"
    /\ \E c \in ToSet(sse_clients) : client[c].state = "closing"
    /\ broken' = TRUE
    /\ UNCHANGED <<stored, sse_clients, sender, client>>

-----------------------------------------------------------------------------
(* Connections *)

\* handle_sse_request, as far as the list.  A client that finds the list full is
\* told nothing, and its connection stays open.
Connect(c) ==
    /\ EventThreadFree
    /\ client[c].state = "away"
    /\ IF Len(sse_clients) < MaxClients
       THEN /\ sse_clients' = Append(sse_clients, c)
            /\ client' = [client EXCEPT ![c].state = "listed", ![c].mark = client[c].last]
       ELSE /\ client' = [client EXCEPT ![c].state = "rejected"]
            /\ UNCHANGED sse_clients
    /\ UNCHANGED <<stored, sender, broken>>

\* Mutant: off by one, the event after the last one seen is skipped.
MissedLater(c) ==
    {e \in {ring[(head + i) % MaxStored] : i \in 0 .. count - 1} :
         e.id > client[c].mark + 1 /\ MatchesFilter(c, e.event)}

\* replay_stored_events: what it finds to send.  The session is not asked.
Missed(c) ==
    {e \in {ring[(head + i) % MaxStored] : i \in 0 .. count - 1} :
         e.id > client[c].mark /\ MatchesFilter(c, e.event)}

\* The rest of handle_sse_request.
Replay(c) ==
    LET ids == IF client[c].mark = 0 THEN {} ELSE {e.id : e \in Missed(c)}
    IN  /\ client[c].state = "listed"
        /\ client' = [client EXCEPT ![c].state = "open", ![c].got = @ \cup ids,
                          ![c].last = IF ids = {} THEN @ ELSE Max(ids)]
        /\ UNCHANGED <<stored, sse_clients, sender, broken>>

\* The client goes away, and the server does not know yet.
Vanish(c) ==
    /\ client[c].state = "open"
    /\ client' = [client EXCEPT ![c].state = "gone"]
    /\ UNCHANGED <<stored, sse_clients, sender, broken>>

\* handle_closed_http frees what the session points to before it takes the lock.
CloseBegin(c) ==
    /\ EventThreadFree
    /\ client[c].state \in {"open", "gone", "rejected"}
    /\ client' = [client EXCEPT ![c].state = "closing"]
    /\ UNCHANGED <<stored, sse_clients, sender, broken>>

\* Mutant: the last client takes the place of the one that leaves, and stays.
CloseEndSwap(c) ==
    /\ client[c].state = "closing"
    /\ sse_clients' = [i \in DOMAIN sse_clients |->
           IF sse_clients[i] = c THEN Last(sse_clients) ELSE sse_clients[i]]
    /\ client' = [client EXCEPT ![c].state = "away"]
    /\ UNCHANGED <<stored, sender, broken>>

\* Its second half: the client leaves the list, if it is there.
CloseEnd(c) ==
    /\ client[c].state = "closing"
    /\ sse_clients' = SelectSeq(sse_clients, LAMBDA x : x # c)
    /\ client' = [client EXCEPT ![c].state = "away"]
    /\ UNCHANGED <<stored, sender, broken>>

Next ==
    /\ ~broken
    /\ \/ \E s \in Senders :
              \/ \E call \in Calls : SendBegin(s, call)
              \/ SendLabel(s) \/ SendDeliver(s) \/ SendReadsFreed(s)
       \/ \E c \in Clients :
              Connect(c) \/ Replay(c) \/ Vanish(c) \/ CloseBegin(c) \/ CloseEnd(c)

Spec == Init /\ [][Next]_vars

-----------------------------------------------------------------------------
\* "If client reconnected with Last-Event-ID, replay missed events": once no send
\* is under way, a client that is connected has got every event still stored that
\* it wants and that was sent after it got its first one.
NothingMissed ==
    (\A s \in Senders : sender[s].pc = "idle") =>
        \A c \in Clients : client[c].state = "open" /\ client[c].since > 0 =>
            \A i \in 0 .. count - 1 :
                LET n == ring[(head + i) % MaxStored].id
                IN  n > client[c].since /\ Wants(c, sent[n]) => n \in client[c].got

\* The ring holds the latest events, oldest first at its head, and the list of
\* clients holds every connection that is served once, in any interleaving of
\* senders and connections.
RingAndListExact ==
    /\ tail = (head + count) % MaxStored
    /\ \A i \in 0 .. count - 1 :
           ring[(head + i) % MaxStored].id = next_event_id - count + i
    /\ IsInjective(sse_clients)
    /\ \A c \in ToSet(sse_clients) : client[c].state \in Listed
    /\ \A c \in Clients : client[c].state \in {"listed", "open", "gone"} => c \in ToSet(sse_clients)

\* While the event thread is the only sender, as in examples/http_server.c, no
\* event is missed and nothing that was freed is read.
SerialNothingMissed == Serial => NothingMissed /\ ~broken
=============================================================================
