--------------------------- MODULE ClientRequests ----------------------------
(* The requests of an MCP client: threads that call mcp_client_send_request,   *)
(* the transport's receive thread that delivers the responses, and transport   *)
(* errors.  Sources: src/client/mcp_client_request.c and mcp_client_core.c.    *)
(*                                                                             *)
(* The table of pending requests is a map from ids to entries here; module     *)
(* RequestTable has its algorithm.  What matters of it is that an add may      *)
(* move the table: a thread that waits holds a pointer into the table, and     *)
(* "moves" counts how often the table was freed and allocated anew.            *)
EXTENDS Integers, FiniteSets

CONSTANTS Callers,       \* threads that make requests
          Synchronous,   \* the transport is HTTP or WebSocket
          Timed,         \* request_timeout_ms > 0
          Capacity,      \* INITIAL_PENDING_REQUESTS_CAPACITY
          MaxRequests    \* bound: requests made

ASSUME ClientAssumption ==
    /\ IsFiniteSet(Callers)
    /\ Synchronous \in BOOLEAN
    /\ Timed \in BOOLEAN
    /\ Capacity \in Nat \ {0}
    /\ MaxRequests \in Nat

VARIABLES next_id,   \* client->next_id
          status,    \* the table: request id -> status of its entry
          capacity,  \* pending_requests_capacity
          moves,     \* how often the table was moved
          caller,    \* each caller: where it is, its request, its pointer
          output,    \* what result, error_code of the caller point to
          returned,  \* history: return value of the caller's last call
          unsent,    \* history: the send of that call failed
          sent,      \* ids of requests on their way to the server
          answers    \* responses on their way back

vars == <<next_id, status, capacity, moves, caller, output, returned,
          unsent, sent, answers>>

Ids == 1 .. MaxRequests

Statuses == {"invalid", "waiting", "completed", "error", "timeout"}

CallerStates == {"idle", "id", "added", "unsent", "sent", "waiting", "woken"}

\* A response: the request it answers, and whether it carries a result.
Answers == [id : Ids, ok : BOOLEAN]

\* The output parameters: which request they were last written for, whether
\* there is a result, and the error code.
NoOutput == [id |-> 0, result |-> FALSE, error |-> "none"]

OutputOf(a) == [id |-> a.id, result |-> a.ok,
                error |-> IF a.ok THEN "none" ELSE "server"]

Errors == {"none", "server", "transport", "internal"}

OutputRecords == [id : Ids \cup {0}, result : BOOLEAN, error : Errors]

\* The value of "returned" before a first call.
NotReturned == 1

Idle == [pc |-> "idle", id |-> 0, pointer |-> 0]

CallRecords == [pc : CallerStates, id : Ids \cup {0}, pointer : Nat]

Live == {id \in Ids : status[id] # "invalid"}

network == <<sent, answers>>

-----------------------------------------------------------------------------
\* Mutant: the first request has id 0, which the receive callback ignores.
InitZero ==
    /\ next_id = 0
    /\ status = [id \in Ids |-> "invalid"]
    /\ capacity = Capacity
    /\ moves = 0
    /\ caller = [c \in Callers |-> Idle]
    /\ output = [c \in Callers |-> NoOutput]
    /\ returned = [c \in Callers |-> NotReturned]
    /\ unsent = [c \in Callers |-> FALSE]
    /\ sent = {}
    /\ answers = {}

\* mcp_client_create.
Init ==
    /\ next_id = 1
    /\ status = [id \in Ids |-> "invalid"]
    /\ capacity = Capacity
    /\ moves = 0
    /\ caller = [c \in Callers |-> Idle]
    /\ output = [c \in Callers |-> NoOutput]
    /\ returned = [c \in Callers |-> NotReturned]
    /\ unsent = [c \in Callers |-> FALSE]
    /\ sent = {}
    /\ answers = {}

\* mcp_client_send_request: the next id is taken under the mutex.
TakeId(c) ==
    /\ caller[c].pc = "idle"
    /\ next_id <= MaxRequests
    /\ next_id' = next_id + 1
    /\ caller' = [caller EXCEPT ![c] = [pc |-> "id", id |-> next_id,
                                        pointer |-> 0]]
    /\ output' = [output EXCEPT ![c] = NoOutput]
    /\ unsent' = [unsent EXCEPT ![c] = FALSE]
    /\ UNCHANGED <<status, capacity, moves, returned, network>>

Return(c, value) ==
    /\ caller' = [caller EXCEPT ![c].pc = "idle"]
    /\ returned' = [returned EXCEPT ![c] = value]

\* The table is resized when one more entry brings it to 75%.
NeedsResize == ((Cardinality(Live) + 1) * 100) \div capacity >= 75

\* An asynchronous request enters the table, which may move for it.
Register(c) ==
    /\ caller[c].pc = "id"
    /\ ~Synchronous
    /\ status' = [status EXCEPT ![caller[c].id] = "waiting"]
    /\ capacity' = IF NeedsResize THEN 2 * capacity ELSE capacity
    /\ moves' = IF NeedsResize THEN moves + 1 ELSE moves
    /\ caller' = [caller EXCEPT ![c].pc = "added"]
    /\ UNCHANGED <<next_id, output, returned, unsent, network>>

\* No memory for the condition variable or the larger table.
RegisterFails(c) ==
    /\ caller[c].pc = "id"
    /\ ~Synchronous
    /\ Return(c, -1)
    /\ UNCHANGED <<next_id, status, capacity, moves, output, unsent, network>>

ReadyToSend(c) == caller[c].pc = IF Synchronous THEN "id" ELSE "added"

Send(c) ==
    /\ ReadyToSend(c)
    /\ sent' = sent \cup {caller[c].id}
    /\ caller' = [caller EXCEPT ![c].pc = "sent"]
    /\ UNCHANGED <<next_id, status, capacity, moves, output, returned, unsent,
                   answers>>

\* The transport reports an error, though bytes may have left.
SendFails(c) ==
    /\ ReadyToSend(c)
    /\ sent' \in {sent, sent \cup {caller[c].id}}
    /\ IF Synchronous THEN Return(c, -1)
       ELSE /\ caller' = [caller EXCEPT ![c].pc = "unsent"]
            /\ UNCHANGED returned
    /\ unsent' = [unsent EXCEPT ![c] = TRUE]
    /\ UNCHANGED <<next_id, status, capacity, moves, output, answers>>

\* Mutant: the request that could not be sent stays in the table.
WithdrawForgotten(c) ==
    /\ caller[c].pc = "unsent"
    /\ Return(c, -1)
    /\ UNCHANGED <<next_id, status, capacity, moves, output, unsent, network>>

\* The request that could not be sent is taken out of the table.
Withdraw(c) ==
    /\ caller[c].pc = "unsent"
    /\ status' = [status EXCEPT ![caller[c].id] = "invalid"]
    /\ Return(c, -1)
    /\ UNCHANGED <<next_id, capacity, moves, output, unsent, network>>

\* The end of an asynchronous call, still under the mutex: the status that was
\* read decides, and the entry is removed.
Conclude(c, seen) ==
    /\ status' = [status EXCEPT ![caller[c].id] = "invalid"]
    /\ Return(c, IF seen = "completed" THEN 0 ELSE -1)
    /\ output' = [output EXCEPT ![c].error =
                     CASE seen = "completed" -> @
                       [] seen = "timeout" -> "transport"
                       [] OTHER -> IF @ = "none" THEN "internal" ELSE @]
    /\ UNCHANGED <<next_id, capacity, moves, unsent, network>>

\* Mutant: the caller waits without a look at the status.
AwaitAlways(c) ==
    /\ caller[c].pc = "sent"
    /\ ~Synchronous
    /\ caller' = [caller EXCEPT ![c].pc = "waiting", ![c].pointer = moves]
    /\ UNCHANGED <<next_id, status, capacity, moves, output, returned, unsent,
                   network>>

\* Under the mutex the caller looks at its entry; if it still waits for a
\* response the caller waits on the entry's condition variable.
Await(c) ==
    /\ caller[c].pc = "sent"
    /\ ~Synchronous
    /\ status[caller[c].id] = "waiting"
    /\ caller' = [caller EXCEPT ![c].pc = "waiting", ![c].pointer = moves]
    /\ UNCHANGED <<next_id, status, capacity, moves, output, returned, unsent,
                   network>>

\* The response came before the caller could wait for it.
AwaitNot(c) ==
    /\ caller[c].pc = "sent"
    /\ ~Synchronous
    /\ status[caller[c].id] # "waiting"
    /\ Conclude(c, status[caller[c].id])

\* The timed wait ends by its timeout.
Timeout(c) ==
    /\ caller[c].pc = "waiting"
    /\ Timed
    /\ caller' = [caller EXCEPT ![c].pc = "woken"]
    /\ UNCHANGED <<next_id, status, capacity, moves, output, returned, unsent,
                   network>>

\* The wait returns without a signal, as POSIX allows; there is no loop.
SpuriousWake(c) ==
    /\ caller[c].pc = "waiting"
    /\ caller' = [caller EXCEPT ![c].pc = "woken"]
    /\ UNCHANGED <<next_id, status, capacity, moves, output, returned, unsent,
                   network>>

\* What the caller reads through its pointer once it has the mutex again: its
\* entry, or whatever is in the memory that was freed when the table moved.
\* (mcp_cond_timedwait reports a timeout as -2 and the caller compares it with
\* ETIMEDOUT: the status is never set to "timeout".)
Reads(c) ==
    IF caller[c].pointer = moves THEN {status[caller[c].id]} ELSE Statuses

\* A woken caller concludes, whatever it was woken by.
Wake(c) ==
    /\ caller[c].pc = "woken"
    /\ \E seen \in Reads(c) : Conclude(c, seen)

\* Mutant: the id of the response is not compared with the request's.
ReceiveSyncAny(c) ==
    /\ caller[c].pc = "sent"
    /\ Synchronous
    /\ \E a \in answers :
          /\ answers' = answers \ {a}
          /\ output' = [output EXCEPT ![c] = OutputOf(a)]
          /\ Return(c, IF a.ok THEN 0 ELSE -1)
    /\ UNCHANGED <<next_id, status, capacity, moves, unsent, sent>>

\* mcp_transport_receive on a synchronous transport: the next response is
\* taken, whosever it is.
ReceiveSync(c) ==
    /\ caller[c].pc = "sent"
    /\ Synchronous
    /\ \E a \in answers :
          /\ answers' = answers \ {a}
          /\ output' = [output EXCEPT ![c] = IF a.id = caller[c].id
                                             THEN OutputOf(a)
                                             ELSE [@ EXCEPT !.error = "internal"]]
          /\ Return(c, IF a.id = caller[c].id /\ a.ok THEN 0 ELSE -1)
    /\ UNCHANGED <<next_id, status, capacity, moves, unsent, sent>>

ReceiveSyncFails(c) ==
    /\ caller[c].pc = "sent"
    /\ Synchronous
    /\ output' = [output EXCEPT ![c].error = "transport"]
    /\ Return(c, -1)
    /\ UNCHANGED <<next_id, status, capacity, moves, unsent, network>>

-----------------------------------------------------------------------------
(* The server and the receive thread. *)

Answer(id) ==
    /\ id \in sent
    /\ sent' = sent \ {id}
    /\ \E ok \in BOOLEAN : answers' = answers \cup {[id |-> id, ok |-> ok]}
    /\ UNCHANGED <<next_id, status, capacity, moves, caller, output, returned,
                   unsent>>

\* Callers woken by a signal on the condition variables of ids.
Signalled(ids) ==
    [c \in Callers |->
       IF caller[c].pc = "waiting" /\ caller[c].id \in ids
       THEN [caller[c] EXCEPT !.pc = "woken"] ELSE caller[c]]

\* The entry keeps pointers to the output parameters of the call.
Points(c, id) == caller[c].pc # "idle" /\ caller[c].id = id

WriteOutput(a) ==
    output' = [c \in Callers |-> IF Points(c, a.id) THEN OutputOf(a) ELSE output[c]]

\* mcp_client_receive_callback of an asynchronous transport.  A response to a
\* request that is not waiting is dropped.
Deliver(a) ==
    /\ ~Synchronous
    /\ a \in answers
    /\ answers' = answers \ {a}
    /\ IF status[a.id] = "waiting"
       THEN /\ status' = [status EXCEPT ![a.id] =
                              IF a.ok THEN "completed" ELSE "error"]
            /\ WriteOutput(a)
            /\ caller' = Signalled({a.id})
       ELSE UNCHANGED <<status, output, caller>>
    /\ UNCHANGED <<next_id, capacity, moves, returned, unsent, sent>>

\* Mutant: a transport error takes the waiting requests out of the table.
TransportErrorRemoves ==
    LET waiting == {id \in Ids : status[id] = "waiting"}
    IN  /\ ~Synchronous
        /\ waiting # {}
        /\ status' = [id \in Ids |-> IF id \in waiting THEN "invalid" ELSE status[id]]
        /\ caller' = Signalled(waiting)
        /\ UNCHANGED <<next_id, capacity, moves, output, returned, unsent, network>>

\* mcp_client_transport_error_callback: every waiting request fails.
TransportError ==
    LET waiting == {id \in Ids : status[id] = "waiting"}
    IN  /\ ~Synchronous
        /\ waiting # {}
        /\ status' = [id \in Ids |-> IF id \in waiting THEN "error" ELSE status[id]]
        /\ output' = [c \in Callers |->
                        IF \E id \in waiting : Points(c, id)
                        THEN [output[c] EXCEPT !.error = "transport"]
                        ELSE output[c]]
        /\ caller' = Signalled(waiting)
        /\ UNCHANGED <<next_id, capacity, moves, returned, unsent, network>>

\* The connection loses a message.
Lose(id) ==
    /\ \/ id \in sent
       \/ \E a \in answers : a.id = id
    /\ sent' = sent \ {id}
    /\ answers' = {a \in answers : a.id # id}
    /\ UNCHANGED <<next_id, status, capacity, moves, caller, output, returned,
                   unsent>>

-----------------------------------------------------------------------------
CallerStep(c) ==
    \/ Register(c) \/ RegisterFails(c) \/ Send(c) \/ SendFails(c) \/ Withdraw(c)
    \/ Await(c) \/ AwaitNot(c) \/ Wake(c) \/ ReceiveSync(c) \/ ReceiveSyncFails(c)

Next ==
    \/ \E c \in Callers : TakeId(c) \/ CallerStep(c) \/ Timeout(c) \/ SpuriousWake(c)
    \/ \E id \in Ids : Answer(id) \/ Lose(id)
    \/ \E a \in answers : Deliver(a)
    \/ TransportError

Spec == Init /\ [][Next]_vars

\* The callers' threads run and a timed wait ends.  Nothing is assumed of the
\* server and the connection.
Fairness ==
    \A c \in Callers : WF_vars(CallerStep(c)) /\ WF_vars(Timeout(c))

FairSpec == Spec /\ Fairness

-----------------------------------------------------------------------------
TypeOK ==
    /\ next_id \in 1 .. MaxRequests + 1
    /\ status \in [Ids -> Statuses]
    /\ capacity \in Nat \ {0}
    /\ moves \in Nat
    /\ caller \in [Callers -> CallRecords]
    /\ output \in [Callers -> OutputRecords]
    /\ returned \in [Callers -> {0, -1, NotReturned}]
    /\ unsent \in [Callers -> BOOLEAN]
    /\ sent \subseteq Ids
    /\ answers \subseteq Answers

\* An entry of the table points to variables of the call that made it, so it
\* must not outlive the call: whatever the order of send errors, timeouts,
\* late responses and transport errors, a live entry belongs to exactly one
\* call in progress.
EntriesHaveCallers ==
    \A id \in Live :
       \E c \in Callers : /\ caller[c].id = id
                          /\ caller[c].pc \notin {"idle", "id"}
                          /\ \A d \in Callers : caller[d].id = id => d = c

\* As soon as the status of a request says "completed" its call has the
\* result: no error and no late response changes what was delivered.
CompletedHasResult ==
    \A c \in Callers :
       (caller[c].id \in Live /\ status[caller[c].id] = "completed") =>
          output[c] = [id |-> caller[c].id, result |-> TRUE, error |-> "none"]

\* The table and the calls agree: entries belong to calls in progress, and what
\* an entry says was delivered its call has.
EntriesMatchCalls == EntriesHaveCallers /\ CompletedHasResult

\* "0 on success, -1 on failure" (mcp_client_request.c:412): a call returns 0
\* exactly when it holds the result of its own request and no error.
ReturnMatchesOutput ==
    \A c \in Callers :
       (caller[c].pc = "idle" /\ returned[c] # NotReturned /\ ~unsent[c]) =>
          (returned[c] = 0) =
             (output[c] = [id |-> caller[c].id, result |-> TRUE, error |-> "none"])

\* ReturnMatchesOutput until the table of pending requests first moves
\* (mcp_client_request.c:322): the value mcp_client_send_request returns tells
\* whether the call holds the result of its own request.
ReturnMatchesUnmoved == moves = 0 => ReturnMatchesOutput

\* The calls use the table as PendingSet, the abstract specification that
\* RequestTable implements, allows: every id is registered while it is not
\* pending, and only the call that registered it takes it out.
Pending == INSTANCE PendingSet WITH members <- Live
UsesPendingSet == Pending!Spec

\* Without a timeout, a call whose request was answered or failed returns: the
\* signal is not missed when it comes before the wait.
AnsweredCallsReturn ==
    \A c \in Callers :
       (caller[c].pc # "idle" /\ caller[c].id \in Live
           /\ status[caller[c].id] \in {"completed", "error"})
          ~> caller[c].pc = "idle"
=============================================================================
