------------------------------ MODULE Dispatch ------------------------------
(***************************************************************************)
(* One call of handle_message: the payload is parsed into one message or a *)
(* batch, the sender is authenticated once, every message is handled in    *)
(* turn, and the responses are put together.  Sources: mcp_json_message.c, *)
(* mcp_server_dispatch.c, mcp_server_handlers.c, mcp_auth.c.               *)
(*                                                                         *)
(* A JSON value of a batch is a record of what the parser looks at.  The   *)
(* id of the value at position i of a payload is the number i.  Contexts   *)
(* allow every resource and tool (create_wildcard_auth_context).           *)
(* Failures to allocate are left out, but for the buffer of the batch's    *)
(* response, which has a path of its own.                                  *)
(***************************************************************************)
EXTENDS Naturals, Sequences, FiniteSets

CONSTANTS
    Items,      \* the JSON values that a payload is made of
    MaxBatch,   \* the longest batch
    ApiKeys,    \* the values of config.api_key: "NULL", "" or a key
    Sources     \* where read_resource may find contents, see ReadResource

VARIABLES
    api_key,    \* server->config.api_key
    supported,  \* capabilities: both resources and tools, or none
    payload,    \* the text: what a parser makes of it
    messages,   \* the array of the parsed messages, with its count
    context,    \* auth_context
    buffer,     \* response_batch_buf: "none", "failed" or "ready"
    i,          \* the next message
    responses,  \* the responses so far
    final,      \* what was returned
    phase       \* what handle_message does next

vars == <<api_key, supported, payload, messages, context, buffer, i,
          responses, final, phase>>

NoMessages == [array |-> <<>>, count |-> 0]
NULL == [shape |-> "NULL", answers |-> <<>>]
Answer(id, kind) == [id |-> id, kind |-> kind]
Types == {"request", "notification", "response", "invalid"}

TypeOK ==
    /\ api_key \in ApiKeys /\ supported \in BOOLEAN
    /\ payload.root \in {"none", "text", "object", "array", "other"}
    /\ Len(messages.array) <= MaxBatch
    /\ messages.count \in 0 .. Len(messages.array)
    /\ \A k \in DOMAIN messages.array : messages.array[k].type \in Types
    /\ context \in {"NULL", "anonymous", "client"}
    /\ buffer \in {"none", "failed", "ready"}
    /\ i \in 1 .. MaxBatch + 1
    /\ final.shape \in {"NULL", "object", "array"}
    /\ phase \in {"idle", "parsed", "authenticated", "handling", "returned"}

Init ==
    /\ api_key \in ApiKeys /\ supported \in BOOLEAN
    /\ payload = [root |-> "none", items |-> <<>>]
    /\ messages = NoMessages /\ context = "NULL" /\ buffer = "none"
    /\ i = 1 /\ responses = <<>> /\ final = NULL /\ phase = "idle"

Return(response) ==
    /\ final' = response /\ phase' = "returned"
    /\ UNCHANGED <<api_key, supported, payload>>

(***************************************************************************)
(* Parsing.                                                                *)
(***************************************************************************)
Params(item) == item.params \in {"none", "unnamed", "named"}

MessageType(item) ==
    IF item.value # "object" THEN "invalid"
    ELSE IF item.method \notin {"none", "not_string"}
    THEN CASE item.id = "none" /\ Params(item) -> "notification"
           [] item.id = "number" /\ Params(item) -> "request"
           [] OTHER -> "invalid"
    ELSE IF item.id = "number"
            /\ \/ item.error = "object" /\ item.result = "none"
               \/ item.error \in {"none", "not_object"} /\ item.result = "some"
         THEN "response" ELSE "invalid"

Message(items, k) ==
    [type |-> MessageType(items[k]), id |-> k, method |-> items[k].method,
     params |-> items[k].params, key |-> items[k].key]

\* count is the number of the messages that were parsed, and the array holds
\* every message at the position it has in the batch.
ParseBatch(items) ==
    [array |-> [k \in DOMAIN items |-> Message(items, k)],
     count |-> Cardinality({k \in DOMAIN items :
                              MessageType(items[k]) # "invalid"})]

Payloads ==
    {[root |-> r, items |-> <<>>] : r \in {"text", "other"}}
    \cup [root : {"object"}, items : {<<item>> : item \in
                                      {x \in Items : x.value = "object"}}]
    \cup [root : {"array"}, items : UNION {[1 .. n -> Items] : n \in 0 .. MaxBatch}]

Parses(p) ==
    \/ p.root = "object" /\ MessageType(p.items[1]) # "invalid"
    \/ p.root = "array" /\ p.items # <<>>

Receive ==
    /\ phase = "idle"
    /\ \E p \in Payloads :
        /\ payload' = p
        /\ IF Parses(p)
           THEN /\ messages' = ParseBatch(p.items) /\ phase' = "parsed"
                /\ final' = final
           ELSE /\ final' = [shape |-> "object",
                             answers |-> <<Answer(0, "parse_error")>>]
                /\ phase' = "returned" /\ messages' = messages
    /\ UNCHANGED <<api_key, supported, context, buffer, i, responses>>

(***************************************************************************)
(* Authentication, once for the payload, with what its first message has.  *)
(***************************************************************************)
Verify(required, credentials) ==
    IF required = "none"
    THEN IF api_key = "NULL" THEN "anonymous" ELSE "NULL"
    ELSE IF credentials = api_key THEN "client" ELSE "NULL"

Authenticate ==
    /\ phase = "parsed"
    /\ LET first == messages.array[1]
           asks == messages.count > 0 /\ first.type = "request"
           required == IF api_key \in {"NULL", ""} THEN "none" ELSE "api_key"
           credentials == IF asks /\ required = "api_key" THEN first.key
                          ELSE "none"
           verified == Verify(required, credentials)
       IN CASE verified # "NULL" ->
                /\ context' = verified /\ phase' = "authenticated"
                /\ UNCHANGED <<api_key, supported, payload, messages, final>>
            [] verified = "NULL" /\ asks /\ first.method = "ping" ->
                /\ context' = "anonymous" /\ phase' = "authenticated"
                /\ UNCHANGED <<api_key, supported, payload, messages, final>>
            [] OTHER ->
                /\ Return([shape |-> "object", answers |->
                        <<Answer(IF asks THEN first.id ELSE 0, "refused")>>])
                /\ messages' = NoMessages /\ UNCHANGED context
    /\ UNCHANGED <<buffer, i, responses>>

\* More than one message, not an array in the text, makes a batch.
IsBatch == messages.count > 1

Prepare ==
    /\ phase = "authenticated"
    /\ buffer' \in IF IsBatch THEN {"ready", "failed"} ELSE {"none"}
    /\ phase' = "handling"
    /\ UNCHANGED <<api_key, supported, payload, messages, context, i,
                   responses, final>>

(***************************************************************************)
(* The handlers: the kind of response that they may give.                  *)
(***************************************************************************)
\* The methods in the order in which handle_request compares them, with the
\* length that it compares.
MethodTable == <<
    <<4, "ping">>, <<9, "call_tool">>, <<13, "read_resource">>,
    <<14, "list_resources">>, <<10, "list_tools">>,
    <<23, "list_resource_templates">>, <<22, "get_performance_metrics">>,
    <<24, "reset_performance_metrics">> >>

Handles(entry, method) ==
    /\ Len(method) = entry[1]
    /\ method = SubSeq(entry[2], 1, entry[1])

\* Contents come from the cache, then from a template's handler, then from the
\* resource handler; what is found nowhere is looked up only to choose the
\* error.
ReadResource(s) ==
    IF s.cached THEN "result"
    ELSE CASE s.template = "contents" -> "result"
           [] s.template = "error" -> "error"
           [] s.template = "nothing" ->
                IF s.listed THEN "internal_error" ELSE "resource_not_found"
           [] s.template = "none" ->
                IF s.handler = "contents" THEN "result"
                ELSE IF s.handler = "none" THEN "resource_not_found"
                ELSE "error"

\* The method gateway_forward_request would be reached for is never chosen:
\* find_backend_for_request takes the text of the params for a parsed object.
Outcomes(m) ==
    LET known == {k \in DOMAIN MethodTable : Handles(MethodTable[k], m.method)}
        name == MethodTable[CHOOSE k \in known : TRUE][2]
    IN IF context = "NULL" /\ m.method # "ping" THEN {"NULL"}
       ELSE IF known = {} THEN {"method_not_found"}
       ELSE IF name = "ping" THEN {"result"}
       ELSE IF name \in {"get_performance_metrics", "reset_performance_metrics"}
       THEN {"result"}
       ELSE IF ~supported THEN {"method_not_found"}
       ELSE IF name \notin {"read_resource", "call_tool"} THEN {"result"}
       ELSE IF m.params # "named" THEN {"invalid_params"}
       ELSE IF name = "call_tool" THEN {"result", "error"}
       ELSE {ReadResource(s) : s \in Sources}

\* A mutant: notifications are answered as well.
HandleAll ==
    /\ phase = "handling" /\ i <= messages.count /\ buffer # "failed"
    /\ i' = i + 1
    /\ LET m == messages.array[i] IN
        \/ /\ m.type \notin {"request", "notification"} /\ UNCHANGED responses
        \/ /\ m.type \in {"request", "notification"}
           /\ \E kind \in Outcomes(m) :
                responses' = Append(responses, Answer(m.id, kind))
    /\ UNCHANGED <<api_key, supported, payload, messages, context, buffer,
                   final, phase>>

\* A request whose handler gave nothing is answered in a batch only.
Handle ==
    /\ phase = "handling" /\ i <= messages.count /\ buffer # "failed"
    /\ i' = i + 1
    /\ LET m == messages.array[i] IN
        \/ /\ m.type # "request" /\ UNCHANGED responses
        \/ /\ m.type = "request"
           /\ \E kind \in Outcomes(m) :
                responses' =
                    IF kind # "NULL" THEN Append(responses, Answer(m.id, kind))
                    ELSE IF IsBatch THEN Append(responses, Answer(m.id, "failed"))
                    ELSE responses
    /\ UNCHANGED <<api_key, supported, payload, messages, context, buffer,
                   final, phase>>

Finish ==
    /\ phase = "handling"
    /\ i > messages.count \/ buffer = "failed"
    /\ Return(IF responses = <<>> THEN NULL
              ELSE [shape |-> IF IsBatch THEN "array" ELSE "object",
                    answers |-> responses])
    /\ messages' = NoMessages /\ context' = "NULL"
    /\ i' = 1 /\ responses' = <<>> /\ buffer' = "none"

NextCall ==
    /\ phase = "returned" /\ phase' = "idle" /\ final' = NULL
    /\ payload' = [root |-> "none", items |-> <<>>]
    /\ UNCHANGED <<api_key, supported, messages, context, buffer, i, responses>>

Next == Receive \/ Authenticate \/ Prepare \/ Handle \/ Finish \/ NextCall

Spec == Init /\ [][Next]_vars

-----------------------------------------------------------------------------
Requests(items) ==
    SelectSeq([k \in DOMAIN items |-> Message(items, k)],
              LAMBDA m : m.type = "request")
Ids(ms) == [k \in DOMAIN ms |-> ms[k].id]
Refused == \E k \in DOMAIN final.answers :
              final.answers[k].kind \in {"refused", "parse_error"}

\* The responses that handle_message returns answer requests of the payload,
\* in their order, each at most once, and none answers a notification; when
\* every value of the payload is a message, the sender is known and the buffer
\* could be made, every request is answered.
AnswersMatchRequests ==
    (phase = "returned" /\ ~Refused) =>
        LET asked == Ids(Requests(payload.items))
            given == Ids(final.answers)
        IN /\ \A k \in DOMAIN given : \E j \in DOMAIN asked : asked[j] = given[k]
           /\ \A j, k \in DOMAIN given : j < k => given[j] < given[k]
           /\ \/ given = asked
              \/ final.answers = <<>> /\ Len(payload.items) > 1
              \/ \E k \in DOMAIN payload.items :
                    MessageType(payload.items[k]) = "invalid"

\* "For batches containing requests, it's a JSON array of response objects":
\* a batch is answered by an array with a response to each of its requests.
\* It is not: the messages of a batch stay at their positions when others are
\* invalid and count no longer reaches the last of them, and a batch with one
\* message is answered by an object.
BatchAnsweredByArray ==
    (phase = "returned" /\ ~Refused /\ payload.root = "array"
     /\ Requests(payload.items) # <<>> /\ final # NULL) =>
        /\ final.shape = "array"
        /\ Ids(final.answers) = Ids(Requests(payload.items))

\* Every method that has a handler reaches it.  Two do not: the lengths that
\* the last two comparisons use are those of the names without their last
\* letter.
MethodsReachable ==
    \A k \in DOMAIN MethodTable : \E j \in DOMAIN MethodTable :
        Handles(MethodTable[j], MethodTable[k][2])
=============================================================================
