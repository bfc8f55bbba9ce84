---------------------------- MODULE SthttpClient ----------------------------
(***************************************************************************)
(* The client of the Streamable HTTP transport: start, stop and            *)
(* destruction, the attempts to open the event stream, the posts with the  *)
(* two ways their responses are read, and the session the server assigns.  *)
(* A response is read by the optimized parser, which keeps its status and  *)
(* drops its headers and body; only when that parser fails is the          *)
(* connection read again by the older code, which keeps both.  No lock     *)
(* guards the session: its text is freed and its pointer replaced in two   *)
(* steps, by a send that stores a session and by the call that ends one.   *)
(***************************************************************************)
EXTENDS Naturals, FiniteSets

CONSTANTS
    Callers,         \* threads that send
    Recursive,       \* a thread may lock a mutex it holds: a critical section does, a default
                     \* POSIX mutex does not
    enable_sessions,
    enable_sse_streams,
    MaxSessions      \* bound on the sessions the server assigns

VARIABLES
    state,           \* data->state
    shutdown_requested,
    sse_conn,        \* the structure of the stream is allocated
    session_id,      \* the session, 0 for none
    main,            \* the thread that starts and stops: "idle", "connecting", "stuck", "gone"
    freed,           \* the text session_id points to has been freed
    terminator,      \* the call that ends the session: its place, the session in its request
    caller,          \* each send: its place, the session it put in its request or its
                     \* response named, what came of it
    assigned,        \* history: the newest session a response read with its headers named, unless ended
    sessions,        \* history: sessions named so far
    overlapped,      \* history: a call began to change the session before another had
    undefined        \* a session's text was read or freed after it was freed

history == <<assigned, sessions, overlapped>>
vars == <<state, shutdown_requested, sse_conn, session_id, freed, main, terminator, caller,
          history, undefined>>

Outcomes == {"none", "delivered", "unread", "failed"}

Idle == [pc |-> "idle", session |-> 0, outcome |-> "none", result |-> 0]

TypeOK ==
    /\ state \in {"disconnected", "connecting", "connected"}
    /\ {shutdown_requested, sse_conn, freed, overlapped, undefined} \subseteq BOOLEAN
    /\ terminator \in [pc : {"idle", "building", "sending", "clearing"}, session : 0..MaxSessions]
    /\ {session_id, assigned, sessions} \subseteq 0..MaxSessions
    /\ main \in {"idle", "connecting", "stuck", "gone"}
    /\ caller \in [Callers -> [pc : {"idle", "connecting", "building", "posted", "unanswered",
                                     "storing", "ending"},
                               session : 0..MaxSessions,
                               outcome : Outcomes, result : {0, 1}]]

\* mcp_transport_sthttp_client_create.
Init ==
    /\ state = "disconnected" /\ shutdown_requested = FALSE
    /\ sse_conn = FALSE /\ session_id = 0
    /\ freed = FALSE
    /\ main = "idle"
    /\ terminator = [pc |-> "idle", session |-> 0]
    /\ caller = [c \in Callers |-> Idle]
    /\ assigned = 0 /\ sessions = 0 /\ overlapped = FALSE /\ undefined = FALSE

\* sthttp_client_start holds state_mutex when it calls http_client_set_state,
\* which locks it again.
Start ==
    /\ main = "idle" /\ state = "disconnected"
    /\ IF Recursive
       THEN main' = "connecting" /\ state' = "connecting"
       ELSE main' = "stuck" /\ UNCHANGED state
    /\ UNCHANGED <<shutdown_requested, sse_conn, session_id, freed, terminator, caller,
                   history, undefined>>

\* sse_client_connect: the response's content type is what the optimized parser
\* leaves it, NULL, so the stream is closed again; the structure stays, if there
\* is memory for it.  Its request carries the session.
SseConnect(conn) ==
    /\ sse_conn' \in {conn, conn \/ enable_sse_streams}
    /\ undefined' = (undefined \/ (enable_sse_streams /\ freed))

StartEnds ==
    /\ main = "connecting"
    /\ SseConnect(sse_conn)
    /\ state' = "connected"
    /\ main' = "idle"
    /\ UNCHANGED <<shutdown_requested, session_id, freed, terminator, caller, history>>

\* sthttp_client_stop; sse_client_disconnect frees the structure of the stream,
\* whose thread has never been made.
Stop ==
    /\ main = "idle" /\ state # "disconnected"
    /\ shutdown_requested' = TRUE
    /\ state' = "disconnected"
    /\ sse_conn' = FALSE
    /\ UNCHANGED <<session_id, freed, main, terminator, caller, history, undefined>>

\* mcp_sthttp_client_reconnect_sse, whatever the state is.
ReconnectSse ==
    /\ main \in {"idle", "connecting"}
    /\ SseConnect(FALSE)
    /\ UNCHANGED <<state, shutdown_requested, session_id, freed, main, terminator, caller,
                   history>>

\* sthttp_client_destroy, after the other calls have returned.
Destroy ==
    /\ main = "idle" /\ terminator.pc = "idle" /\ \A c \in Callers : caller[c].pc = "idle"
    /\ main' = "gone"
    /\ state' = "disconnected" /\ shutdown_requested' = TRUE
    /\ sse_conn' = FALSE /\ session_id' = 0
    /\ UNCHANGED <<freed, terminator, caller, history, undefined>>

\* What a send leaves alone.
SendSame == UNCHANGED <<state, shutdown_requested, sse_conn, main, terminator>>

\* sthttp_client_send: the state is read under its mutex.
Send(c) ==
    /\ main \in {"idle", "connecting"}
    /\ caller[c].pc = "idle"
    /\ caller' = [caller EXCEPT ![c] = IF state = "connected"
                                       THEN [Idle EXCEPT !.pc = "connecting"]
                                       ELSE [Idle EXCEPT !.outcome = "failed", !.result = 1]]
    /\ SendSame /\ UNCHANGED <<session_id, freed, history, undefined>>

\* A connection is made, and http_client_build_request reads the session's pointer.
ReadSession(c) ==
    /\ caller[c].pc = "connecting"
    /\ caller' = [caller EXCEPT ![c].pc = "building", ![c].session = session_id]
    /\ SendSame /\ UNCHANGED <<session_id, freed, history, undefined>>

\* The session's text is gone: it was freed, and perhaps the pointer replaced.
Gone(session) == session # 0 /\ (freed \/ session_id # session)

\* It copies the session's text, which another call may have freed since.
BuildRequest(c) ==
    /\ caller[c].pc = "building"
    /\ undefined' = (undefined \/ Gone(caller[c].session))
    /\ caller' = [caller EXCEPT ![c].pc = "posted"]
    /\ SendSame /\ UNCHANGED <<session_id, freed, history>>

\* The optimized parser reads the response to its end, or the server closes:
\* either way it reports success and leaves neither body nor headers, so a
\* session the response names is not seen.
ReadOptimized(c) ==
    /\ caller[c].pc = "posted"
    /\ \E outcome \in {"unread", "failed"} :
          caller' = [caller EXCEPT ![c].pc = "ending", ![c].outcome = outcome, ![c].result = 0]
    /\ SendSame /\ UNCHANGED <<session_id, freed, history, undefined>>

\* It reports an error when nothing has come within the timeout; the older code
\* then waits once more.
ReadTimesOut(c) ==
    /\ caller[c].pc = "posted"
    /\ caller' = [caller EXCEPT ![c].pc = "unanswered"]
    /\ SendSame /\ UNCHANGED <<session_id, freed, history, undefined>>

\* No connection, no memory, a request that is not sent or an answer that does
\* not come or is none.
SendFails(c) ==
    /\ caller[c].pc \in {"connecting", "posted", "unanswered"}
    /\ caller' = [caller EXCEPT ![c].pc = "ending", ![c].outcome = "failed", ![c].result = 1]
    /\ SendSame /\ UNCHANGED <<session_id, freed, history, undefined>>

\* The calls that change the session or are about to.
Changing == terminator.pc # "idle" \/ \E c \in Callers : caller[c].pc = "storing"

\* The text is freed; the pointer is still there.
FreeSession ==
    /\ undefined' = (undefined \/ freed)
    /\ freed' = (session_id # 0)

\* http_client_receive_response and http_client_parse_response; the text of the
\* session there was is freed if the response names another.
ReadLegacy(c) ==
    /\ caller[c].pc = "unanswered"
    /\ \/ /\ caller' = [caller EXCEPT ![c].pc = "ending", ![c].outcome = "delivered", ![c].result = 0]
          /\ UNCHANGED <<freed, history, undefined>>
       \/ /\ enable_sessions /\ sessions < MaxSessions
          /\ caller' = [caller EXCEPT ![c].pc = "storing", ![c].session = sessions + 1]
          /\ sessions' = sessions + 1
          /\ assigned' = sessions + 1
          /\ overlapped' = (overlapped \/ Changing)
          /\ FreeSession
    /\ SendSame /\ UNCHANGED session_id

\* Mutant: a session that is there is kept.
KeepSessionOnce(given) == session_id' = IF session_id = 0 THEN given ELSE session_id

\* The session the server put in its response replaces the one there was.
KeepSession(given) == session_id' = given

StoreSession(c) ==
    /\ caller[c].pc = "storing"
    /\ KeepSession(caller[c].session)
    /\ freed' = FALSE
    /\ caller' = [caller EXCEPT ![c].pc = "ending", ![c].outcome = "delivered", ![c].result = 0]
    /\ SendSame /\ UNCHANGED <<history, undefined>>

\* The message callback for a body, the error callback otherwise; send returns.
SendReturns(c) ==
    /\ caller[c].pc = "ending"
    /\ caller' = [caller EXCEPT ![c] = Idle]
    /\ SendSame /\ UNCHANGED <<session_id, freed, history, undefined>>

-----------------------------------------------------------------------------
(* mcp_sthttp_client_terminate_session, in any thread *)

TerminateSame == UNCHANGED <<state, shutdown_requested, sse_conn, main, caller, sessions>>

TerminateSession ==
    /\ main \in {"idle", "connecting"} /\ terminator.pc = "idle"
    /\ enable_sessions /\ session_id # 0
    /\ terminator' = [pc |-> "building", session |-> session_id]
    /\ overlapped' = (overlapped \/ Changing)
    /\ TerminateSame /\ UNCHANGED <<session_id, freed, assigned, undefined>>

BuildDelete ==
    /\ terminator.pc = "building"
    /\ undefined' = (undefined \/ Gone(terminator.session))
    /\ terminator' = [terminator EXCEPT !.pc = "sending"]
    /\ TerminateSame /\ UNCHANGED <<session_id, freed, assigned, overlapped>>

\* The request is sent: whatever session there is by now is freed, then forgotten.
DeleteSent ==
    /\ terminator.pc = "sending"
    /\ FreeSession
    /\ assigned' = 0
    /\ terminator' = [terminator EXCEPT !.pc = "clearing"]
    /\ TerminateSame /\ UNCHANGED <<session_id, overlapped>>

ClearSession ==
    /\ terminator.pc = "clearing"
    /\ session_id' = 0 /\ freed' = FALSE
    /\ terminator' = [pc |-> "idle", session |-> 0]
    /\ TerminateSame /\ UNCHANGED <<assigned, overlapped, undefined>>

\* It could not be built or sent: the session stays.
DeleteFails ==
    /\ terminator.pc \in {"building", "sending"}
    /\ terminator' = [pc |-> "idle", session |-> 0]
    /\ TerminateSame /\ UNCHANGED <<session_id, freed, assigned, overlapped, undefined>>

-----------------------------------------------------------------------------
Next ==
    /\ ~undefined
    /\ \/ Start \/ StartEnds \/ Stop \/ ReconnectSse \/ Destroy
       \/ TerminateSession \/ BuildDelete \/ DeleteSent \/ ClearSession \/ DeleteFails
       \/ \E c \in Callers : \/ Send(c) \/ ReadSession(c) \/ BuildRequest(c) \/ ReadOptimized(c)
                             \/ ReadTimesOut(c) \/ ReadLegacy(c) \/ SendFails(c)
                             \/ StoreSession(c) \/ SendReturns(c)

Spec == Init /\ [][Next]_vars

\* Between the calls that change it the session is the newest one a response
\* read with its headers has named, and none after it was ended
\* (http_client_send_request, mcp_sthttp_client_terminate_session), whatever
\* start, stop and the sends that only read it do, as long as the calls that
\* change it do not overlap; when they do, a session that was stored meanwhile is
\* forgotten, or an older one stored over it.
SessionCurrent ==
    undefined \/ overlapped \/ Changing \/ main = "gone" \/ session_id = assigned

\* sthttp_client_start returns.  With a default POSIX mutex it waits for itself.
StartReturns == main # "stuck"

\* "Call message callback with response": a send that succeeds has given the
\* response to the callback.  It has not, when the server answered in time.
ResponsesDelivered ==
    \A c \in Callers :
        caller[c].pc = "ending" /\ caller[c].result = 0 => caller[c].outcome # "unread"
=============================================================================
