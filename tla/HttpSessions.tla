---------------------------- MODULE HttpSessions -----------------------------
(* The sessions of the streamable HTTP transport: the session manager, the     *)
(* requests that look sessions up, and the thread that frees expired ones.     *)
(* Sources: src/transport/mcp_http_session_manager.c, mcp_sthttp_threads.c and *)
(* mcp_sthttp_transport.c.                                                     *)
(*                                                                             *)
(* A critical section of the manager's mutex is one action.  A session that was *)
(* looked up is used through a pointer, without the mutex.  Ids are random in   *)
(* the code and numbers here; time is the seconds since a session was touched.  *)
EXTENDS Naturals, FiniteSets, FiniteSetsExt

CONSTANTS Workers,        \* threads that use the manager
          MaxSessions,    \* MAX_SESSIONS
          Timeouts,       \* timeouts asked for; Never stands for a negative one
          Default,        \* default_timeout_seconds
          Never,
          MaxIds          \* bound: sessions that are made

VARIABLES slots,          \* sessions: the array
          active_count,
          next_id,        \* the id of the next session
          worker,         \* the pointer each worker holds, and the id it asked for
          ended,          \* history: the ends that were announced for each id
          running,
          cleanup_shutdown,
          cleaner         \* the cleanup thread: "none", "running", "ended"

manager == <<slots, active_count, next_id, ended>>
thread == <<running, cleanup_shutdown, cleaner>>
vars == <<manager, worker, thread>>

Slots == 1 .. MaxSessions
Ids == 1 .. MaxIds
MaxTimeout == Max((Timeouts \ {Never}) \cup {Default})
Unused == [id |-> 0, state |-> "TERMINATED", age |-> 0, timeout |-> 0, data |-> 0, in_use |-> FALSE]
NoPointer == [slot |-> 0, id |-> 0]

TypeOK ==
    /\ slots \in [Slots -> [id : 0 .. MaxIds, state : {"ACTIVE", "EXPIRED", "TERMINATED"},
                            age : 0 .. MaxTimeout + 1, timeout : 0 .. MaxTimeout,
                            data : 0 .. MaxIds, in_use : BOOLEAN]]
    /\ active_count \in 0 .. MaxSessions
    /\ next_id \in 1 .. MaxIds + 1
    /\ worker \in [Workers -> [slot : 0 .. MaxSessions, id : 0 .. MaxIds]]
    /\ ended \in [Ids -> SUBSET {"EXPIRED", "TERMINATED"}]
    /\ running \in BOOLEAN /\ cleanup_shutdown \in BOOLEAN
    /\ cleaner \in {"none", "running", "ended"}

Init ==
    /\ slots = [s \in Slots |-> Unused]
    /\ active_count = 0
    /\ next_id = 1
    /\ worker = [w \in Workers |-> NoPointer]
    /\ ended = [i \in Ids |-> {}]
    /\ running = FALSE /\ cleanup_shutdown = FALSE /\ cleaner = "none"

\* is_session_expired, for a slot in use.
Expired(s) ==
    \/ slots[s].state # "ACTIVE"
    \/ slots[s].timeout # 0 /\ slots[s].age > slots[s].timeout

\* notify_session_event.
Announce(ids, state) == ended' = [i \in Ids |-> IF i \in ids THEN ended[i] \cup {state} ELSE ended[i]]

InUse(id) == {s \in Slots : slots[s].in_use /\ slots[s].id = id}

-----------------------------------------------------------------------------
(* The manager *)

\* mcp_session_manager_create_session: the first unused slot.
CreateSession(timeout) ==
    LET free == {s \in Slots : ~slots[s].in_use}
    IN  /\ next_id <= MaxIds
        /\ free # {}
        /\ slots' = [slots EXCEPT ![Min(free)] =
               [id |-> next_id, state |-> "ACTIVE", age |-> 0, data |-> 0, in_use |-> TRUE,
                timeout |-> CASE timeout = Never -> 0
                              [] timeout = 0 -> Default
                              [] OTHER -> timeout]]
        /\ active_count' = active_count + 1
        /\ next_id' = next_id + 1
        /\ UNCHANGED <<worker, ended, thread>>

\* mcp_session_manager_get_session: a worker has a pointer to the session, or
\* the session is marked and announced as expired.
GetSession(w, id) ==
    /\ worker[w] = NoPointer
    /\ \E s \in InUse(id) :
           IF Expired(s)
           THEN /\ slots' = [slots EXCEPT ![s].state = "EXPIRED"]
                /\ Announce({id}, "EXPIRED")
                /\ UNCHANGED worker
           ELSE /\ worker' = [worker EXCEPT ![w] = [slot |-> s, id |-> id]]
                /\ UNCHANGED <<slots, ended>>
    /\ UNCHANGED <<active_count, next_id, thread>>

\* Mutant: a session in any state is terminated.
TerminateAny(id) ==
    /\ \E s \in InUse(id) :
           slots' = [slots EXCEPT ![s].state = "TERMINATED", ![s].in_use = FALSE]
    /\ active_count' = active_count - 1
    /\ Announce({id}, "TERMINATED")
    /\ UNCHANGED <<next_id, worker, thread>>

\* mcp_session_manager_terminate_session: an active session, even one that is
\* too old, is freed.
TerminateSession(id) ==
    /\ \E s \in InUse(id) :
           /\ slots[s].state = "ACTIVE"
           /\ slots' = [slots EXCEPT ![s].state = "TERMINATED", ![s].in_use = FALSE]
    /\ active_count' = active_count - 1
    /\ Announce({id}, "TERMINATED")
    /\ UNCHANGED <<next_id, worker, thread>>

\* A mutant: the cleanup looks at the times only, and leaves what a lookup has marked.
FreeOldOnly ==
    LET gone == {s \in Slots : slots[s].in_use /\ slots[s].state = "ACTIVE" /\ Expired(s)}
    IN  /\ slots' = [s \in Slots |->
               IF s \in gone THEN [slots[s] EXCEPT !.state = "EXPIRED", !.in_use = FALSE]
                             ELSE slots[s]]
        /\ active_count' = active_count - Cardinality(gone)
        /\ Announce({slots[s].id : s \in gone}, "EXPIRED")
        /\ UNCHANGED next_id

\* mcp_session_manager_cleanup_expired.
FreeExpired ==
    LET gone == {s \in Slots : slots[s].in_use /\ Expired(s)}
    IN  /\ slots' = [s \in Slots |->
               IF s \in gone THEN [slots[s] EXCEPT !.state = "EXPIRED", !.in_use = FALSE]
                             ELSE slots[s]]
        /\ active_count' = active_count - Cardinality(gone)
        /\ Announce({slots[s].id : s \in gone}, "EXPIRED")
        /\ UNCHANGED next_id

-----------------------------------------------------------------------------
(* What is done with a pointer *)

\* mcp_session_touch: whatever session is in the slot by now.
Touch(w) ==
    /\ worker[w] # NoPointer
    /\ slots[worker[w].slot].in_use
    /\ slots' = [slots EXCEPT ![worker[w].slot].age = 0]
    /\ UNCHANGED <<active_count, next_id, worker, ended, thread>>

\* mcp_session_set_user_data: the data is the id the worker means.
SetUserData(w) ==
    /\ worker[w] # NoPointer
    /\ slots[worker[w].slot].in_use
    /\ slots' = [slots EXCEPT ![worker[w].slot].data = worker[w].id]
    /\ UNCHANGED <<active_count, next_id, worker, ended, thread>>

\* The request is over.
Release(w) ==
    /\ worker[w] # NoPointer
    /\ worker' = [worker EXCEPT ![w] = NoPointer]
    /\ UNCHANGED <<manager, thread>>

-----------------------------------------------------------------------------
(* The transport *)

\* sthttp_transport_start starts the cleanup thread.
Start ==
    /\ ~running
    /\ running' = TRUE
    /\ cleaner' = "running"
    /\ UNCHANGED <<manager, worker, cleanup_shutdown>>

\* sthttp_transport_stop: the thread is told to end, and joined.
Stop ==
    /\ running
    /\ running' = FALSE
    /\ cleanup_shutdown' = TRUE
    /\ cleaner' = "none"
    /\ UNCHANGED <<manager, worker>>

\* A turn of sthttp_cleanup_thread_func.
Cleanup ==
    /\ cleaner = "running"
    /\ ~cleanup_shutdown
    /\ FreeExpired
    /\ UNCHANGED <<worker, thread>>

\* cleanup_shutdown is still set from an earlier stop.
CleanerEnds ==
    /\ cleaner = "running"
    /\ cleanup_shutdown
    /\ cleaner' = "ended"
    /\ UNCHANGED <<manager, worker, running, cleanup_shutdown>>

\* A second passes.
Tick ==
    /\ slots' = [s \in Slots |->
           IF slots[s].in_use /\ slots[s].age <= MaxTimeout
           THEN [slots[s] EXCEPT !.age = @ + 1] ELSE slots[s]]
    /\ UNCHANGED <<active_count, next_id, worker, ended, thread>>

Next ==
    \/ \E t \in Timeouts : CreateSession(t)
    \/ \E id \in Ids :
           \/ TerminateSession(id)
           \/ \E w \in Workers : GetSession(w, id)
    \/ \E w \in Workers : Touch(w) \/ SetUserData(w) \/ Release(w)
    \/ Start \/ Stop \/ Cleanup \/ CleanerEnds \/ Tick

Spec == Init /\ [][Next]_vars

\* The cleanup thread takes its turns.
Fairness == WF_vars(Cleanup)

-----------------------------------------------------------------------------
\* active_count is the number of slots in use and no id has two slots; a session
\* ends in one way only, expired or terminated, however lookups, terminations,
\* the cleanup and late touches interleave, and one whose end was announced is
\* never active again.
SessionsEndOnce ==
    /\ active_count = Cardinality({s \in Slots : slots[s].in_use})
    /\ \A id \in Ids :
           /\ Cardinality(InUse(id)) <= 1
           /\ Cardinality(ended[id]) <= 1
           /\ ended[id] # {} => \A s \in InUse(id) : slots[s].state = "EXPIRED"

\* A pointer that outlives its session writes into the next session of the slot.
DataIsOwn == \A s \in Slots : slots[s].in_use => slots[s].data \in {0, slots[s].id}

\* A session that was found expired is freed, as long as the transport was never
\* stopped: the cleanup thread of a transport that was started again ends at once.
ExpiredFreed ==
    \A s \in Slots :
        slots[s].in_use /\ slots[s].state = "EXPIRED" /\ running
            ~> ~slots[s].in_use \/ cleanup_shutdown
=============================================================================
