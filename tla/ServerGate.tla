----------------------------- MODULE ServerGate ------------------------------
(***************************************************************************)
(* The request gate and the graceful shutdown of the MCP server: the       *)
(* transport callback of src/server/mcp_server_task.c and start, stop and  *)
(* destroy of src/server/mcp_server.c, on POSIX.                           *)
(*                                                                         *)
(* Every transport calls transport_message_callback on threads of its own  *)
(* and joins them in its stop operation; Threads are those threads.  The   *)
(* owner of the server makes the calls create, start, stop, destroy, in    *)
(* this order (mcp_server.h: they are not thread-safe).                    *)
(*                                                                         *)
(* What handle_message does with a message is left out: it returns.  So    *)
(* are the cache pre-warming of start and the thread pool that stop        *)
(* destroys, which is given no tasks.                                      *)
(***************************************************************************)
EXTENDS Integers, FiniteSets, FiniteSetTheorems, TLAPS

CONSTANTS
    Threads,        \* threads on which the transport delivers messages
    MaxMessages     \* bound: messages delivered

ASSUME GateAssumption ==
    /\ IsFiniteSet(Threads)
    /\ MaxMessages \in Nat

VARIABLES
    running,         \* server->running
    shutting_down,   \* server->shutting_down
    active_requests, \* server->active_requests
    owner,           \* where the owner of the server is
    thread,          \* where each transport thread is
    received,        \* number of messages delivered
    leaked,          \* history: requests counted in and never counted out
    signalled        \* history: shutdown_cond was signalled

vars == <<running, shutting_down, active_requests, owner, thread, received,
          leaked, signalled>>

OwnerStates == {"created", "started", "stopping", "joined", "waiting", "stopped", "freed"}

ThreadStates == {"off", "idle", "admitted", "counted", "handling"}

\* The threads whose request is counted in active_requests.
Active == {t \in Threads : thread[t] \in {"counted", "handling"}}

-----------------------------------------------------------------------------
\* mcp_server_create.
Init ==
    /\ running = FALSE
    /\ shutting_down = FALSE
    /\ active_requests = 0
    /\ owner = "created"
    /\ thread = [t \in Threads |-> "off"]
    /\ received = 0
    /\ leaked = 0
    /\ signalled = FALSE

\* mcp_server_start: the flag is set before the transport is started, and
\* stays set when the transport cannot be started.
Start ==
    /\ owner = "created"
    /\ owner' = "started"
    /\ running' = TRUE
    /\ thread' \in {[t \in Threads |-> "idle"], [t \in Threads |-> "off"]}
    /\ UNCHANGED <<shutting_down, active_requests, received, leaked, signalled>>

\* transport_message_callback, up to the check of shutting_down: a message
\* that arrives during the shutdown is rejected, and counted nowhere.
Receive(t) ==
    /\ thread[t] = "idle"
    /\ received < MaxMessages
    /\ received' = received + 1
    /\ thread' = [thread EXCEPT ![t] = IF shutting_down THEN "idle" ELSE "admitted"]
    /\ UNCHANGED <<running, shutting_down, active_requests, owner, leaked, signalled>>

\* Mutant: the increment is not atomic, and one of two updates is lost.
CountInLost(t) ==
    /\ thread[t] = "admitted"
    /\ thread' = [thread EXCEPT ![t] = "counted"]
    /\ active_requests' = leaked + 1
    /\ UNCHANGED <<running, shutting_down, owner, received, leaked, signalled>>

\* The atomic increment, a step of its own after the check.
CountIn(t) ==
    /\ thread[t] = "admitted"
    /\ thread' = [thread EXCEPT ![t] = "counted"]
    /\ active_requests' = active_requests + 1
    /\ UNCHANGED <<running, shutting_down, owner, received, leaked, signalled>>

\* The rate limiter refuses the request.
RateLimited(t) ==
    /\ thread[t] = "counted"
    /\ thread' = [thread EXCEPT ![t] = "idle"]
    /\ active_requests' = active_requests - 1
    /\ UNCHANGED <<running, shutting_down, owner, received, leaked, signalled>>

\* The message exceeds max_message_size, or it cannot be copied: both early
\* returns leave active_requests incremented.
DropUncounted(t) ==
    /\ thread[t] = "counted"
    /\ thread' = [thread EXCEPT ![t] = "idle"]
    /\ leaked' = leaked + 1
    /\ UNCHANGED <<running, shutting_down, active_requests, owner, received, signalled>>

\* handle_message is called.
Handle(t) ==
    /\ thread[t] = "counted"
    /\ thread' = [thread EXCEPT ![t] = "handling"]
    /\ UNCHANGED <<running, shutting_down, active_requests, owner, received, leaked, signalled>>

\* The end of transport_message_callback.  prev_count is what
\* __sync_fetch_and_sub returns, the value before the subtraction.
Finish(t) ==
    LET prev_count == active_requests
        last == prev_count = 0 /\ shutting_down
    IN  /\ thread[t] = "handling"
        /\ thread' = [thread EXCEPT ![t] = "idle"]
        /\ active_requests' = active_requests - 1
        /\ signalled' = (signalled \/ last)
        /\ owner' = IF last /\ owner = "waiting" THEN "stopped" ELSE owner
        /\ UNCHANGED <<running, shutting_down, received, leaked>>

-----------------------------------------------------------------------------
\* mcp_server_stop sets its flags ...
Stop ==
    /\ owner = "started"
    /\ running' = FALSE
    /\ shutting_down' = TRUE
    /\ owner' = "stopping"
    /\ UNCHANGED <<active_requests, thread, received, leaked, signalled>>

\* ... a transport thread that is told to stop ends between two messages ...
ThreadExit(t) ==
    /\ owner = "stopping"
    /\ thread[t] = "idle"
    /\ thread' = [thread EXCEPT ![t] = "off"]
    /\ UNCHANGED <<running, shutting_down, active_requests, owner, received, leaked, signalled>>

\* Mutant: the transport does not wait for its threads.
TransportStoppedUnjoined ==
    /\ owner = "stopping"
    /\ owner' = "joined"
    /\ UNCHANGED <<running, shutting_down, active_requests, thread, received, leaked, signalled>>

\* ... mcp_transport_stop returns when the transport joined its threads ...
TransportStopped ==
    /\ owner = "stopping"
    /\ \A t \in Threads : thread[t] = "off"
    /\ owner' = "joined"
    /\ UNCHANGED <<running, shutting_down, active_requests, thread, received, leaked, signalled>>

\* Mutant: the wait is not conditional.
AwaitAlways ==
    /\ owner = "joined"
    /\ owner' = "waiting"
    /\ UNCHANGED <<running, shutting_down, active_requests, thread, received, leaked, signalled>>

\* ... and active requests, if there seem to be any, are waited for, ...
AwaitRequests ==
    /\ owner = "joined"
    /\ owner' = IF active_requests > 0 THEN "waiting" ELSE "stopped"
    /\ UNCHANGED <<running, shutting_down, active_requests, thread, received, leaked, signalled>>

\* ... once: a timeout and a wakeup both end the wait, and stop.
WaitEnds ==
    /\ owner = "waiting"
    /\ owner' = "stopped"
    /\ UNCHANGED <<running, shutting_down, active_requests, thread, received, leaked, signalled>>

\* mcp_server_destroy.  Its own call of stop returns at once: the server was
\* never started, or it is stopped.
Destroy ==
    /\ ~running
    /\ owner \in {"created", "stopped"}
    /\ owner' = "freed"
    /\ UNCHANGED <<running, shutting_down, active_requests, thread, received, leaked, signalled>>

Callback(t) ==
    \/ CountIn(t)
    \/ RateLimited(t)
    \/ DropUncounted(t)
    \/ Handle(t)
    \/ Finish(t)

OwnerStep == TransportStopped \/ AwaitRequests \/ WaitEnds

Next ==
    \/ Start \/ Stop \/ OwnerStep \/ Destroy
    \/ \E t \in Threads : Receive(t) \/ Callback(t) \/ ThreadExit(t)

Spec == Init /\ [][Next]_vars

\* Threads run, handle_message returns, the timed wait ends.  Nothing forces
\* messages to arrive, or the owner to start, stop or destroy the server.
Fairness ==
    /\ WF_vars(OwnerStep)
    /\ \A t \in Threads : WF_vars(Callback(t)) /\ WF_vars(ThreadExit(t))

FairSpec == Spec /\ Fairness

-----------------------------------------------------------------------------
\* Type correctness of the server's state.
TypeOK ==
    /\ running \in BOOLEAN
    /\ shutting_down \in BOOLEAN
    /\ active_requests \in Nat
    /\ owner \in OwnerStates
    /\ thread \in [Threads -> ThreadStates]
    /\ received \in 0 .. MaxMessages
    /\ leaked \in Nat
    /\ signalled \in BOOLEAN

\* active_requests never falls below the number of requests that
\* transport_message_callback is working on, whatever path they leave by.
NeverUndercounts == active_requests >= Cardinality(Active)

\* mcp_server_destroy frees the server only when no transport thread is inside
\* transport_message_callback, which reads the server's fields.
NoCallbackAfterFree ==
    owner = "freed" => \A t \in Threads : thread[t] = "off"

\* mcp_server_stop stops the transport, which joins its threads, before it looks
\* at active_requests: no request is left to wait for, and the graceful wait is
\* entered only because of requests that were counted in and never out.
WaitOnlyOnLeak == owner = "waiting" => leaked > 0

\* mcp_server_stop returns, also when requests leaked or were in progress.
StopReturns == owner = "stopping" ~> owner \in {"stopped", "freed"}

\* mcp_server_core.h:40 calls active_requests the "Counter for active
\* requests": it is the number of requests in progress.  Refuted: the early
\* returns of transport_message_callback for an oversized message and for a
\* failed copy do not count the request out.
CounterExact == active_requests = Cardinality(Active)

-----------------------------------------------------------------------------
(* Proofs, for any number of transport threads.  The counter alone is not      *)
(* inductive: what it is made of has to be said (Accounting), and that a       *)
(* stopped transport has no thread left (Joined), from which it follows that   *)
(* the graceful wait meets no request.                                         *)

\* active_requests counts the requests in progress and those that leaked.
Accounting == active_requests = Cardinality(Active) + leaked

\* A transport that was not started, or was stopped, has no thread left.
Joined ==
    owner \in {"created", "joined", "waiting", "stopped", "freed"}
        => \A t \in Threads : thread[t] = "off"

IInv == TypeOK /\ Accounting /\ Joined /\ WaitOnlyOnLeak

-----------------------------------------------------------------------------
\* A set of active threads is finite, so that its elements can be counted.
LEMMA ActiveFinite ==
    IsFiniteSet(Active) /\ Cardinality(Active) \in Nat
<1>1. IsFiniteSet(Threads)
  BY GateAssumption
<1>2. Active \subseteq Threads
  BY DEF Active
<1> QED
  BY <1>1, <1>2, FS_Subset, FS_CardinalityType

\* A thread that becomes active adds one to their number.
LEMMA ActiveEnters ==
    ASSUME TypeOK, NEW t \in Threads, thread[t] \notin {"counted", "handling"},
           NEW v \in {"counted", "handling"},
           thread' = [thread EXCEPT ![t] = v]
    PROVE  Cardinality(Active') = Cardinality(Active) + 1
<1>1. Active' = Active \cup {t}
  BY DEF Active, TypeOK
<1>2. t \notin Active
  BY DEF Active
<1> QED
  BY <1>1, <1>2, ActiveFinite, FS_AddElement

\* A thread that stops being active takes one from their number.
LEMMA ActiveLeaves ==
    ASSUME TypeOK, NEW t \in Threads, thread[t] \in {"counted", "handling"},
           thread' = [thread EXCEPT ![t] = "idle"]
    PROVE  Cardinality(Active') = Cardinality(Active) - 1
<1>1. Active' = Active \ {t}
  BY DEF Active, TypeOK
<1>2. t \in Active
  BY DEF Active
<1> QED
  BY <1>1, <1>2, ActiveFinite, FS_RemoveElement

\* No thread becomes or stops being active.
LEMMA ActiveStays ==
    ASSUME TypeOK, NEW t \in Threads, NEW v \in ThreadStates,
           thread[t] \in {"counted", "handling"} <=> v \in {"counted", "handling"},
           thread' = [thread EXCEPT ![t] = v]
    PROVE  Active' = Active
BY DEF Active, TypeOK

-----------------------------------------------------------------------------
\* The invariant holds when the server has been created.
LEMMA InitIInv == Init => IInv
<1> SUFFICES ASSUME Init PROVE IInv
  OBVIOUS
<1>1. Active = {}
  BY DEF Init, Active
<1>2. Cardinality(Active) = 0
  BY <1>1, FS_EmptySet
<1>3. TypeOK
  <2>1. running \in BOOLEAN /\ shutting_down \in BOOLEAN /\ signalled \in BOOLEAN
    BY Zenon DEF Init
  <2>2. owner \in OwnerStates /\ thread \in [Threads -> ThreadStates]
    BY DEF Init, OwnerStates, ThreadStates
  <2>3. active_requests \in Nat /\ received \in 0 .. MaxMessages /\ leaked \in Nat
    BY GateAssumption DEF Init
  <2> QED
    BY <2>1, <2>2, <2>3 DEF TypeOK
<1>4. Accounting
  BY <1>2 DEF Init, Accounting
<1>5. Joined /\ WaitOnlyOnLeak
  BY DEF Init, Joined, WaitOnlyOnLeak
<1> QED
  BY <1>3, <1>4, <1>5 DEF IInv

\* Every step of the gate keeps the invariant.
LEMMA NextIInv == IInv /\ [Next]_vars => IInv'
<1> SUFFICES ASSUME IInv, [Next]_vars PROVE IInv'
  OBVIOUS
<1> USE DEF IInv
<1>a. Cardinality(Active) \in Nat
  BY ActiveFinite
<1>1. CASE Start
  <2>1. \A t \in Threads : thread[t] = "off"
    BY <1>1 DEF Start, Joined
  <2>2. Active = {} /\ Active' = {}
    BY <1>1, <2>1 DEF Start, Active
  <2> QED
    BY <1>1, <2>2 DEF Start, TypeOK, Accounting, Joined, WaitOnlyOnLeak, OwnerStates, ThreadStates
<1>2. CASE Stop
  <2>1. Active' = Active
    BY <1>2 DEF Stop, Active
  <2> QED
    BY <1>2, <2>1 DEF Stop, TypeOK, Accounting, Joined, WaitOnlyOnLeak, OwnerStates
<1>3. CASE TransportStopped
  <2>1. Active' = Active
    BY <1>3 DEF TransportStopped, Active
  <2> QED
    BY <1>3, <2>1 DEF TransportStopped, TypeOK, Accounting, Joined, WaitOnlyOnLeak, OwnerStates
<1>4. CASE AwaitRequests
  <2>1. Active' = Active
    BY <1>4 DEF AwaitRequests, Active
  <2>2. \A t \in Threads : thread[t] = "off"
    BY <1>4 DEF AwaitRequests, Joined
  <2>3. Cardinality(Active) = 0
    BY <2>2, FS_EmptySet DEF Active
  <2> QED
    BY <1>4, <2>1, <2>2, <2>3
    DEF AwaitRequests, TypeOK, Accounting, Joined, WaitOnlyOnLeak, OwnerStates
<1>5. CASE WaitEnds
  <2>1. Active' = Active
    BY <1>5 DEF WaitEnds, Active
  <2> QED
    BY <1>5, <2>1 DEF WaitEnds, TypeOK, Accounting, Joined, WaitOnlyOnLeak, OwnerStates
<1>6. CASE Destroy
  <2>1. Active' = Active
    BY <1>6 DEF Destroy, Active
  <2> QED
    BY <1>6, <2>1 DEF Destroy, TypeOK, Accounting, Joined, WaitOnlyOnLeak, OwnerStates
<1>7. ASSUME NEW t \in Threads, Receive(t) PROVE IInv'
  <2>1. Active' = Active
    BY <1>7, ActiveStays DEF Receive, ThreadStates
  <2> QED
    BY <1>7, <2>1, GateAssumption
    DEF Receive, TypeOK, Accounting, Joined, WaitOnlyOnLeak, ThreadStates
<1>8. ASSUME NEW t \in Threads, CountIn(t) PROVE IInv'
  <2>1. Cardinality(Active') = Cardinality(Active) + 1
    BY <1>8, ActiveEnters DEF CountIn
  <2> QED
    BY <1>8, <1>a, <2>1 DEF CountIn, TypeOK, Accounting, Joined, WaitOnlyOnLeak, ThreadStates
<1>9. ASSUME NEW t \in Threads, RateLimited(t) PROVE IInv'
  <2>1. Cardinality(Active') = Cardinality(Active) - 1
    BY <1>9, ActiveLeaves DEF RateLimited
  <2>2. Cardinality(Active') \in Nat
    BY <1>9, <2>1, ActiveFinite, FS_EmptySet DEF RateLimited, Active
  <2> QED
    BY <1>9, <1>a, <2>1, <2>2 DEF RateLimited, TypeOK, Accounting, Joined, WaitOnlyOnLeak, ThreadStates
<1>10. ASSUME NEW t \in Threads, DropUncounted(t) PROVE IInv'
  <2>1. Cardinality(Active') = Cardinality(Active) - 1
    BY <1>10, ActiveLeaves DEF DropUncounted
  <2> QED
    BY <1>10, <1>a, <2>1 DEF DropUncounted, TypeOK, Accounting, Joined, WaitOnlyOnLeak, ThreadStates
<1>11. ASSUME NEW t \in Threads, Handle(t) PROVE IInv'
  <2>1. Active' = Active
    BY <1>11, ActiveStays DEF Handle, ThreadStates
  <2> QED
    BY <1>11, <2>1 DEF Handle, TypeOK, Accounting, Joined, WaitOnlyOnLeak, ThreadStates
<1>12. ASSUME NEW t \in Threads, Finish(t) PROVE IInv'
  <2>1. Cardinality(Active') = Cardinality(Active) - 1
    BY <1>12, ActiveLeaves DEF Finish
  <2>2. Cardinality(Active') \in Nat
    BY <1>12, <2>1, ActiveFinite, FS_EmptySet DEF Finish, Active
  <2>3. owner' = owner
    BY <1>12 DEF Finish, Joined
  <2> QED
    BY <1>12, <1>a, <2>1, <2>2, <2>3 DEF Finish, TypeOK, Accounting, Joined, WaitOnlyOnLeak, ThreadStates
<1>13. ASSUME NEW t \in Threads, ThreadExit(t) PROVE IInv'
  <2>1. Active' = Active
    BY <1>13, ActiveStays DEF ThreadExit, ThreadStates
  <2> QED
    BY <1>13, <2>1 DEF ThreadExit, TypeOK, Accounting, Joined, WaitOnlyOnLeak, ThreadStates
<1>14. CASE UNCHANGED vars
  BY <1>14 DEF vars, TypeOK, Accounting, Joined, WaitOnlyOnLeak, Active
<1> QED
  BY <1>1, <1>2, <1>3, <1>4, <1>5, <1>6, <1>7, <1>8, <1>9, <1>10, <1>11, <1>12, <1>13, <1>14
  DEF Next, OwnerStep, Callback

\* The inductive invariant holds in every behaviour of the gate.
THEOREM Inductive == Spec => []IInv
BY InitIInv, NextIInv, PTL DEF Spec

\* active_requests is never smaller than the number of requests in progress.
THEOREM CounterNeverUndercounts == Spec => []NeverUndercounts
<1>1. IInv => NeverUndercounts
  BY ActiveFinite DEF IInv, TypeOK, Accounting, NeverUndercounts
<1> QED
  BY Inductive, <1>1, PTL

\* The server is freed only after the last callback returned.
THEOREM FreedAfterCallbacks == Spec => []NoCallbackAfterFree
<1>1. IInv => NoCallbackAfterFree
  BY DEF IInv, Joined, NoCallbackAfterFree
<1> QED
  BY Inductive, <1>1, PTL

\* The graceful wait of mcp_server_stop is entered only on leaked requests.
THEOREM GracefulWaitOnlyOnLeak == Spec => []WaitOnlyOnLeak
<1>1. IInv => WaitOnlyOnLeak
  BY DEF IInv
<1> QED
  BY Inductive, <1>1, PTL
=============================================================================
