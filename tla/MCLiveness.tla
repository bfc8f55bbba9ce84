----------------------------- MODULE MCLiveness ------------------------------
(* What must eventually happen, for TLC.  "part" says which component runs:    *)
(* the TCP transport, the server's message gate, the thread pool, the          *)
(* connection pool, the requests of a client that have no timeout, or the      *)
(* sessions of the HTTP server.  The others stay in their initial states, in   *)
(* which nothing that is subject to fairness can happen.                       *)
EXTENDS TcpServer

CONSTANTS t1, t2, s1, u1, u2, c1, c2

VARIABLES part

VARIABLES g_running, shutting_down, active_requests, g_owner, g_thread, received,
          leaked, signalled

gateVars == <<g_running, shutting_down, active_requests, g_owner, g_thread, received,
              leaked, signalled>>

Gate == INSTANCE ServerGate WITH
    running <- g_running, owner <- g_owner, thread <- g_thread,
    Threads <- {t1, t2}, MaxMessages <- 3

VARIABLES threadPool, thread_count, started, shutdown_flag, threads, worker_args,
          thread, deques, next_submit_deque, tasks_submitted, tasks_completed,
          active_tasks, submitter, waiter, early, pushed, ran

threadVars == <<threadPool, thread_count, started, shutdown_flag, threads,
                worker_args, thread, deques, next_submit_deque, tasks_submitted,
                tasks_completed, active_tasks, submitter, waiter, early, pushed, ran>>

Threads == INSTANCE ThreadPool WITH
    pool <- threadPool, worker <- thread, accepted <- pushed,
    MaxThreads <- 2, MinThreads <- 1, OptimalThreads <- 2, DequeCapacity <- 2,
    Submitters <- {s1}, MaxTasks <- 2, MaxWorkers <- 2, CanFail <- TRUE

VARIABLES c_pool, idle, total, active, connected, user, maint

poolVars == <<c_pool, idle, total, active, connected, user, maint>>

Connections == INSTANCE ConnectionPool WITH
    pool <- c_pool, open <- connected, Users <- {u1, u2}, MaxConnections <- 1,
    MinConnections <- 1, IdleTimeout <- FALSE, HealthChecks <- FALSE,
    SizeModulus <- 8, MaxSockets <- 2

VARIABLES next_id, status, capacity, moves, caller, output, returned, unsent,
          sent, answers

clientVars == <<next_id, status, capacity, moves, caller, output, returned,
                unsent, sent, answers>>

Calls == INSTANCE ClientRequests WITH
    Callers <- {c1, c2}, Synchronous <- FALSE, Timed <- FALSE, Capacity <- 64,
    MaxRequests <- 2

VARIABLES slots, active_count, h_next_id, h_worker, ended, h_running, cleanup_shutdown,
          cleaner

sessionVars == <<slots, active_count, h_next_id, h_worker, ended, h_running,
                 cleanup_shutdown, cleaner>>

Sessions == INSTANCE HttpSessions WITH
    next_id <- h_next_id, worker <- h_worker, running <- h_running,
    Workers <- {t1}, MaxSessions <- 1, Timeouts <- {0}, Default <- 1, Never <- 9,
    MaxIds <- 2

others == <<gateVars, threadVars, poolVars, clientVars, sessionVars>>

LiveInit ==
    /\ part \in {"tcp", "gate", "threads", "pool", "calls", "sessions"}
    /\ Init /\ Gate!Init /\ Threads!Init /\ Connections!Init /\ Calls!Init
    /\ Sessions!Init

LiveNext ==
    \/ /\ part = "tcp" /\ Next
       /\ UNCHANGED others
    \/ /\ part = "gate" /\ Gate!Next
       /\ UNCHANGED <<vars, threadVars, poolVars, clientVars, sessionVars>>
    \/ /\ part = "threads" /\ Threads!Operations
       /\ UNCHANGED <<vars, gateVars, poolVars, clientVars, sessionVars>>
    \/ /\ part = "pool" /\ Connections!Next
       /\ UNCHANGED <<vars, gateVars, threadVars, clientVars, sessionVars>>
    \/ /\ part = "calls" /\ Calls!Next
       /\ UNCHANGED <<vars, gateVars, threadVars, poolVars, sessionVars>>
    \/ /\ part = "sessions" /\ Sessions!Next
       /\ UNCHANGED <<vars, gateVars, threadVars, poolVars, clientVars>>

LiveSpec ==
    /\ LiveInit
    /\ [][LiveNext /\ UNCHANGED part]_<<part, vars, others>>
    /\ Fairness
    /\ Gate!Fairness
    /\ Threads!Fairness
    /\ Connections!Fairness
    /\ Calls!Fairness
    /\ Sessions!Fairness

\* tcp_transport_stop returns once it has been called, if its handlers are not kept
\* in a recv or send by their clients: they end by the idle timeout, although nobody
\* marks their clients.  mcp_server_stop returns, although the last request does not
\* signal it; mcp_thread_pool_destroy returns, also after a creation that failed and
\* up to a misused deque, and so does mcp_connection_pool_destroy.
StopsReturn ==
    /\ StopReturns /\ Gate!StopReturns
    /\ Threads!DestroyReturns /\ Connections!DestroyReturns

\* A task accepted by mcp_thread_pool_add_task is run, also when the pool is
\* destroyed meanwhile or a worker ended before it was counted, unless a push meets
\* another push, a pop or a full deque.
TasksRun == Threads!TasksRun

\* mcp_connection_pool_get returns unless it may wait for ever.
GetReturns == Connections!GetReturns

\* A call without a timeout returns once its request was answered or has
\* failed: it does not miss a signal that comes before it waits.
AnsweredCallsReturn == Calls!AnsweredCallsReturn

\* A session of the HTTP server that was found expired is freed by the cleanup
\* thread, unless the transport was stopped: the thread of one that is started
\* again ends at once.
ExpiredFreed == Sessions!ExpiredFreed
=============================================================================
