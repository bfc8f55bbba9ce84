------------------------------ MODULE MCPools --------------------------------
(* The connection pools, for TLC.  "part" says which one runs.  That of TCP:    *)
(* more users than connections, with a minimum to keep up; health checks; a     *)
(* timeout for idle connections.  That of the gateway: more forwarders than     *)
(* connections; several idle connections.  That of the WebSocket client: with   *)
(* connections that fail, and with connections that do not.                    *)
EXTENDS WebSocketPool, TLC

CONSTANT Threads    \* users of the TCP pool, forwarders of the gateway

Symmetry == Permutations(Users) \cup Permutations(Threads)

\* The WebSocket pool whose connections do not fail.
Reliable == INSTANCE WebSocketPool WITH Fails <- FALSE

VARIABLES part, pool, idle, total, active, open, t_user, maint

tvars == <<pool, idle, total, active, open, t_user, maint>>

Plain == INSTANCE ConnectionPool WITH
    user <- t_user, Users <- Threads, MaxConnections <- 2, MinConnections <- 1,
    IdleTimeout <- FALSE, HealthChecks <- FALSE, SizeModulus <- 8, MaxSockets <- 3

Checked == INSTANCE ConnectionPool WITH
    user <- t_user, MaxConnections <- 2, MinConnections <- 1,
    IdleTimeout <- FALSE, HealthChecks <- TRUE, SizeModulus <- 4, MaxSockets <- 3

Aging == INSTANCE ConnectionPool WITH
    user <- t_user, MaxConnections <- 2, MinConnections <- 0,
    IdleTimeout <- TRUE, HealthChecks <- FALSE, SizeModulus <- 4, MaxSockets <- 3

ASSUME PoolConstants ==
    Plain!PoolConstants /\ Checked!PoolConstants /\ Aging!PoolConstants

VARIABLES g_pool, idle_list, next, old, idle_count, active_count, total_count, g_live,
          fwd, broken

gvars == <<g_pool, idle_list, next, old, idle_count, active_count, total_count, g_live,
           fwd, broken>>

Full == INSTANCE GatewayPool WITH
    pool <- g_pool, live <- g_live, Forwarders <- Threads, MaxConnections <- 2,
    MinConnections <- 1, ConnectFails <- TRUE, Ages <- TRUE

Wide == INSTANCE GatewayPool WITH
    pool <- g_pool, live <- g_live, Forwarders <- Threads, MaxConnections <- 4,
    MinConnections <- 1, ConnectFails <- TRUE, Ages <- TRUE

\* A gateway that stays unused; it is the same for both sizes up to next.
NoGateway == Full!Init

NoPool == Plain!Init

NoLinks == Init /\ live = {}

PoolsInit ==
    \/ part = "plain" /\ Plain!Init /\ NoGateway /\ NoLinks
    \/ part = "checked" /\ Checked!Init /\ NoGateway /\ NoLinks
    \/ part = "aging" /\ Aging!Init /\ NoGateway /\ NoLinks
    \/ part = "full" /\ NoPool /\ Full!Init /\ NoLinks
    \/ part = "wide" /\ NoPool /\ Wide!Init /\ NoLinks
    \/ part = "failing" /\ NoPool /\ NoGateway /\ Init
    \/ part = "reliable" /\ NoPool /\ NoGateway /\ Reliable!Init

PoolsNext ==
    \/ part = "plain" /\ Plain!Next /\ UNCHANGED <<vars, gvars>>
    \/ part = "checked" /\ Checked!Next /\ UNCHANGED <<vars, gvars>>
    \/ part = "aging" /\ Aging!Next /\ UNCHANGED <<vars, gvars>>
    \/ part = "full" /\ Full!Next /\ UNCHANGED <<vars, tvars>>
    \/ part = "wide" /\ Wide!Next /\ UNCHANGED <<vars, tvars>>
    \/ part = "failing" /\ Next /\ UNCHANGED <<tvars, gvars>>
    \/ part = "reliable" /\ Reliable!Next /\ UNCHANGED <<tvars, gvars>>

PoolsSpec == PoolsInit /\ [][PoolsNext /\ UNCHANGED part]_<<part, vars, tvars, gvars>>

\* The pool with an idle timeout, alone.
AgingSpec ==
    /\ part = "aging" /\ Aging!Init /\ NoGateway /\ NoLinks
    /\ [][Aging!Next /\ UNCHANGED <<part, vars, gvars>>]_<<part, vars, tvars, gvars>>

\* The types of the pools' states.
TypesOK ==
    /\ part = "plain" => Plain!TypeOK
    /\ part = "full" => Full!TypeOK
    /\ part = "wide" => Wide!TypeOK
    /\ part = "failing" => TypeOK

\* The states have their types.  No connection that is open is used twice or
\* leaked, also when the results of a batch of health checks are applied to a list
\* that has changed since and the numbers of closed sockets are used again (up to
\* a get that returns a socket it closed).  Without health checks and timeout total_count and
\* active_count are exact, and concurrent gets and the refill do not exceed
\* max_connections together.  The counts of the WebSocket pool are exact while no
\* connection fails.
OwnedOnce ==
    /\ TypesOK
    /\ part = "plain" => Plain!OpenHasOneOwner /\ Plain!CountsExact /\ Plain!WithinMaximum
    /\ part = "checked" => Checked!OpenHasOneOwner
    /\ part = "reliable" => Reliable!ReliableExact

\* While the maintenance thread closes old connections no two users of
\* mcp_connection_pool_get have the same socket, up to a get that returns one it
\* has closed, whose number may be used again.
OneUserPerAgingSocket == part = "aging" => Aging!OneUserPerSocket

\* No connection of the gateway is handed to two forwarders, and total_count
\* covers all that exist, so that max_connections holds, while several threads
\* walk over the idle list and connections time out and fail to be made.
GatewayExact ==
    /\ part = "full" => Full!GatewayExact
    /\ part = "wide" => Wide!GatewayExact

\* get never returns a connection that it closed because of its age
\* (mcp_connection_pool.c:161).
ReturnedIsOpenAging == part = "aging" => Aging!ReturnedIsOpen
=============================================================================
