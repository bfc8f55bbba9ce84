--------------------------- MODULE ConnectionPool ----------------------------
(* The pool of TCP connections: users that get and release connections, the    *)
(* maintenance thread, and destruction.  Sources: src/connection_pool/.        *)
(*                                                                             *)
(* One action is what a thread does between taking the pool's mutex and        *)
(* releasing it; connecting, checking and closing happen without it.           *)
EXTENDS Integers, Sequences, FiniteSets

CONSTANTS Users,            \* threads that get and release connections
          MaxConnections,   \* max_connections
          MinConnections,   \* min_connections
          IdleTimeout,      \* idle_timeout_ms > 0
          HealthChecks,     \* health_check_interval_ms > 0
          SizeModulus,      \* size_t is computed modulo this
          MaxSockets        \* bound: descriptor numbers

\* What the constants may be.
PoolConstants ==
    /\ MaxConnections \in Nat \ {0}
    /\ MinConnections \in 0 .. MaxConnections
    /\ IdleTimeout \in BOOLEAN
    /\ HealthChecks \in BOOLEAN
    /\ SizeModulus \in Nat /\ SizeModulus > MaxConnections + 1
    /\ MaxSockets \in Nat

VARIABLES pool,     \* the pool: none, up, shutdown, freed, handed or undefined
          idle,     \* the idle list, head first
          total,    \* total_count
          active,   \* active_count
          open,     \* open sockets
          user,     \* each user's place in get, wait mode and socket
          maint     \* the maintenance thread

vars == <<pool, idle, total, active, open, user, maint>>

Sockets == 1 .. MaxSockets
NoSocket == 0                   \* INVALID_SOCKET_HANDLE, and NULL
Freed == -1                     \* a pointer to a node that was freed

\* A node of the idle list: idle for longer than the timeout, is_being_checked.
Node(s) == [sock |-> s, old |-> FALSE, checking |-> FALSE]

\* timeout_ms = 0, > 0, > 0 and that time has passed, -1.
Modes == {"none", "timed", "expired", "forever"}

Outside == [pc |-> "outside", mode |-> "none", sock |-> NoSocket]

\* The maintenance thread: what it closes, the pointers of its scan, the rest
\* of a batch of health checks, connections left to add.
Maint(pc) == [pc |-> pc, sock |-> NoSocket, cur |-> NoSocket, prev |-> NoSocket,
              batch |-> <<>>, bad |-> {}, left |-> 0]

Inc(n) == (n + 1) % SizeModulus
Dec(n) == (n - 1) % SizeModulus

Usable == pool \in {"up", "shutdown"}

Position(list, s) ==
    IF \E i \in DOMAIN list : list[i].sock = s
    THEN CHOOSE i \in DOMAIN list : list[i].sock = s ELSE 0

WithoutIndex(list, i) == SubSeq(list, 1, i - 1) \o SubSeq(list, i + 1, Len(list))

\* Before the pool is created.
Init ==
    /\ pool = "none"
    /\ idle = <<>>
    /\ total = 0
    /\ active = 0
    /\ open = {}
    /\ user = [u \in Users |-> Outside]
    /\ maint = Maint("done")

\* mcp_connection_pool_create; prepopulate_pool makes some connections.
Create ==
    /\ pool = "none"
    /\ pool' = "up"
    /\ \E n \in 0 .. MinConnections :
          /\ idle' = [i \in 1 .. n |-> Node(i)]
          /\ total' = n
          /\ open' = 1 .. n
    /\ maint' = Maint(IF IdleTimeout \/ MinConnections > 0 THEN "sleep" ELSE "done")
    /\ UNCHANGED <<active, user>>

-----------------------------------------------------------------------------
(* mcp_connection_pool_get *)

InGet == {"start", "checking", "creating", "waiting", "woken"}

CallGet(u) ==
    /\ Usable
    /\ user[u].pc = "outside"
    /\ \E mode \in {"none", "timed", "forever"} :
          user' = [user EXCEPT ![u] = [pc |-> "start", mode |-> mode,
                                       sock |-> NoSocket]]
    /\ UNCHANGED <<pool, idle, total, active, open, maint>>

Locked(u) == Usable /\ user[u].pc \in {"start", "woken"}

Holding(u, s) ==
    [user EXCEPT ![u].sock = s, ![u].pc = IF s = NoSocket THEN "outside" ELSE "holding"]

\* The scan of the maintenance thread keeps pointers to nodes while it closes a
\* socket; a getter frees the node it takes.
NodeFreed(s) ==
    maint' = [maint EXCEPT !.cur = IF @ = s THEN Freed ELSE @,
                           !.prev = IF @ = s THEN Freed ELSE @]

GetShutdown(u) ==
    /\ Locked(u)
    /\ pool = "shutdown"
    /\ user' = Holding(u, NoSocket)
    /\ UNCHANGED <<pool, idle, total, active, open, maint>>

\* The head of the idle list is taken.
GetIdle(u) ==
    LET s == Head(idle).sock
    IN  /\ Locked(u)
        /\ pool = "up"
        /\ idle # <<>>
        /\ ~(IdleTimeout /\ Head(idle).old)
        /\ idle' = Tail(idle)
        /\ active' = Inc(active)
        /\ user' = IF HealthChecks
                   THEN [user EXCEPT ![u].pc = "checking", ![u].sock = s]
                   ELSE Holding(u, s)
        /\ NodeFreed(s)
        /\ UNCHANGED <<pool, total, open>>

\* A connection that was idle for too long is closed.  The loop is to go on to
\* another one, but ends because sock is set: get returns the closed socket.
\* The system may give its number to the next connection, of the pool or not,
\* so what the user does with it is not modelled: the pool is "handed".
GetOld(u) ==
    LET s == Head(idle).sock
    IN  /\ Locked(u)
        /\ pool = "up"
        /\ idle # <<>>
        /\ IdleTimeout
        /\ Head(idle).old
        /\ idle' = Tail(idle)
        /\ open' = open \ {s}
        /\ total' = Dec(total)
        /\ user' = Holding(u, s)
        /\ NodeFreed(s)
        /\ pool' = "handed"
        /\ UNCHANGED active

\* check_connection_health polls the socket and peeks at it: what it finds is
\* up to the peer.
CheckResult == BOOLEAN

\* The quick health check, done without the mutex; here too the loop ends and
\* the closed socket is returned.
GetChecked(u) ==
    /\ Usable
    /\ user[u].pc = "checking"
    /\ user' = Holding(u, user[u].sock)
    /\ \E healthy \in CheckResult :
          IF healthy THEN UNCHANGED <<pool, total, active, open>>
          ELSE /\ open' = open \ {user[u].sock}
               /\ total' = Dec(total)
               /\ active' = Dec(active)
               /\ pool' = "handed"
    /\ UNCHANGED <<idle, maint>>

\* No idle connection, and room for another.
GetCreate(u) ==
    /\ Locked(u)
    /\ pool = "up"
    /\ idle = <<>>
    /\ total < MaxConnections
    /\ total' = Inc(total)
    /\ user' = [user EXCEPT ![u].pc = "creating"]
    /\ UNCHANGED <<pool, idle, active, open, maint>>

\* The system gives a new socket a number that is not open: often that of a
\* socket that was closed, but other parts of the program take numbers too.
NewSocket == Sockets \ open

GetCreated(u) ==
    /\ Usable
    /\ user[u].pc = "creating"
    /\ \E s \in NewSocket : open' = open \cup {s} /\ user' = Holding(u, s)
    /\ active' = Inc(active)
    /\ UNCHANGED <<pool, idle, total, maint>>

\* Mutant: the time that has passed is not taken from the time to wait.
WaitAgain(u) ==
    user' = IF user[u].mode = "none" THEN Holding(u, NoSocket)
            ELSE [user EXCEPT ![u].pc = "waiting"]

\* The end of an iteration without a connection: wait, or give up at once or
\* because the time is over.
WaitOrGiveUp(u) ==
    user' = IF user[u].mode \in {"none", "expired"} THEN Holding(u, NoSocket)
            ELSE [user EXCEPT ![u].pc = "waiting"]

Expire(u) ==
    /\ user[u].pc \in InGet
    /\ user[u].mode = "timed"
    /\ user' = [user EXCEPT ![u].mode = "expired"]
    /\ UNCHANGED <<pool, idle, total, active, open, maint>>

\* The wait follows without another look at the idle list or at shutting_down.
GetCreateFails(u) ==
    /\ Usable
    /\ user[u].pc = "creating"
    /\ total' = Dec(total)
    /\ WaitOrGiveUp(u)
    /\ UNCHANGED <<pool, idle, active, open, maint>>

GetFull(u) ==
    /\ Locked(u)
    /\ pool = "up"
    /\ idle = <<>>
    /\ total >= MaxConnections
    /\ WaitOrGiveUp(u)
    /\ UNCHANGED <<pool, idle, total, active, open, maint>>

WaitTimeout(u) ==
    /\ Usable
    /\ user[u].pc = "waiting"
    /\ user[u].mode \in {"timed", "expired"}
    /\ user' = Holding(u, NoSocket)
    /\ UNCHANGED <<pool, idle, total, active, open, maint>>

SpuriousWakeup(u) ==
    /\ Usable
    /\ user[u].pc = "waiting"
    /\ user' = [user EXCEPT ![u].pc = "woken"]
    /\ UNCHANGED <<pool, idle, total, active, open, maint>>

-----------------------------------------------------------------------------
(* mcp_connection_pool_release *)

\* pool_signal wakes one of the waiting users, if any.
Signal(users) ==
    LET waiting == {w \in Users : users[w].pc = "waiting"}
    IN  IF waiting = {} THEN user' = users
        ELSE \E w \in waiting : user' = [users EXCEPT ![w].pc = "woken"]

\* The connection is closed: it is not valid, the pool is shutting down, or
\* there is no memory for a node.
ReleaseClose(u) ==
    /\ Usable
    /\ user[u].pc = "holding"
    /\ open' = open \ {user[u].sock}
    /\ total' = Dec(total)
    /\ active' = IF active = 0 THEN 0 ELSE Dec(active)
    /\ IF pool = "shutdown" THEN user' = [user EXCEPT ![u] = Outside]
       ELSE Signal([user EXCEPT ![u] = Outside])
    /\ UNCHANGED <<pool, idle, maint>>

\* A valid connection becomes the head of the idle list.
ReleaseIdle(u) ==
    /\ pool = "up"
    /\ user[u].pc = "holding"
    /\ idle' = <<Node(user[u].sock)>> \o idle
    /\ active' = IF active = 0 THEN 0 ELSE Dec(active)
    /\ Signal([user EXCEPT ![u] = Outside])
    /\ UNCHANGED <<pool, total, open, maint>>

-----------------------------------------------------------------------------
(* pool_maintenance_thread_func *)

\* Time passes: the connections at the end of the list, which were released
\* first, have been idle for longer than the timeout.
Age ==
    /\ Usable
    /\ IdleTimeout
    /\ \E i \in DOMAIN idle :
          /\ ~idle[i].old
          /\ idle' = [j \in DOMAIN idle |->
                        IF j >= i THEN [idle[j] EXCEPT !.old = TRUE] ELSE idle[j]]
    /\ UNCHANGED <<pool, total, active, open, user, maint>>

\* 3. Connections are added while there are fewer than min_connections.
\* (n is total_count at this point of the cycle.)
Refill(n) ==
    IF n < MinConnections
    THEN /\ total' = Inc(n)
         /\ maint' = [Maint("creating") EXCEPT !.left = MinConnections - n - 1]
    ELSE /\ total' = n
         /\ maint' = Maint("sleep")

\* 2. Health checks, if it is time for them, are made without the mutex.
HealthOrRefill(n) ==
    \/ HealthChecks /\ total' = n /\ maint' = Maint("health")
    \/ Refill(n)

\* Mutant: the node stays in the list.
UnlinkedNot(list, i, before) == list

\* remove_idle_connection: all that is before node i is dropped when prev is
\* NULL.
Unlinked(list, i, before) ==
    IF before = NoSocket THEN SubSeq(list, i + 1, Len(list)) ELSE WithoutIndex(list, i)

\* 1. The scan for old connections goes on from node cur, with prev before it.
Scan(list, cur, prev, n) ==
    LET from == IF cur = NoSocket THEN Len(list) + 1 ELSE Position(list, cur)
        olds == {i \in from .. Len(list) : list[i].old}
        i == CHOOSE k \in olds : \A m \in olds : k <= m
        before == IF i = from THEN prev ELSE list[i - 1].sock
    IN  CASE cur = Freed -> /\ pool' = "undefined"
                            /\ idle' = list /\ total' = n /\ maint' = Maint("done")
          [] cur # Freed /\ olds = {} -> /\ idle' = list
                                         /\ HealthOrRefill(n)
                                         /\ UNCHANGED pool
          [] cur # Freed /\ olds # {} /\ before = Freed ->
                /\ pool' = "undefined"
                /\ idle' = list /\ total' = n /\ maint' = Maint("done")
          [] OTHER ->
                /\ idle' = Unlinked(list, i, before)
                /\ maint' = [Maint("closing") EXCEPT
                               !.sock = list[i].sock,
                               !.cur = IF i < Len(list) THEN list[i + 1].sock
                                       ELSE NoSocket,
                               !.prev = before]
                /\ total' = n
                /\ UNCHANGED pool

\* A cycle begins.
Cycle ==
    /\ Usable
    /\ maint.pc = "sleep"
    /\ IF pool = "shutdown"
       THEN maint' = Maint("done") /\ UNCHANGED <<pool, idle, total>>
       ELSE IF IdleTimeout
            THEN Scan(idle, IF idle = <<>> THEN NoSocket ELSE Head(idle).sock,
                      NoSocket, total)
            ELSE HealthOrRefill(total) /\ UNCHANGED <<pool, idle>>
    /\ UNCHANGED <<active, open, user>>

\* close_and_free_connection has closed the socket and takes the mutex again.
ScanClosed ==
    /\ Usable
    /\ maint.pc = "closing"
    /\ open' = open \ {maint.sock}
    /\ Scan(idle, maint.cur, maint.prev, Dec(total))
    /\ UNCHANGED <<active, user>>

\* perform_health_checks marks the connections that are due.
HealthMark ==
    /\ Usable
    /\ maint.pc = "health"
    /\ \E due \in SUBSET DOMAIN idle :
          /\ idle' = [i \in DOMAIN idle |->
                        [idle[i] EXCEPT !.checking = @ \/ i \in due]]
          /\ maint' = IF due = {} THEN Maint("checked")
                      ELSE [Maint("results") EXCEPT !.batch =
                              SelectSeq([i \in DOMAIN idle |-> idle[i].sock],
                                        LAMBDA s : Position(idle, s) \in due)]
    /\ UNCHANGED <<pool, total, active, open, user>>

\* Mutant: the connection is not looked for again after the checks.
MarkedAnyway(list, s) == TRUE

\* The connection is still in the list after the checks, or is again.
Marked(list, s) == Position(list, s) # 0 /\ list[Position(list, s)].checking

\* The results of batch are applied, up to the first connection that is closed
\* because its check failed and its score is too low (bad).
Results(list, batch, bad) ==
    LET ks == {k \in DOMAIN batch : batch[k] \in bad /\ Marked(list, batch[k])}
        first == IF ks = {} THEN Len(batch) + 1
                 ELSE CHOOSE k \in ks : \A m \in ks : k <= m
        done == {batch[k] : k \in 1 .. first - 1}
        cleared == [i \in DOMAIN list |->
                      [list[i] EXCEPT !.checking = @ /\ list[i].sock \notin done]]
    IN  IF ks = {} THEN /\ idle' = cleared
                        /\ maint' = Maint("checked")
        ELSE /\ idle' = WithoutIndex(cleared, Position(list, batch[first]))
             /\ maint' = [Maint("failed") EXCEPT
                            !.sock = batch[first], !.bad = bad,
                            !.batch = SubSeq(batch, first + 1, Len(batch))]

HealthResults ==
    /\ Usable
    /\ maint.pc = "results"
    /\ \E bad \in SUBSET {maint.batch[k] : k \in DOMAIN maint.batch} :
          Results(idle, maint.batch, bad)
    /\ UNCHANGED <<pool, total, active, open, user>>

HealthClosed ==
    /\ Usable
    /\ maint.pc = "failed"
    /\ open' = open \ {maint.sock}
    /\ total' = Dec(total)
    /\ Results(idle, maint.batch, maint.bad)
    /\ UNCHANGED <<pool, active, user>>

HealthDone ==
    /\ Usable
    /\ maint.pc = "checked"
    /\ IF pool = "shutdown" THEN maint' = Maint("done") /\ UNCHANGED total
       ELSE Refill(total)
    /\ UNCHANGED <<pool, idle, active, open, user>>

\* Mutant: the loop does not count its attempts.
RefillMoreEndless(n) ==
    IF n < MaxConnections
    THEN /\ total' = Inc(n)
         /\ maint' = [maint EXCEPT !.left = @ - 1]
    ELSE /\ total' = n
         /\ maint' = Maint("sleep")

\* After an attempt the loop of step 3 goes on; n is total_count.
RefillMore(n) ==
    IF maint.left > 0 /\ n < MaxConnections
    THEN /\ total' = Inc(n)
         /\ maint' = [maint EXCEPT !.left = @ - 1]
    ELSE /\ total' = n
         /\ maint' = Maint("sleep")

\* The new connection becomes the head of the idle list; nobody is signalled.
RefillCreated ==
    /\ Usable
    /\ maint.pc = "creating"
    /\ \E s \in NewSocket : open' = open \cup {s} /\ idle' = <<Node(s)>> \o idle
    /\ RefillMore(total)
    /\ UNCHANGED <<pool, active, user>>

\* Mutant: the failed attempt stays in the count.
RefillFailsCounted ==
    /\ Usable
    /\ maint.pc = "creating"
    /\ RefillMore(total)
    /\ UNCHANGED <<pool, idle, active, open, user>>

RefillFails ==
    /\ Usable
    /\ maint.pc = "creating"
    /\ RefillMore(Dec(total))
    /\ UNCHANGED <<pool, idle, active, open, user>>

-----------------------------------------------------------------------------
(* mcp_connection_pool_destroy *)

DestroyBegin ==
    /\ pool = "up"
    /\ pool' = "shutdown"
    /\ user' = [u \in Users |-> IF user[u].pc = "waiting"
                                THEN [user[u] EXCEPT !.pc = "woken"] ELSE user[u]]
    /\ UNCHANGED <<idle, total, active, open, maint>>

\* The maintenance thread was joined.  Nobody waits for the users.
DestroyEnd ==
    /\ pool = "shutdown"
    /\ maint.pc = "done"
    /\ pool' = "freed"
    /\ open' = open \ {idle[i].sock : i \in DOMAIN idle}
    /\ idle' = <<>>
    /\ total' = 0
    /\ active' = 0
    /\ UNCHANGED <<user, maint>>

-----------------------------------------------------------------------------
GetStep(u) ==
    \/ GetShutdown(u) \/ GetIdle(u) \/ GetOld(u) \/ GetChecked(u) \/ GetCreate(u)
    \/ GetCreated(u) \/ GetCreateFails(u) \/ GetFull(u)

Release(u) == ReleaseClose(u) \/ ReleaseIdle(u)

Maintenance ==
    \/ Cycle \/ ScanClosed \/ HealthMark \/ HealthResults \/ HealthClosed
    \/ HealthDone \/ RefillCreated \/ RefillFails

Next ==
    \/ Create
    \/ \E u \in Users : \/ CallGet(u) \/ GetStep(u) \/ Release(u)
                        \/ WaitTimeout(u) \/ SpuriousWakeup(u) \/ Expire(u)
    \/ Age
    \/ Maintenance
    \/ DestroyBegin
    \/ DestroyEnd

Spec == Init /\ [][Next]_vars

\* The threads run, timed waits end, and users release what they hold.
Fairness ==
    /\ \A u \in Users : /\ WF_vars(GetStep(u))
                        /\ WF_vars(WaitTimeout(u))
                        /\ WF_vars(Expire(u))
                        /\ WF_vars(Release(u))
    /\ WF_vars(Maintenance)
    /\ WF_vars(DestroyEnd)

FairSpec == Spec /\ Fairness

-----------------------------------------------------------------------------
TypeOK ==
    /\ pool \in {"none", "up", "shutdown", "freed", "handed", "undefined"}
    /\ \A i \in DOMAIN idle : idle[i] \in [sock : Sockets, old : BOOLEAN,
                                           checking : BOOLEAN]
    /\ total \in 0 .. SizeModulus - 1
    /\ active \in 0 .. SizeModulus - 1
    /\ open \subseteq Sockets
    /\ user \in [Users -> [pc : InGet \cup {"outside", "holding"}, mode : Modes,
                           sock : Sockets \cup {NoSocket}]]
    /\ maint.pc \in {"sleep", "closing", "health", "results", "failed", "checked",
                     "creating", "done"}
    /\ maint.left \in 0 .. MaxConnections

\* Who has socket s: positions of the idle list, users, the maintenance thread.
Owners(s) ==
    {<<"idle", i>> : i \in {j \in DOMAIN idle : idle[j].sock = s}}
    \cup {<<"user", u>> : u \in {v \in Users : user[v].sock = s
                                    /\ user[v].pc \in {"checking", "holding"}}}
    \cup {<<"maint", 0>> : x \in {y \in {maint} : y.sock = s}}

\* An open socket is in exactly one place: it is in the idle list once, or one
\* user has it, or the maintenance thread is closing it.  So no connection is
\* used by two users, and none is leaked, although the numbers of closed sockets
\* are used again.  (Until get has handed out a socket that it closed.)
OpenHasOneOwner ==
    \A s \in open : pool # "undefined" => Cardinality(Owners(s)) = 1

\* Two users never have the same socket, although the numbers of closed sockets
\* are used again.  (Until get has handed out a socket that it closed.)
OneUserPerSocket ==
    \A u, v \in Users :
       (u # v /\ user[u].pc = "holding" /\ user[v].pc = "holding")
          => user[u].sock # user[v].sock

\* The number of connections being made at this moment.
Creating ==
    Cardinality({u \in Users : user[u].pc = "creating"})
    + (IF maint.pc = "creating" THEN 1 ELSE 0)

\* total_count and active_count are what get_stats says they are, whatever the
\* threads are doing: connections that exist or are being made, and connections
\* that users have.  (Without idle timeout and health checks.)
CountsExact ==
    Usable => /\ total = Cardinality(open) + Creating
              /\ active = Cardinality({u \in Users :
                                         user[u].pc \in {"checking", "holding"}})

\* "The maximum number of connections allowed in the pool": checked before the
\* mutex is released for the connect, so concurrent gets do not exceed it.
WithinMaximum == Cardinality(open) + Creating <= MaxConnections

\* mcp_connection_pool_destroy returns.
DestroyReturns == pool = "shutdown" ~> pool # "shutdown"

\* A get that may not wait for ever returns while the pool is not destroyed.
GetReturns ==
    \A u \in Users :
       (user[u].pc \in InGet /\ user[u].mode # "forever" /\ pool = "up")
          ~> (user[u].pc \notin InGet \/ pool # "up")

\* "Connection has timed out, close it and try to get another one": get never
\* returns a socket that it closed.
ReturnedIsOpen ==
    \A u \in Users : user[u].pc = "holding" => user[u].sock \in open
=============================================================================
