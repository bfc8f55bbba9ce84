----------------------------- MODULE GatewayPool -----------------------------
(* The connections of a gateway to one backend (src/gateway/mcp_gateway_pool.c) *)
(* and the requests that are forwarded over them (mcp_gateway_routing.c).  A   *)
(* step between two points where pool_lock is free is one action.  The state   *)
(* "broken" stands for undefined behaviour: nothing is said of what follows.   *)
EXTENDS Integers, FiniteSets, FiniteSetTheorems, WellFoundedInduction, TLAPS

CONSTANTS Forwarders,      \* threads that forward requests to the backend
          MaxConnections,  \* max_connections (DEFAULT_MAX_CONNECTIONS is 5)
          MinConnections,  \* min_connections (DEFAULT_MIN_CONNECTIONS is 1)
          ConnectFails,    \* whether a connection may fail to be made
          Ages             \* whether idle_timeout_ms may pass

VARIABLES pool,            \* the entry of backend_pools: "absent", "open", "freed"
          idle_list,       \* the first connection of the idle list
          next,            \* the node after that of a connection
          old,             \* connections that are idle for more than the timeout
          idle_count, active_count, total_count,
          live,            \* the clients (mcp_client_t) that exist
          fwd,             \* what each forwarder is doing
          broken           \* a freed node was used, or the lock was given up
                           \* by a thread that did not have it

vars == <<pool, idle_list, next, old, idle_count, active_count, total_count, live,
          fwd, broken>>

Connections == 1 .. MaxConnections + 1

None == 0

\* A pointer to a node that has been freed.
Dangling == MaxConnections + 2

Idler == [pc |-> "out", conn |-> None, cursor |-> None, seen |-> {}]

States == {"out", "scan", "connect", "unlock", "wait", "woken", "use", "check"}

\* The local variables of a forwarder.
Locals == [pc : States, conn : Connections \cup {None},
           cursor : Connections \cup {None, Dangling}, seen : SUBSET Connections]

TypeOK ==
    /\ pool \in {"absent", "open", "freed"}
    /\ idle_list \in Connections \cup {None, Dangling}
    /\ next \in [Connections -> Connections \cup {None, Dangling}]
    /\ old \in SUBSET Connections
    /\ idle_count \in 0 .. MaxConnections
    /\ active_count \in 0 .. MaxConnections
    /\ total_count \in 0 .. MaxConnections
    /\ live \in SUBSET Connections
    /\ fwd \in [Forwarders -> Locals]
    /\ broken \in BOOLEAN

list == <<idle_list, next, old>>

counts == <<idle_count, active_count, total_count>>

Init ==
    /\ pool = "absent"
    /\ idle_list = None
    /\ next = [c \in Connections |-> None]
    /\ old = {} /\ live = {}
    /\ idle_count = 0 /\ active_count = 0 /\ total_count = 0
    /\ fwd = [f \in Forwarders |-> Idler]
    /\ broken = FALSE

-----------------------------------------------------------------------------
\* The list as it is walked: its n-th node, as far as it has one.
Walk[n \in Nat] ==
    IF n = 0 THEN idle_list
    ELSE IF Walk[n - 1] \in Connections THEN next[Walk[n - 1]] ELSE Walk[n - 1]

Walked == {Walk[n] : n \in 0 .. MaxConnections + 1}

Idle == Walked \cap Connections

Holders(c) == {f \in Forwarders : fwd[f].conn = c}

NewConnection == CHOOSE c \in Connections \ live :
                     \A d \in Connections \ live : c <= d

\* What a pointer p is when the node of c has been freed.
Freed(p, c) == IF p = c THEN Dangling ELSE p

\* The node of c is freed after its successor has become the first of the list,
\* and forwarder f becomes r: the other pointers to the node dangle.
TakeOut(f, r, c) ==
    /\ idle_list' = next[c]
    /\ next' = [d \in Connections |-> IF d = c THEN None ELSE Freed(next[d], c)]
    /\ old' = old \ {c}
    /\ fwd' = [g \in Forwarders |->
                   IF g = f THEN r
                   ELSE [fwd[g] EXCEPT !.cursor = Freed(@, c)]]

-----------------------------------------------------------------------------
\* create_backend_pool: the pool and, as far as they can be made, its first
\* connections.
Create ==
    /\ pool = "absent"
    /\ pool' = "open"
    /\ \E n \in 0 .. MinConnections :
        /\ n = MinConnections \/ ConnectFails
        /\ live' = 1 .. n
        /\ idle_list' = n
        /\ next' = [c \in Connections |-> IF c <= n THEN c - 1 ELSE None]
        /\ idle_count' = n
        /\ total_count' = n
    /\ UNCHANGED <<old, active_count, fwd, broken>>

\* The walk over the idle list, at the node "cursor", for a forwarder that read
\* the time when the connections "seen" had timed out.  prev_idle_node is never
\* set: what is taken out is the list up to the node, and not only the node.
ScanTimedOut(f, cursor, seen) ==
    /\ cursor \in seen
    /\ TakeOut(f, [Idler EXCEPT !.pc = "scan", !.seen = seen,
                                !.cursor = next[cursor]], cursor)
    /\ idle_count' = idle_count - 1
    /\ total_count' = total_count - 1
    /\ live' = live \ {cursor}
    /\ UNCHANGED <<pool, active_count, broken>>

ScanTakes(f, cursor, seen) ==
    /\ cursor \in Connections \ seen
    /\ TakeOut(f, [Idler EXCEPT !.pc = "use", !.conn = cursor], cursor)
    /\ idle_count' = idle_count - 1
    /\ active_count' = active_count + 1
    /\ UNCHANGED <<pool, total_count, live, broken>>

\* The end of the list: a new connection if the pool may have one more, else
\* the wait without timeout (DEFAULT_GET_TIMEOUT_MS is -1).
ScanEnds(f, cursor) ==
    /\ cursor = None
    /\ IF total_count < MaxConnections
       THEN /\ total_count' = total_count + 1
            /\ fwd' = [fwd EXCEPT ![f] = [Idler EXCEPT !.pc = "connect"]]
       ELSE /\ fwd' = [fwd EXCEPT ![f] = [Idler EXCEPT !.pc = "wait"]]
            /\ UNCHANGED total_count
    /\ UNCHANGED <<pool, list, idle_count, active_count, live, broken>>

ScanDangles(cursor) ==
    /\ cursor = Dangling
    /\ broken' = TRUE
    /\ UNCHANGED <<pool, list, counts, live, fwd>>

\* gateway_pool_get_connection from the moment it has the lock at the node
\* "cursor" to the moment it gives it up.
Scan(f, cursor, seen) ==
    \/ ScanTimedOut(f, cursor, seen)
    \/ ScanTakes(f, cursor, seen)
    \/ ScanEnds(f, cursor)
    \/ ScanDangles(cursor)

\* gateway_forward_request asks for a connection; a waiter that was woken goes
\* round the loop again.
GetBegin(f) ==
    /\ pool = "open"
    /\ fwd[f].pc \in {"out", "woken"}
    /\ Scan(f, idle_list, old)

\* The loop goes on after a connection that timed out was destroyed.
GetGoesOn(f) ==
    /\ fwd[f].pc = "scan"
    /\ Scan(f, fwd[f].cursor, fwd[f].seen)

Connected(f) ==
    /\ fwd[f].pc = "connect"
    /\ active_count' = active_count + 1
    /\ live' = live \cup {NewConnection}
    /\ fwd' = [fwd EXCEPT ![f] = [Idler EXCEPT !.pc = "use", !.conn = NewConnection]]
    /\ UNCHANGED <<pool, list, idle_count, total_count, broken>>

\* Mutant: a connection that could not be made stays counted.
ConnectFailedCounted(f) ==
    /\ ConnectFails
    /\ fwd[f].pc = "connect"
    /\ fwd' = [fwd EXCEPT ![f].pc = "unlock"]
    /\ UNCHANGED <<pool, list, counts, live, broken>>

\* No transport or no client: nobody is signalled that there is room again.
ConnectFailed(f) ==
    /\ ConnectFails
    /\ fwd[f].pc = "connect"
    /\ total_count' = total_count - 1
    /\ fwd' = [fwd EXCEPT ![f].pc = "unlock"]
    /\ UNCHANGED <<pool, list, idle_count, active_count, live, broken>>

\* found_connection gives the lock up a second time.  That is harmless unless
\* another thread has it at this moment.
SecondUnlock(f) ==
    /\ fwd[f].pc = "unlock"
    /\ broken' \in {FALSE, \E g \in Forwarders \ {f} : fwd[g].pc \notin {"out", "wait"}}
    /\ fwd' = [fwd EXCEPT ![f] = Idler]
    /\ UNCHANGED <<pool, list, counts, live>>

\* mcp_cond_wait may return without a signal.
SpuriousWakeup(f) ==
    /\ fwd[f].pc = "wait"
    /\ fwd' = [fwd EXCEPT ![f].pc = "woken"]
    /\ UNCHANGED <<pool, list, counts, live, broken>>

-----------------------------------------------------------------------------
ReleaseBegin(f) ==
    /\ fwd[f].pc = "use"
    /\ idle_count > 0 \/ 10 * total_count >= 8 * MaxConnections
    /\ fwd' = [fwd EXCEPT ![f].pc = "check"]
    /\ UNCHANGED <<pool, list, counts, live, broken>>

\* The connection is destroyed, and nobody is signalled.
ReleaseDestroys(f) ==
    /\ active_count' = IF active_count > 0 THEN active_count - 1 ELSE 0
    /\ total_count' = IF total_count > 0 THEN total_count - 1 ELSE 0
    /\ live' = live \ {fwd[f].conn}
    /\ fwd' = [fwd EXCEPT ![f] = Idler]
    /\ UNCHANGED <<pool, list, idle_count, broken>>

\* The connection goes to the front of the list and one waiter is signalled.
ReleaseKeeps(f) ==
    /\ idle_count < MaxConnections \div 2
    /\ idle_list' = fwd[f].conn
    /\ next' = [next EXCEPT ![fwd[f].conn] = idle_list]
    /\ idle_count' = idle_count + 1
    /\ active_count' = IF active_count > 0 THEN active_count - 1 ELSE 0
    /\ LET left == [fwd EXCEPT ![f] = Idler]
       IN  IF \E g \in Forwarders : fwd[g].pc = "wait"
           THEN \E g \in Forwarders :
                    fwd[g].pc = "wait" /\ fwd' = [left EXCEPT ![g].pc = "woken"]
           ELSE fwd' = left
    /\ UNCHANGED <<pool, old, total_count, live, broken>>

\* gateway_pool_release_connection without the health check, or after it.
Release(f) ==
    \/ /\ fwd[f].pc = "use"
       /\ idle_count = 0 /\ 10 * total_count < 8 * MaxConnections
       /\ ReleaseKeeps(f) \/ (idle_count >= MaxConnections \div 2 /\ ReleaseDestroys(f))
    \/ /\ fwd[f].pc = "check"
       /\ \/ ReleaseKeeps(f)
          \/ ReleaseDestroys(f)   \* unhealthy, or enough idle connections

-----------------------------------------------------------------------------
\* idle_timeout_ms pass for a connection.
Age(c) ==
    /\ Ages
    /\ c \in live \ old /\ Holders(c) = {}
    /\ old' = old \cup {c}
    /\ UNCHANGED <<pool, idle_list, next, counts, live, fwd, broken>>

\* gateway_pool_manager_destroy, by mcp_server_destroy when no request is left.
Destroy ==
    /\ pool = "open"
    /\ \A f \in Forwarders : fwd[f].pc = "out"
    /\ pool' = "freed"
    /\ live' = live \ Idle
    /\ broken' = (Dangling \in Walked)
    /\ idle_list' = None /\ old' = {}
    /\ next' = [c \in Connections |-> None]
    /\ idle_count' = 0 /\ active_count' = 0 /\ total_count' = 0
    /\ UNCHANGED fwd

Forwarder(f) ==
    \/ GetBegin(f)
    \/ GetGoesOn(f)
    \/ Connected(f)
    \/ ConnectFailed(f)
    \/ SecondUnlock(f)
    \/ SpuriousWakeup(f)
    \/ ReleaseBegin(f)
    \/ Release(f)

Next ==
    /\ ~broken
    /\ \/ Create
       \/ \E f \in Forwarders : Forwarder(f)
       \/ \E c \in Connections : Age(c)
       \/ Destroy

Spec == Init /\ [][Next]_vars

-----------------------------------------------------------------------------
\* Every connection that the list or a node points to, whether or not that node
\* can still be reached from the list.
Pointed == ({idle_list} \cup {next[c] : c \in Connections}) \cap Connections

\* No connection is handed to two forwarders, or to one while a node of the idle
\* list leads to it, also when several of them walk over the list with the lock
\* given up in between; what they hold and what the nodes lead to exists.
HeldOnce ==
    ~broken =>
        /\ \A c \in Connections : Cardinality(Holders(c)) <= 1
        /\ \A c \in Pointed : Holders(c) = {}
        /\ Pointed \cup {fwd[f].conn : f \in Forwarders} \subseteq live \cup {None}

\* total_count covers every connection that exists or is being made, so that
\* max_connections is never exceeded by them; active_count is what the
\* forwarders hold.
CountsCoverAll ==
    ~broken /\ pool = "open" =>
        /\ total_count = Cardinality(live)
                           + Cardinality({f \in Forwarders : fwd[f].pc = "connect"})
        /\ active_count = Cardinality({f \in Forwarders : fwd[f].conn # None})
        /\ total_count <= MaxConnections

\* The connections of the gateway are handed out and counted exactly.
GatewayExact == HeldOnce /\ CountsCoverAll

\* Every connection that exists is held or can be found again.
NothingLeaked ==
    ~broken => \A c \in live : c \in Idle \/ Holders(c) # {}

-----------------------------------------------------------------------------
(* Proofs: GatewayExact holds for any number of forwarders and connections.    *)
(* The walks over the list cannot be proved about as such.  What makes them   *)
(* safe is local: no pointer of the list, of a node or of a forwarder's walk  *)
(* leads to a connection that is held or was destroyed (Pointers).            *)

\* What is assumed of the constants.
Sizes ==
    /\ IsFiniteSet(Forwarders)
    /\ MaxConnections \in Nat
    /\ MinConnections \in 0 .. MaxConnections

\* The connections that exist and are not held, the forwarders that hold one and
\* those that are making one.
Unheld == {c \in live : Holders(c) = {}}
Busy == {f \in Forwarders : fwd[f].conn # None}
Connecting == {f \in Forwarders : fwd[f].pc = "connect"}

\* A pointer that does not dangle leads to a connection nobody holds.
Sound(p) == p \in Connections => p \in Unheld

\* The types, with counts that are numbers: that they are bounded follows.
Typed ==
    /\ pool \in {"absent", "open", "freed"}
    /\ idle_list \in Connections \cup {None, Dangling}
    /\ next \in [Connections -> Connections \cup {None, Dangling}]
    /\ old \in SUBSET Connections
    /\ idle_count \in Nat
    /\ active_count \in Nat
    /\ total_count \in Nat
    /\ live \in SUBSET Connections
    /\ fwd \in [Forwarders -> Locals]

\* Nothing leads to a connection that is held or has been destroyed, however the
\* walks over the list cut it, and no node leads to itself.
Pointers ==
    /\ Sound(idle_list)
    /\ \A d \in Connections : Sound(next[d])
    /\ \A f \in Forwarders : Sound(fwd[f].cursor)
    /\ \A d \in Connections : next[d] # d

\* Where a forwarder has a connection and where it walks.
Shape(r) ==
    /\ r.conn # None <=> r.pc \in {"use", "check"}
    /\ r.cursor # None => r.pc = "scan"

\* A held connection exists and is held once.
Holding ==
    /\ \A f \in Forwarders : Shape(fwd[f])
    /\ \A f \in Forwarders : fwd[f].conn \in live \cup {None}
    /\ \A f, g \in Forwarders : fwd[f].conn = fwd[g].conn /\ fwd[f].conn # None => f = g

\* What the three counts count.
Counts ==
    /\ pool = "open" =>
         /\ total_count = Cardinality(live) + Cardinality(Connecting)
         /\ total_count <= MaxConnections
         /\ active_count = Cardinality(Busy)
         /\ idle_count = Cardinality(Unheld)
    /\ pool # "open" => active_count = 0 /\ \A f \in Forwarders : fwd[f].pc = "out"

\* The inductive invariant.
IInv == Typed /\ Pointers /\ Holding /\ Counts

-----------------------------------------------------------------------------
\* Sets of connections and of forwarders are finite, and there is one connection more
\* than the pool may have.
LEMMA Finite ==
    ASSUME Sizes
    PROVE  /\ \A S \in SUBSET Connections : IsFiniteSet(S) /\ Cardinality(S) \in Nat
           /\ \A S \in SUBSET Forwarders : IsFiniteSet(S) /\ Cardinality(S) \in Nat
           /\ Cardinality(Connections) = MaxConnections + 1
<1>1. IsFiniteSet(Connections) /\ Cardinality(Connections) = MaxConnections + 1
  BY FS_Interval DEF Sizes, Connections
<1>2. IsFiniteSet(Forwarders)
  BY DEF Sizes
<1>. QED BY <1>1, <1>2, FS_Subset, FS_CardinalityType

\* Pointers that are no connections.
LEMMA NotConnections ==
    ASSUME Sizes
    PROVE  None \notin Connections /\ Dangling \notin Connections
  BY DEF Sizes, Connections, None, Dangling

\* One element more, one more counted.
LEMMA OneMore ==
    ASSUME NEW S, IsFiniteSet(S), NEW x, x \notin S
    PROVE  Cardinality(S \cup {x}) = Cardinality(S) + 1
  BY FS_AddElement

\* One element less, one less counted.
LEMMA OneFewer ==
    ASSUME NEW S, IsFiniteSet(S), NEW x \in S
    PROVE  /\ Cardinality(S \ {x}) = Cardinality(S) - 1
           /\ Cardinality(S) \in Nat \ {0}
<1>1. Cardinality(S \ {x}) = Cardinality(S) - 1
  BY FS_RemoveElement
<1>2. Cardinality(S) \in Nat /\ Cardinality(S \ {x}) \in Nat
  BY FS_CardinalityType, FS_Subset
<1>. QED BY <1>1, <1>2

\* A connection that is made is a new one.
LEMMA NewIsNew ==
    ASSUME Sizes, IInv, NEW f \in Forwarders, fwd[f].pc = "connect"
    PROVE  NewConnection \in Connections \ live
<1>1. pool = "open"
  BY DEF IInv, Counts
<1>2. f \in Connecting /\ Connecting \in SUBSET Forwarders /\ live \in SUBSET Connections
  BY DEF Connecting, IInv, Typed
<1>3. Cardinality(Connecting) \in Nat \ {0}
  BY <1>2, Finite, OneFewer
<1>4. Cardinality(live) \in Nat /\ Cardinality(live) < MaxConnections
  BY <1>1, <1>2, <1>3, Finite DEF IInv, Counts, Sizes, Typed
<1>5. live # Connections
  BY <1>4, Finite DEF Sizes
<1>. DEFINE R == OpToRel(<, Nat)
<1>6. \A x, y \in Nat : x < y => <<x, y>> \in R
  BY DEF OpToRel
<1>7. IsWellFoundedOn(R, Nat)
  BY NatLessThanWellFounded
<1>. HIDE DEF R
<1>8. Connections \ live # {} /\ Connections \ live \subseteq Nat
  <2>1. Connections \subseteq Nat
    BY DEF Connections, Sizes
  <2>. QED BY <1>2, <1>5, <2>1
<1>9. PICK m \in Connections \ live : \A y \in Connections \ live : ~(<<y, m>> \in R)
  BY <1>7, <1>8, WFMin
<1>10. ASSUME NEW n \in Connections \ live
       PROVE  m <= n
  <2>1. m \in Nat /\ n \in Nat /\ ~(n < m)
    BY <1>6, <1>8, <1>9
  <2>. QED BY <2>1
<1>. QED BY <1>10 DEF NewConnection

\* The type of what a forwarder becomes.
LEMMA LocalsTyped ==
    /\ Idler \in Locals
    /\ \A p \in States : [Idler EXCEPT !.pc = p] \in Locals
    /\ \A c \in Connections : [Idler EXCEPT !.pc = "use", !.conn = c] \in Locals
    /\ \A t \in SUBSET Connections, q \in Connections \cup {None, Dangling} :
          [Idler EXCEPT !.pc = "scan", !.seen = t, !.cursor = q] \in Locals
  BY DEF Idler, Locals, States

-----------------------------------------------------------------------------
\* A step after which the same connections exist and the same forwarders hold
\* them, and no pointer has been set, keeps the invariant if it counts right.
LEMMA NothingMoves ==
    ASSUME IInv, Typed',
           UNCHANGED <<pool, idle_list, next, live, idle_count, active_count>>,
           \A g \in Forwarders : /\ fwd'[g].conn = fwd[g].conn
                                 /\ fwd'[g].cursor \in {fwd[g].cursor, None}
                                 /\ Shape(fwd'[g]),
           pool = "open" => /\ total_count' = Cardinality(live) + Cardinality(Connecting')
                            /\ total_count' <= MaxConnections,
           pool # "open" => \A g \in Forwarders : fwd'[g].pc = "out",
           None \notin Connections
    PROVE  IInv'
<1>1. Unheld' = Unheld /\ Busy' = Busy
  BY DEF Unheld, Busy, Holders
<1>2. Pointers'
  <2>1. Sound(idle_list)' /\ \A d \in Connections : Sound(next[d])' /\ next'[d] # d
    BY <1>1 DEF IInv, Pointers, Sound
  <2>2. \A g \in Forwarders : Sound(fwd[g].cursor)'
    BY <1>1 DEF IInv, Pointers, Sound
  <2>. QED BY <2>1, <2>2 DEF Pointers
<1>3. Holding'
  BY DEF IInv, Holding, Shape
<1>4. Counts'
  BY <1>1 DEF IInv, Counts
<1>. QED BY <1>2, <1>3, <1>4 DEF IInv

\* The steps of forwarder f that move nothing.
LEMMA StepMovesNothing ==
    ASSUME Sizes, IInv, NEW f \in Forwarders, NEW r \in Locals,
           fwd' = [fwd EXCEPT ![f] = r],
           UNCHANGED <<pool, idle_list, next, old, live, idle_count, active_count>>,
           r.conn = fwd[f].conn, r.cursor = None, Shape(r),
           total_count' \in Nat, pool = "open",
           \/ r.pc = "connect" /\ fwd[f].pc # "connect" /\ total_count' = total_count + 1
           \/ r.pc # "connect" /\ fwd[f].pc = "connect" /\ total_count' = total_count - 1
           \/ r.pc # "connect" /\ fwd[f].pc # "connect" /\ total_count' = total_count,
           total_count' <= MaxConnections
    PROVE  IInv'
<1>1. fwd \in [Forwarders -> Locals]
  BY DEF IInv, Typed
<1>2. fwd'[f] = r /\ \A g \in Forwarders \ {f} : fwd'[g] = fwd[g]
  BY <1>1
<1>3. Typed'
  <2>1. fwd' \in [Forwarders -> Locals]
    BY <1>1
  <2>. QED BY <2>1 DEF IInv, Typed
<1>4. total_count' = Cardinality(live) + Cardinality(Connecting')
  <2>0. IsFiniteSet(Connecting) /\ Cardinality(live) \in Nat /\ Cardinality(Connecting) \in Nat
    BY Finite DEF IInv, Typed, Connecting
  <2>1. total_count = Cardinality(live) + Cardinality(Connecting)
    BY DEF IInv, Counts
  <2>2. CASE r.pc = "connect" /\ fwd[f].pc # "connect" /\ total_count' = total_count + 1
    <3>1. f \notin Connecting /\ Connecting' = Connecting \cup {f}
      BY <1>2, <2>2 DEF Connecting
    <3>2. Cardinality(Connecting') = Cardinality(Connecting) + 1
      BY <2>0, <3>1, OneMore
    <3>. QED BY <2>0, <2>1, <2>2, <3>2
  <2>3. CASE r.pc # "connect" /\ fwd[f].pc = "connect" /\ total_count' = total_count - 1
    <3>1. f \in Connecting /\ Connecting' = Connecting \ {f}
      BY <1>2, <2>3 DEF Connecting
    <3>2. Cardinality(Connecting') = Cardinality(Connecting) - 1
      BY <2>0, <3>1, OneFewer
    <3>. QED BY <2>0, <2>1, <2>3, <3>2
  <2>4. CASE r.pc # "connect" /\ fwd[f].pc # "connect" /\ total_count' = total_count
    <3>1. Connecting' = Connecting
      BY <1>2, <2>4 DEF Connecting
    <3>. QED BY <2>1, <2>4, <3>1
  <2>. QED BY <2>2, <2>3, <2>4
<1>5. \A g \in Forwarders : /\ fwd'[g].conn = fwd[g].conn
                            /\ fwd'[g].cursor \in {fwd[g].cursor, None}
                            /\ Shape(fwd'[g])
  BY <1>2 DEF IInv, Holding
<1>. QED BY <1>3, <1>4, <1>5, NothingMoves, NotConnections

\* The node of an unheld connection c is freed, and forwarder f becomes r.
LEMMA NodeTaken ==
    ASSUME Sizes, IInv, NEW f \in Forwarders, NEW r \in Locals, NEW c \in Unheld,
           TakeOut(f, r, c)
    PROVE  /\ fwd' \in [Forwarders -> Locals]
           /\ fwd'[f] = r
           /\ \A g \in Forwarders \ {f} : /\ fwd'[g].pc = fwd[g].pc
                                          /\ fwd'[g].conn = fwd[g].conn
                                          /\ fwd'[g].cursor = Freed(fwd[g].cursor, c)
           /\ idle_list' \in Connections \cup {None, Dangling}
           /\ next' \in [Connections -> Connections \cup {None, Dangling}]
           /\ idle_list' # c
           /\ Sound(idle_list') /\ \A d \in Connections : Sound(next'[d])
           /\ \A d \in Connections : next'[d] # c /\ next'[d] # d
           /\ old' \in SUBSET Connections
<1>0. /\ fwd \in [Forwarders -> Locals]
      /\ c \in Connections
      /\ next \in [Connections -> Connections \cup {None, Dangling}]
      /\ old \in SUBSET Connections
      /\ None \notin Connections /\ Dangling \notin Connections
  BY NotConnections DEF IInv, Typed, Unheld
<1>1. \A p \in Connections \cup {None, Dangling} :
         /\ Freed(p, c) \in Connections \cup {None, Dangling}
         /\ Freed(p, c) # c
         /\ Sound(p) => Sound(Freed(p, c))
  BY <1>0 DEF Freed, Sound
<1>2. \A g \in Forwarders :
         /\ [fwd[g] EXCEPT !.cursor = Freed(@, c)] \in Locals
         /\ [fwd[g] EXCEPT !.cursor = Freed(@, c)].pc = fwd[g].pc
         /\ [fwd[g] EXCEPT !.cursor = Freed(@, c)].conn = fwd[g].conn
         /\ [fwd[g] EXCEPT !.cursor = Freed(@, c)].cursor = Freed(fwd[g].cursor, c)
  BY <1>0, <1>1 DEF Locals
<1>3. /\ fwd' \in [Forwarders -> Locals]
      /\ fwd'[f] = r
      /\ \A g \in Forwarders \ {f} : /\ fwd'[g].pc = fwd[g].pc
                                     /\ fwd'[g].conn = fwd[g].conn
                                     /\ fwd'[g].cursor = Freed(fwd[g].cursor, c)
  BY <1>2 DEF TakeOut
<1>4. /\ idle_list' = next[c]
      /\ next'[c] = None
      /\ \A d \in Connections \ {c} : next'[d] = Freed(next[d], c)
      /\ next' \in [Connections -> Connections \cup {None, Dangling}]
  BY <1>0, <1>1 DEF TakeOut
<1>5. Sound(None) /\ Sound(Dangling) /\ next[c] # c
  BY <1>0 DEF Sound, IInv, Pointers
<1>6. \A d \in Connections : Sound(next[d]) /\ next[d] # d
  BY DEF IInv, Pointers
<1>7. \A d \in Connections : Sound(next'[d]) /\ next'[d] # c /\ next'[d] # d
  <2>1. ASSUME NEW d \in Connections \ {c}
        PROVE  Sound(next'[d]) /\ next'[d] # c /\ next'[d] # d
    <3>1. next[d] \in Connections \cup {None, Dangling}
      BY <1>0
    <3>2. Freed(next[d], c) \in {next[d], Dangling}
      BY DEF Freed
    <3>. QED BY <1>0, <1>1, <1>4, <1>6, <2>1, <3>1, <3>2
  <2>. QED BY <1>0, <1>4, <1>5, <2>1
<1>. QED BY <1>0, <1>3, <1>4, <1>5, <1>6, <1>7 DEF TakeOut

\* After the node of c was freed no pointer leads to it, and those that are
\* left lead to connections that stay unheld.
LEMMA NodeGone ==
    ASSUME Sizes, IInv, Typed', NEW f \in Forwarders, NEW r \in Locals, NEW c \in Unheld,
           TakeOut(f, r, c), Unheld' = Unheld \ {c},
           r.cursor # c, Sound(r.cursor)
    PROVE  Pointers'
<1>0. None \notin Connections /\ Dangling \notin Connections
  BY NotConnections
<1>1. \A p : p # c /\ Sound(p) => Sound(p)'
  BY DEF Sound
<1>2. Sound(idle_list)'
  <2>1. Sound(idle_list') /\ idle_list' # c
    BY NodeTaken
  <2>. QED BY <2>1 DEF Sound
<1>3. \A d \in Connections : Sound(next[d])' /\ next'[d] # d
  <2>1. \A d \in Connections : Sound(next'[d]) /\ next'[d] # c /\ next'[d] # d
    BY NodeTaken
  <2>. QED BY <2>1 DEF Sound
<1>4. ASSUME NEW g \in Forwarders
      PROVE  Sound(fwd[g].cursor)'
  <2>1. CASE g = f
    <3>1. fwd'[g] = r
      BY <2>1, NodeTaken
    <3>. QED BY <3>1 DEF Sound
  <2>2. CASE g # f
    <3>1. fwd'[g].cursor = Freed(fwd[g].cursor, c)
      BY <2>2, NodeTaken
    <3>2. Sound(fwd[g].cursor)
      BY DEF IInv, Pointers
    <3>. QED BY <1>0, <3>1, <3>2 DEF Sound, Freed
  <2>. QED BY <2>1, <2>2
<1>. QED BY <1>2, <1>3, <1>4 DEF Pointers

\* The walk over the idle list destroys a connection that timed out.
LEMMA TimedOutKeeps ==
    ASSUME Sizes, IInv, NEW f \in Forwarders, NEW c \in Connections,
           NEW seen \in SUBSET Connections, Sound(c),
           fwd[f].pc \in {"out", "woken", "scan"}, pool = "open", ScanTimedOut(f, c, seen)
    PROVE  IInv'
<1>. DEFINE r == [Idler EXCEPT !.pc = "scan", !.seen = seen, !.cursor = next[c]]
<1>0. /\ c \in Unheld /\ c \in live
      /\ \A g \in Forwarders : fwd[g].conn # c
  BY DEF Sound, Unheld, Holders
<1>1. /\ next[c] \in Connections \cup {None, Dangling}
      /\ next[c] # c
      /\ Sound(next[c])
  BY DEF IInv, Typed, Pointers
<1>2. r \in Locals /\ r.pc = "scan" /\ r.conn = None /\ r.cursor = next[c]
  BY <1>1, LocalsTyped DEF Idler
<1>3. TakeOut(f, r, c)
  BY DEF ScanTimedOut
<1>. HIDE DEF r
<1>4. /\ fwd' \in [Forwarders -> Locals]
      /\ fwd'[f] = r
      /\ \A g \in Forwarders \ {f} : /\ fwd'[g].pc = fwd[g].pc
                                     /\ fwd'[g].conn = fwd[g].conn
                                     /\ fwd'[g].cursor = Freed(fwd[g].cursor, c)
  BY <1>0, <1>2, <1>3, NodeTaken
<1>5. /\ fwd[f].conn = None
      /\ \A g \in Forwarders : fwd'[g].conn = fwd[g].conn
  BY <1>2, <1>4 DEF IInv, Holding, Shape
<1>6. Unheld' = Unheld \ {c} /\ Busy' = Busy /\ Connecting' = Connecting
  BY <1>2, <1>4, <1>5 DEF ScanTimedOut, Unheld, Busy, Connecting, Holders
<1>7. /\ Cardinality(Unheld') = Cardinality(Unheld) - 1 /\ Cardinality(Unheld) \in Nat \ {0}
      /\ Cardinality(live') = Cardinality(live) - 1 /\ Cardinality(live) \in Nat \ {0}
  <2>1. IsFiniteSet(Unheld) /\ IsFiniteSet(live)
    BY Finite DEF IInv, Typed, Unheld
  <2>2. live' = live \ {c}
    BY DEF ScanTimedOut
  <2>. QED BY <1>0, <1>6, <2>1, <2>2, OneFewer
<1>8. Cardinality(Connecting) \in Nat
  BY Finite DEF Connecting
<1>9. /\ idle_count' = idle_count - 1
      /\ total_count' = total_count - 1
      /\ UNCHANGED <<pool, active_count>>
  BY DEF ScanTimedOut
<1>10. Counts'
  BY <1>6, <1>7, <1>8, <1>9 DEF IInv, Counts, Sizes
<1>11. Typed'
  <2>1. idle_count' \in Nat /\ total_count' \in Nat
    BY <1>7, <1>8, <1>9 DEF IInv, Counts
  <2>2. /\ idle_list' \in Connections \cup {None, Dangling}
        /\ next' \in [Connections -> Connections \cup {None, Dangling}]
        /\ old' \in SUBSET Connections
    BY <1>0, <1>2, <1>3, NodeTaken
  <2>. QED BY <1>4, <2>1, <2>2 DEF IInv, Typed, ScanTimedOut
<1>12. Pointers'
  BY <1>0, <1>1, <1>2, <1>3, <1>6, <1>11, NodeGone
<1>13. Holding'
  <2>1. \A g \in Forwarders : Shape(fwd[g])'
    <3>1. Shape(r)
      BY <1>2 DEF Shape
    <3>2. ASSUME NEW g \in Forwarders \ {f}
          PROVE  Shape(fwd[g])'
      <4>1. fwd[g].cursor = None => Freed(fwd[g].cursor, c) = None
        BY NotConnections DEF Freed
      <4>2. Shape(fwd[g])
        BY DEF IInv, Holding
      <4>. QED BY <1>4, <3>2, <4>1, <4>2 DEF Shape
    <3>. QED BY <1>4, <3>1, <3>2 DEF Shape
  <2>2. \A g \in Forwarders : fwd'[g].conn \in live' \cup {None}
    BY <1>0, <1>5 DEF ScanTimedOut, IInv, Holding
  <2>. QED BY <1>5, <2>1, <2>2 DEF IInv, Holding
<1>. QED BY <1>10, <1>11, <1>12, <1>13 DEF IInv

\* The walk over the idle list hands a connection to the forwarder.
LEMMA TakesKeeps ==
    ASSUME Sizes, IInv, NEW f \in Forwarders, NEW c \in Connections,
           NEW seen \in SUBSET Connections, Sound(c),
           fwd[f].pc \in {"out", "woken", "scan"}, pool = "open", ScanTakes(f, c, seen)
    PROVE  IInv'
<1>. DEFINE r == [Idler EXCEPT !.pc = "use", !.conn = c]
<1>0. /\ c \in Unheld /\ c \in live
      /\ \A g \in Forwarders : fwd[g].conn # c
      /\ None \notin Connections
  BY NotConnections DEF Sound, Unheld, Holders
<1>2. r \in Locals /\ r.pc = "use" /\ r.conn = c /\ r.cursor = None
  BY LocalsTyped DEF Idler
<1>3. TakeOut(f, r, c)
  BY DEF ScanTakes
<1>. HIDE DEF r
<1>4. /\ fwd' \in [Forwarders -> Locals]
      /\ fwd'[f] = r
      /\ \A g \in Forwarders \ {f} : /\ fwd'[g].pc = fwd[g].pc
                                     /\ fwd'[g].conn = fwd[g].conn
                                     /\ fwd'[g].cursor = Freed(fwd[g].cursor, c)
  BY <1>0, <1>2, <1>3, NodeTaken
<1>5. fwd[f].conn = None
  BY DEF IInv, Holding, Shape
<1>6. Unheld' = Unheld \ {c} /\ Busy' = Busy \cup {f} /\ Connecting' = Connecting /\ f \notin Busy
  <2>1. live' = live
    BY DEF ScanTakes
  <2>2. Unheld' = Unheld \ {c}
    BY <1>0, <1>2, <1>4, <1>5, <2>1 DEF Unheld, Holders, IInv, Typed
  <2>3. Busy' = Busy \cup {f} /\ f \notin Busy
    BY <1>0, <1>2, <1>4, <1>5 DEF Busy
  <2>4. Connecting' = Connecting
    BY <1>2, <1>4 DEF Connecting
  <2>. QED BY <2>2, <2>3, <2>4
<1>7. /\ Cardinality(Unheld') = Cardinality(Unheld) - 1 /\ Cardinality(Unheld) \in Nat \ {0}
      /\ Cardinality(Busy') = Cardinality(Busy) + 1
  <2>1. IsFiniteSet(Unheld) /\ IsFiniteSet(Busy)
    BY Finite DEF IInv, Typed, Unheld, Busy
  <2>. QED BY <1>0, <1>6, <2>1, OneFewer, OneMore
<1>9. /\ idle_count' = idle_count - 1
      /\ active_count' = active_count + 1
      /\ UNCHANGED <<pool, total_count, live>>
  BY DEF ScanTakes
<1>10. Counts'
  BY <1>6, <1>7, <1>9 DEF IInv, Counts
<1>11. Typed'
  <2>1. idle_count' \in Nat /\ active_count' \in Nat
    BY <1>7, <1>9 DEF IInv, Counts, Typed
  <2>2. /\ idle_list' \in Connections \cup {None, Dangling}
        /\ next' \in [Connections -> Connections \cup {None, Dangling}]
        /\ old' \in SUBSET Connections
    BY <1>0, <1>2, <1>3, NodeTaken
  <2>. QED BY <1>4, <1>9, <2>1, <2>2 DEF IInv, Typed
<1>12. Pointers'
  <2>1. Sound(r.cursor) /\ r.cursor # c
    BY <1>0, <1>2 DEF Sound
  <2>. QED BY <1>0, <1>2, <1>3, <1>6, <1>11, <2>1, NodeGone
<1>13. Holding'
  <2>1. \A g \in Forwarders : Shape(fwd[g])'
    <3>1. Shape(r)
      BY <1>0, <1>2 DEF Shape
    <3>2. ASSUME NEW g \in Forwarders \ {f}
          PROVE  Shape(fwd[g])'
      <4>1. fwd[g].cursor = None => Freed(fwd[g].cursor, c) = None
        BY <1>0 DEF Freed
      <4>2. Shape(fwd[g])
        BY DEF IInv, Holding
      <4>. QED BY <1>4, <3>2, <4>1, <4>2 DEF Shape
    <3>. QED BY <1>4, <3>1, <3>2 DEF Shape
  <2>2. \A g \in Forwarders : fwd'[g].conn \in live' \cup {None}
    BY <1>0, <1>2, <1>4, <1>9 DEF IInv, Holding
  <2>3. \A g, h \in Forwarders : fwd'[g].conn = fwd'[h].conn /\ fwd'[g].conn # None => g = h
    BY <1>0, <1>2, <1>4 DEF IInv, Holding
  <2>. QED BY <2>1, <2>2, <2>3 DEF Holding
<1>. QED BY <1>10, <1>11, <1>12, <1>13 DEF IInv

\* The end of the walk.
LEMMA EndsKeeps ==
    ASSUME Sizes, IInv, NEW f \in Forwarders, NEW p,
           fwd[f].pc \in {"out", "woken", "scan"}, pool = "open", ScanEnds(f, p)
    PROVE  IInv'
<1>1. fwd[f].conn = None /\ total_count \in Nat /\ total_count <= MaxConnections
  BY DEF IInv, Holding, Shape, Typed, Counts
<1>2. UNCHANGED <<pool, idle_list, next, old, live, idle_count, active_count>>
  BY DEF ScanEnds, list
<1>3. \A q \in {"connect", "wait"} :
         LET r == [Idler EXCEPT !.pc = q]
         IN  r \in Locals /\ r.conn = None /\ r.cursor = None /\ Shape(r) /\ r.pc = q
  BY LocalsTyped DEF Idler, Shape, States
<1>4. CASE total_count < MaxConnections
  <2>1. /\ total_count' = total_count + 1
        /\ fwd' = [fwd EXCEPT ![f] = [Idler EXCEPT !.pc = "connect"]]
    BY <1>4 DEF ScanEnds
  <2>2. total_count' \in Nat /\ total_count' <= MaxConnections
    BY <1>1, <1>4, <2>1 DEF Sizes
  <2>. QED BY <1>1, <1>2, <1>3, <2>1, <2>2, StepMovesNothing
<1>5. CASE ~(total_count < MaxConnections)
  <2>1. /\ total_count' = total_count
        /\ fwd' = [fwd EXCEPT ![f] = [Idler EXCEPT !.pc = "wait"]]
    BY <1>5 DEF ScanEnds
  <2>. QED BY <1>1, <1>2, <1>3, <2>1, StepMovesNothing
<1>. QED BY <1>4, <1>5

\* A new connection is handed to the forwarder that made it.
LEMMA ConnectedKeeps ==
    ASSUME Sizes, IInv, NEW f \in Forwarders, Connected(f)
    PROVE  IInv'
<1>1. PICK c \in Connections \ live : c = NewConnection
  BY NewIsNew DEF Connected
<1>2. PICK q \in Locals : /\ q = [Idler EXCEPT !.pc = "use", !.conn = c]
                          /\ q.pc = "use" /\ q.conn = c /\ q.cursor = None
  BY LocalsTyped DEF Idler
<1>3. /\ fwd[f].pc = "connect"
      /\ live' = live \cup {c}
      /\ fwd' = [fwd EXCEPT ![f] = q]
      /\ active_count' = active_count + 1
      /\ UNCHANGED <<pool, idle_list, next, old, idle_count, total_count>>
  BY <1>1, <1>2 DEF Connected, list
<1>4. /\ fwd \in [Forwarders -> Locals]
      /\ None \notin Connections
      /\ pool = "open"
      /\ fwd[f].conn = None
      /\ \A g \in Forwarders : fwd[g].conn # c
  BY <1>1, <1>3, NotConnections DEF IInv, Typed, Counts, Holding, Shape
<1>5. /\ fwd' \in [Forwarders -> Locals]
      /\ fwd'[f] = q
      /\ \A g \in Forwarders \ {f} : fwd'[g] = fwd[g]
  BY <1>3, <1>4
<1>6. Unheld' = Unheld
  BY <1>2, <1>3, <1>4, <1>5 DEF Unheld, Holders, IInv, Typed
<1>7. Busy' = Busy \cup {f} /\ f \notin Busy
  <2>1. c # None /\ fwd'[f].conn = c /\ fwd[f].conn = None
    BY <1>1, <1>2, <1>4, <1>5
  <2>2. \A g \in Forwarders \ {f} : fwd'[g].conn = fwd[g].conn
    BY <1>5
  <2>. QED BY <2>1, <2>2 DEF Busy
<1>8. Connecting' = Connecting \ {f} /\ f \in Connecting
  BY <1>2, <1>3, <1>5 DEF Connecting
<1>9. /\ Cardinality(live') = Cardinality(live) + 1 /\ Cardinality(live) \in Nat
      /\ Cardinality(Busy') = Cardinality(Busy) + 1
      /\ Cardinality(Connecting') = Cardinality(Connecting) - 1
      /\ Cardinality(Connecting) \in Nat
  <2>1. /\ IsFiniteSet(live) /\ Cardinality(live) \in Nat
        /\ IsFiniteSet(Busy)
        /\ IsFiniteSet(Connecting) /\ Cardinality(Connecting) \in Nat
    BY Finite DEF IInv, Typed, Busy, Connecting
  <2>. QED BY <1>1, <1>3, <1>7, <1>8, <2>1, OneMore, OneFewer
<1>10. Typed'
  <2>1. live' \in SUBSET Connections
    BY <1>1, <1>3 DEF IInv, Typed
  <2>2. active_count' \in Nat
    BY <1>3 DEF IInv, Typed
  <2>. QED BY <1>3, <1>5, <2>1, <2>2 DEF IInv, Typed
<1>11. Pointers'
  <2>1. \A g \in Forwarders : Sound(fwd[g].cursor)'
    <3>1. \A g \in Forwarders : fwd'[g].cursor = None \/ fwd'[g].cursor = fwd[g].cursor
      BY <1>2, <1>5
    <3>2. \A g \in Forwarders : Sound(fwd[g].cursor)
      BY DEF IInv, Pointers
    <3>. QED BY <1>4, <1>6, <3>1, <3>2 DEF Sound
  <2>2. Sound(idle_list)' /\ \A d \in Connections : Sound(next[d])' /\ next'[d] # d
    BY <1>3, <1>6 DEF Sound, IInv, Pointers
  <2>. QED BY <2>1, <2>2 DEF Pointers
<1>12. Holding'
  <2>1. Shape(q)
    BY <1>1, <1>2, <1>4 DEF Shape
  <2>2. \A g \in Forwarders : Shape(fwd[g])'
    BY <1>5, <2>1 DEF Shape, IInv, Holding
  <2>3. \A g \in Forwarders : fwd'[g].conn \in live' \cup {None}
    BY <1>2, <1>3, <1>5 DEF IInv, Holding
  <2>4. \A g, h \in Forwarders : fwd'[g].conn = fwd'[h].conn /\ fwd'[g].conn # None => g = h
    <3>1. fwd'[f].conn = c
      BY <1>2, <1>5
    <3>2. \A g \in Forwarders \ {f} : fwd'[g].conn = fwd[g].conn /\ fwd'[g].conn # c
      BY <1>4, <1>5
    <3>. QED BY <3>1, <3>2 DEF IInv, Holding
  <2>. QED BY <2>2, <2>3, <2>4 DEF Holding
<1>13. Counts'
  <2>1. total_count' = Cardinality(live') + Cardinality(Connecting')
    BY <1>3, <1>4, <1>9 DEF IInv, Counts
  <2>. QED BY <1>3, <1>4, <1>6, <1>9, <2>1 DEF IInv, Counts
<1>. QED BY <1>10, <1>11, <1>12, <1>13 DEF IInv

\* The steps that only move a forwarder on.
LEMMA MovesOnKeeps ==
    ASSUME Sizes, IInv, NEW f \in Forwarders,
           \/ ConnectFailed(f)
           \/ SecondUnlock(f)
           \/ SpuriousWakeup(f)
           \/ ReleaseBegin(f)
    PROVE  IInv'
<1>0. /\ fwd \in [Forwarders -> Locals]
      /\ fwd[f].pc # "out"
      /\ fwd[f].cursor = None
  BY DEF IInv, Typed, Holding, Shape, ConnectFailed, SecondUnlock, SpuriousWakeup,
         ReleaseBegin
<1>1. pool = "open" /\ total_count \in Nat /\ total_count <= MaxConnections
  BY <1>0 DEF IInv, Counts, Typed
<1>2. UNCHANGED <<pool, idle_list, next, old, live, idle_count, active_count>>
  BY DEF ConnectFailed, SecondUnlock, SpuriousWakeup, ReleaseBegin, list, counts
<1>3. \A p \in States : LET r == [fwd[f] EXCEPT !.pc = p]
                        IN  /\ r \in Locals
                            /\ r.pc = p /\ r.conn = fwd[f].conn /\ r.cursor = None
                            /\ [fwd EXCEPT ![f].pc = p] = [fwd EXCEPT ![f] = r]
  BY <1>0 DEF Locals
<1>4. CASE ConnectFailed(f)
  <2>1. /\ fwd[f].pc = "connect"
        /\ total_count' = total_count - 1
        /\ fwd' = [fwd EXCEPT ![f].pc = "unlock"]
    BY <1>4 DEF ConnectFailed
  <2>2. total_count' \in Nat /\ total_count' <= MaxConnections
    <3>1. f \in Connecting /\ Connecting \in SUBSET Forwarders
      BY <2>1 DEF Connecting
    <3>2. Cardinality(Connecting) \in Nat \ {0} /\ Cardinality(live) \in Nat
      BY <3>1, Finite, OneFewer DEF IInv, Typed
    <3>. QED BY <1>1, <2>1, <3>2 DEF IInv, Counts, Sizes
  <2>3. PICK r \in Locals : /\ r.pc = "unlock" /\ r.conn = fwd[f].conn /\ r.cursor = None
                            /\ fwd' = [fwd EXCEPT ![f] = r]
    BY <1>3, <2>1 DEF States
  <2>4. Shape(r)
    BY <2>1, <2>3 DEF Shape, IInv, Holding
  <2>. QED BY <1>1, <1>2, <2>1, <2>2, <2>3, <2>4, StepMovesNothing
<1>5. CASE SecondUnlock(f)
  <2>1. /\ fwd[f].pc = "unlock"
        /\ fwd' = [fwd EXCEPT ![f] = Idler]
        /\ total_count' = total_count
    BY <1>5 DEF SecondUnlock, counts
  <2>2. /\ fwd[f].conn = None
        /\ Idler \in Locals /\ Idler.conn = None /\ Idler.cursor = None /\ Idler.pc = "out"
        /\ Shape(Idler)
    BY <2>1, LocalsTyped DEF Shape, IInv, Holding, Idler
  <2>. QED BY <1>1, <1>2, <2>1, <2>2, StepMovesNothing
<1>6. CASE SpuriousWakeup(f)
  <2>1. /\ fwd[f].pc = "wait"
        /\ fwd' = [fwd EXCEPT ![f].pc = "woken"]
        /\ total_count' = total_count
    BY <1>6 DEF SpuriousWakeup, counts
  <2>3. PICK r \in Locals : /\ r.pc = "woken" /\ r.conn = fwd[f].conn /\ r.cursor = None
                            /\ fwd' = [fwd EXCEPT ![f] = r]
    BY <1>3, <2>1 DEF States
  <2>4. Shape(r)
    BY <2>1, <2>3 DEF Shape, IInv, Holding
  <2>. QED BY <1>1, <1>2, <2>1, <2>3, <2>4, StepMovesNothing
<1>7. CASE ReleaseBegin(f)
  <2>1. /\ fwd[f].pc = "use"
        /\ fwd' = [fwd EXCEPT ![f].pc = "check"]
        /\ total_count' = total_count
    BY <1>7 DEF ReleaseBegin, counts
  <2>3. PICK r \in Locals : /\ r.pc = "check" /\ r.conn = fwd[f].conn /\ r.cursor = None
                            /\ fwd' = [fwd EXCEPT ![f] = r]
    BY <1>3, <2>1 DEF States
  <2>4. Shape(r)
    BY <2>1, <2>3 DEF Shape, IInv, Holding
  <2>. QED BY <1>1, <1>2, <2>1, <2>3, <2>4, StepMovesNothing
<1>. QED BY <1>4, <1>5, <1>6, <1>7

-----------------------------------------------------------------------------
\* A connection that is released and destroyed was held by this forwarder alone.
LEMMA DestroysKeeps ==
    ASSUME Sizes, IInv, NEW f \in Forwarders, fwd[f].pc \in {"use", "check"},
           ReleaseDestroys(f)
    PROVE  IInv'
<1>0. /\ fwd \in [Forwarders -> Locals]
      /\ None \notin Connections
      /\ pool = "open"
      /\ fwd[f].conn # None
      /\ fwd[f].conn \in live
      /\ live \in SUBSET Connections
  BY NotConnections DEF IInv, Typed, Counts, Holding, Shape
<1>1. PICK c \in live : c = fwd[f].conn
  BY <1>0
<1>2. /\ Idler \in Locals /\ Idler.conn = None /\ Idler.cursor = None /\ Idler.pc = "out"
      /\ Shape(Idler)
  BY LocalsTyped DEF Idler, Shape
<1>3. /\ fwd' \in [Forwarders -> Locals]
      /\ fwd'[f] = Idler
      /\ \A g \in Forwarders \ {f} : fwd'[g] = fwd[g] /\ fwd[g].conn # c
      /\ live' = live \ {c}
      /\ UNCHANGED <<pool, idle_list, next, old, idle_count>>
  <2>1. \A g \in Forwarders \ {f} : fwd[g].conn # c
    BY <1>0, <1>1 DEF IInv, Holding
  <2>. QED BY <1>0, <1>1, <1>2, <2>1 DEF ReleaseDestroys, list
<1>4. Unheld' = Unheld
  <2>1. c \notin Unheld
    BY <1>1 DEF Unheld, Holders
  <2>2. \A d \in live' : (Holders(d)' = {}) = (Holders(d) = {})
    BY <1>0, <1>1, <1>2, <1>3 DEF Holders
  <2>. QED BY <1>3, <2>1, <2>2 DEF Unheld
<1>5. Busy' = Busy \ {f} /\ f \in Busy
  BY <1>0, <1>2, <1>3 DEF Busy
<1>6. Connecting' = Connecting
  BY <1>2, <1>3 DEF Connecting
<1>7. /\ Cardinality(live') = Cardinality(live) - 1 /\ Cardinality(live) \in Nat \ {0}
      /\ Cardinality(Busy') = Cardinality(Busy) - 1 /\ Cardinality(Busy) \in Nat \ {0}
      /\ Cardinality(Connecting) \in Nat
  <2>1. /\ IsFiniteSet(live)
        /\ IsFiniteSet(Busy)
        /\ Cardinality(Connecting) \in Nat
    BY Finite DEF IInv, Typed, Busy, Connecting
  <2>. QED BY <1>1, <1>3, <1>5, <2>1, OneFewer
<1>8. /\ active_count' = active_count - 1 /\ active_count' \in Nat
      /\ total_count' = total_count - 1 /\ total_count' \in Nat
  <2>1. active_count = Cardinality(Busy) /\ total_count = Cardinality(live) + Cardinality(Connecting)
    BY <1>0 DEF IInv, Counts
  <2>2. active_count > 0 /\ total_count > 0 /\ active_count \in Nat /\ total_count \in Nat
    BY <1>7, <2>1
  <2>. QED BY <2>2 DEF ReleaseDestroys
<1>9. Typed'
  BY <1>0, <1>3, <1>8 DEF IInv, Typed
<1>10. Pointers'
  <2>1. \A g \in Forwarders : Sound(fwd[g].cursor)'
    BY <1>0, <1>2, <1>3, <1>4 DEF Sound, IInv, Pointers
  <2>2. Sound(idle_list)' /\ \A d \in Connections : Sound(next[d])' /\ next'[d] # d
    BY <1>3, <1>4 DEF Sound, IInv, Pointers
  <2>. QED BY <2>1, <2>2 DEF Pointers
<1>11. Holding'
  <2>1. \A g \in Forwarders : Shape(fwd[g])'
    BY <1>2, <1>3 DEF Shape, IInv, Holding
  <2>2. \A g \in Forwarders : fwd'[g].conn \in live' \cup {None}
    BY <1>2, <1>3 DEF IInv, Holding
  <2>3. \A g, h \in Forwarders : fwd'[g].conn = fwd'[h].conn /\ fwd'[g].conn # None => g = h
    <3>1. fwd'[f].conn = None /\ \A g \in Forwarders \ {f} : fwd'[g].conn = fwd[g].conn
      BY <1>2, <1>3
    <3>. QED BY <3>1 DEF IInv, Holding
  <2>. QED BY <2>1, <2>2, <2>3 DEF Holding
<1>12. Counts'
  <2>1. total_count' = Cardinality(live') + Cardinality(Connecting') /\ total_count' <= MaxConnections
    BY <1>0, <1>6, <1>7, <1>8 DEF IInv, Counts, Sizes
  <2>2. active_count' = Cardinality(Busy') /\ idle_count' = Cardinality(Unheld')
    BY <1>0, <1>3, <1>4, <1>7, <1>8 DEF IInv, Counts
  <2>. QED BY <1>0, <1>3, <2>1, <2>2 DEF Counts
<1>. QED BY <1>9, <1>10, <1>11, <1>12 DEF IInv

\* A connection that goes back to the list was held by this forwarder alone, and
\* no pointer led to it; the list leads to it now, and nobody holds it.
LEMMA KeepsKeeps ==
    ASSUME Sizes, IInv, NEW f \in Forwarders, fwd[f].pc \in {"use", "check"},
           ReleaseKeeps(f)
    PROVE  IInv'
<1>0. /\ fwd \in [Forwarders -> Locals]
      /\ None \notin Connections
      /\ pool = "open"
      /\ fwd[f].conn # None
      /\ fwd[f].conn \in live
      /\ live \in SUBSET Connections
      /\ next \in [Connections -> Connections \cup {None, Dangling}]
      /\ idle_list \in Connections \cup {None, Dangling}
  BY NotConnections DEF IInv, Typed, Counts, Holding, Shape
<1>1. PICK c \in live : c = fwd[f].conn
  BY <1>0
<1>2. /\ Idler \in Locals /\ Idler.conn = None /\ Idler.cursor = None /\ Idler.pc = "out"
      /\ Shape(Idler)
  BY LocalsTyped DEF Idler, Shape
<1>3. /\ idle_list' = c
      /\ next' = [next EXCEPT ![c] = idle_list]
      /\ idle_count' = idle_count + 1
      /\ UNCHANGED <<pool, old, total_count, live>>
  BY <1>1 DEF ReleaseKeeps
<1>4. /\ fwd' \in [Forwarders -> Locals]
      /\ fwd'[f] = Idler
      /\ \A g \in Forwarders \ {f} : /\ fwd'[g].conn = fwd[g].conn
                                     /\ fwd'[g].cursor = fwd[g].cursor
                                     /\ \/ fwd'[g].pc = fwd[g].pc
                                        \/ fwd[g].pc = "wait" /\ fwd'[g].pc = "woken"
  <2>. DEFINE left == [fwd EXCEPT ![f] = Idler]
  <2>1. /\ left \in [Forwarders -> Locals]
        /\ left[f] = Idler
        /\ \A g \in Forwarders \ {f} : left[g] = fwd[g]
    BY <1>0, <1>2
  <2>2. \/ fwd' = left
        \/ \E g \in Forwarders : fwd[g].pc = "wait" /\ fwd' = [left EXCEPT ![g].pc = "woken"]
    BY DEF ReleaseKeeps
  <2>. HIDE DEF left
  <2>3. CASE fwd' = left
    BY <2>1, <2>3
  <2>4. ASSUME NEW g \in Forwarders, fwd[g].pc = "wait", fwd' = [left EXCEPT ![g].pc = "woken"]
        PROVE  /\ fwd' \in [Forwarders -> Locals]
               /\ fwd'[f] = Idler
               /\ \A h \in Forwarders \ {f} : /\ fwd'[h].conn = fwd[h].conn
                                              /\ fwd'[h].cursor = fwd[h].cursor
                                              /\ \/ fwd'[h].pc = fwd[h].pc
                                                 \/ fwd[h].pc = "wait" /\ fwd'[h].pc = "woken"
    <3>1. g # f /\ left[g] = fwd[g]
      BY <2>1, <2>4
    <3>2. /\ [left[g] EXCEPT !.pc = "woken"] \in Locals
          /\ [left[g] EXCEPT !.pc = "woken"].conn = fwd[g].conn
          /\ [left[g] EXCEPT !.pc = "woken"].cursor = fwd[g].cursor
          /\ [left[g] EXCEPT !.pc = "woken"].pc = "woken"
      BY <1>0, <3>1 DEF Locals, States
    <3>3. fwd' = [left EXCEPT ![g] = [left[g] EXCEPT !.pc = "woken"]]
      BY <2>1, <2>4
    <3>. QED BY <2>1, <2>4, <3>1, <3>2, <3>3
  <2>. QED BY <2>2, <2>3, <2>4
<1>5. \A g \in Forwarders \ {f} : fwd[g].conn # c
  BY <1>0, <1>1 DEF IInv, Holding
<1>6. c \notin Unheld /\ Unheld' = Unheld \cup {c}
  <2>1. c \notin Unheld
    BY <1>1 DEF Unheld, Holders
  <2>2. Holders(c)' = {}
    BY <1>0, <1>1, <1>2, <1>4, <1>5 DEF Holders
  <2>3. \A d \in live \ {c} : (Holders(d)' = {}) = (Holders(d) = {})
    BY <1>0, <1>1, <1>2, <1>4 DEF Holders
  <2>. QED BY <1>1, <1>3, <2>1, <2>2, <2>3 DEF Unheld
<1>7. Busy' = Busy \ {f} /\ f \in Busy
  BY <1>0, <1>2, <1>4 DEF Busy
<1>8. Connecting' = Connecting
  BY <1>2, <1>4 DEF Connecting
<1>9. /\ Cardinality(Unheld') = Cardinality(Unheld) + 1
      /\ Cardinality(Busy') = Cardinality(Busy) - 1 /\ Cardinality(Busy) \in Nat \ {0}
  <2>1. IsFiniteSet(Unheld) /\ IsFiniteSet(Busy)
    BY Finite DEF IInv, Typed, Unheld, Busy
  <2>. QED BY <1>6, <1>7, <2>1, OneMore, OneFewer
<1>10. active_count' = active_count - 1 /\ active_count' \in Nat
  <2>1. active_count = Cardinality(Busy)
    BY <1>0 DEF IInv, Counts
  <2>2. active_count > 0 /\ active_count \in Nat
    BY <1>9, <2>1
  <2>. QED BY <2>2 DEF ReleaseKeeps
<1>11. Typed'
  <2>1. idle_count' \in Nat
    BY <1>3 DEF IInv, Typed
  <2>2. /\ next' \in [Connections -> Connections \cup {None, Dangling}]
        /\ idle_list' \in Connections \cup {None, Dangling}
    BY <1>0, <1>3
  <2>. QED BY <1>3, <1>4, <1>10, <2>1, <2>2 DEF IInv, Typed
<1>12. Pointers'
  <2>1. \A p : Sound(p) => Sound(p)'
    BY <1>6 DEF Sound
  <2>2. \A g \in Forwarders : Sound(fwd[g].cursor)'
    BY <1>0, <1>2, <1>4, <1>6 DEF Sound, IInv, Pointers
  <2>3. Sound(idle_list)'
    BY <1>3, <1>6 DEF Sound
  <2>4. idle_list # c
    BY <1>0, <1>6 DEF IInv, Pointers, Sound
  <2>5. \A d \in Connections : next'[d] # d /\ Sound(next[d])'
    <3>1. next'[c] = idle_list /\ \A d \in Connections \ {c} : next'[d] = next[d]
      BY <1>0, <1>3
    <3>. QED BY <1>6, <2>4, <3>1 DEF IInv, Pointers, Sound
  <2>. QED BY <2>2, <2>3, <2>5 DEF Pointers
<1>13. Holding'
  <2>1. \A g \in Forwarders : Shape(fwd[g])'
    BY <1>2, <1>4 DEF Shape, IInv, Holding
  <2>2. fwd'[f].conn = None /\ \A g \in Forwarders \ {f} : fwd'[g].conn = fwd[g].conn
    BY <1>2, <1>4
  <2>3. \A g \in Forwarders : fwd'[g].conn \in live' \cup {None}
    BY <1>3, <2>2 DEF IInv, Holding
  <2>4. \A g, h \in Forwarders : fwd'[g].conn = fwd'[h].conn /\ fwd'[g].conn # None => g = h
    BY <2>2 DEF IInv, Holding
  <2>. QED BY <2>1, <2>3, <2>4 DEF Holding
<1>14. Counts'
  BY <1>0, <1>3, <1>8, <1>9, <1>10 DEF IInv, Counts
<1>. QED BY <1>11, <1>12, <1>13, <1>14 DEF IInv

-----------------------------------------------------------------------------
\* While nobody forwards a request nobody holds a connection.
LEMMA AllOut ==
    ASSUME Sizes, IInv, \A f \in Forwarders : fwd[f].pc = "out"
    PROVE  /\ \A f \in Forwarders : fwd[f].conn = None /\ fwd[f].cursor = None
           /\ Busy = {} /\ Connecting = {}
           /\ Unheld = live
<1>1. \A f \in Forwarders : fwd[f].conn = None /\ fwd[f].cursor = None
  BY DEF IInv, Holding, Shape
<1>2. None \notin live
  BY NotConnections DEF IInv, Typed
<1>. QED BY <1>1, <1>2 DEF Busy, Connecting, Unheld, Holders

\* The pool with its first connections.
LEMMA CreateKeeps == ASSUME Sizes, IInv, Create PROVE IInv'
<1>1. PICK n \in 0 .. MinConnections :
         /\ live' = 1 .. n
         /\ idle_list' = n
         /\ next' = [c \in Connections |-> IF c <= n THEN c - 1 ELSE None]
         /\ idle_count' = n
         /\ total_count' = n
  BY DEF Create
<1>2. /\ pool = "absent" /\ pool' = "open"
      /\ UNCHANGED <<old, active_count, fwd>>
      /\ \A f \in Forwarders : fwd[f].pc = "out"
  BY DEF Create, IInv, Counts
<1>3. n \in Nat /\ n <= MaxConnections
  BY <1>1 DEF Sizes
<1>4. /\ live' \in SUBSET Connections
      /\ \A c \in Connections : /\ next'[c] \in Connections \cup {None}
                                /\ next'[c] # c
                                /\ next'[c] \in Connections => next'[c] \in live'
      /\ idle_list' \in Connections \cup {None}
      /\ idle_list' \in Connections => idle_list' \in live'
  BY <1>1, <1>3 DEF Connections, None, Sizes
<1>5. Typed'
  <2>1. next' \in [Connections -> Connections \cup {None, Dangling}]
    BY <1>1, <1>4
  <2>. QED BY <1>1, <1>2, <1>3, <1>4, <2>1 DEF IInv, Typed
<1>6. /\ \A f \in Forwarders : fwd[f].conn = None /\ fwd[f].cursor = None
      /\ None \notin Connections
      /\ Busy = {} /\ Connecting = {}
  BY <1>2, AllOut, NotConnections
<1>7. Unheld' = live' /\ Busy' = {} /\ Connecting' = {}
  BY <1>2, <1>4, <1>6 DEF Unheld, Holders, Busy, Connecting
<1>8. Pointers'
  BY <1>2, <1>4, <1>6, <1>7 DEF Pointers, Sound
<1>9. Holding'
  BY <1>2, <1>6 DEF Holding, IInv
<1>10. Counts'
  <2>1. Cardinality(live') = n
    BY <1>1, <1>3, FS_Interval
  <2>2. Cardinality({}) = 0
    BY FS_EmptySet
  <2>3. active_count = 0
    BY DEF IInv, Counts, Create
  <2>. QED BY <1>1, <1>2, <1>3, <1>7, <2>1, <2>2, <2>3 DEF Counts
<1>. QED BY <1>5, <1>8, <1>9, <1>10 DEF IInv

\* The pool is destroyed when nobody forwards a request.
LEMMA DestroyKeeps == ASSUME Sizes, IInv, Destroy PROVE IInv'
<1>1. /\ pool' = "freed"
      /\ live' \in SUBSET live
      /\ idle_list' = None
      /\ next' = [c \in Connections |-> None]
      /\ old' = {}
      /\ idle_count' = 0 /\ active_count' = 0 /\ total_count' = 0
      /\ fwd' = fwd
      /\ \A f \in Forwarders : fwd[f].pc = "out"
  BY DEF Destroy
<1>2. /\ \A f \in Forwarders : fwd[f].conn = None /\ fwd[f].cursor = None
      /\ None \notin Connections
  BY <1>1, AllOut, NotConnections
<1>3. Typed'
  BY <1>1 DEF IInv, Typed
<1>4. Pointers'
  BY <1>1, <1>2 DEF Pointers, Sound
<1>5. Holding'
  BY <1>1, <1>2 DEF Holding, IInv
<1>6. Counts'
  BY <1>1 DEF Counts
<1>. QED BY <1>3, <1>4, <1>5, <1>6 DEF IInv

\* Steps that change nothing the invariant looks at but old.
LEMMA UnseenKeeps ==
    ASSUME IInv, old' \in SUBSET Connections,
           UNCHANGED <<pool, idle_list, next, counts, live, fwd>>
    PROVE  IInv'
<1>1. Typed'
  BY DEF IInv, Typed, counts
<1>2. Unheld' = Unheld /\ Busy' = Busy /\ Connecting' = Connecting
  BY DEF Unheld, Busy, Connecting, Holders
<1>3. Pointers'
  BY <1>2 DEF IInv, Pointers, Sound
<1>4. Holding'
  BY DEF IInv, Holding, Shape
<1>5. Counts'
  BY <1>2 DEF IInv, Counts, counts
<1>. QED BY <1>1, <1>3, <1>4, <1>5 DEF IInv

\* gateway_pool_get_connection from the moment it has the lock to the moment it
\* gives it up.
LEMMA ScanKeeps ==
    ASSUME Sizes, IInv, NEW f \in Forwarders, GetBegin(f) \/ GetGoesOn(f)
    PROVE  IInv'
<1>1. fwd[f].pc \in {"out", "woken", "scan"} /\ pool = "open"
  BY DEF GetBegin, GetGoesOn, IInv, Counts
<1>2. fwd[f] \in Locals
  BY DEF IInv, Typed
<1>3. PICK p \in Connections \cup {None, Dangling}, t \in SUBSET Connections :
         Sound(p) /\ Scan(f, p, t)
  <2>1. fwd[f].cursor \in Connections \cup {None, Dangling} /\ fwd[f].seen \in SUBSET Connections
    BY <1>2 DEF Locals
  <2>2. CASE GetBegin(f)
    BY <2>2 DEF GetBegin, IInv, Typed, Pointers
  <2>3. CASE GetGoesOn(f)
    BY <2>1, <2>3 DEF GetGoesOn, IInv, Pointers
  <2>. QED BY <2>2, <2>3
<1>4. CASE ScanTimedOut(f, p, t)
  BY <1>1, <1>3, <1>4, TimedOutKeeps DEF ScanTimedOut
<1>5. CASE ScanTakes(f, p, t)
  BY <1>1, <1>3, <1>5, TakesKeeps DEF ScanTakes
<1>6. CASE ScanEnds(f, p)
  BY <1>1, <1>6, EndsKeeps
<1>7. CASE ScanDangles(p)
  BY <1>7, UnseenKeeps DEF ScanDangles, list, IInv, Typed
<1>. QED BY <1>3, <1>4, <1>5, <1>6, <1>7 DEF Scan

\* The invariant holds before the pool is created.
LEMMA InitIInv == ASSUME Sizes PROVE Init => IInv
<1>. SUFFICES ASSUME Init PROVE IInv
  OBVIOUS
<1>1. /\ \A f \in Forwarders : fwd[f].conn = None /\ fwd[f].cursor = None /\ fwd[f].pc = "out"
      /\ fwd \in [Forwarders -> Locals]
  BY LocalsTyped DEF Init, Idler
<1>2. Typed
  BY <1>1 DEF Init, Typed
<1>3. Pointers
  BY <1>1, NotConnections DEF Init, Pointers, Sound
<1>4. Holding
  BY <1>1 DEF Holding, Shape
<1>5. Counts
  BY <1>1 DEF Init, Counts
<1>. QED BY <1>2, <1>3, <1>4, <1>5 DEF IInv

\* Every step keeps the invariant.
LEMMA NextIInv == ASSUME Sizes PROVE IInv /\ [Next]_vars => IInv'
<1>. SUFFICES ASSUME IInv, [Next]_vars PROVE IInv'
  OBVIOUS
<1>1. CASE Create
  BY <1>1, CreateKeeps
<1>2. ASSUME NEW f \in Forwarders, Forwarder(f)
      PROVE  IInv'
  <2>1. CASE Release(f)
    <3>1. fwd[f].pc \in {"use", "check"} /\ (ReleaseKeeps(f) \/ ReleaseDestroys(f))
      BY <2>1 DEF Release
    <3>. QED BY <3>1, KeepsKeeps, DestroysKeeps
  <2>. QED BY <1>2, <2>1, ScanKeeps, ConnectedKeeps, MovesOnKeeps DEF Forwarder
<1>3. ASSUME NEW c \in Connections, Age(c)
      PROVE  IInv'
  BY <1>3, UnseenKeeps DEF Age, IInv, Typed
<1>4. CASE Destroy
  BY <1>4, DestroyKeeps
<1>5. CASE UNCHANGED vars
  BY <1>5, UnseenKeeps DEF vars, counts, IInv, Typed
<1>. QED BY <1>1, <1>2, <1>3, <1>4, <1>5 DEF Next

\* For any number of forwarders and of connections: no connection of the gateway's
\* pool is handed to two forwarders, or to one while a node of the idle list leads
\* to it, none is handed out that does not exist, total_count covers every connection
\* that exists or is being made and stays within max_connections, and active_count is
\* what the forwarders hold (gateway_pool_get_connection and _release_connection, as
\* long as no freed node was used and the lock was not given up twice).
THEOREM GatewayCorrect == ASSUME Sizes PROVE Spec => []GatewayExact
<1>1. IInv => GatewayExact
  <2>. SUFFICES ASSUME IInv PROVE GatewayExact
    OBVIOUS
  <2>1. ASSUME NEW c \in Connections
        PROVE  Cardinality(Holders(c)) <= 1
    <3>1. CASE Holders(c) = {}
      BY <3>1, FS_EmptySet
    <3>2. ASSUME NEW f \in Holders(c)
          PROVE  Cardinality(Holders(c)) <= 1
      <4>1. Holders(c) = {f}
        BY <3>2, NotConnections DEF Holders, IInv, Holding
      <4>2. Cardinality({f}) = 1
        BY FS_Singleton
      <4>. QED BY <4>1, <4>2
    <3>. QED BY <3>1, <3>2
  <2>2. \A c \in Pointed : c \in Unheld
    BY DEF Pointed, IInv, Pointers, Sound
  <2>3. \A c \in Pointed : Holders(c) = {} /\ c \in live
    BY <2>2 DEF Unheld
  <2>4. {fwd[f].conn : f \in Forwarders} \subseteq live \cup {None}
    BY DEF IInv, Holding
  <2>5. HeldOnce
    BY <2>1, <2>3, <2>4 DEF HeldOnce
  <2>6. CountsCoverAll
    BY DEF CountsCoverAll, IInv, Counts, Connecting, Busy
  <2>. QED BY <2>5, <2>6 DEF GatewayExact
<1>2. Init => IInv
  BY InitIInv
<1>3. IInv /\ [Next]_vars => IInv'
  BY NextIInv
<1>. QED BY <1>1, <1>2, <1>3, PTL DEF Spec
=============================================================================
