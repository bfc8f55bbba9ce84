---------------------------- MODULE WebSocketPool ----------------------------
(* The pool of WebSocket client connections                                    *)
(* (src/transport/mcp_websocket_connection_pool.c): users that get and release, *)
(* and the health check thread that closes idle connections and replaces        *)
(* invalid ones.  A transport is the address of its structure, which is used     *)
(* again once it is freed.                                                      *)
(*                                                                             *)
(* What is done with pool_mutex held is one action, except the round of the      *)
(* health check, which is one action for each entry.                            *)
EXTENDS Naturals, FiniteSets, FiniteSetsExt, FiniteSetTheorems, WellFoundedInduction, TLAPS

CONSTANTS Users,
          Addresses,            \* where transports may be; 0 is NULL
          min_connections, max_connections,
          Fails                 \* TRUE when connections may fail and be lost

VARIABLES connections,          \* the array
          total_connections, available_connections,
          live,                 \* the addresses that hold a transport
          user, checker,
          undefined             \* "no", or what the code did that C leaves undefined

vars == <<connections, total_connections, available_connections, live, user, checker, undefined>>

Indexes == 0 .. max_connections - 1
Blank == [transport |-> 0, state |-> "IDLE"]
NotInCall == [pc |-> "idle", transport |-> 0]
Sleeping == [pc |-> "sleeping", i |-> 0]

\* An entry of the array, and where a user is in its calls.
Entries == [transport : Addresses \cup {0}, state : {"IDLE", "IN_USE", "INVALID"}]
Calls == [pc : {"idle", "creating", "using"}, transport : Addresses \cup {0}]

TypeOK ==
    /\ connections \in [Indexes -> Entries]
    /\ total_connections \in 0 .. max_connections
    /\ available_connections \in Nat
    /\ live \subseteq Addresses
    /\ user \in [Users -> Calls]
    /\ checker \in [pc : {"sleeping", "scanning", "creating", "ended"}, i : 0 .. max_connections]
    /\ undefined \in {"no", "overrun", "double_free", "freed_other"}

\* mcp_ws_connection_pool_create: the connections that are made go to the index
\* of their turn, even after one that failed.
Init ==
    \E made \in SUBSET (0 .. min_connections - 1), at \in [Indexes -> Addresses] :
        /\ Fails \/ made = 0 .. min_connections - 1
        /\ \A i, j \in made : i # j => at[i] # at[j]
        /\ \A i \in Indexes \ made : at[i] = Min(Addresses)
        /\ connections = [i \in Indexes |-> IF i \in made THEN [Blank EXCEPT !.transport = at[i]] ELSE Blank]
        /\ total_connections = Cardinality(made)
        /\ available_connections = Cardinality(made)
        /\ live = {at[i] : i \in made}
        /\ user = [u \in Users |-> NotInCall]
        /\ checker = Sleeping
        /\ undefined = "no"

Visible == {i \in Indexes : i < total_connections}
Idle == {i \in Visible : connections[i].state = "IDLE" /\ connections[i].transport # 0}

\* pool_mutex is not held by the health check, and all is well so far.
Unlocked == checker.pc # "scanning" /\ undefined = "no"

Using == {u \in Users : user[u].pc = "using"}

\* mcp_transport_destroy of what the entry the check is at points to: destroyed
\* already, or by now the connection of another entry.
DestroyTransport(i) ==
    LET a == connections[i].transport
    IN  /\ live' = live \ {a}
        /\ undefined' = CASE a \notin live \cup {0} -> "double_free"
                          [] \E j \in Visible \ {i} : a # 0 /\ connections[j].transport = a -> "freed_other"
                          [] OTHER -> "no"

-----------------------------------------------------------------------------
(* Users *)

\* Mutant: the connection stays idle.
GetIdleKeeps(u) ==
    /\ Unlocked /\ user[u] = NotInCall /\ Idle # {}
    /\ user' = [user EXCEPT ![u] = [pc |-> "using", transport |-> connections[Min(Idle)].transport]]
    /\ UNCHANGED <<connections, total_connections, available_connections, live, checker, undefined>>

\* mcp_ws_connection_pool_get: the first idle connection.
GetIdle(u) ==
    /\ Unlocked /\ user[u] = NotInCall /\ Idle # {}
    /\ user' = [user EXCEPT ![u] = [pc |-> "using", transport |-> connections[Min(Idle)].transport]]
    /\ connections' = [connections EXCEPT ![Min(Idle)].state = "IN_USE"]
    /\ available_connections' = available_connections - 1
    /\ UNCHANGED <<total_connections, live, checker, undefined>>

\* None is idle and there is room: the lock is given up to connect.
GetCreates(u) ==
    /\ Unlocked /\ user[u] = NotInCall /\ Idle = {}
    /\ total_connections < max_connections
    /\ user' = [user EXCEPT ![u].pc = "creating"]
    /\ UNCHANGED <<connections, total_connections, available_connections, live, checker, undefined>>

\* The new connection is entered behind the others, whose number is not compared
\* with the maximum again.
GetCreated(u) ==
    /\ Unlocked /\ user[u].pc = "creating"
    /\ IF total_connections = max_connections
       THEN /\ undefined' = "overrun"
            /\ UNCHANGED <<connections, total_connections, live, user>>
       ELSE \E a \in Addresses \ live :
                /\ live' = live \cup {a}
                /\ user' = [user EXCEPT ![u] = [pc |-> "using", transport |-> a]]
                /\ connections' = [connections EXCEPT ![total_connections] =
                                       [transport |-> a, state |-> "IN_USE"]]
                /\ total_connections' = total_connections + 1
                /\ UNCHANGED undefined
    /\ UNCHANGED <<available_connections, checker>>

\* No connection could be made; the user waits and looks again, or gives up.
GetFails(u) ==
    /\ Fails /\ Unlocked /\ user[u].pc = "creating"
    /\ user' = [user EXCEPT ![u] = NotInCall]
    /\ UNCHANGED <<connections, total_connections, available_connections, live, checker, undefined>>

\* mcp_ws_connection_pool_release: the first entry with that address.
Release(u) ==
    LET at == {i \in Visible : connections[i].transport = user[u].transport}
    IN  /\ Unlocked /\ user[u].pc = "using"
        /\ user' = [user EXCEPT ![u] = NotInCall]
        /\ \/ /\ at = {}
              /\ UNCHANGED <<connections, available_connections>>
           \/ /\ at # {}
              /\ connections' = [connections EXCEPT ![Min(at)].state = "IDLE"]
              /\ available_connections' = available_connections + 1
           \/ /\ at # {} /\ Fails
              /\ connections' = [connections EXCEPT ![Min(at)].state = "INVALID"]
              /\ UNCHANGED available_connections
        /\ UNCHANGED <<total_connections, live, checker, undefined>>

-----------------------------------------------------------------------------
(* health_check_thread_func *)

CheckBegins ==
    /\ Unlocked /\ checker.pc = "sleeping"
    /\ checker' = [pc |-> "scanning", i |-> 0]
    /\ UNCHANGED <<connections, total_connections, available_connections, live, user, undefined>>

Scanning == undefined = "no" /\ checker.pc = "scanning" /\ checker.i < total_connections

\* The entry is in use, or idle for a short time or needed.
CheckSkips ==
    /\ Scanning
    /\ connections[checker.i].state # "INVALID"
    /\ checker' = [checker EXCEPT !.i = @ + 1]
    /\ UNCHANGED <<connections, total_connections, available_connections, live, user, undefined>>

\* An idle connection is closed and the rest of the array moves up.
CheckCloses ==
    /\ Scanning
    /\ connections[checker.i].state = "IDLE"
    /\ available_connections > min_connections
    /\ DestroyTransport(checker.i)
    /\ connections' = [i \in Indexes |-> IF i >= checker.i /\ i < total_connections - 1
                                         THEN connections[i + 1] ELSE connections[i]]
    /\ total_connections' = total_connections - 1
    /\ available_connections' = available_connections - 1
    /\ UNCHANGED <<user, checker>>

\* An invalid connection is destroyed and the lock given up to connect; its
\* address stays in the entry.
CheckDestroys ==
    /\ Scanning
    /\ connections[checker.i].state = "INVALID"
    /\ DestroyTransport(checker.i)
    /\ checker' = [checker EXCEPT !.pc = "creating"]
    /\ UNCHANGED <<connections, total_connections, available_connections, user>>

CheckReconnects ==
    /\ undefined = "no" /\ checker.pc = "creating"
    /\ checker' = [pc |-> "scanning", i |-> checker.i + 1]
    /\ \/ \E a \in Addresses \ live :
              /\ live' = live \cup {a}
              /\ connections' = [connections EXCEPT ![checker.i] = [transport |-> a, state |-> "IDLE"]]
              /\ available_connections' = available_connections + 1
       \/ UNCHANGED <<live, connections, available_connections>>
    /\ UNCHANGED <<total_connections, user, undefined>>

CheckEnds ==
    /\ undefined = "no" /\ checker.pc = "scanning" /\ checker.i >= total_connections
    /\ checker' = Sleeping
    /\ UNCHANGED <<connections, total_connections, available_connections, live, user, undefined>>

\* mcp_ws_connection_pool_destroy, after the last call of a user; the health check
\* thread is joined.
Destroy ==
    /\ Unlocked /\ checker.pc = "sleeping"
    /\ \A u \in Users : user[u] = NotInCall
    /\ LET gone == {connections[i].transport : i \in Visible} \ {0}
       IN  /\ live' = live \ gone
           /\ undefined' = IF gone \subseteq live THEN "no" ELSE "double_free"
    /\ checker' = [checker EXCEPT !.pc = "ended"]
    /\ connections' = [i \in Indexes |-> Blank]
    /\ total_connections' = 0 /\ available_connections' = 0
    /\ UNCHANGED user

Next ==
    /\ checker.pc # "ended"
    /\ \/ \E u \in Users : GetIdle(u) \/ GetCreates(u) \/ GetCreated(u) \/ GetFails(u) \/ Release(u)
       \/ CheckBegins \/ CheckSkips \/ CheckCloses \/ CheckDestroys \/ CheckReconnects \/ CheckEnds
       \/ Destroy

Spec == Init /\ [][Next]_vars

-----------------------------------------------------------------------------
\* No connection has two users, even with entries that keep the address of a
\* destroyed connection and addresses that are used again.
OneUserEach ==
    undefined = "no" =>
        \A u, v \in Using : u # v => user[u].transport # user[v].transport

\* While connections are always made and never lost, the counts are exact, a
\* connection in use is alive and the end leaves none alive; but two users who
\* connect at the same time may write past the array.
ReliableExact ==
    ~Fails /\ undefined = "no" =>
        /\ available_connections = Cardinality(Idle)
        /\ \A u \in Using : user[u].transport \in live
        /\ live = {connections[i].transport : i \in Visible}
        /\ Cardinality(live) = total_connections

\* Connections are lent to one user at a time and, when none fails, counted exactly.
LentOnce == OneUserEach /\ ReliableExact

\* Not so with two users.
NeverUndefined == undefined = "no"

-----------------------------------------------------------------------------
(* Proofs: LentOnce holds for any number of users, addresses and connections. *)
(* OneUserEach is not inductive: an address may be in several entries, so what *)
(* is needed is that the entries a search can return are not in use (IdleFree), *)
(* that every user has an entry that the health check will not overwrite       *)
(* (Backed), and what a release may do to the entry being replaced             *)
(* (Replacing).                                                                *)

\* What is assumed of the constants: 0 is NULL.
Sizes ==
    /\ 0 \notin Addresses
    /\ max_connections \in Nat
    /\ min_connections \in 0 .. max_connections
    /\ Fails \in BOOLEAN

\* The health check thread.
Rounds == [pc : {"sleeping", "scanning", "creating", "ended"}, i : Nat]

\* The types, with counts that are numbers.
Typed ==
    /\ connections \in [Indexes -> Entries]
    /\ total_connections \in 0 .. max_connections
    /\ available_connections \in Int
    /\ live \subseteq Addresses
    /\ user \in [Users -> Calls]
    /\ \A u \in Using : user[u].transport \in Addresses
    /\ checker \in Rounds

\* Idle entries have different transports.
IdleApart == \A i, j \in Idle : i # j => connections[i].transport # connections[j].transport

\* What is idle nobody uses.
IdleFree == \A i \in Idle, u \in Using : connections[i].transport # user[u].transport

\* No two users use one transport.
OneUser == \A u, v \in Using : u # v => user[u].transport # user[v].transport

\* What is idle exists.
IdleLive == \A i \in Idle : connections[i].transport \in live

\* The entry j stands for what u uses, and the health check is not replacing it.
Backs(j, u) ==
    /\ connections[j].state = "IN_USE"
    /\ connections[j].transport = user[u].transport
    /\ checker.pc = "creating" => j # checker.i

\* What is used exists and has an entry that says so.
Backed == \A u \in Using : user[u].transport \in live /\ \E j \in Visible : Backs(j, u)

\* While the health check connects without the lock, the entry it will write to is
\* invalid; or a release found the reused address there first, and then the entry of
\* the connection that is at that address now comes later.
Replacing ==
    checker.pc = "creating" =>
        /\ checker.i \in Visible
        /\ connections[checker.i].state # "INVALID" =>
               \E j \in Visible : /\ j > checker.i
                                  /\ connections[j].state = "IN_USE"
                                  /\ connections[j].transport = connections[checker.i].transport

\* What the entries and the users have to do with each other.
Lent == undefined = "no" => IdleApart /\ IdleFree /\ OneUser /\ IdleLive /\ Backed /\ Replacing

-----------------------------------------------------------------------------
\* A set of numbers that is not empty has a least one: the first match of a search.
LEMMA NaturalMin ==
    ASSUME NEW S, S \subseteq Nat, S # {}
    PROVE  Min(S) \in S /\ \A y \in S : Min(S) =< y
  <1> DEFINE R == OpToRel(<, Nat)
  <1>1. IsWellFoundedOn(R, Nat)
    BY NatLessThanWellFounded
  <1>2. \A x, y : <<x, y>> \in R <=> x \in Nat /\ y \in Nat /\ x < y
    BY DEF OpToRel
  <1> HIDE DEF R
  <1>3. PICK x \in S : \A y \in S : ~(<<y, x>> \in R)
    BY <1>1, WFMin
  <1>4. ASSUME NEW y \in S
        PROVE  x =< y
    <2>1. x \in Nat /\ y \in Nat /\ ~(<<y, x>> \in R)
      BY <1>3
    <2>2. ~(y < x)
      BY <1>2, <2>1
    <2>3. QED
      BY <2>1, <2>2
  <1>5. QED
    BY <1>4 DEF Min

\* The entries a search looks at.
LEMMA VisibleFacts ==
    ASSUME Sizes, Typed
    PROVE  /\ Visible \subseteq Indexes
           /\ Visible \subseteq Nat
           /\ Idle \subseteq Visible
           /\ \A i : i \in Visible <=> i \in Nat /\ i < total_connections
  BY DEF Sizes, Typed, Visible, Idle, Indexes

\* create: every transport that was made has one entry.
LEMMA Begins ==
    ASSUME Sizes, Init
    PROVE  Typed /\ Lent
  <1>1. PICK made \in SUBSET (0 .. min_connections - 1), at \in [Indexes -> Addresses] :
        /\ \A i, j \in made : i # j => at[i] # at[j]
        /\ connections = [i \in Indexes |-> IF i \in made THEN [Blank EXCEPT !.transport = at[i]]
                                            ELSE Blank]
        /\ total_connections = Cardinality(made)
        /\ available_connections = Cardinality(made)
        /\ live = {at[i] : i \in made}
        /\ user = [u \in Users |-> NotInCall]
        /\ checker = Sleeping
    BY DEF Init
  <1>2. IsFiniteSet(made) /\ Cardinality(made) \in 0 .. max_connections
    <2>1. IsFiniteSet(0 .. min_connections - 1)
          /\ Cardinality(0 .. min_connections - 1) = min_connections
      BY FS_Interval DEF Sizes
    <2>2. IsFiniteSet(made) /\ Cardinality(made) <= Cardinality(0 .. min_connections - 1)
      BY <2>1, FS_Subset
    <2>3. QED
      BY <2>1, <2>2, FS_CardinalityType DEF Sizes
  <1>3. made \subseteq Indexes
    BY DEF Sizes, Indexes
  <1>4. \A i \in Indexes : /\ connections[i].state = "IDLE"
                           /\ connections[i].transport = IF i \in made THEN at[i] ELSE 0
    BY <1>1 DEF Blank
  <1>5. connections \in [Indexes -> Entries]
    BY <1>1, <1>3 DEF Blank, Entries
  <1>6. Using = {}
    BY <1>1 DEF Using, NotInCall
  <1>7. Typed
    <2>1. user \in [Users -> Calls]
      BY <1>1 DEF NotInCall, Calls
    <2>2. checker \in Rounds
      BY <1>1 DEF Sleeping, Rounds
    <2>3. live \subseteq Addresses
      BY <1>1, <1>3
    <2>4. QED
      BY <1>1, <1>2, <1>5, <1>6, <2>1, <2>2, <2>3 DEF Typed
  <1>8. \A i \in Idle : i \in made /\ connections[i].transport = at[i]
    BY <1>4, <1>7, VisibleFacts DEF Idle
  <1>9. checker.pc # "creating"
    BY <1>1 DEF Sleeping
  <1>10. IdleApart
    BY <1>1, <1>8 DEF IdleApart
  <1>12. IdleLive
    <2>1. \A i \in made : at[i] \in live
      BY <1>1
    <2>2. QED
      BY <1>8, <2>1 DEF IdleLive
  <1>11. QED
    BY <1>6, <1>7, <1>9, <1>10, <1>12 DEF Lent, IdleFree, OneUser, Backed, Replacing

-----------------------------------------------------------------------------
\* An entry whose state is set keeps its transport, and no other entry changes.
LEMMA StateIsSet ==
    ASSUME Sizes, Typed, NEW m \in Visible, NEW s \in {"IDLE", "IN_USE", "INVALID"},
           connections' = [connections EXCEPT ![m].state = s],
           UNCHANGED total_connections
    PROVE  /\ connections' \in [Indexes -> Entries]
           /\ Visible' = Visible
           /\ \A i \in Visible : connections'[i].transport = connections[i].transport
           /\ \A i \in Visible : connections'[i].state = IF i = m THEN s ELSE connections[i].state
  <1>1. m \in Indexes /\ Visible \subseteq Indexes
    BY VisibleFacts
  <1>2. connections \in [Indexes -> Entries]
    BY DEF Typed
  <1>3. \A i \in Indexes : connections[i] \in Entries
    BY <1>2
  <1>4. [connections[m] EXCEPT !.state = s] \in Entries
    BY <1>1, <1>3 DEF Entries
  <1>5. connections' \in [Indexes -> Entries]
    BY <1>1, <1>2, <1>4
  <1>6. Visible' = Visible
    BY DEF Visible
  <1>7. \A i \in Visible : connections'[i].transport = connections[i].transport
    BY <1>1, <1>2, <1>3 DEF Entries
  <1>8. \A i \in Visible : connections'[i].state = IF i = m THEN s ELSE connections[i].state
    BY <1>1, <1>2, <1>3 DEF Entries
  <1>9. QED
    BY <1>5, <1>6, <1>7, <1>8

\* What a call of a user becomes.
LEMMA CallIsSet ==
    ASSUME Typed, NEW u \in Users, NEW e \in Calls,
           user' = [user EXCEPT ![u] = e],
           e.pc = "using" => e.transport \in Addresses
    PROVE  /\ user' \in [Users -> Calls]
           /\ user'[u] = e
           /\ \A v \in Users \ {u} : user'[v] = user[v]
           /\ \A v \in Using' : user'[v].transport \in Addresses
           /\ Using' = IF e.pc = "using" THEN Using \cup {u} ELSE Using \ {u}
  <1>1. /\ user' \in [Users -> Calls]
        /\ user'[u] = e
        /\ \A v \in Users \ {u} : user'[v] = user[v]
    BY DEF Typed
  <1>2. Using' = IF e.pc = "using" THEN Using \cup {u} ELSE Using \ {u}
    BY <1>1 DEF Using
  <1>3. \A v \in Using' : user'[v].transport \in Addresses
    BY <1>1 DEF Using, Typed
  <1>4. QED
    BY <1>1, <1>2, <1>3

\* get takes an idle entry: it had no user, and now it has one.
LEMMA GetIdleKept ==
    ASSUME Sizes, Typed, Lent, NEW u \in Users, GetIdle(u)
    PROVE  Typed' /\ Lent'
  <1> DEFINE s == Min(Idle)
  <1>0. PICK m : m = s
    OBVIOUS
  <1>1. m \in Idle
    BY <1>0, VisibleFacts, NaturalMin DEF GetIdle
  <1> HIDE DEF s
  <1> DEFINE e == [pc |-> "using", transport |-> connections[m].transport]
  <1>2. /\ undefined = "no"
        /\ user[u] = NotInCall
        /\ user' = [user EXCEPT ![u] = e]
        /\ connections' = [connections EXCEPT ![m].state = "IN_USE"]
        /\ available_connections' = available_connections - 1
        /\ UNCHANGED <<total_connections, live, checker, undefined>>
    BY <1>0 DEF GetIdle, Unlocked, s
  <1>3. /\ m \in Visible /\ m \in Indexes
        /\ connections[m].state = "IDLE"
        /\ connections[m].transport \in Addresses
    BY <1>1, VisibleFacts DEF Idle, Typed, Entries
  <1>4. e \in Calls /\ e.pc = "using" /\ e.transport = connections[m].transport
    BY <1>3 DEF Calls
  <1> HIDE DEF e
  <1>5. /\ connections' \in [Indexes -> Entries]
        /\ Visible' = Visible
        /\ \A i \in Visible : connections'[i].transport = connections[i].transport
        /\ \A i \in Visible : connections'[i].state = IF i = m THEN "IN_USE" ELSE connections[i].state
    BY <1>2, <1>3, StateIsSet
  <1>6. /\ user' \in [Users -> Calls]
        /\ user'[u].transport = connections[m].transport
        /\ \A v \in Users \ {u} : user'[v] = user[v]
        /\ \A v \in Using' : user'[v].transport \in Addresses
        /\ Using' = Using \cup {u}
    BY <1>2, <1>3, <1>4, CallIsSet
  <1>7. u \notin Using /\ Using \subseteq Users
    BY <1>2 DEF Using, NotInCall
  <1>8. Idle' = Idle \ {m}
    BY <1>5 DEF Idle
  <1>9. Typed'
    BY <1>2, <1>5, <1>6 DEF Typed
  <1>10. IdleApart /\ IdleFree /\ OneUser /\ IdleLive /\ Backed /\ Replacing
    BY <1>2 DEF Lent
  <1>11. Idle \subseteq Visible
    BY VisibleFacts
  <1>12. IdleApart'
    BY <1>5, <1>8, <1>10, <1>11 DEF IdleApart
  <1>13. IdleFree'
    BY <1>1, <1>5, <1>6, <1>7, <1>8, <1>10, <1>11 DEF IdleApart, IdleFree
  <1>14. OneUser'
    BY <1>1, <1>6, <1>7, <1>10 DEF OneUser, IdleFree
  <1>15. IdleLive'
    BY <1>2, <1>5, <1>8, <1>10, <1>11 DEF IdleLive
  <1>16. Replacing'
    BY <1>2, <1>3, <1>5, <1>10 DEF Replacing
  <1>17. ASSUME NEW v \in Using'
         PROVE  user'[v].transport \in live' /\ \E j \in Visible' : Backs(j, v)'
    <2>1. CASE v = u
      <3>1. user'[v].transport \in live'
        BY <1>1, <1>2, <1>6, <1>10, <2>1 DEF IdleLive
      <3>2. CASE checker.pc = "creating" /\ checker.i = m
        <4>1. PICK j \in Visible : /\ j > m
                                   /\ connections[j].state = "IN_USE"
                                   /\ connections[j].transport = connections[m].transport
          BY <1>3, <1>10, <3>2 DEF Replacing
        <4>2. j # m
          BY <1>3, <4>1
        <4>3. Backs(j, v)'
          BY <1>2, <1>5, <1>6, <2>1, <3>2, <4>1, <4>2 DEF Backs
        <4>4. QED
          BY <1>5, <3>1, <4>3
      <3>3. CASE ~(checker.pc = "creating" /\ checker.i = m)
        <4>1. Backs(m, v)'
          BY <1>2, <1>3, <1>5, <1>6, <2>1, <3>3 DEF Backs
        <4>2. QED
          BY <1>3, <1>5, <3>1, <4>1
      <3>4. QED
        BY <3>2, <3>3
    <2>2. CASE v # u
      <3>1. v \in Using /\ v \in Users \ {u}
        BY <1>6, <1>7, <2>2
      <3>2. PICK j \in Visible : user[v].transport \in live /\ Backs(j, v)
        BY <1>10, <3>1 DEF Backed
      <3>3. j # m
        BY <1>3, <3>2 DEF Backs
      <3>4. Backs(j, v)'
        BY <1>2, <1>5, <1>6, <3>1, <3>2, <3>3 DEF Backs
      <3>5. QED
        BY <1>2, <1>5, <1>6, <3>1, <3>2, <3>4
    <2>3. QED
      BY <2>1, <2>2
  <1>18. Backed'
    BY <1>17 DEF Backed
  <1>19. QED
    BY <1>9, <1>12, <1>13, <1>14, <1>15, <1>16, <1>18 DEF Lent

\* release sets the first entry with the user's address; it is idle only if nobody
\* else uses that address.
LEMMA ReleaseKept ==
    ASSUME Sizes, Typed, Lent, NEW u \in Users, Release(u)
    PROVE  Typed' /\ Lent'
  <1> DEFINE at == {i \in Visible : connections[i].transport = user[u].transport}
  <1>1. /\ undefined = "no" /\ u \in Using
        /\ user' = [user EXCEPT ![u] = NotInCall]
        /\ UNCHANGED <<total_connections, live, checker, undefined>>
    BY DEF Release, Unlocked, Using
  <1>2. NotInCall \in Calls /\ NotInCall.pc # "using"
    BY DEF NotInCall, Calls
  <1>3. /\ user' \in [Users -> Calls]
        /\ \A v \in Users \ {u} : user'[v] = user[v]
        /\ \A v \in Using' : user'[v].transport \in Addresses
        /\ Using' = Using \ {u}
    BY <1>1, <1>2, CallIsSet
  <1>4. IdleApart /\ IdleFree /\ OneUser /\ IdleLive /\ Backed /\ Replacing
    BY <1>1 DEF Lent
  <1>5. Using \subseteq Users /\ Idle \subseteq Visible /\ Visible \subseteq Nat
    BY VisibleFacts DEF Using
  <1>6. OneUser'
    BY <1>3, <1>4, <1>5 DEF OneUser
  <1>7. PICK b \in Visible : user[u].transport \in live /\ Backs(b, u)
    BY <1>1, <1>4 DEF Backed
  <1>8. b \in at
    BY <1>7 DEF Backs
  <1>9. PICK m : m = Min(at)
    OBVIOUS
  <1>10. m \in at /\ \A i \in at : m =< i
    BY <1>5, <1>8, <1>9, NaturalMin
  <1>11. m \in Visible /\ connections[m].transport = user[u].transport
    BY <1>10
  <1>12. PICK s \in {"IDLE", "INVALID"} :
           /\ connections' = [connections EXCEPT ![m].state = s]
           /\ available_connections' \in Int
    BY <1>8, <1>9 DEF Release, Typed
  <1>13. /\ connections' \in [Indexes -> Entries]
         /\ Visible' = Visible
         /\ \A i \in Visible : connections'[i].transport = connections[i].transport
         /\ \A i \in Visible : connections'[i].state = IF i = m THEN s ELSE connections[i].state
    <2>1. s \in {"IDLE", "IN_USE", "INVALID"} /\ UNCHANGED total_connections
      BY <1>1
    <2>2. QED
      BY <1>11, <1>12, <2>1, StateIsSet
  <1>14. Typed'
    BY <1>1, <1>3, <1>12, <1>13 DEF Typed
  <1>15. Idle' \subseteq Idle \cup {m}
    BY <1>13 DEF Idle
  <1>16. IdleApart'
    BY <1>1, <1>4, <1>5, <1>11, <1>13, <1>15 DEF IdleApart, IdleFree
  <1>17. IdleFree'
    BY <1>1, <1>3, <1>4, <1>5, <1>11, <1>13, <1>15 DEF OneUser, IdleFree
  <1>18. IdleLive'
    BY <1>1, <1>4, <1>5, <1>7, <1>11, <1>13, <1>15 DEF IdleLive
  <1>19. ASSUME NEW v \in Using'
         PROVE  user'[v].transport \in live' /\ \E j \in Visible' : Backs(j, v)'
    <2>1. v \in Using /\ v # u /\ user'[v] = user[v]
      BY <1>3, <1>5
    <2>2. PICK j \in Visible : user[v].transport \in live /\ Backs(j, v)
      BY <1>4, <2>1 DEF Backed
    <2>3. user[v].transport # user[u].transport
      BY <1>1, <1>4, <2>1 DEF OneUser
    <2>4. j # m
      BY <1>11, <2>2, <2>3 DEF Backs
    <2>5. Backs(j, v)'
      BY <1>1, <1>13, <2>1, <2>2, <2>4 DEF Backs
    <2>6. QED
      BY <1>1, <1>13, <2>1, <2>2, <2>5
  <1>20. Backed'
    BY <1>19 DEF Backed
  <1>21. Replacing'
    <2>1. SUFFICES ASSUME checker.pc = "creating"
                   PROVE  Replacing'
      BY <1>1 DEF Replacing
    <2>2. checker.i \in Visible /\ checker.i \in Nat
      BY <1>4, <1>5, <2>1 DEF Replacing
    <2>3. CASE checker.i = m
      <3>1. b # m /\ b > m
        BY <1>5, <1>7, <1>8, <1>10, <2>1, <2>3 DEF Backs
      <3>2. connections'[b].state = "IN_USE" /\ connections'[b].transport = connections'[m].transport
        BY <1>7, <1>11, <1>13, <3>1 DEF Backs
      <3>3. QED
        BY <1>1, <1>7, <1>13, <2>1, <2>2, <2>3, <3>1, <3>2 DEF Replacing
    <2>4. CASE checker.i # m
      <3>1. SUFFICES ASSUME connections[checker.i].state # "INVALID"
                     PROVE  Replacing'
        BY <1>1, <1>13, <2>1, <2>2, <2>4 DEF Replacing
      <3>2. PICK j \in Visible : /\ j > checker.i
                                 /\ connections[j].state = "IN_USE"
                                 /\ connections[j].transport = connections[checker.i].transport
        BY <1>4, <2>1, <3>1 DEF Replacing
      <3>3. j # m
        <4>1. SUFFICES ASSUME j = m
                       PROVE  FALSE
          OBVIOUS
        <4>2. checker.i \in at
          BY <1>11, <2>2, <3>2, <4>1
        <4>3. m =< checker.i
          BY <1>10, <4>2
        <4>4. QED
          BY <1>5, <2>2, <3>2, <4>1, <4>3
      <3>4. QED
        BY <1>1, <1>13, <2>1, <2>2, <3>2, <3>3 DEF Replacing
    <2>5. QED
      BY <2>3, <2>4
  <1>22. QED
    BY <1>6, <1>14, <1>16, <1>17, <1>18, <1>20, <1>21 DEF Lent

\* A user connects, or gives up.
LEMMA ConnectingKept ==
    ASSUME Sizes, Typed, Lent, NEW u \in Users, GetCreates(u) \/ GetFails(u)
    PROVE  Typed' /\ Lent'
  <1>1. PICK e \in Calls :
           /\ undefined = "no" /\ user[u].pc # "using" /\ e.pc # "using"
           /\ user' = [user EXCEPT ![u] = e]
           /\ UNCHANGED <<connections, total_connections, available_connections, live, checker,
                          undefined>>
    <2>1. CASE GetCreates(u)
      <3> DEFINE e == [user[u] EXCEPT !.pc = "creating"]
      <3>1. e \in Calls /\ e.pc = "creating"
        BY DEF Typed, Calls
      <3>2. user[u].pc # "using"
        BY <2>1 DEF GetCreates, NotInCall
      <3>3. user' = [user EXCEPT ![u] = e]
        BY <2>1 DEF GetCreates
      <3> HIDE DEF e
      <3>4. QED
        BY <2>1, <3>1, <3>2, <3>3 DEF GetCreates, Unlocked
    <2>2. CASE GetFails(u)
      BY <2>2 DEF GetFails, NotInCall, Calls, Unlocked
    <2>3. QED
      BY <2>1, <2>2
  <1>2. /\ user' \in [Users -> Calls]
        /\ \A v \in Users \ {u} : user'[v] = user[v]
        /\ \A v \in Using' : user'[v].transport \in Addresses
        /\ Using' = Using \ {u}
    BY <1>1, CallIsSet
  <1>3. u \notin Using /\ Using \subseteq Users
    BY <1>1 DEF Using
  <1>4. /\ Using' = Using
        /\ \A v \in Using : user'[v] = user[v]
    BY <1>2, <1>3
  <1>5. Visible' = Visible /\ Idle' = Idle
    BY <1>1 DEF Visible, Idle
  <1>6. Typed'
    BY <1>1, <1>2 DEF Typed
  <1>7. IdleApart' /\ IdleLive' /\ Replacing'
    BY <1>1, <1>5 DEF Lent, IdleApart, IdleLive, Replacing
  <1>8. IdleFree' /\ OneUser'
    BY <1>1, <1>4, <1>5 DEF Lent, IdleFree, OneUser
  <1>9. Backed'
    BY <1>1, <1>4, <1>5 DEF Lent, Backed, Backs
  <1>10. QED
    BY <1>6, <1>7, <1>8, <1>9 DEF Lent

\* get connects: an address that nothing has is entered behind the others.
LEMMA GetCreatedKept ==
    ASSUME Sizes, Typed, Lent, NEW u \in Users, GetCreated(u)
    PROVE  Typed' /\ Lent'
  <1>1. /\ undefined = "no" /\ user[u].pc = "creating"
        /\ UNCHANGED <<available_connections, checker>>
    BY DEF GetCreated, Unlocked
  <1>2. CASE total_connections = max_connections
    <2>1. undefined' # "no" /\ UNCHANGED <<connections, total_connections, live, user>>
      BY <1>2 DEF GetCreated
    <2>2. Using' = Using
      BY <2>1 DEF Using
    <2>3. QED
      BY <1>1, <2>1, <2>2 DEF Typed, Lent
  <1>3. CASE total_connections # max_connections
    <2>1. PICK a \in Addresses \ live :
            /\ live' = live \cup {a}
            /\ user' = [user EXCEPT ![u] = [pc |-> "using", transport |-> a]]
            /\ connections' = [connections EXCEPT ![total_connections] =
                                   [transport |-> a, state |-> "IN_USE"]]
            /\ total_connections' = total_connections + 1
            /\ UNCHANGED undefined
      BY <1>3 DEF GetCreated
    <2>2. PICK t : t = total_connections
      OBVIOUS
    <2>3. /\ t \in Indexes /\ t \in Nat /\ t \notin Visible
          /\ Visible \subseteq Indexes /\ Idle \subseteq Visible
          /\ total_connections' \in 0 .. max_connections
          /\ Visible' = Visible \cup {t}
      BY <1>3, <2>1, <2>2, VisibleFacts DEF Typed, Sizes, Indexes, Visible
    <2>4. [transport |-> a, state |-> "IN_USE"] \in Entries
      BY DEF Entries
    <2>5. /\ connections' \in [Indexes -> Entries]
          /\ connections'[t] = [transport |-> a, state |-> "IN_USE"]
          /\ \A i \in Visible : connections'[i] = connections[i]
      BY <2>1, <2>2, <2>3, <2>4 DEF Typed
    <2> DEFINE e == [pc |-> "using", transport |-> a]
    <2>6. e \in Calls /\ e.pc = "using" /\ e.transport = a
      BY DEF Calls
    <2>7. user' = [user EXCEPT ![u] = e]
      BY <2>1
    <2> HIDE DEF e
    <2>8. /\ user' \in [Users -> Calls]
          /\ user'[u].transport = a
          /\ \A v \in Users \ {u} : user'[v] = user[v]
          /\ \A v \in Using' : user'[v].transport \in Addresses
          /\ Using' = Using \cup {u}
      BY <2>6, <2>7, CallIsSet
    <2>9. u \notin Using /\ Using \subseteq Users
      BY <1>1 DEF Using
    <2>10. Typed'
      BY <1>1, <2>1, <2>3, <2>5, <2>8 DEF Typed
    <2>11. Idle' = Idle
      <3>1. connections'[t].state # "IDLE"
        BY <2>5
      <3>2. \A i \in Visible : connections'[i] = connections[i]
        BY <2>5
      <3>3. Visible' = Visible \cup {t}
        BY <2>3
      <3>4. QED
        BY <3>1, <3>2, <3>3 DEF Idle
    <2>12. IdleApart /\ IdleFree /\ OneUser /\ IdleLive /\ Backed /\ Replacing
      BY <1>1 DEF Lent
    <2>22. \A i \in Idle : connections'[i].transport = connections[i].transport
      BY <2>3, <2>5
    <2>13. IdleApart'
      BY <2>11, <2>12, <2>22 DEF IdleApart
    <2>14. IdleLive'
      BY <2>1, <2>3, <2>5, <2>11, <2>12 DEF IdleLive
    <2>15. IdleFree'
      <3>1. \A i \in Idle : connections[i].transport # a
        BY <2>12 DEF IdleLive
      <3>2. ASSUME NEW v \in Using', v # u
            PROVE  v \in Using /\ user'[v] = user[v]
        BY <2>8, <2>9, <3>2
      <3>3. user'[u].transport = a
        BY <2>8
      <3>4. QED
        BY <2>11, <2>12, <2>22, <3>1, <3>2, <3>3 DEF IdleFree
    <2>16. \A v \in Using : user[v].transport # a
      BY <2>12 DEF Backed
    <2>17. OneUser'
      BY <2>8, <2>9, <2>12, <2>16 DEF OneUser
    <2>18. Replacing'
      <3>1. SUFFICES ASSUME checker.pc = "creating"
                     PROVE  Replacing'
        BY <1>1 DEF Replacing
      <3>2. checker.i \in Visible
        BY <2>12, <3>1 DEF Replacing
      <3>3. QED
        BY <1>1, <2>3, <2>5, <2>12, <3>1, <3>2 DEF Replacing
    <2>19. ASSUME NEW v \in Using'
           PROVE  user'[v].transport \in live' /\ \E j \in Visible' : Backs(j, v)'
      <3>1. CASE v = u
        <4>1. checker.pc = "creating" => t # checker.i
          BY <2>3, <2>12 DEF Replacing
        <4>2. Backs(t, v)'
          BY <1>1, <2>5, <2>8, <3>1, <4>1 DEF Backs
        <4>3. QED
          BY <2>1, <2>3, <2>8, <3>1, <4>2
      <3>2. CASE v # u
        <4>1. v \in Using /\ user'[v] = user[v]
          BY <2>8, <2>9, <3>2
        <4>2. PICK j \in Visible : user[v].transport \in live /\ Backs(j, v)
          BY <2>12, <4>1 DEF Backed
        <4>3. Backs(j, v)'
          BY <1>1, <2>5, <4>1, <4>2 DEF Backs
        <4>4. QED
          BY <2>1, <2>3, <4>1, <4>2, <4>3
      <3>3. QED
        BY <3>1, <3>2
    <2>20. Backed'
      BY <2>19 DEF Backed
    <2>21. QED
      BY <2>10, <2>13, <2>14, <2>15, <2>17, <2>18, <2>20 DEF Lent
  <1>4. QED
    BY <1>2, <1>3

\* The steps in which only the health check moves.
LEMMA CheckMovesKept ==
    ASSUME Sizes, Typed, Lent, CheckBegins \/ CheckSkips \/ CheckEnds
    PROVE  Typed' /\ Lent'
  <1>1. /\ UNCHANGED <<connections, total_connections, available_connections, live, user, undefined>>
        /\ undefined = "no"
        /\ checker' \in Rounds
        /\ checker'.pc # "creating"
    <2>1. CASE CheckBegins
      BY <2>1 DEF CheckBegins, Unlocked, Rounds
    <2>2. CASE CheckSkips
      BY <2>2 DEF CheckSkips, Scanning, Typed, Rounds
    <2>3. CASE CheckEnds
      BY <2>3 DEF CheckEnds, Sleeping, Rounds
    <2>4. QED
      BY <2>1, <2>2, <2>3
  <1>2. Visible' = Visible /\ Idle' = Idle /\ Using' = Using
    BY <1>1 DEF Visible, Idle, Using
  <1>3. Typed'
    BY <1>1, <1>2 DEF Typed
  <1>4. IdleApart' /\ IdleLive' /\ IdleFree' /\ OneUser'
    BY <1>1, <1>2 DEF Lent, IdleApart, IdleLive, IdleFree, OneUser
  <1>5. Replacing'
    BY <1>1 DEF Replacing
  <1>6. Backed'
    BY <1>1, <1>2 DEF Lent, Backed, Backs
  <1>7. QED
    BY <1>3, <1>4, <1>5, <1>6 DEF Lent

\* When a transport is destroyed and all is well, it was there, and no other entry
\* had its address.
LEMMA WellDestroyed ==
    ASSUME NEW i, DestroyTransport(i), undefined' = "no"
    PROVE  /\ connections[i].transport \in live \cup {0}
           /\ \A j \in Visible \ {i} : connections[i].transport # 0 =>
                  connections[j].transport # connections[i].transport
  BY DEF DestroyTransport

\* The health check destroys an invalid transport and connects without the lock.
LEMMA CheckDestroysKept ==
    ASSUME Sizes, Typed, Lent, CheckDestroys
    PROVE  Typed' /\ Lent'
  <1>1. PICK c : c = checker.i
    OBVIOUS
  <1>2. /\ undefined = "no" /\ c < total_connections
        /\ connections[c].state = "INVALID"
        /\ DestroyTransport(c)
        /\ checker' = [checker EXCEPT !.pc = "creating"]
        /\ UNCHANGED <<connections, total_connections, available_connections, user>>
    BY <1>1 DEF CheckDestroys, Scanning
  <1>3. checker' \in Rounds /\ checker'.pc = "creating" /\ checker'.i = c
    BY <1>1, <1>2 DEF Typed, Rounds
  <1>4. c \in Visible
    BY <1>1, <1>2, VisibleFacts DEF Typed, Rounds
  <1>5. live' = live \ {connections[c].transport}
    BY <1>2 DEF DestroyTransport
  <1>6. Visible' = Visible /\ Idle' = Idle /\ Using' = Using
    BY <1>2 DEF Visible, Idle, Using
  <1>7. Typed'
    BY <1>2, <1>3, <1>5, <1>6 DEF Typed
  <1>8. SUFFICES ASSUME undefined' = "no"
                 PROVE  Lent'
    BY <1>7 DEF Lent
  <1>9. \A j \in Visible \ {c} : connections[c].transport # 0 =>
                  connections[j].transport # connections[c].transport
    BY <1>2, <1>8, WellDestroyed
  <1>10. IdleApart /\ IdleFree /\ OneUser /\ IdleLive /\ Backed
    BY <1>2 DEF Lent
  <1>11. IdleApart' /\ IdleFree' /\ OneUser'
    BY <1>2, <1>6, <1>10 DEF IdleApart, IdleFree, OneUser
  <1>12. IdleLive'
    <2>1. \A i \in Idle : i \in Visible \ {c} /\ connections[i].transport # 0
      BY <1>2 DEF Idle
    <2>2. QED
      BY <1>2, <1>5, <1>6, <1>9, <1>10, <2>1 DEF IdleLive
  <1>13. Replacing'
    BY <1>2, <1>3, <1>4, <1>6 DEF Replacing
  <1>14. ASSUME NEW v \in Using
         PROVE  user'[v].transport \in live' /\ \E j \in Visible' : Backs(j, v)'
    <2>1. PICK j \in Visible : user[v].transport \in live /\ Backs(j, v)
      BY <1>10 DEF Backed
    <2>2. j # c /\ user[v].transport # 0
      BY <1>2, <2>1 DEF Backs, Typed, Sizes
    <2>3. user[v].transport # connections[c].transport
      BY <1>9, <2>1, <2>2 DEF Backs
    <2>4. Backs(j, v)'
      BY <1>2, <1>3, <2>1, <2>2 DEF Backs
    <2>5. QED
      BY <1>2, <1>5, <1>6, <2>1, <2>3, <2>4
  <1>15. Backed'
    BY <1>6, <1>14 DEF Backed
  <1>16. QED
    BY <1>11, <1>12, <1>13, <1>15 DEF Lent

\* It writes the new connection to the entry it was at, whatever became of that.
LEMMA CheckReconnectsKept ==
    ASSUME Sizes, Typed, Lent, CheckReconnects
    PROVE  Typed' /\ Lent'
  <1>1. PICK c : c = checker.i
    OBVIOUS
  <1>2. /\ undefined = "no" /\ checker.pc = "creating"
        /\ checker' = [pc |-> "scanning", i |-> c + 1]
        /\ UNCHANGED <<total_connections, user, undefined>>
    BY <1>1 DEF CheckReconnects
  <1>3. c \in Nat /\ checker' \in Rounds /\ checker'.pc # "creating"
    BY <1>1, <1>2 DEF Typed, Rounds
  <1>4. IdleApart /\ IdleFree /\ OneUser /\ IdleLive /\ Backed /\ Replacing
    BY <1>2 DEF Lent
  <1>5. c \in Visible
    BY <1>1, <1>2, <1>4 DEF Replacing
  <1>6. Visible' = Visible /\ Using' = Using
    BY <1>2 DEF Visible, Using
  <1>7. OneUser' /\ Replacing'
    BY <1>2, <1>3, <1>4, <1>6 DEF OneUser, Replacing
  <1>8. CASE UNCHANGED <<live, connections, available_connections>>
    <2>1. Idle' = Idle
      BY <1>6, <1>8 DEF Idle
    <2>2. Typed'
      BY <1>2, <1>3, <1>6, <1>8 DEF Typed
    <2>3. IdleApart' /\ IdleFree' /\ IdleLive'
      BY <1>2, <1>4, <1>6, <1>8, <2>1 DEF IdleApart, IdleFree, IdleLive
    <2>4. Backed'
      BY <1>2, <1>3, <1>4, <1>6, <1>8 DEF Backed, Backs
    <2>5. QED
      BY <1>7, <2>2, <2>3, <2>4 DEF Lent
  <1>9. CASE \E a \in Addresses \ live :
              /\ live' = live \cup {a}
              /\ connections' = [connections EXCEPT ![checker.i] = [transport |-> a, state |-> "IDLE"]]
              /\ available_connections' = available_connections + 1
    <2>1. PICK a \in Addresses \ live :
              /\ live' = live \cup {a}
              /\ connections' = [connections EXCEPT ![c] = [transport |-> a, state |-> "IDLE"]]
              /\ available_connections' = available_connections + 1
      BY <1>1, <1>9
    <2>2. [transport |-> a, state |-> "IDLE"] \in Entries
      BY DEF Entries
    <2>3. c \in Indexes /\ Visible \subseteq Indexes /\ Idle \subseteq Visible
      BY <1>5, VisibleFacts
    <2>4. /\ connections' \in [Indexes -> Entries]
          /\ connections'[c] = [transport |-> a, state |-> "IDLE"]
          /\ \A i \in Visible \ {c} : connections'[i] = connections[i]
      BY <2>1, <2>2, <2>3 DEF Typed
    <2>5. connections'[c].transport = a
      BY <2>4
    <2>6. Typed'
      BY <1>2, <1>3, <1>6, <2>1, <2>4 DEF Typed
    <2>7. \A i \in Idle' : i # c => i \in Idle /\ connections'[i].transport = connections[i].transport
      BY <1>6, <2>4 DEF Idle
    <2>8. IdleApart'
      BY <1>4, <2>1, <2>5, <2>7 DEF IdleApart, IdleLive
    <2>9. IdleFree'
      BY <1>2, <1>4, <1>6, <2>1, <2>5, <2>7 DEF IdleFree, Backed
    <2>10. IdleLive'
      BY <1>4, <2>1, <2>5, <2>7 DEF IdleLive
    <2>11. ASSUME NEW v \in Using
           PROVE  user'[v].transport \in live' /\ \E j \in Visible' : Backs(j, v)'
      <3>1. PICK j \in Visible : user[v].transport \in live /\ Backs(j, v)
        BY <1>4 DEF Backed
      <3>2. j # c
        BY <1>1, <1>2, <3>1 DEF Backs
      <3>3. Backs(j, v)'
        BY <1>2, <1>3, <2>4, <3>1, <3>2 DEF Backs
      <3>4. QED
        BY <1>2, <1>6, <2>1, <3>1, <3>3
    <2>12. Backed'
      BY <1>6, <2>11 DEF Backed
    <2>13. QED
      BY <1>7, <2>6, <2>8, <2>9, <2>10, <2>12 DEF Lent
  <1>10. QED
    BY <1>8, <1>9 DEF CheckReconnects

\* Where the entry that is at i after the closed one is taken out was before.
Before(c, i) == IF i >= c THEN i + 1 ELSE i

\* Closing an idle connection moves the entries behind it up by one and loses none
\* of the others.
LEMMA RestMovesUp ==
    ASSUME Sizes, Typed, CheckCloses, NEW c, c = checker.i
    PROVE  /\ c \in Visible /\ c \in Nat
           /\ connections' \in [Indexes -> Entries]
           /\ total_connections' \in 0 .. max_connections
           /\ \A i \in Visible' : /\ Before(c, i) \in Visible \ {c}
                                  /\ connections'[i] = connections[Before(c, i)]
           /\ \A i, j \in Visible' : i # j => Before(c, i) # Before(c, j)
           /\ \A k \in Visible \ {c} : \E i \in Visible' : k = Before(c, i)
  <1>1. /\ c \in Nat /\ c < total_connections
        /\ total_connections' = total_connections - 1
        /\ connections' = [i \in Indexes |-> IF i >= c /\ i < total_connections - 1
                                         THEN connections[i + 1] ELSE connections[i]]
    BY DEF CheckCloses, Scanning, Typed, Rounds
  <1>2. /\ \A i : i \in Visible <=> i \in Nat /\ i < total_connections
        /\ total_connections \in Nat /\ total_connections =< max_connections
        /\ max_connections \in Nat
    BY VisibleFacts DEF Typed, Sizes
  <1>3. \A i : i \in Indexes <=> i \in Nat /\ i < max_connections
    BY <1>2 DEF Indexes
  <1>4. \A i : i \in Visible' <=> i \in Nat /\ i < total_connections - 1
    BY <1>1, <1>2, <1>3 DEF Visible, Indexes, Sizes
  <1>5. connections' \in [Indexes -> Entries]
    <2>1. \A i \in Indexes : i < total_connections - 1 => i + 1 \in Indexes
      BY <1>2, <1>3
    <2>2. QED
      BY <1>1, <2>1 DEF Typed
  <1>6. ASSUME NEW i \in Visible'
        PROVE  /\ Before(c, i) \in Visible \ {c}
               /\ connections'[i] = connections[Before(c, i)]
    <2>1. i \in Nat /\ i < total_connections - 1 /\ i \in Indexes
      BY <1>2, <1>3, <1>4
    <2>2. connections'[i] = connections[Before(c, i)]
      BY <1>1, <2>1 DEF Before
    <2>3. Before(c, i) \in Visible \ {c}
      BY <1>1, <1>2, <2>1 DEF Before
    <2>4. QED
      BY <2>2, <2>3
  <1>7. \A i, j \in Visible' : i # j => Before(c, i) # Before(c, j)
    BY <1>1, <1>4 DEF Before
  <1>8. ASSUME NEW k \in Visible \ {c}
        PROVE  \E i \in Visible' : k = Before(c, i)
    <2>1. k \in Nat /\ k < total_connections /\ k # c
      BY <1>2
    <2>2. CASE k < c
      <3>1. k \in Visible'
        BY <1>1, <1>2, <1>4, <2>1, <2>2
      <3>2. k = Before(c, k)
        BY <1>1, <2>1, <2>2 DEF Before
      <3>3. QED
        BY <3>1, <3>2
    <2>3. CASE k > c
      <3>1. k - 1 \in Visible'
        BY <1>1, <1>2, <1>4, <2>1, <2>3
      <3>2. k = Before(c, k - 1)
        BY <1>1, <2>1, <2>3 DEF Before
      <3>3. QED
        BY <3>1, <3>2
    <2>4. QED
      BY <1>1, <2>1, <2>2, <2>3
  <1>9. c \in Visible /\ total_connections' \in 0 .. max_connections
    BY <1>1, <1>2
  <1>10. QED
    BY <1>1, <1>5, <1>6, <1>7, <1>8, <1>9

\* The health check closes an idle connection, which nobody uses.
LEMMA CheckClosesKept ==
    ASSUME Sizes, Typed, Lent, CheckCloses
    PROVE  Typed' /\ Lent'
  <1>1. PICK c : c = checker.i
    OBVIOUS
  <1>2. /\ undefined = "no" /\ checker.pc # "creating"
        /\ connections[c].state = "IDLE"
        /\ DestroyTransport(c)
        /\ available_connections' = available_connections - 1
        /\ UNCHANGED <<user, checker>>
    BY <1>1 DEF CheckCloses, Scanning
  <1>3. /\ c \in Visible /\ c \in Nat
        /\ connections' \in [Indexes -> Entries]
        /\ total_connections' \in 0 .. max_connections
        /\ \A i \in Visible' : /\ Before(c, i) \in Visible \ {c}
                               /\ connections'[i] = connections[Before(c, i)]
        /\ \A i, j \in Visible' : i # j => Before(c, i) # Before(c, j)
        /\ \A k \in Visible \ {c} : \E i \in Visible' : k = Before(c, i)
    BY <1>1, RestMovesUp
  <1>4. live' = live \ {connections[c].transport} /\ Using' = Using
    BY <1>2 DEF DestroyTransport, Using
  <1>5. Typed'
    BY <1>2, <1>3, <1>4 DEF Typed
  <1>6. SUFFICES ASSUME undefined' = "no"
                 PROVE  Lent'
    BY <1>5 DEF Lent
  <1>7. \A j \in Visible \ {c} : connections[c].transport # 0 =>
                  connections[j].transport # connections[c].transport
    BY <1>2, <1>6, WellDestroyed
  <1>8. IdleApart /\ IdleFree /\ OneUser /\ IdleLive /\ Backed
    BY <1>2 DEF Lent
  <1>9. \A i \in Idle' : /\ i \in Visible'
                         /\ Before(c, i) \in Idle \ {c}
                         /\ connections'[i].transport = connections[Before(c, i)].transport
    BY <1>3 DEF Idle
  <1>10. IdleApart'
    BY <1>3, <1>8, <1>9 DEF IdleApart
  <1>11. IdleFree'
    BY <1>2, <1>4, <1>8, <1>9 DEF IdleFree
  <1>12. OneUser' /\ Replacing'
    BY <1>2, <1>4, <1>8 DEF OneUser, Replacing
  <1>13. IdleLive'
    <2>1. \A i \in Idle \ {c} : i \in Visible \ {c} /\ connections[i].transport # 0
      BY DEF Idle
    <2>2. \A i \in Idle \ {c} : connections[i].transport \in live'
      BY <1>4, <1>7, <1>8, <2>1 DEF IdleLive
    <2>3. QED
      BY <1>9, <2>2 DEF IdleLive
  <1>14. ASSUME NEW v \in Using
         PROVE  user'[v].transport \in live' /\ \E j \in Visible' : Backs(j, v)'
    <2>1. PICK j \in Visible : user[v].transport \in live /\ Backs(j, v)
      BY <1>8 DEF Backed
    <2>2. j # c /\ user[v].transport # 0
      BY <1>2, <2>1 DEF Backs, Typed, Sizes
    <2>3. user[v].transport # connections[c].transport
      BY <1>7, <2>1, <2>2 DEF Backs
    <2>4. PICK i \in Visible' : j = Before(c, i)
      BY <1>3, <2>1, <2>2
    <2>5. connections'[i] = connections[j]
      BY <1>3, <2>4
    <2>6. Backs(i, v)'
      BY <1>2, <2>1, <2>5 DEF Backs
    <2>7. QED
      BY <1>2, <1>4, <2>1, <2>3, <2>6
  <1>15. Backed'
    BY <1>4, <1>14 DEF Backed
  <1>16. QED
    BY <1>10, <1>11, <1>12, <1>13, <1>15 DEF Lent

\* destroy leaves no entry.
LEMMA DestroyKept ==
    ASSUME Sizes, Typed, Lent, Destroy
    PROVE  Typed' /\ Lent'
  <1>1. /\ checker.pc = "sleeping"
        /\ \A u \in Users : user[u] = NotInCall
        /\ live' \subseteq live
        /\ checker' = [checker EXCEPT !.pc = "ended"]
        /\ connections' = [i \in Indexes |-> Blank]
        /\ total_connections' = 0 /\ available_connections' = 0
        /\ UNCHANGED user
    BY DEF Destroy
  <1>2. checker' \in Rounds /\ checker'.pc # "creating"
    BY <1>1 DEF Typed, Rounds
  <1>3. Using' = {}
    BY <1>1 DEF Using, NotInCall
  <1>4. Visible' = {} /\ Idle' = {}
    BY <1>1 DEF Visible, Idle, Indexes, Sizes
  <1>5. Blank \in Entries
    BY DEF Blank, Entries
  <1>6. connections' \in [Indexes -> Entries]
    BY <1>1, <1>5
  <1>7. Typed'
    BY <1>1, <1>2, <1>3, <1>6 DEF Typed, Sizes
  <1>8. QED
    BY <1>2, <1>3, <1>4, <1>7
       DEF Lent, IdleApart, IdleFree, OneUser, IdleLive, Backed, Replacing

-----------------------------------------------------------------------------
\* The connections that are idle.
IdleTransports == {connections[i].transport : i \in Idle}

\* When connections never fail, every entry has a transport of its own and is idle
\* or in use, and the two counts are exact.
Steady ==
    ~Fails /\ undefined = "no" =>
        /\ checker.pc # "creating"
        /\ \A i \in Visible : connections[i].state # "INVALID" /\ connections[i].transport # 0
        /\ \A i, j \in Visible : i # j => connections[i].transport # connections[j].transport
        /\ live = {connections[i].transport : i \in Visible}
        /\ IsFiniteSet(live) /\ Cardinality(live) = total_connections
        /\ available_connections = Cardinality(IdleTransports)

\* A function without collisions on a finite set has as many values.
LEMMA AsManyValues ==
    ASSUME NEW S, IsFiniteSet(S), NEW f, \A x, y \in S : x # y => f[x] # f[y]
    PROVE  /\ IsFiniteSet({f[x] : x \in S})
           /\ Cardinality({f[x] : x \in S}) = Cardinality(S)
  <1> DEFINE T == {f[x] : x \in S}
             g == [x \in S |-> f[x]]
  <1>1. g \in [S -> T]
    OBVIOUS
  <1>2. \A x, y \in S : g[x] = g[y] => x = y
    OBVIOUS
  <1>3. \A t \in T : \E x \in S : g[x] = t
    OBVIOUS
  <1> HIDE DEF g, T
  <1>4. g \in Injection(S, T) /\ g \in Surjection(S, T)
    BY <1>1, <1>2, <1>3 DEF Injection, Surjection, IsInjective
  <1>5. IsFiniteSet(T) /\ Cardinality(T) = Cardinality(S)
    BY <1>4, FS_Surjection
  <1>6. QED
    BY <1>5 DEF T

\* There are finitely many entries.
LEMMA IdleAreVisible ==
    ASSUME Sizes, Typed
    PROVE  IsFiniteSet(Visible) /\ IsFiniteSet(Idle)
  <1>1. IsFiniteSet(0 .. max_connections - 1)
    BY FS_Interval DEF Sizes
  <1>2. QED
    BY <1>1, FS_Subset, VisibleFacts DEF Indexes

\* There are as many idle connections as idle entries.
LEMMA IdleTransportsFinite ==
    ASSUME Sizes, Typed, IdleApart
    PROVE  /\ IsFiniteSet(IdleTransports)
           /\ Cardinality(IdleTransports) = Cardinality(Idle)
  <1> DEFINE f == [i \in Idle |-> connections[i].transport]
  <1>1. \A x, y \in Idle : x # y => f[x] # f[y]
    BY DEF IdleApart
  <1>2. IdleTransports = {f[x] : x \in Idle}
    BY DEF IdleTransports
  <1>3. IsFiniteSet(Idle)
    BY IdleAreVisible
  <1> HIDE DEF f
  <1>4. QED
    BY <1>1, <1>2, <1>3, AsManyValues

\* create counts what it made.
LEMMA SteadyBegins ==
    ASSUME Sizes, Init
    PROVE  Steady
  <1>1. SUFFICES ASSUME ~Fails
                 PROVE  Steady
    BY DEF Steady
  <1>2. PICK made \in SUBSET (0 .. min_connections - 1), at \in [Indexes -> Addresses] :
        /\ made = 0 .. min_connections - 1
        /\ \A i, j \in made : i # j => at[i] # at[j]
        /\ connections = [i \in Indexes |-> IF i \in made THEN [Blank EXCEPT !.transport = at[i]]
                                            ELSE Blank]
        /\ total_connections = Cardinality(made)
        /\ available_connections = Cardinality(made)
        /\ live = {at[i] : i \in made}
        /\ checker = Sleeping
    BY <1>1 DEF Init
  <1>3. IsFiniteSet(made) /\ Cardinality(made) = min_connections
    <2>1. min_connections \in Nat /\ 0 \in Int /\ min_connections - 1 \in Int
      BY DEF Sizes
    <2>2. /\ IsFiniteSet(0 .. min_connections - 1)
          /\ Cardinality(0 .. min_connections - 1) =
                 IF 0 > min_connections - 1 THEN 0 ELSE min_connections - 1 - 0 + 1
      BY <2>1, FS_Interval
    <2>3. QED
      BY <1>2, <2>1, <2>2
  <1>4. made \subseteq Indexes /\ Visible = made
    BY <1>2, <1>3 DEF Sizes, Indexes, Visible
  <1>5. \A i \in Indexes : /\ connections[i].state = "IDLE"
                           /\ connections[i].transport = IF i \in made THEN at[i] ELSE 0
    BY <1>2 DEF Blank
  <1>6. \A i \in made : /\ connections[i].transport = at[i]
                        /\ connections[i].state = "IDLE"
                        /\ at[i] # 0
    <2>1. \A i \in made : at[i] \in Addresses
      BY <1>4
    <2>2. \A i \in made : at[i] # 0
      BY <2>1 DEF Sizes
    <2>3. QED
      BY <1>4, <1>5, <2>2
  <1>7. Idle = made
    BY <1>4, <1>6 DEF Idle
  <1>8. IsFiniteSet(live) /\ Cardinality(live) = Cardinality(made)
    <2>1. \A x, y \in made : x # y => at[x] # at[y]
      BY <1>2
    <2>2. IsFiniteSet({at[i] : i \in made}) /\ Cardinality({at[i] : i \in made}) = Cardinality(made)
      BY <1>3, <2>1, AsManyValues
    <2>3. QED
      BY <1>2, <2>2
  <1>9. live = {connections[i].transport : i \in Visible}
    BY <1>2, <1>4, <1>6
  <1>10. IdleTransports = live
    BY <1>4, <1>7, <1>9 DEF IdleTransports
  <1>11. \A i, j \in Visible : i # j => connections[i].transport # connections[j].transport
    BY <1>2, <1>4, <1>6
  <1>12. checker.pc # "creating"
    BY <1>2 DEF Sleeping
  <1>13. QED
    BY <1>2, <1>4, <1>6, <1>8, <1>9, <1>10, <1>11, <1>12 DEF Steady

\* Steps that leave the entries and the counts alone.
LEMMA SteadyUntouched ==
    ASSUME Sizes, Typed, Lent, Steady,
           \/ \E u \in Users : GetCreates(u) \/ GetFails(u)
           \/ CheckBegins \/ CheckSkips \/ CheckEnds
    PROVE  Steady'
  <1>1. /\ UNCHANGED <<connections, total_connections, available_connections, live, undefined>>
        /\ checker'.pc = "creating" => checker.pc = "creating"
    <2>1. CASE \E u \in Users : GetCreates(u) \/ GetFails(u)
      BY <2>1 DEF GetCreates, GetFails
    <2>2. CASE CheckBegins
      BY <2>2 DEF CheckBegins
    <2>3. CASE CheckSkips
      BY <2>3 DEF CheckSkips, Typed, Rounds
    <2>4. CASE CheckEnds
      BY <2>4 DEF CheckEnds, Sleeping
    <2>5. QED
      BY <2>1, <2>2, <2>3, <2>4
  <1>2. Visible' = Visible /\ IdleTransports' = IdleTransports
    BY <1>1 DEF Visible, Idle, IdleTransports
  <1>3. QED
    BY <1>1, <1>2 DEF Steady

\* get of an idle connection counts one less.
LEMMA SteadyGetIdle ==
    ASSUME Sizes, Typed, Lent, Steady, NEW u \in Users, GetIdle(u)
    PROVE  Steady'
  <1>1. SUFFICES ASSUME ~Fails
                 PROVE  Steady'
    BY DEF Steady
  <1>2. PICK m : m = Min(Idle)
    OBVIOUS
  <1>3. m \in Idle
    BY <1>2, VisibleFacts, NaturalMin DEF GetIdle
  <1>4. /\ undefined = "no"
        /\ connections' = [connections EXCEPT ![m].state = "IN_USE"]
        /\ available_connections' = available_connections - 1
        /\ UNCHANGED <<total_connections, live, checker, undefined>>
    BY <1>2 DEF GetIdle, Unlocked
  <1>5. m \in Visible /\ Idle \subseteq Visible
    BY <1>3, VisibleFacts
  <1>6. /\ Visible' = Visible
        /\ \A i \in Visible : connections'[i].transport = connections[i].transport
        /\ \A i \in Visible : connections'[i].state = IF i = m THEN "IN_USE" ELSE connections[i].state
    BY <1>4, <1>5, StateIsSet
  <1>7. Idle' = Idle \ {m}
    BY <1>6 DEF Idle
  <1>8. IdleApart
    BY <1>4 DEF Lent
  <1>9. IdleTransports' = IdleTransports \ {connections[m].transport}
    BY <1>3, <1>5, <1>6, <1>7, <1>8 DEF IdleTransports, IdleApart
  <1>10. connections[m].transport \in IdleTransports
    BY <1>3 DEF IdleTransports
  <1>11. Cardinality(IdleTransports') = Cardinality(IdleTransports) - 1
    BY <1>8, <1>9, <1>10, IdleTransportsFinite, FS_RemoveElement
  <1>12. {connections'[i].transport : i \in Visible'} = {connections[i].transport : i \in Visible}
    BY <1>6
  <1>13. QED
    BY <1>1, <1>4, <1>6, <1>11, <1>12 DEF Steady

\* release counts one more: the entry it sets was in use.
LEMMA SteadyRelease ==
    ASSUME Sizes, Typed, Lent, Steady, NEW u \in Users, Release(u)
    PROVE  Steady'
  <1>1. SUFFICES ASSUME ~Fails
                 PROVE  Steady'
    BY DEF Steady
  <1> DEFINE at == {i \in Visible : connections[i].transport = user[u].transport}
  <1>2. /\ undefined = "no" /\ u \in Using
        /\ UNCHANGED <<total_connections, live, checker, undefined>>
    BY DEF Release, Unlocked, Using
  <1>3. IdleApart /\ IdleFree /\ Backed
    BY <1>2 DEF Lent
  <1>4. PICK b \in Visible : Backs(b, u)
    BY <1>2, <1>3 DEF Backed
  <1>5. b \in at /\ at \subseteq Nat
    BY <1>4, VisibleFacts DEF Backs
  <1>6. PICK m : m = Min(at)
    OBVIOUS
  <1>7. m \in at
    BY <1>5, <1>6, NaturalMin
  <1>8. /\ connections' = [connections EXCEPT ![m].state = "IDLE"]
        /\ available_connections' = available_connections + 1
    BY <1>1, <1>5, <1>6 DEF Release
  <1>9. m \in Visible /\ connections[m].transport = user[u].transport /\ Idle \subseteq Visible
    BY <1>7, VisibleFacts
  <1>10. /\ Visible' = Visible
         /\ \A i \in Visible : connections'[i].transport = connections[i].transport
         /\ \A i \in Visible : connections'[i].state = IF i = m THEN "IDLE" ELSE connections[i].state
    BY <1>2, <1>8, <1>9, StateIsSet
  <1>11. connections[m].transport # 0
    BY <1>1, <1>2, <1>9 DEF Steady
  <1>12. Idle' = Idle \cup {m}
    BY <1>9, <1>10, <1>11 DEF Idle
  <1>13. IdleTransports' = IdleTransports \cup {connections[m].transport}
    BY <1>9, <1>10, <1>12 DEF IdleTransports
  <1>14. connections[m].transport \notin IdleTransports
    BY <1>2, <1>3, <1>9 DEF IdleTransports, IdleFree
  <1>15. Cardinality(IdleTransports') = Cardinality(IdleTransports) + 1
    BY <1>3, <1>13, <1>14, IdleTransportsFinite, FS_AddElement
  <1>16. {connections'[i].transport : i \in Visible'} = {connections[i].transport : i \in Visible}
    BY <1>10
  <1>17. QED
    BY <1>1, <1>2, <1>8, <1>10, <1>15, <1>16 DEF Steady

\* A new connection is counted in total_connections only.
LEMMA SteadyGetCreated ==
    ASSUME Sizes, Typed, Lent, Steady, NEW u \in Users, GetCreated(u)
    PROVE  Steady'
  <1>1. SUFFICES ASSUME ~Fails, undefined' = "no"
                 PROVE  Steady'
    BY DEF Steady
  <1>2. undefined = "no" /\ UNCHANGED <<available_connections, checker>>
        /\ total_connections # max_connections
    BY <1>1 DEF GetCreated, Unlocked
  <1>3. PICK a \in Addresses \ live :
            /\ live' = live \cup {a}
            /\ connections' = [connections EXCEPT ![total_connections] =
                                   [transport |-> a, state |-> "IN_USE"]]
            /\ total_connections' = total_connections + 1
    BY <1>2 DEF GetCreated
  <1>4. PICK t : t = total_connections
    OBVIOUS
  <1>5. /\ t \in Indexes /\ t \in Nat /\ t \notin Visible
        /\ Visible \subseteq Indexes /\ Idle \subseteq Visible
        /\ Visible' = Visible \cup {t}
    BY <1>2, <1>3, <1>4, VisibleFacts DEF Typed, Sizes, Indexes, Visible
  <1>6. /\ connections'[t] = [transport |-> a, state |-> "IN_USE"]
        /\ \A i \in Visible : connections'[i] = connections[i]
    BY <1>3, <1>4, <1>5 DEF Typed
  <1>7. connections'[t].transport = a /\ connections'[t].state = "IN_USE"
    BY <1>6
  <1>8. Idle' = Idle
    <2>1. \A i \in Visible : connections'[i] = connections[i]
      BY <1>6
    <2>2. Visible' = Visible \cup {t} /\ connections'[t].state # "IDLE"
      BY <1>5, <1>7
    <2>3. QED
      BY <2>1, <2>2 DEF Idle
  <1>9. IdleTransports' = IdleTransports
    BY <1>5, <1>6, <1>8 DEF IdleTransports
  <1>10. live = {connections[i].transport : i \in Visible}
    BY <1>1, <1>2 DEF Steady
  <1>11. live' = {connections'[i].transport : i \in Visible'}
    BY <1>3, <1>5, <1>6, <1>7, <1>10
  <1>12. \A i \in Visible : connections[i].transport # a
    BY <1>10
  <1>13. \A i, j \in Visible' : i # j => connections'[i].transport # connections'[j].transport
    <2>1. \A i, j \in Visible : i # j => connections[i].transport # connections[j].transport
      BY <1>1, <1>2 DEF Steady
    <2>2. \A i \in Visible : connections'[i].transport = connections[i].transport
      BY <1>6
    <2>3. QED
      BY <1>5, <1>7, <1>12, <2>1, <2>2
  <1>14. \A i \in Visible' : connections'[i].state # "INVALID" /\ connections'[i].transport # 0
    BY <1>1, <1>2, <1>5, <1>6, <1>7 DEF Steady, Sizes
  <1>15. IsFiniteSet(live') /\ Cardinality(live') = total_connections'
    BY <1>1, <1>2, <1>3, FS_AddElement DEF Steady
  <1>16. QED
    BY <1>1, <1>2, <1>9, <1>11, <1>13, <1>14, <1>15 DEF Steady

\* Closing an idle connection counts one less of both.
LEMMA SteadyCheckCloses ==
    ASSUME Sizes, Typed, Lent, Steady, CheckCloses
    PROVE  Steady'
  <1>1. SUFFICES ASSUME ~Fails
                 PROVE  Steady'
    BY DEF Steady
  <1>2. PICK c : c = checker.i
    OBVIOUS
  <1>3. /\ undefined = "no" /\ checker.pc = "scanning"
        /\ connections[c].state = "IDLE"
        /\ DestroyTransport(c)
        /\ total_connections' = total_connections - 1
        /\ available_connections' = available_connections - 1
        /\ UNCHANGED checker
    BY <1>2 DEF CheckCloses, Scanning
  <1>4. /\ c \in Visible
        /\ \A i \in Visible' : /\ Before(c, i) \in Visible \ {c}
                               /\ connections'[i] = connections[Before(c, i)]
        /\ \A i, j \in Visible' : i # j => Before(c, i) # Before(c, j)
        /\ \A k \in Visible \ {c} : \E i \in Visible' : k = Before(c, i)
    BY <1>2, RestMovesUp
  <1>5. live' = live \ {connections[c].transport}
    BY <1>3 DEF DestroyTransport
  <1>6. /\ \A i \in Visible : connections[i].state # "INVALID" /\ connections[i].transport # 0
        /\ \A i, j \in Visible : i # j => connections[i].transport # connections[j].transport
        /\ live = {connections[i].transport : i \in Visible}
        /\ IsFiniteSet(live) /\ Cardinality(live) = total_connections
        /\ available_connections = Cardinality(IdleTransports)
    BY <1>1, <1>3 DEF Steady
  <1>7. \A i \in Visible' : connections'[i].state # "INVALID" /\ connections'[i].transport # 0
    BY <1>4, <1>6
  <1>8. \A i, j \in Visible' : i # j => connections'[i].transport # connections'[j].transport
    BY <1>4, <1>6
  <1>9. live' = {connections'[i].transport : i \in Visible'}
    <2>1. \A a \in live' : \E i \in Visible' : a = connections'[i].transport
      <3>1. SUFFICES ASSUME NEW a \in live'
                     PROVE  \E i \in Visible' : a = connections'[i].transport
        OBVIOUS
      <3>2. PICK k \in Visible \ {c} : a = connections[k].transport
        BY <1>5, <1>6
      <3>3. PICK i \in Visible' : k = Before(c, i)
        BY <1>4
      <3>4. QED
        BY <1>4, <3>2, <3>3
    <2>2. \A i \in Visible' : connections'[i].transport \in live'
      <3>1. \A k \in Visible \ {c} : connections[k].transport \in live'
        BY <1>4, <1>5, <1>6
      <3>2. QED
        BY <1>4, <3>1
    <2>3. QED
      BY <2>1, <2>2
  <1>10. connections[c].transport \in live /\ c \in Idle /\ connections[c].transport \in IdleTransports
    BY <1>3, <1>4, <1>6 DEF Idle, IdleTransports
  <1>11. IsFiniteSet(live') /\ Cardinality(live') = total_connections'
    BY <1>3, <1>5, <1>6, <1>10, FS_RemoveElement
  <1>12. IdleTransports' = IdleTransports \ {connections[c].transport}
    <2>1. ASSUME NEW a \in IdleTransports'
          PROVE  a \in IdleTransports \ {connections[c].transport}
      <3>1. PICK i \in Idle' : a = connections'[i].transport
        BY DEF IdleTransports
      <3>2. i \in Visible' /\ Before(c, i) \in Idle \ {c} /\ a = connections[Before(c, i)].transport
        BY <1>4, <3>1 DEF Idle
      <3>3. a # connections[c].transport
        BY <1>4, <1>6, <3>2
      <3>4. QED
        BY <3>2, <3>3 DEF IdleTransports
    <2>2. ASSUME NEW a \in IdleTransports \ {connections[c].transport}
          PROVE  a \in IdleTransports'
      <3>1. PICK k \in Idle : a = connections[k].transport
        BY DEF IdleTransports
      <3>2. k \in Visible \ {c}
        BY <2>2, <3>1 DEF Idle
      <3>3. PICK i \in Visible' : k = Before(c, i)
        BY <1>4, <3>2
      <3>4. i \in Idle' /\ connections'[i].transport = a
        BY <1>4, <3>1, <3>3 DEF Idle
      <3>5. QED
        BY <3>4 DEF IdleTransports
    <2>3. QED
      BY <2>1, <2>2
  <1>13. IdleApart
    BY <1>3 DEF Lent
  <1>14. Cardinality(IdleTransports') = Cardinality(IdleTransports) - 1
    BY <1>10, <1>12, <1>13, IdleTransportsFinite, FS_RemoveElement
  <1>15. QED
    BY <1>3, <1>6, <1>7, <1>8, <1>9, <1>11, <1>14 DEF Steady

\* destroy leaves nothing alive.
LEMMA SteadyDestroy ==
    ASSUME Sizes, Typed, Lent, Steady, Destroy
    PROVE  Steady'
  <1>1. SUFFICES ASSUME ~Fails
                 PROVE  Steady'
    BY DEF Steady
  <1>2. undefined = "no" /\ checker' = [checker EXCEPT !.pc = "ended"]
        /\ total_connections' = 0 /\ available_connections' = 0
    BY DEF Destroy, Unlocked
  <1>3. live = {connections[i].transport : i \in Visible} /\ 0 \notin live
    BY <1>1, <1>2 DEF Steady
  <1>4. live' = {}
    BY <1>3 DEF Destroy
  <1>5. Visible' = {}
    BY <1>2 DEF Visible, Indexes, Sizes
  <1>6. IdleTransports' = {}
    BY <1>5 DEF Idle, IdleTransports
  <1>7. checker'.pc # "creating"
    BY <1>2 DEF Typed, Rounds
  <1>8. QED
    BY <1>2, <1>4, <1>5, <1>6, <1>7, FS_EmptySet DEF Steady

\* Without failures no connection is replaced.
LEMMA SteadyReplacing ==
    ASSUME Sizes, Typed, Lent, Steady, CheckDestroys \/ CheckReconnects
    PROVE  Steady'
  <1>1. SUFFICES ASSUME ~Fails
                 PROVE  FALSE
    BY DEF Steady
  <1>2. undefined = "no"
    BY DEF CheckDestroys, CheckReconnects, Scanning
  <1>3. /\ checker.pc # "creating"
        /\ \A i \in Visible : connections[i].state # "INVALID"
    BY <1>1, <1>2 DEF Steady
  <1>4. CheckDestroys
    BY <1>3 DEF CheckReconnects
  <1>5. checker.i \in Visible
    BY <1>4, VisibleFacts DEF CheckDestroys, Scanning, Typed, Rounds
  <1>6. QED
    BY <1>3, <1>4, <1>5 DEF CheckDestroys

-----------------------------------------------------------------------------
\* The inductive invariant.
IInv == Typed /\ Lent /\ Steady

\* Every step keeps it.
LEMMA Preserved ==
    ASSUME Sizes, IInv, [Next]_vars
    PROVE  IInv'
  <1>1. CASE UNCHANGED vars
    <2>1. UNCHANGED <<Visible, Idle, Using, IdleTransports>>
      BY <1>1 DEF vars, Visible, Idle, Using, IdleTransports
    <2>2. Typed'
      BY <1>1, <2>1 DEF IInv, Typed, vars
    <2>3. IdleApart' = IdleApart /\ IdleFree' = IdleFree /\ OneUser' = OneUser /\ IdleLive' = IdleLive
      BY <1>1, <2>1 DEF vars, IdleApart, IdleFree, OneUser, IdleLive
    <2>4. Backed' = Backed /\ Replacing' = Replacing
      BY <1>1, <2>1 DEF vars, Backed, Backs, Replacing
    <2>5. Lent'
      BY <1>1, <2>3, <2>4 DEF IInv, Lent, vars
    <2>6. Steady'
      BY <1>1, <2>1 DEF IInv, Steady, vars
    <2>7. QED
      BY <2>2, <2>5, <2>6 DEF IInv
  <1>2. ASSUME NEW u \in Users, GetIdle(u)
        PROVE  IInv'
    BY <1>2, GetIdleKept, SteadyGetIdle DEF IInv
  <1>3. ASSUME NEW u \in Users, GetCreates(u) \/ GetFails(u)
        PROVE  IInv'
    BY <1>3, ConnectingKept, SteadyUntouched DEF IInv
  <1>4. ASSUME NEW u \in Users, GetCreated(u)
        PROVE  IInv'
    BY <1>4, GetCreatedKept, SteadyGetCreated DEF IInv
  <1>5. ASSUME NEW u \in Users, Release(u)
        PROVE  IInv'
    BY <1>5, ReleaseKept, SteadyRelease DEF IInv
  <1>6. CASE CheckBegins \/ CheckSkips \/ CheckEnds
    BY <1>6, CheckMovesKept, SteadyUntouched DEF IInv
  <1>7. CASE CheckCloses
    BY <1>7, CheckClosesKept, SteadyCheckCloses DEF IInv
  <1>8. CASE CheckDestroys
    BY <1>8, CheckDestroysKept, SteadyReplacing DEF IInv
  <1>9. CASE CheckReconnects
    BY <1>9, CheckReconnectsKept, SteadyReplacing DEF IInv
  <1>10. CASE Destroy
    BY <1>10, DestroyKept, SteadyDestroy DEF IInv
  <1>11. QED
    BY <1>1, <1>2, <1>3, <1>4, <1>5, <1>6, <1>7, <1>8, <1>9, <1>10 DEF Next

\* mcp_ws_connection_pool_get never lends a connection that another user has, although
\* invalid entries keep the address of a destroyed transport and the allocator uses it
\* again; and while connections never fail the pool's counts are those of the idle and
\* of all connections, a connection in use is alive and destroy leaves none alive: for
\* any number of users, addresses and connections.
THEOREM PoolLends ==
    ASSUME Sizes
    PROVE  Spec => []LentOnce
  <1>1. Init => IInv
    BY Begins, SteadyBegins DEF IInv
  <1>2. IInv /\ [Next]_vars => IInv'
    BY Preserved
  <1>3. IInv => LentOnce
    <2>1. SUFFICES ASSUME IInv
                   PROVE  LentOnce
      OBVIOUS
    <2>2. OneUserEach
      BY <2>1 DEF IInv, Lent, OneUser, OneUserEach
    <2>3. ReliableExact
      <3>1. SUFFICES ASSUME ~Fails, undefined = "no"
                     PROVE  ReliableExact
        BY DEF ReliableExact
      <3>2. IdleApart /\ Backed
        BY <2>1, <3>1 DEF IInv, Lent
      <3>3. Cardinality(IdleTransports) = Cardinality(Idle)
        BY <2>1, <3>2, IdleTransportsFinite DEF IInv
      <3>4. QED
        BY <2>1, <3>1, <3>2, <3>3 DEF IInv, Steady, Backed, ReliableExact
    <2>4. QED
      BY <2>2, <2>3 DEF LentOnce
  <1>4. QED
    BY <1>1, <1>2, <1>3, PTL DEF Spec
=============================================================================
