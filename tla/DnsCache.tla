------------------------------ MODULE DnsCache ------------------------------
(***************************************************************************)
(* The cache of resolved addresses behind create_new_connection            *)
(* (src/connection_pool/mcp_connection_pool_dns_cache.c and                *)
(* mcp_connection_pool_socket.c).  A thread looks its host up under the    *)
(* read lock, resolves it with no lock when it has to, stores the result   *)
(* under the write lock in the slot it chose while it looked, connects     *)
(* with the result and releases it.  A lookup is one step although readers *)
(* may take turns inside it.                                               *)
(***************************************************************************)
EXTENDS Naturals, FiniteSets

CONSTANTS
    Threads,
    Hosts,
    Addresses,    \* Where a resolved list can lie in memory.
    Size,         \* DNS_CACHE_SIZE.
    Expiry,       \* DNS_CACHE_EXPIRY.
    MaxTime, MaxHits,
    Orderly,      \* Whether no lookup overlaps a miss and no list expires in use.
    NULL

VARIABLES
    entries,      \* g_dns_cache.entries.
    now,
    thread,       \* Where each thread is, what it holds and the slot it chose.
    live,         \* The lists that are allocated.
    undefined     \* Whether a list that was freed has been used.

vars == <<entries, now, thread, live, undefined>>

Slots == 0 .. Size - 1

Empty == [hostname |-> NULL, addr_info |-> NULL, timestamp |-> 0,
          ref_count |-> 0, hit_count |-> 0]

Idle == [pc |-> "idle", host |-> NULL, held |-> NULL, freed |-> FALSE, slot |-> 0,
         time |-> 0]

\* The entries and the threads have their shape.
TypeOK ==
    /\ entries \in [Slots -> [hostname : Hosts \cup {NULL},
                              addr_info : Addresses \cup {NULL},
                              timestamp : 0 .. MaxTime,
                              ref_count : 0 .. Cardinality(Threads),
                              hit_count : 0 .. MaxHits]]
    /\ \A t \in Threads : thread[t].pc \in {"idle", "resolving", "storing",
                                            "connecting", "releasing"}
    /\ live \subseteq Addresses /\ undefined \in BOOLEAN

\* The clock starts far beyond the expiry.
Init ==
    /\ entries = [i \in Slots |-> Empty] /\ now = Expiry + 1
    /\ thread = [t \in Threads |-> Idle]
    /\ live = {} /\ undefined = FALSE

LowestOf(S, default) ==
    IF S = {} THEN default ELSE CHOOSE i \in S : \A j \in S : i <= j

\* The slot holding the host; the walk ends there.
Found(host) == LowestOf({i \in Slots : entries[i].hostname = host}, Size)

Walked(host) == {i \in Slots : i <= Found(host)}

\* The candidates with the referenced entries among them.
CandidatesAll(host) == {i \in Walked(host) : entries[i].hostname # NULL}

Candidates(host) ==
    {i \in Walked(host) : entries[i].hostname # NULL /\ entries[i].ref_count = 0}

\* The slot for the result when the walk found nothing: the first empty one
\* it saw, or the one least used or oldest of those without references; slot
\* 0 when it saw none.  The oldest counts only if it is older than now.
LeastOf(S, f) == LowestOf({i \in S : \A j \in S : f[i] <= f[j]}, 0)

ChooseSlot(host) ==
    LET empty == {i \in Walked(host) : entries[i].hostname = NULL}
        hits == [i \in Walked(host) |-> entries[i].hit_count]
        time == [i \in Walked(host) |-> entries[i].timestamp]
        least == LeastOf(Candidates(host), hits)
        oldest == LeastOf({i \in Candidates(host) : entries[i].timestamp < now}, time)
    IN IF empty # {} THEN LowestOf(empty, 0)
       ELSE IF least # oldest THEN least ELSE oldest

(***************************************************************************)
(* dns_cache_get.                                                          *)
(***************************************************************************)
Missing == \E t \in Threads : thread[t].pc \in {"resolving", "storing"}

Expired(e) == now - e.timestamp > Expiry

Hit(t, host) ==
    /\ thread[t].pc = "idle" /\ Found(host) # Size /\ (Orderly => ~Missing)
    /\ ~Expired(entries[Found(host)])
    /\ entries' = [entries EXCEPT ![Found(host)].ref_count = @ + 1,
                                  ![Found(host)].hit_count =
                                      IF @ < MaxHits THEN @ + 1 ELSE @]
    /\ thread' = [thread EXCEPT ![t] = [Idle EXCEPT !.pc = "connecting",
                    !.host = host, !.held = entries[Found(host)].addr_info]]
    /\ UNCHANGED <<now, live, undefined>>

\* An entry that has expired is cleared, or, while it is referenced, marked.
Miss(t, host) ==
    /\ thread[t].pc = "idle" /\ (Orderly => ~Missing)
    /\ Found(host) # Size => Expired(entries[Found(host)])
    /\ thread' = [thread EXCEPT ![t] = [Idle EXCEPT !.pc = "resolving",
                    !.host = host, !.slot = ChooseSlot(host), !.time = now]]
    /\ LET i == Found(host)
       IN IF i = Size THEN UNCHANGED <<entries, live>>
          ELSE IF entries[i].ref_count = 0
          THEN /\ entries' = [entries EXCEPT ![i] = Empty]
               /\ live' = live \ {entries[i].addr_info}
          ELSE /\ entries' = [entries EXCEPT ![i].timestamp = 0]
               /\ live' = live
    /\ UNCHANGED <<now, undefined>>

Resolve(t) ==
    /\ thread[t].pc = "resolving"
    /\ \/ /\ thread' = [thread EXCEPT ![t] = Idle]
          /\ live' = live
       \/ \E a \in Addresses \ live :
            /\ thread' = [thread EXCEPT ![t].pc = "storing", ![t].held = a]
            /\ live' = live \cup {a}
    /\ UNCHANGED <<entries, now, undefined>>

\* Whatever the slot holds by now is freed.
Store(t) ==
    /\ thread[t].pc = "storing"
    /\ LET i == thread[t].slot
           old == entries[i].addr_info
       IN /\ entries' = [entries EXCEPT ![i] =
                [hostname |-> thread[t].host, addr_info |-> thread[t].held,
                 timestamp |-> thread[t].time, ref_count |-> 1, hit_count |-> 1]]
          /\ live' = live \ {old}
          /\ thread' = [x \in Threads |->
                IF x = t THEN [thread[t] EXCEPT !.pc = "connecting", !.slot = 0,
                                                !.time = 0]
                ELSE IF old # NULL /\ thread[x].held = old
                THEN [thread[x] EXCEPT !.freed = TRUE] ELSE thread[x]]
    /\ UNCHANGED <<now, undefined>>

(***************************************************************************)
(* create_new_connection: connecting with the list, then dns_cache_release,*)
(* which finds the entry by the list's address.                            *)
(***************************************************************************)
Connect(t) ==
    /\ thread[t].pc = "connecting"
    /\ thread' = [thread EXCEPT ![t].pc = "releasing"]
    /\ undefined' = (undefined \/ thread[t].freed)
    /\ UNCHANGED <<entries, now, live>>

Release(t) ==
    /\ thread[t].pc = "releasing"
    /\ LET i == LowestOf({k \in Slots : entries[k].addr_info = thread[t].held}, Size)
       IN entries' = IF i # Size /\ entries[i].ref_count > 0
                     THEN [entries EXCEPT ![i].ref_count = @ - 1] ELSE entries
    /\ thread' = [thread EXCEPT ![t] = Idle]
    /\ UNCHANGED <<now, live, undefined>>

Clear ==
    /\ \E i \in Slots : entries[i].hostname # NULL /\ entries[i].ref_count = 0
    /\ entries' = [i \in Slots |->
                     IF entries[i].ref_count = 0 THEN Empty ELSE entries[i]]
    /\ live' = live \ {entries[i].addr_info : i \in
                         {k \in Slots : entries[k].ref_count = 0}}
    /\ UNCHANGED <<now, thread, undefined>>

Tick ==
    /\ now < MaxTime /\ now' = now + 1
    /\ Orderly => \A t \in Threads : thread[t] = Idle
    /\ UNCHANGED <<entries, thread, live, undefined>>

Next ==
    \/ \E t \in Threads :
          \/ \E host \in Hosts : Hit(t, host) \/ Miss(t, host)
          \/ Resolve(t) \/ Store(t) \/ Connect(t) \/ Release(t)
    \/ Clear \/ Tick

Spec == Init /\ [][Next]_vars

(***************************************************************************)
(* Properties.                                                             *)
(***************************************************************************)
Holders(a) == {t \in Threads : thread[t].held = a
                               /\ thread[t].pc \in {"connecting", "releasing"}}

\* While no lookup overlaps a miss, lists do not expire in use and there is a slot
\* for every thread, no list in use is freed, the reference counts are the
\* numbers of users and no list is lost (dns_cache_get, dns_cache_release).
ListsExact ==
    Orderly =>
    /\ ~undefined /\ \A t \in Threads : ~thread[t].freed
    /\ \A i \in Slots :
         /\ (entries[i].addr_info = NULL) = (entries[i].hostname = NULL)
         /\ entries[i].addr_info # NULL =>
              entries[i].ref_count = Cardinality(Holders(entries[i].addr_info))
    /\ live = ({entries[i].addr_info : i \in Slots} \ {NULL})
              \cup {thread[t].held : t \in {x \in Threads : thread[x].pc = "storing"}}

\* A list in use is not freed.  It is, when another thread looks up between a
\* miss and its store, when a list expires in use, and when there are more
\* users than slots.
NotFreedInUse == \A t \in Threads : ~thread[t].freed
=============================================================================
