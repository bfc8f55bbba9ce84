------------------------------- MODULE Cache --------------------------------
(* The server's resource cache: a hash table of entries, a list of them in the *)
(* order of their last use, and expiry times.  Sources: src/server/mcp_cache.c *)
(*                                                                             *)
(* An action is what a thread does under the read-write lock, or between two   *)
(* such sections.  An entry is known by the number of the put that made it; its *)
(* content items are taken from an object pool, and are released or not all at *)
(* once.  Any allocation may fail.                                             *)
EXTENDS Integers, Sequences, FiniteSets

Seqs == INSTANCE SequencesExt

CONSTANTS Keys, Threads,
          Capacity,    \* max number of entries, not 0
          DefaultTtl,  \* default_ttl_seconds
          Ttls,        \* the ttl_seconds that put is called with
          Counts,      \* the content_count that put is called with
          MaxTime,     \* bound: the clock
          MaxPuts      \* bound: entries made

VARIABLES cache,     \* up, destroyed; or undefined once memory was misused
          table,     \* key -> its entry, or None
          lru,       \* the entries in the LRU list, most recently used first
          entry,     \* entry -> its key, expiry_time and content_count
          released,  \* the entries whose items were given back to the pool
          puts,      \* entries made so far
          time,
          thread,    \* each thread: its operation, and what it has read
          hit,       \* history: the last hit
          failed     \* history: an insertion failed half-way

vars == <<cache, table, lru, entry, released, puts, time, thread, hit, failed>>

Entries == 1 .. MaxPuts
None == 0
Garbage == -1               \* a copy of items that were released

Idle == [pc |-> "idle", key |-> CHOOSE k \in Keys : TRUE, now |-> 0, room |-> 0,
         id |-> None]
NoHit == [key |-> Idle.key, now |-> 0, id |-> None]

Init ==
    /\ cache = "up"
    /\ table = [k \in Keys |-> None]
    /\ lru = <<>>
    /\ entry = [e \in Entries |-> [key |-> Idle.key, expiry |-> 0, count |-> 1]]
    /\ released = {}
    /\ puts = 0
    /\ time = 1
    /\ thread = [t \in Threads |-> Idle]
    /\ hit = NoHit
    /\ failed = FALSE

-----------------------------------------------------------------------------
\* Mutant: an entry is valid in the second in which it expires.
ValidLonger(e, now) == entry[e].expiry = 0 \/ now <= entry[e].expiry

\* An expiry_time of 0 means never.
Valid(e, now) == entry[e].expiry = 0 \/ now < entry[e].expiry

\* create_cache_entry: a ttl of 0 is the default, a negative one means never.
Expiry(ttl) ==
    LET effective == IF ttl = 0 THEN DefaultTtl ELSE ttl
    IN  IF effective < 0 THEN 0 ELSE time + effective

At(t, pc) == cache = "up" /\ thread[t].pc = pc

Return(t) == thread' = [thread EXCEPT ![t] = Idle]

Without(e) == Seqs!Remove(lru, e)

\* What mcp_list_remove or mcp_list_move_to_front does to the node of an entry:
\* the node may have been freed when an earlier insertion failed.
NodeOf(e) == Seqs!Contains(lru, e)

Crash == cache' = "undefined" /\ UNCHANGED <<table, lru>>

\* The entry of key k is taken out of the list and of the table, which frees it.
Drop(k) ==
    IF NodeOf(table[k])
    THEN /\ lru' = Without(table[k])
         /\ table' = [table EXCEPT ![k] = None]
         /\ UNCHANGED cache
    ELSE Crash

-----------------------------------------------------------------------------
(* mcp_cache_get *)

Get(t, k) ==
    /\ At(t, "idle")
    /\ table[k] # None
    /\ thread' = [thread EXCEPT ![t] =
          [pc |-> IF Valid(table[k], time) THEN "found" ELSE "expired",
           key |-> k, now |-> time, room |-> entry[table[k]].count, id |-> None]]
    /\ UNCHANGED <<cache, table, lru, entry, released, puts, time, hit, failed>>

\* An expired entry is removed if it is still there and still expired.  Its
\* items are not given back.
GetExpired(t) ==
    LET k == thread[t].key
    IN  /\ At(t, "expired")
        /\ IF table[k] # None /\ ~Valid(table[k], thread[t].now) THEN Drop(k)
           ELSE UNCHANGED <<cache, table, lru>>
        /\ Return(t)
        /\ UNCHANGED <<entry, released, puts, time, hit, failed>>

\* The second look, in which the pointers to the content items are read.
GetPointers(t) ==
    LET e == table[thread[t].key]
    IN  /\ At(t, "found")
        /\ IF e = None THEN Return(t)
           ELSE thread' = [thread EXCEPT ![t].id = e,
                              ![t].pc = IF Valid(e, thread[t].now) THEN "pointers"
                                        ELSE "expired"]
        /\ UNCHANGED <<cache, table, lru, entry, released, puts, time, hit, failed>>

\* The items are copied without the lock; they may have been released, and there
\* may be more of them than the first look made room for.
GetCopy(t) ==
    /\ At(t, "pointers")
    /\ thread' = [thread EXCEPT ![t].pc = "copied",
                     ![t].id = IF @ \in released THEN Garbage ELSE @]
    /\ cache' = IF entry[thread[t].id].count > thread[t].room
                THEN "undefined" ELSE cache
    /\ UNCHANGED <<table, lru, entry, released, puts, time, hit, failed>>

\* No memory, or the pool is empty.
GetFails(t) ==
    /\ cache = "up"
    /\ thread[t].pc \in {"found", "pointers"}
    /\ Return(t)
    /\ UNCHANGED <<cache, table, lru, entry, released, puts, time, hit, failed>>

\* The third look: a hit if the key has a valid entry, which becomes the most
\* recently used; it need not be the entry that was copied.
GetTouch(t) ==
    LET k == thread[t].key
    IN  /\ At(t, "copied")
        /\ IF table[k] = None
           THEN UNCHANGED <<cache, table, lru, hit>>
           ELSE IF ~Valid(table[k], thread[t].now)
           THEN Drop(k) /\ UNCHANGED hit
           ELSE IF ~NodeOf(table[k])
           THEN Crash /\ UNCHANGED hit
           ELSE /\ lru' = <<table[k]>> \o Without(table[k])
                /\ hit' = [key |-> k, now |-> thread[t].now, id |-> thread[t].id]
                /\ UNCHANGED <<cache, table>>
        /\ Return(t)
        /\ UNCHANGED <<entry, released, puts, time, failed>>

-----------------------------------------------------------------------------
(* mcp_cache_put *)

\* The new entry and its items are made without the lock.
Put(t, k, ttl, count) ==
    /\ At(t, "idle")
    /\ puts < MaxPuts
    /\ puts' = puts + 1
    /\ entry' = [entry EXCEPT ![puts + 1] = [key |-> k, expiry |-> Expiry(ttl),
                                             count |-> count]]
    /\ thread' = [thread EXCEPT ![t] = [pc |-> "prepared", key |-> k, now |-> time,
                                        room |-> 0, id |-> puts + 1]]
    /\ UNCHANGED <<cache, table, lru, released, time, hit, failed>>

\* The pool has no further item: those already taken are released twice, by the
\* loop and by free_entry_resources.
PutCopyFails(t) ==
    /\ At(t, "idle")
    /\ \E count \in Counts : count > 1
    /\ Crash
    /\ UNCHANGED <<entry, released, puts, time, thread, hit, failed>>

\* There is no room for key k unless the tail of the list is evicted.
Full(k) == table[k] = None /\ Cardinality({j \in Keys : table[j] # None}) >= Capacity

\* evict_lru_entry finds nothing in the list.
CannotEvict(k) == Full(k) /\ lru = <<>>

\* What has to leave the list: the old entry of the key, or the tail.
Victim(k) == IF table[k] # None THEN table[k]
             ELSE IF Full(k) THEN lru[Len(lru)] ELSE None

\* The victim is where it should be: in the list, and in the table.
VictimSound(k) ==
    \/ Victim(k) = None
    \/ NodeOf(Victim(k)) /\ \E j \in Keys : table[j] = Victim(k)

Evicted(k) ==
    [j \in Keys |-> IF Full(k) /\ table[j] = lru[Len(lru)] THEN None ELSE table[j]]

\* Mutant: the old entry of the key stays in the list.
PutInsertKeepsNode(t) ==
    LET k == thread[t].key
        e == thread[t].id
    IN  /\ At(t, "prepared")
        /\ ~CannotEvict(k)
        /\ IF ~VictimSound(k) THEN Crash
           ELSE /\ table' = [Evicted(k) EXCEPT ![k] = e]
                /\ lru' = <<e>> \o (IF Full(k) THEN Without(Victim(k)) ELSE lru)
                /\ UNCHANGED cache
        /\ Return(t)
        /\ UNCHANGED <<entry, released, puts, time, hit, failed>>

\* The items of a victim are not given back.
PutInsert(t) ==
    LET k == thread[t].key
        e == thread[t].id
    IN  /\ At(t, "prepared")
        /\ ~CannotEvict(k)
        /\ IF ~VictimSound(k) THEN Crash
           ELSE /\ table' = [Evicted(k) EXCEPT ![k] = e]
                /\ lru' = <<e>> \o Without(Victim(k))
                /\ UNCHANGED cache
        /\ Return(t)
        /\ UNCHANGED <<entry, released, puts, time, hit, failed>>

\* Nothing to evict; or no memory for the node, or for the table to grow.  The new
\* entry is freed, but its node may stay, and so may an old entry of the key whose
\* node was removed.
PutInsertFails(t) ==
    LET k == thread[t].key
        e == thread[t].id
    IN  /\ At(t, "prepared")
        /\ IF CannotEvict(k)
           THEN UNCHANGED <<cache, table, lru>>
           ELSE IF ~VictimSound(k) THEN Crash
           ELSE /\ table' = Evicted(k)
                /\ lru' \in {Without(Victim(k)), <<e>> \o Without(Victim(k))}
                /\ UNCHANGED cache
        /\ released' = released \cup {e}
        /\ failed' = TRUE
        /\ Return(t)
        /\ UNCHANGED <<entry, puts, time, hit>>

-----------------------------------------------------------------------------
(* Invalidation, pruning, destruction: the items are given back. *)

Invalidate(k) ==
    /\ cache = "up"
    /\ table[k] # None
    /\ Drop(k)
    /\ released' = released \cup {table[k]}
    /\ UNCHANGED <<entry, puts, time, thread, hit, failed>>

Expired == {k \in Keys : table[k] # None /\ ~Valid(table[k], time)}

\* mcp_cache_prune_expired; without memory for the list of keys it does nothing.
Prune ==
    LET gone == {table[k] : k \in Expired}
    IN  /\ cache = "up"
        /\ Expired # {}
        /\ IF \E e \in gone : ~NodeOf(e) THEN Crash
           ELSE /\ lru' = SelectSeq(lru, LAMBDA e : e \notin gone)
                /\ table' = [k \in Keys |-> IF k \in Expired THEN None ELSE table[k]]
                /\ UNCHANGED cache
        /\ released' = released \cup gone
        /\ UNCHANGED <<entry, puts, time, thread, hit, failed>>

Destroy ==
    /\ cache = "up"
    /\ \A t \in Threads : thread[t].pc = "idle"
    /\ cache' = "destroyed"
    /\ released' = released \cup ({table[k] : k \in Keys} \ {None})
    /\ table' = [k \in Keys |-> None]
    /\ lru' = <<>>
    /\ UNCHANGED <<entry, puts, time, thread, hit, failed>>

Tick ==
    /\ cache = "up"
    /\ time < MaxTime
    /\ time' = time + 1
    /\ UNCHANGED <<cache, table, lru, entry, released, puts, thread, hit, failed>>

-----------------------------------------------------------------------------
Next ==
    \/ \E t \in Threads :
          \/ \E k \in Keys : Get(t, k) \/ \E ttl \in Ttls, count \in Counts : Put(t, k, ttl, count)
          \/ GetExpired(t) \/ GetPointers(t) \/ GetCopy(t) \/ GetFails(t)
          \/ GetTouch(t) \/ PutCopyFails(t) \/ PutInsert(t) \/ PutInsertFails(t)
    \/ \E k \in Keys : Invalidate(k)
    \/ Prune
    \/ Destroy
    \/ Tick

Spec == Init /\ [][Next]_vars

-----------------------------------------------------------------------------
TypeOK ==
    /\ cache \in {"up", "destroyed", "undefined"}
    /\ table \in [Keys -> Entries \cup {None}]
    /\ \A i \in DOMAIN lru : lru[i] \in Entries
    /\ entry \in [Entries -> [key : Keys, expiry : Nat, count : Counts]]
    /\ released \subseteq Entries
    /\ puts \in 0 .. MaxPuts
    /\ time \in 1 .. MaxTime
    /\ thread \in [Threads -> [pc : {"idle", "expired", "found", "pointers", "copied",
                                     "prepared"},
                               key : Keys, now : 0 .. MaxTime, room : Nat,
                               id : Entries \cup {None, Garbage}]]
    /\ failed \in BOOLEAN

\* Table and LRU list hold the same entries, each once and under its own key,
\* and no more than the capacity, whatever the threads' removals of expired
\* entries, replacements, evictions and moves to the front: what is evicted is
\* in the table, and what is in the table can be evicted.  (Until an insertion
\* fails for lack of memory.)
LruMatches ==
    (cache = "up" /\ ~failed) =>
       /\ {lru[i] : i \in DOMAIN lru} = {table[k] : k \in Keys} \ {None}
       /\ Seqs!IsInjective(lru)
       /\ Len(lru) <= Capacity
       /\ \A k \in Keys : table[k] # None => entry[table[k]].key = k

\* A hit returns content that was put under that key and had not expired when
\* get was called, or nothing sensible at all: never the content of another
\* key or of an entry that had expired, though get looks three times and the
\* entry may be replaced in between.
HitsValid ==
    hit.id \in Entries =>
       /\ entry[hit.id].key = hit.key
       /\ entry[hit.id].expiry = 0 \/ hit.now < entry[hit.id].expiry

\* "Thread-safe resource cache" (mcp_cache.c:5): a hit never returns content
\* that was released while it was copied.
HitsIntact == hit.id # Garbage
=============================================================================
