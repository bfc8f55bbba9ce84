---------------------------- MODULE RequestTable -----------------------------
(* The open-addressing hash table of pending requests of the client,           *)
(* src/client/mcp_client_hash_table.c.  All its operations run under the       *)
(* client's pending_requests_mutex, so each is one step.  A slot keeps the id  *)
(* of a removed request as a tombstone; what else a request holds is left out. *)
EXTENDS Integers, FiniteSets, FiniteSetsExt

Seqs == INSTANCE SequencesExt

CONSTANTS Ids,              \* request ids, none of them 0
          Hash,             \* hash_id without its last step, the masking
          InitialCapacity,  \* INITIAL_PENDING_REQUESTS_CAPACITY
          MaxCapacity,      \* the capacity the table may not exceed
          SmallTable,       \* below this capacity a search may visit all slots
          ProbeLimit,       \* MAX_PROBE_DISTANCE, a search's limit in larger ones
          RehashLimit       \* the limit of a resize in larger ones

VARIABLES table,     \* pending_requests_table
          capacity,  \* pending_requests_capacity
          count      \* pending_requests_count

vars == <<table, capacity, count>>

Slot == [id : Ids \cup {0}, live : BOOLEAN]
Empty == [id |-> 0, live |-> FALSE]
None == -1

Slots == 0 .. capacity - 1

Init ==
    /\ capacity = InitialCapacity
    /\ table = [i \in Slots |-> Empty]
    /\ count = 0

-----------------------------------------------------------------------------
\* The slot of probe number k: the distance grows by one with each probe,
\* starting from INITIAL_PROBE_DISTANCE, 1.
Probe(id, k, n) == (Hash[id] + (k * (k + 3)) \div 2) % n

Probes(n) == 0 .. (IF n < SmallTable THEN n ELSE ProbeLimit) - 1

\* The probes of a resize, which go further than those of a search.
RehashProbes(n) == 0 .. (IF n < SmallTable THEN n ELSE RehashLimit) - 1

\* The probes at which a search for id in table t of n slots stops.
Stops(t, n, id) == {k \in Probes(n) : t[Probe(id, k, n)].id \in {id, 0}}

IsTombstone(s) == s.id # 0 /\ ~s.live

\* Mutant: a search that hits the probe limit gives up.
LookupProbesOnly(t, n, id) ==
    LET stops == Stops(t, n, id)
    IN  IF stops # {} /\ t[Probe(id, Min(stops), n)].id = id
        THEN Probe(id, Min(stops), n)
        ELSE None

\* mcp_client_find_pending_request_entry to look up a request: a search that
\* hits the probe limit falls back to a scan of the whole table.
Lookup(t, n, id) ==
    LET stops == Stops(t, n, id)
        all == {i \in 0 .. n - 1 : t[i].id = id}
    IN  IF stops # {}
        THEN LET i == Probe(id, Min(stops), n)
             IN  IF t[i].id = id THEN i ELSE None
        ELSE IF all # {} THEN Min(all) ELSE None

\* The same function to find a slot for an insertion.
InsertionSlot(t, n, id) ==
    LET stops == Stops(t, n, id)
        deleted == {k \in Probes(n) : /\ IsTombstone(t[Probe(id, k, n)])
                                      /\ \A s \in stops : k < s}
    IN  IF stops # {} /\ t[Probe(id, Min(stops), n)].id = id
        THEN Probe(id, Min(stops), n)
        ELSE IF deleted # {} THEN Probe(id, Min(deleted), n)
        ELSE IF stops # {} THEN Probe(id, Min(stops), n)
        ELSE None

\* Mutant: an entry that collides in the new table is dropped.
RehashedLossy(n) ==
    Seqs!FoldLeft(LAMBDA t, s :
                IF s.live /\ t[Probe(s.id, 0, n)].id = 0
                THEN [t EXCEPT ![Probe(s.id, 0, n)] = s]
                ELSE t,
             [i \in 0 .. n - 1 |-> Empty],
             [i \in 1 .. capacity |-> table[i - 1]])

\* resize_pending_requests_table: every live entry goes to the first free slot
\* of its probe sequence in the new table, the tombstones are dropped.  The
\* result is empty if an entry hits the limit of the resize; one that goes beyond
\* the limit of a search is found by its scan only.
Rehashed(n) ==
    LET free(t, id) == {k \in RehashProbes(n) : t[Probe(id, k, n)].id = 0}
    IN  Seqs!FoldLeft(LAMBDA t, s :
                    IF ~s.live \/ t = <<>> THEN t
                    ELSE IF free(t, s.id) = {} THEN <<>>
                    ELSE [t EXCEPT ![Probe(s.id, Min(free(t, s.id)), n)] = s],
                 [i \in 0 .. n - 1 |-> Empty],
                 [i \in 1 .. capacity |-> table[i - 1]])

NeedsResize == ((count + 1) * 100) \div capacity >= 75

CanResize == 2 * capacity <= MaxCapacity /\ Rehashed(2 * capacity) # <<>>

-----------------------------------------------------------------------------
\* The entries table t holds: what a resize sets the count to.
LiveSlots(t) == {i \in DOMAIN t : t[i].live}

\* mcp_client_add_pending_request_entry: a resize may come first, and stays
\* when the insertion then fails.
AddEntry(id) ==
    IF NeedsResize /\ ~CanResize
    THEN UNCHANGED vars
    ELSE LET n == IF NeedsResize THEN 2 * capacity ELSE capacity
             t == IF NeedsResize THEN Rehashed(n) ELSE table
             c == IF NeedsResize THEN Cardinality(LiveSlots(t)) ELSE count
             i == InsertionSlot(t, n, id)
         IN  /\ capacity' = n
             /\ IF i = None \/ (i # None /\ t[i].id = id)
                THEN table' = t /\ count' = c
                ELSE /\ table' = [t EXCEPT ![i] = [id |-> id, live |-> TRUE]]
                     /\ count' = c + 1

\* Mutant: the slot of a removed request is emptied.
RemoveEmpties(id) ==
    LET i == Lookup(table, capacity, id)
    IN  /\ i # None
        /\ table[i].live
        /\ table' = [table EXCEPT ![i] = Empty]
        /\ count' = count - 1
        /\ UNCHANGED capacity

\* mcp_client_remove_pending_request_entry of a request that is in the table;
\* for any other id it does nothing.
RemoveEntry(id) ==
    LET i == Lookup(table, capacity, id)
    IN  /\ i # None
        /\ table[i].live
        /\ table' = [table EXCEPT ![i].live = FALSE]
        /\ count' = count - 1
        /\ UNCHANGED capacity

\* The requests the table holds, wherever they are.
Live == {table[i].id : i \in LiveSlots(table)}

\* Nobody adds an id that is pending: mcp_client_send_request counts its ids up,
\* and the gateway, whose ids come from its own clients, has one request at a time
\* on a connection.
Next == \E id \in Ids : (id \notin Live /\ AddEntry(id)) \/ RemoveEntry(id)

Spec == Init /\ [][Next]_vars

-----------------------------------------------------------------------------

TypeOK ==
    /\ capacity \in Nat \ {0}
    /\ table \in [Slots -> Slot]
    /\ count \in Nat

\* A lookup finds a request exactly if it is pending, whatever was inserted,
\* removed and rehashed before: tombstones keep probe sequences connected, and
\* a response never misses the call that waits for it.
LookupFindsPending ==
    \A id \in Ids :
       LET i == Lookup(table, capacity, id)
       IN  id \in Live <=> (i # None /\ table[i].live)

\* The count that decides on a resize is the number of live entries, and no id
\* has two of them.
CountExact ==
    /\ count = Cardinality(LiveSlots(table))
    /\ \A i, j \in LiveSlots(table) : i # j => table[i].id # table[j].id

\* The table implements a set of pending ids: a resize or an insertion loses
\* no other request.
Pending == INSTANCE PendingSet WITH members <- Live
ImplementsPendingSet == Pending!Spec
=============================================================================
