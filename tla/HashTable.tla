------------------------------ MODULE HashTable ------------------------------
(* The hash table of the library (src/common/mcp_hashtable.c): chains of entries  *)
(* that double in number when they are too full.  It promises an OwningMap.       *)
EXTENDS Naturals, Sequences, FiniteSets, FiniteSetsExt, SequencesExt

CONSTANTS Keys, Values, NoValue,
          Hash,                 \* the hash of every key
          InitialCapacity,
          Load,                 \* load_factor_threshold, in quarters
          MaxCapacity           \* bound: a larger array is not to be had

VARIABLES buckets, capacity, size,
          owned, answer         \* what the table has taken and not freed, and the last answer

vars == <<buckets, capacity, size, owned, answer>>

Entry == [key : Keys, value : Values]

TypeOK ==
    /\ capacity \in 1 .. MaxCapacity
    /\ buckets \in [0 .. capacity - 1 -> Seq(Entry)]
    /\ size \in Nat
    /\ owned \subseteq Values
    /\ answer \in [op : {"create", "put", "get", "remove", "clear"}, key : Keys \cup {NoValue},
                   result : Values \cup {NoValue}]

\* next_power_of_two.
Power[n \in Nat] == IF n >= InitialCapacity THEN n ELSE Power[2 * n]

\* mcp_hashtable_create.
Init ==
    /\ capacity = IF InitialCapacity = 0 THEN 16 ELSE Power[1]
    /\ buckets = [i \in 0 .. capacity - 1 |-> <<>>]
    /\ size = 0
    /\ owned = {}
    /\ answer = [op |-> "create", key |-> NoValue, result |-> NoValue]

Table == [buckets |-> buckets, capacity |-> capacity, size |-> size, owned |-> owned]
Becomes(t) == buckets' = t.buckets /\ capacity' = t.capacity /\ size' = t.size /\ owned' = t.owned

\* Mutant: the entries keep the index they had.
ResizedStale(t, n) ==
    [t EXCEPT !.buckets = [i \in 0 .. n - 1 |-> IF i < t.capacity THEN Reverse(t.buckets[i]) ELSE <<>>],
              !.capacity = n]

\* hashtable_resize of table t puts every entry in front of its new chain, one old
\* chain after the other.
Resized(t, n) ==
    LET all == FlattenSeq([i \in 1 .. t.capacity |-> t.buckets[i - 1]])
    IN  [t EXCEPT !.buckets = [i \in 0 .. n - 1 |-> Reverse(SelectSeq(all, LAMBDA e : Hash[e.key] % n = i))],
                  !.capacity = n]

TooFull(t, count, n) == 4 * (t.size + count) > Load * n
Grown(t) == IF TooFull(t, 1, t.capacity) THEN Resized(t, 2 * t.capacity) ELSE t

\* Where key is in its chain of table t; 0 when it is not.
Chain(t, key) == t.buckets[Hash[key] % t.capacity]
At(t, key) ==
    LET found == {i \in DOMAIN Chain(t, key) : Chain(t, key)[i].key = key}
    IN  IF found = {} THEN 0 ELSE Min(found)

With(chains, b, chain) == [i \in DOMAIN chains |-> IF i = b THEN chain ELSE chains[i]]

\* What mcp_hashtable_put makes of table t: the array grows before the key is
\* looked up, and the value that is replaced is freed.
Stored(t0, key, value) ==
    LET t == Grown(t0)
        b == Hash[key] % t.capacity
        i == At(t, key)
    IN  IF i # 0
        THEN [t EXCEPT !.buckets = With(@, b, ReplaceAt(@[b], i, [key |-> key, value |-> value])),
                       !.owned = (@ \ {t.buckets[b][i].value}) \cup {value}]
        ELSE [t EXCEPT !.buckets = With(@, b, Append(@[b], [key |-> key, value |-> value])),
                       !.owned = @ \cup {value}, !.size = @ + 1]

Answer(op, key, result) == answer' = [op |-> op, key |-> key, result |-> result]

Put(key, value) ==
    /\ value \notin owned
    /\ Grown(Table).capacity <= MaxCapacity
    /\ Becomes(Stored(Table, key, value))
    /\ Answer("put", key, value)

\* The larger array is not to be had.
PutFailsToGrow(key) ==
    /\ TooFull(Table, 1, capacity)
    /\ Answer("put", key, NoValue)
    /\ UNCHANGED <<buckets, capacity, size, owned>>

\* No entry, or no copy of the key: the array has grown all the same.
PutFailsLater(key) ==
    /\ Grown(Table).capacity <= MaxCapacity
    /\ At(Grown(Table), key) = 0
    /\ Becomes(Grown(Table))
    /\ Answer("put", key, NoValue)

\* mcp_hashtable_put_batch of two: room for both, and then each of them.
Roomy(count) == CHOOSE n \in {capacity * 2 ^ k : k \in 0 .. 3} :
                    /\ ~TooFull(Table, count, n)
                    /\ n = capacity \/ TooFull(Table, count, n \div 2)

PutBatch(key1, value1, key2, value2) ==
    LET t == IF TooFull(Table, 2, capacity) THEN Resized(Table, Roomy(2)) ELSE Table
    IN  /\ {value1, value2} \cap owned = {} /\ value1 # value2
        /\ t.capacity <= MaxCapacity
        /\ Becomes(Stored(Stored(t, key1, value1), key2, value2))
        /\ Answer("put", key2, value2)

\* mcp_hashtable_get and mcp_hashtable_contains.
Found(key) == IF At(Table, key) = 0 THEN NoValue ELSE Chain(Table, key)[At(Table, key)].value

Get(key) == Answer("get", key, Found(key)) /\ UNCHANGED <<buckets, capacity, size, owned>>

\* mcp_hashtable_remove.
RemoveKey(key) ==
    LET i == At(Table, key)
        b == Hash[key] % capacity
    IN  /\ Answer("remove", key, Found(key))
        /\ IF i = 0
           THEN UNCHANGED <<buckets, size, owned>>
           ELSE /\ buckets' = [buckets EXCEPT ![b] = RemoveAt(@, i)]
                /\ owned' = owned \ {buckets[b][i].value}
                /\ size' = size - 1
        /\ UNCHANGED capacity

\* mcp_hashtable_clear keeps the array.
Clear ==
    /\ buckets' = [i \in 0 .. capacity - 1 |-> <<>>]
    /\ size' = 0 /\ owned' = {}
    /\ Answer("clear", NoValue, NoValue)
    /\ UNCHANGED capacity

Next ==
    \/ \E key \in Keys, value \in Values : Put(key, value)
    \/ \E key \in Keys : PutFailsToGrow(key) \/ PutFailsLater(key) \/ Get(key) \/ RemoveKey(key)
    \/ Clear
    \/ \E k1, k2 \in Keys, v1, v2 \in Values : PutBatch(k1, v1, k2, v2)

Spec == Init /\ [][Next]_vars

-----------------------------------------------------------------------------
Entries == UNION {Range(buckets[i]) : i \in 0 .. capacity - 1}

\* The size is the number of the entries, each key has one, and the values the
\* table has not freed are those in it.
SizeExact ==
    /\ size = Cardinality(Entries)
    /\ Cardinality({e.key : e \in Entries}) = size
    /\ owned = {e.value : e \in Entries}
    /\ 4 * size <= Load * capacity

M == INSTANCE OwningMap WITH map <- [key \in {e.key : e \in Entries} |-> Found(key)]

\* The table, its growth included, is a map that owns its values.
ImplementsOwningMap == M!Spec
=============================================================================
