----------------------------- MODULE ObjectPool ------------------------------
(* Pools of objects (src/common/mcp_object_pool.c) shared by threads, each of     *)
(* which keeps a few released objects to itself.  The server's content items and   *)
(* the connection pool's entries live in such pools.                             *)
(*                                                                             *)
(* A pool is the address of its structure; a new pool may get the address of one   *)
(* that was destroyed.  Objects are numbered in the order they are made.          *)
EXTENDS Integers, Sequences, FiniteSets, SequencesExt

CONSTANTS Threads, Pools,
          InitialCapacity, MaxCapacity,
          CacheSize,            \* TLS_CACHE_SIZE
          CachedPools,          \* MAX_CACHED_POOLS
          MaxObjects            \* bound: how many objects are ever made

VARIABLES alive, total_objects, free_list, current_usage,   \* of each pool
          tls_caches,           \* of each thread
          object,               \* the pool an object was made for, and whether it exists
          held,                 \* the objects each thread holds
          allocating,           \* threads that passed the check of the capacity, and for which pool
          foreign,              \* how many objects each pool was given that it did not make
          undefined             \* "no", or what the code did that C leaves undefined

vars == <<alive, total_objects, free_list, current_usage, tls_caches, object, held, allocating, foreign, undefined>>

None == "none"
Empty == [pool |-> None, objects |-> <<>>]
Slots == 1 .. CachedPools
Objects == DOMAIN object

TypeOK ==
    /\ alive \subseteq Pools
    /\ total_objects \in [Pools -> Nat] /\ current_usage \in [Pools -> Int]
    /\ free_list \in [Pools -> Seq(Objects)]
    /\ tls_caches \in [Threads -> [Slots -> [pool : Pools \cup {None}, objects : Seq(Objects)]]]
    /\ object \in Seq([pool : Pools, block : BOOLEAN, exists : BOOLEAN])
    /\ held \in [Threads -> SUBSET Objects]
    /\ allocating \in [Threads -> Pools \cup {None}]
    /\ foreign \in [Pools -> Nat]
    /\ undefined \in {"no", "freed_pool", "freed_object"}

Init ==
    /\ alive = {} /\ undefined = "no"
    /\ total_objects = [p \in Pools |-> 0] /\ current_usage = [p \in Pools |-> 0]
    /\ free_list = [p \in Pools |-> <<>>]
    /\ tls_caches = [t \in Threads |-> [s \in Slots |-> Empty]]
    /\ object = <<>>
    /\ held = [t \in Threads |-> {}]
    /\ allocating = [t \in Threads |-> None]
    /\ foreign = [p \in Pools |-> 0]

\* mcp_object_pool_create: the first objects are in one block of memory.
Create(p) ==
    /\ p \notin alive /\ Len(object) + InitialCapacity <= MaxObjects
    /\ alive' = alive \cup {p}
    /\ object' = object \o [i \in 1 .. InitialCapacity |-> [pool |-> p, block |-> TRUE, exists |-> TRUE]]
    /\ free_list' = [free_list EXCEPT ![p] = Reverse([i \in 1 .. InitialCapacity |-> Len(object) + i])]
    /\ total_objects' = [total_objects EXCEPT ![p] = InitialCapacity]
    /\ current_usage' = [current_usage EXCEPT ![p] = 0]
    /\ foreign' = [foreign EXCEPT ![p] = 0]
    /\ UNCHANGED <<tls_caches, held, allocating, undefined>>

\* find_tls_cache.
CacheOf(t, p) == {s \in Slots : tls_caches[t][s].pool = p}
FirstSlot(S) == CHOOSE s \in S : \A r \in S : s <= r

Idle(t, p) == p \in alive /\ allocating[t] = None

\* The thread holds an object that it was handed out.
Take(t, p, o) ==
    /\ held' = [held EXCEPT ![t] = @ \cup {o}]
    /\ current_usage' = [current_usage EXCEPT ![p] = @ + 1]
    /\ undefined' = IF object[o].exists THEN undefined ELSE "freed_object"

\* mcp_object_pool_acquire from the thread's own objects.
AcquireCached(t, p) ==
    \E s \in CacheOf(t, p) :
        /\ Idle(t, p) /\ s = FirstSlot(CacheOf(t, p))
        /\ tls_caches[t][s].objects # <<>>
        /\ Take(t, p, Last(tls_caches[t][s].objects))
        /\ tls_caches' = [tls_caches EXCEPT ![t][s].objects = Front(@)]
        /\ UNCHANGED <<alive, total_objects, free_list, object, allocating, foreign>>

NoneCached(t, p) == \A s \in CacheOf(t, p) : tls_caches[t][s].objects = <<>>

\* From the free list.
AcquireFree(t, p) ==
    /\ Idle(t, p) /\ NoneCached(t, p) /\ free_list[p] # <<>>
    /\ Take(t, p, Head(free_list[p]))
    /\ free_list' = [free_list EXCEPT ![p] = Tail(@)]
    /\ UNCHANGED <<alive, total_objects, tls_caches, object, allocating, foreign>>

\* allocate_new_object: the capacity is compared with the lock released.
AllocateBegin(t, p) ==
    /\ Idle(t, p) /\ NoneCached(t, p) /\ free_list[p] = <<>>
    /\ MaxCapacity = 0 \/ total_objects[p] < MaxCapacity
    /\ Len(object) < MaxObjects
    /\ allocating' = [allocating EXCEPT ![t] = p]
    /\ UNCHANGED <<alive, total_objects, free_list, current_usage, tls_caches, object, held, foreign, undefined>>

AllocateEnd(t) ==
    LET p == allocating[t]
    IN  /\ p # None
        /\ Len(object) < MaxObjects
        /\ object' = Append(object, [pool |-> p, block |-> FALSE, exists |-> TRUE])
        /\ total_objects' = [total_objects EXCEPT ![p] = @ + 1]
        /\ current_usage' = [current_usage EXCEPT ![p] = @ + 1]
        /\ held' = [held EXCEPT ![t] = @ \cup {Len(object) + 1}]
        /\ allocating' = [allocating EXCEPT ![t] = None]
        /\ UNCHANGED <<alive, free_list, tls_caches, foreign, undefined>>

-----------------------------------------------------------------------------
Push(list, o) == <<o>> \o list

\* Mutant: the objects of the slot that is taken over are forgotten.
CreateCacheForgets(t, p) ==
    IF CacheOf(t, None) # {}
    THEN [slot |-> FirstSlot(CacheOf(t, None)), to |-> p, returned |-> <<>>]
    ELSE [slot |-> 1, to |-> p, returned |-> <<>>]

\* create_tls_cache: an empty slot, or the first one, whose objects go back to the
\* pool they came from.
CreateCache(t, p) ==
    IF CacheOf(t, None) # {}
    THEN [slot |-> FirstSlot(CacheOf(t, None)), to |-> p, returned |-> <<>>]
    ELSE [slot |-> 1, to |-> tls_caches[t][1].pool, returned |-> tls_caches[t][1].objects]

\* mcp_object_pool_release of o to p.
Put(t, p, o) ==
    LET own == CacheOf(t, p)
        c == CreateCache(t, p)
        s == IF own # {} THEN FirstSlot(own) ELSE c.slot
        objects == IF own # {} THEN tls_caches[t][s].objects ELSE <<>>
        returned == IF own # {} THEN <<>> ELSE c.returned
        given == IF returned = <<>> THEN free_list
                 ELSE [free_list EXCEPT ![c.to] = Reverse(returned) \o @]
    IN  /\ current_usage' = [current_usage EXCEPT ![p] = @ - 1]
        /\ undefined' = IF returned # <<>> /\ c.to \notin alive THEN "freed_pool" ELSE undefined
        /\ IF Len(objects) < CacheSize
           THEN /\ tls_caches' = [tls_caches EXCEPT ![t][s] = [pool |-> p, objects |-> Append(objects, o)]]
                /\ free_list' = given
           ELSE /\ tls_caches' = tls_caches
                /\ free_list' = [free_list EXCEPT ![p] = Push(@, o)]

Release(t, o) ==
    /\ o \in held[t] /\ Idle(t, object[o].pool)
    /\ Put(t, object[o].pool, o)
    /\ held' = [held EXCEPT ![t] = @ \ {o}]
    /\ UNCHANGED <<alive, total_objects, object, allocating, foreign>>

\* An object that the pool did not make, as handle_read_resource_request releases.
ReleaseForeign(t, p) ==
    /\ Idle(t, p) /\ foreign[p] = 0 /\ Len(object) < MaxObjects
    /\ object' = Append(object, [pool |-> p, block |-> FALSE, exists |-> TRUE])
    /\ Put(t, p, Len(object) + 1)
    /\ foreign' = [foreign EXCEPT ![p] = @ + 1]
    /\ UNCHANGED <<alive, total_objects, held, allocating>>

\* mcp_object_pool_destroy, when no thread holds one of the objects: the caches of
\* the calling thread are cleared, those of the others are not.  With a block of
\* memory only the block is freed.
Destroy(t, p) ==
    /\ Idle(t, p) /\ \A u \in Threads : allocating[u] # p /\ \A o \in held[u] : object[o].pool # p
    /\ LET mine == UNION {Range(tls_caches[t][s].objects) : s \in CacheOf(t, p)} \cup Range(free_list[p])
       IN  object' = [o \in Objects |->
                         [object[o] EXCEPT !.exists = @ /\ ~(object[o].pool = p /\
                             (IF InitialCapacity > 0 THEN object[o].block ELSE o \in mine))]]
    /\ tls_caches' = [tls_caches EXCEPT ![t] = [s \in Slots |-> IF s \in CacheOf(t, p) THEN Empty ELSE @[s]]]
    /\ free_list' = [free_list EXCEPT ![p] = <<>>]
    /\ total_objects' = [total_objects EXCEPT ![p] = 0]
    /\ current_usage' = [current_usage EXCEPT ![p] = 0]
    /\ alive' = alive \ {p}
    /\ UNCHANGED <<held, allocating, foreign, undefined>>

Next ==
    /\ undefined = "no"
    /\ \/ \E p \in Pools : Create(p)
       \/ \E t \in Threads, p \in Pools :
              AcquireCached(t, p) \/ AcquireFree(t, p) \/ AllocateBegin(t, p) \/ ReleaseForeign(t, p) \/ Destroy(t, p)
       \/ \E t \in Threads : AllocateEnd(t)
       \/ \E t \in Threads : \E o \in held[t] : Release(t, o)

Spec == Init /\ [][Next]_vars

-----------------------------------------------------------------------------
\* The places of a pool's objects.
CachedIn(t, p) == UNION {Range(tls_caches[t][s].objects) : s \in CacheOf(t, p)}
Cached(t, p) == IF CacheOf(t, p) = {} THEN 0 ELSE Len(tls_caches[t][FirstSlot(CacheOf(t, p))].objects)
Counted(f(_)) == Cardinality({<<t, o>> \in Threads \X Objects : o \in f(t)})
Taken(p) == Counted(LAMBDA t : {o \in held[t] : object[o].pool = p})

\* Until something undefined is done, an object is at one place only: no thread is
\* handed out what another one holds, caches or finds in the free list.  None is
\* lost, and the count of the objects in use is right but for those the pool did
\* not make.
ObjectsExact ==
    undefined = "no" =>
        /\ \A t, u \in Threads : t # u => held[t] \cap held[u] = {}
        /\ \A p \in alive :
               LET free == Range(free_list[p])
                   cached(t) == CachedIn(t, p)
               IN  /\ Cardinality(free) = Len(free_list[p])
                   /\ \A t \in Threads : Cardinality(cached(t)) = Cached(t, p) /\ cached(t) \cap free = {}
                   /\ \A t, u \in Threads : (t # u => cached(t) \cap cached(u) = {}) /\ held[t] \cap (free \cup cached(u)) = {}
                   /\ current_usage[p] = Taken(p) - foreign[p]
                   /\ total_objects[p] + foreign[p] <=
                          Taken(p) + Cardinality(free \cup UNION {cached(t) : t \in Threads})

\* Threads that pass the check of the capacity together exceed it, each by one
\* object at the most.
CapacityNearlyKept ==
    \A p \in Pools : MaxCapacity > 0 => total_objects[p] < MaxCapacity + Cardinality(Threads)

\* Not so with two threads.
CapacityKept == \A p \in Pools : MaxCapacity > 0 => total_objects[p] <= MaxCapacity

\* Not so when a pool is destroyed while another thread keeps objects of it.
NeverUndefined == undefined = "no"
=============================================================================
