----------------------------- MODULE ThreadCache -----------------------------
(* The memory pools (src/common/mcp_memory_pool.c) and the cache of one thread   *)
(* in front of them (src/common/mcp_thread_cache.c): blocks that come from        *)
(* malloc or from the pool of their size class, are cached when they are freed    *)
(* and handed out again.                                                        *)
(*                                                                             *)
(* Two size classes stand for three: the small blocks are kept in an array with   *)
(* a list of nodes that orders them by use, the medium ones (and the large ones,  *)
(* by the same code) in an array with counters.  Which block has the lowest       *)
(* counter, and whether the hit ratio is high or low, is left open.              *)
EXTENDS Naturals, Sequences, FiniteSets, SequencesExt

CONSTANTS Blocks,               \* addresses
          Sizes, SmallSize, MediumSize,
          MaxCache, MinCache,   \* MAX_CACHE_SIZE and MIN_CACHE_SIZE
          DefaultMax,
          Configs,              \* what mcp_thread_cache_configure is called with
          Nodes,                \* addresses of list nodes
          PoolsFirst            \* TRUE when the pools are made before the first call

VARIABLES pools_ready,
          block,                \* what malloc made at each address
          free_list,            \* the blocks in the pools
          held,                 \* the blocks in the hands of callers
          ready, conf,
          small, medium,        \* the cached blocks
          lru_nodes, lru_list, data,
          undefined             \* "no", or what the code did that C leaves undefined

poolVars == <<pools_ready, block, free_list>>
lruVars == <<lru_nodes, lru_list, data>>
vars == <<poolVars, held, ready, conf, small, medium, lruVars, undefined>>

NULL == 0
Absent == [cap |-> 0, pooled |-> FALSE]
DefaultConf == [small_max |-> DefaultMax, medium_max |-> DefaultMax, min |-> MinCache, limit |-> MaxCache,
                lru |-> TRUE, adaptive |-> FALSE]
Positions == 0 .. MaxCache - 1

TypeOK ==
    /\ pools_ready \in BOOLEAN /\ ready \in BOOLEAN
    /\ block \in [Blocks -> [cap : Sizes \cup {0}, pooled : BOOLEAN]]
    /\ free_list \subseteq Blocks
    /\ held \subseteq [ptr : Blocks, want : Sizes]
    /\ small \in Seq(Blocks) /\ medium \in Seq(Blocks)
    /\ lru_nodes \in [Positions -> Nodes \cup {NULL}]
    /\ lru_list \in Seq(Nodes)
    /\ data \in [Nodes -> Positions]
    /\ conf \in [small_max : Nat, medium_max : Nat, min : Nat, limit : Nat, lru : BOOLEAN, adaptive : BOOLEAN]
    /\ undefined \in {"no", "overrun", "freed_node"}

Init ==
    /\ pools_ready = PoolsFirst
    /\ block = [b \in Blocks |-> Absent]
    /\ free_list = {} /\ held = {}
    /\ ready = FALSE /\ conf = DefaultConf
    /\ small = <<>> /\ medium = <<>>
    /\ lru_nodes = [i \in Positions |-> NULL] /\ lru_list = <<>> /\ data = [n \in Nodes |-> 0]
    /\ undefined = "no"

-----------------------------------------------------------------------------
(* The pools *)

\* get_size_class, as the size of the class's blocks; 0 when it is too large.
ClassSize(size) == IF size <= SmallSize THEN SmallSize ELSE IF size <= MediumSize THEN MediumSize ELSE 0

\* mcp_pool_alloc when the pools are made, malloc otherwise.  The new block is b.
Allocate(size, b) ==
    LET class == IF pools_ready THEN ClassSize(size) ELSE 0
        idle == {f \in free_list : block[f].cap = class}
    IN  \/ /\ class # 0 /\ b \in idle
           /\ free_list' = free_list \ {b}
           /\ UNCHANGED <<block, pools_ready>>
        \/ /\ class = 0 \/ idle = {}
           /\ block[b] = Absent
           /\ block' = [block EXCEPT ![b] = [cap |-> IF class = 0 THEN size ELSE class, pooled |-> class # 0]]
           /\ UNCHANGED <<free_list, pools_ready>>

\* What mcp_pool_get_block_size, mcp_pool_free and free make of a block: the
\* header tells the blocks of the pools from those of malloc.
GiveBack(blocks) ==
    /\ free_list' = free_list \cup {b \in blocks : block[b].pooled}
    /\ block' = [b \in Blocks |-> IF b \in blocks /\ ~block[b].pooled THEN Absent ELSE block[b]]
    /\ UNCHANGED pools_ready

\* mcp_memory_pool_system_init.
SystemInit ==
    /\ ~pools_ready
    /\ pools_ready' = TRUE
    /\ UNCHANGED <<block, free_list, held, ready, conf, small, medium, lruVars, undefined>>

-----------------------------------------------------------------------------
(* The array and the list of the small blocks *)

\* An element leaves the array and the last one takes its place.
TakeAt(s, i) == SubSeq(IF i = Len(s) THEN s ELSE [s EXCEPT ![i] = s[Len(s)]], 1, Len(s) - 1)

LruIndex == data[Last(lru_list)]

\* get_lru_block finds a block.
LruFinds == lru_list # <<>> /\ LruIndex < Len(small)

\* Mutant: the node that moves with the last block keeps its old index.
GetLruBlockStale ==
    [small |-> TakeAt(small, LruIndex + 1),
     list |-> Front(lru_list),
     nodes |-> IF LruIndex < Len(small) - 1 THEN [lru_nodes EXCEPT ![LruIndex] = lru_nodes[Len(small) - 1]]
               ELSE [lru_nodes EXCEPT ![LruIndex] = NULL],
     data |-> data, undefined |-> undefined]

\* get_lru_block, when it does: the block at the index of the last node.
GetLruBlock ==
    LET moved == IF LruIndex < Len(small) - 1 THEN lru_nodes[Len(small) - 1] ELSE NULL
    IN  [small |-> TakeAt(small, LruIndex + 1),
         list |-> Front(lru_list),
         nodes |-> [lru_nodes EXCEPT ![LruIndex] = moved],
         data |-> IF moved = NULL THEN data ELSE [data EXCEPT ![moved] = LruIndex],
         undefined |-> IF moved # NULL /\ moved \notin Range(Front(lru_list)) THEN "freed_node" ELSE undefined]

\* add_to_lru_cache of a block b behind s, with a new node in front of the list.
AddToLru(c, b) ==
    \E n \in Nodes \ Range(c.list) :
        /\ small' = Append(c.small, b)
        /\ lru_nodes' = [c.nodes EXCEPT ![Len(c.small)] = n]
        /\ lru_list' = <<n>> \o c.list
        /\ data' = [c.data EXCEPT ![n] = Len(c.small)]

Current == [small |-> small, list |-> lru_list, nodes |-> lru_nodes, data |-> data, undefined |-> undefined]

\* A block is put behind the others, where the array may have ended.
Put(array, b) ==
    IF Len(array) < MaxCache THEN [array |-> Append(array, b), undefined |-> undefined]
    ELSE [array |-> array, undefined |-> "overrun"]

-----------------------------------------------------------------------------
(* mcp_thread_cache_alloc *)

Hold(b, size) == held' = held \cup {[ptr |-> b, want |-> size]}

\* mcp_thread_cache_adjust_size, for one size: doubled, halved or as it is.
Adjusted(n) == {n} \cup (IF n < conf.limit THEN {IF n * 2 > conf.limit THEN conf.limit ELSE n * 2} ELSE {})
                   \cup (IF n > conf.min THEN {IF n \div 2 < conf.min THEN conf.min ELSE n \div 2} ELSE {})

AdjustSize ==
    \/ UNCHANGED conf
    \/ /\ conf.adaptive
       /\ \E s \in Adjusted(conf.small_max), m \in Adjusted(conf.medium_max) :
              conf' = [conf EXCEPT !.small_max = s, !.medium_max = m]

AllocUncached(size) ==
    /\ ~ready
    /\ \E b \in Blocks : Allocate(size, b) /\ Hold(b, size)
    /\ UNCHANGED <<ready, conf, small, medium, lruVars, undefined>>

\* A hit among the small blocks: by the list, by the counters when the list names
\* no block, or the last one.
AllocSmall(size) ==
    /\ ready /\ size <= SmallSize /\ small # <<>>
    /\ IF conf.lru /\ LruFinds
       THEN LET c == GetLruBlock
            IN  /\ Hold(small[LruIndex + 1], size)
                /\ small' = c.small /\ lru_list' = c.list /\ lru_nodes' = c.nodes /\ data' = c.data
                /\ undefined' = c.undefined
       ELSE /\ \E i \in IF conf.lru THEN DOMAIN small ELSE {Len(small)} :
                   Hold(small[i], size) /\ small' = TakeAt(small, i)
            /\ UNCHANGED <<lruVars, undefined>>
    /\ UNCHANGED <<poolVars, ready, conf, medium>>

AllocMedium(size) ==
    /\ ready /\ ClassSize(size) = MediumSize /\ medium # <<>>
    /\ \E i \in IF conf.lru THEN DOMAIN medium ELSE {Len(medium)} :
           Hold(medium[i], size) /\ medium' = TakeAt(medium, i)
    /\ UNCHANGED <<poolVars, ready, conf, small, lruVars, undefined>>

AllocMiss(size) ==
    /\ ready
    /\ \/ size <= SmallSize /\ small = <<>>
       \/ ClassSize(size) = MediumSize /\ medium = <<>>
       \/ ClassSize(size) = 0
    /\ AdjustSize
    /\ \E b \in Blocks : Allocate(size, b) /\ Hold(b, size)
    /\ UNCHANGED <<ready, small, medium, lruVars, undefined>>

Alloc(size) == AllocUncached(size) \/ AllocSmall(size) \/ AllocMedium(size) \/ AllocMiss(size)

-----------------------------------------------------------------------------
(* mcp_thread_cache_free *)

Release(h) == held' = held \ {h}

\* The size of the call, or the pool's block size when the caller gives none.
FreeClass(h, given) == IF given THEN ClassSize(h.want) ELSE block[h.ptr].cap

\* Not cached: the cache is not there, is full, the block is too large, or nothing
\* is known of its size.
FreeThrough(h, given) ==
    /\ \/ ~ready /\ UNCHANGED conf
       \/ ready /\ ~given /\ ~block[h.ptr].pooled /\ UNCHANGED conf
       \/ /\ ready /\ (given \/ block[h.ptr].pooled)
          /\ \/ FreeClass(h, given) = 0
             \/ FreeClass(h, given) = SmallSize /\ ~conf.lru /\ Len(small) >= conf.small_max
             \/ FreeClass(h, given) = MediumSize /\ ~conf.lru /\ Len(medium) >= conf.medium_max
          /\ AdjustSize
    /\ GiveBack({h.ptr}) /\ Release(h)
    /\ UNCHANGED <<ready, small, medium, lruVars, undefined>>

\* The counters' way, when the list has failed or is not in use.
LegacySmall(h) ==
    \/ /\ Len(small) < conf.small_max
       /\ small' = Put(small, h.ptr).array /\ undefined' = Put(small, h.ptr).undefined
       /\ UNCHANGED <<poolVars, lruVars>>
    \/ /\ Len(small) >= conf.small_max
       /\ \E i \in DOMAIN small : small' = [small EXCEPT ![i] = h.ptr] /\ GiveBack({small[i]})
       /\ UNCHANGED <<lruVars, undefined>>

FreeSmall(h, given) ==
    /\ ready /\ (given \/ block[h.ptr].pooled) /\ FreeClass(h, given) = SmallSize
    /\ CASE ~conf.lru ->
              /\ Len(small) < conf.small_max
              /\ LegacySmall(h)
         [] conf.lru /\ Len(small) < conf.small_max ->
              IF Len(small) < MaxCache
              THEN AddToLru(Current, h.ptr) /\ UNCHANGED <<poolVars, undefined>>
              ELSE undefined' = "overrun" /\ UNCHANGED <<poolVars, small, lruVars>>
         [] conf.lru /\ Len(small) >= conf.small_max /\ LruFinds ->
              LET c == GetLruBlock
                  evicted == small[LruIndex + 1]
              IN  /\ undefined' = c.undefined
                  /\ IF Len(c.small) < conf.small_max
                     THEN AddToLru(c, h.ptr) /\ GiveBack({evicted})
                     ELSE \E i \in DOMAIN c.small :
                              /\ small' = [c.small EXCEPT ![i] = h.ptr]
                              /\ GiveBack({evicted, c.small[i]})
                              /\ lru_list' = c.list /\ lru_nodes' = c.nodes /\ data' = c.data
         [] OTHER -> LegacySmall(h)
    /\ Release(h)
    /\ UNCHANGED <<ready, conf, medium>>

FreeMedium(h, given) ==
    /\ ready /\ (given \/ block[h.ptr].pooled) /\ FreeClass(h, given) = MediumSize
    /\ \/ /\ Len(medium) < conf.medium_max
          /\ medium' = Put(medium, h.ptr).array /\ undefined' = Put(medium, h.ptr).undefined
          /\ UNCHANGED poolVars
       \/ /\ Len(medium) >= conf.medium_max /\ conf.lru
          /\ \E i \in DOMAIN medium : medium' = [medium EXCEPT ![i] = h.ptr] /\ GiveBack({medium[i]})
          /\ UNCHANGED undefined
    /\ Release(h)
    /\ UNCHANGED <<ready, conf, small, lruVars>>

Free(h, given) == FreeThrough(h, given) \/ FreeSmall(h, given) \/ FreeMedium(h, given)

-----------------------------------------------------------------------------
(* The life of the cache *)

\* mcp_thread_cache_init.
CacheInit ==
    /\ ~ready
    /\ ready' = TRUE /\ conf' = DefaultConf
    /\ UNCHANGED <<poolVars, held, small, medium, lruVars, undefined>>

Clamp(n) == IF n > MaxCache THEN MaxCache ELSE IF n < MinCache THEN MinCache ELSE n

\* The sizes are clamped, the limit of the adaptive sizing is not.
Clamped(c) == [c EXCEPT !.small_max = Clamp(@), !.medium_max = Clamp(@),
                        !.limit = IF @ < c.min THEN c.min ELSE @]

\* mcp_thread_cache_init_with_config of a cache that is not there, which uses the list.
InitWithConfig(c) ==
    /\ ~ready
    /\ ready' = TRUE /\ conf' = [Clamped(c) EXCEPT !.lru = TRUE]
    /\ UNCHANGED <<poolVars, held, small, medium, lruVars, undefined>>

\* mcp_thread_cache_configure.
Configure(c) ==
    /\ ready
    /\ conf' = Clamped(c)
    /\ UNCHANGED <<poolVars, held, ready, small, medium, lruVars, undefined>>

\* mcp_thread_cache_flush: the node pointers of the occupied positions are cleared.
Flush ==
    /\ ready
    /\ GiveBack(Range(small) \cup Range(medium))
    /\ small' = <<>> /\ medium' = <<>> /\ lru_list' = <<>>
    /\ lru_nodes' = [i \in Positions |-> IF i < Len(small) THEN NULL ELSE lru_nodes[i]]
    /\ UNCHANGED <<held, ready, conf, data, undefined>>

\* mcp_thread_cache_cleanup.
Cleanup ==
    /\ ready
    /\ GiveBack(Range(small) \cup Range(medium))
    /\ small' = <<>> /\ medium' = <<>> /\ lru_list' = <<>>
    /\ lru_nodes' = [i \in Positions |-> NULL]
    /\ ready' = FALSE
    /\ UNCHANGED <<held, conf, data, undefined>>

Next ==
    /\ undefined = "no"
    /\ \/ SystemInit \/ CacheInit \/ Flush \/ Cleanup
       \/ \E size \in Sizes : Alloc(size)
       \/ \E h \in held, given \in BOOLEAN : Free(h, given)
       \/ \E c \in Configs : InitWithConfig(c) \/ Configure(c)

Spec == Init /\ [][Next]_vars

-----------------------------------------------------------------------------
HeldBlocks == {h.ptr : h \in held}

\* Every block of malloc is at exactly one place, whatever is evicted, moved,
\* flushed or handed out: with one caller, once in one cache, or in a pool.
BlocksExact ==
    undefined = "no" =>
        /\ Cardinality(held) + Len(small) + Len(medium) + Cardinality(free_list) =
               Cardinality({b \in Blocks : block[b] # Absent})
        /\ \A b \in Blocks :
               block[b] # Absent <=> b \in HeldBlocks \cup Range(small) \cup Range(medium) \cup free_list

\* A caller gets as many bytes as it asked for, when the pools are made first; the
\* caches hand out blocks without a look at their size.
LargeEnough == PoolsFirst => \A h \in held : block[h.ptr].cap >= h.want

\* While the order by use stays on and the limit of the sizes is the arrays', the
\* list names every small block exactly once and nothing undefined is done.
ListExact ==
    (\A c \in Configs : c.lru /\ c.limit <= MaxCache) =>
        /\ undefined = "no"
        /\ Len(small) <= MaxCache /\ Len(medium) <= MaxCache
        /\ \A i \in 0 .. Len(small) - 1 : Cardinality({k \in DOMAIN lru_list : data[lru_list[k]] = i}) = 1

\* Not so when the order by use is turned off and on, or the limit is larger.
NeverUndefined == undefined = "no"

\* Not so when blocks of malloc are freed into the cache.
LargeEnoughAlways == \A h \in held : block[h.ptr].cap >= h.want
=============================================================================
