------------------------------ MODULE MCThreads ------------------------------
(* Threads and what they keep for themselves, for TLC.  "part" says what runs   *)
(* while the others stay in their initial states: the thread pool with a fixed  *)
(* number of threads, used by two threads, or by one with buffers for one task, *)
(* or resized; a deque on its own; one thread's cache of memory blocks; two     *)
(* pools of objects that two threads use, with first objects in one block of    *)
(* memory and without; one thread's caches of typed objects, of one type with   *)
(* constructors and of two types without.                                       *)
EXTENDS WorkDeque

CONSTANTS t1, t2,
          MaxThreads, MinThreads, OptimalThreads, Submitters, MaxWorkers,
          CanFail   \* of the thread pool

VARIABLES part, pool, thread_count, started, shutdown_flag, threads, worker_args, worker,
          deques, next_submit_deque, tasks_submitted, tasks_completed, active_tasks,
          submitter, waiter, early, accepted, ran

poolVars == <<pool, thread_count, started, shutdown_flag, threads, worker_args, worker,
              deques, next_submit_deque, tasks_submitted, tasks_completed, active_tasks,
              submitter, waiter, early, accepted, ran>>

Fixed == INSTANCE ThreadPool WITH MaxTasks <- 2, DequeCapacity <- 1

Filled == INSTANCE ThreadPool WITH
    Submitters <- {t1}, MaxTasks <- 3, DequeCapacity <- 1

Resized == INSTANCE ThreadPool WITH MaxTasks <- 1, DequeCapacity <- 2

ASSUME PoolConstants == 
    Fixed!PoolConstants /\ Filled!PoolConstants /\ Resized!PoolConstants

VARIABLES pools_ready, block, free_list, held, ready, conf, small, medium,
          lru_nodes, lru_list, data, undefined

blockVars == <<pools_ready, block, free_list, held, ready, conf, small, medium,
               lru_nodes, lru_list, data, undefined>>

Blocks == INSTANCE ThreadCache WITH
    Blocks <- 1 .. 3, Sizes <- {2, 4, 5}, SmallSize <- 2, MediumSize <- 4,
    MaxCache <- 2, MinCache <- 1, DefaultMax <- 2, Nodes <- 1 .. 3, PoolsFirst <- TRUE,
    Configs <- {[small_max |-> 2, medium_max |-> 2, min |-> 1, limit |-> 2,
                 lru |-> TRUE, adaptive |-> TRUE]}

VARIABLES alive, total_objects, o_free, current_usage, tls_caches, object, o_held,
          allocating, foreign, o_undefined

objectVars == <<alive, total_objects, o_free, current_usage, tls_caches, object, o_held,
                allocating, foreign, o_undefined>>

InBlock == INSTANCE ObjectPool WITH
    free_list <- o_free, held <- o_held, undefined <- o_undefined,
    Threads <- {t1, t2}, Pools <- {"p", "q"}, CacheSize <- 1, CachedPools <- 1,
    InitialCapacity <- 1, MaxCapacity <- 2, MaxObjects <- 3

OneByOne == INSTANCE ObjectPool WITH
    free_list <- o_free, held <- o_held, undefined <- o_undefined,
    Threads <- {t1, t2}, Pools <- {"p", "q"}, CacheSize <- 1, CachedPools <- 1,
    InitialCapacity <- 0, MaxCapacity <- 1, MaxObjects <- 3

VARIABLES system, initialized, y_conf, caches, y_held, y_object, registered, y_undefined

typedVars == <<system, initialized, y_conf, caches, y_held, y_object, registered,
               y_undefined>>

Sized(max, hooks) ==
    [max |-> max, min |-> 1, limit |-> 2, adaptive |-> TRUE, hooks |-> hooks]

Hooked == INSTANCE ObjectCache WITH
    conf <- y_conf, held <- y_held, object <- y_object, undefined <- y_undefined,
    Types <- {"a"}, Sizes <- {1}, MaxCache <- 2, MinCache <- 1, DefaultMax <- 2,
    MaxObjects <- 3, Configs <- {Sized(2, FALSE), Sized(1, TRUE)}

Typed == INSTANCE ObjectCache WITH
    conf <- y_conf, held <- y_held, object <- y_object, undefined <- y_undefined,
    Types <- {"a", "b"}, Sizes <- {1}, MaxCache <- 2, MinCache <- 1, DefaultMax <- 2,
    MaxObjects <- 2, Configs <- {Sized(2, FALSE)}

memoryVars == <<blockVars, objectVars, typedVars>>

\* A misused deque is not followed: what is claimed of it holds until then.

PartsNext ==
    \/ /\ \/ part = "pool" /\ Fixed!Next
          \/ part = "filled" /\ Filled!Next
          \/ part = "resized" /\ Resized!AdjustedNext
       /\ UNCHANGED <<vars, memoryVars>>
    \/ part = "deque" /\ ~misused /\ Next /\ UNCHANGED <<poolVars, memoryVars>>
    \/ /\ part = "blocks" /\ Blocks!Next
       /\ UNCHANGED <<vars, poolVars, objectVars, typedVars>>
    \/ /\ \/ part = "in_block" /\ InBlock!Next
          \/ part = "one_by_one" /\ OneByOne!Next
       /\ UNCHANGED <<vars, poolVars, blockVars, typedVars>>
    \/ /\ \/ part = "hooked" /\ Hooked!Next
          \/ part = "typed" /\ Typed!Next
       /\ UNCHANGED <<vars, poolVars, blockVars, objectVars>>

ThreadsInit ==
    /\ part \in {"pool", "filled", "resized", "deque", "blocks", "in_block",
                 "one_by_one", "hooked", "typed"}
    /\ IF part = "filled" THEN Filled!Init ELSE Fixed!Init
    /\ Init /\ Blocks!Init /\ InBlock!Init
    /\ IF part = "typed" THEN Typed!Init ELSE Hooked!Init

ThreadsSpec ==
    /\ ThreadsInit
    /\ [][PartsNext /\ UNCHANGED part]_<<part, vars, poolVars, memoryVars>>

\* A deque alone, whatever happens to it.
SharedSpec ==
    /\ part = "deque" /\ Init /\ Fixed!Init /\ Blocks!Init /\ InBlock!Init /\ Hooked!Init
    /\ [][Next /\ UNCHANGED <<part, poolVars, memoryVars>>]_<<part, vars, poolVars, memoryVars>>

\* The types of the states.
TypesOK ==
    /\ TypeOK
    /\ IF part = "filled" THEN Filled!TypeOK ELSE Fixed!TypeOK
    /\ part = "blocks" => Blocks!TypeOK
    /\ part = "in_block" => InBlock!TypeOK
    /\ part = "one_by_one" => OneByOne!TypeOK
    /\ part = "hooked" => Hooked!TypeOK
    /\ part = "typed" => Typed!TypeOK

\* The states have their types.  Every index below thread_count keeps a worker that
\* serves its deque while the pool is resized, unless the worker looked before it
\* was counted; and mcp_thread_pool_destroy frees a pool that was not resized only
\* when every accepted task has been run and no worker is left, up to a push that
\* meets another push, a pop or a full buffer.
PoolServes ==
    /\ TypesOK /\ Fixed!DequesServed
    /\ part \in {"pool", "filled"} => Fixed!DestroyDrains /\ Fixed!DestroyJoinsAll

\* A block that mcp_thread_cache_free caches, evicts, moves or flushes stays at one
\* place, is as large as what it is handed out for, and the list of recently used
\* blocks names the positions that hold them.
BlocksExact ==
    part = "blocks" => Blocks!BlocksExact /\ Blocks!LargeEnough /\ Blocks!ListExact

\* No object of a pool or of a typed cache is handed out while another caller, a
\* thread's cache or the free list has it, none of a pool is lost when a thread's
\* slot is taken over, and threads that pass the check of the capacity together
\* exceed it by one object each at the most.
ObjectsExact ==
    /\ part = "in_block" => InBlock!ObjectsExact /\ InBlock!CapacityNearlyKept
    /\ part = "one_by_one" => OneByOne!ObjectsExact /\ OneByOne!CapacityNearlyKept
    /\ part = "hooked" => Hooked!ObjectsAtOnePlace
    /\ part = "typed" => Typed!ObjectsAtOnePlace
=============================================================================
