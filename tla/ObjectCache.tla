----------------------------- MODULE ObjectCache -----------------------------
(* One thread's caches of objects by type (src/common/mcp_object_cache.c), with    *)
(* the constructor and the destructor a type may have.                           *)
(*                                                                             *)
(* Objects are numbered in the order they are allocated; whether their memory      *)
(* comes from a pool or from malloc makes no difference here (ThreadCache).  The   *)
(* hit ratio that decides whether a cache grows or shrinks is left open.          *)
EXTENDS Naturals, Sequences, FiniteSets, SequencesExt

CONSTANTS Types, Sizes,
          MaxCache, MinCache, DefaultMax,
          Configs,              \* what mcp_object_cache_init and _configure are given
          MaxObjects            \* bound: how many objects are ever allocated

VARIABLES system, initialized,  \* tls_system_initialized and tls_cache_initialized
          conf,                 \* of each type: its sizes, adaptive, and whether it has a constructor and destructor
          caches, held,
          object,               \* the size of an object, whether it exists and is constructed
          registered,           \* the types someone registered a constructor and destructor for
          undefined             \* "no", or what the code did that C leaves undefined

vars == <<system, initialized, conf, caches, held, object, registered, undefined>>

Default == [max |-> DefaultMax, min |-> MinCache, limit |-> MaxCache, adaptive |-> FALSE, hooks |-> FALSE]
Objects == DOMAIN object

TypeOK ==
    /\ system \in BOOLEAN /\ initialized \subseteq Types
    /\ conf \in [Types -> [max : Nat, min : Nat, limit : Nat, adaptive : BOOLEAN, hooks : BOOLEAN]]
    /\ caches \in [Types -> Seq(Objects)]
    /\ held \subseteq [o : Objects, type : Types, want : Sizes]
    /\ object \in Seq([size : Sizes, exists : BOOLEAN, state : {"raw", "constructed", "destroyed"}])
    /\ registered \subseteq Types
    /\ undefined \in {"no", "overrun", "destroyed_twice"}

\* The thread's variables before the first call.
Init ==
    /\ system = FALSE /\ initialized = {} /\ registered = {}
    /\ conf = [t \in Types |-> [Default EXCEPT !.max = 0, !.min = 0, !.limit = 0]]
    /\ caches = [t \in Types |-> <<>>]
    /\ held = {} /\ object = <<>> /\ undefined = "no"

\* The state of the caches after mcp_object_cache_system_init, which applies the
\* defaults to all types, and mcp_object_cache_init of one, which does so again.
SystemUp == [conf |-> IF system THEN conf ELSE [t \in Types |-> Default],
             caches |-> IF system THEN caches ELSE [t \in Types |-> <<>>]]

TypeUp(type) ==
    IF type \in initialized THEN [conf |-> conf, caches |-> caches]
    ELSE [conf |-> [SystemUp.conf EXCEPT ![type] = Default], caches |-> [SystemUp.caches EXCEPT ![type] = <<>>]]

SystemInit ==
    /\ ~system
    /\ system' = TRUE
    /\ conf' = SystemUp.conf /\ caches' = SystemUp.caches
    /\ UNCHANGED <<initialized, held, object, registered, undefined>>

Clamped(c) == [c EXCEPT !.max = IF @ > MaxCache THEN MaxCache ELSE IF @ < MinCache THEN MinCache ELSE @,
                        !.limit = IF @ < c.min THEN c.min ELSE @]

\* mcp_object_cache_init with a configuration and mcp_object_cache_configure, which
\* keeps the hooks when it is given none and the objects when it makes the cache.
CacheInit(type, c) ==
    /\ system' = TRUE
    /\ initialized' = initialized \cup {type}
    /\ IF type \in initialized
       THEN /\ conf' = [SystemUp.conf EXCEPT ![type] = [Clamped(c) EXCEPT !.hooks = @ \/ SystemUp.conf[type].hooks]]
            /\ caches' = SystemUp.caches
       ELSE /\ conf' = [SystemUp.conf EXCEPT ![type] = Clamped(c)]
            /\ caches' = [SystemUp.caches EXCEPT ![type] = <<>>]
    /\ UNCHANGED <<held, object, registered, undefined>>

\* mcp_object_cache_register_type.
Register(type) ==
    /\ type \notin registered
    /\ system' = TRUE
    /\ conf' = [SystemUp.conf EXCEPT ![type].hooks = TRUE] /\ caches' = SystemUp.caches
    /\ registered' = registered \cup {type}
    /\ UNCHANGED <<initialized, held, object, undefined>>

\* adjust_cache_size: one type's cache may be larger or smaller from now on.
Adjusted(c) ==
    {c} \cup
    (IF c.adaptive /\ c.max < c.limit
     THEN {[c EXCEPT !.max = IF 2 * c.max > c.limit THEN c.limit ELSE 2 * c.max]} ELSE {}) \cup
    (IF c.adaptive /\ c.max > c.min
     THEN {[c EXCEPT !.max = IF c.max \div 2 < c.min THEN c.min ELSE c.max \div 2]} ELSE {})

\* The destructor, if there is one, and the end of the objects' memory.
Freed(objs, hooks) ==
    /\ object' = [o \in Objects |-> IF o \in objs
                                    THEN [object[o] EXCEPT !.exists = FALSE, !.state = IF hooks THEN "destroyed" ELSE @]
                                    ELSE object[o]]
    /\ undefined' = IF hooks /\ \E o \in objs : object[o].state = "destroyed" THEN "destroyed_twice" ELSE undefined

\* mcp_object_cache_alloc.
AllocHit(type, size) ==
    LET s == TypeUp(type)
        o == Last(s.caches[type])
    IN  /\ type \in initialized
        /\ s.caches[type] # <<>>
        /\ caches' = [s.caches EXCEPT ![type] = Front(@)]
        /\ held' = held \cup {[o |-> o, type |-> type, want |-> size]}
        /\ object' = [object EXCEPT ![o].state = IF s.conf[type].hooks THEN "constructed" ELSE @]
        /\ UNCHANGED <<system, initialized, conf, registered, undefined>>

AllocMiss(type, size) ==
    LET s == TypeUp(type)
        o == Len(object) + 1
    IN  /\ s.caches[type] = <<>> /\ o <= MaxObjects
        /\ system' = (system \/ type \notin initialized)
        /\ initialized' = initialized \cup {type}
        /\ caches' = s.caches
        /\ \E c \in Adjusted(s.conf[type]) : conf' = [s.conf EXCEPT ![type] = c]
        /\ held' = held \cup {[o |-> o, type |-> type, want |-> size]}
        /\ object' = Append(object, [size |-> size, exists |-> TRUE,
                                     state |-> IF s.conf[type].hooks THEN "constructed" ELSE "raw"])
        /\ UNCHANGED <<registered, undefined>>

\* Mutant: the object is cached and still freed when the cache is full.
FreeBoth(h) ==
    LET s == TypeUp(h.type)
    IN  /\ held' = held \ {h}
        /\ caches' = [s.caches EXCEPT ![h.type] = Append(@, h.o)]
        /\ conf' = s.conf
        /\ Freed(IF Len(s.caches[h.type]) >= s.conf[h.type].max THEN {h.o} ELSE {}, s.conf[h.type].hooks)
        /\ system' = (system \/ h.type \notin initialized) /\ initialized' = initialized \cup {h.type}
        /\ UNCHANGED registered

\* mcp_object_cache_free: destroyed and kept, or destroyed and freed; a cache that
\* shrinks frees what it has beyond its new size, and destroys it once more.
Free(h) ==
    LET s == TypeUp(h.type)
        cache == s.caches[h.type]
        c == s.conf[h.type]
    IN  /\ held' = held \ {h}
        /\ system' = (system \/ h.type \notin initialized) /\ initialized' = initialized \cup {h.type}
        /\ IF Len(cache) < c.max
           THEN /\ IF Len(cache) < MaxCache
                   THEN /\ caches' = [s.caches EXCEPT ![h.type] = Append(@, h.o)]
                        /\ undefined' = IF c.hooks /\ object[h.o].state = "destroyed" THEN "destroyed_twice" ELSE undefined
                   ELSE caches' = s.caches /\ undefined' = "overrun"
                /\ conf' = s.conf
                /\ object' = [object EXCEPT ![h.o].state = IF c.hooks THEN "destroyed" ELSE @]
           ELSE \E n \in Adjusted(c) :
                    LET beyond == {cache[i] : i \in n.max + 1 .. Len(cache)}
                    IN  /\ conf' = [s.conf EXCEPT ![h.type] = n]
                        /\ caches' = [s.caches EXCEPT ![h.type] = IF beyond = {} THEN @ ELSE SubSeq(@, 1, n.max)]
                        /\ Freed(beyond \cup {h.o}, c.hooks)
        /\ UNCHANGED registered

\* mcp_object_cache_flush of a type, and mcp_object_cache_cleanup.
Flush(type, cleanup) ==
    /\ type \in initialized
    /\ Freed(Range(caches[type]), conf[type].hooks)
    /\ caches' = [caches EXCEPT ![type] = <<>>]
    /\ initialized' = IF cleanup THEN initialized \ {type} ELSE initialized
    /\ UNCHANGED <<system, conf, held, registered>>

\* mcp_object_cache_system_shutdown: all are flushed, and stay initialised.
Shutdown ==
    LET all == UNION {Range(caches[t]) : t \in initialized}
        hooked == UNION {Range(caches[t]) : t \in {u \in initialized : conf[u].hooks}}
    IN  /\ system
        /\ system' = FALSE
        /\ object' = [o \in Objects |->
                          [object[o] EXCEPT !.exists = @ /\ o \notin all, !.state = IF o \in hooked THEN "destroyed" ELSE @]]
        /\ undefined' = IF \E o \in hooked : object[o].state = "destroyed" THEN "destroyed_twice" ELSE undefined
        /\ caches' = [t \in Types |-> IF t \in initialized THEN <<>> ELSE caches[t]]
        /\ UNCHANGED <<initialized, conf, held, registered>>

Next ==
    /\ undefined = "no"
    /\ \/ SystemInit \/ Shutdown
       \/ \E t \in Types : Register(t) \/ Flush(t, TRUE) \/ Flush(t, FALSE)
       \/ \E t \in Types, c \in Configs : CacheInit(t, c)
       \/ \E t \in Types, size \in Sizes : AllocHit(t, size) \/ AllocMiss(t, size)
       \/ \E h \in held : Free(h)

Spec == Init /\ [][Next]_vars

-----------------------------------------------------------------------------
\* Until something undefined is done, no object is in two places: a caller's is in
\* no cache and has its memory, and so has what the caches hold, each object once;
\* no cache is longer than its array.
ObjectsAtOnePlace ==
    undefined = "no" =>
        /\ \A h \in held : object[h.o].exists /\ \A g \in held : g.o = h.o => g = h
        /\ \A t \in Types : /\ IsInjective(caches[t]) /\ Len(caches[t]) <= MaxCache
                            /\ \A i \in DOMAIN caches[t] : object[caches[t][i]].exists
                            /\ \A h \in held : h.o \notin Range(caches[t])
        /\ \A t, u \in Types : t # u => Range(caches[t]) \cap Range(caches[u]) = {}

\* Not so: the default configuration of the first allocation removes the hooks.
ConstructedWhenHeld == \A h \in held : h.type \in registered => object[h.o].state = "constructed"

\* Not so: what is cached was destroyed when it was freed.
NeverUndefined == undefined = "no"

\* Not so: an object is handed out for any size.
LargeEnough == \A h \in held : object[h.o].size >= h.want

\* Not so: a system that is shut down and used again forgets what it cached.
NoneLost == \A o \in Objects : object[o].exists =>
                (\E h \in held : h.o = o) \/ \E t \in Types : o \in Range(caches[t])
=============================================================================
