---------------------------- MODULE SchemaCache ----------------------------
(***************************************************************************)
(* The cache of compiled JSON schemas                                      *)
(* (src/json/mcp_json_schema_cache.c): a hash table that owns the schemas  *)
(* and a list of them from the most to the least recently used.  A         *)
(* validation finds the schema, giving the read lock up before it takes    *)
(* the write lock, or compiles and adds it, and then uses it with no lock. *)
(* A schema's key is a hash of its text, which two texts may share.        *)
(***************************************************************************)
EXTENDS Naturals, Sequences, FiniteSets

CONSTANTS
    Threads,      \* The threads that validate.
    Schemas,      \* The texts of schemas.
    Hash,         \* create_schema_id: the key of each text.
    Bad,          \* The texts that are not JSON.
    Capacity,
    Objects,      \* The compiled schemas that may exist at a time.
    NULL

VARIABLES
    table,        \* schema_cache: the object of each key, or NULL.
    lru_list,     \* The objects, most recently used first.
    size,
    object,       \* The text an object was compiled from, NULL when freed.
    thread,
    result,       \* What the last validation asked for and used.
    undefined     \* Whether an object that was freed has been used.

vars == <<table, lru_list, size, object, thread, result, undefined>>

Keys == {Hash[s] : s \in Schemas}

Idle == [pc |-> "idle", schema |-> NULL, object |-> NULL, freed |-> FALSE]

\* The table and the list hold objects.
TypeOK ==
    /\ table \in [Keys -> Objects \cup {NULL}]
    /\ \A i \in DOMAIN lru_list : lru_list[i] \in Objects
    /\ size \in Nat /\ object \in [Objects -> Schemas \cup {NULL}]
    /\ \A t \in Threads :
         thread[t].pc \in {"idle", "found", "missed", "compiled", "using"}
    /\ undefined \in BOOLEAN

Init ==
    /\ table = [k \in Keys |-> NULL] /\ lru_list = <<>> /\ size = 0
    /\ object = [o \in Objects |-> NULL]
    /\ thread = [t \in Threads |-> Idle]
    /\ result = [asked |-> NULL, used |-> NULL] /\ undefined = FALSE

\* The threads after the objects of F were freed.
Dangling(threads, F) ==
    [t \in Threads |-> IF threads[t].object \in F
                       THEN [threads[t] EXCEPT !.freed = TRUE] ELSE threads[t]]

Without(list, o) == SelectSeq(list, LAMBDA x : x # o)

(***************************************************************************)
(* mcp_json_schema_cache_find.                                             *)
(***************************************************************************)
Find(t, s) ==
    /\ thread[t].pc = "idle"
    /\ thread' = [thread EXCEPT ![t] =
         IF table[Hash[s]] # NULL
         THEN [pc |-> "found", schema |-> s, object |-> table[Hash[s]], freed |-> FALSE]
         ELSE [Idle EXCEPT !.pc = "missed", !.schema = s]]
    /\ UNCHANGED <<table, lru_list, size, object, result, undefined>>

\* With the write lock: the object moves to the front of the list if it is
\* still there, and its use is counted whether it is or not.
MoveToFront(t) ==
    /\ thread[t].pc = "found"
    /\ lru_list' = IF \E i \in DOMAIN lru_list : lru_list[i] = thread[t].object
                   THEN <<thread[t].object>> \o Without(lru_list, thread[t].object)
                   ELSE lru_list
    /\ undefined' = (undefined \/ thread[t].freed)
    /\ thread' = [thread EXCEPT ![t].pc = "using"]
    /\ UNCHANGED <<table, size, object, result>>

(***************************************************************************)
(* mcp_json_schema_cache_add.                                              *)
(***************************************************************************)
Compile(t) ==
    /\ thread[t].pc = "missed"
    /\ IF thread[t].schema \in Bad
       THEN /\ thread' = [thread EXCEPT ![t] = Idle] /\ object' = object
       ELSE \E o \in {x \in Objects : object[x] = NULL} :
              /\ object' = [object EXCEPT ![o] = thread[t].schema]
              /\ thread' = [thread EXCEPT ![t].pc = "compiled", ![t].object = o]
    /\ UNCHANGED <<table, lru_list, size, result, undefined>>

Last(list) == list[Len(list)]

\* The least recently used schema leaves the list and, by its key, the table.
Evicting == size >= Capacity /\ lru_list # <<>>

\* An eviction that leaves the list as it is.
ListEvictedKeeps == lru_list

ListEvicted == IF Evicting THEN SubSeq(lru_list, 1, Len(lru_list) - 1) ELSE lru_list

\* What the table frees: the value under the key of the evicted schema, and
\* the value a new one replaces.
Freed(key) ==
    LET victim == IF Evicting THEN {table[Hash[object[Last(lru_list)]]]} ELSE {}
    IN (victim \cup {table[key]}) \ {NULL}

Add(t) ==
    /\ thread[t].pc = "compiled"
    /\ Evicting => object[Last(lru_list)] # NULL
    /\ LET new == thread[t].object
           key == Hash[thread[t].schema]
           F   == Freed(key)
       IN /\ table' = [k \in Keys |-> IF k = key THEN new
                                      ELSE IF table[k] \in F THEN NULL ELSE table[k]]
          /\ lru_list' = <<new>> \o ListEvicted
          /\ size' = IF Evicting THEN size ELSE size + 1
          /\ object' = [o \in Objects |-> IF o \in F THEN NULL ELSE object[o]]
          /\ thread' = Dangling([thread EXCEPT ![t].pc = "using"], F)
    /\ UNCHANGED <<result, undefined>>

\* The last object of the list was freed when another replaced it: reading
\* its key is undefined.
AddAfterFree(t) ==
    /\ thread[t].pc = "compiled" /\ Evicting /\ object[Last(lru_list)] = NULL
    /\ undefined' = TRUE
    /\ UNCHANGED <<table, lru_list, size, object, thread, result>>

(***************************************************************************)
(* The rest.                                                               *)
(***************************************************************************)
Validate(t) ==
    /\ thread[t].pc = "using"
    /\ result' = [asked |-> thread[t].schema, used |-> object[thread[t].object]]
    /\ undefined' = (undefined \/ thread[t].freed)
    /\ thread' = [thread EXCEPT ![t] = Idle]
    /\ UNCHANGED <<table, lru_list, size, object>>

RemoveSchema(k) ==
    /\ table[k] # NULL
    /\ LET o == table[k]
       IN /\ lru_list' = Without(lru_list, o)
          /\ table' = [table EXCEPT ![k] = NULL]
          /\ object' = [object EXCEPT ![o] = NULL]
          /\ thread' = Dangling(thread, {o})
    /\ size' = IF size > 0 THEN size - 1 ELSE size
    /\ UNCHANGED <<result, undefined>>

Clear ==
    /\ lru_list # <<>>
    /\ LET F == {table[k] : k \in Keys} \ {NULL}
       IN /\ object' = [o \in Objects |-> IF o \in F THEN NULL ELSE object[o]]
          /\ thread' = Dangling(thread, F)
    /\ table' = [k \in Keys |-> NULL] /\ lru_list' = <<>> /\ size' = 0
    /\ UNCHANGED <<result, undefined>>

\* Schemas are removed while nothing is being validated, or it is undefined.
Quiet == \A t \in Threads : thread[t] = Idle

Next ==
    /\ ~undefined
    /\ \/ \E t \in Threads :
             \/ \E s \in Schemas : Find(t, s)
             \/ MoveToFront(t) \/ Compile(t) \/ Add(t) \/ AddAfterFree(t)
             \/ Validate(t)
       \/ Quiet /\ (Clear \/ \E k \in Keys : RemoveSchema(k))

Spec == Init /\ [][Next]_vars

(***************************************************************************)
(* Properties.                                                             *)
(***************************************************************************)
\* When one thread validates, the list and the table hold the same schemas,
\* each once and none freed, the size is their number and stays within the
\* capacity, nothing compiled is lost, and a validation uses the schema it
\* asks for or one with the same key (mcp_json_schema_validate).  With several
\* threads, which may compile a schema twice, the list stays within the size
\* and the size within the capacity.
SchemasExact ==
    /\ Len(lru_list) <= size /\ size <= Capacity
    /\ Cardinality(Threads) = 1 =>
       /\ ~undefined /\ size = Len(lru_list)
       /\ Cardinality({lru_list[i] : i \in DOMAIN lru_list}) = size
       /\ {lru_list[i] : i \in DOMAIN lru_list} = {table[k] : k \in Keys} \ {NULL}
       /\ \A k \in Keys : table[k] # NULL => /\ object[table[k]] # NULL
                                             /\ Hash[object[table[k]]] = k
       /\ {o \in Objects : object[o] # NULL} =
            {lru_list[i] : i \in DOMAIN lru_list} \cup
            {thread[t].object : t \in {x \in Threads : thread[x].pc = "compiled"}}
       /\ result.asked # NULL => Hash[result.asked] = Hash[result.used]

\* A validation uses the schema it asks for.  It does not when another with
\* the same hash is in the cache.
OwnSchema == result.asked = result.used

\* No freed schema is used.  One is, when two threads validate: the capacity
\* evicts a schema between its being found and used, and two that miss the
\* same schema at once leave a freed one in the list.
NeverUndefined == ~undefined
=============================================================================
