---------------------------- MODULE BackendCache ----------------------------
(***************************************************************************)
(* The gateway's configuration (src/gateway/mcp_gateway_config_manager.c): *)
(* a list of backends that a reload replaces and frees under the write     *)
(* lock (src/gateway/mcp_gateway_config.c), and a cache from methods to    *)
(* backends of the list.  A request reads the cache with no lock, looks    *)
(* for a backend under the read lock (src/gateway/mcp_gateway_routing.c),  *)
(* and writes what it found, or that it found nothing, into the cache with *)
(* no lock again.                                                          *)
(***************************************************************************)
EXTENDS Naturals, Sequences

CONSTANTS
    Threads,      \* The threads that forward requests.
    Requests,     \* Records of a method and a name, a URI or a tool's name.
    Files,        \* What the configuration file may hold: whether it can be
                  \* read, whether its root is an array, and its elements.
    Overlap,      \* Whether requests go on while the configuration is reloaded.
    MaxReloads,
    NULL

VARIABLES
    backend_list, \* The elements of the file that was loaded last.
    list,         \* How often it was loaded.  A pointer to a backend is its
                  \* index and the list it is in.
    method_cache, \* The entry of each method: none, or a backend or NULL.
    thread,       \* Where each thread is, its request and what it found.
    used,         \* Whether a backend was used after its list was freed.
    answer,       \* The last request that was given a backend, and whether
                  \* it is the one the list had for it.
    reloading,
    undefined     \* Whether an entry of the cache was read after it was freed.

vars == <<backend_list, list, method_cache, thread, used, answer, reloading,
          undefined>>

Methods == {r.method : r \in Requests}

None == [cached |-> FALSE, backend |-> NULL]

Idle == [pc |-> "idle", request |-> NULL, backend |-> NULL, freed |-> FALSE]

Lists == 1 .. MaxReloads + 1

\* A backend of a list, or none.
Pointers == {<<i, l>> : i \in 1 .. 3, l \in Lists} \cup {NULL}

\* The cache and the threads hold pointers.
TypeOK ==
    /\ list \in Lists /\ Len(backend_list) \in 0 .. 3
    /\ method_cache \in [Methods -> [cached : BOOLEAN, backend : Pointers]]
    /\ thread \in [Threads -> [pc : {"idle", "got", "looking", "caching", "using"},
                               request : Requests \cup {NULL}, backend : Pointers,
                               freed : BOOLEAN]]
    /\ used \in BOOLEAN /\ answer \in BOOLEAN /\ reloading \in BOOLEAN
    /\ undefined \in BOOLEAN

(***************************************************************************)
(* load_gateway_config: all the backends of the file or none.  An element  *)
(* is refused when it is not an object, when its name, address or routing  *)
(* is missing, when one of its arrays has an element that is not a string, *)
(* and when an expression does not compile.  An empty file has no backends.*)
(***************************************************************************)
ArraysParse(item) == item.strings /\ item.compiles

Accepted(item) == item.object /\ item.complete /\ ArraysParse(item)

Loads(file) ==
    /\ file.readable /\ file.array
    /\ \A i \in DOMAIN file.items : Accepted(file.items[i])

\* find_backend_for_request: the first backend, in the order of the file, with
\* a prefix or an expression for the URI, or with the tool.
IsPrefixOf(p, s) == Len(p) <= Len(s) /\ SubSeq(s, 1, Len(p)) = p

Serves(backend, r) ==
    \/ /\ r.method = "read_resource"
       /\ \/ \E p \in backend.prefixes : IsPrefixOf(p, r.name)
          \/ r.name \in backend.regexes
    \/ r.method = "call_tool" /\ r.name \in backend.tools

Route(r) ==
    LET matching == {i \in DOMAIN backend_list : Serves(backend_list[i], r)}
    IN IF matching = {} THEN NULL
       ELSE <<CHOOSE i \in matching : \A j \in matching : i <= j, list>>

\* gateway_config_manager_create: it loads the file, or there is no manager.
Init ==
    /\ \E file \in {f \in Files : Loads(f)} : backend_list = file.items
    /\ list = 1 /\ method_cache = [m \in Methods |-> None]
    /\ thread = [t \in Threads |-> Idle]
    /\ used = FALSE /\ answer = TRUE /\ reloading = FALSE /\ undefined = FALSE

(***************************************************************************)
(* gateway_config_manager_find_backend.  The entry of the method is looked *)
(* up and read with no lock, and may be freed in between.  A cached NULL is *)
(* not an answer.                                                          *)
(***************************************************************************)
Lookup(t, r) ==
    /\ thread[t].pc = "idle" /\ (Overlap \/ ~reloading)
    /\ thread' = [thread EXCEPT ![t] =
         [Idle EXCEPT !.pc = IF method_cache[r.method].cached THEN "got" ELSE "looking",
                      !.request = r, !.backend = method_cache[r.method].backend]]
    /\ UNCHANGED <<backend_list, list, method_cache, used, answer, reloading,
                   undefined>>

ReadEntry(t) ==
    /\ thread[t].pc = "got"
    /\ thread' = [thread EXCEPT ![t].pc = IF thread[t].backend # NULL
                                         THEN "using" ELSE "looking"]
    /\ undefined' = (undefined \/ thread[t].freed)
    /\ UNCHANGED <<backend_list, list, method_cache, used, answer, reloading>>

FindBackend(t) ==
    /\ thread[t].pc = "looking"
    /\ thread' = [thread EXCEPT ![t].pc = "caching",
                                ![t].backend = Route(thread[t].request)]
    /\ UNCHANGED <<backend_list, list, method_cache, used, answer, reloading,
                   undefined>>

\* The threads after the entries of some methods were freed.
Freed(methods) ==
    [t \in Threads |->
       IF thread[t].pc = "got" /\ thread[t].request.method \in methods
       THEN [thread[t] EXCEPT !.freed = TRUE] ELSE thread[t]]

CachePut(t) ==
    /\ thread[t].pc = "caching"
    /\ method_cache' = [method_cache EXCEPT ![thread[t].request.method] =
                          [cached |-> TRUE, backend |-> thread[t].backend]]
    /\ thread' = [Freed({thread[t].request.method}) EXCEPT ![t] =
                    IF @.backend = NULL THEN Idle ELSE [@ EXCEPT !.pc = "using"]]
    /\ UNCHANGED <<backend_list, list, used, answer, reloading, undefined>>

\* The caller forwards the request to the backend.
Use(t) ==
    /\ thread[t].pc = "using"
    /\ used' = (used \/ thread[t].backend[2] # list)
    /\ answer' = (thread[t].backend[2] = list =>
                    thread[t].backend = Route(thread[t].request))
    /\ thread' = [thread EXCEPT ![t] = Idle]
    /\ UNCHANGED <<backend_list, list, method_cache, reloading, undefined>>

(***************************************************************************)
(* gateway_config_manager_reload: the file is read first, and a file that  *)
(* cannot be loaded changes nothing.                                       *)
(***************************************************************************)
ReloadBegins ==
    /\ ~reloading /\ list < MaxReloads + 1
    /\ Overlap \/ \A t \in Threads : thread[t] = Idle
    /\ reloading' = TRUE
    /\ UNCHANGED <<backend_list, list, method_cache, thread, used, answer, undefined>>

\* Without the clearing of the cache.
CachedKept == method_cache

CachedCleared == [m \in Methods |-> None]

ReloadEnds(file) ==
    /\ reloading /\ reloading' = FALSE
    /\ IF Loads(file)
       THEN /\ backend_list' = file.items /\ list' = list + 1
            /\ method_cache' = CachedCleared /\ thread' = Freed(Methods)
       ELSE UNCHANGED <<backend_list, list, method_cache, thread>>
    /\ UNCHANGED <<used, answer, undefined>>

Next ==
    \/ \E t \in Threads : \/ \E r \in Requests : Lookup(t, r)
                          \/ ReadEntry(t) \/ FindBackend(t) \/ CachePut(t) \/ Use(t)
    \/ ReloadBegins \/ \E file \in Files : ReloadEnds(file)

Spec == Init /\ [][Next]_vars

(***************************************************************************)
(* Properties.                                                             *)
(***************************************************************************)
\* While requests and reloads take turns, and until a request reads an entry that
\* another one has replaced, a request is never forwarded to a backend of a list
\* that was freed, and what the cache holds for a method is what the list that is
\* loaded says of some request with that method
\* (gateway_config_manager_find_backend, gateway_config_manager_reload).
BackendsCurrent ==
    ~Overlap /\ ~undefined =>
    /\ ~used
    /\ \A m \in Methods : method_cache[m].cached =>
         \E r \in Requests : r.method = m /\ method_cache[m].backend = Route(r)

\* A request is given the backend that matches it
\* (include/mcp_gateway_config_manager.h).  It is not: the next request with
\* the same method is given the backend of the one before, whatever its URI
\* or its tool is.
MatchingBackend == answer

\* The cache holds no backend of a list that was freed, once no request is
\* under way: a reload clears it.  It does, when a request that had found its
\* backend before the reload writes it into the cache after it.
CacheCleared ==
    (\A t \in Threads : thread[t] = Idle) =>
        \A m \in Methods : method_cache[m].backend # NULL =>
            method_cache[m].backend[2] = list
=============================================================================
