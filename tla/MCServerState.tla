---------------------------- MODULE MCServerState ----------------------------
(* What the server's threads share, for TLC: the basic rate limiter, the        *)
(* resource cache and the limiter with rules in two configurations each, and    *)
(* what is looked up by name.  "part" says which one runs.                     *)
(*                                                                             *)
(* The two buckets of the limiter's initial table force a resize when the      *)
(* second client appears; the clients' hash values collide before it and       *)
(* differ after it.  Two threads use a cache of one entry, whose replacement   *)
(* may have more items; one thread fills a cache of two entries with three.    *)
(* The limiter with rules has one address and three rules with windows, or a   *)
(* user with a token bucket and an address with a leaky one, both of half a    *)
(* request per second.                                                         *)
EXTENDS RateLimiter, TLC

CONSTANTS t1, t2, k1, k2, k3, NULL

-----------------------------------------------------------------------------
(* Three hosts for two slots, and lookups that do not overlap a miss *)

VARIABLES d_entries, d_now, d_thread, d_live, d_undefined

dnsVars == <<d_entries, d_now, d_thread, d_live, d_undefined>>

Dns == INSTANCE DnsCache WITH
    entries <- d_entries, now <- d_now, thread <- d_thread, live <- d_live,
    undefined <- d_undefined, Threads <- {t1, t2}, Hosts <- {k1, k2, k3},
    Addresses <- 1 .. 3, Size <- 2, Expiry <- 1, MaxTime <- 3, MaxHits <- 2, Orderly <- TRUE

-----------------------------------------------------------------------------
(* Five texts, two with the same key and one that is not JSON, in a cache of two; *)
(* and three texts that two threads compile for a cache of one                  *)

VARIABLES s_table, lru_list, s_size, object, s_thread, result, s_undefined

schemaVars == <<s_table, lru_list, s_size, object, s_thread, result, s_undefined>>

SchemaKey == [s \in {"a", "b", "c", "d", "x"} |->
                 CASE s = "b" -> 2 [] s = "c" -> 3 [] s = "x" -> 4 [] OTHER -> 1]

OneValidator == INSTANCE SchemaCache WITH
    table <- s_table, size <- s_size, thread <- s_thread, undefined <- s_undefined,
    Threads <- {t1}, Schemas <- DOMAIN SchemaKey, Hash <- SchemaKey, Bad <- {"x"},
    Capacity <- 2, Objects <- 1 .. 3

TwoValidators == INSTANCE SchemaCache WITH
    table <- s_table, size <- s_size, thread <- s_thread, undefined <- s_undefined,
    Threads <- {t1, t2}, Schemas <- {"a", "b", "d"}, Hash <- SchemaKey, Bad <- {},
    Capacity <- 1, Objects <- 1 .. 3

-----------------------------------------------------------------------------
(* Files with overlapping prefixes, tools and patterns, unreadable and malformed  *)
(* ones among them                                                              *)

VARIABLES backend_list, list, method_cache, b_thread, used, b_answer, reloading,
          b_undefined

backendVars == <<backend_list, list, method_cache, b_thread, used, b_answer, reloading,
                 b_undefined>>

Backend(prefixes, tools, regexes) ==
    [object |-> TRUE, complete |-> TRUE, strings |-> TRUE,
     compiles |-> regexes # {<<"(">>}, prefixes |-> prefixes, tools |-> tools,
     regexes |-> regexes]

File(readable, items) == [readable |-> readable, array |-> TRUE, items |-> items]

ConfigFiles ==
    {File(TRUE, <<Backend({<<"a">>}, {<<"t">>}, {}), Backend({<<"a", "b">>, <<"b">>}, {}, {})>>),
     File(TRUE, <<Backend({<<"a", "b">>}, {}, {<<"b">>})>>),
     File(TRUE, <<>>), File(FALSE, <<>>),
     File(TRUE, <<Backend({}, {}, {}), Backend({}, {}, {<<"(">>})>>)}

Asked == {[method |-> "read_resource", name |-> <<"a", "b">>],
          [method |-> "read_resource", name |-> <<"b">>],
          [method |-> "call_tool", name |-> <<"t">>],
          [method |-> "call_tool", name |-> <<"u">>],
          [method |-> "ping", name |-> <<>>]}

Backends == INSTANCE BackendCache WITH
    thread <- b_thread, answer <- b_answer, undefined <- b_undefined,
    Threads <- {t1, t2}, Requests <- Asked,
    Files <- ConfigFiles, Overlap <- FALSE, MaxReloads <- 1

-----------------------------------------------------------------------------
(* Three keys of which two collide in a table of up to four chains *)

VARIABLES h_buckets, h_capacity, h_size, owned, h_answer

mapVars == <<h_buckets, h_capacity, h_size, owned, h_answer>>

Map == INSTANCE HashTable WITH
    buckets <- h_buckets, capacity <- h_capacity, size <- h_size, answer <- h_answer,
    Keys <- 1 .. 3, Values <- 11 .. 14, NoValue <- 0, Hash <- <<0, 1, 4>>,
    InitialCapacity <- 1, Load <- 3, MaxCapacity <- 8

-----------------------------------------------------------------------------
(* Templates.  A symbol is a letter, or a word where only the whole matters *)

VARIABLES r_cache, r_entries, default_validator, worker, current, r_undefined

routeVars == <<r_cache, r_entries, default_validator, worker, current, r_undefined>>

Plain == <<"u", "{", "x", "}">>
Two == <<"/", "{", "x", ":", "int", "}", "/", "a", "{", "y", "}">>
Optional == <<"{", "x", "?", "}", "/", "u">>
OptionalInt == <<"u", "{", "x", ":", "int", "?", "}">>
Malformed == <<"u", "{", "x">>
Pattern == <<"u", "{", "x", ":", "pattern", ":", "a", "*", "1", "}", "/">>
Default == <<"u", "/", "{", "x", ":", "bool", "=", "1", "}", "/">>

\* Texts of up to three symbols, and two that run through both parameters of Two.
UrisOf(symbols) ==
    {u \in UNION {[1 .. n -> symbols] : n \in 1 .. 3} :
        \/ u[1] = "u"
        \/ u[1] = "/" /\ Len(u) < 3}
        \cup {<<"/", "1", "/", "a", "u">>, <<"/", "1", "/", "1", "u">>}

Values == {[n \in {<<"x">>, <<"y">>} |-> IF n = <<"x">> THEN a ELSE <<"string", <<"u">>>>] :
              a \in {<<"string", <<"a">>>>, <<"number", 11>>, <<"string", <<"a", "a", "1">>>>}}

Typed == INSTANCE TemplateRoutes WITH
    cache <- r_cache, entries <- r_entries, undefined <- r_undefined, MaxValue <- 3,
    Workers <- {t1}, Templates <- {Two, Pattern, Malformed},
    Uris <- UrisOf({"u", "/", "1", "a"}),
    Given <- Values, MaxCached <- 2, Validators <- {}

Optionals == INSTANCE TemplateRoutes WITH
    cache <- r_cache, entries <- r_entries, undefined <- r_undefined, MaxValue <- 3,
    Workers <- {t1}, Templates <- {Optional, OptionalInt, Default},
    Uris <- UrisOf({"u", "/", "1"}),
    Given <- Values, MaxCached <- 2, Validators <- {}

Guarded == INSTANCE TemplateRoutes WITH
    cache <- r_cache, entries <- r_entries, undefined <- r_undefined, MaxValue <- 3,
    Workers <- {t1}, Templates <- {Plain, Two}, Uris <- {<<"u">>, <<"u", "/", "1", "/">>},
    Given <- Values, MaxCached <- 2, Validators <- {TRUE, FALSE}

Routed == INSTANCE TemplateRoutes WITH
    cache <- r_cache, entries <- r_entries, undefined <- r_undefined, MaxValue <- 3,
    Workers <- {t1, t2}, Templates <- {Plain, Two}, Uris <- {<<"u">>, <<"u", "/", "1", "/">>},
    Given <- {}, MaxCached <- 1, Validators <- {}

-----------------------------------------------------------------------------
(* The limiters, the resource cache and all of them side by side *)

CONSTANTS c1, c2

MCHash == (c1 :> 1) @@ (c2 :> 3)

VARIABLES part, cache, table, lru, entry, released, puts, time, thread, hit, failed

cacheVars ==
    <<cache, table, lru, entry, released, puts, time, thread, hit, failed>>

Shared == INSTANCE Cache WITH
    Keys <- {k1, k2}, Threads <- {t1, t2}, Capacity <- 1, DefaultTtl <- 1,
    Ttls <- {0}, Counts <- {1, 2}, MaxTime <- 2, MaxPuts <- 2

Evicting == INSTANCE Cache WITH
    Keys <- {k1, k2, k3}, Threads <- {t1}, Capacity <- 2, DefaultTtl <- 1,
    Ttls <- {-1}, Counts <- {1}, MaxTime <- 1, MaxPuts <- 3

VARIABLES a_now, rules, entries, a_grants, changed, undefined

ruleVars == <<a_now, rules, entries, a_grants, changed, undefined>>

Key(type, name) == [type |-> type, name |-> name]

Window(alg, window, max, pattern, priority) ==
    [type |-> "ip", alg |-> alg, window |-> window, max |-> max, rate |-> 0,
     pattern |-> pattern, accepts |-> {"a"}, priority |-> priority]

Bucket(type, alg, max, rate) ==
    [type |-> type, alg |-> alg, window |-> 0, max |-> max, rate |-> rate,
     pattern |-> "none", accepts |-> {"a", "u"}, priority |-> 0]

Windows == INSTANCE AdvancedRateLimiter WITH
    now <- a_now, grants <- a_grants, Keys <- {Key("ip", "a")},
    Rules <- {Window("sliding", 2, 2, "none", 0), Window("sliding", 3, 1, "a", 1),
              Window("fixed", 2, 2, "none", 0)},
    Unit <- 1, MaxRules <- 2, MaxTime <- 6, MaxGrants <- 5

Buckets == INSTANCE AdvancedRateLimiter WITH
    now <- a_now, grants <- a_grants, Keys <- {Key("user_id", "u"), Key("ip", "a")},
    Rules <- {Bucket("user_id", "token", 2, 1), Bucket("ip", "leaky", 1, 1)},
    Unit <- 2, MaxRules <- 1, MaxTime <- 5, MaxGrants <- 4

lookupVars == <<dnsVars, schemaVars, backendVars, mapVars, routeVars>>

Lookups == {"dns", "one_validator", "two_validators", "backends", "map", "typed",
            "optionals", "guarded", "routed"}

LookupInit ==
    /\ Dns!Init /\ Map!Init
    /\ IF part = "two_validators" THEN TwoValidators!Init ELSE OneValidator!Init
    /\ IF part = "backends" THEN Backends!Init
       ELSE Backends!Init /\ backend_list = <<>>
    /\ CASE part = "optionals" -> Optionals!Init
         [] part = "guarded" -> Guarded!Init
         [] part = "routed" -> Routed!Init
         [] OTHER -> Typed!Init

LookupNext ==
    \/ /\ part = "dns" /\ Dns!Next
       /\ UNCHANGED <<schemaVars, backendVars, mapVars, routeVars>>
    \/ /\ \/ part = "one_validator" /\ OneValidator!Next
          \/ part = "two_validators" /\ TwoValidators!Next
       /\ UNCHANGED <<dnsVars, backendVars, mapVars, routeVars>>
    \/ /\ part = "backends" /\ Backends!Next
       /\ UNCHANGED <<dnsVars, schemaVars, mapVars, routeVars>>
    \/ /\ part = "map" /\ Map!Next
       /\ UNCHANGED <<dnsVars, schemaVars, backendVars, routeVars>>
    \/ /\ \/ part = "typed" /\ Typed!Next
          \/ part = "optionals" /\ Optionals!Next
          \/ part = "guarded" /\ Guarded!Next
          \/ part = "routed" /\ Routed!Next
       /\ UNCHANGED <<dnsVars, schemaVars, backendVars, mapVars>>

StateInit ==
    /\ part \in {"limiter", "shared", "evicting", "windows", "buckets"} \cup Lookups
    /\ Init
    /\ IF part = "evicting" THEN Evicting!Init ELSE Shared!Init
    /\ IF part = "buckets" THEN Buckets!Init ELSE Windows!Init
    /\ LookupInit

StateNext ==
    \/ part = "limiter" /\ Next /\ UNCHANGED <<cacheVars, ruleVars, lookupVars>>
    \/ part = "shared" /\ Shared!Next /\ UNCHANGED <<vars, ruleVars, lookupVars>>
    \/ part = "evicting" /\ Evicting!Next /\ UNCHANGED <<vars, ruleVars, lookupVars>>
    \/ part = "windows" /\ Windows!Next /\ UNCHANGED <<vars, cacheVars, lookupVars>>
    \/ part = "buckets" /\ Buckets!Next /\ UNCHANGED <<vars, cacheVars, lookupVars>>
    \/ part \in Lookups /\ LookupNext /\ UNCHANGED <<vars, cacheVars, ruleVars>>

StateVars == <<part, vars, cacheVars, ruleVars, lookupVars>>

StateSpec == StateInit /\ [][StateNext /\ UNCHANGED part]_StateVars

\* The types of the states.
TypesOK ==
    /\ part = "limiter" => TypeOK
    /\ part = "shared" => Shared!TypeOK
    /\ part = "evicting" => Evicting!TypeOK
    /\ part = "windows" => Windows!TypeOK
    /\ part = "buckets" => Buckets!TypeOK
    /\ part = "dns" => Dns!TypeOK
    /\ part = "one_validator" => OneValidator!TypeOK
    /\ part = "two_validators" => TwoValidators!TypeOK
    /\ part = "backends" => Backends!TypeOK
    /\ part = "map" => Map!TypeOK
    /\ part = "typed" => Typed!TypeOK

\* For two threads and for a longer list: table and LRU list of the resource cache
\* hold the same entries, each once, and no more than the capacity; and a hit of
\* mcp_cache_get returns content of its key that had not expired.
CacheExact ==
    /\ part = "shared" => Shared!LruMatches /\ Shared!HitsValid
    /\ part = "evicting" => Evicting!LruMatches /\ Evicting!HitsValid

\* Every algorithm of the limiter with rules keeps its bound: what a bucket
\* holds and is refilled with, also when the rules change, and what a window
\* admits while they stay as they are.
RulesBound ==
    /\ part = "windows" => Windows!WindowBound
    /\ part = "buckets" => Buckets!BucketBound

\* As long as no lookup overlaps a miss, the slots of the DNS cache hold lists that
\* are allocated, counted and freed once; the schemas of one thread are in table and
\* list alike and each is freed once, and those of two stay within the capacity; and
\* the hash table has one entry for each key and counts them.  When no request
\* overlaps a reload, no backend of a list that was freed is found in the method
\* cache or used, and what the cache has of a method is an answer that the list in
\* use gave.
SharedExact ==
    /\ part = "backends" => Backends!BackendsCurrent
    /\ part = "dns" => Dns!ListsExact
    /\ part = "one_validator" => OneValidator!SchemasExact
    /\ part = "two_validators" => TwoValidators!SchemasExact
    /\ part = "map" => Map!SizeExact

\* The hash table, its growth and the values it frees included, is a map that owns
\* its values.
ImplementsOwningMap == Map!M!Init /\ [][part = "map" => Map!M!Next]_(Map!M!vars)

\* A URI is routed to the first registered template that matches it, with the
\* parameters that expand to it again; validators are those set last; the cache of
\* parsed templates holds each once and what parsing it gives.  All of this until
\* two workers are in the cache at once or one uses a template another has freed.
TemplatesExact ==
    /\ part = "typed" => Typed!TemplatesExact
    /\ part = "optionals" => Optionals!TemplatesExact
    /\ part = "guarded" => Guarded!TemplatesExact
    /\ part = "routed" => Routed!TemplatesExact
=============================================================================
