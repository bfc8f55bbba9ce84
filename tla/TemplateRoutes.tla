--------------------------- MODULE TemplateRoutes ---------------------------
(***************************************************************************)
(* Reading a resource through a template: the client expands it            *)
(* (src/client/mcp_client_template.c), and a worker of the server tries    *)
(* the registered templates one by one (mcp_server_template_router.c),     *)
(* each through the cache of parsed templates that all workers share       *)
(* without a lock (mcp_template_optimized.c), extracts the parameters from *)
(* the first that matches and asks the validators                          *)
(* (mcp_template_security.c) before it calls the handler.                  *)
(*                                                                         *)
(* The first half has the templates of src/common/mcp_template.c and       *)
(* mcp_template_optimized.c as functions on texts.  A text is a sequence   *)
(* of symbols, each of which stands for a character or for a word the code *)
(* only compares as a whole ("int", "pattern", "true").  Expand, Matches   *)
(* and Extract are the first file's; Parsed, MatchesCached and             *)
(* ExtractCached are the second one's, which the server uses.              *)
(* A specification in braces holds no further opening brace.               *)
(***************************************************************************)
EXTENDS Naturals, Sequences, FiniteSets

CONSTANTS
    MaxValue,     \* The longest value the stack buffers hold (255).
    NULL,         \* A null pointer.
    Workers,      \* The threads that handle requests.
    Templates,    \* The templates that are registered.
    Uris,         \* What is asked for without a template.
    Given,        \* The parameters a client may expand a template with.
    MaxCached,    \* MAX_CACHED_TEMPLATES.
    Validators    \* What a validator may say: a set of Booleans.

VARIABLES
    cache,        \* g_template_cache, most recently used first.
    entries,      \* The entries of the template security, in order.
    default_validator,
    worker,       \* Where each worker is.
    current,      \* The validator that was last set for each template.
    undefined     \* Whether a template that was freed has been used, or two
                  \* workers were in the cache, which has no lock, at once.

vars == <<cache, entries, default_validator, worker, current, undefined>>

FirstOf(S) == IF S = {} THEN 0 ELSE CHOOSE i \in S : \A j \in S : i <= j

\* strpbrk and strchr from position i on, 0 when nothing is found.
Find(s, chars, i) == FirstOf({k \in i .. Len(s) : s[k] \in chars})

From(s, i) == SubSeq(s, i, Len(s))

StartsWith(s, p) == Len(p) <= Len(s) /\ SubSeq(s, 1, Len(p)) = p

EndsWith(s, p) == Len(p) <= Len(s) /\ From(s, Len(s) - Len(p) + 1) = p

(***************************************************************************)
(* Specifications of a parameter: name, "?", ":" and type, "=" and default.*)
(***************************************************************************)
TypeNamed(text) ==
    IF text \in {<<"int">>, <<"float">>, <<"bool">>} THEN text[1]
    ELSE IF StartsWith(text, <<"pattern", ":">>) THEN "custom" ELSE "string"

Param(name, required, text, default) ==
    [name |-> name, required |-> required, type |-> TypeNamed(text),
     pattern |-> From(text, 3), default |-> default]

ParseSpec(spec) ==
    LET name_end == Find(spec, {":", "=", "?"}, 1)
        name     == SubSeq(spec, 1, name_end - 1)
        optional == spec[name_end] = "?"
        c        == IF optional THEN name_end + 1 ELSE name_end
        type_end == LET e == Find(spec, {"=", "?"}, c + 1)
                    IN IF e = 0 THEN Len(spec) + 1 ELSE e
        typed    == spec[c] = ":"
        d        == IF typed THEN type_end ELSE c
        text     == IF typed THEN SubSeq(spec, c + 1, type_end - 1) ELSE <<>>
    IN IF name_end = 0 THEN Param(spec, TRUE, <<>>, NULL)
       ELSE IF c > Len(spec) THEN Param(name, FALSE, <<>>, NULL)
       ELSE IF optional /\ spec[c] \notin {":", "="} THEN NULL
       ELSE IF d <= Len(spec) /\ spec[d] = "="
            THEN Param(name, FALSE, text, From(spec, d + 1))
            ELSE Param(name, ~optional, text, NULL)

\* Of a pattern only the first of its wildcards counts, unless the last
\* symbol is one.
PatternMatches(value, pattern) ==
    LET star == Find(pattern, {"*"}, 1)
        last == Len(pattern)
    IN IF last > 0 /\ pattern[last] = "*"
       THEN StartsWith(value, SubSeq(pattern, 1, last - 1))
       ELSE IF star = 0 THEN value = pattern
       ELSE /\ StartsWith(value, SubSeq(pattern, 1, star - 1))
            /\ EndsWith(value, From(pattern, star + 1))
            /\ last - 1 <= Len(value)

Digits == {"0", "1"}

Booleans == {<<"true">>, <<"false">>, <<"1">>, <<"0">>}

Number(value) ==
    LET n[k \in 0 .. Len(value)] ==
            IF k = 0 THEN 0
            ELSE 10 * n[k - 1] + (IF value[k] = "1" THEN 1 ELSE 0)
    IN n[Len(value)]

Numeric(value) == \A k \in DOMAIN value : value[k] \in Digits

\* strtof leaves nothing unread of an empty text; strtol is asked whether it
\* read anything.
Valid(value, param) ==
    CASE param.type = "int"    -> value # <<>> /\ Numeric(value)
      [] param.type = "float"  -> Numeric(value)
      [] param.type = "bool"   -> value \in Booleans
      [] param.type = "custom" -> PatternMatches(value, param.pattern)
      [] OTHER                 -> TRUE

\* The JSON value an extracted text becomes.
Typed(value, type) ==
    CASE type \in {"int", "float"} -> <<"number", Number(value)>>
      [] type = "bool" -> <<"boolean", value \in {<<"true">>, <<"1">>}>>
      [] OTHER -> <<"string", value>>

(***************************************************************************)
(* Expansion.  A number is written in decimal digits, and a Boolean counts *)
(* as missing.                                                             *)
(***************************************************************************)
Decimal(n) ==
    LET d[k \in 0 .. n] ==
            IF k < 10 THEN <<IF k = 1 THEN "1" ELSE "0">>
            ELSE d[k \div 10] \o <<IF k % 10 = 1 THEN "1" ELSE "0">>
    IN d[n]

ValueOf(param, params) ==
    LET given == IF param.name \in DOMAIN params THEN params[param.name][1]
                 ELSE "none"
        text  == CASE given = "string" -> params[param.name][2]
                   [] given = "number" -> Decimal(params[param.name][2])
                   [] param.required   -> NULL
                   [] param.default # NULL -> param.default
                   [] OTHER -> <<>>
    IN IF text # NULL /\ Valid(text, param) THEN text ELSE NULL

RECURSIVE ExpandFrom(_, _, _)
ExpandFrom(template, params, p) ==
    LET end   == Find(template, {"}"}, p)
        param == ParseSpec(SubSeq(template, p + 1, end - 1))
        value == IF end = 0 \/ param = NULL THEN NULL ELSE ValueOf(param, params)
        rest  == ExpandFrom(template, params,
                            IF template[p] = "{" THEN end + 1 ELSE p + 1)
    IN IF p > Len(template) THEN <<>>
       ELSE IF template[p] = "{"
       THEN IF value = NULL THEN NULL
            ELSE IF rest = NULL THEN NULL ELSE value \o rest
       ELSE IF rest = NULL THEN NULL ELSE <<template[p]>> \o rest

Expand(template, params) == ExpandFrom(template, params, 1)

(***************************************************************************)
(* Matching and extracting without the cache.                              *)
(***************************************************************************)
\* An optional parameter whose next symbol is missing is skipped by stepping
\* back onto its closing brace.
RECURSIVE MatchFrom(_, _, _, _)
MatchFrom(uri, template, u, t) ==
    IF t > Len(template) THEN u > Len(uri)
    ELSE IF template[t] # "{"
    THEN u <= Len(uri) /\ uri[u] = template[t]
         /\ MatchFrom(uri, template, u + 1, t + 1)
    ELSE LET end   == Find(template, {"}"}, t)
             param == ParseSpec(SubSeq(template, t + 1, end - 1))
             next  == Find(uri, {template[end + 1]}, u)
         IN IF end = 0 THEN FALSE
            ELSE IF param = NULL THEN FALSE
            ELSE IF end = Len(template) THEN TRUE
            ELSE IF next = 0
            THEN ~param.required /\ MatchFrom(uri, template, u, end)
            ELSE /\ next - u <= MaxValue
                 /\ Valid(SubSeq(uri, u, next - 1), param)
                 /\ MatchFrom(uri, template, next, end + 1)

Matches(uri, template) == MatchFrom(uri, template, 1, 1)

Set(params, name, value) ==
    [n \in DOMAIN params \cup {name} |-> IF n = name THEN value ELSE params[n]]

RECURSIVE ExtractFrom(_, _, _, _, _)
ExtractFrom(uri, template, u, t, params) ==
    IF t > Len(template) THEN params
    ELSE IF template[t] # "{"
    THEN IF u <= Len(uri) /\ uri[u] = template[t]
         THEN ExtractFrom(uri, template, u + 1, t + 1, params) ELSE NULL
    ELSE LET end   == Find(template, {"}"}, t)
             param == ParseSpec(SubSeq(template, t + 1, end - 1))
             last  == end = Len(template)
             next  == IF last THEN Len(uri) + 1
                      ELSE Find(uri, {template[end + 1]}, u)
             value == SubSeq(uri, u, next - 1)
         IN IF end = 0 THEN NULL
            ELSE IF param = NULL THEN NULL
            ELSE IF next = 0
            THEN IF param.required THEN NULL
                 ELSE ExtractFrom(uri, template, u, end + 1,
                        IF param.default = NULL THEN params
                        ELSE Set(params, param.name, <<"string", param.default>>))
            ELSE IF next - u > MaxValue \/ ~Valid(value, param) THEN NULL
            ELSE ExtractFrom(uri, template, IF last THEN u ELSE next, end + 1,
                             Set(params, param.name, Typed(value, param.type)))

Extract(uri, template) == ExtractFrom(uri, template, 1, 1, <<>>)

(***************************************************************************)
(* The parsed form: the parameters and the static parts around them.       *)
(***************************************************************************)
RECURSIVE ParseFrom(_, _, _, _)
ParseFrom(template, start, parts, params) ==
    LET p    == Find(template, {"{"}, start)
        end  == Find(template, {"}"}, p)
        spec == SubSeq(template, p + 1, end - 1)
    IN IF p = 0 THEN [parts |-> Append(parts, From(template, start)),
                      params |-> params]
       ELSE IF end = 0 THEN NULL
       ELSE IF ParseSpec(spec) = NULL THEN NULL
       ELSE ParseFrom(template, end + 1,
                      Append(parts, SubSeq(template, start, p - 1)),
                      Append(params, ParseSpec(spec)))

Parsed(template) == ParseFrom(template, 1, <<>>, <<>>)

\* find_next_static_part looking for the first symbol alone.
FindPartFirst(uri, u, part) ==
    IF part = <<>> THEN Len(uri) + 1 ELSE Find(uri, {part[1]}, u)

FindPart(uri, u, part) ==
    IF part = <<>> THEN Len(uri) + 1
    ELSE FirstOf({k \in u .. Len(uri) : StartsWith(From(uri, k), part)})

ValidCached(value, param) ==
    IF value = <<>> THEN ~param.required ELSE Valid(value, param)

RECURSIVE MatchParams(_, _, _, _)
MatchParams(uri, cached, u, i) ==
    LET param == cached.params[i]
        next  == FindPart(uri, u, cached.parts[i + 1])
    IN IF i > Len(cached.params) THEN u > Len(uri)
       ELSE IF next = 0
       THEN ~param.required /\ MatchParams(uri, cached, u, i + 1)
       ELSE /\ next - u <= MaxValue
            /\ ValidCached(SubSeq(uri, u, next - 1), param)
            /\ MatchParams(uri, cached, next + Len(cached.parts[i + 1]), i + 1)

MatchesCached(uri, cached) ==
    /\ StartsWith(uri, cached.parts[1])
    /\ MatchParams(uri, cached, Len(cached.parts[1]) + 1, 1)

\* The tests are written again for each type: a number or a Boolean is never
\* read from an empty value, even of an optional parameter.
ValidExtracted(value, param) ==
    IF param.type \in {"int", "float", "bool"}
    THEN value # <<>> /\ Valid(value, param)
    ELSE ValidCached(value, param)

Skipped(param) ==
    IF param.default = NULL THEN <<"string", <<>>>>
    ELSE Typed(param.default, param.type)

RECURSIVE ExtractParams(_, _, _, _, _)
ExtractParams(uri, cached, u, i, params) ==
    LET param == cached.params[i]
        next  == FindPart(uri, u, cached.parts[i + 1])
        value == SubSeq(uri, u, next - 1)
    IN IF i > Len(cached.params)
       THEN IF u > Len(uri) THEN params ELSE NULL
       ELSE IF next = 0
       THEN IF param.required THEN NULL
            ELSE ExtractParams(uri, cached, u, i + 1,
                               Set(params, param.name, Skipped(param)))
       ELSE IF next - u > MaxValue \/ ~ValidExtracted(value, param) THEN NULL
       ELSE ExtractParams(uri, cached, next + Len(cached.parts[i + 1]), i + 1,
                          Set(params, param.name, Typed(value, param.type)))

ExtractCached(uri, cached) ==
    IF StartsWith(uri, cached.parts[1])
    THEN ExtractParams(uri, cached, Len(cached.parts[1]) + 1, 1, <<>>)
    ELSE NULL

(***************************************************************************)
(* The cache, the routes and the workers.                                  *)
(***************************************************************************)
Idle == [pc |-> "idle", uri |-> <<>>, todo |-> <<>>, cached |-> NULL,
         freed |-> FALSE, params |-> NULL, from |-> NULL]

Orders == {order \in [1 .. Cardinality(Templates) -> Templates] :
             \A i, j \in DOMAIN order : order[i] = order[j] => i = j}

\* The structure: the workers hold entries of the cache, and the templates
\* in the cache are registered ones.
TypeOK ==
    /\ Len(cache) \in 0 .. MaxCached
    /\ \A i \in DOMAIN cache : cache[i].template_uri \in Templates
    /\ default_validator \in Validators \cup {NULL}
    /\ \A w \in Workers :
         /\ worker[w].pc \in {"idle", "find", "obtain", "match", "find_again",
                              "obtain_again", "extract", "validate", "handled", "refused", "not_found"}
         /\ worker[w].freed \in BOOLEAN
    /\ undefined \in BOOLEAN

Init ==
    /\ cache = <<>> /\ entries = <<>> /\ default_validator = NULL
    /\ worker = [w \in Workers |-> Idle]
    /\ current = [t \in Templates |-> NULL]
    /\ undefined = FALSE

(***************************************************************************)
(* A request: a URI as it is, or one expanded from a template.             *)
(***************************************************************************)
Ask(w, uri, from, order) ==
    /\ worker[w].pc = "idle" /\ uri # NULL
    /\ worker' = [worker EXCEPT ![w] =
                    [Idle EXCEPT !.pc = "find", !.uri = uri, !.todo = order,
                                 !.from = from]]
    /\ UNCHANGED <<cache, entries, default_validator, current, undefined>>

Read(w) ==
    \E order \in Orders :
      \/ \E uri \in Uris : Ask(w, uri, NULL, order)
      \/ \E t \in Templates, params \in Given :
            Ask(w, Expand(t, params), [template |-> t, params |-> params], order)

(***************************************************************************)
(* The cache.                                                              *)
(***************************************************************************)
At(t) == FirstOf({i \in DOMAIN cache : cache[i].template_uri = t})

ToFront(s, i) == <<s[i]>> \o SubSeq(s, 1, i - 1) \o From(s, i + 1)

\* The cache after a template that is not in it was added: the last one is
\* freed when there is no room, even if the new one cannot be parsed.
Room == IF Len(cache) >= MaxCached THEN SubSeq(cache, 1, MaxCached - 1) ELSE cache

Evicted == IF Len(cache) >= MaxCached THEN {cache[Len(cache)]} ELSE {}

Entry(t) == [template_uri |-> t, parsed |-> Parsed(t)]

\* mcp_template_cache_add that leaves the new template at the last place.
AddLast(t) == IF Parsed(t) = NULL THEN Room ELSE Append(Room, Entry(t))

Add(t) == IF Parsed(t) = NULL THEN Room ELSE <<Entry(t)>> \o Room

\* The functions of the cache look for a template, free another and move the
\* others without a lock, so nothing is known once two workers are in them at once.
InCache(w) == worker[w].pc \in {"obtain", "obtain_again"}

Enter(w, pc) ==
    /\ worker' = [worker EXCEPT ![w].pc = pc]
    /\ undefined' = (undefined \/ \E x \in Workers \ {w} : InCache(x))
    /\ UNCHANGED <<cache, entries, default_validator, current>>

\* mcp_template_cache_find, then mcp_template_cache_add when it finds nothing, of
\* a worker that is alone in them.
Obtain(w, t, pc) ==
    /\ cache' = IF At(t) # 0 THEN ToFront(cache, At(t)) ELSE Add(t)
    /\ worker' = [x \in Workers |->
         IF x = w THEN [worker[w] EXCEPT !.pc = pc, !.freed = FALSE,
                          !.cached = IF Parsed(t) = NULL THEN NULL ELSE Entry(t)]
         ELSE IF At(t) = 0 /\ worker[x].cached \in Evicted
         THEN [worker[x] EXCEPT !.freed = TRUE] ELSE worker[x]]
    /\ UNCHANGED <<entries, default_validator, current, undefined>>

(***************************************************************************)
(* The route: template_route_match_callback for each registered template.  *)
(***************************************************************************)
Lookup(w) ==
    \/ worker[w].pc = "find" /\ worker[w].todo # <<>> /\ Enter(w, "obtain")
    \/ worker[w].pc = "obtain" /\ Obtain(w, Head(worker[w].todo), "match")

NoRoute(w) ==
    /\ worker[w].pc = "find" /\ worker[w].todo = <<>>
    /\ worker' = [worker EXCEPT ![w].pc = "not_found"]
    /\ UNCHANGED <<cache, entries, default_validator, current, undefined>>

Match(w) ==
    /\ worker[w].pc = "match"
    /\ LET template == Head(worker[w].todo)
           matched == IF worker[w].cached = NULL
                      THEN Matches(worker[w].uri, template)
                      ELSE MatchesCached(worker[w].uri, worker[w].cached.parsed)
       IN worker' = IF matched
                    THEN [worker EXCEPT ![w].pc = "find_again"]
                    ELSE [worker EXCEPT ![w].pc = "find", ![w].cached = NULL,
                                        ![w].todo = Tail(@)]
    /\ undefined' = (undefined \/ worker[w].freed)
    /\ UNCHANGED <<cache, entries, default_validator, current>>

LookupAgain(w) ==
    \/ worker[w].pc = "find_again" /\ Enter(w, "obtain_again")
    \/ worker[w].pc = "obtain_again" /\ Obtain(w, Head(worker[w].todo), "extract")

ExtractStep(w) ==
    /\ worker[w].pc = "extract"
    /\ worker' = [worker EXCEPT ![w].pc = "validate", ![w].cached = NULL,
         ![w].freed = FALSE,
         ![w].params = IF worker[w].cached = NULL
                       THEN Extract(worker[w].uri, Head(worker[w].todo))
                       ELSE ExtractCached(worker[w].uri, worker[w].cached.parsed)]
    /\ undefined' = (undefined \/ worker[w].freed)
    /\ UNCHANGED <<cache, entries, default_validator, current>>

(***************************************************************************)
(* Validators.                                                             *)
(***************************************************************************)
\* The last entry of a template instead of the first.
EntryOfLast(t) ==
    LET S == {i \in DOMAIN entries : entries[i].template_uri = t}
    IN IF S = {} THEN 0 ELSE CHOOSE i \in S : \A j \in S : j <= i

EntryOf(t) == FirstOf({i \in DOMAIN entries : entries[i].template_uri = t})

Verdict(t) ==
    LET own == IF EntryOf(t) = 0 THEN NULL ELSE entries[EntryOf(t)].validator
    IN IF own # NULL THEN own
       ELSE IF default_validator # NULL THEN default_validator ELSE TRUE

\* There is a security context once anything has been set.
Secured == entries # <<>> \/ default_validator # NULL

Handle(w) ==
    /\ worker[w].pc = "validate"
    /\ worker' = [worker EXCEPT ![w].pc =
         IF ~Secured
            \/ (worker[w].params # NULL /\ Verdict(Head(worker[w].todo)))
         THEN "handled" ELSE "refused"]
    /\ UNCHANGED <<cache, entries, default_validator, current, undefined>>

Answered(w) ==
    /\ worker[w].pc \in {"handled", "refused", "not_found"}
    /\ worker' = [worker EXCEPT ![w] = Idle]
    /\ UNCHANGED <<cache, entries, default_validator, current, undefined>>

\* The server is set up before it handles requests.
Quiet == \A w \in Workers : worker[w] = Idle

MaxEntries == 2

AddAcl(t) ==
    /\ Quiet /\ Len(entries) < MaxEntries
    /\ entries' = Append(entries, [template_uri |-> t, validator |-> NULL])
    /\ UNCHANGED <<cache, default_validator, worker, current, undefined>>

SetValidator(t, v) ==
    /\ Quiet
    /\ IF EntryOf(t) # 0
       THEN entries' = [entries EXCEPT ![EntryOf(t)].validator = v]
       ELSE /\ Len(entries) < MaxEntries
            /\ entries' = Append(entries, [template_uri |-> t, validator |-> v])
    /\ current' = [current EXCEPT ![t] = v]
    /\ UNCHANGED <<cache, default_validator, worker, undefined>>

SetDefaultValidator(v) ==
    /\ Quiet /\ default_validator' = v
    /\ UNCHANGED <<cache, entries, worker, current, undefined>>

CacheCleanup ==
    /\ Quiet /\ cache # <<>> /\ cache' = <<>>
    /\ UNCHANGED <<entries, default_validator, worker, current, undefined>>

\* Nothing is said of what follows an undefined step.
Next ==
    /\ ~undefined
    /\ \/ \E w \in Workers : Read(w) \/ Lookup(w) \/ NoRoute(w) \/ Match(w)
                             \/ LookupAgain(w) \/ ExtractStep(w) \/ Handle(w)
                             \/ Answered(w)
       \/ \E t \in Templates : AddAcl(t) \/ \E v \in Validators : SetValidator(t, v)
       \/ \E v \in Validators : SetDefaultValidator(v)
       \/ CacheCleanup

Spec == Init /\ [][Next]_vars

(***************************************************************************)
(* Properties.                                                             *)
(***************************************************************************)
\* The template a worker has settled on.
Chosen(w) == Head(worker[w].todo)

\* Its parameters are all required, and are texts or whole numbers.
Plain(t) ==
    /\ Parsed(t) # NULL
    /\ \A i \in DOMAIN Parsed(t).params :
         Parsed(t).params[i].required /\ Parsed(t).params[i].type # "bool"

\* A template that is handled with parameters is the one the URI was made
\* from as far as can be told: expanding it again with them gives the URI
\* (mcp_template_matches_optimized, mcp_template_extract_params_optimized
\* against mcp_template_expand).
RouteSound ==
    \A w \in Workers : worker[w].pc = "validate" /\ Plain(Chosen(w)) =>
        /\ worker[w].params # NULL
        /\ Expand(Chosen(w), worker[w].params) = worker[w].uri

\* A client that reads through a template that is plain, and whose values
\* hold no separator and are not empty, is not told that there is none; when
\* it is the template chosen, the handler's parameters read as the client's
\* (mcp_client_read_resource_with_template to mcp_server_find_template_route).
Separated(from) ==
    \A n \in DOMAIN from.params :
        from.params[n][1] = "string" =>
            from.params[n][2] # <<>> /\ Find(from.params[n][2], {"/"}, 1) = 0

RoundTrip ==
    \A w \in Workers :
        worker[w].from # NULL /\ Plain(worker[w].from.template)
        /\ Separated(worker[w].from) =>
            /\ worker[w].pc # "not_found"
            /\ worker[w].pc = "validate"
               /\ Chosen(w) = worker[w].from.template =>
                \A i \in DOMAIN Parsed(Chosen(w)).params :
                    LET param == Parsed(Chosen(w)).params[i]
                    IN ValueOf(param, worker[w].params)
                       = ValueOf(param, worker[w].from.params)

\* The validator asked is the one last set for the template, however entries
\* and validators were added (mcp_template_security_set_validator,
\* mcp_template_security_validate_params).
ValidatorCurrent ==
    \A w \in Workers : worker[w].pc = "handled" /\ current[Chosen(w)] # NULL =>
        current[Chosen(w)] = TRUE

\* The cache holds a template once, with its parsed form, as long as no two
\* workers have been in it at once, and the template used last comes first when
\* one worker runs (mcp_template_cache_find, mcp_template_cache_add).
CacheExact ==
    /\ \A i, j \in DOMAIN cache :
         cache[i].template_uri = cache[j].template_uri => i = j
    /\ \A i \in DOMAIN cache : cache[i].parsed = Parsed(cache[i].template_uri)
    /\ Cardinality(Workers) = 1 =>
         \A w \in Workers :
            worker[w].cached # NULL => cache # <<>> /\ cache[1] = worker[w].cached

TemplatesExact ==
    ~undefined => RouteSound /\ RoundTrip /\ ValidatorCurrent /\ CacheExact

\* The two matchers agree on every URI and registered template.  They do not:
\* see the README.
SameAnswer ==
    \A w \in Workers : worker[w].pc = "match" /\ worker[w].cached # NULL =>
        Matches(worker[w].uri, Chosen(w))
        = MatchesCached(worker[w].uri, worker[w].cached.parsed)

\* A parameter written {name:type?} may be left out
\* (include/mcp_template.h).  It may not: the "?" after the type is not read.
Omitted(t) == Parsed(t).parts[1] \o Parsed(t).parts[2]

TypedOptionalOmitted ==
    \A w \in Workers, t \in Templates :
        worker[w].pc = "not_found" /\ Parsed(t) # NULL
        /\ Len(Parsed(t).params) = 1 /\ t[Find(t, {"}"}, 1) - 1] = "?" =>
            worker[w].uri # Omitted(t)

\* No worker uses a template that another one has freed, or the cache beside
\* another one.  It can.
NeverUndefined == ~undefined
=============================================================================
