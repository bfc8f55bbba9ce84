------------------------- MODULE AdvancedRateLimiter -------------------------
(* The rule-based rate limiter (src/server/mcp_advanced_rate_limiter.c) with   *)
(* its four algorithms, for checks that do not overlap (a transport with one   *)
(* receiving thread).  The hash table of clients is a function of their keys;  *)
(* the statistics are left out.  Levels of buckets are counted in units of     *)
(* 1/Unit requests, so that rates may be fractions.                            *)
EXTENDS Naturals, Sequences, FiniteSets, SequencesExt

CONSTANTS Keys,       \* keys of requests: [type, name]
          Rules,      \* rules that may be added: [type, alg, window, max, rate,
                      \*   pattern, accepts, priority]
          Unit,       \* levels and rates are multiples of 1/Unit
          MaxRules,   \* MAX_RULES_PER_KEY_TYPE
          MaxTime,    \* bound: seconds
          MaxGrants   \* bound: grants to one key

VARIABLES now,        \* time(NULL)
          rules,      \* the lists of rules, last added first
          entries,    \* client_buckets
          grants,     \* history: times of the requests allowed by a key's entry
          changed,    \* history: a rule was added or removed while there were entries
          undefined   \* the data of an entry was read as another algorithm's

vars == <<now, rules, entries, grants, changed, undefined>>

\* The order in which mcp_advanced_rate_limiter_check looks at the keys.
Order == <<"api_key", "user_id", "ip", "custom">>

Before(j, k) == \E m, n \in DOMAIN Order : m < n /\ Order[m] = j.type /\ Order[n] = k.type

NoEntry == [alg |-> "none"]

Init ==
    /\ now = 1
    /\ rules = <<>>
    /\ entries = [k \in Keys |-> NoEntry]
    /\ grants = [k \in Keys |-> <<>>]
    /\ changed = FALSE /\ undefined = FALSE

-----------------------------------------------------------------------------
\* r.accepts are the names for which key_matches_pattern holds, or all names when
\* the rule has no pattern.
Matches(r, k) == r.type = k.type /\ k.name \in r.accepts

Candidates(k) == {i \in DOMAIN rules : Matches(rules[i], k)}

\* find_matching_rule: of the rules with the highest priority the one that was
\* added last.
BestIndex(k) ==
    CHOOSE i \in Candidates(k) :
        \A j \in Candidates(k) :
            \/ rules[j].priority < rules[i].priority
            \/ rules[j].priority = rules[i].priority /\ i <= j

HasRule(k) == Candidates(k) # {}

Rule(k) == rules[BestIndex(k)]

\* initialize_algorithm_data
NewEntry(r) ==
    CASE r.alg = "fixed" -> [alg |-> "fixed", start |-> now, count |-> 0]
      [] r.alg = "sliding" -> [alg |-> "sliding", pos |-> 1,
                               times |-> [i \in 1 .. r.max |-> 0]]
      [] r.alg = "token" -> [alg |-> "token", level |-> Unit * r.max, last |-> now,
                             rate |-> r.rate, max |-> r.max]
      [] r.alg = "leaky" -> [alg |-> "leaky", level |-> 0, last |-> now,
                             rate |-> r.rate, max |-> r.max]

\* The four checks: whether the request is allowed, and the entry after it.
Result(allowed, e) == [allowed |-> allowed, entry |-> e]

CheckFixed(e, r) ==
    LET f == IF now - e.start >= r.window THEN [e EXCEPT !.start = now, !.count = 0] ELSE e
    IN  IF f.count < r.max THEN Result(TRUE, [f EXCEPT !.count = @ + 1])
                           ELSE Result(FALSE, f)

\* Mutant: the window is one second short.
InWindowShort(t, r) == t > 0 /\ now - t < r.window - 1

InWindow(t, r) == t > 0 /\ now - t < r.window

CheckSliding(e, r) ==
    LET kept == [i \in DOMAIN e.times |-> IF InWindow(e.times[i], r) THEN e.times[i] ELSE 0]
        active == Cardinality({i \in DOMAIN kept : kept[i] # 0})
    IN  IF active < r.max
        THEN Result(TRUE, [e EXCEPT !.times = [kept EXCEPT ![e.pos] = now],
                                    !.pos = (e.pos % Len(e.times)) + 1])
        ELSE Result(FALSE, [e EXCEPT !.times = kept])

Least(m, n) == IF m < n THEN m ELSE n

CheckToken(e, r) ==
    LET f == [e EXCEPT !.level = Least(@ + (now - e.last) * e.rate, Unit * e.max),
                       !.last = now]
    IN  IF f.level >= Unit THEN Result(TRUE, [f EXCEPT !.level = @ - Unit])
                           ELSE Result(FALSE, f)

CheckLeaky(e, r) ==
    LET leaked == (now - e.last) * e.rate
        f == [e EXCEPT !.level = IF @ > leaked THEN @ - leaked ELSE 0, !.last = now]
    IN  IF f.level + Unit <= Unit * e.max THEN Result(TRUE, [f EXCEPT !.level = @ + Unit])
                                          ELSE Result(FALSE, f)

\* One key of a request.  Without a rule no entry is made, and an entry that is
\* there allows nothing.
CheckKey(k) ==
    IF ~HasRule(k) THEN Result(FALSE, entries[k])
    ELSE LET r == Rule(k)
             e == IF entries[k] = NoEntry THEN NewEntry(r) ELSE entries[k]
         IN  IF e.alg # r.alg THEN Result(FALSE, e)
             ELSE CASE r.alg = "fixed" -> CheckFixed(e, r)
                    [] r.alg = "sliding" -> CheckSliding(e, r)
                    [] r.alg = "token" -> CheckToken(e, r)
                    [] r.alg = "leaky" -> CheckLeaky(e, r)

\* The keys a request is checked by: up to the first that allows it.
Consulted(request) ==
    {k \in request : \A j \in request : Before(j, k) => ~CheckKey(j).allowed}

\* mcp_advanced_rate_limiter_check for a request with at most one key of a type.
Check(request) ==
    LET used == Consulted(request)
    IN  /\ \A k \in used : Len(grants[k]) < MaxGrants
        /\ entries' = [k \in Keys |-> IF k \in used THEN CheckKey(k).entry ELSE entries[k]]
        /\ grants' = [k \in Keys |-> IF k \in used /\ CheckKey(k).allowed
                                     THEN Append(grants[k], now) ELSE grants[k]]
        /\ undefined' = \E k \in used :
               HasRule(k) /\ entries[k] # NoEntry /\ entries[k].alg # Rule(k).alg
        /\ UNCHANGED <<now, rules, changed>>

-----------------------------------------------------------------------------
OfType(type) == {i \in DOMAIN rules : rules[i].type = type}

AddRule(r) ==
    /\ Cardinality(OfType(r.type)) < MaxRules
    /\ rules' = <<r>> \o rules
    /\ changed' = (changed \/ \E k \in Keys : entries[k] # NoEntry)
    /\ UNCHANGED <<now, entries, grants, undefined>>

\* The rule of the type with the pattern that was added last.
RemoveRule(type, pattern) ==
    /\ \E i \in OfType(type) :
        /\ rules[i].pattern = pattern
        /\ \A j \in OfType(type) : rules[j].pattern = pattern => i <= j
        /\ rules' = RemoveAt(rules, i)
    /\ changed' = (changed \/ \E k \in Keys : entries[k] # NoEntry)
    /\ UNCHANGED <<now, entries, grants, undefined>>

\* mcp_advanced_rate_limiter_clear_data: limits begin anew.
ClearData ==
    /\ entries' = [k \in Keys |-> NoEntry]
    /\ grants' = [k \in Keys |-> <<>>]
    /\ changed' = FALSE
    /\ UNCHANGED <<now, rules, undefined>>

Tick ==
    /\ now < MaxTime
    /\ now' = now + 1
    /\ UNCHANGED <<rules, entries, grants, changed, undefined>>

Requests == {q \in SUBSET Keys : q # {} /\ \A j, k \in q : j.type = k.type => j = k}

Next ==
    /\ ~undefined
    /\ \/ \E q \in Requests : Check(q)
       \/ \E r \in Rules : AddRule(r)
       \/ \E r \in Rules : RemoveRule(r.type, r.pattern)
       \/ ClearData
       \/ Tick

Spec == Init /\ [][Next]_vars

-----------------------------------------------------------------------------
TypeOK ==
    /\ now \in 1 .. MaxTime
    /\ rules \in Seq(Rules)
    /\ \A k \in Keys :
        LET e == entries[k]
        IN  \/ e = NoEntry
            \/ e.alg = "fixed" /\ e.start \in 1 .. now /\ e.count \in Nat
            \/ e.alg = "sliding" /\ e.pos \in DOMAIN e.times
               /\ \A i \in DOMAIN e.times : e.times[i] \in 0 .. now
            \/ e.alg \in {"token", "leaky"} /\ e.last \in 1 .. now
               /\ e.level \in 0 .. Unit * e.max
    /\ grants \in [Keys -> Seq(1 .. MaxTime)]
    /\ changed \in BOOLEAN /\ undefined \in BOOLEAN

\* Buckets: between any two of its grants, both included, a key gets at most its
\* capacity and what the rate gives in the time between them.  The entry keeps
\* the parameters of the rule it was made for, so this holds through changes of
\* the rules.
BucketBound ==
    \A k \in Keys : entries[k].alg \in {"token", "leaky"} =>
        \A i, j \in DOMAIN grants[k] : i <= j =>
            Unit * (j - i + 1) <= Unit * entries[k].max
                                    + entries[k].rate * (grants[k][j] - grants[k][i])

\* Windows, while the rules stay as they are: of max + 1 consecutive grants of a
\* sliding window the first is over when the last is given, and a fixed window
\* gives at most 2 * max in the length of a window.
WindowBound ==
    ~changed =>
        \A k \in Keys : entries[k].alg \in {"fixed", "sliding"} =>
            LET n == IF entries[k].alg = "sliding" THEN Rule(k).max ELSE 2 * Rule(k).max
            IN  \A i \in DOMAIN grants[k] : i + n \in DOMAIN grants[k] =>
                    grants[k][i + n] - grants[k][i] >= Rule(k).window

\* The sliding window through changes of the rules.  It does not hold: the
\* buffer keeps the size of the first rule, and when a later rule allows more
\* than it holds every request is allowed.
SlidingBoundAlways ==
    \A k \in Keys : entries[k].alg = "sliding" /\ HasRule(k) =>
        \A i \in DOMAIN grants[k] : i + Rule(k).max \in DOMAIN grants[k] =>
            grants[k][i + Rule(k).max] - grants[k][i] >= Rule(k).window
=============================================================================
