----------------------------- MODULE RateLimiter -----------------------------
(***************************************************************************)
(* The basic fixed-window rate limiter of src/server/mcp_rate_limiter.c.   *)
(*                                                                         *)
(* mcp_rate_limiter_check runs under the limiter's mutex from beginning to *)
(* end, so one call is one action whatever threads make it.  The hash      *)
(* table is kept as it is in the code, a growing array of chains; the      *)
(* order inside a chain is abstracted, a chain maps the clients it holds   *)
(* to their entries.  "now" is time(NULL), assumed not to step back.       *)
(*                                                                         *)
(* "grants" is a history variable: for every client, the requests that     *)
(* were allowed, each with its time and the start of the window it was     *)
(* counted in.  "denied" holds the clients whose latest check was refused  *)
(* for exceeding the limit.                                                *)
(***************************************************************************)
EXTENDS Integers, Sequences, FiniteSets, TLAPS

CONSTANTS
    Clients,        \* client identifiers (IP addresses)
    Hash,           \* hash_client_id, as a function on Clients
    WindowSeconds,  \* window_seconds
    MaxRequests,    \* max_requests_per_window
    CapacityHint,   \* capacity_hint of mcp_rate_limiter_create
    MinCapacity,    \* RATE_LIMIT_MIN_CAPACITY
    MaxTime,        \* bound: the clock stops here
    MaxGrants       \* bound: requests allowed per client

ASSUME LimiterAssumption ==
    /\ IsFiniteSet(Clients)
    /\ Hash \in [Clients -> Nat]
    /\ WindowSeconds \in Nat \ {0}
    /\ MaxRequests \in Nat \ {0}
    /\ CapacityHint \in Nat
    /\ MinCapacity \in Nat \ {0}
    /\ MaxTime \in Nat
    /\ MaxGrants \in Nat

VARIABLES
    now,        \* the wall clock, in seconds
    capacity,   \* number of buckets
    buckets,    \* bucket index -> (client -> its entry)
    count,      \* number of entries
    grants,     \* history: client -> sequence of allowed requests
    denied      \* history: clients refused by their latest check

vars == <<now, capacity, buckets, count, grants, denied>>

Entry == [start: Nat, requests: Nat]

\* A client without an entry: an entry in the table has counted a request.
NoEntry == [start |-> 0, requests |-> 0]

\* Mutant: the minimum capacity is not enforced.
InitNoMinimum ==
    /\ now = 1
    /\ capacity = 2 * CapacityHint
    /\ buckets = [i \in 0 .. capacity - 1 |-> [c \in Clients |-> NoEntry]]
    /\ count = 0
    /\ grants = [c \in Clients |-> <<>>]
    /\ denied = {}

\* mcp_rate_limiter_create.
Init ==
    /\ now = 1
    /\ capacity = IF 2 * CapacityHint < MinCapacity
                    THEN MinCapacity ELSE 2 * CapacityHint
    /\ buckets = [i \in 0 .. capacity - 1 |-> [c \in Clients |-> NoEntry]]
    /\ count = 0
    /\ grants = [c \in Clients |-> <<>>]
    /\ denied = {}

-----------------------------------------------------------------------------
\* The bucket a lookup visits in a table of n buckets.
BucketOf(c, n) == Hash[c] % n

\* The load factor check at the head of find_or_create_entry: the table is
\* doubled when one more entry would exceed three quarters of its capacity.
NeedsResize == 4 * (count + 1) > 3 * capacity

\* The entry of client c, in whatever bucket a scan of the table meets it.
Held(c) ==
    IF \E i \in 0 .. capacity - 1 : buckets[i][c] # NoEntry
      THEN buckets[CHOOSE i \in 0 .. capacity - 1 : buckets[i][c] # NoEntry][c]
      ELSE NoEntry

\* Mutant: the rehash keeps using the old capacity.
RehashedByOldCapacity(n) ==
    [i \in 0 .. n - 1 |->
        [c \in Clients |-> IF BucketOf(c, capacity) = i THEN Held(c) ELSE NoEntry]]

\* The doubled table: every entry is moved to the bucket of its hash.
Rehashed(n) ==
    [i \in 0 .. n - 1 |->
        [c \in Clients |-> IF BucketOf(c, n) = i THEN Held(c) ELSE NoEntry]]

NewCapacity == IF NeedsResize THEN 2 * capacity ELSE capacity

Table == IF NeedsResize THEN Rehashed(2 * capacity) ELSE buckets

\* What find_or_create_entry finds for client c.
Found(c) == Table[BucketOf(c, NewCapacity)][c]

\* The table after entry e was stored for client c.
Stored(c, e) == [Table EXCEPT ![BucketOf(c, NewCapacity)][c] = e]

Grant(c, start) ==
    /\ Len(grants[c]) < MaxGrants
    /\ grants' = [grants EXCEPT ![c] = Append(@, [time |-> now, start |-> start])]
    /\ denied' = denied \ {c}

\* Mutant: the boundary second still belongs to the old window.
StartsWindowLate(c) == Found(c) = NoEntry \/ now > Found(c).start + WindowSeconds

\* mcp_rate_limiter_check of a client that has no entry, or whose window is over.
StartsWindow(c) == Found(c) = NoEntry \/ now >= Found(c).start + WindowSeconds

CheckNewWindow(c) ==
    /\ StartsWindow(c)
    /\ capacity' = NewCapacity
    /\ buckets' = Stored(c, [start |-> now, requests |-> 1])
    /\ count' = IF Found(c) = NoEntry THEN count + 1 ELSE count
    /\ Grant(c, now)
    /\ UNCHANGED now

\* Mutant: one request more than the limit is allowed.
CheckInWindowOffByOne(c) ==
    /\ ~StartsWindow(c)
    /\ Found(c).requests <= MaxRequests
    /\ capacity' = NewCapacity
    /\ buckets' = Stored(c, [Found(c) EXCEPT !.requests = @ + 1])
    /\ Grant(c, Found(c).start)
    /\ UNCHANGED <<now, count>>

\* mcp_rate_limiter_check inside the client's window, below the limit.
CheckInWindow(c) ==
    /\ ~StartsWindow(c)
    /\ Found(c).requests < MaxRequests
    /\ capacity' = NewCapacity
    /\ buckets' = Stored(c, [Found(c) EXCEPT !.requests = @ + 1])
    /\ Grant(c, Found(c).start)
    /\ UNCHANGED <<now, count>>

\* mcp_rate_limiter_check inside the client's window, the limit reached.
CheckDenied(c) ==
    /\ ~StartsWindow(c)
    /\ Found(c).requests >= MaxRequests
    /\ capacity' = NewCapacity
    /\ buckets' = Table
    /\ denied' = denied \cup {c}
    /\ UNCHANGED <<now, count, grants>>

\* An allocation fails: the request is refused.  The new bucket array comes
\* first (nothing has changed yet), the new entry after it (the table has
\* been resized by then).
CheckOutOfMemory(c) ==
    /\ \/ /\ NeedsResize
          /\ UNCHANGED <<capacity, buckets>>
       \/ /\ Found(c) = NoEntry
          /\ capacity' = NewCapacity
          /\ buckets' = Table
    /\ denied' = denied \ {c}
    /\ UNCHANGED <<now, count, grants>>

Tick ==
    /\ now < MaxTime
    /\ now' = now + 1
    /\ denied' = {}
    /\ UNCHANGED <<capacity, buckets, count, grants>>

Next ==
    \/ \E c \in Clients : \/ CheckNewWindow(c)
                          \/ CheckInWindow(c)
                          \/ CheckDenied(c)
                          \/ CheckOutOfMemory(c)
    \/ Tick

Spec == Init /\ [][Next]_vars

-----------------------------------------------------------------------------
\* Type correctness of the limiter's state.
TypeOK ==
    /\ now \in Nat \ {0}
    /\ capacity \in Nat \ {0}
    /\ buckets \in [0 .. capacity - 1 -> [Clients -> Entry]]
    /\ count \in Nat
    /\ grants \in [Clients -> Seq([time: Nat, start: Nat])]
    /\ denied \in SUBSET Clients

\* The rehash of find_or_create_entry loses and misplaces no entry: every entry
\* sits in the one bucket that a lookup of its client visits, so no client is
\* ever given a second, fresh entry.
EntriesFindable ==
    \A i \in 0 .. capacity - 1 : \A c \in Clients :
        buckets[i][c] # NoEntry => BucketOf(c, capacity) = i

\* What limiting by fixed windows really promises (mcp_rate_limiter_check,
\* across window boundaries and table resizes): of any 2 * MaxRequests + 1
\* consecutive requests allowed to one client, the first and the last are at
\* least a window apart.
RateBound ==
    \A c \in Clients : \A i, j \in DOMAIN grants[c] :
        j = i + 2 * MaxRequests => grants[c][j].time - grants[c][i].time >= WindowSeconds

\* A client is refused for its rate only when it used up its allowance: at
\* least MaxRequests requests were allowed to it in the last WindowSeconds.
DenialJustified ==
    \A c \in denied :
        LET n == Len(grants[c])
        IN  /\ n >= MaxRequests
            /\ grants[c][n - MaxRequests + 1].time + WindowSeconds > now

-----------------------------------------------------------------------------
(* Proofs: the invariants hold for every set of clients, hash function,      *)
(* window, limit and table size.                                            *)

GrantRec == [time: Nat, start: Nat]

\* The entry a lookup of c finds between two calls.
EntryOf(c) == buckets[BucketOf(c, capacity)][c]

\* What ties the grants g of a client to its entry e at time t.  The last
\* e.requests grants are those of the current window; windows are at least
\* WindowSeconds apart, start no earlier than every grant of the windows
\* before them, and hold at most MaxRequests grants each.
CurrentWindow(g, e, t) ==
    /\ e.requests \in 1 .. MaxRequests
    /\ e.requests <= Len(g)
    /\ e.start <= t
    /\ \A i \in 1 .. Len(g) :
         /\ g[i].start <= g[i].time
         /\ g[i].time <= t
         /\ i > Len(g) - e.requests => g[i].start = e.start
         /\ i <= Len(g) - e.requests => /\ e.start >= g[i].time
                                        /\ e.start >= g[i].start + WindowSeconds

WindowsApart(g) ==
    \A i, j \in 1 .. Len(g) :
        /\ (i < j /\ g[i].start # g[j].start) =>
               /\ g[j].start >= g[i].time
               /\ g[j].start >= g[i].start + WindowSeconds
        /\ j >= i + MaxRequests => g[i].start # g[j].start

GrantsOf(g, e, t) ==
    IF e = NoEntry THEN g = <<>> ELSE CurrentWindow(g, e, t) /\ WindowsApart(g)

\* The inductive invariant.
IInv ==
    /\ TypeOK
    /\ EntriesFindable
    /\ \A c \in Clients : GrantsOf(grants[c], EntryOf(c), now)
    /\ \A c \in denied : /\ EntryOf(c) # NoEntry
                         /\ EntryOf(c).requests >= MaxRequests
                         /\ now < EntryOf(c).start + WindowSeconds

-----------------------------------------------------------------------------
\* A hash modulo a number of buckets is the index of a bucket.
LEMMA BucketInRange ==
    ASSUME NEW c \in Clients, NEW n \in Nat \ {0}
    PROVE  BucketOf(c, n) \in 0 .. n - 1
  BY LimiterAssumption DEF BucketOf

\* The fields of a grant are numbers.
LEMMA GrantTyped ==
    ASSUME NEW g \in Seq(GrantRec), NEW i \in 1 .. Len(g)
    PROVE  g[i].time \in Nat /\ g[i].start \in Nat
  <1>1. g[i] \in GrantRec
    OBVIOUS
  <1> QED BY <1>1 DEF GrantRec

\* A request allowed in the current window keeps the ties.
LEMMA GrantInWindow ==
    ASSUME NEW g \in Seq(GrantRec), NEW e \in Entry, NEW t \in Nat,
           e # NoEntry, GrantsOf(g, e, t), e.requests < MaxRequests
    PROVE  GrantsOf(Append(g, [time |-> t, start |-> e.start]),
                    [e EXCEPT !.requests = @ + 1], t)
  <1> DEFINE r == [time |-> t, start |-> e.start]
             h == Append(g, r)
             f == [e EXCEPT !.requests = @ + 1]
  <1>1. /\ e.requests \in Nat /\ e.start \in Nat
        /\ f.requests = e.requests + 1 /\ f.start = e.start
        /\ r.time = t /\ r.start = e.start /\ r \in GrantRec
    BY DEF Entry, GrantRec
  <1>2. f # NoEntry
    BY <1>1 DEF NoEntry
  <1>3. /\ Len(g) \in Nat /\ Len(h) = Len(g) + 1 /\ h[Len(g) + 1] = r
        /\ \A i \in 1 .. Len(g) : h[i] = g[i] /\ g[i].time \in Nat /\ g[i].start \in Nat
    <2>1. /\ Len(g) \in Nat
          /\ \A i \in 1 .. Len(g) : g[i] \in GrantRec
      OBVIOUS
    <2>2. Len(h) = Len(g) + 1 /\ h[Len(g) + 1] = r
      BY <1>1
    <2>3. \A i \in 1 .. Len(g) : h[i] = g[i]
      BY <1>1
    <2> QED BY <2>1, <2>2, <2>3 DEF GrantRec
  <1>4. CurrentWindow(g, e, t) /\ WindowsApart(g)
    BY DEF GrantsOf
  <1> HIDE DEF h, f, r
  <1>5. CurrentWindow(h, f, t)
    <2>1. /\ f.requests \in 1 .. MaxRequests
          /\ f.requests <= Len(h)
          /\ f.start <= t
      BY <1>1, <1>3, <1>4, LimiterAssumption DEF CurrentWindow
    <2>2. ASSUME NEW i \in 1 .. Len(h)
          PROVE  /\ h[i].start <= h[i].time
                 /\ h[i].time <= t
                 /\ i > Len(h) - f.requests => h[i].start = f.start
                 /\ i <= Len(h) - f.requests => /\ f.start >= h[i].time
                                                /\ f.start >= h[i].start + WindowSeconds
      <3>1. CASE i <= Len(g)
        <4>1. i \in 1 .. Len(g)
          BY <1>3, <3>1
        <4>2. /\ g[i].start <= g[i].time
              /\ g[i].time <= t
              /\ i > Len(g) - e.requests => g[i].start = e.start
              /\ i <= Len(g) - e.requests => /\ e.start >= g[i].time
                                             /\ e.start >= g[i].start + WindowSeconds
          BY <1>4, <4>1 DEF CurrentWindow
        <4>3. Len(h) - f.requests = Len(g) - e.requests
          <5>1. f.requests = e.requests + 1 /\ e.requests \in Int
            BY <1>1
          <5>2. Len(h) = Len(g) + 1 /\ Len(g) \in Int
            BY <1>3
          <5> QED BY <5>1, <5>2
        <4>4. h[i] = g[i] /\ f.start = e.start
          BY <1>1, <1>3, <4>1
        <4> QED BY <4>2, <4>3, <4>4
      <3>2. CASE i = Len(g) + 1
        BY <1>1, <1>3, <1>4, <3>2, LimiterAssumption DEF CurrentWindow
      <3> QED BY <3>1, <3>2, <1>3
    <2> QED BY <2>1, <2>2 DEF CurrentWindow
  <1>6. WindowsApart(h)
    <2> SUFFICES ASSUME NEW i \in 1 .. Len(h), NEW j \in 1 .. Len(h)
        PROVE  /\ (i < j /\ h[i].start # h[j].start) =>
                      /\ h[j].start >= h[i].time
                      /\ h[j].start >= h[i].start + WindowSeconds
               /\ j >= i + MaxRequests => h[i].start # h[j].start
      BY DEF WindowsApart
    <2>1. CASE j <= Len(g) /\ i <= Len(g)
      BY <1>3, <1>4, <2>1, LimiterAssumption DEF WindowsApart
    <2>2. CASE j = Len(g) + 1 /\ i <= Len(g)
      <3>1. i \in 1 .. Len(g)
        BY <1>3, <2>2
      <3>2. /\ i > Len(g) - e.requests => g[i].start = e.start
            /\ i <= Len(g) - e.requests => /\ e.start >= g[i].time
                                           /\ e.start >= g[i].start + WindowSeconds
            /\ e.requests \in 1 .. MaxRequests
        BY <1>4, <3>1 DEF CurrentWindow
      <3>3. h[i] = g[i] /\ h[j].start = e.start
        BY <1>1, <1>3, <2>2, <3>1
      <3>4. j >= i + MaxRequests => i <= Len(g) - e.requests
        BY <1>1, <1>3, <2>2, LimiterAssumption
      <3> QED BY <1>1, <1>3, <3>1, <3>2, <3>3, <3>4, LimiterAssumption
    <2>3. CASE i = Len(g) + 1
      BY <1>3, <2>3, LimiterAssumption
    <2> QED BY <2>1, <2>2, <2>3, <1>3
  <1> QED BY <1>2, <1>5, <1>6 DEF GrantsOf, h, f, r

\* A request that starts a window keeps the ties.
LEMMA GrantNewWindow ==
    ASSUME NEW g \in Seq(GrantRec), NEW e \in Entry, NEW t \in Nat,
           e = NoEntry \/ t >= e.start + WindowSeconds, GrantsOf(g, e, t)
    PROVE  GrantsOf(Append(g, [time |-> t, start |-> t]), [start |-> t, requests |-> 1], t)
  <1> DEFINE r == [time |-> t, start |-> t]
             h == Append(g, r)
             f == [start |-> t, requests |-> 1]
  <1>1. /\ e.requests \in Nat /\ e.start \in Nat
        /\ f.requests = 1 /\ f.start = t
        /\ r.time = t /\ r.start = t /\ r \in GrantRec
    BY DEF Entry, GrantRec
  <1>2. f # NoEntry
    BY <1>1 DEF NoEntry
  <1>3. /\ Len(g) \in Nat /\ Len(h) = Len(g) + 1 /\ h[Len(g) + 1] = r
        /\ \A i \in 1 .. Len(g) : h[i] = g[i] /\ g[i].time \in Nat /\ g[i].start \in Nat
    <2>1. /\ Len(g) \in Nat
          /\ \A i \in 1 .. Len(g) : g[i] \in GrantRec
      OBVIOUS
    <2>2. Len(h) = Len(g) + 1 /\ h[Len(g) + 1] = r
      BY <1>1
    <2>3. \A i \in 1 .. Len(g) : h[i] = g[i]
      BY <1>1
    <2> QED BY <2>1, <2>2, <2>3 DEF GrantRec
  <1> HIDE DEF h, f, r
  <1>4. /\ WindowsApart(g)
        /\ \A i \in 1 .. Len(g) : /\ g[i].start <= g[i].time
                                  /\ g[i].time <= t
                                  /\ t >= g[i].start + WindowSeconds
    <2>1. CASE e = NoEntry
      <3>1. Len(g) = 0
        BY <2>1 DEF GrantsOf
      <3> QED BY <3>1 DEF WindowsApart
    <2>2. CASE e # NoEntry
      <3>1. CurrentWindow(g, e, t) /\ WindowsApart(g)
        BY <2>2 DEF GrantsOf
      <3>2. ASSUME NEW i \in 1 .. Len(g)
            PROVE  /\ g[i].start <= g[i].time
                   /\ g[i].time <= t
                   /\ t >= g[i].start + WindowSeconds
        <4>1. /\ g[i].start <= g[i].time
              /\ g[i].time <= t
              /\ i > Len(g) - e.requests => g[i].start = e.start
              /\ i <= Len(g) - e.requests => e.start >= g[i].start + WindowSeconds
          BY <3>1 DEF CurrentWindow
        <4>2. t >= e.start + WindowSeconds
          BY <2>2
        <4>3. /\ i \in Nat /\ Len(g) - e.requests \in Int
              /\ e.start \in Nat /\ g[i].start \in Nat /\ WindowSeconds \in Nat
          BY <1>1, <1>3, LimiterAssumption
        <4>4. CASE i > Len(g) - e.requests
          BY <4>1, <4>2, <4>4
        <4>5. CASE i <= Len(g) - e.requests
          <5>1. e.start >= g[i].start + WindowSeconds
            BY <4>1, <4>5
          <5>2. t >= g[i].start + WindowSeconds
            BY ONLY <4>2, <4>3, <5>1, t \in Nat
          <5> QED BY <4>1, <5>2
        <4> QED BY <4>3, <4>4, <4>5
      <3> QED BY <3>1, <3>2
    <2> QED BY <2>1, <2>2
  <1>5. CurrentWindow(h, f, t)
    <2>1. ASSUME NEW i \in 1 .. Len(h)
          PROVE  /\ h[i].start <= h[i].time
                 /\ h[i].time <= t
                 /\ i > Len(h) - f.requests => h[i].start = f.start
                 /\ i <= Len(h) - f.requests => /\ f.start >= h[i].time
                                                /\ f.start >= h[i].start + WindowSeconds
      <3>1. CASE i <= Len(g)
        <4>1. i \in 1 .. Len(g)
          BY <1>3, <3>1
        <4>2. h[i] = g[i] /\ Len(h) - f.requests = Len(g)
          BY <1>1, <1>3, <4>1
        <4>3. g[i].start <= g[i].time /\ g[i].time <= t /\ t >= g[i].start + WindowSeconds
          BY <1>4, <4>1
        <4>4. ~(i > Len(h) - f.requests)
          BY <3>1, <4>1, <4>2, <1>3
        <4> QED BY <1>1, <1>3, <4>1, <4>2, <4>3, <4>4
      <3>2. CASE i = Len(g) + 1
        <4>1. h[i].start = t /\ h[i].time = t /\ Len(h) - f.requests = Len(g)
          BY <1>1, <1>3, <3>2
        <4> QED BY <4>1, <1>1, <1>3, <3>2
      <3> QED BY <3>1, <3>2, <1>3
    <2> QED BY <1>1, <1>3, <2>1, LimiterAssumption DEF CurrentWindow
  <1>6. WindowsApart(h)
    <2> SUFFICES ASSUME NEW i \in 1 .. Len(h), NEW j \in 1 .. Len(h)
        PROVE  /\ (i < j /\ h[i].start # h[j].start) =>
                      /\ h[j].start >= h[i].time
                      /\ h[j].start >= h[i].start + WindowSeconds
               /\ j >= i + MaxRequests => h[i].start # h[j].start
      BY DEF WindowsApart
    <2>1. CASE j <= Len(g) /\ i <= Len(g)
      <3>1. i \in 1 .. Len(g) /\ j \in 1 .. Len(g)
        BY <1>3, <2>1
      <3>2. h[i] = g[i] /\ h[j] = g[j]
        BY <1>3, <3>1
      <3> QED BY <1>4, <3>1, <3>2 DEF WindowsApart
    <2>2. CASE j = Len(g) + 1 /\ i <= Len(g)
      <3>1. i \in 1 .. Len(g)
        BY <1>3, <2>2
      <3>2. h[i] = g[i] /\ h[j].start = t
        BY <1>1, <1>3, <2>2, <3>1
      <3>3. g[i].time <= t /\ t >= g[i].start + WindowSeconds /\ g[i].start \in Nat
        BY <1>3, <1>4, <3>1
      <3> QED BY <3>2, <3>3, LimiterAssumption
    <2>3. CASE i = Len(g) + 1
      BY <1>3, <2>3, LimiterAssumption
    <2> QED BY <2>1, <2>2, <2>3, <1>3
  <1> QED BY <1>2, <1>5, <1>6 DEF GrantsOf, h, f, r

\* Time passing keeps the ties.
LEMMA GrantsLater ==
    ASSUME NEW g \in Seq(GrantRec), NEW e \in Entry, NEW t \in Nat, GrantsOf(g, e, t)
    PROVE  GrantsOf(g, e, t + 1)
  <1>1. CASE e = NoEntry
    BY <1>1 DEF GrantsOf
  <1>2. CASE e # NoEntry
    <2>1. \A i \in 1 .. Len(g) : g[i].time \in Nat
      BY GrantTyped
    <2>2. e.start \in Nat
      BY DEF Entry
    <2>3. CurrentWindow(g, e, t) /\ WindowsApart(g)
      BY <1>2 DEF GrantsOf
    <2>4. /\ e.start <= t + 1
          /\ \A i \in 1 .. Len(g) : g[i].time <= t + 1
      BY <2>1, <2>2, <2>3 DEF CurrentWindow
    <2>5. CurrentWindow(g, e, t + 1)
      BY <2>3, <2>4 DEF CurrentWindow
    <2> QED BY <1>2, <2>3, <2>5 DEF GrantsOf
  <1> QED BY <1>1, <1>2

\* The ties bound the rate: grants 2 * MaxRequests apart belong to windows
\* with a whole window between them.
LEMMA GrantsBound ==
    ASSUME NEW g \in Seq(GrantRec), NEW e \in Entry, NEW t \in Nat, GrantsOf(g, e, t),
           NEW i \in DOMAIN g, NEW j \in DOMAIN g, j = i + 2 * MaxRequests
    PROVE  g[j].time - g[i].time >= WindowSeconds
  <1> DEFINE k == i + MaxRequests
  <1>1. /\ Len(g) \in Nat /\ i \in 1 .. Len(g) /\ j \in 1 .. Len(g) /\ k \in 1 .. Len(g)
        /\ i < k /\ k < j /\ j >= k + MaxRequests
    BY LimiterAssumption
  <1>2. CurrentWindow(g, e, t) /\ WindowsApart(g)
    <2>1. g # <<>>
      BY <1>1
    <2> QED BY <2>1 DEF GrantsOf
  <1> HIDE DEF k
  <1>3. g[k].start # g[i].start /\ g[k].start # g[j].start
    <2>1. k >= i + MaxRequests
      BY LimiterAssumption DEF k
    <2> QED BY <1>1, <1>2, <2>1 DEF WindowsApart
  <1>4. g[k].start >= g[i].time /\ g[j].start >= g[k].start + WindowSeconds
    BY <1>1, <1>2, <1>3 DEF WindowsApart
  <1>5. g[j].start <= g[j].time
    BY <1>1, <1>2 DEF CurrentWindow
  <1>6. /\ g[i].time \in Nat /\ g[j].time \in Nat /\ g[j].start \in Nat /\ g[k].start \in Nat
    BY <1>1, GrantTyped
  <1>7. WindowSeconds \in Nat
    BY LimiterAssumption
  <1>8. \A ti, sk, sj, tj \in Nat :
            (sk >= ti /\ sj >= sk + WindowSeconds /\ sj <= tj) => tj - ti >= WindowSeconds
    BY <1>7
  <1> QED BY <1>4, <1>5, <1>6, <1>8

-----------------------------------------------------------------------------
\* Resizing or not, find_or_create_entry finds what a lookup found before the
\* call, and leaves every entry in the bucket a later lookup visits.
LEMMA TableSound ==
    ASSUME TypeOK, EntriesFindable
    PROVE  /\ NewCapacity \in Nat \ {0}
           /\ Table \in [0 .. NewCapacity - 1 -> [Clients -> Entry]]
           /\ \A c \in Clients : Found(c) = EntryOf(c) /\ Found(c) \in Entry
           /\ \A i \in 0 .. NewCapacity - 1 : \A c \in Clients :
                  Table[i][c] # NoEntry => BucketOf(c, NewCapacity) = i
  <1>1. /\ capacity \in Nat \ {0} /\ 2 * capacity \in Nat \ {0}
        /\ buckets \in [0 .. capacity - 1 -> [Clients -> Entry]]
    BY DEF TypeOK
  <1>2. ASSUME NEW c \in Clients
        PROVE  Held(c) = EntryOf(c) /\ EntryOf(c) \in Entry
    <2>1. BucketOf(c, capacity) \in 0 .. capacity - 1
      BY <1>1, BucketInRange
    <2>2. \A i \in 0 .. capacity - 1 : buckets[i][c] # NoEntry => i = BucketOf(c, capacity)
      BY DEF EntriesFindable
    <2>3. CASE \E i \in 0 .. capacity - 1 : buckets[i][c] # NoEntry
      <3> DEFINE k == CHOOSE i \in 0 .. capacity - 1 : buckets[i][c] # NoEntry
      <3>1. k \in 0 .. capacity - 1 /\ buckets[k][c] # NoEntry
        BY <2>3
      <3>2. Held(c) = buckets[k][c]
        BY <2>3 DEF Held
      <3> QED BY <1>1, <2>1, <2>2, <3>1, <3>2 DEF EntryOf
    <2>4. CASE ~\E i \in 0 .. capacity - 1 : buckets[i][c] # NoEntry
      BY <1>1, <2>1, <2>4 DEF Held, EntryOf
    <2> QED BY <2>3, <2>4
  <1>3. CASE NeedsResize
    <2>1. NewCapacity = 2 * capacity /\ Table = Rehashed(2 * capacity)
      BY <1>3 DEF NewCapacity, Table
    <2>2. NoEntry \in Entry
      BY DEF NoEntry, Entry
    <2>3. Table \in [0 .. NewCapacity - 1 -> [Clients -> Entry]]
      BY <1>2, <2>1, <2>2 DEF Rehashed
    <2>4. ASSUME NEW c \in Clients
          PROVE  Found(c) = EntryOf(c)
      <3>1. BucketOf(c, NewCapacity) \in 0 .. NewCapacity - 1
        BY <1>1, <2>1, BucketInRange
      <3> QED BY <1>2, <2>1, <3>1 DEF Found, Rehashed
    <2>5. \A i \in 0 .. NewCapacity - 1 : \A c \in Clients :
              Table[i][c] # NoEntry => BucketOf(c, NewCapacity) = i
      BY <2>1 DEF Rehashed
    <2> QED BY <1>1, <1>2, <2>1, <2>3, <2>4, <2>5
  <1>4. CASE ~NeedsResize
    <2>1. NewCapacity = capacity /\ Table = buckets
      BY <1>4 DEF NewCapacity, Table
    <2> QED BY <1>1, <1>2, <2>1 DEF Found, EntryOf, EntriesFindable
  <1> QED BY <1>3, <1>4

\* Storing the entry of one client changes what lookups find for that client only.
LEMMA StoredSound ==
    ASSUME TypeOK, EntriesFindable, NEW c \in Clients, NEW e \in Entry,
           capacity' = NewCapacity, buckets' = Stored(c, e)
    PROVE  /\ capacity' \in Nat \ {0}
           /\ buckets' \in [0 .. capacity' - 1 -> [Clients -> Entry]]
           /\ EntriesFindable'
           /\ \A d \in Clients : EntryOf(d)' = IF d = c THEN e ELSE EntryOf(d)
  <1>1. /\ NewCapacity \in Nat \ {0}
        /\ Table \in [0 .. NewCapacity - 1 -> [Clients -> Entry]]
        /\ \A d \in Clients : Table[BucketOf(d, NewCapacity)][d] = EntryOf(d)
        /\ \A i \in 0 .. NewCapacity - 1 : \A d \in Clients :
               Table[i][d] # NoEntry => BucketOf(d, NewCapacity) = i
    BY TableSound DEF Found
  <1>2. \A d \in Clients : BucketOf(d, NewCapacity) \in 0 .. NewCapacity - 1
    BY <1>1, BucketInRange
  <1>3. buckets' = [Table EXCEPT ![BucketOf(c, NewCapacity)][c] = e]
    BY DEF Stored
  <1>4. buckets' \in [0 .. capacity' - 1 -> [Clients -> Entry]]
    BY <1>1, <1>2, <1>3
  <1>5. \A i \in 0 .. NewCapacity - 1 : \A d \in Clients :
            buckets'[i][d] = IF i = BucketOf(c, NewCapacity) /\ d = c THEN e ELSE Table[i][d]
    BY <1>1, <1>2, <1>3
  <1>6. EntriesFindable'
    BY <1>1, <1>5 DEF EntriesFindable, BucketOf
  <1>7. \A d \in Clients : EntryOf(d)' = IF d = c THEN e ELSE EntryOf(d)
    BY <1>1, <1>2, <1>5 DEF EntryOf, BucketOf
  <1> QED BY <1>1, <1>4, <1>6, <1>7

-----------------------------------------------------------------------------
\* mcp_rate_limiter_create establishes the inductive invariant.
LEMMA InitIInv == Init => IInv
  <1> SUFFICES ASSUME Init PROVE IInv
    OBVIOUS
  <1>1. NoEntry \in Entry
    BY DEF NoEntry, Entry
  <1>2. capacity \in Nat \ {0}
    BY LimiterAssumption DEF Init
  <1>3. TypeOK
    BY <1>1, <1>2 DEF Init, TypeOK
  <1>4. \A c \in Clients : EntryOf(c) = NoEntry
    BY <1>2, BucketInRange DEF Init, EntryOf
  <1> QED BY <1>3, <1>4 DEF Init, IInv, EntriesFindable, GrantsOf

\* Every call of mcp_rate_limiter_check and every tick of the clock keeps it.
LEMMA NextIInv == IInv /\ [Next]_vars => IInv'
  <1> SUFFICES ASSUME IInv, [Next]_vars PROVE IInv'
    OBVIOUS
  <1>1. TypeOK /\ EntriesFindable
    BY DEF IInv
  <1>2. /\ NewCapacity \in Nat \ {0}
        /\ Table \in [0 .. NewCapacity - 1 -> [Clients -> Entry]]
        /\ \A c \in Clients : Found(c) = EntryOf(c) /\ Found(c) \in Entry
        /\ \A i \in 0 .. NewCapacity - 1 : \A c \in Clients :
               Table[i][c] # NoEntry => BucketOf(c, NewCapacity) = i
    BY <1>1, TableSound
  <1>3. /\ now \in Nat /\ \A c \in Clients : grants[c] \in Seq(GrantRec)
        /\ grants \in [Clients -> Seq(GrantRec)]
    BY <1>1 DEF TypeOK, GrantRec
  <1>4. ASSUME NEW c \in Clients, CheckNewWindow(c) PROVE IInv'
    <2> DEFINE e == [start |-> now, requests |-> 1]
    <2>1. e \in Entry
      BY <1>3 DEF Entry
    <2>2. /\ capacity' \in Nat \ {0}
          /\ buckets' \in [0 .. capacity' - 1 -> [Clients -> Entry]]
          /\ EntriesFindable'
          /\ \A d \in Clients : EntryOf(d)' = IF d = c THEN e ELSE EntryOf(d)
      BY <1>1, <1>4, <2>1, StoredSound DEF CheckNewWindow
    <2>3. /\ now' = now /\ denied' = denied \ {c} /\ count' \in Nat
          /\ grants' = [grants EXCEPT ![c] = Append(@, [time |-> now, start |-> now])]
      BY <1>1, <1>4 DEF CheckNewWindow, Grant, TypeOK
    <2>4. [time |-> now, start |-> now] \in GrantRec
      BY <1>3 DEF GrantRec
    <2>5. grants' \in [Clients -> Seq(GrantRec)]
      BY <1>3, <2>3, <2>4
    <2>6. TypeOK'
      BY <1>1, <2>2, <2>3, <2>5 DEF TypeOK, GrantRec
    <2>7. GrantsOf(grants'[c], e, now)
      <3>1. EntryOf(c) = NoEntry \/ now >= EntryOf(c).start + WindowSeconds
        BY <1>2, <1>4 DEF CheckNewWindow, StartsWindow
      <3>2. EntryOf(c) \in Entry /\ GrantsOf(grants[c], EntryOf(c), now)
        BY <1>2 DEF IInv
      <3>3. grants'[c] = Append(grants[c], [time |-> now, start |-> now])
        BY <1>3, <2>3
      <3> QED BY <1>3, <3>1, <3>2, <3>3, GrantNewWindow
    <2>8. \A d \in Clients \ {c} : grants'[d] = grants[d]
      BY <1>3, <2>3
    <2> HIDE DEF e
    <2>9. \A d \in Clients : GrantsOf(grants'[d], EntryOf(d)', now')
      BY <2>2, <2>3, <2>7, <2>8 DEF IInv
    <2>10. \A d \in denied' : /\ EntryOf(d)' # NoEntry
                               /\ EntryOf(d)'.requests >= MaxRequests
                               /\ now' < EntryOf(d)'.start + WindowSeconds
      BY <1>1, <2>2, <2>3 DEF IInv, TypeOK
    <2> QED BY <2>2, <2>6, <2>9, <2>10 DEF IInv
  <1>5. ASSUME NEW c \in Clients, CheckInWindow(c) PROVE IInv'
    <2> DEFINE o == EntryOf(c)
               e == [o EXCEPT !.requests = @ + 1]
    <2>1. /\ o \in Entry /\ o # NoEntry /\ o.requests < MaxRequests
          /\ GrantsOf(grants[c], o, now)
      BY <1>2, <1>5 DEF CheckInWindow, StartsWindow, IInv
    <2>2. e \in Entry /\ o.start \in Nat
      BY <2>1 DEF Entry
    <2>3. /\ capacity' \in Nat \ {0}
          /\ buckets' \in [0 .. capacity' - 1 -> [Clients -> Entry]]
          /\ EntriesFindable'
          /\ \A d \in Clients : EntryOf(d)' = IF d = c THEN e ELSE EntryOf(d)
      BY <1>1, <1>2, <1>5, <2>2, StoredSound DEF CheckInWindow
    <2>4. /\ now' = now /\ denied' = denied \ {c} /\ count' \in Nat
          /\ grants' = [grants EXCEPT ![c] = Append(@, [time |-> now, start |-> o.start])]
      BY <1>1, <1>2, <1>5 DEF CheckInWindow, Grant, TypeOK
    <2>5. [time |-> now, start |-> o.start] \in GrantRec
      BY <1>3, <2>2 DEF GrantRec
    <2>6. grants' \in [Clients -> Seq(GrantRec)]
      BY <1>3, <2>4, <2>5
    <2>7. TypeOK'
      BY <1>1, <2>3, <2>4, <2>6 DEF TypeOK, GrantRec
    <2>8. GrantsOf(grants'[c], e, now)
      <3>1. grants'[c] = Append(grants[c], [time |-> now, start |-> o.start])
        BY <1>3, <2>4
      <3> HIDE DEF o
      <3> QED BY <1>3, <2>1, <3>1, GrantInWindow
    <2>9. \A d \in Clients \ {c} : grants'[d] = grants[d]
      BY <1>3, <2>4
    <2> HIDE DEF e, o
    <2>10. \A d \in Clients : GrantsOf(grants'[d], EntryOf(d)', now')
      BY <2>3, <2>4, <2>8, <2>9 DEF IInv
    <2>11. \A d \in denied' : /\ EntryOf(d)' # NoEntry
                               /\ EntryOf(d)'.requests >= MaxRequests
                               /\ now' < EntryOf(d)'.start + WindowSeconds
      BY <1>1, <2>3, <2>4 DEF IInv, TypeOK
    <2> QED BY <2>3, <2>7, <2>10, <2>11 DEF IInv
  <1>6. ASSUME capacity' = NewCapacity, buckets' = Table
        PROVE  /\ capacity' \in Nat \ {0}
               /\ buckets' \in [0 .. capacity' - 1 -> [Clients -> Entry]]
               /\ EntriesFindable'
               /\ \A d \in Clients : EntryOf(d)' = EntryOf(d)
    BY <1>2, <1>6 DEF EntriesFindable, EntryOf, BucketOf, Found
  <1>7. ASSUME NEW c \in Clients, CheckDenied(c) PROVE IInv'
    <2>1. /\ capacity' \in Nat \ {0}
          /\ buckets' \in [0 .. capacity' - 1 -> [Clients -> Entry]]
          /\ EntriesFindable'
          /\ \A d \in Clients : EntryOf(d)' = EntryOf(d)
      BY <1>6, <1>7 DEF CheckDenied
    <2>2. /\ now' = now /\ denied' = denied \cup {c} /\ count' = count /\ grants' = grants
      BY <1>7 DEF CheckDenied
    <2>3. TypeOK'
      BY <1>1, <2>1, <2>2 DEF TypeOK
    <2>4. /\ EntryOf(c) # NoEntry
          /\ EntryOf(c).requests >= MaxRequests
          /\ now < EntryOf(c).start + WindowSeconds
      <3>1. EntryOf(c).start \in Nat
        BY <1>2 DEF Entry
      <3> QED BY <1>2, <1>3, <1>7, <3>1, LimiterAssumption DEF CheckDenied, StartsWindow
    <2>5. \A d \in denied' : /\ EntryOf(d)' # NoEntry
                              /\ EntryOf(d)'.requests >= MaxRequests
                              /\ now' < EntryOf(d)'.start + WindowSeconds
      BY <1>1, <2>1, <2>2, <2>4 DEF IInv, TypeOK
    <2> QED BY <2>1, <2>2, <2>3, <2>5 DEF IInv
  <1>8. ASSUME NEW c \in Clients, CheckOutOfMemory(c) PROVE IInv'
    <2>1. /\ capacity' \in Nat \ {0}
          /\ buckets' \in [0 .. capacity' - 1 -> [Clients -> Entry]]
          /\ EntriesFindable'
          /\ \A d \in Clients : EntryOf(d)' = EntryOf(d)
      <3>1. CASE UNCHANGED <<capacity, buckets>>
        BY <1>1, <3>1 DEF TypeOK, EntriesFindable, EntryOf, BucketOf
      <3>2. CASE capacity' = NewCapacity /\ buckets' = Table
        BY <1>6, <3>2
      <3> QED BY <1>8, <3>1, <3>2 DEF CheckOutOfMemory
    <2>2. /\ now' = now /\ denied' = denied \ {c} /\ count' = count /\ grants' = grants
      BY <1>8 DEF CheckOutOfMemory
    <2>3. TypeOK'
      BY <1>1, <2>1, <2>2 DEF TypeOK
    <2>4. \A d \in denied' : /\ EntryOf(d)' # NoEntry
                              /\ EntryOf(d)'.requests >= MaxRequests
                              /\ now' < EntryOf(d)'.start + WindowSeconds
      BY <1>1, <2>1, <2>2 DEF IInv, TypeOK
    <2> QED BY <2>1, <2>2, <2>3, <2>4 DEF IInv
  <1>9. CASE Tick
    <2>1. \A d \in Clients : EntryOf(d)' = EntryOf(d)
      BY <1>9 DEF Tick, EntryOf, BucketOf
    <2>2. \A d \in Clients : GrantsOf(grants[d], EntryOf(d), now + 1)
      BY <1>2, <1>3, GrantsLater DEF IInv
    <2>3. TypeOK' /\ EntriesFindable'
      BY <1>1, <1>9 DEF Tick, TypeOK, EntriesFindable, BucketOf
    <2> QED BY <1>9, <2>1, <2>2, <2>3 DEF Tick, IInv
  <1>10. CASE UNCHANGED vars
    BY <1>10 DEF vars, IInv, TypeOK, EntriesFindable, EntryOf, BucketOf
  <1> QED BY <1>4, <1>5, <1>7, <1>8, <1>9, <1>10 DEF Next

\* The inductive invariant holds in every reachable state.
THEOREM Inductive == Spec => []IInv
  BY InitIInv, NextIInv, PTL DEF Spec

\* The state of the limiter is always well typed and every entry is where a
\* lookup looks for it, however often the table is resized.
THEOREM TableCorrect == Spec => [](TypeOK /\ EntriesFindable)
  <1>1. IInv => TypeOK /\ EntriesFindable
    BY DEF IInv
  <1> QED BY <1>1, Inductive, PTL

\* mcp_rate_limiter_check never allows a client more than 2 * MaxRequests
\* requests in any span of time shorter than a window.
THEOREM RateBounded == Spec => []RateBound
  <1>1. IInv => RateBound
    <2> SUFFICES ASSUME IInv, NEW c \in Clients, NEW i \in DOMAIN grants[c],
                        NEW j \in DOMAIN grants[c], j = i + 2 * MaxRequests
        PROVE  grants[c][j].time - grants[c][i].time >= WindowSeconds
      BY DEF RateBound
    <2>1. /\ grants[c] \in Seq(GrantRec) /\ now \in Nat
          /\ GrantsOf(grants[c], EntryOf(c), now)
      BY DEF IInv, TypeOK, GrantRec
    <2>2. EntryOf(c) \in Entry
      BY BucketInRange DEF IInv, TypeOK, EntryOf
    <2> QED BY <2>1, <2>2, GrantsBound
  <1> QED BY <1>1, Inductive, PTL

\* mcp_rate_limiter_check refuses a client for its rate only when MaxRequests
\* requests were allowed to it within the last WindowSeconds.
THEOREM DenialsJustified == Spec => []DenialJustified
  <1>1. IInv => DenialJustified
    <2> SUFFICES ASSUME IInv, NEW c \in denied
        PROVE  /\ Len(grants[c]) >= MaxRequests
               /\ grants[c][Len(grants[c]) - MaxRequests + 1].time + WindowSeconds > now
      BY DEF DenialJustified
    <2> DEFINE g == grants[c]
               e == EntryOf(c)
               i == Len(g) - MaxRequests + 1
    <2>1. c \in Clients /\ now \in Nat /\ g \in Seq(GrantRec)
      BY DEF IInv, TypeOK, GrantRec
    <2>2. e \in Entry
      BY <2>1, BucketInRange DEF IInv, TypeOK, EntryOf
    <2>3. /\ CurrentWindow(g, e, now)
          /\ e.requests >= MaxRequests /\ now < e.start + WindowSeconds
      BY <2>1 DEF IInv, GrantsOf
    <2> HIDE DEF g, e
    <2>4. e.requests \in Nat /\ e.start \in Nat
      BY <2>2 DEF Entry
    <2>5. e.requests = MaxRequests /\ Len(g) >= MaxRequests /\ Len(g) \in Nat
      BY <2>1, <2>3, <2>4, LimiterAssumption DEF CurrentWindow
    <2>6. i \in 1 .. Len(g) /\ i > Len(g) - e.requests
      BY <2>5, LimiterAssumption
    <2> HIDE DEF i
    <2>7. g[i].start = e.start /\ g[i].start <= g[i].time
      BY <2>3, <2>6 DEF CurrentWindow
    <2>8. g[i].time \in Nat
      BY <2>1, <2>6, GrantTyped
    <2>9. g[i].time + WindowSeconds > now
      BY <2>1, <2>3, <2>4, <2>7, <2>8, LimiterAssumption
    <2> QED BY <2>5, <2>9 DEF g, i
  <1> QED BY <1>1, Inductive, PTL
=============================================================================
