------------------------------ MODULE OwningMap ------------------------------
(* What a hash table promises its callers: a map from keys to values that it      *)
(* owns.  A value is handed over with put, and the table frees it when it is      *)
(* replaced, removed or cleared, never before and never twice.                   *)
EXTENDS Naturals, Functions, TLC

CONSTANTS Keys, Values, NoValue

VARIABLES map,                  \* what is stored
          owned,                \* the values the table has taken and not freed
          answer                \* what the last call was asked and returned

vars == <<map, owned, answer>>

Answer(op, key, result) == answer' = [op |-> op, key |-> key, result |-> result]
Find(key) == IF key \in DOMAIN map THEN map[key] ELSE NoValue

Init == map = <<>> /\ owned = {} /\ answer = [op |-> "create", key |-> NoValue, result |-> NoValue]

Put(key, value) ==
    /\ value \notin owned
    /\ Answer("put", key, value)
    /\ map' = (key :> value) @@ map
    /\ owned' = (owned \ {Find(key)}) \cup {value}

\* Two at once; the second may replace the first.
PutBoth(key1, value1, key2, value2) ==
    LET one == (key1 :> value1) @@ map
        two == (key2 :> value2) @@ one
    IN  /\ {value1, value2} \cap owned = {} /\ value1 # value2
        /\ Answer("put", key2, value2)
        /\ owned' = {two[key] : key \in DOMAIN two}
        /\ map' = two

\* The value stays the caller's.
PutFails(key) == Answer("put", key, NoValue) /\ UNCHANGED <<map, owned>>

Get(key) == Answer("get", key, Find(key)) /\ UNCHANGED <<map, owned>>

Remove(key) ==
    /\ Answer("remove", key, Find(key))
    /\ map' = Restrict(map, DOMAIN map \ {key})
    /\ owned' = owned \ {Find(key)}

Clear == Answer("clear", NoValue, NoValue) /\ map' = <<>> /\ owned' = {}

Next ==
    \/ \E key \in Keys, value \in Values : Put(key, value)
    \/ \E key \in Keys : PutFails(key) \/ Get(key) \/ Remove(key)
    \/ \E k1, k2 \in Keys, v1, v2 \in Values : PutBoth(k1, v1, k2, v2)
    \/ Clear

Spec == Init /\ [][Next]_vars
=============================================================================
