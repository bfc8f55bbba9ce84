------------------------------ MODULE EventLog -------------------------------
(* What the stored events of a stream promise a client that resumes: the last  *)
(* MaxStored events are kept, and a replay sends what was kept after an event   *)
(* with the id the client names, or everything when no such event is kept.     *)
EXTENDS Naturals, Sequences, SequencesExt

CONSTANTS Ids, NULL, MaxStored

VARIABLES kept,       \* the ids of the events that are kept, oldest first
          replayed    \* the id the last replay was asked for, and what it sent

vars == <<kept, replayed>>

Sent(last, events) == [last |-> last, events |-> events]

Init == kept = <<>> /\ replayed = Sent(NULL, <<>>)

Latest(s) == SubSeq(s, 1 + IF Len(s) > MaxStored THEN Len(s) - MaxStored ELSE 0, Len(s))

Store(id) ==
    /\ kept' = Latest(Append(kept, id))
    /\ UNCHANGED replayed

Replay(last) ==
    /\ \/ \E i \in DOMAIN kept :
              kept[i] = last /\ replayed' = Sent(last, SubSeq(kept, i + 1, Len(kept)))
       \/ ~Contains(kept, last) /\ replayed' = Sent(last, kept)
    /\ UNCHANGED kept

\* A client whose stream has a session replays the events of that stream, which
\* is new and has none.
ReplayOwn(last) == replayed' = Sent(last, <<>>) /\ UNCHANGED kept

Next == \E id \in Ids : Store(id) \/ Replay(id) \/ ReplayOwn(id)

Spec == Init /\ [][Next]_vars
=============================================================================
