----------------------------- MODULE PendingSet ------------------------------
(* What the client's table of pending requests promises: a set of request ids *)
(* in which a call registers its id before it sends the request, and from     *)
(* which only that id is taken when the call is over.                         *)
CONSTANT Ids

VARIABLE members

Init == members = {}

Register(id) == id \notin members /\ members' = members \cup {id}

Complete(id) == id \in members /\ members' = members \ {id}

Next == \E id \in Ids : Register(id) \/ Complete(id)

Spec == Init /\ [][Next]_members
=============================================================================
