--------------------------- MODULE TcpServerProofs ---------------------------
(* Proofs about TcpServer: the table of clients is exact, and stop leaves      *)
(* nothing, for every number of slots, workers, connections and messages.     *)
(*                                                                            *)
(* Neither property is inductive.  A slot could get a second handler if a free *)
(* slot could still have a task or a handler (InactiveUnused), or if somebody  *)
(* else touched the slot between the two critical sections of the acceptor     *)
(* (AcceptorKnows); a socket could be held twice if the next connection's      *)
(* number were in use (FreshClosed); and what stop leaves depends on what each *)
(* of its joins has waited for (Stages).                                      *)
EXTENDS TcpServer, FiniteSetTheorems, WellFoundedInduction, TLAPS

\* A slot that is not in use has neither task nor handler nor socket.
InactiveUnused ==
    \A i \in Slots :
       clients[i].state = "inactive" =>
          /\ pending[i] = 0
          /\ \A w \in Workers : ~Handles(w, i)
          /\ clients[i].socket = Invalid

\* What the acceptor may rely on: nobody knows the slot it has filled in until it
\* submits the task, and nobody else makes a client active.
AcceptorKnows ==
    /\ acceptor.pc = "initialized" =>
          /\ clients[acceptor.slot].state = "initializing"
          /\ clients[acceptor.slot].socket = acceptor.socket
          /\ pending[acceptor.slot] = 0
          /\ \A w \in Workers : ~Handles(w, acceptor.slot)
    /\ acceptor.pc = "submitted" => clients[acceptor.slot].state # "active"

\* The sockets to come are not open.
FreshClosed == \A s \in open : s <= accepted

\* What is over at each step of the owner.
Stages ==
    /\ running <=> owner = "up"
    /\ acceptor.pc # "done" => owner \in {"up", "stopping"}
    /\ owner \in {"created", "pool_destroyed", "stopped", "destroyed"} =>
          /\ \A i \in Slots : pending[i] = 0
          /\ \A w \in Workers : worker[w].pc = "free"
    /\ owner \in {"created", "stopped", "destroyed"} =>
          \A i \in Slots : clients[i].state = "inactive"

\* The count the statistics show, until stop no longer keeps it.
Counted ==
    owner \in {"created", "up"} => active_connections <= Cardinality(ActiveSlots)

\* The inductive invariant.
IInv ==
    /\ TypeOK /\ OneHandlerPerSlot /\ InactiveUnused /\ AcceptorKnows
    /\ SocketHeldOnce /\ FreshClosed /\ Stages /\ Counted

-----------------------------------------------------------------------------
\* The first free slot is a free slot.
LEMMA MinFree == FreeSlots # {} => Min(FreeSlots) \in FreeSlots
<1>1. /\ FreeSlots \in SUBSET Nat
      /\ FreeSlots \subseteq Slots
  BY TcpAssumption DEF FreeSlots, Slots
<1>2. SUFFICES ASSUME FreeSlots # {}
               PROVE  \E m \in FreeSlots : \A n \in FreeSlots : m =< n
  BY DEF Min
<1>. DEFINE R == OpToRel(<, Nat)
<1>3. \A x, y \in Nat : x < y => <<x, y>> \in R
  BY DEF OpToRel
<1>4. IsWellFoundedOn(R, Nat)
  BY NatLessThanWellFounded
<1>. HIDE DEF R
<1>5. PICK m \in FreeSlots : \A y \in FreeSlots : ~(<<y, m>> \in R)
  BY <1>1, <1>2, <1>4, WFMin
<1>6. \A n \in FreeSlots : ~(n < m)
  BY <1>1, <1>3, <1>5
<1>. QED BY <1>1, <1>6

\* Counting a connection out stops at zero.
LEMMA OneLess ==
    ASSUME NEW n \in Nat
    PROVE  /\ Max({n - 1, 0}) \in Nat
           /\ Max({n - 1, 0}) = IF n = 0 THEN 0 ELSE n - 1
<1>. DEFINE m == IF n = 0 THEN 0 ELSE n - 1
<1>1. /\ m \in {n - 1, 0}
      /\ \A y \in {n - 1, 0} : m >= y
  OBVIOUS
<1>2. \A x \in {n - 1, 0} : (\A y \in {n - 1, 0} : x >= y) => x = m
  OBVIOUS
<1>. QED BY <1>1, <1>2 DEF Max

\* The transport as mcp_transport_tcp_create leaves it has its types.
LEMMA InitTypeOK == Init => TypeOK
<1>. SUFFICES ASSUME Init PROVE TypeOK
  OBVIOUS
<1>1. 0 \in Slots
  BY TcpAssumption DEF Slots
<1>2. clients \in [Slots -> Client]
  BY DEF Init, Client, ClientStates
<1>3. acceptor \in AcceptorLocals
  BY <1>1 DEF Init, AcceptorLocals, AcceptorStates
<1>4. worker \in [Workers -> HandlerLocals]
  BY <1>1 DEF Init, HandlerLocals, WorkerStates, Free
<1>5. /\ active_connections \in Nat
      /\ accepted \in 0 .. MaxConnections
      /\ messages \in 0 .. MaxMessages
  BY TcpAssumption DEF Init
<1>6. /\ running \in BOOLEAN
      /\ cleanup_running \in BOOLEAN
      /\ owner \in OwnerStates
      /\ open \subseteq Sockets
      /\ gone \subseteq Sockets
      /\ pending \in [Slots -> Nat]
  BY DEF Init, OwnerStates
<1>. QED BY <1>2, <1>3, <1>4, <1>5, <1>6 DEF TypeOK

\* What the assignments to one slot leave a table of clients.
LEMMA ClientFields ==
    ASSUME NEW i \in Slots, NEW f \in [Slots -> Client]
    PROVE  /\ \A s \in ClientStates : [f EXCEPT ![i].state = s] \in [Slots -> Client]
           /\ \A s \in Sockets \cup {Invalid} : [f EXCEPT ![i].socket = s] \in [Slots -> Client]
           /\ \A b \in BOOLEAN : [f EXCEPT ![i].should_stop = b] \in [Slots -> Client]
           /\ \A b \in BOOLEAN : [f EXCEPT ![i].idle = b] \in [Slots -> Client]
<1>1. ASSUME NEW s \in ClientStates
      PROVE  [f EXCEPT ![i].state = s] \in [Slots -> Client]
  BY <1>1, Zenon DEF Client
<1>2. ASSUME NEW s \in Sockets \cup {Invalid}
      PROVE  [f EXCEPT ![i].socket = s] \in [Slots -> Client]
  BY <1>2, Zenon DEF Client
<1>3. ASSUME NEW b \in BOOLEAN
      PROVE  [f EXCEPT ![i].should_stop = b] \in [Slots -> Client]
  BY <1>3, Zenon DEF Client
<1>4. ASSUME NEW b \in BOOLEAN
      PROVE  [f EXCEPT ![i].idle = b] \in [Slots -> Client]
  BY <1>4, Zenon DEF Client
<1>. QED BY <1>1, <1>2, <1>3, <1>4

\* A slot given back is a client again.
LEMMA ClientFreed ==
    ASSUME NEW i \in Slots, NEW f \in [Slots -> Client]
    PROVE  [f EXCEPT ![i].state = "inactive", ![i].socket = Invalid] \in [Slots -> Client]
  BY Zenon DEF Client, ClientStates

\* What the assignments of handler w leave the table of handlers.
LEMMA HandlerFields ==
    ASSUME NEW w \in Workers, NEW f \in [Workers -> HandlerLocals]
    PROVE  /\ \A p \in WorkerStates : [f EXCEPT ![w].pc = p] \in [Workers -> HandlerLocals]
           /\ \A i \in Slots : [f EXCEPT ![w].slot = i] \in [Workers -> HandlerLocals]
           /\ [f EXCEPT ![w] = Free] \in [Workers -> HandlerLocals]
<1>1. ASSUME NEW p \in WorkerStates
      PROVE  [f EXCEPT ![w].pc = p] \in [Workers -> HandlerLocals]
  BY <1>1, Zenon DEF HandlerLocals
<1>2. ASSUME NEW i \in Slots
      PROVE  [f EXCEPT ![w].slot = i] \in [Workers -> HandlerLocals]
  BY <1>2, Zenon DEF HandlerLocals
<1>3. Free \in HandlerLocals
  BY TcpAssumption DEF Free, HandlerLocals, WorkerStates, Slots
<1>. QED BY <1>1, <1>2, <1>3

\* A handler that has taken the socket of its slot with it keeps its type.
LEMMA HandlerCloses ==
    ASSUME NEW w \in Workers, NEW f \in [Workers -> HandlerLocals],
           NEW s \in Sockets \cup {Invalid}
    PROVE  [f EXCEPT ![w].pc = "close", ![w].socket = s] \in [Workers -> HandlerLocals]
  BY Zenon DEF HandlerLocals, WorkerStates

-----------------------------------------------------------------------------
\* Every step keeps the variables in their types.
LEMMA AcceptorTypeOK == TypeOK /\ Acceptor => TypeOK'
<1>. SUFFICES ASSUME TypeOK, Acceptor PROVE TypeOK'
  OBVIOUS
<1>. USE TcpAssumption
<1>0. /\ 0 \in Slots
      /\ acceptor.slot \in Slots
      /\ acceptor.socket \in Sockets \cup {Invalid}
      /\ \A p \in AcceptorStates : [acceptor EXCEPT !.pc = p] \in AcceptorLocals
  BY DEF TypeOK, AcceptorLocals, Slots
<1>1. [pc |-> "poll", slot |-> 0, socket |-> Invalid] \in AcceptorLocals
  BY <1>0 DEF AcceptorLocals, AcceptorStates
<1>2. CASE Accept
  <2>1. accepted + 1 \in Sockets
    BY <1>2 DEF TypeOK, Accept, Sockets
  <2>2. acceptor' \in AcceptorLocals
    BY <1>0, <1>2, <2>1 DEF Accept, AcceptorLocals, AcceptorStates
  <2>3. accepted' \in 0 .. MaxConnections
    BY <1>2 DEF TypeOK, Accept
  <2>. QED BY <1>2, <2>1, <2>2, <2>3 DEF TypeOK, Accept, pool, peers
<1>3. CASE AssignSlot
  <2>1. PICK i \in Slots :
           /\ clients' = [clients EXCEPT ![i] =
                 [state |-> "initializing", socket |-> acceptor.socket,
                  should_stop |-> FALSE, idle |-> FALSE]]
           /\ acceptor' = [acceptor EXCEPT !.pc = "initialized", !.slot = i]
    BY <1>3, MinFree DEF AssignSlot, FreeSlots
  <2>2. clients' \in [Slots -> Client]
    <3>1. [state |-> "initializing", socket |-> acceptor.socket,
           should_stop |-> FALSE, idle |-> FALSE] \in Client
      BY <1>0 DEF Client, ClientStates
    <3>. QED BY <2>1, <3>1 DEF TypeOK
  <2>3. acceptor' \in AcceptorLocals
    BY <2>1 DEF TypeOK, AcceptorLocals, AcceptorStates
  <2>. QED BY <1>3, <2>2, <2>3 DEF TypeOK, AssignSlot, pool, peers
<1>4. CASE Reject
  BY <1>1, <1>4 DEF TypeOK, Reject, pool, peers
<1>5. CASE Submit
  <2>1. acceptor' \in AcceptorLocals
    BY <1>0, <1>5 DEF Submit, AcceptorStates
  <2>2. pending' \in [Slots -> Nat]
    BY <1>0, <1>5 DEF TypeOK, Submit
  <2>. QED BY <1>5, <2>1, <2>2 DEF TypeOK, Submit, peers
<1>6. CASE SubmitFails
  <2>1. clients' \in [Slots -> Client]
    BY <1>0, <1>6, ClientFreed DEF TypeOK, SubmitFails
  <2>. QED BY <1>1, <1>6, <2>1 DEF TypeOK, SubmitFails, pool, peers
<1>7. CASE Activate
  <2>1. clients' \in [Slots -> Client]
    <3>1. clients \in [Slots -> Client] /\ "active" \in ClientStates
      BY DEF TypeOK, ClientStates
    <3>2. \/ clients' = [clients EXCEPT ![acceptor.slot].state = "active"]
          \/ clients' = [clients EXCEPT ![acceptor.slot].state = "inactive",
                                        ![acceptor.slot].socket = Invalid]
      BY <1>7 DEF Activate
    <3>3. [clients EXCEPT ![acceptor.slot].state = "active"] \in [Slots -> Client]
      BY <1>0, <3>1, ClientFields
    <3>. QED BY <1>0, <3>1, <3>2, <3>3, ClientFreed
  <2>2. active_connections' \in Nat
    BY <1>7 DEF TypeOK, Activate
  <2>. QED BY <1>1, <1>7, <2>1, <2>2 DEF TypeOK, Activate, pool, peers
<1>8. CASE AcceptorExit
  <2>1. acceptor' \in AcceptorLocals
    BY <1>0, <1>8 DEF AcceptorExit, AcceptorStates
  <2>. QED BY <1>8, <2>1 DEF TypeOK, AcceptorExit, pool, peers
<1>. QED BY <1>2, <1>3, <1>4, <1>5, <1>6, <1>7, <1>8 DEF Acceptor

\* The same for the steps of a handler.
LEMMA HandlerTypeOK ==
    ASSUME TypeOK, NEW w \in Workers,
           \/ HandlerStep(w)
           \/ ArenaFails(w)
           \/ Readable(w)
           \/ WaitFails(w)
           \/ ReceiveFrame(w)
    PROVE  TypeOK'
<1>. USE TcpAssumption
<1>0. /\ worker[w].slot \in Slots
      /\ worker[w].socket \in Sockets \cup {Invalid}
      /\ worker \in [Workers -> HandlerLocals]
      /\ clients \in [Slots -> Client]
  BY DEF TypeOK, HandlerLocals
<1>1. \A p \in WorkerStates : Goes(w, p) => worker' \in [Workers -> HandlerLocals]
  BY <1>0, HandlerFields DEF Goes
<1>2. CASE LoopTop(w)
  <2>1. \E p \in WorkerStates : Goes(w, p)
    BY <1>2 DEF LoopTop, WorkerStates
  <2>. QED BY <1>1, <1>2, <2>1 DEF TypeOK, LoopTop, peers
<1>3. CASE Readable(w)
  <2>1. \E p \in WorkerStates : Goes(w, p)
    BY <1>3 DEF Readable, WorkerStates
  <2>. QED BY <1>1, <1>3, <2>1 DEF TypeOK, Readable, peers
<1>4. CASE WaitEnds(w)
  <2>1. \E p \in WorkerStates : Goes(w, p)
    BY <1>4 DEF WaitEnds, WorkerStates
  <2>. QED BY <1>1, <1>4, <2>1 DEF TypeOK, WaitEnds, peers
<1>5. CASE WaitFails(w)
  <2>1. \E p \in WorkerStates : Goes(w, p)
    BY <1>5 DEF WaitFails, WorkerStates
  <2>. QED BY <1>1, <1>5, <2>1 DEF TypeOK, WaitFails, peers
<1>6. CASE ReceiveFails(w)
  <2>1. \E p \in WorkerStates : Goes(w, p)
    BY <1>6 DEF ReceiveFails, WorkerStates
  <2>. QED BY <1>1, <1>6, <2>1 DEF TypeOK, ReceiveFails, peers
<1>7. CASE CallbackReturns(w)
  <2>1. \E p \in WorkerStates : Goes(w, p)
    BY <1>7 DEF CallbackReturns, WorkerStates
  <2>. QED BY <1>1, <1>7, <2>1 DEF TypeOK, CallbackReturns, peers
<1>8. CASE \E i \in Slots : TakeTask(w, i)
  <2>1. PICK i \in Slots : TakeTask(w, i)
    BY <1>8
  <2>2. pending' \in [Slots -> Nat]
    BY <2>1 DEF TypeOK, TakeTask
  <2>3. worker' \in [Workers -> HandlerLocals]
    BY <1>0, <2>1, HandlerFields DEF TakeTask, WorkerStates
  <2>. QED BY <2>1, <2>2, <2>3 DEF TypeOK, TakeTask, peers
<1>9. CASE HandlerStart(w)
  <2>1. clients' \in [Slots -> Client]
    BY <1>0, <1>9, ClientFields DEF HandlerStart
  <2>2. worker' \in [Workers -> HandlerLocals]
    BY <1>0, <1>9, HandlerFields DEF HandlerStart, WorkerStates
  <2>. QED BY <1>9, <2>1, <2>2 DEF TypeOK, HandlerStart, peers
<1>10. CASE ArenaFails(w)
  BY <1>0, <1>10, HandlerFields DEF TypeOK, ArenaFails, peers
<1>11. CASE ReceiveFrame(w)
  <2>1. clients' \in [Slots -> Client]
    BY <1>0, <1>11, ClientFields DEF ReceiveFrame
  <2>2. worker' \in [Workers -> HandlerLocals]
    BY <1>1, <1>11 DEF ReceiveFrame, WorkerStates
  <2>3. messages' \in 0 .. MaxMessages
    BY <1>11 DEF TypeOK, ReceiveFrame
  <2>. QED BY <1>11, <2>1, <2>2, <2>3 DEF TypeOK, ReceiveFrame
<1>12. CASE SendResponse(w)
  <2>1. clients' \in [Slots -> Client]
    <3>1. \/ clients' = clients
          \/ clients' = [clients EXCEPT ![worker[w].slot].idle = FALSE]
      BY <1>12 DEF SendResponse
    <3>2. [clients EXCEPT ![worker[w].slot].idle = FALSE] \in [Slots -> Client]
      BY <1>0, ClientFields
    <3>. QED BY <1>0, <3>1, <3>2
  <2>2. worker' \in [Workers -> HandlerLocals]
    BY <1>1, <1>12 DEF SendResponse, WorkerStates
  <2>. QED BY <1>12, <2>1, <2>2 DEF TypeOK, SendResponse, peers
<1>13. CASE Cleanup(w)
  <2>0. clients[worker[w].slot].socket \in Sockets \cup {Invalid}
    BY <1>0 DEF Client
  <2>1. clients' \in [Slots -> Client]
    <3>1. \/ clients' = clients
          \/ clients' = [clients EXCEPT ![worker[w].slot].state = "inactive",
                                        ![worker[w].slot].socket = Invalid]
      BY <1>13 DEF Cleanup
    <3>. QED BY <1>0, <3>1, ClientFreed
  <2>2. worker' \in [Workers -> HandlerLocals]
    <3>1. \/ Goes(w, "close")
          \/ worker' = [worker EXCEPT ![w].pc = "close",
                                      ![w].socket = clients[worker[w].slot].socket]
      BY <1>13 DEF Cleanup
    <3>2. "close" \in WorkerStates
      BY DEF WorkerStates
    <3>3. [worker EXCEPT ![w].pc = "close", ![w].socket = clients[worker[w].slot].socket]
             \in [Workers -> HandlerLocals]
      BY <1>0, <2>0, HandlerCloses
    <3>. QED BY <1>1, <3>1, <3>2, <3>3
  <2>3. active_connections' \in Nat
    BY <1>13, OneLess DEF TypeOK, Cleanup
  <2>. QED BY <1>13, <2>1, <2>2, <2>3 DEF TypeOK, Cleanup, peers
<1>14. CASE CloseSocket(w)
  BY <1>0, <1>14, HandlerFields DEF TypeOK, CloseSocket, peers
<1>. QED BY <1>2, <1>3, <1>4, <1>5, <1>6, <1>7, <1>8, <1>9, <1>10, <1>11, <1>12, <1>13, <1>14 DEF HandlerStep

\* The same for the cleanup thread, the peers and the owner.
LEMMA OtherTypeOK ==
    ASSUME TypeOK,
           \/ MarkIdle
           \/ \E i \in Slots : TimePasses(i)
           \/ \E s \in open : PeerCloses(s)
           \/ Start
           \/ Stop
           \/ Owner
           \/ Destroy
    PROVE  TypeOK'
<1>. USE TcpAssumption
<1>1. CASE MarkIdle
  <2>1. ASSUME NEW i \in Slots
        PROVE  clients'[i] \in Client
    BY <1>1 DEF TypeOK, MarkIdle, Client
  <2>2. clients' \in [Slots -> Client]
    BY <1>1, <2>1 DEF MarkIdle
  <2>. QED BY <1>1, <2>2 DEF TypeOK, MarkIdle, pool, peers
<1>2. CASE \E i \in Slots : TimePasses(i)
  <2>1. clients' \in [Slots -> Client]
    <3>1. \E i \in Slots : clients' = [clients EXCEPT ![i].idle = TRUE]
      BY <1>2 DEF TimePasses
    <3>2. clients \in [Slots -> Client]
      BY DEF TypeOK
    <3>3. \A i \in Slots : [clients EXCEPT ![i].idle = TRUE] \in [Slots -> Client]
      BY <3>2, ClientFields
    <3>. QED BY <3>1, <3>3
  <2>. QED BY <1>2, <2>1 DEF TypeOK, TimePasses, pool, peers
<1>3. CASE \E s \in open : PeerCloses(s)
  BY <1>3 DEF TypeOK, PeerCloses, pool
<1>4. CASE Start
  <2>1. acceptor' \in AcceptorLocals
    BY <1>4 DEF TypeOK, Start, AcceptorLocals, AcceptorStates
  <2>. QED BY <1>4, <2>1 DEF TypeOK, Start, OwnerStates, pool, peers
<1>5. CASE Stop
  BY <1>5 DEF TypeOK, Stop, OwnerStates, pool, peers
<1>6. CASE JoinAcceptor
  BY <1>6 DEF TypeOK, JoinAcceptor, OwnerStates, pool, peers
<1>7. CASE JoinCleanup
  BY <1>7 DEF TypeOK, JoinCleanup, OwnerStates, pool, peers
<1>8. CASE DestroyPool
  BY <1>8 DEF TypeOK, DestroyPool, OwnerStates, pool, peers
<1>9. CASE StopClients
  <2>1. ASSUME NEW i \in Slots
        PROVE  clients'[i] \in Client
    BY <1>9 DEF TypeOK, StopClients, Client, ClientStates
  <2>2. clients' \in [Slots -> Client]
    BY <1>9, <2>1 DEF StopClients
  <2>. QED BY <1>9, <2>2 DEF TypeOK, StopClients, OwnerStates, pool, peers
<1>10. CASE Destroy
  BY <1>10 DEF TypeOK, Destroy, OwnerStates, pool, peers
<1>. QED BY <1>1, <1>2, <1>3, <1>4, <1>5, <1>6, <1>7, <1>8, <1>9, <1>10 DEF Owner

-----------------------------------------------------------------------------
\* Whether a slot has one handler depends on who handles it only.
LEMMA SameHandlers ==
    ASSUME NEW i \in Slots, OneHandler(i), pending'[i] = pending[i],
           \A w \in Workers : Handles(w, i)' = Handles(w, i)
    PROVE  OneHandler(i)'
  BY DEF OneHandler

\* Whether a socket is held in one place depends on who holds it only.
LEMMA SamePlaces ==
    ASSUME NEW s \in Sockets, HeldOnce(s),
           (s \in open') = (s \in open),
           AcceptorHolds(s)' = AcceptorHolds(s),
           \A i \in Slots : SlotHolds(i, s)' = SlotHolds(i, s),
           \A w \in Workers : WorkerHolds(w, s)' = WorkerHolds(w, s)
    PROVE  HeldOnce(s)'
  BY DEF HeldOnce

\* A step that changes neither the state nor the socket of a client, and moves
\* handlers within their work only, keeps the invariant.
LEMMA WithinWork ==
    ASSUME IInv, TypeOK',
           \A i \in Slots : /\ clients'[i].state = clients[i].state
                            /\ clients'[i].socket = clients[i].socket,
           \A w \in Workers : /\ worker'[w].slot = worker[w].slot
                              /\ worker'[w].socket = worker[w].socket
                              /\ \/ worker'[w].pc = worker[w].pc
                                 \/ /\ worker[w].pc \notin {"free", "close"}
                                    /\ worker'[w].pc \notin {"free", "close"},
           UNCHANGED <<running, active_connections, acceptor, pending, owner,
                       open, accepted>>
    PROVE  IInv'
<1>0. acceptor.slot \in Slots
  BY DEF IInv, TypeOK, AcceptorLocals
<1>1. \A w \in Workers, i \in Slots : Handles(w, i)' = Handles(w, i)
  BY DEF Handles
<1>2. \A w \in Workers, s \in Sockets : WorkerHolds(w, s)' = WorkerHolds(w, s)
  BY DEF WorkerHolds
<1>3. \A i \in Slots, s \in Sockets : SlotHolds(i, s)' = SlotHolds(i, s)
  BY DEF SlotHolds
<1>4. \A s \in Sockets : AcceptorHolds(s)' = AcceptorHolds(s)
  BY DEF AcceptorHolds
<1>5. OneHandlerPerSlot'
  BY <1>1, SameHandlers DEF IInv, OneHandlerPerSlot
<1>6. InactiveUnused'
  BY <1>1 DEF IInv, InactiveUnused
<1>7. AcceptorKnows'
  BY <1>0, <1>1 DEF IInv, AcceptorKnows
<1>8. SocketHeldOnce'
  BY <1>2, <1>3, <1>4, SamePlaces DEF IInv, SocketHeldOnce
<1>9. FreshClosed'
  BY DEF IInv, FreshClosed
<1>10. Stages'
  BY DEF IInv, Stages
<1>11. Counted'
  <2>1. ActiveSlots' = ActiveSlots
    BY DEF ActiveSlots
  <2>. QED BY <2>1 DEF IInv, Counted
<1>. QED BY <1>5, <1>6, <1>7, <1>8, <1>9, <1>10, <1>11 DEF IInv

\* A handler that goes on changes nothing but where it is.
LEMMA GoesWithin ==
    ASSUME TypeOK, NEW w \in Workers, NEW p, Goes(w, p),
           worker[w].pc \notin {"free", "close"}, p \notin {"free", "close"}
    PROVE  \A v \in Workers : /\ worker'[v].slot = worker[v].slot
                              /\ worker'[v].socket = worker[v].socket
                              /\ \/ worker'[v].pc = worker[v].pc
                                 \/ /\ worker[v].pc \notin {"free", "close"}
                                    /\ worker'[v].pc \notin {"free", "close"}
  BY DEF TypeOK, Goes, HandlerLocals

\* The steps of a handler between its start and its end.
LEMMA HandlerWorks ==
    ASSUME IInv, TypeOK', NEW w \in Workers,
           \/ HandlerStart(w)
           \/ LoopTop(w)
           \/ WaitEnds(w)
           \/ ReceiveFails(w)
           \/ CallbackReturns(w)
           \/ SendResponse(w)
           \/ Readable(w)
           \/ WaitFails(w)
           \/ ReceiveFrame(w)
    PROVE  IInv'
<1>0. /\ TypeOK
      /\ worker[w].slot \in Slots
      /\ clients \in [Slots -> Client]
  BY DEF IInv, TypeOK, HandlerLocals
<1>1. UNCHANGED <<running, active_connections, acceptor, pending, owner, open,
                  accepted>>
  BY DEF HandlerStart, LoopTop, WaitEnds, ReceiveFails, CallbackReturns,
         SendResponse, Readable, WaitFails, ReceiveFrame, peers
<1>2. /\ worker[w].pc \notin {"free", "close"}
      /\ \E p : Goes(w, p) /\ p \notin {"free", "close"}
  <2>1. CASE HandlerStart(w)
    <3>1. Goes(w, "loop") /\ worker[w].pc = "start"
      BY <2>1 DEF HandlerStart, Goes
    <3>. QED BY <3>1
  <2>2. CASE LoopTop(w)
    BY <2>2 DEF LoopTop
  <2>3. CASE WaitEnds(w)
    BY <2>3 DEF WaitEnds
  <2>4. CASE CallbackReturns(w) \/ WaitFails(w) \/ ReceiveFrame(w)
    BY <2>4 DEF CallbackReturns, WaitFails, ReceiveFrame
  <2>7. CASE ReceiveFails(w)
    BY <2>7 DEF ReceiveFails
  <2>5. CASE SendResponse(w)
    BY <2>5 DEF SendResponse
  <2>6. CASE Readable(w)
    BY <2>6 DEF Readable
  <2>. QED BY <2>1, <2>2, <2>3, <2>4, <2>5, <2>6, <2>7
<1>3. \A i \in Slots : /\ clients'[i].state = clients[i].state
                       /\ clients'[i].socket = clients[i].socket
  <2>1. CASE HandlerStart(w)
    BY <1>0, <2>1 DEF HandlerStart, Client
  <2>2. CASE ReceiveFrame(w)
    BY <1>0, <2>2 DEF ReceiveFrame, Client
  <2>3. CASE SendResponse(w)
    <3>1. \/ clients' = clients
          \/ clients' = [clients EXCEPT ![worker[w].slot].idle = FALSE]
      BY <2>3 DEF SendResponse
    <3>. QED BY <1>0, <3>1 DEF Client
  <2>4. CASE UNCHANGED clients
    BY <2>4
  <2>. QED BY <2>1, <2>2, <2>3, <2>4
           DEF LoopTop, WaitEnds, ReceiveFails, CallbackReturns, Readable, WaitFails
<1>4. PICK p : Goes(w, p) /\ p \notin {"free", "close"}
  BY <1>2
<1>5. \A v \in Workers : /\ worker'[v].slot = worker[v].slot
                         /\ worker'[v].socket = worker[v].socket
                         /\ \/ worker'[v].pc = worker[v].pc
                            \/ /\ worker[v].pc \notin {"free", "close"}
                               /\ worker'[v].pc \notin {"free", "close"}
  BY <1>0, <1>2, <1>4, GoesWithin
<1>. QED BY <1>1, <1>3, <1>5, WithinWork

\* The cleanup thread's marks, the passing of time and the peers.
LEMMA OutsideKeeps ==
    ASSUME IInv, TypeOK',
           \/ MarkIdle
           \/ \E i \in Slots : TimePasses(i)
           \/ \E s \in open : PeerCloses(s)
           \/ UNCHANGED vars
    PROVE  IInv'
<1>1. UNCHANGED <<running, active_connections, acceptor, pending, owner, open,
                  accepted, worker>>
  BY DEF MarkIdle, TimePasses, PeerCloses, pool, peers, vars
<1>2. \A i \in Slots : /\ clients'[i].state = clients[i].state
                       /\ clients'[i].socket = clients[i].socket
  <2>0. clients \in [Slots -> Client]
    BY DEF IInv, TypeOK
  <2>1. CASE MarkIdle
    BY <2>0, <2>1 DEF MarkIdle, Client
  <2>2. CASE \E i \in Slots : TimePasses(i)
    BY <2>0, <2>2 DEF TimePasses, Client
  <2>3. CASE UNCHANGED clients
    BY <2>3
  <2>. QED BY <2>1, <2>2, <2>3 DEF PeerCloses, vars
<1>. QED BY <1>1, <1>2, WithinWork

-----------------------------------------------------------------------------
\* The steps of the owner that change nothing but how far it has come.
LEMMA OwnerMoves ==
    ASSUME IInv, TypeOK',
           UNCHANGED <<clients, active_connections, acceptor, pool, open, accepted>>,
           Stages', owner' \in {"created", "up"} => owner' = owner
    PROVE  IInv'
<1>1. \A w \in Workers, i \in Slots : Handles(w, i)' = Handles(w, i)
  BY DEF Handles, pool
<1>2. OneHandlerPerSlot'
  BY <1>1, SameHandlers DEF IInv, OneHandlerPerSlot, pool
<1>3. InactiveUnused' /\ AcceptorKnows' /\ FreshClosed'
  BY DEF IInv, InactiveUnused, AcceptorKnows, FreshClosed, Handles, pool
<1>4. SocketHeldOnce'
  BY DEF IInv, SocketHeldOnce, HeldOnce, AcceptorHolds, SlotHolds, WorkerHolds, pool
<1>5. Counted'
  BY DEF IInv, Counted, ActiveSlots
<1>. QED BY <1>2, <1>3, <1>4, <1>5 DEF IInv

\* Stop, the joins, the end of the pool and destroy keep the invariant: each
\* of them waits for what Stages says is over.
LEMMA OwnerKeeps ==
    ASSUME IInv, TypeOK',
           Stop \/ JoinAcceptor \/ JoinCleanup \/ DestroyPool \/ Destroy
    PROVE  IInv'
<1>0. Stages
  BY DEF IInv
<1>1. CASE Stop
  <2>1. Stages'
    BY <1>0, <1>1 DEF Stop, Stages, pool
  <2>. QED BY <1>1, <2>1, OwnerMoves DEF Stop
<1>2. CASE JoinAcceptor
  <2>1. Stages'
    BY <1>0, <1>2 DEF JoinAcceptor, Stages, pool
  <2>. QED BY <1>2, <2>1, OwnerMoves DEF JoinAcceptor
<1>3. CASE JoinCleanup
  <2>1. Stages'
    BY <1>0, <1>3 DEF JoinCleanup, Stages, pool
  <2>. QED BY <1>3, <2>1, OwnerMoves DEF JoinCleanup
<1>4. CASE DestroyPool
  <2>1. Stages'
    BY <1>0, <1>4 DEF DestroyPool, Stages, pool
  <2>. QED BY <1>4, <2>1, OwnerMoves DEF DestroyPool
<1>5. CASE Destroy
  <2>1. Stages'
    BY <1>0, <1>5 DEF Destroy, Stages, pool
  <2>. QED BY <1>5, <2>1, OwnerMoves DEF Destroy
<1>. QED BY <1>1, <1>2, <1>3, <1>4, <1>5

\* A start keeps the invariant: nothing was there before it.
LEMMA StartKeeps == ASSUME IInv, TypeOK', Start PROVE IInv'
<1>1. /\ acceptor.pc = "done"
      /\ acceptor'.pc = "poll"
      /\ UNCHANGED <<clients, active_connections, pending, worker, open, accepted>>
      /\ owner = "created"
      /\ owner' = "up"
      /\ running'
  BY DEF Start, IInv, Stages, TypeOK, AcceptorLocals, pool
<1>2. \A w \in Workers, i \in Slots : Handles(w, i)' = Handles(w, i)
  BY <1>1 DEF Handles
<1>3. OneHandlerPerSlot'
  BY <1>1, <1>2, SameHandlers DEF IInv, OneHandlerPerSlot
<1>4. InactiveUnused'
  BY <1>1, <1>2 DEF IInv, InactiveUnused
<1>5. AcceptorKnows'
  BY <1>1 DEF AcceptorKnows
<1>6. SocketHeldOnce'
  BY <1>1, SamePlaces
     DEF IInv, SocketHeldOnce, AcceptorHolds, SlotHolds, WorkerHolds
<1>7. FreshClosed' /\ Stages'
  BY <1>1 DEF IInv, FreshClosed, Stages
<1>8. Counted'
  BY <1>1 DEF IInv, Counted, ActiveSlots
<1>. QED BY <1>3, <1>4, <1>5, <1>6, <1>7, <1>8 DEF IInv

\* The last of stop: nobody else is left, so every socket still open is a slot's.
LEMMA StopClientsKeeps == ASSUME IInv, TypeOK', StopClients PROVE IInv'
<1>1. /\ UNCHANGED <<running, active_connections, acceptor, pending, worker, accepted>>
      /\ owner = "pool_destroyed"
      /\ owner' = "stopped"
      /\ \A i \in Slots : pending[i] = 0
      /\ \A w \in Workers : worker[w].pc = "free"
      /\ acceptor.pc = "done"
  BY DEF StopClients, IInv, Stages, pool
<1>2. \A i \in Slots : clients'[i].state = "inactive" /\ clients'[i].socket = Invalid
  <2>1. ASSUME NEW i \in Slots
        PROVE  clients'[i].state = "inactive" /\ clients'[i].socket = Invalid
    BY DEF StopClients, IInv, TypeOK, InactiveUnused, Client
  <2>. QED BY <2>1
<1>3. \A w \in Workers, i \in Slots : ~Handles(w, i) /\ ~Handles(w, i)'
  BY <1>1 DEF Handles
<1>4. OneHandlerPerSlot'
  BY <1>1, <1>3 DEF OneHandlerPerSlot, OneHandler
<1>5. InactiveUnused'
  BY <1>1, <1>2, <1>3 DEF InactiveUnused
<1>6. AcceptorKnows'
  BY <1>1 DEF AcceptorKnows
<1>7. open' = {}
  <2>1. \A s \in Sockets : ~AcceptorHolds(s) /\ \A w \in Workers : ~WorkerHolds(w, s)
    BY <1>1 DEF AcceptorHolds, WorkerHolds
  <2>2. \A s \in open : \E i \in Slots : SlotHolds(i, s)
    BY <2>1 DEF IInv, TypeOK, SocketHeldOnce, HeldOnce
  <2>3. \A s \in open : \E i \in Slots \ FreeSlots : clients[i].socket = s
    BY <2>2 DEF IInv, TypeOK, SlotHolds, InactiveUnused, FreeSlots, Sockets, Invalid
  <2>. QED BY <2>3 DEF StopClients
<1>8. SocketHeldOnce'
  <2>1. \A s \in Sockets : ~AcceptorHolds(s)' /\ \A w \in Workers : ~WorkerHolds(w, s)'
    BY <1>1 DEF AcceptorHolds, WorkerHolds
  <2>2. \A s \in Sockets, i \in Slots : ~SlotHolds(i, s)'
    BY <1>2 DEF SlotHolds, Sockets, Invalid
  <2>. QED BY <1>7, <2>1, <2>2 DEF SocketHeldOnce, HeldOnce
<1>9. FreshClosed' /\ Counted'
  BY <1>1, <1>7 DEF FreshClosed, Counted
<1>10. Stages'
  BY <1>1, <1>2 DEF IInv, Stages
<1>. QED BY <1>4, <1>5, <1>6, <1>8, <1>9, <1>10 DEF IInv

-----------------------------------------------------------------------------
(* The steps of the accept thread. *)

\* The accept thread takes a connection: nobody else has its socket.
LEMMA AcceptKeeps == ASSUME IInv, TypeOK', Accept PROVE IInv'
<1>0. PICK t : t = accepted + 1
  OBVIOUS
<1>1. /\ UNCHANGED <<running, clients, active_connections, pending, worker, owner>>
      /\ acceptor.pc = "poll"
      /\ acceptor'.pc = "accepted"
      /\ acceptor'.socket = t
      /\ accepted' = t
      /\ open' = open \cup {t}
  BY <1>0 DEF Accept, pool
<1>2. t \in Sockets /\ t \notin open
  BY <1>0, TcpAssumption DEF IInv, TypeOK, Accept, Sockets, FreshClosed
<1>3. \A w \in Workers, i \in Slots : Handles(w, i)' = Handles(w, i)
  BY <1>1 DEF Handles
<1>4. OneHandlerPerSlot'
  BY <1>1, <1>3, SameHandlers DEF IInv, OneHandlerPerSlot
<1>5. InactiveUnused'
  BY <1>1, <1>3 DEF IInv, InactiveUnused
<1>6. AcceptorKnows'
  BY <1>1 DEF AcceptorKnows
<1>7. SocketHeldOnce'
  <2>1. \A i \in Slots, s \in Sockets : SlotHolds(i, s)' = SlotHolds(i, s)
    BY <1>1 DEF SlotHolds
  <2>2. \A w \in Workers, s \in Sockets : WorkerHolds(w, s)' = WorkerHolds(w, s)
    BY <1>1 DEF WorkerHolds
  <2>3. \A s \in Sockets : ~AcceptorHolds(s) /\ AcceptorHolds(s)' = (s = t)
    BY <1>1 DEF AcceptorHolds
  <2>4. HeldOnce(t)'
    <3>1. HeldOnce(t)
      BY <1>2 DEF IInv, SocketHeldOnce
    <3>2. t \in open'
      BY <1>1
    <3>. QED BY <1>2, <2>1, <2>2, <2>3, <3>1, <3>2 DEF HeldOnce
  <2>5. ASSUME NEW s \in Sockets, s # t
        PROVE  HeldOnce(s)'
    <3>1. HeldOnce(s) /\ (s \in open') = (s \in open)
      BY <1>1, <2>5 DEF IInv, SocketHeldOnce
    <3>2. AcceptorHolds(s)' = AcceptorHolds(s)
      BY <1>1, <2>5 DEF AcceptorHolds
    <3>. QED BY <2>1, <2>2, <3>1, <3>2, SamePlaces
  <2>. QED BY <2>4, <2>5 DEF SocketHeldOnce
<1>8. FreshClosed'
  <2>1. \A s \in open : s \in Int /\ s <= accepted
    BY DEF IInv, TypeOK, FreshClosed, Sockets
  <2>. QED BY <1>0, <1>1, <2>1 DEF FreshClosed, IInv, TypeOK
<1>9. Stages' /\ Counted'
  BY <1>1 DEF IInv, Stages, Counted, ActiveSlots
<1>. QED BY <1>4, <1>5, <1>6, <1>7, <1>8, <1>9 DEF IInv

\* The socket moves from the acceptor to the first free slot, which nobody uses.
LEMMA AssignSlotKeeps == ASSUME IInv, TypeOK', AssignSlot PROVE IInv'
<1>0. /\ clients \in [Slots -> Client]
      /\ acceptor \in AcceptorLocals
  BY DEF IInv, TypeOK
<1>1. PICK i \in FreeSlots :
         /\ clients' = [clients EXCEPT ![i] =
               [state |-> "initializing", socket |-> acceptor.socket,
                should_stop |-> FALSE, idle |-> FALSE]]
         /\ acceptor' = [acceptor EXCEPT !.pc = "initialized", !.slot = i]
  BY MinFree DEF AssignSlot
<1>2. /\ i \in Slots
      /\ clients[i].state = "inactive"
      /\ clients[i].socket = Invalid
      /\ pending[i] = 0
      /\ \A w \in Workers : ~Handles(w, i)
  BY <1>1 DEF FreeSlots, IInv, InactiveUnused
<1>3. /\ clients'[i].state = "initializing"
      /\ clients'[i].socket = acceptor.socket
      /\ \A j \in Slots \ {i} : clients'[j] = clients[j]
      /\ acceptor.pc = "accepted"
      /\ acceptor'.pc = "initialized"
      /\ acceptor'.slot = i
      /\ acceptor'.socket = acceptor.socket
      /\ UNCHANGED <<running, active_connections, pending, worker, owner, open, accepted>>
  BY <1>0, <1>1, <1>2 DEF AssignSlot, AcceptorLocals, pool
<1>4. \A w \in Workers, j \in Slots : Handles(w, j)' = Handles(w, j)
  BY <1>3 DEF Handles
<1>5. OneHandlerPerSlot'
  BY <1>3, <1>4, SameHandlers DEF IInv, OneHandlerPerSlot
<1>6. InactiveUnused'
  BY <1>3, <1>4 DEF IInv, InactiveUnused
<1>7. AcceptorKnows'
  BY <1>2, <1>3, <1>4 DEF AcceptorKnows
<1>8. SocketHeldOnce'
  <2>1. \A w \in Workers, s \in Sockets : WorkerHolds(w, s)' = WorkerHolds(w, s)
    BY <1>3 DEF WorkerHolds
  <2>2. \A j \in Slots \ {i}, s \in Sockets : SlotHolds(j, s)' = SlotHolds(j, s)
    BY <1>3 DEF SlotHolds
  <2>3. \A s \in Sockets : ~SlotHolds(i, s) /\ SlotHolds(i, s)' = AcceptorHolds(s)
    BY <1>2, <1>3 DEF SlotHolds, AcceptorHolds, Sockets, Invalid
  <2>4. \A s \in Sockets : ~AcceptorHolds(s)'
    BY <1>3 DEF AcceptorHolds
  <2>5. ASSUME NEW s \in Sockets
        PROVE  HeldOnce(s)'
    <3>1. HeldOnce(s) /\ open' = open
      BY <1>3 DEF IInv, SocketHeldOnce
    <3>2. CASE AcceptorHolds(s)
      BY <1>2, <2>1, <2>2, <2>3, <2>4, <3>1, <3>2 DEF HeldOnce
    <3>3. CASE ~AcceptorHolds(s)
      <4>1. \A j \in Slots : SlotHolds(j, s)' = SlotHolds(j, s)
        BY <1>2, <1>3, <3>3 DEF SlotHolds, AcceptorHolds, Sockets, Invalid
      <4>2. AcceptorHolds(s)' = AcceptorHolds(s)
        BY <1>3, <3>3 DEF AcceptorHolds
      <4>. QED BY <2>1, <3>1, <4>1, <4>2, SamePlaces
    <3>. QED BY <3>2, <3>3
  <2>. QED BY <2>5 DEF SocketHeldOnce
<1>9. FreshClosed'
  BY <1>3 DEF IInv, FreshClosed
<1>10. Stages'
  BY <1>3 DEF IInv, Stages
<1>11. Counted'
  <2>1. ActiveSlots' = ActiveSlots
    BY <1>2, <1>3 DEF ActiveSlots
  <2>. QED BY <1>3, <2>1 DEF IInv, Counted
<1>. QED BY <1>5, <1>6, <1>7, <1>8, <1>9, <1>10, <1>11 DEF IInv

\* A connection for which there is no slot is closed by the acceptor alone.
LEMMA RejectKeeps == ASSUME IInv, TypeOK', Reject PROVE IInv'
<1>1. /\ UNCHANGED <<running, clients, active_connections, pending, worker, owner,
                     accepted>>
      /\ acceptor.pc = "accepted"
      /\ acceptor'.pc = "poll"
      /\ open' = open \ {acceptor.socket}
  BY DEF Reject, pool
<1>2. \A w \in Workers, i \in Slots : Handles(w, i)' = Handles(w, i)
  BY <1>1 DEF Handles
<1>3. OneHandlerPerSlot'
  BY <1>1, <1>2, SameHandlers DEF IInv, OneHandlerPerSlot
<1>4. InactiveUnused'
  BY <1>1, <1>2 DEF IInv, InactiveUnused
<1>5. AcceptorKnows'
  BY <1>1 DEF AcceptorKnows
<1>6. SocketHeldOnce'
  <2>1. \A w \in Workers, s \in Sockets : WorkerHolds(w, s)' = WorkerHolds(w, s)
    BY <1>1 DEF WorkerHolds
  <2>2. \A i \in Slots, s \in Sockets : SlotHolds(i, s)' = SlotHolds(i, s)
    BY <1>1 DEF SlotHolds
  <2>3. \A s \in Sockets : /\ ~AcceptorHolds(s)'
                           /\ AcceptorHolds(s) = (s = acceptor.socket)
    BY <1>1 DEF AcceptorHolds
  <2>4. ASSUME NEW s \in Sockets
        PROVE  HeldOnce(s)'
    <3>1. HeldOnce(s)
      BY DEF IInv, SocketHeldOnce
    <3>. QED BY <1>1, <2>1, <2>2, <2>3, <3>1 DEF HeldOnce
  <2>. QED BY <2>4 DEF SocketHeldOnce
<1>7. FreshClosed'
  BY <1>1 DEF IInv, FreshClosed
<1>8. Stages' /\ Counted'
  BY <1>1 DEF IInv, Stages, Counted, ActiveSlots
<1>. QED BY <1>3, <1>4, <1>5, <1>6, <1>7, <1>8 DEF IInv

\* The task of a slot is submitted while the slot has no other.
LEMMA SubmitKeeps == ASSUME IInv, TypeOK', Submit PROVE IInv'
<1>0. /\ pending \in [Slots -> Nat]
      /\ acceptor.slot \in Slots
      /\ acceptor \in AcceptorLocals
  BY DEF IInv, TypeOK, AcceptorLocals
<1>1. PICK i \in Slots : i = acceptor.slot
  BY <1>0
<1>2. /\ acceptor.pc = "initialized"
      /\ clients[i].state = "initializing"
      /\ pending[i] = 0
      /\ \A w \in Workers : ~Handles(w, i)
  BY <1>1 DEF Submit, IInv, AcceptorKnows
<1>3. /\ pending'[i] = 1
      /\ \A j \in Slots \ {i} : pending'[j] = pending[j]
      /\ acceptor'.pc = "submitted"
      /\ acceptor'.slot = i
      /\ UNCHANGED <<running, clients, active_connections, worker, owner, open, accepted>>
  BY <1>0, <1>1, <1>2 DEF Submit, AcceptorLocals
<1>4. \A w \in Workers, j \in Slots : Handles(w, j)' = Handles(w, j)
  BY <1>3 DEF Handles
<1>5. OneHandlerPerSlot'
  <2>1. OneHandler(i)'
    BY <1>2, <1>3, <1>4 DEF OneHandler
  <2>2. \A j \in Slots \ {i} : OneHandler(j)'
    BY <1>3, <1>4, SameHandlers DEF IInv, OneHandlerPerSlot
  <2>. QED BY <2>1, <2>2 DEF OneHandlerPerSlot
<1>6. InactiveUnused'
  BY <1>2, <1>3, <1>4 DEF IInv, InactiveUnused
<1>7. AcceptorKnows'
  BY <1>2, <1>3 DEF AcceptorKnows
<1>8. SocketHeldOnce'
  BY <1>2, <1>3, SamePlaces
     DEF IInv, SocketHeldOnce, AcceptorHolds, SlotHolds, WorkerHolds
<1>9. FreshClosed'
  BY <1>3 DEF IInv, FreshClosed
<1>10. Stages'
  BY <1>2, <1>3 DEF IInv, Stages
<1>11. Counted'
  BY <1>3 DEF IInv, Counted, ActiveSlots
<1>. QED BY <1>5, <1>6, <1>7, <1>8, <1>9, <1>10, <1>11 DEF IInv

\* A slot whose task the pool refuses is given back before anybody knew of it.
LEMMA SubmitFailsKeeps == ASSUME IInv, TypeOK', SubmitFails PROVE IInv'
<1>0. /\ clients \in [Slots -> Client]
      /\ acceptor.slot \in Slots
  BY DEF IInv, TypeOK, AcceptorLocals
<1>1. PICK i \in Slots : i = acceptor.slot
  BY <1>0
<1>2. /\ acceptor.pc = "initialized"
      /\ clients[i].state = "initializing"
      /\ clients[i].socket = acceptor.socket
      /\ pending[i] = 0
      /\ \A w \in Workers : ~Handles(w, i)
  BY <1>1 DEF SubmitFails, IInv, AcceptorKnows
<1>3. /\ clients'[i].state = "inactive"
      /\ clients'[i].socket = Invalid
      /\ \A j \in Slots \ {i} : clients'[j] = clients[j]
      /\ acceptor'.pc = "poll"
      /\ open' = open \ {clients[i].socket}
      /\ UNCHANGED <<running, active_connections, pending, worker, owner, accepted>>
  BY <1>0, <1>1, <1>2 DEF SubmitFails, pool, Client
<1>4. \A w \in Workers, j \in Slots : Handles(w, j)' = Handles(w, j)
  BY <1>3 DEF Handles
<1>5. OneHandlerPerSlot'
  BY <1>3, <1>4, SameHandlers DEF IInv, OneHandlerPerSlot
<1>6. InactiveUnused'
  BY <1>2, <1>3, <1>4 DEF IInv, InactiveUnused
<1>7. AcceptorKnows'
  BY <1>3 DEF AcceptorKnows
<1>8. SocketHeldOnce'
  <2>1. \A w \in Workers, s \in Sockets : WorkerHolds(w, s)' = WorkerHolds(w, s)
    BY <1>3 DEF WorkerHolds
  <2>2. \A j \in Slots \ {i}, s \in Sockets : SlotHolds(j, s)' = SlotHolds(j, s)
    BY <1>3 DEF SlotHolds
  <2>3. \A s \in Sockets : ~SlotHolds(i, s)' /\ SlotHolds(i, s) = (s = clients[i].socket)
    BY <1>3 DEF SlotHolds, Sockets, Invalid
  <2>4. \A s \in Sockets : ~AcceptorHolds(s) /\ ~AcceptorHolds(s)'
    BY <1>2, <1>3 DEF AcceptorHolds
  <2>5. ASSUME NEW s \in Sockets
        PROVE  HeldOnce(s)'
    <3>1. HeldOnce(s)
      BY DEF IInv, SocketHeldOnce
    <3>. QED BY <1>3, <2>1, <2>2, <2>3, <2>4, <3>1 DEF HeldOnce
  <2>. QED BY <2>5 DEF SocketHeldOnce
<1>9. FreshClosed'
  BY <1>3 DEF IInv, FreshClosed
<1>10. Stages'
  BY <1>2, <1>3 DEF IInv, Stages
<1>11. Counted'
  <2>1. ActiveSlots' = ActiveSlots
    BY <1>2, <1>3 DEF ActiveSlots
  <2>. QED BY <1>3, <2>1 DEF IInv, Counted
<1>. QED BY <1>5, <1>6, <1>7, <1>8, <1>9, <1>10, <1>11 DEF IInv

\* The table holds finitely many clients.
LEMMA ActiveFinite == IsFiniteSet(ActiveSlots)
<1>1. IsFiniteSet(Slots)
  BY TcpAssumption, FS_Interval DEF Slots
<1>. QED BY <1>1, FS_Subset DEF ActiveSlots

\* The acceptor counts a connection when its slot becomes ACTIVE, and leaves one
\* alone whose handler is over already.
LEMMA ActivateKeeps == ASSUME IInv, TypeOK', Activate PROVE IInv'
<1>0. /\ clients \in [Slots -> Client]
      /\ acceptor.slot \in Slots
      /\ active_connections \in Nat
  BY DEF IInv, TypeOK, AcceptorLocals
<1>1. PICK i \in Slots : i = acceptor.slot
  BY <1>0
<1>2. /\ acceptor.pc = "submitted"
      /\ clients[i].state \in {"inactive", "initializing"}
  BY <1>0, <1>1 DEF Activate, IInv, AcceptorKnows, Client, ClientStates
<1>3. /\ acceptor'.pc = "poll"
      /\ UNCHANGED <<running, pending, worker, owner, open, accepted>>
  BY DEF Activate, pool
<1>4. /\ clients'[i].socket = clients[i].socket
      /\ \A j \in Slots \ {i} : clients'[j] = clients[j]
      /\ \/ /\ clients[i].state = "initializing"
            /\ clients'[i].state = "active"
            /\ active_connections' = active_connections + 1
         \/ /\ clients[i].state = "inactive"
            /\ clients'[i].state = "inactive"
            /\ active_connections' = active_connections
  <2>1. CASE clients[i].state = "initializing"
    BY <1>0, <1>1, <2>1 DEF Activate, Client
  <2>2. CASE clients[i].state = "inactive"
    <3>1. clients[i].socket = Invalid
      BY <2>2 DEF IInv, InactiveUnused
    <3>. QED BY <1>0, <1>1, <2>2, <3>1 DEF Activate, Client
  <2>. QED BY <1>2, <2>1, <2>2
<1>5. \A w \in Workers, j \in Slots : Handles(w, j)' = Handles(w, j)
  BY <1>3 DEF Handles
<1>6. OneHandlerPerSlot'
  BY <1>3, <1>5, SameHandlers DEF IInv, OneHandlerPerSlot
<1>7. InactiveUnused'
  BY <1>3, <1>4, <1>5 DEF IInv, InactiveUnused
<1>8. AcceptorKnows'
  BY <1>3 DEF AcceptorKnows
<1>9. SocketHeldOnce'
  <2>1. \A j \in Slots, s \in Sockets : SlotHolds(j, s)' = SlotHolds(j, s)
    BY <1>4 DEF SlotHolds
  <2>. QED BY <1>2, <1>3, <2>1, SamePlaces
           DEF IInv, SocketHeldOnce, AcceptorHolds, WorkerHolds
<1>10. FreshClosed'
  BY <1>3 DEF IInv, FreshClosed
<1>11. Stages'
  BY <1>2, <1>3 DEF IInv, Stages
<1>12. Counted'
  <2>1. CASE /\ clients[i].state = "initializing"
             /\ clients'[i].state = "active"
             /\ active_connections' = active_connections + 1
    <3>1. i \notin ActiveSlots /\ ActiveSlots' = ActiveSlots \cup {i}
      BY <1>4, <2>1 DEF ActiveSlots
    <3>2. Cardinality(ActiveSlots') = Cardinality(ActiveSlots) + 1
      BY <3>1, ActiveFinite, FS_AddElement
    <3>. QED BY <1>0, <1>3, <2>1, <3>2, ActiveFinite, FS_CardinalityType DEF IInv, Counted
  <2>2. CASE /\ clients[i].state = "inactive"
             /\ clients'[i].state = "inactive"
             /\ active_connections' = active_connections
    <3>1. ActiveSlots' = ActiveSlots
      BY <1>4, <2>2 DEF ActiveSlots
    <3>. QED BY <1>3, <2>2, <3>1 DEF IInv, Counted
  <2>. QED BY <1>4, <2>1, <2>2
<1>. QED BY <1>6, <1>7, <1>8, <1>9, <1>10, <1>11, <1>12 DEF IInv

\* The accept thread ends with nothing in its hands.
LEMMA AcceptorExitKeeps == ASSUME IInv, TypeOK', AcceptorExit PROVE IInv'
<1>1. /\ UNCHANGED <<running, clients, active_connections, pending, worker, owner,
                     open, accepted>>
      /\ acceptor.pc = "poll"
      /\ acceptor'.pc = "done"
  BY DEF AcceptorExit, pool, IInv, TypeOK, AcceptorLocals
<1>2. \A w \in Workers, i \in Slots : Handles(w, i)' = Handles(w, i)
  BY <1>1 DEF Handles
<1>3. OneHandlerPerSlot'
  BY <1>1, <1>2, SameHandlers DEF IInv, OneHandlerPerSlot
<1>4. InactiveUnused'
  BY <1>1, <1>2 DEF IInv, InactiveUnused
<1>5. AcceptorKnows'
  BY <1>1 DEF AcceptorKnows
<1>6. SocketHeldOnce'
  BY <1>1, SamePlaces
     DEF IInv, SocketHeldOnce, AcceptorHolds, SlotHolds, WorkerHolds
<1>7. FreshClosed' /\ Stages'
  BY <1>1 DEF IInv, FreshClosed, Stages
<1>8. Counted'
  BY <1>1 DEF IInv, Counted, ActiveSlots
<1>. QED BY <1>3, <1>4, <1>5, <1>6, <1>7, <1>8 DEF IInv

-----------------------------------------------------------------------------
(* The steps of a handler that begin and end its work. *)

\* A task is taken by one worker, and runs only in a slot that is in use.
LEMMA TakeTaskKeeps ==
    ASSUME IInv, TypeOK', NEW w \in Workers, NEW i \in Slots, TakeTask(w, i)
    PROVE  IInv'
<1>0. /\ pending \in [Slots -> Nat]
      /\ worker \in [Workers -> HandlerLocals]
      /\ acceptor.slot \in Slots
  BY DEF IInv, TypeOK, AcceptorLocals
<1>1. /\ pending[i] = 1
      /\ \A v \in Workers : ~Handles(v, i)
      /\ worker[w].pc = "free"
  BY <1>0 DEF TakeTask, IInv, OneHandlerPerSlot, OneHandler
<1>2. /\ pending'[i] = 0
      /\ \A j \in Slots \ {i} : pending'[j] = pending[j]
      /\ \A v \in Workers \ {w} : worker'[v] = worker[v]
      /\ UNCHANGED <<running, clients, active_connections, acceptor, owner, open, accepted>>
  BY <1>0, <1>1 DEF TakeTask
<1>3. \/ worker' = worker
      \/ /\ worker'[w].pc = "start"
         /\ worker'[w].slot = i
         /\ clients[i].state # "inactive"
  BY <1>0, <1>1 DEF TakeTask, Skips, HandlerLocals
<1>4. /\ \A v \in Workers, j \in Slots \ {i} : Handles(v, j)' = Handles(v, j)
      /\ \A v \in Workers \ {w} : ~Handles(v, i)'
      /\ Handles(w, i)' => clients[i].state # "inactive"
  BY <1>1, <1>2, <1>3 DEF Handles
<1>5. OneHandlerPerSlot'
  <2>1. OneHandler(i)'
    <3>1. pending'[i] <= 1 /\ pending'[i] # 1
      BY <1>2
    <3>2. \A u, v \in Workers : Handles(u, i)' /\ Handles(v, i)' => u = v
      BY <1>4
    <3>. QED BY <3>1, <3>2 DEF OneHandler
  <2>2. \A j \in Slots \ {i} : OneHandler(j)'
    BY <1>2, <1>4, SameHandlers DEF IInv, OneHandlerPerSlot
  <2>. QED BY <2>1, <2>2 DEF OneHandlerPerSlot
<1>6. InactiveUnused'
  BY <1>1, <1>2, <1>4 DEF IInv, InactiveUnused
<1>7. AcceptorKnows'
  BY <1>0, <1>1, <1>2, <1>4 DEF IInv, AcceptorKnows
<1>8. SocketHeldOnce'
  <2>1. \A v \in Workers, s \in Sockets : WorkerHolds(v, s)' = WorkerHolds(v, s)
    BY <1>1, <1>2, <1>3 DEF WorkerHolds
  <2>. QED BY <1>2, <2>1, SamePlaces DEF IInv, SocketHeldOnce, AcceptorHolds, SlotHolds
<1>9. FreshClosed'
  BY <1>2 DEF IInv, FreshClosed
<1>10. Stages'
  BY <1>1, <1>2 DEF IInv, Stages
<1>11. Counted'
  BY <1>2 DEF IInv, Counted, ActiveSlots
<1>. QED BY <1>5, <1>6, <1>7, <1>8, <1>9, <1>10, <1>11 DEF IInv

\* A handler that ends without having freed its slot.
LEMMA ArenaFailsKeeps ==
    ASSUME IInv, TypeOK', NEW w \in Workers, ArenaFails(w)
    PROVE  IInv'
<1>0. /\ worker \in [Workers -> HandlerLocals]
      /\ acceptor.slot \in Slots
  BY DEF IInv, TypeOK, AcceptorLocals
<1>1. /\ worker[w].pc = "start"
      /\ worker'[w].pc = "free"
      /\ \A v \in Workers \ {w} : worker'[v] = worker[v]
      /\ UNCHANGED <<running, clients, active_connections, acceptor, pending, owner, open,
                     accepted>>
  BY <1>0 DEF ArenaFails, Free
<1>2. \A v \in Workers, i \in Slots : Handles(v, i)' => Handles(v, i)
  BY <1>1 DEF Handles
<1>3. OneHandlerPerSlot'
  BY <1>1, <1>2 DEF IInv, OneHandlerPerSlot, OneHandler
<1>4. InactiveUnused'
  BY <1>1, <1>2 DEF IInv, InactiveUnused
<1>5. AcceptorKnows'
  BY <1>0, <1>1, <1>2 DEF IInv, AcceptorKnows
<1>6. SocketHeldOnce'
  <2>1. \A v \in Workers, s \in Sockets : WorkerHolds(v, s)' = WorkerHolds(v, s)
    BY <1>1 DEF WorkerHolds
  <2>. QED BY <1>1, <2>1, SamePlaces DEF IInv, SocketHeldOnce, AcceptorHolds, SlotHolds
<1>7. FreshClosed'
  BY <1>1 DEF IInv, FreshClosed
<1>8. Stages'
  BY <1>1 DEF IInv, Stages
<1>9. Counted'
  BY <1>1 DEF IInv, Counted, ActiveSlots
<1>. QED BY <1>3, <1>4, <1>5, <1>6, <1>7, <1>8, <1>9 DEF IInv

\* The slot a handler frees is its own: it has no other handler and no task, and
\* the handler takes the slot's socket with it.
LEMMA CleanupKeeps ==
    ASSUME IInv, TypeOK', NEW w \in Workers, Cleanup(w)
    PROVE  IInv'
<1>0. /\ clients \in [Slots -> Client]
      /\ worker \in [Workers -> HandlerLocals]
      /\ pending \in [Slots -> Nat]
      /\ active_connections \in Nat
      /\ acceptor.slot \in Slots
      /\ worker[w].slot \in Slots
  BY DEF IInv, TypeOK, AcceptorLocals, HandlerLocals
<1>1. PICK i \in Slots : i = worker[w].slot
  BY <1>0
<1>2. Handles(w, i) /\ worker[w].pc = "cleanup"
  BY <1>1 DEF Cleanup, Handles
<1>3. /\ clients[i].state # "inactive"
      /\ pending[i] = 0
      /\ \A v \in Workers \ {w} : ~Handles(v, i)
  BY <1>0, <1>2 DEF IInv, InactiveUnused, OneHandlerPerSlot, OneHandler
<1>4. /\ clients' = [clients EXCEPT ![i].state = "inactive", ![i].socket = Invalid]
      /\ active_connections' = Max({active_connections - 1, 0})
      /\ worker' = [worker EXCEPT ![w].pc = "close", ![w].socket = clients[i].socket]
      /\ UNCHANGED <<running, acceptor, pending, owner, open, accepted>>
  BY <1>1, <1>3 DEF Cleanup
<1>5. /\ clients'[i].state = "inactive"
      /\ clients'[i].socket = Invalid
      /\ \A j \in Slots \ {i} : clients'[j] = clients[j]
  BY <1>0, <1>4 DEF Client
<1>6. /\ worker'[w].pc = "close"
      /\ worker'[w].socket = clients[i].socket
      /\ \A v \in Workers \ {w} : worker'[v] = worker[v]
  BY <1>0, <1>4 DEF HandlerLocals
<1>7. /\ \A v \in Workers \ {w}, j \in Slots : Handles(v, j)' = Handles(v, j)
      /\ \A j \in Slots : ~Handles(w, j)'
  BY <1>6 DEF Handles
<1>8. OneHandlerPerSlot'
  BY <1>4, <1>7 DEF IInv, OneHandlerPerSlot, OneHandler
<1>9. InactiveUnused'
  BY <1>3, <1>4, <1>5, <1>7 DEF IInv, InactiveUnused
<1>10. AcceptorKnows'
  <2>1. acceptor.pc = "initialized" => acceptor.slot # i
    BY <1>2 DEF IInv, AcceptorKnows
  <2>. QED BY <1>0, <1>4, <1>5, <1>7, <2>1 DEF IInv, AcceptorKnows
<1>11. SocketHeldOnce'
  <2>1. \A v \in Workers \ {w}, s \in Sockets : WorkerHolds(v, s)' = WorkerHolds(v, s)
    BY <1>6 DEF WorkerHolds
  <2>2. \A j \in Slots \ {i}, s \in Sockets : SlotHolds(j, s)' = SlotHolds(j, s)
    BY <1>5 DEF SlotHolds
  <2>3. \A s \in Sockets : /\ ~SlotHolds(i, s)'
                           /\ ~WorkerHolds(w, s)
                           /\ WorkerHolds(w, s)' = SlotHolds(i, s)
    BY <1>2, <1>5, <1>6 DEF SlotHolds, WorkerHolds, Sockets, Invalid
  <2>4. \A s \in Sockets : AcceptorHolds(s)' = AcceptorHolds(s)
    BY <1>4 DEF AcceptorHolds
  <2>5. ASSUME NEW s \in Sockets
        PROVE  HeldOnce(s)'
    <3>1. HeldOnce(s) /\ open' = open
      BY <1>4 DEF IInv, SocketHeldOnce
    <3>. QED BY <2>1, <2>2, <2>3, <2>4, <3>1 DEF HeldOnce
  <2>. QED BY <2>5 DEF SocketHeldOnce
<1>12. FreshClosed'
  BY <1>4 DEF IInv, FreshClosed
<1>13. Stages'
  BY <1>2, <1>4 DEF IInv, Stages
<1>14. Counted'
  <2>1. active_connections' = IF active_connections = 0 THEN 0 ELSE active_connections - 1
    BY <1>0, <1>4, OneLess
  <2>2. ActiveSlots' = ActiveSlots \ {i}
    BY <1>5 DEF ActiveSlots
  <2>3. /\ Cardinality(ActiveSlots) \in Nat
        /\ Cardinality(ActiveSlots') =
              IF i \in ActiveSlots THEN Cardinality(ActiveSlots) - 1
                                   ELSE Cardinality(ActiveSlots)
    BY <2>2, ActiveFinite, FS_RemoveElement, FS_CardinalityType
  <2>4. i \in ActiveSlots => Cardinality(ActiveSlots) # 0
    BY ActiveFinite, FS_EmptySet
  <2>. QED BY <1>0, <1>4, <2>1, <2>3, <2>4 DEF IInv, Counted
<1>. QED BY <1>8, <1>9, <1>10, <1>11, <1>12, <1>13, <1>14 DEF IInv

\* The socket a handler took with it is closed by that handler alone.
LEMMA CloseSocketKeeps ==
    ASSUME IInv, TypeOK', NEW w \in Workers, CloseSocket(w)
    PROVE  IInv'
<1>0. /\ worker \in [Workers -> HandlerLocals]
      /\ acceptor.slot \in Slots
  BY DEF IInv, TypeOK, AcceptorLocals
<1>1. /\ worker[w].pc = "close"
      /\ worker'[w].pc = "free"
      /\ \A v \in Workers \ {w} : worker'[v] = worker[v]
      /\ open' = open \ {worker[w].socket}
      /\ UNCHANGED <<running, clients, active_connections, acceptor, pending, owner,
                     accepted>>
  BY <1>0 DEF CloseSocket, Free
<1>2. \A v \in Workers, i \in Slots : Handles(v, i)' = Handles(v, i)
  BY <1>1 DEF Handles
<1>3. OneHandlerPerSlot'
  BY <1>1, <1>2, SameHandlers DEF IInv, OneHandlerPerSlot
<1>4. InactiveUnused'
  BY <1>1, <1>2 DEF IInv, InactiveUnused
<1>5. AcceptorKnows'
  BY <1>0, <1>1, <1>2 DEF IInv, AcceptorKnows
<1>6. SocketHeldOnce'
  <2>1. \A v \in Workers \ {w}, s \in Sockets : WorkerHolds(v, s)' = WorkerHolds(v, s)
    BY <1>1 DEF WorkerHolds
  <2>2. \A s \in Sockets : /\ ~WorkerHolds(w, s)'
                           /\ WorkerHolds(w, s) = (s = worker[w].socket)
    BY <1>1 DEF WorkerHolds
  <2>3. \A i \in Slots, s \in Sockets : SlotHolds(i, s)' = SlotHolds(i, s)
    BY <1>1 DEF SlotHolds
  <2>4. \A s \in Sockets : AcceptorHolds(s)' = AcceptorHolds(s)
    BY <1>1 DEF AcceptorHolds
  <2>5. ASSUME NEW s \in Sockets
        PROVE  HeldOnce(s)'
    <3>1. HeldOnce(s)
      BY DEF IInv, SocketHeldOnce
    <3>2. CASE s = worker[w].socket
      <4>1. WorkerHolds(w, s) /\ ~WorkerHolds(w, s)' /\ s \notin open'
        BY <1>1, <2>2, <3>2
      <4>2. ~AcceptorHolds(s)' /\ \A i \in Slots : ~SlotHolds(i, s)'
        BY <2>3, <2>4, <3>1, <4>1 DEF HeldOnce
      <4>3. \A v \in Workers : ~WorkerHolds(v, s)'
        BY <2>1, <3>1, <4>1 DEF HeldOnce
      <4>. QED BY <4>1, <4>2, <4>3 DEF HeldOnce
    <3>3. CASE s # worker[w].socket
      <4>1. \A v \in Workers : WorkerHolds(v, s)' = WorkerHolds(v, s)
        BY <1>1, <3>3 DEF WorkerHolds
      <4>2. (s \in open') = (s \in open)
        BY <1>1, <3>3
      <4>. QED BY <2>3, <2>4, <3>1, <4>1, <4>2, SamePlaces
    <3>. QED BY <3>2, <3>3
  <2>. QED BY <2>5 DEF SocketHeldOnce
<1>7. FreshClosed'
  BY <1>1 DEF IInv, FreshClosed
<1>8. Stages'
  BY <1>1 DEF IInv, Stages
<1>9. Counted'
  BY <1>1 DEF IInv, Counted, ActiveSlots
<1>. QED BY <1>3, <1>4, <1>5, <1>6, <1>7, <1>8, <1>9 DEF IInv

-----------------------------------------------------------------------------
\* The invariant holds initially.
LEMMA InitIInv == Init => IInv
<1>. SUFFICES ASSUME Init PROVE IInv
  OBVIOUS
<1>1. TypeOK
  BY InitTypeOK
<1>2. /\ \A i \in Slots : /\ pending[i] = 0
                          /\ clients[i].state = "inactive"
                          /\ clients[i].socket = Invalid
      /\ \A w \in Workers : worker[w].pc = "free"
      /\ acceptor.pc = "done"
      /\ open = {}
  BY DEF Init, Free
<1>3. \A w \in Workers, i \in Slots : ~Handles(w, i)
  BY <1>2 DEF Handles
<1>4. OneHandlerPerSlot /\ InactiveUnused /\ AcceptorKnows /\ FreshClosed
  BY <1>2, <1>3 DEF OneHandlerPerSlot, OneHandler, InactiveUnused, AcceptorKnows, FreshClosed
<1>5. SocketHeldOnce
  <2>1. \A s \in Sockets : /\ ~AcceptorHolds(s)
                           /\ \A w \in Workers : ~WorkerHolds(w, s)
                           /\ \A i \in Slots : ~SlotHolds(i, s)
    BY <1>2 DEF AcceptorHolds, WorkerHolds, SlotHolds, Sockets, Invalid
  <2>. QED BY <1>2, <2>1 DEF SocketHeldOnce, HeldOnce
<1>6. Stages
  BY <1>2 DEF Init, Stages
<1>7. Counted
  BY ActiveFinite, FS_CardinalityType DEF Init, Counted
<1>. QED BY <1>1, <1>4, <1>5, <1>6, <1>7 DEF IInv

\* Every step keeps the invariant.
LEMMA NextIInv == IInv /\ [Next]_vars => IInv'
<1>. SUFFICES ASSUME IInv, [Next]_vars PROVE IInv'
  OBVIOUS
<1>0. TypeOK
  BY DEF IInv
<1>1. CASE Acceptor
  <2>1. TypeOK'
    BY <1>0, <1>1, AcceptorTypeOK
  <2>. QED BY <1>1, <2>1, AcceptKeeps, AssignSlotKeeps, RejectKeeps, SubmitKeeps,
              SubmitFailsKeeps, ActivateKeeps, AcceptorExitKeeps DEF Acceptor
<1>2. ASSUME NEW w \in Workers,
             \/ HandlerStep(w)
             \/ ArenaFails(w)
             \/ Readable(w)
             \/ WaitFails(w)
             \/ ReceiveFrame(w)
      PROVE  IInv'
  <2>1. TypeOK'
    BY <1>0, <1>2, HandlerTypeOK
  <2>. QED BY <1>2, <2>1, TakeTaskKeeps, ArenaFailsKeeps, HandlerWorks, CleanupKeeps,
              CloseSocketKeeps DEF HandlerStep
<1>3. CASE MarkIdle \/ (\E i \in Slots : TimePasses(i)) \/ (\E s \in open : PeerCloses(s))
  BY <1>0, <1>3, OtherTypeOK, OutsideKeeps
<1>4. CASE Start \/ Stop \/ Owner \/ Destroy
  <2>1. TypeOK'
    BY <1>0, <1>4, OtherTypeOK
  <2>. QED BY <1>4, <2>1, StartKeeps, StopClientsKeeps, OwnerKeeps DEF Owner
<1>5. CASE UNCHANGED vars
  <2>1. TypeOK'
    BY <1>0, <1>5 DEF TypeOK, vars
  <2>. QED BY <1>5, <2>1, OutsideKeeps
<1>. QED BY <1>1, <1>2, <1>3, <1>4, <1>5 DEF Next

\* The inductive invariant holds in every state of the transport.
THEOREM Invariant == Spec => []IInv
<1>. QED BY InitIInv, NextIInv, PTL DEF Spec

\* For any number of slots, workers and connections: a slot of the TCP server has
\* at most one task or handler, an open socket is held in exactly one place and a
\* closed one in none (so nothing is leaked by the error paths and nothing is closed
\* twice), and the statistics never report more connections than are ACTIVE.
THEOREM ClientsAlwaysExact == Spec => []ClientsExact
<1>1. IInv => ClientsExact
  BY DEF IInv, ClientsExact, NeverOvercounts, Counted, Stages
<1>. QED BY <1>1, Invariant, PTL

\* tcp_transport_stop is complete for any number of slots, workers and connections:
\* once it has returned no socket is open, no task waits, no handler and no accept
\* thread runs, so tcp_transport_destroy may free the table.
THEOREM StopIsComplete == Spec => []StopLeavesNothing
<1>1. ASSUME IInv, owner \in {"stopped", "destroyed"}
      PROVE  /\ open = {}
             /\ acceptor.pc = "done"
             /\ \A i \in Slots : pending[i] = 0
             /\ \A w \in Workers : worker[w].pc = "free"
  <2>1. /\ acceptor.pc = "done"
        /\ \A i \in Slots : pending[i] = 0 /\ clients[i].state = "inactive"
        /\ \A w \in Workers : worker[w].pc = "free"
    BY <1>1 DEF IInv, Stages
  <2>2. \A i \in Slots : clients[i].socket = Invalid
    BY <1>1, <2>1 DEF IInv, InactiveUnused
  <2>3. \A s \in Sockets : s \notin open
    BY <1>1, <2>1, <2>2
       DEF IInv, SocketHeldOnce, HeldOnce, AcceptorHolds, SlotHolds, WorkerHolds,
           Sockets, Invalid
  <2>4. open = {}
    BY <1>1, <2>3 DEF IInv, TypeOK
  <2>. QED BY <2>1, <2>4
<1>2. IInv => StopLeavesNothing
  BY <1>1 DEF StopLeavesNothing
<1>. QED BY <1>2, Invariant, PTL
=============================================================================
