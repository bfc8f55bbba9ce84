------------------------ MODULE ClientRequestsProofs -------------------------
(***************************************************************************)
(* Proofs about the client's requests, for any number of callers, requests *)
(* and any initial size of the table, on both kinds of transports.         *)
(*                                                                         *)
(* That entries and calls agree is not inductive: a new request must not    *)
(* meet an entry, which holds because ids are never used twice (OwnIds),   *)
(* and a call that is over must not leave one, which holds because every   *)
(* way out of a call with an entry removes it (HasEntry, EntryHasCaller).  *)
(***************************************************************************)
EXTENDS ClientRequests, TLAPS

\* The steps of a call between registering its request and removing it.
Registered(c) ==
    \/ caller[c].pc \in {"added", "unsent", "waiting", "woken"}
    \/ caller[c].pc = "sent" /\ ~Synchronous

\* Every call takes an id that no call had before.
OwnIds ==
    /\ \A c \in Callers : /\ caller[c].id < next_id
                          /\ caller[c].pc # "idle" => caller[c].id \in Ids
    /\ \A c, d \in Callers : caller[c].id = caller[d].id /\ caller[c].id # 0 => c = d

\* A request that was registered is in the table until its call removes it.
HasEntry == \A c \in Callers : Registered(c) => caller[c].id \in Live

\* An entry belongs to a call in progress.
EntryHasCaller == \A id \in Live : \E c \in Callers : caller[c].id = id /\ Registered(c)

\* Only asynchronous transports use the table.
OnlyAsynchronous == \A c \in Callers : Registered(c) => ~Synchronous

IInv ==
    /\ TypeOK
    /\ OwnIds
    /\ HasEntry
    /\ EntryHasCaller
    /\ OnlyAsynchronous
    /\ CompletedHasResult

-----------------------------------------------------------------------------
\* The client that mcp_client_create makes has no entry and no call.
LEMMA InitIInv == Init => IInv
<1> SUFFICES ASSUME Init PROVE IInv
  OBVIOUS
<1> USE ClientAssumption DEF Init, Idle, NoOutput, NotReturned
<1>1. Live = {}
  BY DEF Live
<1>2. TypeOK
  BY DEF TypeOK, Statuses, CallerStates, CallRecords, OutputRecords, Errors, Ids
<1>3. OwnIds /\ HasEntry /\ EntryHasCaller /\ OnlyAsynchronous /\ CompletedHasResult
  BY <1>1 DEF OwnIds, HasEntry, EntryHasCaller, OnlyAsynchronous, CompletedHasResult,
              Registered
<1> QED
  BY <1>2, <1>3 DEF IInv

\* A caller moves on: to another step, perhaps with a pointer into the table.
LEMMA CallsTyped ==
    ASSUME caller \in [Callers -> CallRecords], NEW c \in Callers
    PROVE  /\ \A pc \in CallerStates : [caller EXCEPT ![c].pc = pc] \in [Callers -> CallRecords]
           /\ \A pc \in CallerStates, p \in Nat :
                 [caller EXCEPT ![c].pc = pc, ![c].pointer = p] \in [Callers -> CallRecords]
BY DEF CallRecords, CallerStates

\* Callers are woken.
LEMMA SignalledTyped ==
    ASSUME caller \in [Callers -> CallRecords], NEW ids
    PROVE  Signalled(ids) \in [Callers -> CallRecords]
BY DEF CallRecords, CallerStates, Signalled

\* The error code of a call is written.
LEMMA OutputsTyped ==
    ASSUME output \in [Callers -> OutputRecords], NEW c \in Callers
    PROVE  /\ \A e \in Errors : [output EXCEPT ![c].error = e] \in [Callers -> OutputRecords]
           /\ \A a \in Answers : OutputOf(a) \in OutputRecords
BY DEF OutputRecords, Errors, OutputOf, Answers

\* The types are kept by every step.
LEMMA NextTypeOK == IInv /\ [Next]_vars => TypeOK'
<1> USE DEF TypeOK, network, Return
<1>1. ASSUME TypeOK, NEW c \in Callers, TakeId(c) PROVE TypeOK'
  BY <1>1, ClientAssumption
     DEF TakeId, CallerStates, CallRecords, OutputRecords, NoOutput, Errors, Ids
<1>2. ASSUME TypeOK, NEW c \in Callers, Register(c) PROVE TypeOK'
  <2>1. capacity' \in Nat \ {0} /\ moves' \in Nat
    BY <1>2 DEF Register
  <2>2. status' \in [Ids -> Statuses]
    BY <1>2 DEF Register, Statuses
  <2>3. caller' \in [Callers -> CallRecords]
    BY <1>2, CallsTyped DEF Register, CallerStates
  <2> QED
    BY <1>2, <2>1, <2>2, <2>3 DEF Register
<1>3. ASSUME TypeOK, NEW c \in Callers, RegisterFails(c) PROVE TypeOK'
  BY <1>3, CallsTyped DEF RegisterFails, CallerStates
<1>4. ASSUME TypeOK, NEW c \in Callers, caller[c].id \in Ids, Send(c) PROVE TypeOK'
  BY <1>4, CallsTyped DEF Send, CallerStates
<1>5. ASSUME TypeOK, NEW c \in Callers, caller[c].id \in Ids, SendFails(c) PROVE TypeOK'
  <2>a. PICK pc \in CallerStates : caller' = [caller EXCEPT ![c].pc = pc]
    BY <1>5 DEF SendFails, CallerStates
  <2>1. caller' \in [Callers -> CallRecords]
    BY <1>5, <2>a, CallsTyped, Zenon
  <2>2. returned' \in [Callers -> {0, -1, NotReturned}]
    BY <1>5 DEF SendFails
  <2>3. sent' \subseteq Ids /\ unsent' \in [Callers -> BOOLEAN]
    BY <1>5 DEF SendFails
  <2> QED
    BY <1>5, <2>1, <2>2, <2>3 DEF SendFails
<1>6. ASSUME TypeOK, NEW c \in Callers, Withdraw(c) PROVE TypeOK'
  BY <1>6, CallsTyped DEF Withdraw, CallerStates, Statuses
<1>7. ASSUME TypeOK, NEW c \in Callers, Await(c) PROVE TypeOK'
  BY <1>7, CallsTyped DEF Await, CallerStates
<1>8. ASSUME TypeOK, NEW c \in Callers, NEW seen, Conclude(c, seen) PROVE TypeOK'
  BY <1>8, CallsTyped, OutputsTyped DEF Conclude, CallerStates, Statuses, Errors, OutputRecords
<1>9. ASSUME TypeOK, NEW c \in Callers, AwaitNot(c) \/ Wake(c) PROVE TypeOK'
  BY <1>8, <1>9 DEF AwaitNot, Wake
<1>10. ASSUME TypeOK, NEW c \in Callers, Timeout(c) \/ SpuriousWake(c) PROVE TypeOK'
  <2>a. PICK pc \in CallerStates : caller' = [caller EXCEPT ![c].pc = pc]
    BY <1>10 DEF Timeout, SpuriousWake, CallerStates
  <2>1. caller' \in [Callers -> CallRecords]
    BY <1>10, <2>a, CallsTyped, Zenon
  <2> QED
    BY <1>10, <2>1 DEF Timeout, SpuriousWake
<1>11. ASSUME TypeOK, NEW c \in Callers, ReceiveSync(c) PROVE TypeOK'
  <2>a. PICK pc \in CallerStates : caller' = [caller EXCEPT ![c].pc = pc]
    BY <1>11 DEF ReceiveSync, CallerStates
  <2>1. caller' \in [Callers -> CallRecords]
    BY <1>11, <2>a, CallsTyped, Zenon
  <2>b. PICK a \in Answers : output' = [output EXCEPT ![c] = IF a.id = caller[c].id
                                             THEN OutputOf(a)
                                             ELSE [@ EXCEPT !.error = "internal"]]
    BY <1>11 DEF ReceiveSync
  <2>c. [output[c] EXCEPT !.error = "internal"] \in OutputRecords
    BY <1>11 DEF OutputRecords, Errors
  <2>2. output' \in [Callers -> OutputRecords]
    BY <1>11, <2>b, <2>c, OutputsTyped
  <2> QED
    BY <1>11, <2>1, <2>2 DEF ReceiveSync
<1>12. ASSUME TypeOK, NEW c \in Callers, ReceiveSyncFails(c) PROVE TypeOK'
  BY <1>12, CallsTyped, OutputsTyped DEF ReceiveSyncFails, CallerStates, Errors
<1>13. ASSUME TypeOK, NEW id \in Ids, Answer(id) \/ Lose(id) PROVE TypeOK'
  BY <1>13 DEF Answer, Lose, Answers
<1>14. ASSUME TypeOK, NEW a \in answers, Deliver(a) PROVE TypeOK'
  <2>1. status' \in [Ids -> Statuses]
    BY <1>14 DEF Deliver, Statuses
  <2>a. caller' = Signalled({a.id}) \/ caller' = caller
    BY <1>14 DEF Deliver
  <2>2. caller' \in [Callers -> CallRecords]
    BY <1>14, <2>a, SignalledTyped, Zenon
  <2>3. output' \in [Callers -> OutputRecords]
    BY <1>14, OutputsTyped DEF Deliver, WriteOutput
  <2> QED
    BY <1>14, <2>1, <2>2, <2>3 DEF Deliver
<1>15. ASSUME TypeOK, TransportError PROVE TypeOK'
  <2>1. status' \in [Ids -> Statuses]
    BY <1>15 DEF TransportError, Statuses
  <2>2. caller' \in [Callers -> CallRecords]
    BY <1>15, SignalledTyped, Zenon DEF TransportError
  <2>3. output' \in [Callers -> OutputRecords]
    BY <1>15 DEF TransportError, OutputRecords, Errors
  <2> QED
    BY <1>15, <2>1, <2>2, <2>3 DEF TransportError
<1>16. ASSUME TypeOK, UNCHANGED vars PROVE TypeOK'
  BY <1>16 DEF vars
<1> QED
  BY <1>1, <1>2, <1>3, <1>4, <1>5, <1>6, <1>7, <1>9, <1>10, <1>11, <1>12, <1>13, <1>14,
     <1>15, <1>16 DEF IInv, OwnIds, Next, CallerStep, Send, SendFails, ReadyToSend
-----------------------------------------------------------------------------
\* What a step does to the table: a request enters it or leaves it.
LEMMA LiveChanges ==
    ASSUME TypeOK, NEW id \in Ids, NEW s \in Statuses, status' = [status EXCEPT ![id] = s]
    PROVE  Live' = IF s = "invalid" THEN Live \ {id} ELSE Live \cup {id}
BY DEF TypeOK, Live

\* What a step of one caller does to the calls.
LEMMA CallerMoves ==
    ASSUME TypeOK, NEW c \in Callers, NEW pc, caller' = [caller EXCEPT ![c].pc = pc]
    PROVE  /\ caller'[c].pc = pc
           /\ \A d \in Callers : /\ caller'[d].id = caller[d].id
                                 /\ caller'[d].pointer = caller[d].pointer
                                 /\ d # c => caller'[d].pc = caller[d].pc
BY DEF TypeOK, CallRecords

\* The entry of a call is its own.
LEMMA EntryIsRegistered ==
    ASSUME IInv, NEW c \in Callers, caller[c].id \in Live
    PROVE  Registered(c)
BY DEF IInv, OwnIds, EntryHasCaller, Live, Ids

\* The steps that keep ids and entries as they are.
LEMMA KeepsEntries ==
    ASSUME IInv, Live' = Live, next_id' = next_id,
           \A c \in Callers : /\ caller'[c].id = caller[c].id
                              /\ (caller[c].pc = "idle") => (caller'[c].pc = "idle")
                              /\ Registered(c)' = Registered(c)
    PROVE  OwnIds' /\ HasEntry' /\ EntryHasCaller' /\ OnlyAsynchronous'
BY DEF IInv, OwnIds, HasEntry, EntryHasCaller, OnlyAsynchronous

\* The steps that write no output and complete no request.
LEMMA KeepsResults ==
    ASSUME IInv, \A c \in Callers : caller'[c].id = caller[c].id /\ output'[c] = output[c],
           \A id \in Ids : status'[id] = "completed" => status[id] = "completed"
    PROVE  CompletedHasResult'
BY DEF IInv, CompletedHasResult, Live

\* A call removes its entry and returns.
LEMMA RemovesEntry ==
    ASSUME IInv, NEW c \in Callers, Registered(c), next_id' = next_id,
           status' = [status EXCEPT ![caller[c].id] = "invalid"],
           caller' = [caller EXCEPT ![c].pc = "idle"]
    PROVE  /\ caller[c].id \in Live
           /\ Live' = Live \ {caller[c].id}
           /\ OwnIds' /\ HasEntry' /\ EntryHasCaller' /\ OnlyAsynchronous'
<1>1. caller[c].id \in Live
  BY DEF IInv, HasEntry
<1>2. Live' = Live \ {caller[c].id}
  BY <1>1, LiveChanges DEF IInv, Live, Statuses
<1>3. \A d \in Callers : /\ caller'[d].id = caller[d].id
                         /\ d # c => Registered(d)' = Registered(d)
                         /\ d # c => caller'[d].pc = caller[d].pc
  BY CallerMoves DEF IInv, Registered
<1>a. caller'[c].pc = "idle"
  BY CallerMoves DEF IInv
<1>4. caller'[c].pc = "idle" /\ ~Registered(c)'
  BY <1>a DEF Registered
<1>5. OwnIds'
  BY <1>3, <1>4 DEF IInv, OwnIds
<1>6. \A d \in Callers : caller[d].id = caller[c].id => d = c
  BY <1>1 DEF IInv, OwnIds, Live, Ids
<1>7. HasEntry' /\ EntryHasCaller' /\ OnlyAsynchronous'
  BY <1>2, <1>3, <1>4, <1>6 DEF IInv, HasEntry, EntryHasCaller, OnlyAsynchronous
<1> QED
  BY <1>1, <1>2, <1>5, <1>7

\* The steps that move one caller and neither register nor remove an entry.
LEMMA KeepsTable ==
    ASSUME IInv, NEW c \in Callers, NEW pc, caller' = [caller EXCEPT ![c].pc = pc],
           next_id' = next_id, status' = status, caller[c].pc # "idle",
           Registered(c)' = Registered(c)
    PROVE  OwnIds' /\ HasEntry' /\ EntryHasCaller' /\ OnlyAsynchronous'
<1>1. Live' = Live
  BY DEF Live
<1>2. \A d \in Callers : /\ caller'[d].id = caller[d].id
                         /\ caller[d].pc = "idle" => caller'[d].pc = "idle"
                         /\ Registered(d)' = Registered(d)
  <2> SUFFICES ASSUME NEW d \in Callers
               PROVE  /\ caller'[d].id = caller[d].id
                      /\ caller[d].pc = "idle" => caller'[d].pc = "idle"
                      /\ Registered(d)' = Registered(d)
    OBVIOUS
  <2>1. CASE d = c
    BY <2>1, CallerMoves DEF IInv
  <2>2. CASE d # c
    BY <2>2, CallerMoves DEF IInv, Registered
  <2> QED
    BY <2>1, <2>2
<1> QED
  BY <1>1, <1>2, KeepsEntries

\* A signal wakes callers that wait, and does nothing else.
LEMMA SignalledKeeps ==
    ASSUME IInv, NEW ids, caller' = Signalled(ids)
    PROVE  \A c \in Callers : /\ caller'[c].id = caller[c].id
                              /\ caller'[c].pointer = caller[c].pointer
                              /\ \/ caller'[c].pc = caller[c].pc
                                 \/ caller[c].pc = "waiting" /\ caller'[c].pc = "woken"
                              /\ Registered(c)' = Registered(c)
<1>1. \A c \in Callers : /\ caller'[c].id = caller[c].id
                         /\ caller'[c].pointer = caller[c].pointer
                         /\ \/ caller'[c].pc = caller[c].pc
                            \/ caller[c].pc = "waiting" /\ caller'[c].pc = "woken"
  <2> SUFFICES ASSUME NEW c \in Callers
               PROVE  /\ caller'[c].id = caller[c].id
                      /\ caller'[c].pointer = caller[c].pointer
                      /\ \/ caller'[c].pc = caller[c].pc
                         \/ caller[c].pc = "waiting" /\ caller'[c].pc = "woken"
    OBVIOUS
  <2>1. caller[c] \in CallRecords
    BY DEF IInv, TypeOK
  <2>2. \/ caller'[c] = caller[c]
        \/ caller[c].pc = "waiting" /\ caller'[c] = [caller[c] EXCEPT !.pc = "woken"]
    BY DEF Signalled
  <2>3. CASE caller'[c] = caller[c]
    BY <2>3
  <2>4. CASE caller[c].pc = "waiting" /\ caller'[c] = [caller[c] EXCEPT !.pc = "woken"]
    BY <2>1, <2>4 DEF CallRecords
  <2> QED
    BY <2>2, <2>3, <2>4
<1> QED
  BY <1>1 DEF Registered

\* Every step keeps ids unique and the table in line with the registered calls.
LEMMA NextEntries ==
    ASSUME IInv, Next
    PROVE  OwnIds' /\ HasEntry' /\ EntryHasCaller' /\ OnlyAsynchronous'
<1> DEFINE Goal == OwnIds' /\ HasEntry' /\ EntryHasCaller' /\ OnlyAsynchronous'
<1>1. ASSUME NEW c \in Callers, TakeId(c) PROVE Goal
  <2>1. Live' = Live /\ next_id' = next_id + 1 /\ next_id \in Ids
    BY <1>1 DEF TakeId, Live, IInv, TypeOK, Ids
  <2>2. caller'[c].id = next_id /\ caller'[c].pc = "id"
    BY <1>1 DEF TakeId, IInv, TypeOK
  <2>3. \A d \in Callers : d # c => caller'[d] = caller[d]
    BY <1>1 DEF TakeId, IInv, TypeOK
  <2>4. ~Registered(c) /\ ~Registered(c)'
    BY <1>1, <2>2 DEF TakeId, Registered
  <2>5. \A d \in Callers : d # c => Registered(d)' = Registered(d)
    BY <2>3 DEF Registered
  <2>6. \A d \in Callers : caller[d].id < next_id /\ caller[d].id \in Nat
    BY DEF IInv, OwnIds, TypeOK, CallRecords, Ids
  <2>7. OwnIds'
    BY <2>1, <2>2, <2>3, <2>6 DEF IInv, OwnIds, TypeOK, Ids
  <2>8. HasEntry' /\ EntryHasCaller' /\ OnlyAsynchronous'
    BY <2>1, <2>3, <2>4, <2>5 DEF IInv, HasEntry, EntryHasCaller, OnlyAsynchronous
  <2> QED
    BY <2>7, <2>8
<1>2. ASSUME NEW c \in Callers, Register(c) PROVE Goal
  <2>1. caller' = [caller EXCEPT ![c].pc = "added"] /\ next_id' = next_id /\ ~Synchronous
    BY <1>2 DEF Register
  <2>2. caller[c].id \in Ids
    BY <1>2 DEF Register, IInv, OwnIds
  <2>3. Live' = Live \cup {caller[c].id}
    BY <1>2, <2>2, LiveChanges DEF Register, IInv, Statuses
  <2>4. /\ caller'[c].pc = "added"
        /\ \A d \in Callers : caller'[d].id = caller[d].id
        /\ \A d \in Callers : d # c => caller'[d].pc = caller[d].pc
    BY <2>1, CallerMoves DEF IInv
  <2>a. Registered(c)'
    BY <2>4 DEF Registered
  <2>b. ASSUME NEW d \in Callers, d # c PROVE Registered(d)' = Registered(d)
    <3>1. caller'[d].pc = caller[d].pc
      BY <2>4, <2>b
    <3> QED
      BY <3>1 DEF Registered
  <2>5. Registered(c)' /\ \A d \in Callers : d # c => Registered(d)' = Registered(d)
    BY <2>a, <2>b
  <2>6. OwnIds'
    BY <2>1, <2>2, <2>4 DEF IInv, OwnIds
  <2>7. HasEntry' /\ EntryHasCaller' /\ OnlyAsynchronous'
    BY <2>1, <2>3, <2>4, <2>5 DEF IInv, HasEntry, EntryHasCaller, OnlyAsynchronous
  <2> QED
    BY <2>6, <2>7
<1>3. ASSUME NEW c \in Callers, RegisterFails(c) PROVE Goal
  <2>1. caller' = [caller EXCEPT ![c].pc = "idle"] /\ next_id' = next_id /\ status' = status
    BY <1>3 DEF RegisterFails, Return
  <2>2. ~Registered(c) /\ caller[c].pc # "idle"
    BY <1>3 DEF RegisterFails, Registered
  <2>3. caller'[c].pc = "idle"
    BY <2>1, CallerMoves DEF IInv
  <2> QED
    BY <2>1, <2>2, <2>3, KeepsTable DEF Registered
<1>4. ASSUME NEW c \in Callers, Send(c) PROVE Goal
  <2>1. caller' = [caller EXCEPT ![c].pc = "sent"] /\ next_id' = next_id /\ status' = status
    BY <1>4 DEF Send
  <2>2. caller[c].pc = IF Synchronous THEN "id" ELSE "added"
    BY <1>4 DEF Send, ReadyToSend
  <2>3. caller'[c].pc = "sent"
    BY <2>1, CallerMoves DEF IInv
  <2>4. Registered(c)' = Registered(c)
    BY <2>2, <2>3 DEF Registered
  <2> QED
    BY <2>1, <2>2, <2>4, KeepsTable
<1>5. ASSUME NEW c \in Callers, SendFails(c) PROVE Goal
  <2>1. next_id' = next_id /\ status' = status
    BY <1>5 DEF SendFails
  <2>2. caller' = [caller EXCEPT ![c].pc = IF Synchronous THEN "idle" ELSE "unsent"]
    BY <1>5 DEF SendFails, Return
  <2>3. caller[c].pc = IF Synchronous THEN "id" ELSE "added"
    BY <1>5 DEF SendFails, ReadyToSend
  <2>4. caller'[c].pc = IF Synchronous THEN "idle" ELSE "unsent"
    BY <2>2 DEF IInv, TypeOK
  <2>5. Registered(c)' = Registered(c)
    BY <2>3, <2>4 DEF Registered
  <2> QED
    BY <2>1, <2>2, <2>3, <2>5, KeepsTable
<1>6. ASSUME NEW c \in Callers, Withdraw(c) PROVE Goal
  BY <1>6, RemovesEntry DEF Withdraw, Return, Registered
<1>7. ASSUME NEW c \in Callers, Await(c) PROVE Goal
  <2>1. Live' = Live /\ next_id' = next_id
    BY <1>7 DEF Await, Live
  <2>2. caller'[c].pc = "waiting" /\ caller[c].pc = "sent" /\ ~Synchronous
    BY <1>7 DEF Await, IInv, TypeOK
  <2>3. \A d \in Callers : caller'[d].id = caller[d].id /\ (d # c => caller'[d].pc = caller[d].pc)
    BY <1>7 DEF Await, IInv, TypeOK, CallRecords
  <2>4. \A d \in Callers : Registered(d)' = Registered(d)
    BY <2>2, <2>3 DEF Registered
  <2> QED
    BY <2>1, <2>2, <2>3, <2>4, KeepsEntries
<1>8. ASSUME NEW c \in Callers, AwaitNot(c) PROVE Goal
  BY <1>8, RemovesEntry DEF AwaitNot, Conclude, Return, Registered
<1>9. ASSUME NEW c \in Callers, Wake(c) PROVE Goal
  BY <1>9, RemovesEntry DEF Wake, Conclude, Return, Registered
<1>10. ASSUME NEW c \in Callers, ReceiveSync(c) \/ ReceiveSyncFails(c) PROVE Goal
  <2>1. caller' = [caller EXCEPT ![c].pc = "idle"] /\ next_id' = next_id /\ status' = status
    BY <1>10 DEF ReceiveSync, ReceiveSyncFails, Return
  <2>2. ~Registered(c) /\ caller[c].pc # "idle"
    BY <1>10 DEF ReceiveSync, ReceiveSyncFails, Registered
  <2>3. caller'[c].pc = "idle"
    BY <2>1, CallerMoves DEF IInv
  <2> QED
    BY <2>1, <2>2, <2>3, KeepsTable DEF Registered
<1>11. ASSUME NEW c \in Callers, Timeout(c) \/ SpuriousWake(c) PROVE Goal
  <2>1. caller' = [caller EXCEPT ![c].pc = "woken"] /\ next_id' = next_id /\ status' = status
    BY <1>11 DEF Timeout, SpuriousWake
  <2>2. Registered(c) /\ caller[c].pc # "idle"
    BY <1>11 DEF Timeout, SpuriousWake, Registered
  <2>3. caller'[c].pc = "woken"
    BY <2>1, CallerMoves DEF IInv
  <2> QED
    BY <2>1, <2>2, <2>3, KeepsTable DEF Registered
<1>12. ASSUME NEW id \in Ids, Answer(id) \/ Lose(id) PROVE Goal
  <2>1. caller' = caller /\ next_id' = next_id /\ status' = status
    BY <1>12 DEF Answer, Lose
  <2> QED
    BY <2>1, KeepsEntries DEF Live, Registered
<1>13. ASSUME NEW a \in answers, Deliver(a) PROVE Goal
  <2>1. next_id' = next_id /\ (caller' = Signalled({a.id}) \/ caller' = caller)
    BY <1>13 DEF Deliver
  <2>2. a.id \in Ids
    BY DEF IInv, TypeOK, Answers
  <2>3. Live' = Live
    BY <1>13, <2>2 DEF Deliver, Live, IInv, TypeOK
  <2> QED
    BY <2>1, <2>3, SignalledKeeps, KeepsEntries DEF Registered
<1>14. ASSUME TransportError PROVE Goal
  <2>1. next_id' = next_id /\ \E ids : caller' = Signalled(ids)
    BY <1>14 DEF TransportError
  <2>2. Live' = Live
    BY <1>14 DEF TransportError, Live, IInv, TypeOK
  <2> QED
    BY <2>1, <2>2, SignalledKeeps, KeepsEntries
<1> QED
  BY <1>1, <1>2, <1>3, <1>4, <1>5, <1>6, <1>7, <1>8, <1>9, <1>10, <1>11, <1>12, <1>13, <1>14
     DEF Next, CallerStep

\* Output is written for the call that an entry belongs to, and to no other.
LEMMA NextResults ==
    ASSUME IInv, Next
    PROVE  CompletedHasResult'
<1>1. ASSUME NEW c \in Callers, TakeId(c) PROVE CompletedHasResult'
  <2>1. Live' = Live /\ status' = status /\ caller'[c].id = next_id
    BY <1>1 DEF TakeId, Live, IInv, TypeOK
  <2>2. \A d \in Callers : d # c => caller'[d] = caller[d] /\ output'[d] = output[d]
    BY <1>1 DEF TakeId, IInv, TypeOK
  <2>3. next_id \notin Live
    BY DEF IInv, OwnIds, EntryHasCaller, TypeOK, CallRecords, Ids
  <2> QED
    BY <2>1, <2>2, <2>3 DEF IInv, CompletedHasResult
<1>2. ASSUME NEW c \in Callers, Register(c) PROVE CompletedHasResult'
  <2>1. \A d \in Callers : caller'[d].id = caller[d].id
    BY <1>2, CallerMoves DEF Register, IInv
  <2>2. \A id \in Ids : status'[id] = "completed" => status[id] = "completed"
    BY <1>2 DEF Register, IInv, TypeOK
  <2> QED
    BY <1>2, <2>1, <2>2, KeepsResults DEF Register
<1>3. ASSUME NEW c \in Callers,
             \/ RegisterFails(c) \/ Send(c) \/ SendFails(c)
             \/ Timeout(c) \/ SpuriousWake(c)
      PROVE  CompletedHasResult'
  <2>1. output' = output /\ status' = status
    BY <1>3 DEF RegisterFails, Send, SendFails, Timeout, SpuriousWake
  <2>2. \E pc : caller' = [caller EXCEPT ![c].pc = pc]
    BY <1>3 DEF RegisterFails, Send, SendFails, Timeout, SpuriousWake, Return
  <2>3. \A d \in Callers : caller'[d].id = caller[d].id
    BY <2>2, CallerMoves DEF IInv
  <2> QED
    BY <2>1, <2>3, KeepsResults
<1>4. ASSUME NEW c \in Callers, Withdraw(c) PROVE CompletedHasResult'
  <2>1. \A d \in Callers : caller'[d].id = caller[d].id
    BY <1>4, CallerMoves DEF Withdraw, Return, IInv
  <2>2. \A id \in Ids : status'[id] = "completed" => status[id] = "completed"
    BY <1>4 DEF Withdraw, IInv, TypeOK
  <2> QED
    BY <1>4, <2>1, <2>2, KeepsResults DEF Withdraw
<1>5. ASSUME NEW c \in Callers, Await(c) PROVE CompletedHasResult'
  <2>1. \A d \in Callers : caller'[d].id = caller[d].id
    BY <1>5 DEF Await, IInv, TypeOK, CallRecords
  <2> QED
    BY <1>5, <2>1, KeepsResults DEF Await
<1>6. ASSUME NEW c \in Callers, AwaitNot(c) \/ Wake(c) PROVE CompletedHasResult'
  <2>1. PICK seen : Conclude(c, seen)
    BY <1>6 DEF AwaitNot, Wake
  <2>2. Registered(c)
    BY <1>6 DEF AwaitNot, Wake, Registered
  <2>3. Live' = Live \ {caller[c].id}
    BY <2>1, <2>2, RemovesEntry DEF Conclude, Return
  <2>4. \A d \in Callers : caller'[d].id = caller[d].id /\ (d # c => output'[d] = output[d])
    BY <2>1 DEF Conclude, Return, IInv, TypeOK, CallRecords
  <2>5. \A id \in Ids : id # caller[c].id => status'[id] = status[id]
    BY <2>1 DEF Conclude, IInv, TypeOK
  <2> QED
    BY <2>3, <2>4, <2>5 DEF IInv, CompletedHasResult, Live
<1>7. ASSUME NEW c \in Callers, ReceiveSync(c) \/ ReceiveSyncFails(c)
      PROVE  CompletedHasResult'
  <2>1. Synchronous /\ status' = status
    BY <1>7 DEF ReceiveSync, ReceiveSyncFails
  <2>2. Live' = {}
    BY <2>1 DEF IInv, EntryHasCaller, OnlyAsynchronous, Live
  <2> QED
    BY <2>2 DEF CompletedHasResult
<1>8. ASSUME NEW id \in Ids, Answer(id) \/ Lose(id) PROVE CompletedHasResult'
  BY <1>8, KeepsResults DEF Answer, Lose
<1>9. ASSUME NEW a \in answers, Deliver(a), status[a.id] = "waiting"
      PROVE  CompletedHasResult'
  <2>1. a.id \in Ids /\ a.ok \in BOOLEAN /\ a.id \in Live
    BY <1>9 DEF IInv, TypeOK, Answers, Live
  <2>2. \A d \in Callers : caller'[d].id = caller[d].id
    BY <1>9, SignalledKeeps DEF Deliver
  <2>3. \A id \in Ids : id # a.id => status'[id] = status[id]
    BY <1>9 DEF Deliver, IInv, TypeOK
  <2>4. status'[a.id] = "completed" => a.ok
    BY <1>9, <2>1 DEF Deliver, IInv, TypeOK
  <2>5. ASSUME NEW c \in Callers, caller[c].id = a.id
        PROVE  output'[c] = OutputOf(a)
    <3>1. caller[c].pc # "idle"
      BY <2>1, <2>5, EntryIsRegistered DEF Registered
    <3> QED
      BY <1>9, <2>5, <3>1 DEF Deliver, WriteOutput, Points
  <2>6. ASSUME NEW c \in Callers, caller[c].id # a.id
        PROVE  output'[c] = output[c]
    BY <1>9, <2>6 DEF Deliver, WriteOutput, Points
  <2>7. a.ok => OutputOf(a) = [id |-> a.id, result |-> TRUE, error |-> "none"]
    BY <2>1 DEF OutputOf
  <2>8. ASSUME NEW c \in Callers, caller[c].id \in Ids, status'[caller[c].id] = "completed"
        PROVE  output'[c] = [id |-> caller[c].id, result |-> TRUE, error |-> "none"]
    <3>1. CASE caller[c].id = a.id
      BY <2>4, <2>5, <2>7, <2>8, <3>1
    <3>2. CASE caller[c].id # a.id
      BY <2>3, <2>6, <2>8, <3>2 DEF IInv, CompletedHasResult, Live
    <3> QED
      BY <3>1, <3>2
  <2> QED
    BY <2>2, <2>8 DEF CompletedHasResult, Live
<1>10. ASSUME NEW a \in answers, Deliver(a), status[a.id] # "waiting"
       PROVE  CompletedHasResult'
  BY <1>10, KeepsResults DEF Deliver
<1>11. ASSUME TransportError PROVE CompletedHasResult'
  <2> DEFINE waiting == {id \in Ids : status[id] = "waiting"}
  <2>1. \A d \in Callers : caller'[d].id = caller[d].id
    BY <1>11, SignalledKeeps DEF TransportError
  <2>2. \A id \in Ids : status'[id] = IF id \in waiting THEN "error" ELSE status[id]
    BY <1>11 DEF TransportError
  <2>3. ASSUME NEW c \in Callers, caller[c].id \notin waiting
        PROVE  output'[c] = output[c]
    BY <1>11, <2>3 DEF TransportError, Points
  <2> QED
    BY <2>1, <2>2, <2>3 DEF IInv, CompletedHasResult, Live
<1> QED
  BY <1>1, <1>2, <1>3, <1>4, <1>5, <1>6, <1>7, <1>8, <1>9, <1>10, <1>11 DEF Next, CallerStep

\* Ids, entries and results agree at every step of mcp_client_send_request and
\* of the receive and error callbacks.
THEOREM Inductive == Spec => []IInv
<1>1. IInv /\ [Next]_vars => IInv'
  <2>1. ASSUME IInv, Next PROVE IInv'
    BY <2>1, NextTypeOK, NextEntries, NextResults DEF IInv
  <2>2. ASSUME IInv, UNCHANGED vars PROVE IInv'
    BY <2>2 DEF vars, IInv, TypeOK, OwnIds, HasEntry, EntryHasCaller, OnlyAsynchronous,
                CompletedHasResult, Registered, Live
  <2> QED
    BY <2>1, <2>2
<1> QED
  BY <1>1, InitIInv, PTL DEF Spec

\* The table and the calls agree (EntriesMatchCalls): whatever the order of send
\* errors, timeouts, late responses and transport errors, an entry belongs to
\* exactly one call in progress, and a completed one to a call that has its
\* result.
THEOREM TableMatchesCalls == Spec => []EntriesMatchCalls
<1>1. ASSUME IInv PROVE EntriesMatchCalls
  <2>1. ASSUME NEW id \in Live
        PROVE  \E c \in Callers : /\ caller[c].id = id
                                  /\ caller[c].pc \notin {"idle", "id"}
                                  /\ \A d \in Callers : caller[d].id = id => d = c
    <3>1. PICK c \in Callers : caller[c].id = id /\ Registered(c)
      BY <1>1, <2>1 DEF IInv, EntryHasCaller
    <3>2. caller[c].pc \notin {"idle", "id"}
      BY <3>1 DEF Registered
    <3>3. id # 0
      BY DEF Live, Ids
    <3>4. \A d \in Callers : caller[d].id = id => d = c
      BY <1>1, <3>1, <3>3 DEF IInv, OwnIds
    <3> QED
      BY <3>1, <3>2, <3>4
  <2> QED
    BY <1>1, <2>1 DEF IInv, EntriesMatchCalls, EntriesHaveCallers
<1> QED
  BY <1>1, Inductive, PTL

\* What one step does to the set of pending requests.
LEMMA StepOfPendingSet ==
    ASSUME IInv, Next
    PROVE  Pending!Next \/ Live' = Live
<1>1. ASSUME NEW c \in Callers, Register(c) PROVE Pending!Next
  <2>1. caller[c].id \in Ids
    BY <1>1 DEF Register, IInv, OwnIds
  <2>2. Live' = Live \cup {caller[c].id}
    BY <1>1, <2>1, LiveChanges DEF Register, IInv, Statuses
  <2>3. ~Registered(c)
    BY <1>1 DEF Register, Registered
  <2>4. caller[c].id \notin Live
    BY <2>3, EntryIsRegistered
  <2> QED
    BY <2>1, <2>2, <2>4 DEF Pending!Next, Pending!Register
<1>2. ASSUME NEW c \in Callers, Withdraw(c) \/ AwaitNot(c) \/ Wake(c) PROVE Pending!Next
  <2>1. Registered(c)
    BY <1>2 DEF Withdraw, AwaitNot, Wake, Registered
  <2>2. /\ next_id' = next_id
        /\ status' = [status EXCEPT ![caller[c].id] = "invalid"]
        /\ caller' = [caller EXCEPT ![c].pc = "idle"]
    BY <1>2 DEF Withdraw, AwaitNot, Wake, Conclude, Return
  <2>3. caller[c].id \in Live /\ Live' = Live \ {caller[c].id}
    BY <2>1, <2>2, RemovesEntry
  <2> QED
    BY <2>3 DEF Live, Pending!Next, Pending!Complete
<1>3. ASSUME NEW c \in Callers,
             \/ TakeId(c) \/ RegisterFails(c) \/ Send(c) \/ SendFails(c) \/ Await(c)
             \/ ReceiveSync(c) \/ ReceiveSyncFails(c) \/ Timeout(c) \/ SpuriousWake(c)
      PROVE  Live' = Live
  BY <1>3 DEF TakeId, RegisterFails, Send, SendFails, Await, ReceiveSync, ReceiveSyncFails,
              Timeout, SpuriousWake, Live
<1>4. ASSUME NEW id \in Ids, Answer(id) \/ Lose(id) PROVE Live' = Live
  BY <1>4 DEF Answer, Lose, Live
<1>5. ASSUME NEW a \in answers, Deliver(a) PROVE Live' = Live
  <2>1. a.id \in Ids
    BY DEF IInv, TypeOK, Answers
  <2> QED
    BY <1>5, <2>1 DEF Deliver, Live, IInv, TypeOK
<1>6. ASSUME TransportError PROVE Live' = Live
  BY <1>6 DEF TransportError, Live, IInv, TypeOK
<1> QED
  BY <1>1, <1>2, <1>3, <1>4, <1>5, <1>6 DEF Next, CallerStep

\* The calls implement PendingSet (UsesPendingSet), which is what RequestTable's
\* find, add and remove are written for: mcp_client_send_request adds an id only
\* while it is not in the table, and removes only an id that is.
THEOREM ImplementsPendingSet == Spec => UsesPendingSet
<1>1. Init => Pending!Init
  BY DEF Init, Pending!Init, Live
<1>2. IInv /\ [Next]_vars => [Pending!Next]_Live
  BY StepOfPendingSet DEF vars, Live
<1> QED
  BY <1>1, <1>2, Inductive, PTL DEF Spec, UsesPendingSet, Pending!Spec

-----------------------------------------------------------------------------
(* What a call returns.  Until the table moves every pointer into it is good *)
(* (so a woken caller reads its own entry), nothing is written for a call     *)
(* before it is registered, and a call that could not be sent is known as one. *)

Result(c) == [id |-> caller[c].id, result |-> TRUE, error |-> "none"]

ReturnsRight(c) == (returned[c] = 0) = (output[c] = Result(c))

Good(c) ==
    /\ caller[c].pointer <= moves
    /\ caller[c].pc = "id" => output[c] = NoOutput
    /\ caller[c].pc = "unsent" => unsent[c]
    /\ (moves = 0 /\ caller[c].pc = "idle" /\ returned[c] # NotReturned /\ ~unsent[c])
          => ReturnsRight(c)

RInv == IInv /\ \A c \in Callers : Good(c)

\* Steps of others: they may write the output of a registered call, wake it, or
\* move the table.
LEMMA KeepsGood ==
    ASSUME IInv, NEW c \in Callers, Good(c),
           moves' \in Nat, moves <= moves',
           caller'[c].id = caller[c].id, caller'[c].pointer = caller[c].pointer,
           caller'[c].pc = caller[c].pc \/ caller'[c].pc = "woken",
           returned'[c] = returned[c], unsent'[c] = unsent[c],
           output'[c] = output[c] \/ Registered(c)
    PROVE  Good(c)'
<1>1. caller[c].pointer \in Nat /\ moves \in Nat
  BY DEF IInv, TypeOK, CallRecords
<1>2. caller'[c].pointer <= moves'
  BY <1>1 DEF Good
<1>3. (moves' = 0) => (moves = 0)
  BY <1>1
<1>4. CASE output'[c] = output[c]
  BY <1>2, <1>3, <1>4 DEF Good, ReturnsRight, Result
<1>5. CASE Registered(c)
  <2>1. caller'[c].pc \notin {"idle", "id"}
    BY <1>5 DEF Registered
  <2> QED
    BY <1>2, <2>1 DEF Good
<1> QED
  BY <1>4, <1>5

\* The end of an asynchronous call decides by the status of its own entry.
LEMMA ConcludesRight ==
    ASSUME IInv, NEW c \in Callers, Registered(c), Conclude(c, status[caller[c].id])
    PROVE  ReturnsRight(c)'
<1> DEFINE seen == status[caller[c].id]
<1>1. caller'[c].id = caller[c].id
  BY CallerMoves DEF Conclude, Return, IInv
<1>2. returned'[c] = IF seen = "completed" THEN 0 ELSE -1
  BY DEF Conclude, Return, IInv, TypeOK
<1>3. caller[c].id \in Live /\ output[c] \in OutputRecords
  BY DEF IInv, HasEntry, TypeOK
<1>4. output'[c] = [output[c] EXCEPT !.error =
                      CASE seen = "completed" -> @
                        [] seen = "timeout" -> "transport"
                        [] OTHER -> IF @ = "none" THEN "internal" ELSE @]
  BY DEF Conclude, IInv, TypeOK
<1>5. CASE seen = "completed"
  <2>1. output[c] = Result(c)
    BY <1>3, <1>5 DEF IInv, CompletedHasResult, Result
  <2>2. output'[c] = output[c]
    BY <1>3, <1>4, <1>5 DEF OutputRecords
  <2> QED
    BY <1>1, <1>2, <1>5, <2>1, <2>2 DEF ReturnsRight, Result
<1>6. CASE seen # "completed"
  <2>1. output'[c].error # "none"
    BY <1>3, <1>4, <1>6 DEF OutputRecords
  <2>2. output'[c] # Result(c)'
    BY <2>1 DEF Result
  <2> QED
    BY <1>2, <1>6, <2>2 DEF ReturnsRight
<1> QED
  BY <1>5, <1>6

\* Steps of one caller leave the others alone.
LEMMA OthersGood ==
    ASSUME RInv, NEW c \in Callers, NEW d \in Callers, d # c,
           TakeId(c) \/ CallerStep(c) \/ Timeout(c) \/ SpuriousWake(c)
    PROVE  Good(d)'
<1>1. caller'[d] = caller[d]
  BY DEF RInv, IInv, TypeOK, TakeId, CallerStep, Timeout, SpuriousWake, Register,
         RegisterFails, Send, SendFails, Withdraw, Await, AwaitNot, Wake, Conclude,
         ReceiveSync, ReceiveSyncFails, Return
<1>2. output'[d] = output[d]
  BY DEF RInv, IInv, TypeOK, TakeId, CallerStep, Timeout, SpuriousWake, Register,
         RegisterFails, Send, SendFails, Withdraw, Await, AwaitNot, Wake, Conclude,
         ReceiveSync, ReceiveSyncFails
<1>3. returned'[d] = returned[d] /\ unsent'[d] = unsent[d]
  BY DEF RInv, IInv, TypeOK, TakeId, CallerStep, Timeout, SpuriousWake, Register,
         RegisterFails, Send, SendFails, Withdraw, Await, AwaitNot, Wake, Conclude,
         ReceiveSync, ReceiveSyncFails, Return
<1>4. moves' \in Nat /\ moves <= moves'
  BY DEF RInv, IInv, TypeOK, TakeId, CallerStep, Timeout, SpuriousWake, Register,
         RegisterFails, Send, SendFails, Withdraw, Await, AwaitNot, Wake, Conclude,
         ReceiveSync, ReceiveSyncFails
<1> QED
  BY <1>1, <1>2, <1>3, <1>4, KeepsGood DEF RInv

\* The caller's own steps, one per action.
LEMMA CallerGood ==
    ASSUME RInv, NEW c \in Callers,
           TakeId(c) \/ CallerStep(c) \/ Timeout(c) \/ SpuriousWake(c)
    PROVE  Good(c)'
<1> USE DEF RInv
<1>a. caller[c].pointer \in Nat /\ moves \in Nat /\ caller[c].pointer <= moves
  BY DEF IInv, TypeOK, CallRecords, Good
<1>1. CASE TakeId(c)
  <2>1. caller'[c].pc = "id" /\ caller'[c].pointer = 0 /\ moves' = moves
    BY <1>1 DEF TakeId, IInv, TypeOK
  <2>2. output'[c] = NoOutput
    BY <1>1 DEF TakeId, IInv, TypeOK
  <2> QED
    BY <1>a, <2>1, <2>2 DEF Good
<1>2. CASE Register(c)
  <2>1. caller'[c].pc = "added" /\ caller'[c].pointer = caller[c].pointer
    BY <1>2, CallerMoves DEF Register, IInv
  <2>2. caller[c].pointer <= moves'
    BY <1>2, <1>a DEF Register
  <2> QED
    BY <2>1, <2>2 DEF Good
<1>3. CASE RegisterFails(c)
  <2>1. caller'[c].pointer = caller[c].pointer /\ caller'[c].pc = "idle"
    BY <1>3, CallerMoves DEF RegisterFails, Return, IInv
  <2>2. returned'[c] = -1
    BY <1>3 DEF RegisterFails, Return, IInv, TypeOK
  <2>3. moves' = moves /\ output'[c].result = FALSE
    BY <1>3 DEF RegisterFails, Good, NoOutput
  <2>4. ReturnsRight(c)'
    BY <2>2, <2>3 DEF ReturnsRight, Result
  <2> QED
    BY <1>a, <2>1, <2>3, <2>4 DEF Good
<1>4. CASE Send(c)
  <2>1. caller'[c].pointer = caller[c].pointer /\ caller'[c].pc = "sent"
    BY <1>4, CallerMoves DEF Send, IInv
  <2>2. moves' = moves
    BY <1>4 DEF Send
  <2> QED
    BY <1>a, <2>1, <2>2 DEF Good
<1>5. CASE SendFails(c)
  <2>1. /\ moves' = moves
        /\ caller' = [caller EXCEPT ![c].pc = IF Synchronous THEN "idle" ELSE "unsent"]
    BY <1>5 DEF SendFails, Return
  <2>2. caller'[c].pointer = caller[c].pointer /\ caller'[c].pc \in {"idle", "unsent"}
    BY <2>1 DEF IInv, TypeOK, CallRecords
  <2>3. unsent'[c]
    BY <1>5 DEF SendFails, IInv, TypeOK
  <2> QED
    BY <1>a, <2>1, <2>2, <2>3 DEF Good
<1>6. CASE Withdraw(c)
  <2>1. caller'[c].pointer = caller[c].pointer /\ caller'[c].pc = "idle"
    BY <1>6, CallerMoves DEF Withdraw, Return, IInv
  <2>2. moves' = moves /\ unsent'[c]
    BY <1>6 DEF Withdraw, Good
  <2> QED
    BY <1>a, <2>1, <2>2 DEF Good
<1>7. CASE Await(c)
  <2>1. caller'[c].pointer = moves /\ caller'[c].pc = "waiting" /\ moves' = moves
    BY <1>7 DEF Await, IInv, TypeOK, CallRecords
  <2> QED
    BY <1>a, <2>1 DEF Good
<1>8. CASE AwaitNot(c) \/ Wake(c)
  <2>1. PICK seen : Conclude(c, seen) /\ (moves = 0 => seen = status[caller[c].id])
    BY <1>8, <1>a DEF AwaitNot, Wake, Reads
  <2>2. Registered(c)
    BY <1>8 DEF AwaitNot, Wake, Registered
  <2>3. caller'[c].pointer = caller[c].pointer /\ caller'[c].pc = "idle"
    BY <2>1, CallerMoves DEF Conclude, Return, IInv
  <2>4. moves' = moves
    BY <2>1 DEF Conclude
  <2>5. moves = 0 => ReturnsRight(c)'
    BY <2>1, <2>2, ConcludesRight
  <2> QED
    BY <1>a, <2>3, <2>4, <2>5 DEF Good
<1>9. CASE ReceiveSync(c)
  <2>1. PICK a \in answers :
           /\ output' = [output EXCEPT ![c] = IF a.id = caller[c].id
                                              THEN OutputOf(a)
                                              ELSE [@ EXCEPT !.error = "internal"]]
           /\ Return(c, IF a.id = caller[c].id /\ a.ok THEN 0 ELSE -1)
    BY <1>9 DEF ReceiveSync
  <2>2. moves' = moves /\ a.ok \in BOOLEAN /\ output[c] \in OutputRecords
    BY <1>9 DEF ReceiveSync, IInv, TypeOK, Answers
  <2>3. /\ caller'[c].pointer = caller[c].pointer /\ caller'[c].pc = "idle"
        /\ caller'[c].id = caller[c].id
    BY <2>1, CallerMoves DEF Return, IInv
  <2>4. returned'[c] = IF a.id = caller[c].id /\ a.ok THEN 0 ELSE -1
    BY <2>1 DEF Return, IInv, TypeOK
  <2>5. output'[c] = IF a.id = caller[c].id THEN OutputOf(a)
                     ELSE [output[c] EXCEPT !.error = "internal"]
    BY <2>1 DEF IInv, TypeOK
  <2>6. ReturnsRight(c)'
    <3>1. CASE a.id = caller[c].id /\ a.ok
      BY <2>2, <2>3, <2>4, <2>5, <3>1 DEF ReturnsRight, Result, OutputOf
    <3>2. CASE ~(a.id = caller[c].id /\ a.ok)
      <4>1. output'[c].error # "none"
        BY <2>2, <2>5, <3>2 DEF OutputOf, OutputRecords
      <4> QED
        BY <2>4, <3>2, <4>1 DEF ReturnsRight, Result
    <3> QED
      BY <3>1, <3>2
  <2> QED
    BY <1>a, <2>2, <2>3, <2>6 DEF Good
<1>10. CASE ReceiveSyncFails(c)
  <2>1. caller'[c].pointer = caller[c].pointer /\ caller'[c].pc = "idle"
    BY <1>10, CallerMoves DEF ReceiveSyncFails, Return, IInv
  <2>2. returned'[c] = -1 /\ moves' = moves
    BY <1>10 DEF ReceiveSyncFails, Return, IInv, TypeOK
  <2>3. output'[c].error = "transport"
    BY <1>10 DEF ReceiveSyncFails, IInv, TypeOK, OutputRecords
  <2>4. ReturnsRight(c)'
    BY <2>2, <2>3 DEF ReturnsRight, Result
  <2> QED
    BY <1>a, <2>1, <2>2, <2>4 DEF Good
<1>11. CASE Timeout(c) \/ SpuriousWake(c)
  <2>1. caller' = [caller EXCEPT ![c].pc = "woken"] /\ moves' = moves
    BY <1>11 DEF Timeout, SpuriousWake
  <2>2. caller'[c].pointer = caller[c].pointer /\ caller'[c].pc = "woken"
    BY <2>1, CallerMoves DEF IInv
  <2> QED
    BY <1>a, <2>1, <2>2 DEF Good
<1> QED
  BY <1>1, <1>2, <1>3, <1>4, <1>5, <1>6, <1>7, <1>8, <1>9, <1>10, <1>11 DEF CallerStep

\* Steps of the server, the connection and the receive thread.
LEMMA DeliveriesGood ==
    ASSUME RInv, NEW c \in Callers,
           \/ \E id \in Ids : Answer(id) \/ Lose(id)
           \/ \E a \in answers : Deliver(a)
           \/ TransportError
    PROVE  Good(c)'
<1> USE DEF RInv
<1>1. moves' = moves /\ moves \in Nat
  BY DEF Answer, Lose, Deliver, TransportError, IInv, TypeOK
<1>2. returned'[c] = returned[c] /\ unsent'[c] = unsent[c]
  BY DEF Answer, Lose, Deliver, TransportError
<1>3. caller' = caller \/ \E ids : caller' = Signalled(ids)
  BY DEF Answer, Lose, Deliver, TransportError
<1>4. /\ caller'[c].id = caller[c].id /\ caller'[c].pointer = caller[c].pointer
      /\ caller'[c].pc = caller[c].pc \/ caller'[c].pc = "woken"
  BY <1>3, SignalledKeeps
<1>5. output'[c] = output[c] \/ caller[c].id \in Live
  <2>1. CASE \E id \in Ids : Answer(id) \/ Lose(id)
    BY <2>1 DEF Answer, Lose
  <2>2. ASSUME NEW a \in answers, Deliver(a)
        PROVE  output'[c] = output[c] \/ caller[c].id \in Live
    <3>1. a.id \in Ids
      BY DEF IInv, TypeOK, Answers
    <3> QED
      BY <2>2, <3>1 DEF Deliver, WriteOutput, Points, Live
  <2>3. CASE TransportError
    BY <2>3 DEF TransportError, Points, Live
  <2> QED
    BY <2>1, <2>2, <2>3
<1> QED
  BY <1>1, <1>2, <1>4, <1>5, EntryIsRegistered, KeepsGood

\* As long as the table of pending requests has not moved, the value that
\* mcp_client_send_request returns tells whether the call holds the result of
\* its own request (ReturnMatchesUnmoved).
THEOREM ReturnsTellResults == Spec => []ReturnMatchesUnmoved
<1>1. Init => \A c \in Callers : Good(c)
  BY DEF Init, Good, Idle, NotReturned
<1>2. ASSUME RInv, [Next]_vars PROVE \A c \in Callers : Good(c)'
  <2>1. ASSUME Next, NEW c \in Callers PROVE Good(c)'
    BY <1>2, <2>1, OthersGood, CallerGood, DeliveriesGood DEF Next
  <2>2. ASSUME UNCHANGED vars, NEW c \in Callers PROVE Good(c)'
    BY <1>2, <2>2 DEF vars, RInv, Good, ReturnsRight, Result
  <2> QED
    BY <1>2, <2>1, <2>2
<1>3. ASSUME RInv PROVE ReturnMatchesUnmoved
  BY <1>3 DEF RInv, Good, ReturnMatchesUnmoved, ReturnMatchesOutput, ReturnsRight, Result
<1>4. RInv /\ [Next]_vars /\ IInv' => RInv'
  BY <1>2 DEF RInv
<1>5. Init /\ IInv => RInv
  BY <1>1 DEF RInv
<1> QED
  BY <1>3, <1>4, <1>5, Inductive, PTL DEF Spec
=============================================================================
