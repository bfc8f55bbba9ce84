-------------------------- MODULE WebSocketExchange --------------------------
(* Requests and responses of the WebSocket client transport: callers of sendv, *)
(* each followed by a receive as in mcp_client_request.c, the messages the     *)
(* event thread gets, and a stop.                                              *)
(* Sources: src/transport/mcp_websocket_client_{message,transport}.c.          *)
(*                                                                             *)
(* There is one place for a response, and one small buffer to send from, for   *)
(* all callers.  A critical section of response_mutex is one action.  The id   *)
(* of a message is the request it answers, 0 if none; messages that arrive are *)
(* numbered, and the number stands for the copy that is allocated.             *)
EXTENDS Integers, FiniteSets, TLAPS

CONSTANTS Callers,
          MaxRequests,   \* bound: requests made
          MaxNotices     \* bound: messages of the server that answer nothing

VARIABLES running,
          sync,          \* sync_response_mode
          ready,         \* response_ready
          slot,          \* response_data
          current,       \* current_request_id
          timedout,      \* request_timedout
          buffer,        \* reusable_send_buffer: the request in it
          owner,
          caller,        \* each caller: where it is, its request, the response it
                         \* has, how many messages had arrived at its setup, and
                         \* its request again if no message was on its way then
          next_id,
          wire,          \* how many messages of each id are on their way
          arrived,       \* number of messages that have arrived
          released,      \* history: responses freed or given to the client
          got            \* history: response last given, the caller's mark and sole

response == <<sync, ready, slot, current, timedout>>
vars == <<running, response, buffer, owner, caller, next_id, wire, arrived, released, got>>

Ids == 1 .. MaxRequests
NoId == 0                     \* -1 in the code
None == [n |-> 0, id |-> 0]
MaxMessages == MaxRequests + MaxNotices
Messages == [n : 1 .. MaxMessages, id : {NoId} \cup Ids]
Idle == [pc |-> "idle", id |-> NoId, has |-> None, mark |-> 0, sole |-> NoId]
Nothing == [n |-> 1, id |-> NoId, mark |-> 0, sole |-> NoId]

Init ==
    /\ running = TRUE
    /\ sync = FALSE /\ ready = FALSE /\ slot = None
    /\ current = NoId /\ timedout = FALSE
    /\ buffer = NoId
    /\ owner = "up"
    /\ caller = [c \in Callers |-> Idle]
    /\ next_id = 1
    /\ wire = [id \in {NoId} \cup Ids |-> IF id = NoId THEN MaxNotices ELSE 0]
    /\ arrived = 0
    /\ released = {}
    /\ got = Nothing

\* The mutexes exist.
At(c, pc) == owner # "cleaned" /\ caller[c].pc = pc
To(c, pc) == caller' = [caller EXCEPT ![c].pc = pc]

\* What is freed or handed over counts as released.
Numbers(m) == {m.n} \ {0}

Idles(c) == caller' = [caller EXCEPT ![c] = Idle]

-----------------------------------------------------------------------------
(* ws_client_send_and_wait_response, called by sendv *)

\* The caller of a new request.
Begun ==
    [pc |-> "copy", id |-> next_id, has |-> None, mark |-> arrived,
     sole |-> IF \A id \in DOMAIN wire : wire[id] = 0 THEN next_id ELSE NoId]

\* Mutant: what is there from an earlier request stays.
SetupKeeping(c) ==
    /\ At(c, "idle") /\ running /\ next_id <= MaxRequests
    /\ sync' = TRUE
    /\ timedout' = FALSE
    /\ current' = next_id
    /\ caller' = [caller EXCEPT ![c] = Begun]
    /\ next_id' = next_id + 1
    /\ UNCHANGED <<running, ready, slot, released, buffer, owner, wire, arrived, got>>

Setup(c) ==
    /\ At(c, "idle") /\ running /\ next_id <= MaxRequests
    /\ sync' = TRUE
    /\ ready' = FALSE
    /\ timedout' = FALSE
    /\ released' = released \cup Numbers(slot)
    /\ slot' = None
    /\ current' = next_id
    /\ caller' = [caller EXCEPT ![c] = Begun]
    /\ next_id' = next_id + 1
    /\ UNCHANGED <<running, buffer, owner, wire, arrived, got>>

\* ws_client_send_buffer: a small message is copied to the buffer all callers
\* use, and sent from there after the mutex is released.
Copy(c) ==
    /\ At(c, "copy")
    /\ buffer' = caller[c].id
    /\ To(c, "write")
    /\ UNCHANGED <<running, response, owner, next_id, wire, arrived, released, got>>

Write(c) ==
    /\ At(c, "write")
    /\ wire' = [wire EXCEPT ![buffer] = @ + 1]
    /\ To(c, "wait")
    /\ UNCHANGED <<running, response, buffer, owner, next_id, arrived, released, got>>

SendFails(c) ==
    /\ At(c, "copy") \/ At(c, "write")
    /\ sync' = FALSE
    /\ current' = NoId
    /\ timedout' = FALSE
    /\ Idles(c)
    /\ UNCHANGED <<running, ready, slot, buffer, owner, next_id, wire, arrived, released,
                   got>>

\* The wait ends with something ready.  The caller takes what is there and
\* leaves the synchronous mode.
Take(c) ==
    /\ At(c, "wait") /\ ready
    /\ caller' = [caller EXCEPT ![c] = IF slot = None THEN Idle
                                       ELSE [@ EXCEPT !.pc = "store", !.has = slot]]
    /\ slot' = None
    /\ sync' = FALSE /\ ready' = FALSE
    /\ current' = NoId /\ timedout' = FALSE
    /\ UNCHANGED <<running, buffer, owner, next_id, wire, arrived, released, got>>

\* The time is up, or the client was stopped: the synchronous mode is kept for
\* a late response unless the client was stopped.
GiveUp(c) ==
    /\ At(c, "wait") /\ ~ready
    /\ Idles(c)
    /\ IF running
       THEN timedout' = TRUE /\ UNCHANGED <<sync, current>>
       ELSE sync' = FALSE /\ current' = NoId /\ timedout' = FALSE
    /\ UNCHANGED <<running, ready, slot, buffer, owner, next_id, wire, arrived, released,
                   got>>

\* sendv puts the response back for the receive that follows.
Store(c) ==
    /\ At(c, "store")
    /\ released' = released \cup Numbers(slot)
    /\ slot' = caller[c].has
    /\ ready' = TRUE
    /\ caller' = [caller EXCEPT ![c].pc = "receive", ![c].has = None]
    /\ UNCHANGED <<running, sync, current, timedout, buffer, owner, next_id, wire,
                   arrived, got>>

-----------------------------------------------------------------------------
(* ws_client_transport_receive *)

\* Mutant: the place keeps the response it has handed over.
HandOverKeeping(c) ==
    /\ got' = [n |-> slot.n, id |-> slot.id, mark |-> caller[c].mark,
               sole |-> caller[c].sole]
    /\ released' = released \cup {slot.n}
    /\ Idles(c)
    /\ UNCHANGED slot

\* What the receive returns belongs to the client.
HandOver(c) ==
    /\ got' = [n |-> slot.n, id |-> slot.id, mark |-> caller[c].mark,
               sole |-> caller[c].sole]
    /\ released' = released \cup {slot.n}
    /\ slot' = None
    /\ Idles(c)

Receive(c) ==
    /\ At(c, "receive")
    /\ IF ~running
       THEN Idles(c) /\ UNCHANGED <<sync, ready, slot, released, got>>
       ELSE IF ready /\ slot # None
       THEN HandOver(c) /\ ready' = FALSE /\ UNCHANGED sync
       ELSE /\ sync' = TRUE
            /\ ready' = FALSE
            /\ released' = released \cup Numbers(slot)
            /\ slot' = None
            /\ To(c, "await")
            /\ UNCHANGED got
    /\ UNCHANGED <<running, current, timedout, buffer, owner, next_id, wire, arrived>>

\* The wait ends, with a response or without.
Received(c) ==
    /\ At(c, "await")
    /\ IF ready /\ slot # None
       THEN HandOver(c)
       ELSE Idles(c) /\ UNCHANGED <<slot, released, got>>
    /\ sync' = FALSE /\ ready' = FALSE
    /\ UNCHANGED <<running, current, timedout, buffer, owner, next_id, wire, arrived>>

-----------------------------------------------------------------------------
(* The event thread *)

\* ws_client_process_complete_message.  Outside the synchronous mode the
\* message goes to the callback; without memory it is dropped.
Message(id) ==
    /\ owner \in {"up", "stopping"} /\ wire[id] > 0
    /\ wire' = [wire EXCEPT ![id] = @ - 1]
    /\ arrived' = arrived + 1
    /\ \/ ~sync /\ UNCHANGED <<response, released>>
       \/ /\ sync /\ timedout /\ id # NoId /\ id = current
          /\ sync' = FALSE /\ ready' = FALSE
          /\ current' = NoId /\ timedout' = FALSE
          /\ UNCHANGED <<slot, released>>
       \/ /\ sync /\ ~(timedout /\ id # NoId /\ id = current)
          /\ released' = released \cup Numbers(slot)
          /\ \/ slot' = [n |-> arrived + 1, id |-> id] /\ ready' = TRUE
             \/ slot' = None /\ UNCHANGED ready
          /\ UNCHANGED <<sync, current, timedout>>
    /\ UNCHANGED <<running, buffer, owner, caller, next_id, got>>

\* LWS_CALLBACK_CLIENT_CLOSED: what was sent is not answered any more.
Closed ==
    /\ owner \in {"up", "stopping"}
    /\ timedout' = (timedout \/ sync)
    /\ wire' = [id \in DOMAIN wire |-> IF id = NoId THEN wire[id] ELSE 0]
    /\ UNCHANGED <<running, sync, ready, slot, current, buffer, owner, caller, next_id,
                   arrived, released, got>>

-----------------------------------------------------------------------------
(* ws_client_transport_stop *)

Stop ==
    /\ owner = "up"
    /\ ready' = TRUE
    /\ owner' = "stopping"
    /\ UNCHANGED <<running, sync, slot, current, timedout, buffer, caller, next_id, wire,
                   arrived, released, got>>

StopRunning ==
    /\ owner = "stopping"
    /\ running' = FALSE
    /\ owner' = "joining"
    /\ UNCHANGED <<response, buffer, caller, next_id, wire, arrived, released, got>>

\* ws_client_cleanup_resources: first the waiting callers are woken, then the
\* response is freed, without the mutex, and at last the mutexes are.
Wake ==
    /\ owner = "joining"
    /\ ready' = TRUE
    /\ sync' = FALSE
    /\ owner' = "freeing"
    /\ UNCHANGED <<running, slot, current, timedout, buffer, caller, next_id, wire,
                   arrived, released, got>>

FreeResponse ==
    /\ owner = "freeing"
    /\ released' = released \cup Numbers(slot)
    /\ owner' = IF slot = None THEN "waiting" ELSE "freed"
    /\ UNCHANGED <<running, response, buffer, caller, next_id, wire, arrived, got>>

ForgetResponse ==
    /\ owner = "freed"
    /\ slot' = None
    /\ owner' = "waiting"
    /\ UNCHANGED <<running, sync, ready, current, timedout, buffer, caller, next_id, wire,
                   arrived, released, got>>

Cleaned ==
    /\ owner = "waiting"
    /\ owner' = "cleaned"
    /\ UNCHANGED <<running, response, buffer, caller, next_id, wire, arrived, released,
                   got>>

-----------------------------------------------------------------------------
Next ==
    \/ \E c \in Callers : \/ Setup(c) \/ Copy(c) \/ Write(c) \/ SendFails(c)
                          \/ Take(c) \/ GiveUp(c) \/ Store(c)
                          \/ Receive(c) \/ Received(c)
    \/ \E id \in DOMAIN wire : Message(id)
    \/ Closed
    \/ Stop \/ StopRunning \/ Wake
    \/ FreeResponse \/ ForgetResponse \/ Cleaned

Spec == Init /\ [][Next]_vars

-----------------------------------------------------------------------------
TypeOK ==
    /\ {running, sync, ready, timedout} \subseteq BOOLEAN
    /\ slot \in Messages \cup {None}
    /\ {current, buffer} \subseteq {NoId} \cup Ids
    /\ owner \in {"up", "stopping", "joining", "freeing", "freed", "waiting",
                  "cleaned"}
    /\ caller \in [Callers -> [pc : {"idle", "copy", "write", "wait", "store", "receive",
                                     "await"},
                               id : {NoId} \cup Ids, has : Messages \cup {None},
                               mark : 0 .. MaxMessages, sole : {NoId} \cup Ids]]
    /\ next_id \in 1 .. MaxRequests + 1
    /\ wire \in [{NoId} \cup Ids -> 0 .. MaxMessages]
    /\ arrived \in 0 .. MaxMessages
    /\ released \subseteq 1 .. MaxMessages
    /\ got \in [n : 1 .. MaxMessages, id : {NoId} \cup Ids, mark : 0 .. MaxMessages,
                sole : {NoId} \cup Ids]

\* A response that was allocated is in one place: the transport's, or with one
\* caller between its send and its receive, and neither once it was freed or
\* given to the client; so it is not freed twice.  With any number of callers,
\* timeouts and closed connections, until a stop frees the response without
\* the mutex.
ResponseOwnedOnce == owner \in {"up", "stopping", "joining", "freeing"} =>
    /\ slot.n \notin released
    /\ \A c \in Callers : caller[c].has # None =>
          /\ caller[c].has.n \notin released
          /\ caller[c].has # slot
          /\ \A d \in Callers \ {c} : caller[d].has # caller[c].has

\* The response a receive returns arrived after the request was begun: what came
\* for a request that timed out before the next one is begun is not given to that
\* one.  (What comes after it is: the id of a response is compared only while the
\* request that timed out is the last one.  With two callers both can happen.)
FreshResponse == got.n > got.mark

\* The response answers the request if no other message was on its way, neither a
\* late response nor a notice, when the request was begun.
OwnResponse == got.sole # NoId => got.id = got.sole

\* The responses have one owner each; a lone caller gets fresh ones, and its own
\* if nothing else was on its way.
OneCaller == \A c, d \in Callers : c = d
ResponsesOwned == ResponseOwnedOnce /\ (OneCaller => FreshResponse /\ OwnResponse)

\* Every caller's request is what is written for it.
WrittenAsGiven == \A c \in Callers : caller[c].pc = "write" => buffer = caller[c].id

-----------------------------------------------------------------------------
(* Proofs: ResponsesOwned holds for any number of callers and messages.        *)
(* Where the copies are is compared by the numbers they got on arrival; the     *)
(* next one is larger than all of them (Bounded), which makes it new.          *)

\* What is assumed of the constants.
Sizes == MaxRequests \in Nat

\* A copy of a message, and a caller.
Copies == [n : Nat, id : {NoId} \cup Ids]
Places == [pc : {"idle", "copy", "write", "wait", "store", "receive", "await"},
           id : {NoId} \cup Ids, has : Copies, mark : Nat, sole : {NoId} \cup Ids]

\* Before a stop frees the response.
Early == {"up", "stopping", "joining", "freeing"}

\* The types, with numbers that are not bounded.
Typed ==
    /\ slot \in Copies
    /\ caller \in [Callers -> Places]
    /\ next_id \in Nat \ {0}
    /\ DOMAIN wire = {NoId} \cup Ids
    /\ arrived \in Nat

\* The copies are numbered in the order they arrive; only None is number 0.
Bounded ==
    /\ released \subseteq 1 .. arrived
    /\ slot.n =< arrived
    /\ slot.n = 0 => slot = None
    /\ \A c \in Callers : /\ caller[c].mark =< arrived
                          /\ caller[c].has.n =< arrived
                          /\ caller[c].has.n = 0 => caller[c].has = None

\* No copy is in two places, nor in one after it was released.
Apart ==
    owner \in Early =>
        /\ slot.n \notin released
        /\ \A c \in Callers : /\ caller[c].has.n \notin released
                              /\ caller[c].has.n # 0 => caller[c].has.n # slot.n
        /\ \A c, d \in Callers : c # d /\ caller[c].has.n # 0 => caller[c].has.n # caller[d].has.n

\* The copy m arrived after the first k messages.
Newer(m, k) == m.n = 0 \/ m.n > k

\* A lone caller finds only what arrived since its request was begun.
Fresh ==
    OneCaller =>
        /\ got.n > got.mark
        /\ \A c \in Callers : Newer(slot, caller[c].mark) /\ Newer(caller[c].has, caller[c].mark)

\* A caller whose request was begun when nothing was on its way finds nothing else
\* than its response: no other message is on its way, and the buffer is its own.
Sole(q) ==
    q.sole # NoId =>
        /\ q.id = q.sole
        /\ slot = None \/ slot.id = q.sole
        /\ q.has = None \/ q.has.id = q.sole
        /\ q.pc = "write" => buffer = q.sole
        /\ \A k \in DOMAIN wire : k # q.sole => wire[k] = 0

Alone == OneCaller => OwnResponse /\ \A c \in Callers : Sole(caller[c])

\* The inductive invariant, but for Alone.
IInv == Typed /\ Bounded /\ Apart /\ Fresh

-----------------------------------------------------------------------------
\* No response has number 0.
LEMMA NoneTyped == None \in Copies /\ None.n = 0
  BY DEF None, Copies, NoId

\* A caller between its calls has no response.
LEMMA IdleTyped == Idle \in Places /\ Idle.has = None /\ Idle.mark = 0
  BY NoneTyped DEF Idle, Places, NoId

\* The numbers a caller has.
LEMMA CallerTyped ==
    ASSUME Typed, NEW c \in Callers
    PROVE  /\ caller[c] \in Places
           /\ caller[c].has \in Copies /\ caller[c].has.n \in Nat
           /\ caller[c].mark \in Nat
           /\ slot.n \in Nat
  BY DEF Typed, Places, Copies

\* A step of one caller leaves the others where they are.
LEMMA CallerSet ==
    ASSUME Typed, NEW c \in Callers, NEW q \in Places, caller' = [caller EXCEPT ![c] = q]
    PROVE  /\ caller' \in [Callers -> Places]
           /\ caller'[c] = q
           /\ \A d \in Callers \ {c} : caller'[d] = caller[d]
  BY DEF Typed

\* A caller moves on, with what it has or without: the copies stay where they are.
LEMMA MovesOn ==
    ASSUME Typed, Bounded, Apart, Fresh,
           NEW c \in Callers, NEW q \in Places,
           caller' = [caller EXCEPT ![c] = q],
           \/ q.has = caller[c].has /\ q.mark = caller[c].mark
           \/ q.has = None /\ q.mark = 0,
           DOMAIN wire' = DOMAIN wire,
           UNCHANGED <<slot, next_id, arrived, released, got, owner>>
    PROVE  IInv'
  <1>1. /\ caller' \in [Callers -> Places]
        /\ caller'[c] = q
        /\ \A d \in Callers \ {c} : caller'[d] = caller[d]
    BY CallerSet
  <1>2. Typed'
    BY <1>1 DEF Typed
  <1>3. \A d \in Callers : \/ caller'[d].has = caller[d].has /\ caller'[d].mark = caller[d].mark
                           \/ caller'[d].has = None /\ caller'[d].mark = 0
    BY <1>1
  <1>4. Bounded'
    BY <1>3, NoneTyped DEF Bounded, Typed
  <1>5. Apart'
    <2>1. SUFFICES ASSUME owner \in Early
                   PROVE  Apart'
      BY DEF Apart
    <2>2. 0 \notin released
      BY DEF Bounded, Typed
    <2>3. \A d \in Callers : caller'[d].has.n = caller[d].has.n \/ caller'[d].has.n = 0
      BY <1>3, NoneTyped
    <2>4. QED
      BY <2>1, <2>2, <2>3 DEF Apart
  <1>6. Fresh'
    <2>1. \A d \in Callers : Newer(slot, caller[d].mark) => Newer(slot', caller'[d].mark)
      BY <1>3, CallerTyped DEF Newer
    <2>2. \A d \in Callers : Newer(caller[d].has, caller[d].mark) => Newer(caller'[d].has, caller'[d].mark)
      BY <1>3, NoneTyped DEF Newer
    <2>3. QED
      BY <2>1, <2>2 DEF Fresh
  <1>7. QED
    BY <1>2, <1>4, <1>5, <1>6 DEF IInv

\* The place is emptied: what was there is freed or given to the client.
LEMMA Empties ==
    ASSUME Typed, Bounded, Apart, Fresh,
           NEW c \in Callers, NEW q \in Places,
           caller' = [caller EXCEPT ![c] = q],
           \/ q.has = caller[c].has /\ q.mark = caller[c].mark
           \/ q.has = None /\ q.mark =< arrived,
           slot' = None, released' = released \cup Numbers(slot),
           \/ got' = got
           \/ slot.n # 0 /\ got'.n = slot.n /\ got'.mark = caller[c].mark,
           next_id' \in Nat \ {0},
           UNCHANGED <<wire, arrived, owner>>
    PROVE  IInv'
  <1>1. /\ caller' \in [Callers -> Places]
        /\ caller'[c] = q
        /\ \A d \in Callers \ {c} : caller'[d] = caller[d]
    BY CallerSet
  <1>2. Typed'
    BY <1>1, NoneTyped DEF Typed
  <1>3. \A d \in Callers : \/ caller'[d].has = caller[d].has /\ caller'[d].mark = caller[d].mark
                           \/ caller'[d].has = None /\ caller'[d].mark =< arrived
    BY <1>1
  <1>4. released' = released \cup ({slot.n} \ {0}) /\ slot.n \in Nat /\ slot'.n = 0
    BY NoneTyped DEF Numbers, Typed, Copies
  <1>5. released' \subseteq 1 .. arrived
    <2>1. slot.n # 0 => slot.n \in 1 .. arrived
      BY <1>4 DEF Bounded, Typed
    <2>2. QED
      BY <1>4, <2>1 DEF Bounded
  <1>6. Bounded'
    BY <1>3, <1>5, NoneTyped DEF Bounded, Typed
  <1>7. Apart'
    <2>1. SUFFICES ASSUME owner \in Early
                   PROVE  Apart'
      BY DEF Apart
    <2>2. 0 \notin released'
      BY <1>5 DEF Typed
    <2>3. \A d \in Callers : caller'[d].has.n = caller[d].has.n \/ caller'[d].has.n = 0
      BY <1>3, NoneTyped
    <2>4. \A d \in Callers : caller'[d].has.n \notin released'
      BY <1>4, <2>1, <2>2, <2>3 DEF Apart
    <2>5. QED
      BY <1>4, <2>1, <2>2, <2>3, <2>4 DEF Apart
  <1>8. Fresh'
    <2>1. \A d \in Callers : Newer(slot', caller'[d].mark)
      BY <1>4 DEF Newer
    <2>2. \A d \in Callers : Newer(caller[d].has, caller[d].mark) => Newer(caller'[d].has, caller'[d].mark)
      BY <1>3, NoneTyped DEF Newer
    <2>3. OneCaller => got'.n > got'.mark
      BY DEF Fresh, Newer
    <2>4. QED
      BY <2>1, <2>2, <2>3 DEF Fresh
  <1>9. QED
    BY <1>2, <1>6, <1>7, <1>8 DEF IInv

\* ws_client_send_and_wait_response returns what is there, and the place is empty.
LEMMA TakeKept ==
    ASSUME IInv, NEW c \in Callers, Take(c)
    PROVE  IInv'
  <1>1. CASE slot = None
    <2>1. /\ caller' = [caller EXCEPT ![c] = Idle]
          /\ UNCHANGED <<slot, next_id, wire, arrived, released, got, owner>>
      BY <1>1 DEF Take
    <2>2. QED
      BY <2>1, IdleTyped, MovesOn DEF IInv
  <1>2. CASE slot # None
    <2> DEFINE e == [caller[c] EXCEPT !.pc = "store", !.has = slot]
    <2>1. e \in Places /\ e.has = slot /\ e.mark = caller[c].mark
      BY CallerTyped DEF IInv, Typed, Places
    <2>2. caller' = [caller EXCEPT ![c] = e]
      BY <1>2 DEF Take
    <2> HIDE DEF e
    <2>3. /\ slot' = None
          /\ UNCHANGED <<next_id, wire, arrived, released, got, owner>>
      BY DEF Take
    <2>4. /\ caller' \in [Callers -> Places]
          /\ caller'[c].has = slot /\ caller'[c].mark = caller[c].mark
          /\ \A d \in Callers \ {c} : caller'[d] = caller[d]
      BY <2>1, <2>2, CallerSet DEF IInv
    <2>5. Typed'
      BY <2>3, <2>4, NoneTyped DEF IInv, Typed
    <2>6. \A d \in Callers : /\ caller'[d].mark = caller[d].mark
                             /\ caller'[d].has = IF d = c THEN slot ELSE caller[d].has
      BY <2>4
    <2>7. slot'.n = 0 /\ slot.n \in Nat
      BY <2>3, NoneTyped DEF IInv, Typed, Copies
    <2>8. Bounded'
      BY <2>3, <2>6, <2>7 DEF IInv, Bounded, Typed
    <2>9. Apart'
      <3>1. SUFFICES ASSUME owner \in Early
                     PROVE  Apart'
        BY <2>3 DEF Apart
      <3>2. 0 \notin released'
        BY <2>3 DEF IInv, Bounded, Typed
      <3>3. \A d \in Callers : caller'[d].has.n = IF d = c THEN slot.n ELSE caller[d].has.n
        BY <2>6
      <3>4. \A d \in Callers : caller[d].has.n # 0 => caller[d].has.n # slot.n
        BY <3>1 DEF IInv, Apart
      <3>5. \A d, f \in Callers : d # f /\ caller'[d].has.n # 0 => caller'[d].has.n # caller'[f].has.n
        BY <3>1, <3>3, <3>4 DEF IInv, Apart
      <3>6. \A d \in Callers : caller'[d].has.n \notin released'
        BY <2>3, <3>1, <3>3 DEF IInv, Apart
      <3>7. QED
        BY <2>7, <3>2, <3>5, <3>6 DEF Apart
    <2>10. Fresh'
      <3>1. \A d \in Callers : Newer(slot', caller'[d].mark)
        BY <2>7 DEF Newer
      <3>2. \A d \in Callers : Newer(slot, caller[d].mark) /\ Newer(caller[d].has, caller[d].mark)
                              => Newer(caller'[d].has, caller'[d].mark)
        BY <2>6
      <3>3. QED
        BY <2>3, <3>1, <3>2 DEF IInv, Fresh
    <2>11. QED
      BY <2>5, <2>8, <2>9, <2>10 DEF IInv
  <1>3. QED
    BY <1>1, <1>2

\* sendv puts its response back and frees the one that is there, which is another;
\* only a lone caller knows that what it finds later is its own.
LEMMA StoreKept ==
    ASSUME IInv, NEW c \in Callers, Store(c)
    PROVE  IInv'
  <1> DEFINE e == [caller[c] EXCEPT !.pc = "receive", !.has = None]
  <1>1. e \in Places /\ e.has = None /\ e.mark = caller[c].mark
    BY CallerTyped, NoneTyped DEF IInv, Places
  <1>2. caller' = [caller EXCEPT ![c] = e]
    BY DEF Store
  <1> HIDE DEF e
  <1>3. /\ slot' = caller[c].has
        /\ released' = released \cup Numbers(slot)
        /\ UNCHANGED <<next_id, wire, arrived, got, owner>>
    BY DEF Store
  <1>4. /\ caller' \in [Callers -> Places]
        /\ caller'[c].has = None /\ caller'[c].mark = caller[c].mark
        /\ \A d \in Callers \ {c} : caller'[d] = caller[d]
    BY <1>1, <1>2, CallerSet DEF IInv
  <1>5. Typed'
    BY <1>3, <1>4, CallerTyped DEF IInv, Typed
  <1>6. \A d \in Callers : /\ caller'[d].mark = caller[d].mark
                           /\ caller'[d].has = IF d = c THEN None ELSE caller[d].has
    BY <1>4
  <1>7. released' = released \cup ({slot.n} \ {0}) /\ slot.n \in Nat /\ caller[c].has.n \in Nat
    BY <1>3, CallerTyped DEF IInv, Numbers
  <1>8. released' \subseteq 1 .. arrived
    <2>1. slot.n # 0 => slot.n \in 1 .. arrived
      BY <1>7 DEF IInv, Bounded, Typed
    <2>2. QED
      BY <1>7, <2>1 DEF IInv, Bounded
  <1>9. Bounded'
    BY <1>3, <1>6, <1>8, NoneTyped DEF IInv, Bounded, Typed
  <1>10. Apart'
    <2>1. SUFFICES ASSUME owner \in Early
                   PROVE  Apart'
      BY <1>3 DEF Apart
    <2>2. 0 \notin released'
      BY <1>8 DEF IInv, Typed
    <2>3. \A d \in Callers : caller'[d].has.n = IF d = c THEN 0 ELSE caller[d].has.n
      BY <1>6, NoneTyped
    <2>4. \A d \in Callers : caller[d].has.n \notin released'
      BY <1>7, <2>1, <2>2 DEF IInv, Apart
    <2>5. slot'.n \notin released'
      BY <1>3, <2>4
    <2>6. \A d \in Callers : caller'[d].has.n \notin released'
      BY <2>2, <2>3, <2>4
    <2>7. \A d \in Callers : caller'[d].has.n # 0 => caller'[d].has.n # slot'.n
      BY <1>3, <2>1, <2>3 DEF IInv, Apart
    <2>8. \A d, f \in Callers : d # f /\ caller'[d].has.n # 0 => caller'[d].has.n # caller'[f].has.n
      BY <2>1, <2>3 DEF IInv, Apart
    <2>9. QED
      BY <2>5, <2>6, <2>7, <2>8 DEF Apart
  <1>11. Fresh'
    <2>1. SUFFICES ASSUME OneCaller
                   PROVE  Fresh'
      BY DEF Fresh, OneCaller
    <2>2. \A d \in Callers : d = c
      BY <2>1 DEF OneCaller
    <2>3. \A d \in Callers : Newer(slot', caller'[d].mark)
      BY <1>3, <1>6, <2>1, <2>2 DEF IInv, Fresh
    <2>4. \A d \in Callers : Newer(caller'[d].has, caller'[d].mark)
      BY <1>6, <2>2, NoneTyped DEF Newer
    <2>5. QED
      BY <1>3, <2>1, <2>3, <2>4 DEF IInv, Fresh
  <1>12. QED
    BY <1>5, <1>9, <1>10, <1>11 DEF IInv

\* ws_client_process_complete_message: a copy that is new takes the place of what is
\* freed.
LEMMA MessageKept ==
    ASSUME Sizes, IInv, NEW id \in DOMAIN wire, Message(id)
    PROVE  IInv'
  <1>1. /\ arrived' = arrived + 1
        /\ DOMAIN wire' = DOMAIN wire
        /\ UNCHANGED <<owner, caller, next_id, got>>
    BY DEF Message
  <1>2. arrived \in Nat /\ slot.n \in Nat /\ id \in {NoId} \cup Ids
    BY DEF IInv, Typed, Copies
  <1>3. \/ slot' = slot /\ released' = released
        \/ /\ released' = released \cup ({slot.n} \ {0})
           /\ slot' = [n |-> arrived + 1, id |-> id] \/ slot' = None
    BY DEF Message, response, Numbers
  <1>4. slot' \in Copies
    <2>1. [n |-> arrived + 1, id |-> id] \in Copies
      BY <1>2 DEF Copies
    <2>2. QED
      BY <1>3, <2>1, NoneTyped DEF IInv, Typed
  <1>5. Typed'
    BY <1>1, <1>2, <1>4 DEF IInv, Typed
  <1>6. slot'.n \in {slot.n, arrived + 1, 0}
    BY <1>3, NoneTyped
  <1>7. released' \subseteq 1 .. arrived
    <2>1. slot.n # 0 => slot.n \in 1 .. arrived
      BY <1>2 DEF IInv, Bounded
    <2>2. QED
      BY <1>3, <2>1 DEF IInv, Bounded
  <1>8. released' \subseteq 1 .. arrived'
    BY <1>1, <1>2, <1>7
  <1>9. slot'.n =< arrived' /\ (slot'.n = 0 => slot' = None)
    <2>1. slot.n =< arrived /\ (slot.n = 0 => slot = None)
      BY DEF IInv, Bounded
    <2>2. CASE slot' = slot
      BY <1>1, <1>2, <2>1, <2>2
    <2>3. CASE slot' = None
      BY <1>1, <1>2, <2>3, NoneTyped
    <2>4. CASE slot' = [n |-> arrived + 1, id |-> id]
      BY <1>1, <1>2, <2>4
    <2>5. QED
      BY <1>3, <2>2, <2>3, <2>4
  <1>10. \A c \in Callers : caller[c].mark \in Nat /\ caller[c].has.n \in Nat
    BY CallerTyped DEF IInv
  <1>11. Bounded'
    BY <1>1, <1>2, <1>8, <1>9, <1>10 DEF IInv, Bounded
  <1>12. Apart'
    <2>1. SUFFICES ASSUME owner \in Early
                   PROVE  Apart'
      BY <1>1 DEF Apart
    <2>2. 0 \notin released' /\ arrived + 1 \notin released'
      BY <1>2, <1>7
    <2>3. slot'.n \notin released'
      BY <1>3, <2>1, <2>2, NoneTyped DEF IInv, Apart
    <2>4. \A c \in Callers : caller[c].has.n \notin released'
      BY <1>3, <2>1, <2>2 DEF IInv, Apart
    <2>5. \A c \in Callers : caller[c].has.n # arrived + 1
      BY <1>2, <1>10 DEF IInv, Bounded
    <2>6. \A c \in Callers : caller[c].has.n # 0 => caller[c].has.n # slot'.n
      BY <1>6, <2>1, <2>5 DEF IInv, Apart
    <2>7. QED
      BY <1>1, <2>1, <2>3, <2>4, <2>6 DEF IInv, Apart
  <1>13. Fresh'
    <2>1. SUFFICES ASSUME OneCaller
                   PROVE  Fresh'
      BY DEF Fresh, OneCaller
    <2>2. \A c \in Callers : arrived + 1 > caller[c].mark
      BY <1>2, <1>10 DEF IInv, Bounded
    <2>3. \A c \in Callers : Newer(slot', caller[c].mark)
      BY <1>6, <2>1, <2>2 DEF IInv, Fresh, Newer
    <2>4. QED
      BY <1>1, <2>1, <2>3 DEF IInv, Fresh
  <1>14. QED
    BY <1>5, <1>11, <1>12, <1>13 DEF IInv

\* The steps in which no copy moves.
LEMMA NothingMoves ==
    ASSUME IInv,
           owner' \in Early => owner \in Early,
           DOMAIN wire' = DOMAIN wire,
           UNCHANGED <<slot, caller, next_id, arrived, released, got>>
    PROVE  IInv'
  BY DEF IInv, Typed, Bounded, Apart, Fresh, OneCaller

\* The stop frees the response: nothing is promised after it.
LEMMA FreeResponseKept ==
    ASSUME IInv, FreeResponse \/ ForgetResponse
    PROVE  IInv'
  <1>1. /\ owner' \notin Early
        /\ slot' \in {slot, None}
        /\ released' \in {released, released \cup Numbers(slot)}
        /\ UNCHANGED <<caller, next_id, wire, arrived, got>>
    BY DEF FreeResponse, ForgetResponse, response, Early
  <1>2. slot.n \in Nat /\ (slot.n # 0 => slot.n \in 1 .. arrived)
    BY DEF IInv, Typed, Copies, Bounded
  <1>3. released' \subseteq 1 .. arrived
    BY <1>1, <1>2 DEF IInv, Bounded, Numbers
  <1>4. Typed'
    BY <1>1, NoneTyped DEF IInv, Typed
  <1>5. slot'.n =< arrived' /\ (slot'.n = 0 => slot' = None)
    BY <1>1, NoneTyped DEF IInv, Bounded, Typed
  <1>6. Bounded'
    BY <1>1, <1>3, <1>5 DEF IInv, Bounded
  <1>7. Apart'
    BY <1>1 DEF Apart
  <1>8. \A c \in Callers : Newer(slot, caller[c].mark) => Newer(slot', caller[c].mark)
    BY <1>1, NoneTyped DEF Newer
  <1>9. Fresh'
    BY <1>1, <1>8 DEF IInv, Fresh, OneCaller
  <1>10. QED
    BY <1>4, <1>6, <1>7, <1>9 DEF IInv

\* A new request frees what is there.
LEMMA SetupKept ==
    ASSUME Sizes, IInv, NEW c \in Callers, Setup(c)
    PROVE  IInv'
  <1>1. next_id \in Ids /\ arrived \in Nat
    BY DEF IInv, Typed, Setup, Ids, Sizes
  <1>2. Begun \in Places /\ Begun.has = None /\ Begun.mark =< arrived
    BY <1>1, NoneTyped DEF Begun, Places
  <1>3. /\ caller' = [caller EXCEPT ![c] = Begun]
        /\ slot' = None /\ released' = released \cup Numbers(slot)
        /\ next_id' = next_id + 1
        /\ UNCHANGED <<wire, arrived, owner, got>>
    BY DEF Setup
  <1>4. next_id' \in Nat \ {0}
    BY <1>3 DEF IInv, Typed
  <1>5. QED
    BY <1>2, <1>3, <1>4, Empties DEF IInv

\* The steps of a caller that move no copy.
LEMMA CallerMoves ==
    ASSUME IInv, NEW c \in Callers,
           Copy(c) \/ Write(c) \/ SendFails(c) \/ GiveUp(c)
    PROVE  IInv'
  <1>1. /\ \/ caller' = [caller EXCEPT ![c] = Idle]
           \/ \E p \in {"write", "wait"} : caller' = [caller EXCEPT ![c].pc = p]
        /\ DOMAIN wire' = DOMAIN wire
        /\ UNCHANGED <<slot, next_id, arrived, released, got, owner>>
    BY DEF Copy, Write, SendFails, GiveUp, Idles, To, response
  <1>2. CASE caller' = [caller EXCEPT ![c] = Idle]
    BY <1>1, <1>2, IdleTyped, MovesOn DEF IInv
  <1>3. ASSUME NEW p \in {"write", "wait"}, caller' = [caller EXCEPT ![c].pc = p]
        PROVE  IInv'
    <2> DEFINE e == [caller[c] EXCEPT !.pc = p]
    <2>1. e \in Places /\ e.has = caller[c].has /\ e.mark = caller[c].mark
      BY CallerTyped DEF IInv, Places
    <2>2. caller' = [caller EXCEPT ![c] = e]
      BY <1>3
    <2> HIDE DEF e
    <2>3. QED
      BY <1>1, <2>1, <2>2, MovesOn DEF IInv
  <1>4. QED
    BY <1>1, <1>2, <1>3

\* What the place has is given to the client.
LEMMA HandOverKept ==
    ASSUME IInv, NEW c \in Callers, HandOver(c), slot # None,
           UNCHANGED <<next_id, wire, arrived, owner>>
    PROVE  IInv'
  <1>1. slot.n # 0 /\ slot.n \in Nat
    BY DEF IInv, Bounded, Typed, Copies
  <1>2. /\ caller' = [caller EXCEPT ![c] = Idle]
        /\ slot' = None /\ released' = released \cup Numbers(slot)
        /\ got'.n = slot.n /\ got'.mark = caller[c].mark
    BY <1>1 DEF HandOver, Idles, Numbers
  <1>3. Idle \in Places /\ Idle.has = None /\ Idle.mark =< arrived
    BY IdleTyped DEF IInv, Typed
  <1>4. next_id' \in Nat \ {0}
    BY DEF IInv, Typed
  <1>5. QED
    BY <1>1, <1>2, <1>3, <1>4, Empties DEF IInv

\* A receive gives what is there to the client, or empties the place and waits.
LEMMA ReceiveKept ==
    ASSUME IInv, NEW c \in Callers, Receive(c) \/ Received(c)
    PROVE  IInv'
  <1>1. UNCHANGED <<next_id, wire, arrived, owner>>
    BY DEF Receive, Received
  <1>2. CASE HandOver(c) /\ slot # None
    BY <1>1, <1>2, HandOverKept
  <1>3. CASE Idles(c) /\ UNCHANGED <<slot, released, got>>
    BY <1>1, <1>3, IdleTyped, MovesOn DEF IInv, Idles
  <1>4. CASE /\ slot' = None /\ released' = released \cup Numbers(slot)
             /\ To(c, "await") /\ UNCHANGED got
    <2> DEFINE e == [caller[c] EXCEPT !.pc = "await"]
    <2>1. e \in Places /\ e.has = caller[c].has /\ e.mark = caller[c].mark
      BY CallerTyped DEF IInv, Places
    <2>2. caller' = [caller EXCEPT ![c] = e]
      BY <1>4 DEF To
    <2> HIDE DEF e
    <2>3. next_id' \in Nat \ {0}
      BY <1>1 DEF IInv, Typed
    <2>4. QED
      BY <1>1, <1>4, <2>1, <2>2, <2>3, Empties DEF IInv
  <1>5. QED
    BY <1>2, <1>3, <1>4 DEF Receive, Received

\* At first there is no response.
LEMMA Begins ==
    ASSUME Init
    PROVE  IInv
  <1>1. /\ slot = None /\ caller = [c \in Callers |-> Idle]
        /\ next_id = 1 /\ DOMAIN wire = {NoId} \cup Ids
        /\ arrived = 0 /\ released = {}
        /\ got.n = 1 /\ got.mark = 0
    BY DEF Init, Nothing
  <1>2. \A c \in Callers : /\ caller[c] \in Places
                           /\ caller[c].has = None /\ caller[c].mark = 0
    BY <1>1, IdleTyped
  <1>3. Typed
    BY <1>1, NoneTyped, IdleTyped DEF Typed
  <1>4. Bounded
    BY <1>1, <1>2, NoneTyped DEF Bounded
  <1>5. Apart
    BY <1>1, <1>2, NoneTyped DEF Apart
  <1>6. Fresh
    BY <1>1, <1>2, NoneTyped DEF Fresh, Newer
  <1>7. QED
    BY <1>3, <1>4, <1>5, <1>6 DEF IInv

\* Every step keeps the invariant.
LEMMA Preserved ==
    ASSUME Sizes, IInv, [Next]_vars
    PROVE  IInv'
  <1>1. CASE UNCHANGED vars
    <2>1. UNCHANGED <<owner, wire, slot, caller, next_id, arrived, released, got>>
      BY <1>1 DEF vars, response
    <2>2. QED
      BY <2>1, NothingMoves
  <1>2. ASSUME NEW c \in Callers,
               \/ Setup(c) \/ Copy(c) \/ Write(c) \/ SendFails(c) \/ Take(c)
               \/ GiveUp(c) \/ Store(c) \/ Receive(c) \/ Received(c)
        PROVE  IInv'
    BY <1>2, SetupKept, CallerMoves, TakeKept, StoreKept, ReceiveKept
  <1>3. ASSUME NEW id \in DOMAIN wire, Message(id)
        PROVE  IInv'
    BY <1>3, MessageKept
  <1>4. CASE Closed \/ Stop \/ StopRunning \/ Wake \/ Cleaned
    <2>1. /\ owner' \in Early => owner \in Early
          /\ DOMAIN wire' = DOMAIN wire
          /\ UNCHANGED <<slot, caller, next_id, arrived, released, got>>
      BY <1>4 DEF Closed, Stop, StopRunning, Wake, Cleaned, response, Early
    <2>2. QED
      BY <2>1, NothingMoves
  <1>5. CASE FreeResponse \/ ForgetResponse
    BY <1>5, FreeResponseKept
  <1>6. QED
    BY <1>1, <1>2, <1>3, <1>4, <1>5 DEF Next

\* A step of the lone caller brings it no message but its response.
LEMMA CallerAlone ==
    ASSUME Sizes, IInv, Alone, OneCaller, NEW c \in Callers,
           \/ Setup(c) \/ Copy(c) \/ Write(c) \/ SendFails(c) \/ Take(c)
           \/ GiveUp(c) \/ Store(c) \/ Receive(c) \/ Received(c)
    PROVE  OwnResponse' /\ Sole(caller[c])'
  <1>1. /\ DOMAIN caller = Callers /\ caller[c] \in Places
        /\ DOMAIN wire = {NoId} \cup Ids /\ next_id \in Nat \ {0}
        /\ NoId = 0
    BY CallerTyped DEF IInv, Typed, NoId
  <1>2. OwnResponse /\ Sole(caller[c])
    BY DEF Alone
  <1>3. Idle.sole = NoId /\ Idle.has = None
    BY DEF Idle
  <1>4. CASE Setup(c)
    <2>1. caller'[c] = Begun /\ slot' = None /\ UNCHANGED <<wire, got>>
      BY <1>1, <1>4 DEF Setup
    <2>2. /\ Begun.pc = "copy" /\ Begun.id = next_id /\ Begun.has = None
          /\ Begun.sole # NoId => Begun.sole = next_id /\ \A k \in DOMAIN wire : wire[k] = 0
      BY DEF Begun
    <2>3. QED
      BY <1>2, <2>1, <2>2 DEF OwnResponse, Sole
  <1>5. CASE Copy(c)
    <2>1. /\ caller'[c] = [caller[c] EXCEPT !.pc = "write"]
          /\ buffer' = caller[c].id
          /\ UNCHANGED <<slot, wire, got>>
      BY <1>1, <1>5 DEF Copy, To, response
    <2>2. /\ caller'[c].sole = caller[c].sole /\ caller'[c].id = caller[c].id
          /\ caller'[c].has = caller[c].has
      BY <1>1, <2>1 DEF Places
    <2>3. QED
      BY <1>2, <2>1, <2>2 DEF OwnResponse, Sole
  <1>6. CASE Write(c)
    <2>1. /\ caller'[c] = [caller[c] EXCEPT !.pc = "wait"] /\ caller[c].pc = "write"
          /\ wire' = [wire EXCEPT ![buffer] = @ + 1]
          /\ UNCHANGED <<slot, buffer, got>>
      BY <1>1, <1>6 DEF Write, To, At, response
    <2>2. /\ caller'[c].sole = caller[c].sole /\ caller'[c].id = caller[c].id
          /\ caller'[c].has = caller[c].has /\ caller'[c].pc = "wait"
      BY <1>1, <2>1 DEF Places
    <2>3. DOMAIN wire' = DOMAIN wire /\ \A k \in DOMAIN wire : k # buffer => wire'[k] = wire[k]
      BY <2>1
    <2>4. QED
      BY <1>2, <2>1, <2>2, <2>3 DEF OwnResponse, Sole
  <1>7. CASE SendFails(c) \/ GiveUp(c)
    <2>1. caller'[c] = Idle /\ UNCHANGED got
      BY <1>1, <1>7 DEF SendFails, GiveUp, Idles
    <2>2. QED
      BY <1>2, <1>3, <2>1 DEF OwnResponse, Sole
  <1>8. CASE Take(c)
    <2>1. /\ \/ caller'[c] = Idle
             \/ caller'[c] = [caller[c] EXCEPT !.pc = "store", !.has = slot]
          /\ slot' = None
          /\ UNCHANGED <<buffer, wire, got>>
      BY <1>1, <1>8 DEF Take
    <2>2. CASE caller'[c] = Idle
      BY <1>2, <1>3, <2>1, <2>2 DEF OwnResponse, Sole
    <2>3. CASE caller'[c] = [caller[c] EXCEPT !.pc = "store", !.has = slot]
      <3>1. /\ caller'[c].sole = caller[c].sole /\ caller'[c].id = caller[c].id
            /\ caller'[c].has = slot /\ caller'[c].pc = "store"
        BY <1>1, <2>3 DEF Places
      <3>2. QED
        BY <1>2, <2>1, <3>1 DEF OwnResponse, Sole
    <2>4. QED
      BY <2>1, <2>2, <2>3
  <1>9. CASE Store(c)
    <2>1. /\ caller'[c] = [caller[c] EXCEPT !.pc = "receive", !.has = None]
          /\ slot' = caller[c].has
          /\ UNCHANGED <<buffer, wire, got>>
      BY <1>1, <1>9 DEF Store
    <2>2. /\ caller'[c].sole = caller[c].sole /\ caller'[c].id = caller[c].id
          /\ caller'[c].has = None /\ caller'[c].pc = "receive"
      BY <1>1, <2>1 DEF Places
    <2>3. QED
      BY <1>2, <2>1, <2>2 DEF OwnResponse, Sole
  <1>10. CASE Receive(c) \/ Received(c)
    <2>1. UNCHANGED <<buffer, wire>>
      BY <1>10 DEF Receive, Received
    <2>2. CASE HandOver(c) /\ slot # None
      <3>1. /\ caller'[c] = Idle
            /\ got'.id = slot.id /\ got'.sole = caller[c].sole
        BY <1>1, <2>2 DEF HandOver, Idles
      <3>2. QED
        BY <1>2, <1>3, <2>2, <3>1 DEF OwnResponse, Sole
    <2>3. CASE Idles(c) /\ UNCHANGED <<slot, got>>
      BY <1>1, <1>2, <1>3, <2>3 DEF Idles, OwnResponse, Sole
    <2>4. CASE slot' = None /\ To(c, "await") /\ UNCHANGED got
      <3>1. caller'[c] = [caller[c] EXCEPT !.pc = "await"]
        BY <1>1, <2>4 DEF To
      <3>2. /\ caller'[c].sole = caller[c].sole /\ caller'[c].id = caller[c].id
            /\ caller'[c].has = caller[c].has /\ caller'[c].pc = "await"
        BY <1>1, <3>1 DEF Places
      <3>3. QED
        BY <1>2, <2>1, <2>4, <3>2 DEF OwnResponse, Sole
    <2>5. QED
      BY <1>10, <2>2, <2>3, <2>4 DEF Receive, Received
  <1>11. QED
    BY <1>4, <1>5, <1>6, <1>7, <1>8, <1>9, <1>10

\* Every step leaves a lone caller alone: the only message on its way is its own.
LEMMA AlonePreserved ==
    ASSUME Sizes, IInv, Alone, [Next]_vars
    PROVE  Alone'
  <1>1. SUFFICES ASSUME OneCaller
                 PROVE  OwnResponse' /\ \A d \in Callers : Sole(caller[d])'
    BY DEF Alone, OneCaller
  <1>2. OwnResponse /\ \A d \in Callers : Sole(caller[d])
    BY <1>1 DEF Alone
  <1>3. ASSUME NEW c \in Callers,
               \/ Setup(c) \/ Copy(c) \/ Write(c) \/ SendFails(c) \/ Take(c)
               \/ GiveUp(c) \/ Store(c) \/ Receive(c) \/ Received(c)
        PROVE  OwnResponse' /\ \A d \in Callers : Sole(caller[d])'
    <2>1. \A d \in Callers : d = c
      BY <1>1 DEF OneCaller
    <2>2. OwnResponse' /\ Sole(caller[c])'
      BY <1>1, <1>3, CallerAlone
    <2>3. ASSUME NEW d \in Callers
          PROVE  Sole(caller[d])'
      BY <2>1, <2>2
    <2>4. QED
      BY <2>2, <2>3
  <1>4. ASSUME NEW id \in DOMAIN wire, Message(id)
        PROVE  OwnResponse' /\ \A d \in Callers : Sole(caller[d])'
    <2>1. /\ wire[id] > 0 /\ wire' = [wire EXCEPT ![id] = @ - 1]
          /\ slot' = slot \/ slot' = None \/ slot'.id = id
          /\ UNCHANGED <<buffer, caller, got>>
      BY <1>4 DEF Message, response
    <2>2. DOMAIN wire' = DOMAIN wire /\ \A k \in DOMAIN wire : k # id => wire'[k] = wire[k]
      BY <2>1
    <2>3. wire[id] # 0
      BY <2>1
    <2>4. ASSUME NEW d \in Callers
          PROVE  Sole(caller[d])'
      BY <1>2, <2>1, <2>2, <2>3 DEF Sole
    <2>5. QED
      BY <1>2, <2>1, <2>4 DEF OwnResponse
  <1>5. CASE \/ Closed \/ Stop \/ StopRunning \/ Wake \/ FreeResponse \/ ForgetResponse
             \/ Cleaned \/ UNCHANGED vars
    <2>1. /\ slot' = slot \/ slot' = None
          /\ DOMAIN wire' = DOMAIN wire
          /\ \A k \in DOMAIN wire : wire'[k] = wire[k] \/ wire'[k] = 0
          /\ UNCHANGED <<buffer, caller, got>>
      BY <1>5 DEF Closed, Stop, StopRunning, Wake, FreeResponse, ForgetResponse, Cleaned,
                  vars, response
    <2>2. ASSUME NEW d \in Callers
          PROVE  Sole(caller[d])'
      BY <1>2, <2>1 DEF Sole
    <2>3. QED
      BY <1>2, <2>1, <2>2 DEF OwnResponse
  <1>6. QED
    BY <1>3, <1>4, <1>5 DEF Next

\* The WebSocket client frees or hands over every response it copies at most once and
\* keeps no pointer to it, with any number of callers, timeouts, late messages and
\* closed connections, until a stop frees the response without the mutex; a lone caller
\* of receive never gets a response that arrived before its request, and it gets its
\* own if nothing else was on its way when the request was begun.
THEOREM ResponsesCorrect ==
    ASSUME Sizes
    PROVE  Spec => []ResponsesOwned
  <1>1. Init => IInv /\ Alone
    <2>1. SUFFICES ASSUME Init
                   PROVE  Alone
      BY Begins
    <2>2. got.sole = NoId /\ \A c \in Callers : caller[c].sole = NoId
      BY <2>1 DEF Init, Nothing, Idle
    <2>3. QED
      BY <2>2 DEF Alone, OwnResponse, Sole
  <1>2. IInv /\ Alone /\ [Next]_vars => IInv' /\ Alone'
    BY Preserved, AlonePreserved
  <1>3. IInv /\ Alone => ResponsesOwned
    <2>1. SUFFICES ASSUME IInv, Alone
                   PROVE  ResponsesOwned
      OBVIOUS
    <2>2. OneCaller => FreshResponse /\ OwnResponse
      BY <2>1 DEF IInv, Fresh, FreshResponse, Alone
    <2>3. ASSUME owner \in Early, NEW c \in Callers, caller[c].has # None
          PROVE  /\ caller[c].has.n \notin released
                 /\ caller[c].has # slot
                 /\ \A d \in Callers \ {c} : caller[d].has # caller[c].has
      <3>1. caller[c].has.n # 0
        BY <2>1, <2>3 DEF IInv, Bounded
      <3>2. /\ caller[c].has.n \notin released
            /\ caller[c].has.n # slot.n
            /\ \A d \in Callers \ {c} : caller[d].has.n # caller[c].has.n
        BY <2>1, <2>3, <3>1 DEF IInv, Apart
      <3>3. QED
        BY <3>2
    <2>4. owner \in Early => slot.n \notin released
      BY <2>1 DEF IInv, Apart
    <2>5. ResponseOwnedOnce
      BY <2>3, <2>4 DEF ResponseOwnedOnce, Early
    <2>6. QED
      BY <2>2, <2>5 DEF ResponsesOwned
  <1>4. QED
    BY <1>1, <1>2, <1>3, PTL DEF Spec
=============================================================================
