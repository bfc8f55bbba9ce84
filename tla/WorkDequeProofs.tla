--------------------------- MODULE WorkDequeProofs ---------------------------
(***************************************************************************)
(* Proofs about the work-stealing deque, for any number of threads that    *)
(* push and that steal, of tasks and of slots.                             *)
(*                                                                         *)
(* That no task is taken twice is not inductive.  The owner's pop takes    *)
(* the last position away before it knows whether a thief was faster, so   *)
(* the tasks in the deque do not end at bottom but at End; what a thief    *)
(* read before bottom is of use only if top is still the same; and between *)
(* its read of top and its return the owner relies on what it read.  The   *)
(* invariant says where every task is (Accounted), where the positions in  *)
(* use are (Window), and what owner, pushers and thieves know at each of   *)
(* their steps (OwnerKnows, PushersKnow, ThiefKnows).  It holds as long as *)
(* the deque was not misused, and then one thread at a time is in a push   *)
(* or in a pop (OneWriter).                                                *)
(***************************************************************************)
EXTENDS WorkDeque, TLAPS

-----------------------------------------------------------------------------
\* The owner's locals.
owner == thread[Owner]

\* The owner has made its claim: deque_pop_bottom has stored bottom.
Popping == owner.step \in {"pop_top", "pop_task", "pop_empty", "pop_cas", "pop_lost",
                          "pop_reset"}

PushSteps == {"push_write", "push_publish"}
PopSteps == BottomSteps \ PushSteps

\* Thread p is in deque_push_bottom.
Pushing(p) == thread[p].step \in PushSteps

\* The end of the tasks in the deque.  A pop takes the last position away from the
\* thieves before it knows whether it may.
End == IF Popping THEN owner.b + 1 ELSE bottom

\* The task at a position.
Cell(i) == buffer[Slot(i)]

\* A task that is neither in the deque nor taken: its push or pop is not over.
Held(k) ==
    \/ owner.step = "pop_reset" /\ owner.task = k
    \/ \E p \in Pushers : Pushing(p) /\ thread[p].task = k

\* At most one thread is in deque_push_bottom or deque_pop_bottom.
OneWriter ==
    \A p, q \in Threads :
       (thread[p].step \in BottomSteps /\ thread[q].step \in BottomSteps) => p = q

\* Where the tasks are, and that they fit.
Window ==
    /\ Popping => bottom = owner.b
    /\ owner.step = "pop_store" => bottom = owner.b + 1
    /\ top <= End /\ End - top <= Capacity

\* What the owner may rely on at each of its steps.
OwnerKnows ==
    /\ owner.step = "pop_task" =>
          owner.t <= top /\ owner.t <= owner.b /\ (owner.t < owner.b => top <= owner.b)
    /\ owner.step = "pop_cas" =>
          owner.t = owner.b /\ owner.t <= top /\ (top = owner.t => owner.task = Cell(top))
    /\ owner.step \in {"pop_lost", "pop_reset"} => owner.t = owner.b /\ top = owner.b + 1
    /\ owner.step = "pop_empty" => owner.t = owner.b + 1 /\ top = owner.b + 1

\* What a thread that pushes may rely on.
PushersKnow ==
    \A p \in Pushers : Pushing(p) =>
       /\ thread[p].b = bottom /\ bottom - top < Capacity
       /\ thread[p].step = "push_publish" => Cell(bottom) = thread[p].task

\* The first task is there for a thief, and the owner is not about to take it
\* without a compare-and-swap.
TopSafe ==
    /\ top < End
    /\ (owner.step = "pop_task" /\ owner.t < owner.b) => top < owner.b

\* A thief whose compare-and-swap would succeed has the first task.
ThiefKnows(p) ==
    /\ thread[p].step \in {"steal_bottom", "steal_read", "steal_cas"} => thread[p].t <= top
    /\ (thread[p].step \in {"steal_read", "steal_cas"} /\ thread[p].t = top) =>
          /\ TopSafe
          /\ thread[p].step = "steal_cas" => thread[p].task = Cell(top)

ThievesKnow == \A p \in Thieves : ThiefKnows(p)

\* The positions in use.
Positions == top .. End - 1

\* Every task is at one place: it is to come, is in the deque, held, or was taken.
Accounted ==
    /\ taken[NoTask] = 0
    /\ \A k \in Tasks : taken[k] <= 1 /\ (k > pushed => taken[k] = 0)
    /\ \A k \in Tasks \cup {NoTask} :
          Held(k) => k \in 1 .. pushed /\ taken[k] = 0 /\ \A i \in Positions : Cell(i) # k
    /\ \A i \in Positions : Cell(i) \in 1 .. pushed /\ taken[Cell(i)] = 0
    /\ \A i, j \in Positions : Cell(i) = Cell(j) => i = j
    /\ \A k \in 1 .. pushed : taken[k] = 0 => Held(k) \/ \E i \in Positions : Cell(i) = k

\* What is true of a deque that was not misused.
Knowledge ==
    OneWriter /\ Window /\ OwnerKnows /\ PushersKnow /\ ThievesKnow /\ Accounted

Sound == TypeOK /\ Knowledge

\* The inductive invariant.
IInv == TypeOK /\ (misused \/ Knowledge)

-----------------------------------------------------------------------------
\* Positions less than the capacity apart have different slots.
LEMMA SlotsApart ==
    ASSUME NEW i \in Nat, NEW j \in Nat, i < j, j - i < Capacity
    PROVE  Slot(i) # Slot(j)
<1> DEFINE C == Capacity
<1>1. C \in Nat /\ C > 0
  BY DequeConstants
<1> HIDE DEF C
<1>2. PICK m \in Int : i = C * m + (i % C)
  <2>1. i = C * (i \div C) + (i % C) /\ (i \div C) \in Int
    BY <1>1
  <2> QED
    BY <2>1
<1>3. PICK n \in Int : j = C * n + (j % C)
  <2>1. j = C * (j \div C) + (j % C) /\ (j \div C) \in Int
    BY <1>1
  <2> QED
    BY <2>1
<1>4. ASSUME i % C = j % C PROVE FALSE
  <2>1. (i % C) \in Int
    BY <1>1
  <2>2. j - i = C * n - C * m
    BY <1>1, <1>2, <1>3, <1>4, <2>1
  <2>3. C * n - C * m = C * (n - m)
    BY <1>1
  <2>4. CASE n - m >= 1
    <3>1. C * (n - m) >= C
      BY <1>1, <2>4
    <3> QED
      BY <1>1, <2>2, <2>3, <3>1 DEF C
  <2>5. CASE n - m <= 0
    <3>1. C * (n - m) <= 0
      BY <1>1, <2>5
    <3> QED
      BY <1>1, <2>2, <2>3, <3>1
  <2> QED
    BY <2>4, <2>5
<1> QED
  BY <1>4 DEF Slot, C

\* The types are kept by every step.
LEMMA NextTypeOK ==
    ASSUME TypeOK, Next
    PROVE  TypeOK'
<1>1. /\ TypeOK /\ Owner \in Threads /\ Thieves \subseteq Threads
      /\ Pushers \subseteq Threads /\ NoTask \in Tasks \cup {NoTask}
  BY DEF Threads
<1>2. \A i \in Nat : Slot(i) \in 0 .. Capacity - 1
  BY DequeConstants DEF Slot
<1>3. ASSUME NEW p \in Threads, NEW l \in Locals
      PROVE  [thread EXCEPT ![p] = l] \in [Threads -> Locals]
  BY <1>1 DEF TypeOK
<1>4. Idle \in Locals
  BY DEF Idle, Locals, Steps, BottomSteps
<1>31. ASSUME NEW f \in [Threads -> Locals], NEW p \in Threads, NEW s \in Steps
       PROVE  [f EXCEPT ![p].step = s] \in [Threads -> Locals]
  BY DEF Locals
<1>32. ASSUME NEW f \in [Threads -> Locals], NEW p \in Threads, NEW n \in Nat
       PROVE  [f EXCEPT ![p].t = n] \in [Threads -> Locals]
  BY DEF Locals
<1>33. ASSUME NEW f \in [Threads -> Locals], NEW p \in Threads, NEW k \in Tasks \cup {NoTask}
       PROVE  [f EXCEPT ![p].task = k] \in [Threads -> Locals]
  BY DEF Locals
<1>34. misused' \in BOOLEAN
  BY <1>1 DEF Next, Push, Pop, Steal, PushRead, PushWrite, PushPublish, PopRead, PopStore,
     PopTop, PopTask, PopEmpty, PopCas, PopLost, PopReset, StealTop, StealBottom, StealRead,
     StealCas, TypeOK, InUse
<1>5. ASSUME NEW p \in Pushers, PushRead(p) PROVE TypeOK'
  <2>1. pushed + 1 \in Tasks
    BY <1>1, <1>5, DequeConstants DEF PushRead, TypeOK, Tasks
  <2>2. [step |-> "push_write", b |-> bottom, t |-> 0, task |-> pushed + 1] \in Locals
    BY <1>1, <2>1 DEF Locals, Steps, BottomSteps, TypeOK
  <2> QED
    BY <1>1, <1>3, <1>5, <2>1, <2>2 DEF PushRead, TypeOK, Tasks
<1>6. ASSUME NEW p \in Pushers, PushWrite(p) PROVE TypeOK'
  <2>1. thread' \in [Threads -> Locals]
    BY <1>1, <1>6 DEF PushWrite, TypeOK, Locals, Steps, BottomSteps
  <2>2. thread[p].b \in Nat /\ thread[p].task \in Tasks \cup {NoTask}
    BY <1>1 DEF TypeOK, Locals
  <2>3. buffer' \in [0 .. Capacity - 1 -> Tasks \cup {NoTask}]
    BY <1>1, <1>2, <1>6, <2>2 DEF PushWrite, TypeOK
  <2> QED
    BY <1>1, <1>6, <2>1, <2>3 DEF PushWrite, TypeOK
<1>7. ASSUME NEW p \in Pushers, PushPublish(p) PROVE TypeOK'
  <2>1. thread[p].b + 1 \in Nat
    BY <1>1 DEF TypeOK, Locals
  <2> QED
    BY <1>1, <1>3, <1>4, <1>7, <2>1 DEF PushPublish, Done, TypeOK
<1>8. ASSUME PopRead PROVE TypeOK'
  <2>1. [Idle EXCEPT !.step = "pop_store", !.b = bottom - 1] \in Locals
    <3>1. bottom - 1 \in Nat
      BY <1>1, <1>8 DEF PopRead, TypeOK
    <3> QED
      BY <3>1 DEF Idle, Locals, Steps, BottomSteps
  <2> QED
    BY <1>1, <1>3, <1>8, <2>1 DEF PopRead, TypeOK
<1>9. ASSUME PopStore PROVE TypeOK'
  <2>1. thread' \in [Threads -> Locals]
    BY <1>1, <1>9 DEF PopStore, TypeOK, Locals, Steps, BottomSteps
  <2>2. thread[Owner].b \in Nat
    BY <1>1 DEF TypeOK, Locals
  <2> QED
    BY <1>1, <1>9, <2>1, <2>2 DEF PopStore, TypeOK
<1>10. ASSUME PopTop PROVE TypeOK'
  <2>1. thread' \in [Threads -> Locals]
    <3>1. [thread EXCEPT ![Owner].t = top] \in [Threads -> Locals]
      BY <1>1, <1>32 DEF TypeOK
    <3>2. {"pop_empty", "pop_task"} \subseteq Steps
      BY DEF Steps, BottomSteps
    <3> QED
      BY <1>1, <1>10, <1>31, <3>1, <3>2 DEF PopTop
  <2> QED
    BY <1>1, <1>10, <2>1 DEF PopTop, TypeOK
<1>11. ASSUME PopTask PROVE TypeOK'
  <2>1. buffer[Slot(thread[Owner].b)] \in Tasks \cup {NoTask}
    <3>1. thread[Owner].b \in Nat
      BY <1>1 DEF TypeOK, Locals
    <3> QED
      BY <1>1, <1>2, <3>1 DEF TypeOK
  <2>2. CASE thread[Owner].b = thread[Owner].t
    <3>1. thread' \in [Threads -> Locals]
      <4>1. "pop_cas" \in Steps
        BY DEF Steps, BottomSteps
      <4>2. [thread EXCEPT ![Owner].step = "pop_cas"] \in [Threads -> Locals]
        BY <1>1, <1>31, <4>1 DEF TypeOK
      <4> QED
        BY <1>1, <1>11, <1>33, <2>1, <2>2, <4>2 DEF PopTask
    <3> QED
      BY <1>1, <1>11, <2>2, <3>1 DEF PopTask, TypeOK
  <2>3. CASE thread[Owner].b # thread[Owner].t
    <3>1. thread' \in [Threads -> Locals]
      BY <1>1, <1>3, <1>4, <1>11, <2>3 DEF PopTask, Done
    <3>2. taken' \in [Tasks \cup {NoTask} -> Nat]
      BY <1>1, <1>11, <2>1, <2>3 DEF PopTask, Take, TypeOK
    <3> QED
      BY <1>1, <1>11, <2>3, <3>1, <3>2 DEF PopTask, TypeOK
  <2> QED
    BY <2>2, <2>3
<1>12. ASSUME PopEmpty \/ PopLost PROVE TypeOK'
  <2>1. thread[Owner].t \in Nat
    BY <1>1 DEF TypeOK, Locals
  <2> QED
    BY <1>1, <1>3, <1>4, <1>12, <2>1 DEF PopEmpty, PopLost, Done, TypeOK
<1>13. ASSUME PopCas PROVE TypeOK'
  <2>1. thread' \in [Threads -> Locals]
    <3>1. {"pop_reset", "pop_lost"} \subseteq Steps
      BY DEF Steps, BottomSteps
    <3> QED
      BY <1>1, <1>13, <1>31, <3>1 DEF PopCas, TypeOK
  <2> QED
    BY <1>1, <1>13, <2>1 DEF PopCas, TypeOK
<1>14. ASSUME PopReset PROVE TypeOK'
  <2>1. thread[Owner].t \in Nat /\ thread[Owner].task \in Tasks \cup {NoTask}
    BY <1>1 DEF TypeOK, Locals
  <2>2. taken' \in [Tasks \cup {NoTask} -> Nat]
    BY <1>1, <1>14, <2>1 DEF PopReset, Take, TypeOK
  <2> QED
    BY <1>1, <1>3, <1>4, <1>14, <2>1, <2>2 DEF PopReset, Done, TypeOK
<1>15. ASSUME NEW p \in Thieves, StealTop(p) PROVE TypeOK'
  <2>1. [Idle EXCEPT !.step = "steal_bottom", !.t = top] \in Locals
    BY <1>1 DEF TypeOK, Idle, Locals, Steps, BottomSteps
  <2> QED
    BY <1>1, <1>3, <1>15, <2>1 DEF StealTop, TypeOK
<1>16. ASSUME NEW p \in Thieves, StealBottom(p) PROVE TypeOK'
  <2>1. thread' \in [Threads -> Locals]
    <3>1. "steal_read" \in Steps
      BY DEF Steps, BottomSteps
    <3> QED
      BY <1>1, <1>3, <1>4, <1>16, <1>31, <3>1 DEF StealBottom, Done, TypeOK
  <2> QED
    BY <1>1, <1>16, <2>1 DEF StealBottom, TypeOK
<1>17. ASSUME NEW p \in Thieves, StealRead(p) PROVE TypeOK'
  <2>1. thread[p].t \in Nat
    BY <1>1 DEF TypeOK, Locals
  <2>2. buffer[Slot(thread[p].t)] \in Tasks \cup {NoTask}
    BY <1>1, <1>2, <2>1 DEF TypeOK
  <2>3. thread' \in [Threads -> Locals]
    <3>1. "steal_cas" \in Steps
      BY DEF Steps, BottomSteps
    <3>2. [thread EXCEPT ![p].task = buffer[Slot(thread[p].t)]] \in [Threads -> Locals]
      BY <1>1, <1>33, <2>2 DEF TypeOK
    <3> QED
      BY <1>1, <1>17, <1>31, <3>1, <3>2 DEF StealRead
  <2> QED
    BY <1>1, <1>17, <2>3 DEF StealRead, TypeOK
<1>18. ASSUME NEW p \in Thieves, StealCas(p) PROVE TypeOK'
  <2>1. thread[p].task \in Tasks \cup {NoTask}
    BY <1>1 DEF TypeOK, Locals
  <2>2. taken' \in [Tasks \cup {NoTask} -> Nat]
    BY <1>1, <1>18, <2>1 DEF StealCas, Take, TypeOK
  <2>3. thread' \in [Threads -> Locals]
    BY <1>1, <1>3, <1>4, <1>18 DEF StealCas, Done
  <2> QED
    BY <1>1, <1>18, <2>2, <2>3 DEF StealCas, TypeOK
<1> QED
  BY <1>5, <1>6, <1>7, <1>8, <1>9, <1>10, <1>11, <1>12, <1>13, <1>14, <1>15, <1>16, <1>17,
     <1>18 DEF Next, Push, Pop, Steal

-----------------------------------------------------------------------------
\* What the inductive invariant says of the types.
LEMMA Typed ==
    ASSUME TypeOK
    PROVE  /\ top \in Nat /\ bottom \in Nat /\ pushed \in Nat /\ End \in Nat
           /\ owner.b \in Nat /\ owner.t \in Nat /\ owner.task \in Tasks \cup {NoTask}
           /\ owner \in Locals
           /\ Owner \in Threads /\ Thieves \subseteq Threads /\ Owner \notin Thieves
           /\ Pushers \subseteq Threads /\ 1 .. pushed \subseteq Tasks
<1>1. /\ Owner \in Threads /\ Thieves \subseteq Threads /\ Owner \notin Thieves
      /\ Pushers \subseteq Threads
  BY DequeConstants DEF Threads
<1>2. top \in Nat /\ bottom \in Nat /\ pushed \in Nat /\ owner \in Locals
  BY <1>1 DEF TypeOK, owner
<1>3. owner.b \in Nat /\ owner.t \in Nat /\ owner.task \in Tasks \cup {NoTask}
  BY <1>2 DEF Locals
<1>4. End \in Nat
  BY <1>2, <1>3 DEF End
<1>5. 1 .. pushed \subseteq Tasks
  BY DequeConstants DEF TypeOK, Tasks
<1> QED
  BY <1>1, <1>2, <1>3, <1>4, <1>5

\* What a step that moves no task leaves as it was.
LEMMA KeepsAccount ==
    ASSUME Accounted, Positions' = Positions, taken' = taken, pushed' = pushed,
           \A i \in Positions : Cell(i)' = Cell(i),
           \A k \in Tasks \cup {NoTask} : Held(k)' <=> Held(k),
           1 .. pushed \subseteq Tasks
    PROVE  Accounted'
BY DEF Accounted

\* A step that does not move top, nor the first task out of the thieves' sight,
\* leaves true what they know.
LEMMA ThievesKeep ==
    ASSUME Sound, top' = top, TopSafe => TopSafe',
           \A p \in Thieves : \/ thread'[p] = thread[p]
                             \/ thread'[p].step \in {"idle"} \cup BottomSteps,
           \A i \in Positions : Cell(i)' = Cell(i)
    PROVE  ThievesKnow'
<1>1. TopSafe => top \in Positions
  BY Typed DEF TopSafe, Positions, Sound
<1>2. ASSUME NEW p \in Thieves PROVE ThiefKnows(p)'
  <2>1. ThiefKnows(p)
    BY DEF Sound, Knowledge, ThievesKnow
  <2>2. TopSafe => Cell(top)' = Cell(top)
    BY <1>1
  <2>3. CASE thread'[p] = thread[p]
    BY <2>1, <2>2, <2>3 DEF ThiefKnows
  <2>4. CASE thread'[p].step \in {"idle"} \cup BottomSteps
    BY <2>4 DEF ThiefKnows, BottomSteps
  <2> QED
    BY <2>3, <2>4
<1> QED
  BY <1>2 DEF ThievesKnow

\* In particular a step of the owner alone.
LEMMA ThievesRest ==
    ASSUME Sound, top' = top, TopSafe => TopSafe',
           \A q \in Threads \ {Owner} : thread'[q] = thread[q],
           \A i \in Positions : Cell(i)' = Cell(i)
    PROVE  ThievesKnow'
<1>1. \A p \in Thieves : thread'[p] = thread[p]
  BY Typed DEF Sound
<1> QED
  BY <1>1, ThievesKeep

\* A thread that was in a push or a pop already, or finds nobody there, keeps the
\* others out.
LEMMA WriterAlone ==
    ASSUME NEW p \in Threads, OneWriter, \A q \in Threads \ {p} : thread'[q] = thread[q],
           thread'[p].step \in BottomSteps => thread[p].step \in BottomSteps \/ ~InUse
    PROVE  OneWriter'
BY DEF OneWriter, InUse

\* While the owner is in deque_pop_bottom, or nobody is there, no thread pushes.
LEMMA PopMoves ==
    ASSUME Sound, owner.step \in PopSteps \/ ~InUse,
           \A q \in Threads \ {Owner} : thread'[q] = thread[q],
           owner'.step \in {"idle"} \cup PopSteps
    PROVE  /\ OneWriter' /\ PushersKnow'
           /\ \A k : Held(k) <=> owner.step = "pop_reset" /\ owner.task = k
           /\ \A k : Held(k)' <=> owner'.step = "pop_reset" /\ owner'.task = k
<1>1. Owner \in Threads /\ Pushers \subseteq Threads /\ OneWriter
  BY Typed DEF Sound, Knowledge
<1>2. ASSUME NEW p \in Pushers PROVE ~Pushing(p) /\ ~Pushing(p)'
  <2>1. PushSteps \subseteq BottomSteps /\ PopSteps \subseteq BottomSteps
        /\ PushSteps \cap ({"idle"} \cup PopSteps) = {}
    BY DEF PushSteps, PopSteps, BottomSteps
  <2>2. ~Pushing(p)
    BY <1>1, <2>1 DEF OneWriter, InUse, Pushing, owner
  <2>3. CASE p = Owner
    BY <2>1, <2>2, <2>3 DEF Pushing, owner
  <2>4. CASE p # Owner
    BY <1>1, <2>2, <2>4 DEF Pushing
  <2> QED
    BY <2>2, <2>3, <2>4
<1>3. OneWriter'
  <2>1. owner'.step \in BottomSteps => owner.step \in BottomSteps \/ ~InUse
    BY DEF PopSteps
  <2> QED
    BY <1>1, <2>1, WriterAlone DEF owner
<1>4. PushersKnow'
  BY <1>2 DEF PushersKnow
<1> QED
  BY <1>2, <1>3, <1>4 DEF Held

\* While p pushes, or nobody does, the owner is not in deque_pop_bottom and no
\* other thread pushes.
LEMMA PushMoves ==
    ASSUME Sound, NEW p \in Pushers, Pushing(p) \/ ~InUse,
           \A q \in Threads \ {p} : thread'[q] = thread[q],
           thread'[p].step \in {"idle"} \cup PushSteps
    PROVE  /\ OneWriter' /\ ~Popping /\ ~Popping'
           /\ owner.step \notin PopSteps /\ owner'.step \notin PopSteps
           /\ \A q \in Pushers \ {p} : ~Pushing(q) /\ ~Pushing(q)'
           /\ \A k : Held(k) <=> Pushing(p) /\ thread[p].task = k
           /\ \A k : Held(k)' <=> Pushing(p)' /\ thread'[p].task = k
<1>1. Owner \in Threads /\ Pushers \subseteq Threads /\ OneWriter
  BY Typed DEF Sound, Knowledge
<1>2. /\ PushSteps \subseteq BottomSteps /\ PopSteps \subseteq BottomSteps
      /\ PushSteps \cap PopSteps = {} /\ "idle" \notin BottomSteps
      /\ "pop_reset" \in PopSteps
  BY DEF PushSteps, PopSteps, BottomSteps
<1>3. owner.step \notin PopSteps
  BY <1>1, <1>2 DEF OneWriter, InUse, Pushing, owner
<1>4. owner'.step \notin PopSteps
  <2>1. CASE p = Owner
    BY <1>2, <2>1 DEF owner
  <2>2. CASE p # Owner
    BY <1>1, <1>3, <2>2 DEF owner
  <2> QED
    BY <2>1, <2>2
<1>5. ~Popping /\ ~Popping'
  BY <1>3, <1>4 DEF Popping, PopSteps, PushSteps, BottomSteps
<1>6. ASSUME NEW q \in Pushers \ {p} PROVE ~Pushing(q) /\ ~Pushing(q)'
  <2>1. ~Pushing(q)
    BY <1>1, <1>2 DEF OneWriter, InUse, Pushing
  <2> QED
    BY <1>1, <2>1 DEF Pushing
<1>7. OneWriter'
  <2>1. thread'[p].step \in BottomSteps => thread[p].step \in BottomSteps \/ ~InUse
    BY <1>2 DEF Pushing
  <2> QED
    BY <1>1, <2>1, WriterAlone
<1> QED
  BY <1>2, <1>3, <1>4, <1>5, <1>6, <1>7 DEF Held
-----------------------------------------------------------------------------
\* deque_push_bottom: the slot it writes is none of those in use, for the deque is
\* not full; the task is in the deque once bottom is written.
LEMMA PushKeeps ==
    ASSUME Sound, NEW p \in Pushers, Push(p), ~misused'
    PROVE  Knowledge'
<1>1. \A i \in Nat : Slot(i) \in 0 .. Capacity - 1
  BY DequeConstants DEF Slot
<1>2. Window /\ OwnerKnows /\ PushersKnow /\ ThievesKnow /\ Accounted /\ TypeOK
  BY DEF Sound, Knowledge
<1>3. thread \in [Threads -> Locals] /\ p \in Threads
  BY <1>2, Typed DEF TypeOK
<1>4. 1 .. pushed \subseteq Tasks
  BY <1>2, Typed
<1>5. ASSUME PushRead(p) PROVE Knowledge'
  <2>1. /\ ~InUse /\ bottom - top < Capacity /\ pushed' = pushed + 1
        /\ top' = top /\ bottom' = bottom /\ buffer' = buffer /\ taken' = taken
    <3>1. ~(misused \/ InUse \/ bottom - top >= Capacity)
      BY <1>5, Zenon DEF PushRead
    <3>2. ~InUse /\ ~(bottom - top >= Capacity)
      BY <3>1, Zenon
    <3>3. bottom - top < Capacity
      BY <1>2, <3>2, Typed, DequeConstants
    <3> QED
      BY <1>5, <3>2, <3>3 DEF PushRead
  <2>2. /\ thread'[p].step = "push_write" /\ thread'[p].b = bottom
        /\ thread'[p].task = pushed + 1 /\ thread[p].step = "idle"
        /\ \A q \in Threads \ {p} : thread'[q] = thread[q]
    BY <1>3, <1>5 DEF PushRead, At
  <2>3. ~Pushing(p) /\ Pushing(p)'
    BY <2>2 DEF Pushing, PushSteps
  <2>4. /\ OneWriter' /\ ~Popping /\ ~Popping' /\ owner'.step \notin PopSteps
        /\ \A q \in Pushers \ {p} : ~Pushing(q)'
        /\ (\A k : ~Held(k)) /\ \A k : Held(k)' <=> k = pushed + 1
    BY <2>1, <2>2, <2>3, PushMoves DEF Pushing
  <2>5. /\ End = bottom /\ End' = bottom /\ Positions' = Positions
        /\ \A i : Cell(i)' = Cell(i)
    BY <2>1, <2>4 DEF End, Positions, Cell
  <2>6. Window' /\ OwnerKnows'
    BY <1>2, <2>1, <2>4, <2>5 DEF Window, OwnerKnows, PopSteps, PushSteps, BottomSteps
  <2>7. PushersKnow'
    BY <2>1, <2>2, <2>4 DEF PushersKnow
  <2>8. ThievesKnow'
    <3>1. \A q \in Thieves : \/ thread'[q] = thread[q]
                             \/ thread'[q].step \in {"idle"} \cup BottomSteps
      BY <1>2, <2>2, Typed DEF BottomSteps
    <3>2. TopSafe => TopSafe'
      BY <2>1, <2>4, <2>5 DEF TopSafe, PopSteps, PushSteps, BottomSteps
    <3> QED
      BY <2>1, <2>5, <3>1, <3>2, ThievesKeep
  <2>9. Accounted'
    <3>1. pushed \in Nat /\ pushed + 1 \in Tasks
      BY <1>2, <1>5, DequeConstants DEF PushRead, Tasks, TypeOK
    <3>2. taken[pushed + 1] = 0
      BY <1>2, <3>1 DEF Accounted
    <3> QED
      BY <1>2, <2>1, <2>4, <2>5, <3>1, <3>2 DEF Accounted, Tasks
  <2> QED
    BY <2>4, <2>6, <2>7, <2>8, <2>9 DEF Knowledge
<1>6. ASSUME PushWrite(p) PROVE Knowledge'
  <2>1. /\ thread[p].step = "push_write" /\ top' = top /\ bottom' = bottom
        /\ pushed' = pushed /\ taken' = taken
        /\ buffer' = [buffer EXCEPT ![Slot(thread[p].b)] = thread[p].task]
    BY <1>6 DEF PushWrite, At
  <2>2. /\ thread'[p].step = "push_publish" /\ thread'[p].b = thread[p].b
        /\ thread'[p].task = thread[p].task
        /\ \A q \in Threads \ {p} : thread'[q] = thread[q]
    BY <1>3, <1>6 DEF PushWrite, Locals
  <2>3. Pushing(p) /\ Pushing(p)'
    BY <2>1, <2>2 DEF Pushing, PushSteps
  <2>4. /\ OneWriter' /\ ~Popping /\ ~Popping' /\ owner'.step \notin PopSteps
        /\ \A q \in Pushers \ {p} : ~Pushing(q)'
        /\ \A k : Held(k)' <=> Held(k)
    BY <2>2, <2>3, PushMoves DEF Pushing
  <2>5. /\ End = bottom /\ End' = bottom /\ Positions' = Positions
        /\ thread[p].b = bottom /\ bottom - top < Capacity
    BY <1>2, <2>1, <2>3, <2>4 DEF End, Positions, PushersKnow
  <2>6. \A i \in Positions : Cell(i)' = Cell(i)
    <3>1. SUFFICES ASSUME NEW i \in Positions PROVE Slot(i) # Slot(bottom)
      BY <2>1, <2>5 DEF Cell
    <3>2. i \in Nat /\ i < bottom /\ bottom - i < Capacity
      BY <1>2, <2>5, Typed, DequeConstants DEF Positions
    <3> QED
      BY <1>2, <3>2, SlotsApart, Typed
  <2>7. Cell(bottom)' = thread[p].task
    BY <1>1, <1>2, <2>1, <2>5, Typed DEF Cell, TypeOK
  <2>8. Window' /\ OwnerKnows'
    BY <1>2, <2>1, <2>4, <2>5 DEF Window, OwnerKnows, PopSteps, PushSteps, BottomSteps
  <2>9. PushersKnow'
    BY <2>1, <2>2, <2>4, <2>5, <2>7 DEF PushersKnow
  <2>10. ThievesKnow'
    <3>1. \A q \in Thieves : \/ thread'[q] = thread[q]
                             \/ thread'[q].step \in {"idle"} \cup BottomSteps
      BY <1>2, <2>2, Typed DEF BottomSteps
    <3>2. TopSafe => TopSafe'
      BY <2>1, <2>4, <2>5 DEF TopSafe, PopSteps, PushSteps, BottomSteps
    <3> QED
      BY <2>1, <2>6, <3>1, <3>2, ThievesKeep
  <2>11. Accounted'
    BY <1>2, <1>4, <2>1, <2>4, <2>5, <2>6, KeepsAccount
  <2> QED
    BY <2>4, <2>8, <2>9, <2>10, <2>11 DEF Knowledge
<1>7. ASSUME PushPublish(p) PROVE Knowledge'
  <2>1. /\ thread[p].step = "push_publish" /\ top' = top /\ bottom' = thread[p].b + 1
        /\ pushed' = pushed /\ taken' = taken /\ buffer' = buffer
    BY <1>7 DEF PushPublish, At
  <2>2. thread'[p].step = "idle" /\ \A q \in Threads \ {p} : thread'[q] = thread[q]
    BY <1>3, <1>7 DEF PushPublish, Done, Idle
  <2>3. Pushing(p) /\ ~Pushing(p)'
    BY <2>1, <2>2 DEF Pushing, PushSteps
  <2>4. /\ OneWriter' /\ ~Popping /\ ~Popping' /\ owner'.step \notin PopSteps
        /\ \A q \in Pushers \ {p} : ~Pushing(q)'
        /\ (\A k : ~Held(k)') /\ \A k : Held(k) <=> k = thread[p].task
    BY <2>2, <2>3, PushMoves DEF Pushing
  <2>5. /\ bottom = thread[p].b /\ bottom - top < Capacity
        /\ Cell(bottom) = thread[p].task
    BY <1>2, <2>1, <2>3 DEF PushersKnow
  <2>6. /\ End = bottom /\ End' = bottom + 1 /\ bottom' = bottom + 1 /\ top <= bottom
        /\ \A i : Cell(i)' = Cell(i)
    BY <1>2, <2>1, <2>4, <2>5 DEF End, Window, Cell
  <2>7. Window' /\ OwnerKnows'
    BY <1>2, <2>1, <2>4, <2>5, <2>6, Typed, DequeConstants
       DEF Window, OwnerKnows, PopSteps, PushSteps, BottomSteps
  <2>8. PushersKnow'
    BY <2>3, <2>4 DEF PushersKnow
  <2>9. ThievesKnow'
    <3>1. \A q \in Thieves : \/ thread'[q] = thread[q]
                             \/ thread'[q].step \in {"idle"} \cup BottomSteps
      BY <1>2, <2>2, Typed DEF BottomSteps
    <3>2. TopSafe => TopSafe'
      BY <1>2, <2>1, <2>4, <2>6, Typed DEF TopSafe, PopSteps, PushSteps, BottomSteps
    <3> QED
      BY <2>1, <2>6, <3>1, <3>2, ThievesKeep
  <2>10. Accounted'
    <3>1. Positions' = Positions \cup {bottom} /\ bottom \notin Positions
      BY <1>2, <2>1, <2>6, Typed DEF Positions
    <3> QED
      <4>1. 1 .. pushed \subseteq Tasks /\ thread[p].task \in Tasks \cup {NoTask}
        BY <1>2, <1>3, <1>4 DEF Locals
      <4>2. /\ thread[p].task \in 1 .. pushed /\ taken[thread[p].task] = 0
            /\ \A i \in Positions : Cell(i) # thread[p].task
        BY <1>2, <2>4, <4>1 DEF Accounted
      <4>3. \A i \in Positions' : Cell(i)' \in 1 .. pushed' /\ taken'[Cell(i)'] = 0
        BY <1>2, <2>1, <2>5, <2>6, <3>1, <4>2 DEF Accounted
      <4>4. \A i, j \in Positions' : Cell(i)' = Cell(j)' => i = j
        BY <1>2, <2>5, <2>6, <3>1, <4>2 DEF Accounted
      <4>5. \A k \in 1 .. pushed' : taken'[k] = 0 =>
                 Held(k)' \/ \E i \in Positions' : Cell(i)' = k
        BY <1>2, <2>1, <2>4, <2>5, <2>6, <3>1 DEF Accounted
      <4> QED
        BY <1>2, <2>1, <2>4, <4>3, <4>4, <4>5 DEF Accounted
  <2> QED
    BY <2>4, <2>7, <2>8, <2>9, <2>10 DEF Knowledge
<1> QED
  BY <1>5, <1>6, <1>7 DEF Push

\* A task that leaves the deque, at either end, is taken once.
LEMMA Removes ==
    ASSUME Accounted, TypeOK, NEW x \in Positions,
           Positions' = Positions \ {x},
           taken' = [taken EXCEPT ![Cell(x)] = @ + 1], pushed' = pushed,
           \A i : Cell(i)' = Cell(i), \A k : Held(k)' <=> Held(k)
    PROVE  Accounted'
<1>1. Cell(x) \in 1 .. pushed /\ taken[Cell(x)] = 0 /\ ~Held(Cell(x))
  BY DequeConstants DEF Accounted, TypeOK, Tasks
<1>2. pushed \in Nat /\ 1 .. pushed \subseteq Tasks /\ Cell(x) # NoTask
  BY <1>1, DequeConstants DEF TypeOK, Tasks, NoTask
<1>3. taken'[Cell(x)] = 1 /\ \A k \in Tasks \cup {NoTask} : k # Cell(x) => taken'[k] = taken[k]
  BY <1>1, <1>2 DEF TypeOK
<1>4. taken'[NoTask] = 0
  BY <1>2, <1>3 DEF Accounted
<1>5. \A k \in Tasks : taken'[k] <= 1 /\ (k > pushed' => taken'[k] = 0)
  BY <1>1, <1>2, <1>3 DEF Accounted, Tasks
<1>6. \A k \in Tasks \cup {NoTask} :
         Held(k)' => /\ k \in 1 .. pushed' /\ taken'[k] = 0
                     /\ \A i \in Positions' : Cell(i)' # k
  BY <1>1, <1>2, <1>3 DEF Accounted
<1>7. \A i \in Positions' : Cell(i)' \in 1 .. pushed' /\ taken'[Cell(i)'] = 0
  BY <1>1, <1>2, <1>3 DEF Accounted
<1>8. \A i, j \in Positions' : Cell(i)' = Cell(j)' => i = j
  BY DEF Accounted
<1>9. \A k \in 1 .. pushed' :
         taken'[k] = 0 => Held(k)' \/ \E i \in Positions' : Cell(i)' = k
  BY <1>1, <1>2, <1>3 DEF Accounted
<1> QED
  BY <1>4, <1>5, <1>6, <1>7, <1>8, <1>9 DEF Accounted

\* deque_pop_bottom up to the point where it may have to race for the last task:
\* after its store to bottom, what it read of top tells whether a thief can still
\* come for the task at b.
LEMMA PopStarts ==
    ASSUME Sound, PopRead \/ PopStore \/ PopTop \/ PopTask, ~misused'
    PROVE  Knowledge'
<1>2. Window /\ OwnerKnows /\ ThievesKnow /\ Accounted /\ TypeOK
  BY DEF Sound, Knowledge
<1>3. thread \in [Threads -> Locals]
  BY <1>2 DEF TypeOK
<1>4. 1 .. pushed \subseteq Tasks
  BY <1>2, Typed
<1>5. ASSUME PopRead PROVE Knowledge'
  <2>1. /\ owner.step = "idle" /\ bottom # 0 /\ pushed' = pushed
        /\ top' = top /\ bottom' = bottom /\ buffer' = buffer /\ taken' = taken
    BY <1>5 DEF PopRead, At, owner
  <2>2. /\ owner'.step = "pop_store" /\ owner'.b = bottom - 1
        /\ \A q \in Threads \ {Owner} : thread'[q] = thread[q]
    BY <1>2, <1>3, <1>5, Typed DEF PopRead, owner, Idle
  <2>free. ~InUse
    BY <1>5, Zenon DEF PopRead
  <2>alone. /\ OneWriter' /\ PushersKnow'
            /\ \A k : Held(k) <=> owner.step = "pop_reset" /\ owner.task = k
            /\ \A k : Held(k)' <=> owner'.step = "pop_reset" /\ owner'.task = k
    BY <2>free, <2>2, PopMoves DEF PopSteps, PushSteps, BottomSteps
  <2>3. /\ End = bottom /\ End' = bottom /\ Positions' = Positions
        /\ ~Popping' /\ \A i : Cell(i)' = Cell(i)
    BY <2>1, <2>2 DEF End, Popping, Positions, Cell
  <2>4. Window'
    BY <1>2, <2>1, <2>2, <2>3, Typed DEF Window
  <2>5. OwnerKnows'
    BY <2>2 DEF OwnerKnows
  <2>6. ThievesKnow'
    BY <2>1, <2>2, <2>3, <2>alone, ThievesRest DEF TopSafe
  <2>7. Accounted'
    BY <1>2, <1>4, <2>1, <2>2, <2>3, <2>alone, KeepsAccount
  <2> QED
    BY <2>4, <2>5, <2>6, <2>7, <2>alone DEF Knowledge
<1>6. ASSUME PopStore PROVE Knowledge'
  <2>1. /\ owner.step = "pop_store" /\ pushed' = pushed
        /\ top' = top /\ bottom' = owner.b /\ buffer' = buffer /\ taken' = taken
    BY <1>6 DEF PopStore, At, owner
  <2>2. /\ owner'.step = "pop_top" /\ owner'.b = owner.b
        /\ \A q \in Threads \ {Owner} : thread'[q] = thread[q]
    BY <1>2, <1>3, <1>6, Typed DEF PopStore, owner, Locals
  <2>alone. /\ OneWriter' /\ PushersKnow'
            /\ \A k : Held(k) <=> owner.step = "pop_reset" /\ owner.task = k
            /\ \A k : Held(k)' <=> owner'.step = "pop_reset" /\ owner'.task = k
    BY <2>1, <2>2, PopMoves DEF PopSteps, PushSteps, BottomSteps
  <2>3. /\ End = owner.b + 1 /\ End' = owner.b + 1 /\ Positions' = Positions
        /\ Popping' /\ \A i : Cell(i)' = Cell(i)
    BY <1>2, <2>1, <2>2 DEF End, Popping, Positions, Cell, Window
  <2>4. Window'
    BY <1>2, <2>1, <2>2, <2>3, Typed DEF Window
  <2>5. OwnerKnows'
    BY <2>2 DEF OwnerKnows
  <2>6. ThievesKnow'
    BY <2>1, <2>2, <2>3, <2>alone, ThievesRest DEF TopSafe
  <2>7. Accounted'
    BY <1>2, <1>4, <2>1, <2>2, <2>3, <2>alone, KeepsAccount
  <2> QED
    BY <2>4, <2>5, <2>6, <2>7, <2>alone DEF Knowledge
<1>7. ASSUME PopTop PROVE Knowledge'
  <2>1. /\ owner.step = "pop_top" /\ pushed' = pushed
        /\ top' = top /\ bottom' = bottom /\ buffer' = buffer /\ taken' = taken
    BY <1>7 DEF PopTop, At, owner
  <2>2. /\ owner'.step = IF owner.b < top THEN "pop_empty" ELSE "pop_task"
        /\ owner'.b = owner.b /\ owner'.t = top
        /\ \A q \in Threads \ {Owner} : thread'[q] = thread[q]
    BY <1>2, <1>3, <1>7, Typed DEF PopTop, owner, Locals
  <2>alone. /\ OneWriter' /\ PushersKnow'
            /\ \A k : Held(k) <=> owner.step = "pop_reset" /\ owner.task = k
            /\ \A k : Held(k)' <=> owner'.step = "pop_reset" /\ owner'.task = k
    BY <2>1, <2>2, PopMoves DEF PopSteps, PushSteps, BottomSteps
  <2>3. /\ End = owner.b + 1 /\ End' = owner.b + 1 /\ Positions' = Positions
        /\ Popping /\ Popping' /\ \A i : Cell(i)' = Cell(i)
    BY <1>2, <2>1, <2>2 DEF End, Popping, Positions, Cell, Window
  <2>4. Window'
    BY <1>2, <2>1, <2>2, <2>3, Typed DEF Window
  <2>5. OwnerKnows'
    BY <1>2, <2>1, <2>2, <2>3, Typed DEF OwnerKnows, Window
  <2>6. ThievesKnow'
    BY <2>1, <2>2, <2>3, <2>alone, ThievesRest DEF TopSafe
  <2>7. Accounted'
    BY <1>2, <1>4, <2>1, <2>2, <2>3, <2>alone, KeepsAccount
  <2> QED
    BY <2>4, <2>5, <2>6, <2>7, <2>alone DEF Knowledge
<1>8. ASSUME PopTask PROVE Knowledge'
  <2>1. /\ owner.step = "pop_task" /\ pushed' = pushed
        /\ top' = top /\ bottom' = bottom /\ buffer' = buffer
    BY <1>8 DEF PopTask, At, owner
  <2>2. /\ \A i : Cell(i)' = Cell(i)
        /\ owner.t <= top /\ owner.t <= owner.b /\ (owner.t < owner.b => top <= owner.b)
        /\ Popping /\ bottom = owner.b /\ End = owner.b + 1 /\ top <= End /\ End - top <= Capacity
    BY <1>2, <2>1 DEF Cell, OwnerKnows, Window, Popping, End
  <2>3. CASE owner.b = owner.t
    <3>1. /\ owner'.step = "pop_cas" /\ owner'.b = owner.b /\ owner'.t = owner.t
          /\ owner'.task = Cell(owner.b) /\ taken' = taken
          /\ \A q \in Threads \ {Owner} : thread'[q] = thread[q]
      BY <1>2, <1>3, <1>8, <2>3, Typed DEF PopTask, owner, Cell, Locals
    <3>alone. /\ OneWriter' /\ PushersKnow'
              /\ \A k : Held(k) <=> owner.step = "pop_reset" /\ owner.task = k
              /\ \A k : Held(k)' <=> owner'.step = "pop_reset" /\ owner'.task = k
      BY <2>1, <3>1, PopMoves DEF PopSteps, PushSteps, BottomSteps
    <3>2. End' = owner.b + 1 /\ Positions' = Positions /\ Popping'
      BY <2>1, <2>2, <3>1 DEF End, Popping, Positions
    <3>3. Window'
      BY <2>1, <2>2, <3>1, <3>2 DEF Window
    <3>4. OwnerKnows'
      BY <2>1, <2>2, <2>3, <3>1 DEF OwnerKnows
    <3>5. ThievesKnow'
      BY <2>1, <2>2, <3>1, <3>2, <3>alone, ThievesRest DEF TopSafe
    <3>6. Accounted'
      BY <1>2, <1>4, <2>1, <2>2, <3>1, <3>2, <3>alone, KeepsAccount
    <3> QED
      BY <3>3, <3>4, <3>5, <3>6, <3>alone DEF Knowledge
  <2>4. CASE owner.b # owner.t
    <3>1. /\ owner'.step = "idle" /\ taken' = [taken EXCEPT ![Cell(owner.b)] = @ + 1]
          /\ \A q \in Threads \ {Owner} : thread'[q] = thread[q]
      BY <1>2, <1>3, <1>8, <2>4, Typed DEF PopTask, Done, Take, Idle, owner, Cell
    <3>alone. /\ OneWriter' /\ PushersKnow'
              /\ \A k : Held(k) <=> owner.step = "pop_reset" /\ owner.task = k
              /\ \A k : Held(k)' <=> owner'.step = "pop_reset" /\ owner'.task = k
      BY <2>1, <3>1, PopMoves DEF PopSteps, PushSteps, BottomSteps
    <3>2. owner.t < owner.b /\ top <= owner.b
      BY <1>2, <2>2, <2>4, Typed
    <3>3. End' = owner.b /\ ~Popping'
      BY <2>1, <2>2, <3>1 DEF End, Popping
    <3>4. Window'
      BY <1>2, <2>1, <2>2, <3>1, <3>2, <3>3, Typed, DequeConstants DEF Window
    <3>5. OwnerKnows'
      BY <3>1 DEF OwnerKnows
    <3>6. ThievesKnow'
      BY <2>1, <2>2, <3>1, <3>2, <3>3, <3>alone, ThievesRest DEF TopSafe
    <3>7. Accounted'
      <4>1. owner.b \in Positions /\ Positions' = Positions \ {owner.b}
        BY <1>2, <2>1, <2>2, <3>2, <3>3, Typed DEF Positions
      <4>2. \A k : Held(k)' <=> Held(k)
        BY <2>1, <3>1, <3>alone
      <4> QED
        BY <1>2, <2>1, <2>2, <3>1, <4>1, <4>2, Removes
    <3> QED
      BY <3>4, <3>5, <3>6, <3>7, <3>alone DEF Knowledge
  <2> QED
    BY <2>3, <2>4
<1> QED
  BY <1>5, <1>6, <1>7, <1>8
\* The end of deque_pop_bottom: whoever won the last task, the deque is empty, and
\* bottom is set to where top is.
LEMMA PopEnds ==
    ASSUME Sound, PopEmpty \/ PopCas \/ PopLost \/ PopReset
    PROVE  Knowledge'
<1>2. Window /\ OwnerKnows /\ ThievesKnow /\ Accounted /\ TypeOK
  BY DEF Sound, Knowledge
<1>3. thread \in [Threads -> Locals]
  BY <1>2 DEF TypeOK
<1>4. 1 .. pushed \subseteq Tasks
  BY <1>2, Typed
<1>5. ASSUME PopEmpty \/ PopLost \/ PopReset PROVE Knowledge'
  <2>1. /\ owner.step \in {"pop_empty", "pop_lost", "pop_reset"} /\ pushed' = pushed
        /\ top' = top /\ buffer' = buffer
        /\ bottom' = IF owner.step = "pop_empty" THEN owner.t ELSE owner.t + 1
        /\ IF owner.step = "pop_reset" THEN taken' = [taken EXCEPT ![owner.task] = @ + 1]
           ELSE taken' = taken
    BY <1>5 DEF PopEmpty, PopLost, PopReset, At, owner, Take
  <2>2. owner'.step = "idle" /\ \A q \in Threads \ {Owner} : thread'[q] = thread[q]
    BY <1>2, <1>3, <1>5, Typed DEF PopEmpty, PopLost, PopReset, Done, Idle, owner
  <2>alone. /\ OneWriter' /\ PushersKnow'
            /\ \A k : Held(k) <=> owner.step = "pop_reset" /\ owner.task = k
            /\ \A k : Held(k)' <=> owner'.step = "pop_reset" /\ owner'.task = k
    BY <2>1, <2>2, PopMoves DEF PopSteps, PushSteps, BottomSteps
  <2>3. top = owner.b + 1 /\ End = top /\ bottom' = top
    BY <1>2, <2>1 DEF OwnerKnows, End, Popping
  <2>4. /\ End' = top /\ ~Popping' /\ \A i : Cell(i)' = Cell(i)
        /\ Positions = {} /\ Positions' = {}
    BY <1>2, <2>1, <2>2, <2>3, Typed DEF End, Popping, Cell, Positions
  <2>5. Window'
    BY <1>2, <2>1, <2>2, <2>3, <2>4, Typed, DequeConstants DEF Window
  <2>6. OwnerKnows'
    BY <2>2 DEF OwnerKnows
  <2>7. ThievesKnow'
    BY <1>2, <2>1, <2>2, <2>3, <2>4, <2>alone, ThievesRest, Typed DEF TopSafe
  <2>8. \A k : ~Held(k)'
    BY <2>2, <2>alone
  <2>9. CASE owner.step # "pop_reset"
    <3>1. \A k : Held(k)' <=> Held(k)
      BY <2>1, <2>2, <2>9, <2>alone
    <3>2. Accounted'
      BY <1>2, <1>4, <2>1, <2>4, <2>9, <3>1, KeepsAccount
    <3> QED
      BY <2>5, <2>6, <2>7, <2>alone, <3>2 DEF Knowledge
  <2>10. CASE owner.step = "pop_reset"
    <3>1. \A k : Held(k) <=> k = owner.task
      BY <2>10, <2>alone
    <3>2. owner.task \in 1 .. pushed /\ taken[owner.task] = 0
      BY <1>2, <3>1, Typed DEF Accounted
    <3>3. /\ taken'[owner.task] = 1
          /\ \A k \in Tasks \cup {NoTask} : k # owner.task => taken'[k] = taken[k]
      BY <1>2, <1>4, <2>1, <2>10, <3>2 DEF TypeOK
    <3>4. owner.task # NoTask /\ owner.task \in Tasks /\ owner.task <= pushed
      BY <1>2, <1>4, <3>2, Typed DEF NoTask
    <3>5. Accounted'
      BY <1>2, <1>4, <2>1, <2>4, <2>8, <3>1, <3>2, <3>3, <3>4, Typed DEF Accounted
    <3> QED
      BY <2>5, <2>6, <2>7, <2>alone, <3>5 DEF Knowledge
  <2> QED
    BY <2>9, <2>10
<1>6. ASSUME PopCas PROVE Knowledge'
  <2>1. /\ owner.step = "pop_cas" /\ pushed' = pushed /\ bottom' = bottom
        /\ buffer' = buffer /\ taken' = taken
        /\ top' = IF top = owner.t THEN top + 1 ELSE top
    BY <1>6 DEF PopCas, At, owner
  <2>2. /\ owner'.step = IF top = owner.t THEN "pop_reset" ELSE "pop_lost"
        /\ owner'.b = owner.b /\ owner'.t = owner.t /\ owner'.task = owner.task
        /\ \A q \in Threads \ {Owner} : thread'[q] = thread[q]
    BY <1>2, <1>3, <1>6, Typed DEF PopCas, owner, Locals
  <2>alone. /\ OneWriter' /\ PushersKnow'
            /\ \A k : Held(k) <=> owner.step = "pop_reset" /\ owner.task = k
            /\ \A k : Held(k)' <=> owner'.step = "pop_reset" /\ owner'.task = k
    BY <2>1, <2>2, PopMoves DEF PopSteps, PushSteps, BottomSteps
  <2>3. /\ owner.t = owner.b /\ owner.t <= top /\ (top = owner.t => owner.task = Cell(top))
        /\ Popping /\ bottom = owner.b /\ End = owner.b + 1 /\ top <= owner.b + 1
    BY <1>2, <2>1 DEF OwnerKnows, Window, Popping, End
  <2>4. /\ End' = owner.b + 1 /\ Popping' /\ \A i : Cell(i)' = Cell(i)
        /\ top' = owner.b + 1
    BY <1>2, <2>1, <2>2, <2>3, Typed DEF End, Popping, Cell
  <2>5. Window'
    BY <1>2, <2>1, <2>2, <2>3, <2>4, Typed, DequeConstants DEF Window
  <2>6. OwnerKnows'
    BY <2>2, <2>3, <2>4 DEF OwnerKnows
  <2>7. CASE top # owner.t
    <3>1. top' = top /\ Positions' = Positions
      BY <2>1, <2>3, <2>4, <2>7 DEF Positions
    <3>2. ThievesKnow'
      BY <2>1, <2>2, <2>3, <2>4, <2>7, <2>alone, <3>1, ThievesRest DEF TopSafe
    <3>3. Accounted'
      BY <1>2, <1>4, <2>1, <2>2, <2>4, <2>7, <2>alone, <3>1, KeepsAccount
    <3> QED
      BY <2>5, <2>6, <2>alone, <3>2, <3>3 DEF Knowledge
  <2>8. CASE top = owner.t
    <3>1. ThievesKnow'
      <4>1. ASSUME NEW p \in Thieves PROVE ThiefKnows(p)'
        <5>1. ThiefKnows(p) /\ thread[p].t \in Nat /\ thread'[p] = thread[p] /\ top' = top + 1
          <6>1. p \in Threads /\ p # Owner
            BY <1>2, Typed
          <6> QED
            BY <1>2, <1>3, <2>1, <2>2, <2>8, <6>1 DEF ThievesKnow, Locals
        <5> QED
          BY <1>2, <5>1, Typed DEF ThiefKnows
      <4> QED
        BY <4>1 DEF ThievesKnow
    <3>2. Accounted'
      <4>1. Positions = {top} /\ Positions' = {}
        BY <1>2, <2>1, <2>3, <2>4, <2>8, Typed DEF Positions
      <4>2. /\ owner.step # "pop_reset" /\ owner'.step = "pop_reset"
            /\ owner'.task = Cell(top)
        BY <2>1, <2>2, <2>3, <2>8
      <4>3. /\ \A k : ~Held(k)
            /\ \A k : Held(k)' <=> Cell(top) = k
        BY <2>alone, <4>2
      <4> QED
        BY <1>2, <2>1, <2>4, <4>1, <4>3 DEF Accounted
    <3> QED
      BY <2>5, <2>6, <2>alone, <3>1, <3>2 DEF Knowledge
  <2> QED
    BY <2>7, <2>8
<1> QED
  BY <1>5, <1>6

\* deque_steal_top: the swap succeeds only while top is what was read before
\* bottom, and then the task is still the first of the deque.
LEMMA StealKeeps ==
    ASSUME Sound, NEW p \in Thieves, Steal(p)
    PROVE  Knowledge'
<1>2. Window /\ OwnerKnows /\ ThievesKnow /\ Accounted /\ TypeOK
  BY DEF Sound, Knowledge
<1>3. /\ thread \in [Threads -> Locals] /\ p \in Threads /\ p # Owner
      /\ thread[p].t \in Nat /\ ThiefKnows(p)
  BY <1>2, Typed DEF TypeOK, Locals, ThievesKnow
<1>4. 1 .. pushed \subseteq Tasks
  BY <1>2, Typed
<1>5. /\ owner' = owner /\ bottom' = bottom /\ buffer' = buffer /\ pushed' = pushed
      /\ \A q \in Threads \ {p} : thread'[q] = thread[q]
      /\ \A q \in Thieves \ {p} : thread'[q] = thread[q]
  BY <1>2, <1>3, Typed DEF Steal, StealTop, StealBottom, StealRead, StealCas, Done, owner
<1>steps. thread[p].step \notin BottomSteps /\ thread'[p].step \notin BottomSteps
  <2>1. CASE StealTop(p)
    BY <1>3, <2>1 DEF StealTop, At, Idle, BottomSteps
  <2>2. CASE StealBottom(p)
    BY <1>3, <2>2 DEF StealBottom, At, Done, Idle, BottomSteps, Locals
  <2>3. CASE StealRead(p)
    BY <1>3, <2>3 DEF StealRead, At, BottomSteps, Locals
  <2>4. CASE StealCas(p)
    BY <1>3, <2>4 DEF StealCas, At, Done, Idle, BottomSteps
  <2> QED
    BY <2>1, <2>2, <2>3, <2>4 DEF Steal
<1>pushers. \A q \in Pushers : /\ Pushing(q)' <=> Pushing(q)
                               /\ Pushing(q) => thread'[q] = thread[q]
  <2>1. PushSteps \subseteq BottomSteps
    BY DEF PushSteps, BottomSteps
  <2> QED
    BY <1>2, <1>5, <1>steps, <2>1, Typed DEF Pushing
<1>alone. OneWriter'
  BY <1>3, <1>5, <1>steps, WriterAlone DEF Sound, Knowledge
<1>6. /\ End' = End /\ (Popping' <=> Popping)
      /\ \A i : Cell(i)' = Cell(i)
      /\ \A k : Held(k)' <=> Held(k)
  <2>1. \A k : Held(k)' <=> Held(k)
    BY <1>5, <1>pushers DEF Held
  <2> QED
    BY <1>5, <2>1 DEF End, Popping, Cell
<1>7. ASSUME top' = top, taken' = taken, ThiefKnows(p)' PROVE Knowledge'
  <2>1. Window' /\ OwnerKnows'
    BY <1>2, <1>5, <1>6, <1>7 DEF Window, OwnerKnows
  <2>2. ThievesKnow'
    <3>1. TopSafe' <=> TopSafe
      BY <1>5, <1>6, <1>7 DEF TopSafe
    <3>2. \A q \in Thieves \ {p} : ThiefKnows(q)'
      BY <1>2, <1>5, <1>6, <1>7, <3>1 DEF ThievesKnow, ThiefKnows
    <3> QED
      BY <1>7, <3>2 DEF ThievesKnow
  <2>3. Positions' = Positions
    BY <1>6, <1>7 DEF Positions
  <2>4. Accounted'
    BY <1>2, <1>4, <1>5, <1>6, <1>7, <2>3, KeepsAccount
  <2>5. PushersKnow'
    <3>1. PushersKnow
      BY DEF Sound, Knowledge
    <3> QED
      BY <1>5, <1>6, <1>7, <1>pushers, <3>1 DEF PushersKnow
  <2> QED
    BY <1>alone, <2>1, <2>2, <2>4, <2>5 DEF Knowledge
<1>8. ASSUME StealTop(p) PROVE Knowledge'
  <2>1. top' = top /\ taken' = taken
    BY <1>8 DEF StealTop
  <2>2. thread'[p].step = "steal_bottom" /\ thread'[p].t = top
    BY <1>3, <1>8 DEF StealTop, Idle
  <2>3. ThiefKnows(p)'
    BY <1>2, <2>1, <2>2, Typed DEF ThiefKnows
  <2> QED
    BY <1>7, <2>1, <2>3
<1>9. ASSUME StealBottom(p) PROVE Knowledge'
  <2>1. top' = top /\ taken' = taken /\ thread[p].step = "steal_bottom"
    BY <1>9 DEF StealBottom, At
  <2>2. CASE thread[p].t >= bottom
    <3>1. thread'[p].step = "idle"
      BY <1>3, <1>9, <2>2 DEF StealBottom, Done, Idle
    <3>2. ThiefKnows(p)'
      BY <3>1 DEF ThiefKnows
    <3> QED
      BY <1>7, <2>1, <3>2
  <2>3. CASE ~(thread[p].t >= bottom)
    <3>1. thread'[p].step = "steal_read" /\ thread'[p].t = thread[p].t
      BY <1>3, <1>9, <2>3 DEF StealBottom, Locals
    <3>2. thread[p].t <= top
      BY <1>3, <2>1 DEF ThiefKnows
    <3>3. ASSUME thread[p].t = top PROVE TopSafe'
      <4>1. top < bottom
        BY <1>2, <1>3, <2>3, <3>3, Typed
      <4>2. bottom <= End /\ (Popping => bottom = owner.b)
        BY <1>2, Typed DEF Window, End
      <4> QED
        BY <1>2, <1>5, <1>6, <2>1, <4>1, <4>2, Typed DEF TopSafe, Popping
    <3>4. ThiefKnows(p)'
      BY <2>1, <3>1, <3>2, <3>3 DEF ThiefKnows
    <3> QED
      BY <1>7, <2>1, <3>4
  <2> QED
    BY <2>2, <2>3
<1>10. ASSUME StealRead(p) PROVE Knowledge'
  <2>1. top' = top /\ taken' = taken /\ thread[p].step = "steal_read"
    BY <1>10 DEF StealRead, At
  <2>2. /\ thread'[p].step = "steal_cas" /\ thread'[p].t = thread[p].t
        /\ thread'[p].task = Cell(thread[p].t)
    BY <1>3, <1>10 DEF StealRead, Locals, Cell
  <2>3. TopSafe' <=> TopSafe
    BY <1>5, <1>6, <2>1 DEF TopSafe
  <2>4. ThiefKnows(p)'
    BY <1>3, <1>6, <2>1, <2>2, <2>3 DEF ThiefKnows
  <2> QED
    BY <1>7, <2>1, <2>4
<1>11. ASSUME StealCas(p) PROVE Knowledge'
  <2>1. thread[p].step = "steal_cas" /\ thread'[p].step = "idle"
    BY <1>3, <1>11 DEF StealCas, At, Done, Idle
  <2>2. ThiefKnows(p)'
    BY <2>1 DEF ThiefKnows
  <2>3. CASE top # thread[p].t
    BY <1>7, <1>11, <2>2, <2>3 DEF StealCas
  <2>4. CASE top = thread[p].t
    <3>1. top' = top + 1 /\ taken' = [taken EXCEPT ![Cell(top)] = @ + 1] /\ TopSafe
      BY <1>3, <1>11, <2>1, <2>4 DEF StealCas, Take, ThiefKnows
    <3>2. top < End /\ End - top <= Capacity
      BY <1>2, <3>1 DEF TopSafe, Window
    <3>3. Window'
      BY <1>2, <1>5, <1>6, <3>1, <3>2, Typed, DequeConstants DEF Window
    <3>4. OwnerKnows'
      <4>1. Popping => End = owner.b + 1
        BY DEF End
      <4> QED
        BY <1>2, <1>5, <1>6, <3>1, <3>2, <4>1, Typed DEF OwnerKnows, TopSafe, Popping
    <3>5. ThievesKnow'
      <4>1. ASSUME NEW q \in Thieves \ {p} PROVE ThiefKnows(q)'
        <5>1. ThiefKnows(q) /\ thread[q].t \in Nat /\ thread'[q] = thread[q]
          BY <1>2, <1>3, <1>5, Typed DEF ThievesKnow, Locals
        <5> QED
          BY <1>2, <3>1, <5>1, Typed DEF ThiefKnows
      <4> QED
        BY <2>2, <4>1 DEF ThievesKnow
    <3>6. Accounted'
      <4>1. top \in Positions /\ Positions' = Positions \ {top}
        BY <1>2, <1>6, <3>1, <3>2, Typed DEF Positions
      <4> QED
        BY <1>2, <1>5, <1>6, <3>1, <4>1, Removes
    <3>7. PushersKnow'
      <4>1. top \in Nat /\ bottom \in Nat
        BY <1>2, Typed
      <4>2. bottom - top < Capacity => bottom - (top + 1) < Capacity
        BY <4>1, DequeConstants
      <4> QED
        <5>1. PushersKnow
          BY DEF Sound, Knowledge
        <5> QED
          BY <1>5, <1>6, <1>pushers, <3>1, <4>2, <5>1 DEF PushersKnow
    <3> QED
      BY <1>alone, <3>3, <3>4, <3>5, <3>6, <3>7 DEF Knowledge
  <2> QED
    BY <2>3, <2>4
<1> QED
  BY <1>8, <1>9, <1>10, <1>11 DEF Steal

-----------------------------------------------------------------------------
\* Whichever threads push, and whatever the order of the reads and writes of
\* deque_push_bottom, deque_pop_bottom and deque_steal_top, the deque gives every task
\* out exactly once, for any number of threads, tasks and slots, until it is misused:
\* until a push meets a full ring or another push or pop that is not over.
THEOREM DequeCorrect == Spec => []DequeExact
<1>1. Init => IInv
  <2> SUFFICES ASSUME Init PROVE IInv
    OBVIOUS
  <2>1. Owner \in Threads /\ Thieves \subseteq Threads /\ Pushers \subseteq Threads
    BY DEF Threads
  <2>2. owner = Idle /\ \A p \in Threads : thread[p] = Idle
    BY <2>1 DEF Init, owner
  <2>3. End = 0 /\ top = 0 /\ bottom = 0 /\ pushed = 0 /\ Positions = {}
    BY <2>2 DEF Init, End, Popping, Idle, Positions
  <2>4. TypeOK
    <3>1. Idle \in Locals
      BY DEF Idle, Locals, Steps
    <3>2. misused \in BOOLEAN
      BY DEF Init
    <3>3. /\ top \in Nat /\ bottom \in Nat /\ pushed \in 0 .. MaxTasks
          /\ buffer \in [0 .. Capacity - 1 -> Tasks \cup {NoTask}]
          /\ thread \in [Threads -> Locals] /\ taken \in [Tasks \cup {NoTask} -> Nat]
      BY <3>1, DequeConstants DEF Init
    <3> QED
      BY <3>1, <3>2, <3>3 DEF TypeOK
  <2>5. Window /\ OwnerKnows
    BY <2>2, <2>3, DequeConstants DEF Window, OwnerKnows, Popping, Idle
  <2>6. ThievesKnow
    BY <2>1, <2>2 DEF ThievesKnow, ThiefKnows, Idle
  <2>7. OneWriter /\ PushersKnow
    BY <2>1, <2>2 DEF OneWriter, PushersKnow, Pushing, PushSteps, BottomSteps, Idle
  <2>8. Accounted
    <3>1. \A k : ~Held(k)
      BY <2>1, <2>2 DEF Held, Pushing, PushSteps, Idle
    <3>2. \A k \in Tasks \cup {NoTask} : taken[k] = 0
      BY DEF Init
    <3> QED
      BY <2>3, <3>1, <3>2 DEF Accounted
  <2> QED
    BY <2>4, <2>5, <2>6, <2>7, <2>8 DEF IInv, Knowledge
<1>2. IInv /\ [Next]_vars => IInv'
  <2>1. ASSUME IInv, Next PROVE IInv'
    <3>1. TypeOK'
      BY <2>1, NextTypeOK DEF IInv
    <3>2. misused => misused'
      BY <2>1, Zenon DEF Next, Push, PushRead, PushWrite, PushPublish, Pop, PopRead, PopStore,
         PopTop, PopTask, PopEmpty, PopCas, PopLost, PopReset, Steal, StealTop,
         StealBottom, StealRead, StealCas
    <3>3. ASSUME ~misused' PROVE Knowledge'
      <4>1. Sound
        BY <2>1, <3>2, <3>3 DEF IInv, Sound
      <4> QED
        BY <2>1, <3>3, <4>1, PushKeeps, PopStarts, PopEnds, StealKeeps DEF Next, Pop
    <3> QED
      BY <3>1, <3>3 DEF IInv
  <2>2. ASSUME IInv, UNCHANGED vars PROVE IInv'
    <3>1. /\ top' = top /\ bottom' = bottom /\ buffer' = buffer /\ pushed' = pushed
          /\ thread' = thread /\ taken' = taken /\ misused' = misused
      BY <2>2 DEF vars
    <3>2. TypeOK'
      BY <2>2, <3>1 DEF IInv, TypeOK
    <3>3. ASSUME Knowledge PROVE Knowledge'
      <4>1. /\ owner' = owner /\ (Popping' <=> Popping) /\ End' = End
            /\ \A p : Pushing(p)' <=> Pushing(p)
            /\ \A i : Cell(i)' = Cell(i)
        BY <3>1 DEF owner, Popping, Pushing, End, Cell
      <4>2. /\ Positions' = Positions /\ (TopSafe' <=> TopSafe)
            /\ \A k : Held(k)' <=> Held(k)
        BY <3>1, <4>1 DEF Positions, TopSafe, Held
      <4>3. OneWriter' /\ Window' /\ OwnerKnows' /\ PushersKnow'
        BY <3>1, <3>3, <4>1 DEF Knowledge, OneWriter, Window, OwnerKnows, PushersKnow
      <4>4. ThievesKnow'
        BY <3>1, <3>3, <4>1, <4>2 DEF Knowledge, ThievesKnow, ThiefKnows
      <4>5. Accounted'
        BY <3>1, <3>3, <4>1, <4>2 DEF Knowledge, Accounted
      <4> QED
        BY <4>3, <4>4, <4>5 DEF Knowledge
    <3> QED
      BY <2>2, <3>1, <3>2, <3>3 DEF IInv
  <2> QED
    BY <2>1, <2>2
<1>3. IInv => DequeExact
  <2> SUFFICES ASSUME IInv, ~misused PROVE TakenOnce /\ NothingLost
    BY DEF DequeExact
  <2>0. TypeOK /\ Accounted
    BY DEF IInv, Knowledge
  <2>1. TakenOnce
    BY <2>0 DEF Accounted, TakenOnce
  <2>2. ASSUME \A p \in Threads : At(p, "idle"), NEW k \in 1 .. pushed
        PROVE  (k \in Queued) = (taken[k] = 0)
    <3>1. owner.step = "idle" /\ \A p \in Pushers : ~Pushing(p)
      BY <2>0, <2>2, Typed DEF At, owner, Pushing, PushSteps
    <3>2. Positions = top .. bottom - 1 /\ ~Held(k)
      BY <3>1 DEF Positions, End, Popping, Held
    <3>3. k \in Queued <=> \E i \in Positions : Cell(i) = k
      BY <3>2 DEF Queued, Cell
    <3> QED
      BY <2>0, <3>2, <3>3 DEF Accounted
  <2> QED
    BY <2>1, <2>2 DEF NothingLost
<1> QED
  BY <1>1, <1>2, <1>3, PTL DEF Spec
=============================================================================
