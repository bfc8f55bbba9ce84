------------------------------ MODULE WorkDeque ------------------------------
(* The work-stealing deque of a thread pool's worker, step by step: every read *)
(* and write of shared memory is a step.  The barriers between them make the   *)
(* steps of one thread visible in their order.                                 *)
(* Source: src/common/mcp_thread_pool_deque.c.                                 *)
EXTENDS Integers, FiniteSets

CONSTANTS Owner,        \* the worker the deque belongs to: it pops
          Pushers,      \* threads that push: any that submits a task
          Thieves,      \* workers that steal
          Capacity,     \* size of the buffer, capacity_mask + 1
          MaxTasks      \* bound: tasks pushed

\* A worker does not steal from itself; mcp_thread_pool_create makes room for one
\* task at least.
ASSUME DequeConstants ==
    /\ Owner \notin Thieves
    /\ Capacity \in Nat \ {0}
    /\ MaxTasks \in Nat

VARIABLES top, bottom,  \* deque->top, deque->bottom
          buffer,       \* deque->buffer
          pushed,       \* tasks pushed so far: tasks are numbered
          thread,       \* each thread: its next step and local variables
          taken,        \* history: how often each task was taken
          misused       \* history: a push met another push, a pop or a full buffer

vars == <<top, bottom, buffer, pushed, thread, taken, misused>>

Threads == {Owner} \cup Pushers \cup Thieves
Tasks == 1 .. MaxTasks
NoTask == 0

\* The steps of deque_push_bottom and deque_pop_bottom, which both write bottom.
BottomSteps == {"push_write", "push_publish", "pop_store", "pop_top", "pop_task",
                "pop_empty", "pop_cas", "pop_lost", "pop_reset"}

Steps == {"idle", "steal_bottom", "steal_read", "steal_cas"} \cup BottomSteps

Locals == [step : Steps, b : Nat, t : Nat, task : Tasks \cup {NoTask}]

Idle == [step |-> "idle", b |-> 0, t |-> 0, task |-> NoTask]

Slot(i) == i % Capacity

Init ==
    /\ top = 0
    /\ bottom = 0
    /\ buffer = [i \in 0 .. Capacity - 1 |-> NoTask]
    /\ pushed = 0
    /\ thread = [p \in Threads |-> Idle]
    /\ taken = [k \in Tasks \cup {NoTask} |-> 0]
    /\ misused = FALSE

At(p, step) == thread[p].step = step

\* "Owner thread only", says the code of push and pop; but the thread that submits
\* a task calls the push, and nothing keeps two threads apart.
InUse == \E p \in Threads : thread[p].step \in BottomSteps

Done(p) == thread' = [thread EXCEPT ![p] = Idle]

\* The task is handed to the caller of pop or steal, which runs it.
Take(task) == taken' = [taken EXCEPT ![task] = @ + 1]

-----------------------------------------------------------------------------
(* deque_push_bottom *)

\* Whether the buffer is full is not looked at.
PushRead(p) ==
    /\ At(p, "idle")
    /\ pushed < MaxTasks
    /\ misused' = (misused \/ InUse \/ bottom - top >= Capacity)
    /\ pushed' = pushed + 1
    /\ thread' = [thread EXCEPT ![p] = [step |-> "push_write", b |-> bottom,
                                        t |-> 0, task |-> pushed + 1]]
    /\ UNCHANGED <<top, bottom, buffer, taken>>

PushWrite(p) ==
    /\ At(p, "push_write")
    /\ buffer' = [buffer EXCEPT ![Slot(thread[p].b)] = thread[p].task]
    /\ thread' = [thread EXCEPT ![p].step = "push_publish"]
    /\ UNCHANGED <<top, bottom, pushed, taken, misused>>

PushPublish(p) ==
    /\ At(p, "push_publish")
    /\ bottom' = thread[p].b + 1
    /\ Done(p)
    /\ UNCHANGED <<top, buffer, pushed, taken, misused>>

-----------------------------------------------------------------------------
(* deque_pop_bottom *)

PopRead ==
    /\ At(Owner, "idle")
    /\ bottom # 0
    /\ misused' = (misused \/ InUse)
    /\ thread' = [thread EXCEPT ![Owner] = [Idle EXCEPT !.step = "pop_store",
                                                        !.b = bottom - 1]]
    /\ UNCHANGED <<top, bottom, buffer, pushed, taken>>

PopStore ==
    /\ At(Owner, "pop_store")
    /\ bottom' = thread[Owner].b
    /\ thread' = [thread EXCEPT ![Owner].step = "pop_top"]
    /\ UNCHANGED <<top, buffer, pushed, taken, misused>>

PopTop ==
    /\ At(Owner, "pop_top")
    /\ thread' = [thread EXCEPT ![Owner].t = top,
                      ![Owner].step = IF thread[Owner].b < top THEN "pop_empty"
                                      ELSE "pop_task"]
    /\ UNCHANGED <<top, bottom, buffer, pushed, taken, misused>>

\* With more than one task between top and bottom the owner needs no swap.
PopTask ==
    LET b == thread[Owner].b
        task == buffer[Slot(b)]
    IN  /\ At(Owner, "pop_task")
        /\ IF b = thread[Owner].t
           THEN /\ thread' = [thread EXCEPT ![Owner].step = "pop_cas",
                                            ![Owner].task = task]
                /\ UNCHANGED taken
           ELSE /\ Take(task)
                /\ Done(Owner)
        /\ UNCHANGED <<top, bottom, buffer, pushed, misused>>

PopEmpty ==
    /\ At(Owner, "pop_empty")
    /\ bottom' = thread[Owner].t
    /\ Done(Owner)
    /\ UNCHANGED <<top, buffer, pushed, taken, misused>>

\* Mutant: the last task is taken without regard to thieves.
PopCasIgnored ==
    /\ At(Owner, "pop_cas")
    /\ top' = thread[Owner].t + 1
    /\ thread' = [thread EXCEPT ![Owner].step = "pop_reset"]
    /\ UNCHANGED <<bottom, buffer, pushed, taken, misused>>

\* The last task: compare-and-swap against the thieves.
PopCas ==
    /\ At(Owner, "pop_cas")
    /\ IF top = thread[Owner].t
       THEN /\ top' = top + 1
            /\ thread' = [thread EXCEPT ![Owner].step = "pop_reset"]
       ELSE /\ thread' = [thread EXCEPT ![Owner].step = "pop_lost"]
            /\ UNCHANGED top
    /\ UNCHANGED <<bottom, buffer, pushed, taken, misused>>

PopLost ==
    /\ At(Owner, "pop_lost")
    /\ bottom' = thread[Owner].t + 1
    /\ Done(Owner)
    /\ UNCHANGED <<top, buffer, pushed, taken, misused>>

PopReset ==
    /\ At(Owner, "pop_reset")
    /\ bottom' = thread[Owner].t + 1
    /\ Take(thread[Owner].task)
    /\ Done(Owner)
    /\ UNCHANGED <<top, buffer, pushed, misused>>

-----------------------------------------------------------------------------
(* deque_steal_top *)

StealTop(p) ==
    /\ At(p, "idle")
    /\ thread' = [thread EXCEPT ![p] = [Idle EXCEPT !.step = "steal_bottom", !.t = top]]
    /\ UNCHANGED <<top, bottom, buffer, pushed, taken, misused>>

StealBottom(p) ==
    /\ At(p, "steal_bottom")
    /\ IF thread[p].t >= bottom THEN Done(p)
       ELSE thread' = [thread EXCEPT ![p].step = "steal_read"]
    /\ UNCHANGED <<top, bottom, buffer, pushed, taken, misused>>

StealRead(p) ==
    /\ At(p, "steal_read")
    /\ thread' = [thread EXCEPT ![p].task = buffer[Slot(thread[p].t)],
                                ![p].step = "steal_cas"]
    /\ UNCHANGED <<top, bottom, buffer, pushed, taken, misused>>

StealCas(p) ==
    /\ At(p, "steal_cas")
    /\ IF top = thread[p].t
       THEN /\ top' = top + 1
            /\ Take(thread[p].task)
       ELSE UNCHANGED <<top, taken>>
    /\ Done(p)
    /\ UNCHANGED <<bottom, buffer, pushed, misused>>

-----------------------------------------------------------------------------
Push(p) == PushRead(p) \/ PushWrite(p) \/ PushPublish(p)

Pop == \/ PopRead \/ PopStore \/ PopTop \/ PopTask \/ PopEmpty
       \/ PopCas \/ PopLost \/ PopReset

Steal(p) == StealTop(p) \/ StealBottom(p) \/ StealRead(p) \/ StealCas(p)

Next ==
    \/ \E p \in Pushers : Push(p)
    \/ Pop
    \/ \E p \in Thieves : Steal(p)

Spec == Init /\ [][Next]_vars

-----------------------------------------------------------------------------
TypeOK ==
    /\ top \in Nat
    /\ bottom \in Nat
    /\ buffer \in [0 .. Capacity - 1 -> Tasks \cup {NoTask}]
    /\ pushed \in 0 .. MaxTasks
    /\ thread \in [Threads -> Locals]
    /\ taken \in [Tasks \cup {NoTask} -> Nat]
    /\ misused \in BOOLEAN

\* pop and steal hand out each task at most once, whoever wins the races between
\* the owner's swap of top and the thieves', and never a slot no push filled.
TakenOnce ==
    /\ taken[NoTask] = 0
    /\ \A k \in Tasks : taken[k] <= 1

\* The tasks in the deque, when no thread is in the middle of an operation.
Queued == {buffer[Slot(i)] : i \in top .. bottom - 1}

\* When no operation of deque_push_bottom, deque_pop_bottom or deque_steal_top is
\* under way, every task that was pushed is in the deque or was taken, and not
\* both: none is lost and none will be taken again.
NothingLost ==
    (\A p \in Threads : At(p, "idle")) =>
       \A k \in 1 .. pushed : (k \in Queued) = (taken[k] = 0)

\* deque_pop_bottom and deque_steal_top never return the same task twice, and a
\* task that was pushed is in the deque or one thread has it: no race of the
\* owner, a submitter and the thieves loses it, as long as no push has met another
\* push, a pop of the owner or a full buffer.
DequeExact == ~misused => TakenOnce /\ NothingLost
=============================================================================
