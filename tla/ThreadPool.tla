----------------------------- MODULE ThreadPool -----------------------------
(* The thread pool: creation, submission, the workers' loop, resizing, waiting *)
(* and graceful destruction.  A push and a pop have a beginning and an end, so *)
(* that they may overlap; WorkDeque has all their steps.  What a deque does    *)
(* after a push has met another push, a pop or a full buffer is not modelled:  *)
(* the pool is "misused" then.  A worker's waits have a timeout, so a worker   *)
(* without work is one that looks again.                                       *)
(* Sources: src/common/mcp_thread_pool.c, mcp_thread_pool_worker.c,            *)
(* mcp_thread_pool_tasks.c, mcp_thread_pool_stats.c.                           *)
EXTENDS Integers, Sequences, FiniteSets

CONSTANTS MaxThreads,      \* pool->max_thread_count
          MinThreads,      \* MIN_THREAD_COUNT
          OptimalThreads,  \* mcp_get_optimal_thread_count()
          DequeCapacity,   \* pool->deque_capacity
          Submitters,      \* threads that call mcp_thread_pool_add_task
          MaxTasks,        \* bound: tasks submitted
          MaxWorkers,      \* bound: threads ever created
          CanFail          \* TRUE: mcp_thread_create may fail

\* What the constants may be.
PoolConstants ==
    /\ MaxThreads \in Nat \ {0}
    /\ MinThreads \in Nat \ {0}
    /\ OptimalThreads \in Nat \ {0}
    /\ DequeCapacity \in Nat \ {0}
    /\ CanFail \in BOOLEAN
    /\ MaxTasks \in Nat
    /\ MaxWorkers \in Nat /\ MaxWorkers >= MaxThreads

VARIABLES pool,         \* none, creating, failing, ready, freed; crashed or misused
          thread_count, started, shutdown_flag,
          threads,      \* handle of the thread last started at each index
          worker_args,  \* the argument registered at each index
          worker,       \* each thread
          deques, next_submit_deque,
          tasks_submitted, tasks_completed, active_tasks,
          submitter,    \* each submitter: its step, task and target deque
          waiter,       \* the caller of mcp_thread_pool_wait
          early,        \* history: workers that ended before they were counted
          accepted,     \* history: tasks pushed, in any deque
          ran           \* history: tasks whose function returned

control == <<pool, thread_count, started, shutdown_flag, threads>>
history == <<early, accepted, ran>>
counts == <<tasks_submitted, tasks_completed, active_tasks>>
vars == <<control, worker_args, worker, deques, next_submit_deque, counts,
          submitter, waiter, history>>

PoolWorkers == 1 .. MaxWorkers
NoWorker == 0
Tasks == 1 .. MaxTasks
NoTask == 0
Indices == 0 .. MaxThreads - 1

\* should_exit is a field of the worker's argument, which the thread owns.
Absent == [pc |-> "absent", index |-> 0, task |-> NoTask,
           last_victim |-> 0, should_exit |-> FALSE]

NotAdding == [pc |-> "idle", task |-> NoTask, deque |-> 0]

\* Mutant: the deques are not initialized.
InitUnset ==
    /\ pool = "none"
    /\ thread_count = 0 /\ started = 0 /\ shutdown_flag = 0
    /\ threads = [i \in Indices |-> NoWorker]
    /\ worker_args = [i \in Indices |-> NoWorker]
    /\ worker = [w \in PoolWorkers |-> Absent]
    /\ deques = [i \in Indices |-> <<NoTask>>]
    /\ next_submit_deque = 0
    /\ tasks_submitted = 0 /\ tasks_completed = 0 /\ active_tasks = 0
    /\ submitter = [s \in Submitters |-> NotAdding]
    /\ waiter = [pc |-> "idle", target |-> 0]
    /\ early = {}
    /\ accepted = {}
    /\ ran = {}

Init ==
    /\ pool = "none"
    /\ thread_count = 0 /\ started = 0 /\ shutdown_flag = 0
    /\ threads = [i \in Indices |-> NoWorker]
    /\ worker_args = [i \in Indices |-> NoWorker]
    /\ worker = [w \in PoolWorkers |-> Absent]
    /\ deques = [i \in Indices |-> <<>>]
    /\ next_submit_deque = 0
    /\ tasks_submitted = 0 /\ tasks_completed = 0 /\ active_tasks = 0
    /\ submitter = [s \in Submitters |-> NotAdding]
    /\ waiter = [pc |-> "idle", target |-> 0]
    /\ early = {}
    /\ accepted = {}
    /\ ran = {}

Alive(w) == worker[w].pc \notin {"absent", "exited"}
Usable == pool \notin {"freed", "crashed", "misused"}

\* A push to deque i or a pop from it is under way.
InUse(i) ==
    \/ \E w \in PoolWorkers : worker[w].pc = "popping" /\ worker[w].index = i
    \/ \E s \in Submitters : submitter[s].pc = "pushing" /\ submitter[s].deque = i

-----------------------------------------------------------------------------
(* mcp_thread_pool_create: one thread after the other is started, and then     *)
(* counted.                                                                    *)

Create ==
    /\ pool = "none"
    /\ pool' = "creating"
    /\ UNCHANGED <<thread_count, started, shutdown_flag, threads, worker_args,
                   worker, deques, next_submit_deque, counts, submitter, waiter,
                   history>>

NewWorker(w, i) == [Absent EXCEPT !.pc = "created", !.index = i]

CreateThread ==
    /\ pool = "creating"
    /\ thread_count < MaxThreads
    /\ threads[thread_count] = NoWorker
    /\ LET i == thread_count
           w == i + 1
       IN  /\ worker' = [worker EXCEPT ![w] = NewWorker(w, i)]
           /\ worker_args' = [worker_args EXCEPT ![i] = w]
           /\ threads' = [threads EXCEPT ![i] = w]
    /\ UNCHANGED <<pool, thread_count, started, shutdown_flag, deques,
                   next_submit_deque, counts, submitter, waiter, history>>

CountThread ==
    /\ pool = "creating"
    /\ thread_count < MaxThreads
    /\ threads[thread_count] # NoWorker
    /\ thread_count' = thread_count + 1
    /\ started' = started + 1
    /\ pool' = IF thread_count + 1 = MaxThreads THEN "ready" ELSE pool
    /\ UNCHANGED <<shutdown_flag, threads, worker_args, worker, deques,
                   next_submit_deque, counts, submitter, waiter, history>>

\* mcp_thread_create or malloc fails: the threads started so far are told to
\* exit at once.
CreateFails ==
    /\ CanFail
    /\ pool = "creating"
    /\ thread_count < MaxThreads
    /\ threads[thread_count] = NoWorker
    /\ pool' = "failing"
    /\ shutdown_flag' = 1
    /\ UNCHANGED <<thread_count, started, threads, worker_args, worker, deques,
                   next_submit_deque, counts, submitter, waiter, history>>

\* The threads at the indices below started are joined.
Joined == \A i \in 0 .. started - 1 : ~Alive(threads[i])

CreateAbandoned ==
    /\ pool = "failing"
    /\ Joined
    /\ pool' = "freed"
    /\ UNCHANGED <<thread_count, started, shutdown_flag, threads, worker_args,
                   worker, deques, next_submit_deque, counts, submitter, waiter,
                   history>>

-----------------------------------------------------------------------------
(* thread_pool_worker *)

Goto(w, pc) == worker' = [worker EXCEPT ![w].pc = pc]

\* The first victim is computed modulo thread_count, which is 0 when the first
\* worker is faster than its creator.
Begin(w) ==
    /\ worker[w].pc = "created"
    /\ IF thread_count = 0
       THEN /\ pool' = "crashed"
            /\ UNCHANGED <<worker, worker_args>>
       ELSE /\ worker' = [worker EXCEPT
                   ![w].pc = "check",
                   ![w].last_victim = (worker[w].index + 1) % thread_count]
            /\ worker_args' = [worker_args EXCEPT ![worker[w].index] = w]
            /\ UNCHANGED pool
    /\ UNCHANGED <<thread_count, started, shutdown_flag, threads, deques,
                   next_submit_deque, counts, submitter, waiter, history>>

\* Mutant: shutdown is looked at before the worker's own deque.
CheckShutdownFirst(w) ==
    /\ worker[w].pc = "check"
    /\ Goto(w, IF shutdown_flag # 0 THEN "leaving" ELSE "pop")
    /\ UNCHANGED <<control, worker_args, deques, next_submit_deque, counts,
                   submitter, waiter, history>>

Check(w) ==
    /\ worker[w].pc = "check"
    /\ Goto(w, IF worker[w].should_exit \/ worker[w].index >= thread_count
               THEN "leaving" ELSE "pop")
    /\ early' = IF pool = "creating" /\ worker[w].index >= thread_count
                THEN early \cup {w} ELSE early
    /\ UNCHANGED <<control, worker_args, deques, next_submit_deque, counts,
                   submitter, waiter, accepted, ran>>

\* deque_pop_bottom begins: it is for the owner only, but a push, or the pop of
\* another worker with this index, may be under way.
PopBegin(w) ==
    /\ worker[w].pc = "pop"
    /\ Goto(w, "popping")
    /\ pool' = IF InUse(worker[w].index) THEN "misused" ELSE pool
    /\ UNCHANGED <<thread_count, started, shutdown_flag, threads, worker_args, deques,
                   next_submit_deque, counts, submitter, waiter, history>>

Bottom(q) == q[Len(q)]

\* The owner takes from the bottom of its deque.
Pop(w) ==
    LET i == worker[w].index
        q == deques[i]
    IN  /\ worker[w].pc = "popping"
        /\ IF q = <<>>
           THEN /\ Goto(w, "empty")
                /\ UNCHANGED deques
           ELSE /\ worker' = [worker EXCEPT ![w].pc = "popped",
                                            ![w].task = Bottom(q)]
                /\ deques' = [deques EXCEPT ![i] = SubSeq(q, 1, Len(q) - 1)]
        /\ UNCHANGED <<control, worker_args, next_submit_deque, counts,
                       submitter, waiter, history>>

CountActive(w) ==
    /\ worker[w].pc = "popped"
    /\ active_tasks' = active_tasks + 1
    /\ Goto(w, "running")
    /\ UNCHANGED <<control, worker_args, deques, next_submit_deque,
                   tasks_submitted, tasks_completed, submitter, waiter, history>>

\* The task's function returns.
Run(w) ==
    /\ worker[w].pc = "running"
    /\ ran' = ran \cup {worker[w].task}
    /\ Goto(w, "ran")
    /\ UNCHANGED <<control, worker_args, deques, next_submit_deque, counts,
                   submitter, waiter, early, accepted>>

CountCompleted(w) ==
    /\ worker[w].pc = "ran"
    /\ tasks_completed' = tasks_completed + 1
    /\ Goto(w, "completed")
    /\ UNCHANGED <<control, worker_args, deques, next_submit_deque,
                   tasks_submitted, active_tasks, submitter, waiter, history>>

CountInactive(w) ==
    /\ worker[w].pc = "completed"
    /\ active_tasks' = active_tasks - 1
    /\ worker' = [worker EXCEPT ![w].pc = "check", ![w].task = NoTask]
    /\ UNCHANGED <<control, worker_args, deques, next_submit_deque,
                   tasks_submitted, tasks_completed, submitter, waiter, history>>

\* Mutant: a worker leaves only while another one is running a task.
MayLeaveBusy ==
    \/ shutdown_flag = 1
    \/ /\ shutdown_flag = 2
       /\ \A i \in 0 .. thread_count - 1 : deques[i] = <<>>
       /\ active_tasks # 0

\* Only the deques below thread_count are looked at.
MayLeave ==
    \/ shutdown_flag = 1
    \/ /\ shutdown_flag = 2
       /\ \A i \in 0 .. thread_count - 1 : deques[i] = <<>>
       /\ active_tasks = 0

ShutdownCheck(w) ==
    /\ worker[w].pc = "empty"
    /\ Goto(w, IF MayLeave THEN "leaving"
               ELSE IF thread_count > 1 THEN "steal" ELSE "nowork")
    /\ UNCHANGED <<control, worker_args, deques, next_submit_deque, counts,
                   submitter, waiter, history>>

\* The victim is the fullest deque, the last victim or a random one; the last
\* victim may be beyond thread_count by now.  A thief takes from the top.
Steal(w) ==
    \E v \in (0 .. thread_count - 1) \cup {worker[w].last_victim} :
       /\ worker[w].pc = "steal"
       /\ deques[v] # <<>>
       /\ worker' = [worker EXCEPT ![w].pc = "popped",
                                   ![w].task = Head(deques[v]),
                                   ![w].last_victim = v]
       /\ deques' = [deques EXCEPT ![v] = Tail(@)]
       /\ UNCHANGED <<control, worker_args, next_submit_deque, counts,
                      submitter, waiter, history>>

\* The victim was empty, or another thread was faster.
StealFails(w) ==
    /\ worker[w].pc = "steal"
    /\ Goto(w, "nowork")
    /\ UNCHANGED <<control, worker_args, deques, next_submit_deque, counts,
                   submitter, waiter, history>>

\* The worker tries again at once, or takes the mutex, may leave, or waits for a
\* notification or the timeout.
NoWork(w) ==
    /\ worker[w].pc = "nowork"
    /\ \E waits \in BOOLEAN :
          Goto(w, IF waits /\ MayLeave THEN "leaving" ELSE "check")
    /\ UNCHANGED <<control, worker_args, deques, next_submit_deque, counts,
                   submitter, waiter, history>>

\* The argument is freed ...
Leave(w) ==
    /\ worker[w].pc = "leaving"
    /\ Goto(w, "left")
    /\ UNCHANGED <<control, worker_args, deques, next_submit_deque, counts,
                   submitter, waiter, history>>

\* ... and then the slot is cleared, whoever is registered there.
Exit(w) ==
    /\ worker[w].pc = "left"
    /\ Goto(w, "exited")
    /\ worker_args' = [worker_args EXCEPT ![worker[w].index] = NoWorker]
    /\ UNCHANGED <<control, deques, next_submit_deque, counts, submitter, waiter,
                   history>>

Work(w) ==
    /\ Usable
    /\ \/ Begin(w) \/ Check(w) \/ PopBegin(w) \/ Pop(w) \/ CountActive(w) \/ Run(w)
       \/ CountCompleted(w) \/ CountInactive(w) \/ ShutdownCheck(w) \/ Steal(w)
       \/ StealFails(w) \/ NoWork(w) \/ Leave(w) \/ Exit(w)

-----------------------------------------------------------------------------
(* mcp_thread_pool_add_task *)

AddCheck(s) ==
    /\ pool = "ready"
    /\ shutdown_flag = 0
    /\ submitter[s].pc = "idle"
    /\ \E k \in Tasks \ (accepted \cup {submitter[r].task : r \in Submitters}) :
          /\ \A j \in 1 .. k - 1 :
                j \in accepted \cup {submitter[r].task : r \in Submitters}
          /\ submitter' = [submitter EXCEPT ![s].pc = "push", ![s].task = k]
    /\ UNCHANGED <<control, worker_args, worker, deques, next_submit_deque, counts,
                   waiter, history>>

\* The tasks are dealt to all max_thread_count deques in turn.  The submitter
\* calls deque_push_bottom, whoever else pushes or pops, and the push does not
\* look whether the buffer is full.
AddPushBegin(s) ==
    LET i == next_submit_deque
    IN  /\ Usable
        /\ submitter[s].pc = "push"
        /\ next_submit_deque' = (i + 1) % MaxThreads
        /\ submitter' = [submitter EXCEPT ![s].pc = "pushing", ![s].deque = i]
        /\ pool' = IF InUse(i) \/ Len(deques[i]) >= DequeCapacity
                   THEN "misused" ELSE pool
        /\ UNCHANGED <<thread_count, started, shutdown_flag, threads, worker_args,
                       worker, deques, counts, waiter, history>>

\* Mutant: the task is counted as accepted but in no deque.
AddPushLost(s) ==
    /\ Usable
    /\ submitter[s].pc = "pushing"
    /\ accepted' = accepted \cup {submitter[s].task}
    /\ submitter' = [submitter EXCEPT ![s].pc = "count"]
    /\ UNCHANGED <<control, worker_args, worker, deques, next_submit_deque, counts,
                   waiter, early, ran>>

\* A push always succeeds, so the search for another deque is never made.
AddPush(s) ==
    /\ Usable
    /\ submitter[s].pc = "pushing"
    /\ deques' = [deques EXCEPT ![submitter[s].deque] = Append(@, submitter[s].task)]
    /\ accepted' = accepted \cup {submitter[s].task}
    /\ submitter' = [submitter EXCEPT ![s].pc = "count"]
    /\ UNCHANGED <<control, worker_args, worker, next_submit_deque, counts, waiter,
                   early, ran>>

AddCount(s) ==
    /\ Usable
    /\ submitter[s].pc = "count"
    /\ tasks_submitted' = tasks_submitted + 1
    /\ submitter' = [submitter EXCEPT ![s] = NotAdding]
    /\ UNCHANGED <<control, worker_args, worker, deques, next_submit_deque,
                   tasks_completed, active_tasks, waiter, history>>

Add(s) == AddCheck(s) \/ AddPushBegin(s) \/ AddPush(s) \/ AddCount(s)

-----------------------------------------------------------------------------
(* mcp_thread_pool_wait, with its timeout or without *)

Wait ==
    /\ pool = "ready"
    /\ shutdown_flag = 0
    /\ waiter.pc = "idle"
    /\ tasks_submitted # 0
    /\ tasks_completed < tasks_submitted
    /\ waiter' = [pc |-> "waiting", target |-> tasks_submitted]
    /\ UNCHANGED <<control, worker_args, worker, deques, next_submit_deque, counts,
                   submitter, history>>

WaitOver ==
    \/ tasks_completed >= waiter.target
    \/ /\ \A i \in Indices : deques[i] = <<>>
       /\ active_tasks = 0

WaitReturn ==
    /\ Usable
    /\ waiter.pc = "waiting"
    /\ WaitOver
    /\ waiter' = [waiter EXCEPT !.pc = "returned"]
    /\ UNCHANGED <<control, worker_args, worker, deques, next_submit_deque, counts,
                   submitter, history>>

WaitTimeout ==
    /\ Usable
    /\ waiter.pc = "waiting"
    /\ ~WaitOver
    /\ waiter' = [waiter EXCEPT !.pc = "expired"]
    /\ UNCHANGED <<control, worker_args, worker, deques, next_submit_deque, counts,
                   submitter, history>>

-----------------------------------------------------------------------------
(* mcp_thread_pool_resize, under the write lock: a worker that is created meets *)
(* the lock before it looks at thread_count.                                   *)

\* mcp_thread_pool_smart_adjust: one more or one less, or the recommended
\* number, depending on the load.
Targets ==
    {n \in {thread_count + 1, thread_count - 1, OptimalThreads} :
        /\ n # 0
        /\ n = thread_count + 1 =>
              thread_count < OptimalThreads + OptimalThreads \div 2
        /\ n = thread_count - 1 => thread_count > MinThreads}

Clamped(n) == IF n < MinThreads THEN MinThreads
              ELSE IF n > MaxThreads THEN MaxThreads ELSE n

\* Mutant: one worker too many is told to exit.
ShrinkOneMore(n) ==
    /\ n < thread_count
    /\ worker' = [w \in PoolWorkers |->
          IF \E i \in n - 1 .. thread_count - 1 : worker_args[i] = w
          THEN [worker[w] EXCEPT !.should_exit = TRUE] ELSE worker[w]]
    /\ thread_count' = n
    /\ UNCHANGED <<threads, worker_args>>

\* A registered argument is told to exit.
Shrink(n) ==
    /\ n < thread_count
    /\ worker' = [w \in PoolWorkers |->
          IF \E i \in n .. thread_count - 1 : worker_args[i] = w
          THEN [worker[w] EXCEPT !.should_exit = TRUE] ELSE worker[w]]
    /\ thread_count' = n
    /\ UNCHANGED <<threads, worker_args>>

Unused == {w \in PoolWorkers : worker[w].pc = "absent"}

\* New threads take the indices from thread_count up; when one cannot be created
\* those created before it stay.
Expand(n) ==
    LET lowest == CHOOSE w \in Unused : \A v \in Unused : w <= v
        new(i) == lowest + (i - thread_count)
        added == thread_count .. n - 1
    IN  /\ n >= thread_count
        /\ Cardinality(Unused) >= n - thread_count
        /\ worker' = [w \in PoolWorkers |->
              IF \E i \in added : new(i) = w
              THEN NewWorker(w, CHOOSE i \in added : new(i) = w) ELSE worker[w]]
        /\ threads' = [i \in Indices |-> IF i \in added THEN new(i) ELSE threads[i]]
        /\ worker_args' = [i \in Indices |->
                              IF i \in added THEN new(i) ELSE worker_args[i]]
        /\ thread_count' = n

Resize ==
    /\ pool = "ready"
    /\ shutdown_flag = 0
    /\ \E n \in Targets :
          /\ n # thread_count
          /\ \/ Shrink(Clamped(n))
             \/ \E m \in IF CanFail THEN thread_count .. Clamped(n)
                         ELSE {Clamped(n)} : Expand(m)
    /\ UNCHANGED <<pool, started, shutdown_flag, deques, next_submit_deque, counts,
                   submitter, waiter, history>>

-----------------------------------------------------------------------------
(* mcp_thread_pool_destroy, called when nobody submits or waits any more       *)

Destroy ==
    /\ pool = "ready"
    /\ shutdown_flag = 0
    /\ \A s \in Submitters : submitter[s].pc = "idle"
    /\ waiter.pc # "waiting"
    /\ shutdown_flag' = 2
    /\ UNCHANGED <<pool, thread_count, started, threads, worker_args, worker,
                   deques, next_submit_deque, counts, submitter, waiter, history>>

Free ==
    /\ pool = "ready"
    /\ shutdown_flag = 2
    /\ Joined
    /\ pool' = "freed"
    /\ UNCHANGED <<thread_count, started, shutdown_flag, threads, worker_args,
                   worker, deques, next_submit_deque, counts, submitter, waiter,
                   history>>

-----------------------------------------------------------------------------
\* Everything but mcp_thread_pool_wait, which changes nothing another thread sees.
Operations ==
    \/ Create \/ CreateThread \/ CountThread \/ CreateFails \/ CreateAbandoned
    \/ \E w \in PoolWorkers : Work(w)
    \/ \E s \in Submitters : Add(s)
    \/ Destroy \/ Free

Next == Operations \/ Wait \/ WaitReturn \/ WaitTimeout

\* With a thread that adjusts the size of the pool.
AdjustedNext == Next \/ Resize

Spec == Init /\ [][Next]_vars

AdjustedSpec == Init /\ [][AdjustedNext]_vars

\* A task's function returns, a thread is scheduled, creation, submission and
\* joining go on; and of a worker's attempts to steal every eighth looks through
\* all the deques, so that a task does not stay in one that nobody owns.  Nobody is
\* obliged to create the pool, to submit, to wait or to destroy it.
Fairness ==
    /\ WF_vars(CountThread \/ CreateAbandoned \/ Free)
    /\ WF_vars(CreateThread)
    /\ \A w \in PoolWorkers : WF_vars(Work(w)) /\ SF_vars(Usable /\ Steal(w))
    /\ \A s \in Submitters : WF_vars(AddPushBegin(s) \/ AddPush(s) \/ AddCount(s))

-----------------------------------------------------------------------------
TypeOK ==
    /\ pool \in {"none", "creating", "failing", "ready", "freed", "crashed", "misused"}
    /\ thread_count \in 0 .. MaxThreads
    /\ started \in 0 .. MaxThreads
    /\ shutdown_flag \in 0 .. 2
    /\ threads \in [Indices -> PoolWorkers \cup {NoWorker}]
    /\ worker_args \in [Indices -> PoolWorkers \cup {NoWorker}]
    /\ worker \in [PoolWorkers ->
          [pc : {"absent", "created", "check", "pop", "popping", "popped", "running",
                 "ran", "completed", "empty", "steal", "nowork", "leaving", "left",
                 "exited"},
           index : Indices, task : Tasks \cup {NoTask}, last_victim : Indices,
           should_exit : BOOLEAN]]
    /\ \A i \in Indices : \A j \in 1 .. Len(deques[i]) : deques[i][j] \in Tasks
    /\ next_submit_deque \in Indices
    /\ tasks_submitted \in 0 .. MaxTasks
    /\ tasks_completed \in 0 .. MaxTasks
    /\ active_tasks \in 0 .. MaxTasks
    /\ submitter \in [Submitters -> [pc : {"idle", "push", "pushing", "count"},
                                     task : Tasks \cup {NoTask}, deque : Indices]]
    /\ waiter \in [pc : {"idle", "waiting", "returned", "expired"},
                   target : 0 .. MaxTasks]
    /\ early \subseteq PoolWorkers
    /\ accepted \subseteq Tasks
    /\ ran \subseteq Tasks

\* Every index below thread_count has a worker that has not decided to exit, as
\* long as the pool is not shut down: a deque that tasks are dealt to and that
\* counts as served (by create or by resize) is served.  The exception is a worker
\* that mcp_thread_pool_create had not counted yet when it looked.
DequesServed ==
    (pool = "ready" /\ shutdown_flag = 0) =>
       \A i \in 0 .. thread_count - 1 :
          \/ threads[i] \in early
          \/ \E w \in PoolWorkers :
                /\ worker[w].index = i
                /\ worker[w].pc \notin {"absent", "leaving", "left", "exited"}
                /\ ~worker[w].should_exit

\* When mcp_thread_pool_destroy has freed the pool, every task that was accepted
\* has been run: it "Waits for all queued tasks to complete".  (A pool one of
\* whose deques was misused is not followed so far.)
DestroyDrains == pool = "freed" => accepted \subseteq ran

\* ... and no worker thread is left: it "joins all worker threads before freeing
\* resources".
DestroyJoinsAll == pool = "freed" => \A w \in PoolWorkers : ~Alive(w)

\* A submitted task is run, also when the pool is destroyed meanwhile, unless a push
\* meets another push, a pop or a full buffer of its deque.
TasksRun == \A k \in Tasks : k \in accepted ~> (k \in ran \/ pool = "misused")

\* mcp_thread_pool_destroy, and a creation that failed, come to an end, also when
\* two workers have one index, up to a deque that both use at once.
DestroyReturns == shutdown_flag # 0 ~> pool \in {"freed", "misused"}
=============================================================================
