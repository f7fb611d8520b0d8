----------------------------- MODULE ThreadPool -----------------------------
(***************************************************************************)
(* The thread pool of version 4 (v4/thread_pool/thread_pool.c): a ring     *)
(* buffer of tasks protected by one mutex and one condition variable,      *)
(* not_empty.  Workers wait on it for a task and ThreadPoolAddTask waits   *)
(* on it for space.  A task may itself add one more task to the same pool  *)
(* while a worker runs it, as new_submission does for worker_task.         *)
(*                                                                         *)
(* One action is one stretch of code that no other thread can observe half *)
(* done.  All of the queue is touched under the mutex only, so a critical  *)
(* section is one action, except that a worker's test of the predicate and *)
(* its pthread_cond_wait are two: ThreadPoolCleanup writes shutdown and    *)
(* broadcasts without taking the mutex, and can come in between.           *)
(***************************************************************************)
EXTENDS Naturals, Sequences, Functions

CONSTANTS
    Workers,     \* the threads ThreadPoolInit creates
    Submitters,  \* threads outside the pool that call it (the server's main)
    Tasks,       \* the (function, argument) pairs handed to the pool
    Spawns,      \* Spawns[t]: the task that t's function adds, or NoTask
    Endless,     \* tasks whose function never returns
    Teardown,    \* which of ThreadPoolWait and ThreadPoolCleanup are called
    QueueSize,   \* QUEUE_SIZE, thread_pool.h:8
    NoTask, Nobody

ASSUME PoolAssumption ==
    /\ Workers \cap Submitters = {}
    /\ Nobody \notin Workers \cup Submitters
    /\ NoTask \notin Tasks
    /\ QueueSize \in Nat \ {0}
    /\ Spawns \in [Tasks -> Tasks \cup {NoTask}]
    /\ \A t, u \in Tasks : Spawns[t] = Spawns[u] /\ t # u => Spawns[t] = NoTask
    /\ Endless \subseteq Tasks
    /\ Teardown \subseteq {"ThreadPoolWait", "ThreadPoolCleanup"}

VARIABLES
    task_queue,   \* pool->task_queue, indexed from 0
    front, rear,  \* pool->front, pool->rear
    shutdown,     \* pool->shutdown
    lock,         \* the holder of pool->lock, or Nobody
    not_empty,    \* the threads asleep on pool->not_empty
    pc,           \* where each thread is
    adding,       \* the arguments of each thread's ThreadPoolAddTask call
    hand,         \* each worker's local variable task (line 22)
    submitted,    \* history: tasks for which ThreadPoolAddTask was called
    done          \* history: tasks whose function has returned

queue == <<task_queue, front, rear>>
vars == <<task_queue, front, rear, shutdown, lock, not_empty, pc, adding, hand,
          submitted, done>>

Threads == Workers \cup Submitters

\* Tasks that come from outside the pool.
Roots == Tasks \ Range(Spawns)

Slots == 0 .. QueueSize - 1

\* The number of queued tasks, and those tasks, oldest first.
Count == IF front <= rear THEN rear - front ELSE rear + QueueSize - front
Pending == [i \in 1 .. Count |-> task_queue[(front + i - 1) % QueueSize]]

\* The two tests of the code (lines 11 and 66).
Empty == front = rear

\* Mutant: the test of line 66 without the modulo.
FullNoWrap == rear + 1 = front

Full == (rear + 1) % QueueSize = front

Init ==
    /\ task_queue = [i \in Slots |-> NoTask]
    /\ front = 0
    /\ rear = 0
    /\ shutdown = FALSE
    /\ lock = Nobody
    /\ not_empty = {}
    /\ pc = [t \in Threads |-> IF t \in Workers THEN "lock" ELSE "idle"]
    /\ adding = [t \in Threads |-> NoTask]
    /\ hand = [w \in Workers |-> NoTask]
    /\ submitted = {}
    /\ done = {}

-----------------------------------------------------------------------------
(* Mutex and condition variable.                                           *)

Goto(t, from, to) ==
    /\ pc[t] = from
    /\ pc' = [pc EXCEPT ![t] = to]

\* pthread_mutex_lock, and the return of pthread_cond_wait for a thread that
\* has been woken: both end with the mutex held.
Acquire(t, from, to) ==
    /\ Goto(t, from, to)
    /\ t \notin not_empty
    /\ lock = Nobody
    /\ lock' = t
    /\ UNCHANGED <<queue, shutdown, not_empty, adding, hand, submitted, done>>

\* pthread_cond_wait: fall asleep and release the mutex in one step.
Sleep(t, from, to) ==
    /\ Goto(t, from, to)
    /\ not_empty' = not_empty \cup {t}
    /\ lock' = Nobody
    /\ UNCHANGED <<queue, shutdown, adding, hand, submitted, done>>

\* Mutants: no signal at all, and a signal only into an empty queue.
SignalNobody == UNCHANGED not_empty
SignalIfEmpty ==
    IF Empty /\ not_empty # {} THEN \E t \in not_empty : not_empty' = not_empty \ {t}
                              ELSE UNCHANGED not_empty

\* pthread_cond_signal: wake one sleeper, whichever it is and whatever it
\* waits for; nothing happens when there is none.
Signal ==
    \/ not_empty = {} /\ UNCHANGED not_empty
    \/ \E t \in not_empty : not_empty' = not_empty \ {t}

\* POSIX lets pthread_cond_wait return without a signal.
SpuriousWakeup(t) ==
    /\ t \in not_empty
    /\ not_empty' = not_empty \ {t}
    /\ UNCHANGED <<queue, shutdown, lock, pc, adding, hand, submitted, done>>

-----------------------------------------------------------------------------
(* ThreadWorker                                                            *)

WorkerLock(w) == Acquire(w, "lock", "test")

\* Line 11 finds the queue empty: the worker is about to wait.
WorkerSeesEmpty(w) ==
    /\ Empty /\ ~ shutdown
    /\ Goto(w, "test", "to_wait")
    /\ UNCHANGED <<queue, shutdown, lock, not_empty, adding, hand, submitted, done>>

WorkerWait(w) == Sleep(w, "to_wait", "await_task")

WorkerWake(w) == Acquire(w, "await_task", "test")

WorkerExit(w) ==
    /\ shutdown
    /\ Goto(w, "test", "exited")
    /\ lock' = Nobody
    /\ UNCHANGED <<queue, shutdown, not_empty, adding, hand, submitted, done>>

\* Mutant: front is not taken round the end of the array.
WorkerTakeNoWrap(w) ==
    /\ ~ Empty /\ ~ shutdown
    /\ Goto(w, "test", "run")
    /\ hand' = [hand EXCEPT ![w] = task_queue[front]]
    /\ front' = front + 1
    /\ lock' = Nobody
    /\ UNCHANGED <<task_queue, rear, shutdown, not_empty, adding, submitted, done>>

WorkerTake(w) ==
    /\ ~ Empty /\ ~ shutdown
    /\ Goto(w, "test", "run")
    /\ hand' = [hand EXCEPT ![w] = task_queue[front]]
    /\ front' = (front + 1) % QueueSize
    /\ lock' = Nobody
    /\ UNCHANGED <<task_queue, rear, shutdown, not_empty, adding, submitted, done>>

\* task.function calls ThreadPoolAddTask.
TaskSpawns(w) ==
    /\ Goto(w, "run", "add_lock")
    /\ Spawns[hand[w]] # NoTask
    /\ adding' = [adding EXCEPT ![w] = Spawns[hand[w]]]
    /\ submitted' = submitted \cup {Spawns[hand[w]]}
    /\ UNCHANGED <<queue, shutdown, lock, not_empty, hand, done>>

\* task.function returns and the worker goes back to line 10.
TaskReturns(w) ==
    /\ \/ Goto(w, "ran", "lock")
       \/ Goto(w, "run", "lock") /\ Spawns[hand[w]] = NoTask
    /\ hand[w] \notin Endless
    /\ done' = done \cup {hand[w]}
    /\ hand' = [hand EXCEPT ![w] = NoTask]
    /\ UNCHANGED <<queue, shutdown, lock, not_empty, adding, submitted>>

-----------------------------------------------------------------------------
(* ThreadPoolAddTask                                                       *)

\* A thread outside the pool calls it with a task of its own.
Submit(s) ==
    \E t \in Roots \ submitted :
        /\ Goto(s, "idle", "add_lock")
        /\ adding' = [adding EXCEPT ![s] = t]
        /\ submitted' = submitted \cup {t}
        /\ UNCHANGED <<queue, shutdown, lock, not_empty, hand, done>>

AddLock(t) == Acquire(t, "add_lock", "add_test")

\* Nothing the adder reads can change between its test and its wait, so the
\* two are one step.
AddWait(t) == Full /\ Sleep(t, "add_test", "await_space")

AddWake(t) == Acquire(t, "await_space", "add_test")

AddPut(t) ==
    /\ ~ Full
    /\ Goto(t, "add_test", IF t \in Workers THEN "ran" ELSE "idle")
    /\ task_queue' = [task_queue EXCEPT ![rear] = adding[t]]
    /\ rear' = (rear + 1) % QueueSize
    /\ adding' = [adding EXCEPT ![t] = NoTask]
    /\ Signal
    /\ lock' = Nobody
    /\ UNCHANGED <<front, shutdown, hand, submitted, done>>

-----------------------------------------------------------------------------
(* ThreadPoolWait and ThreadPoolCleanup.  The server's main has both calls *)
(* after an endless loop; they are modelled as the pool's interface.       *)

ThreadPoolWait(s) ==
    /\ "ThreadPoolWait" \in Teardown
    /\ Goto(s, "idle", "join")
    /\ UNCHANGED <<queue, shutdown, lock, not_empty, adding, hand, submitted, done>>

\* Line 92, without the mutex.
CleanupStart(s) ==
    /\ "ThreadPoolCleanup" \in Teardown
    /\ Goto(s, "idle", "broadcast")
    /\ shutdown' = TRUE
    /\ UNCHANGED <<queue, lock, not_empty, adding, hand, submitted, done>>

\* Line 94, without the mutex.
CleanupBroadcast(s) ==
    /\ Goto(s, "broadcast", "join")
    /\ not_empty' = {}
    /\ UNCHANGED <<queue, shutdown, lock, adding, hand, submitted, done>>

\* The joins of lines 81-83 and 96-98 return when every thread has exited.
JoinReturns(s) ==
    /\ \A w \in Workers : pc[w] = "exited"
    /\ Goto(s, "join", "joined")
    /\ UNCHANGED <<queue, shutdown, lock, not_empty, adding, hand, submitted, done>>

-----------------------------------------------------------------------------

AddStep(t) == AddLock(t) \/ AddWait(t) \/ AddWake(t) \/ AddPut(t)

WorkerStep(w) ==
    \/ WorkerLock(w) \/ WorkerSeesEmpty(w) \/ WorkerWait(w) \/ WorkerWake(w)
    \/ WorkerExit(w) \/ WorkerTake(w) \/ TaskSpawns(w) \/ TaskReturns(w)
    \/ AddStep(w)

SubmitterStep(s) == AddStep(s) \/ CleanupBroadcast(s) \/ JoinReturns(s)

Next ==
    \/ \E w \in Workers : WorkerStep(w)
    \/ \E s \in Submitters :
          SubmitterStep(s) \/ Submit(s) \/ ThreadPoolWait(s) \/ CleanupStart(s)
    \/ \E t \in Threads : SpuriousWakeup(t)

Spec == Init /\ [][Next]_vars

(***************************************************************************)
(* The scheduler runs every thread that can run, a thread that waits for   *)
(* the mutex gets it if it is released again and again, and the functions  *)
(* of tasks outside Endless return.  No call has to be made, and no wakeup *)
(* may be counted on except the code's own signals.                        *)
(***************************************************************************)
Acquires(t) ==
    \/ AddLock(t) \/ AddWake(t)
    \/ t \in Workers /\ (WorkerLock(t) \/ WorkerWake(t))

Fairness ==
    /\ \A w \in Workers : WF_vars(WorkerStep(w))
    /\ \A s \in Submitters : WF_vars(SubmitterStep(s))
    /\ \A t \in Threads : SF_vars(Acquires(t))

FairSpec == Spec /\ Fairness

-----------------------------------------------------------------------------
(* Properties                                                              *)

WorkerPCs == {"lock", "test", "to_wait", "await_task", "run", "ran", "exited"}
AddPCs == {"add_lock", "add_test", "await_space"}
SubmitterPCs == {"idle", "broadcast", "join", "joined"}

\* The type invariant, with who may hold the mutex or sleep where.
TypeOK ==
    /\ task_queue \in [Slots -> Tasks \cup {NoTask}]
    /\ front \in Slots
    /\ rear \in Slots
    /\ shutdown \in BOOLEAN
    /\ lock \in Threads \cup {Nobody}
    /\ not_empty \subseteq Threads
    /\ pc \in [Threads -> WorkerPCs \cup AddPCs \cup SubmitterPCs]
    /\ \A w \in Workers : pc[w] \notin SubmitterPCs
    /\ \A s \in Submitters : pc[s] \notin WorkerPCs
    /\ adding \in [Threads -> Tasks \cup {NoTask}]
    /\ hand \in [Workers -> Tasks \cup {NoTask}]
    /\ submitted \subseteq Tasks
    /\ done \subseteq submitted

(***************************************************************************)
(* The one condition variable serves two purposes, so a signal can reach a *)
(* thread that has no use for it.  As long as the queue is not full this   *)
(* strands no task: while one is queued, some worker is awake, or some     *)
(* thread that was waiting for space is, and will add its task and signal  *)
(* again (thread_pool.c:11-14, 66-75).                                     *)
(***************************************************************************)
NoTaskStranded ==
    Workers # {} /\ ~ shutdown /\ ~ Empty /\ ~ Full =>
        \E t \in Threads \ not_empty :
            t \in Workers \/ pc[t] \in {"add_test", "await_space"}

(***************************************************************************)
(* The ring buffer, its indices and its locking implement a bounded FIFO   *)
(* queue of one slot less than the array has: tasks are begun in the order *)
(* they were added, none is lost, overwritten, or begun twice              *)
(* (thread_pool.c:22-23, 66-73).                                           *)
(***************************************************************************)
Queue == INSTANCE TaskQueue
    WITH Capacity <- QueueSize - 1, pending <- Pending, running <- hand, finished <- done

ImplementsTaskQueue == Queue!QueueSpec

(***************************************************************************)
(* Every task the pool has been given is run and finishes, whoever the     *)
(* signals reach and however often the queue is full: with fewer endless   *)
(* tasks than workers, in a pool that is not shut down, and unless a call  *)
(* of ThreadPoolAddTask waits for ever (thread_pool.c:9-29, 62-77).        *)
(***************************************************************************)
AddsReturn == \A t \in Threads : []<>(pc[t] \notin AddPCs)

EveryTaskRuns ==
    [] ~ shutdown /\ AddsReturn =>
        \A t \in Tasks \ Endless : t \in submitted ~> t \in done

(***************************************************************************)
(* thread_pool.c:67, "Wait for space in the task queue": a call of         *)
(* ThreadPoolAddTask returns.  It need not, even for a thread outside the  *)
(* pool while the workers run every task: a worker that makes space        *)
(* signals nobody (lines 22-25).                                           *)
(***************************************************************************)
AddTaskReturns ==
    \A s \in Submitters : pc[s] \in AddPCs ~> pc[s] \notin AddPCs

=============================================================================
