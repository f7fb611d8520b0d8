------------------------------ MODULE TaskQueue ------------------------------
(***************************************************************************)
(* What the thread pool promises to the code that uses it, with no         *)
(* threads, locks or ring buffer: a bounded FIFO queue of tasks, each      *)
(* taken by one worker, run once and finished.  ThreadPool is shown to     *)
(* implement this module, and GraderServer is written on top of it.        *)
(***************************************************************************)
EXTENDS Naturals, Sequences, Functions

CONSTANTS
    Workers,    \* the threads of the pool
    Tasks,      \* the tasks that can be handed to it
    Capacity,   \* how many tasks can be queued at once
    NoTask      \* "this worker runs nothing"

ASSUME QueueAssumption ==
    /\ Capacity \in Nat
    /\ NoTask \notin Tasks

VARIABLES
    pending,    \* the queued tasks, oldest first
    running,    \* for each worker, the task it runs
    finished    \* the tasks whose function has returned

queueVars == <<pending, running, finished>>

QueueInit ==
    /\ pending = <<>>
    /\ running = [w \in Workers |-> NoTask]
    /\ finished = {}

\* A task is known from the moment it is queued, and for ever after.
Known(t) == t \in Range(pending) \cup Range(running) \cup finished

\* Mutant: a full queue is not waited for.
AddUnbounded(t) ==
    /\ ~ Known(t)
    /\ pending' = Append(pending, t)
    /\ UNCHANGED <<running, finished>>

Add(t) ==
    /\ ~ Known(t)
    /\ Len(pending) < Capacity
    /\ pending' = Append(pending, t)
    /\ UNCHANGED <<running, finished>>

Begin(w) ==
    /\ running[w] = NoTask
    /\ pending # <<>>
    /\ running' = [running EXCEPT ![w] = Head(pending)]
    /\ pending' = Tail(pending)
    /\ UNCHANGED finished

Finish(w) ==
    /\ running[w] # NoTask
    /\ finished' = finished \cup {running[w]}
    /\ running' = [running EXCEPT ![w] = NoTask]
    /\ UNCHANGED pending

QueueNext ==
    \/ \E t \in Tasks : Add(t)
    \/ \E w \in Workers : Begin(w) \/ Finish(w)

QueueSpec == QueueInit /\ [][QueueNext]_queueVars

-----------------------------------------------------------------------------

QueueTypeOK ==
    /\ pending \in Seq(Tasks)
    /\ Len(pending) <= Capacity
    /\ running \in [Workers -> Tasks \cup {NoTask}]
    /\ finished \subseteq Tasks

(***************************************************************************)
(* A task is never queued twice, never run by two workers, and never       *)
(* queued or run again once it has been taken or has finished.  The server *)
(* relies on it: a task's argument (a socket or a submission id) belongs   *)
(* to the one thread that runs the task (thread_pool.c:22-28).             *)
(***************************************************************************)
ExactlyOnce ==
    /\ \A i, j \in DOMAIN pending : i # j => pending[i] # pending[j]
    /\ \A v, w \in Workers : v # w /\ running[v] # NoTask => running[v] # running[w]
    /\ Range(pending) \cap Range(running) = {}
    /\ finished \cap (Range(pending) \cup Range(running)) = {}

=============================================================================
