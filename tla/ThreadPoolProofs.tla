-------------------------- MODULE ThreadPoolProofs --------------------------
(***************************************************************************)
(* Proofs about the thread pool, for any number of workers, submitters and *)
(* tasks and for any queue size: its type invariant, that no queued task   *)
(* is stranded, and that it implements the bounded FIFO queue TaskQueue.   *)
(***************************************************************************)
EXTENDS ThreadPool, SequenceTheorems, TLAPS

\* The slots between front and rear, going round the end of the array.
Live == {i \in Slots : IF front <= rear THEN front <= i /\ i < rear
                                        ELSE front <= i \/ i < rear}

\* A thread holds the mutex exactly inside a critical section.
LockInv ==
    \A t \in Threads : (lock = t) <=> (pc[t] \in {"test", "to_wait", "add_test"})

\* A thread sleeps only inside one of the two calls of pthread_cond_wait.
SleepInv ==
    \A t \in not_empty : pc[t] \in {"await_task", "await_space"}

\* Between its test and its wait, a worker keeps the queue empty.
WaitInv ==
    \A w \in Workers : pc[w] = "to_wait" => Empty

\* What is queued, held by a worker or about to be added has been submitted.
TaskInv ==
    /\ \A i \in Live : task_queue[i] \in submitted
    /\ \A t \in Threads : pc[t] \in AddPCs => adding[t] \in submitted
    /\ \A w \in Workers : pc[w] \in {"run", "ran"} \cup AddPCs => hand[w] \in submitted

\* The inductive invariant, without and with the property on wakeups.
BaseInv == TypeOK /\ LockInv /\ SleepInv /\ WaitInv /\ TaskInv

IInv == BaseInv /\ NoTaskStranded

-----------------------------------------------------------------------------

(* The initial state satisfies the invariant.                              *)
LEMMA InitInv == Init => IInv
<1> SUFFICES ASSUME Init PROVE IInv
  OBVIOUS
<1> USE PoolAssumption DEF Init, Threads, Slots
<1>1. TypeOK
  <2>1. /\ task_queue \in [Slots -> Tasks \cup {NoTask}]
        /\ front \in Slots
        /\ rear \in Slots
    OBVIOUS
  <2>2. /\ pc \in [Threads -> WorkerPCs \cup AddPCs \cup SubmitterPCs]
        /\ \A w \in Workers : pc[w] \notin SubmitterPCs
        /\ \A s \in Submitters : pc[s] \notin WorkerPCs
    BY DEF WorkerPCs, AddPCs, SubmitterPCs
  <2> QED
    BY <2>1, <2>2 DEF TypeOK
<1>2. LockInv /\ SleepInv /\ WaitInv
  BY DEF LockInv, SleepInv, WaitInv
<1>3. TaskInv
  BY DEF TaskInv, Live, AddPCs
<1>4. NoTaskStranded
  BY DEF NoTaskStranded, Empty
<1> QED
  BY <1>1, <1>2, <1>3, <1>4 DEF IInv, BaseInv

(* Every step keeps the type invariant: one step of the proof per action.   *)
LEMMA TypeStep == BaseInv /\ [Next]_vars => TypeOK'
<1> SUFFICES ASSUME BaseInv, [Next]_vars PROVE TypeOK'
  OBVIOUS
<1> USE PoolAssumption DEF BaseInv, TypeOK, Threads, WorkerPCs, AddPCs, SubmitterPCs,
       queue, Goto
<1>1. ASSUME NEW w \in Workers, WorkerLock(w) PROVE TypeOK'
  BY <1>1 DEF WorkerLock, Acquire
<1>2. ASSUME NEW w \in Workers, WorkerSeesEmpty(w) PROVE TypeOK'
  BY <1>2 DEF WorkerSeesEmpty
<1>3. ASSUME NEW w \in Workers, WorkerWait(w) PROVE TypeOK'
  BY <1>3 DEF WorkerWait, Sleep
<1>4. ASSUME NEW w \in Workers, WorkerWake(w) PROVE TypeOK'
  BY <1>4 DEF WorkerWake, Acquire
<1>5. ASSUME NEW w \in Workers, WorkerExit(w) PROVE TypeOK'
  BY <1>5 DEF WorkerExit
<1>6. ASSUME NEW w \in Workers, WorkerTake(w) PROVE TypeOK'
  BY <1>6 DEF WorkerTake, Slots
<1>7. ASSUME NEW w \in Workers, TaskSpawns(w) PROVE TypeOK'
  BY <1>7 DEF TaskSpawns, TaskInv
<1>8. ASSUME NEW w \in Workers, TaskReturns(w) PROVE TypeOK'
  BY <1>8 DEF TaskReturns, TaskInv
<1>9. ASSUME NEW t \in Threads, AddLock(t) PROVE TypeOK'
  BY <1>9 DEF AddLock, Acquire
<1>10. ASSUME NEW t \in Threads, AddWait(t) PROVE TypeOK'
  BY <1>10 DEF AddWait, Sleep
<1>11. ASSUME NEW t \in Threads, AddWake(t) PROVE TypeOK'
  BY <1>11 DEF AddWake, Acquire
<1>12. ASSUME NEW t \in Threads, AddPut(t) PROVE TypeOK'
  BY <1>12 DEF AddPut, Signal, Slots
<1>13. ASSUME NEW s \in Submitters, Submit(s) PROVE TypeOK'
  BY <1>13 DEF Submit, Roots
<1>14. ASSUME NEW s \in Submitters, ThreadPoolWait(s) PROVE TypeOK'
  BY <1>14 DEF ThreadPoolWait
<1>15. ASSUME NEW s \in Submitters, CleanupStart(s) PROVE TypeOK'
  BY <1>15 DEF CleanupStart
<1>16. ASSUME NEW s \in Submitters, CleanupBroadcast(s) PROVE TypeOK'
  BY <1>16 DEF CleanupBroadcast
<1>17. ASSUME NEW s \in Submitters, JoinReturns(s) PROVE TypeOK'
  BY <1>17 DEF JoinReturns
<1>18. ASSUME NEW t \in Threads, SpuriousWakeup(t) PROVE TypeOK'
  BY <1>18 DEF SpuriousWakeup
<1>19. CASE UNCHANGED vars
  BY <1>19 DEF vars
<1> QED
  BY <1>1, <1>2, <1>3, <1>4, <1>5, <1>6, <1>7, <1>8, <1>9, <1>10, <1>11, <1>12, <1>13,
     <1>14, <1>15, <1>16, <1>17, <1>18, <1>19 DEF Next, WorkerStep, SubmitterStep,
     AddStep

(* Every step keeps the mutex with the thread whose critical section it is. *)
LEMMA LockStep == BaseInv /\ [Next]_vars => LockInv'
<1> SUFFICES ASSUME BaseInv, [Next]_vars PROVE LockInv'
  OBVIOUS
<1> USE PoolAssumption DEF BaseInv, TypeOK, LockInv, Threads, WorkerPCs, AddPCs,
       SubmitterPCs, queue, Goto
<1>1. ASSUME NEW w \in Workers, WorkerLock(w) PROVE LockInv'
  BY <1>1 DEF WorkerLock, Acquire
<1>2. ASSUME NEW w \in Workers, WorkerSeesEmpty(w) PROVE LockInv'
  BY <1>2 DEF WorkerSeesEmpty
<1>3. ASSUME NEW w \in Workers, WorkerWait(w) PROVE LockInv'
  BY <1>3 DEF WorkerWait, Sleep
<1>4. ASSUME NEW w \in Workers, WorkerWake(w) PROVE LockInv'
  BY <1>4 DEF WorkerWake, Acquire
<1>5. ASSUME NEW w \in Workers, WorkerExit(w) PROVE LockInv'
  BY <1>5 DEF WorkerExit
<1>6. ASSUME NEW w \in Workers, WorkerTake(w) PROVE LockInv'
  BY <1>6 DEF WorkerTake
<1>7. ASSUME NEW w \in Workers, TaskSpawns(w) PROVE LockInv'
  BY <1>7 DEF TaskSpawns
<1>8. ASSUME NEW w \in Workers, TaskReturns(w) PROVE LockInv'
  BY <1>8 DEF TaskReturns
<1>9. ASSUME NEW t \in Threads, AddLock(t) PROVE LockInv'
  BY <1>9 DEF AddLock, Acquire
<1>10. ASSUME NEW t \in Threads, AddWait(t) PROVE LockInv'
  BY <1>10 DEF AddWait, Sleep
<1>11. ASSUME NEW t \in Threads, AddWake(t) PROVE LockInv'
  BY <1>11 DEF AddWake, Acquire
<1>12. ASSUME NEW t \in Threads, AddPut(t) PROVE LockInv'
  BY <1>12 DEF AddPut, Signal
<1>13. ASSUME NEW s \in Submitters, Submit(s) PROVE LockInv'
  BY <1>13 DEF Submit
<1>14. ASSUME NEW s \in Submitters, ThreadPoolWait(s) PROVE LockInv'
  BY <1>14 DEF ThreadPoolWait
<1>15. ASSUME NEW s \in Submitters, CleanupStart(s) PROVE LockInv'
  BY <1>15 DEF CleanupStart
<1>16. ASSUME NEW s \in Submitters, CleanupBroadcast(s) PROVE LockInv'
  BY <1>16 DEF CleanupBroadcast
<1>17. ASSUME NEW s \in Submitters, JoinReturns(s) PROVE LockInv'
  BY <1>17 DEF JoinReturns
<1>18. ASSUME NEW t \in Threads, SpuriousWakeup(t) PROVE LockInv'
  BY <1>18 DEF SpuriousWakeup
<1>19. CASE UNCHANGED vars
  BY <1>19 DEF vars
<1> QED
  BY <1>1, <1>2, <1>3, <1>4, <1>5, <1>6, <1>7, <1>8, <1>9, <1>10, <1>11, <1>12, <1>13,
     <1>14, <1>15, <1>16, <1>17, <1>18, <1>19 DEF Next, WorkerStep, SubmitterStep,
     AddStep

(* Every step keeps sleepers inside pthread_cond_wait.                     *)
LEMMA SleepStep == BaseInv /\ [Next]_vars => SleepInv'
<1> SUFFICES ASSUME BaseInv, [Next]_vars PROVE SleepInv'
  OBVIOUS
<1> USE PoolAssumption DEF BaseInv, TypeOK, SleepInv, Threads, WorkerPCs, AddPCs,
       SubmitterPCs, queue, Goto
<1>1. ASSUME NEW w \in Workers, WorkerLock(w) PROVE SleepInv'
  BY <1>1 DEF WorkerLock, Acquire
<1>2. ASSUME NEW w \in Workers, WorkerSeesEmpty(w) PROVE SleepInv'
  BY <1>2 DEF WorkerSeesEmpty
<1>3. ASSUME NEW w \in Workers, WorkerWait(w) PROVE SleepInv'
  BY <1>3 DEF WorkerWait, Sleep
<1>4. ASSUME NEW w \in Workers, WorkerWake(w) PROVE SleepInv'
  BY <1>4 DEF WorkerWake, Acquire
<1>5. ASSUME NEW w \in Workers, WorkerExit(w) PROVE SleepInv'
  BY <1>5 DEF WorkerExit
<1>6. ASSUME NEW w \in Workers, WorkerTake(w) PROVE SleepInv'
  BY <1>6 DEF WorkerTake
<1>7. ASSUME NEW w \in Workers, TaskSpawns(w) PROVE SleepInv'
  BY <1>7 DEF TaskSpawns
<1>8. ASSUME NEW w \in Workers, TaskReturns(w) PROVE SleepInv'
  BY <1>8 DEF TaskReturns
<1>9. ASSUME NEW t \in Threads, AddLock(t) PROVE SleepInv'
  BY <1>9 DEF AddLock, Acquire
<1>10. ASSUME NEW t \in Threads, AddWait(t) PROVE SleepInv'
  BY <1>10 DEF AddWait, Sleep
<1>11. ASSUME NEW t \in Threads, AddWake(t) PROVE SleepInv'
  BY <1>11 DEF AddWake, Acquire
<1>12. ASSUME NEW t \in Threads, AddPut(t) PROVE SleepInv'
  BY <1>12 DEF AddPut, Signal
<1>13. ASSUME NEW s \in Submitters, Submit(s) PROVE SleepInv'
  BY <1>13 DEF Submit
<1>14. ASSUME NEW s \in Submitters, ThreadPoolWait(s) PROVE SleepInv'
  BY <1>14 DEF ThreadPoolWait
<1>15. ASSUME NEW s \in Submitters, CleanupStart(s) PROVE SleepInv'
  BY <1>15 DEF CleanupStart
<1>16. ASSUME NEW s \in Submitters, CleanupBroadcast(s) PROVE SleepInv'
  BY <1>16 DEF CleanupBroadcast
<1>17. ASSUME NEW s \in Submitters, JoinReturns(s) PROVE SleepInv'
  BY <1>17 DEF JoinReturns
<1>18. ASSUME NEW t \in Threads, SpuriousWakeup(t) PROVE SleepInv'
  BY <1>18 DEF SpuriousWakeup
<1>19. CASE UNCHANGED vars
  BY <1>19 DEF vars
<1> QED
  BY <1>1, <1>2, <1>3, <1>4, <1>5, <1>6, <1>7, <1>8, <1>9, <1>10, <1>11, <1>12, <1>13,
     <1>14, <1>15, <1>16, <1>17, <1>18, <1>19 DEF Next, WorkerStep, SubmitterStep,
     AddStep

(* Nobody adds a task between a worker's test and its wait.                *)
LEMMA WaitStep == BaseInv /\ [Next]_vars => WaitInv'
<1> SUFFICES ASSUME BaseInv, [Next]_vars PROVE WaitInv'
  OBVIOUS
<1> USE PoolAssumption DEF BaseInv, TypeOK, LockInv, WaitInv, Empty, Threads, WorkerPCs,
       AddPCs, SubmitterPCs, queue, Goto
<1>1. ASSUME NEW w \in Workers, WorkerLock(w) PROVE WaitInv'
  BY <1>1 DEF WorkerLock, Acquire
<1>2. ASSUME NEW w \in Workers, WorkerSeesEmpty(w) PROVE WaitInv'
  BY <1>2 DEF WorkerSeesEmpty
<1>3. ASSUME NEW w \in Workers, WorkerWait(w) PROVE WaitInv'
  BY <1>3 DEF WorkerWait, Sleep
<1>4. ASSUME NEW w \in Workers, WorkerWake(w) PROVE WaitInv'
  BY <1>4 DEF WorkerWake, Acquire
<1>5. ASSUME NEW w \in Workers, WorkerExit(w) PROVE WaitInv'
  BY <1>5 DEF WorkerExit
<1>6. ASSUME NEW w \in Workers, WorkerTake(w) PROVE WaitInv'
  BY <1>6 DEF WorkerTake
<1>7. ASSUME NEW w \in Workers, TaskSpawns(w) PROVE WaitInv'
  BY <1>7 DEF TaskSpawns
<1>8. ASSUME NEW w \in Workers, TaskReturns(w) PROVE WaitInv'
  BY <1>8 DEF TaskReturns
<1>9. ASSUME NEW t \in Threads, AddLock(t) PROVE WaitInv'
  BY <1>9 DEF AddLock, Acquire
<1>10. ASSUME NEW t \in Threads, AddWait(t) PROVE WaitInv'
  BY <1>10 DEF AddWait, Sleep
<1>11. ASSUME NEW t \in Threads, AddWake(t) PROVE WaitInv'
  BY <1>11 DEF AddWake, Acquire
<1>12. ASSUME NEW t \in Threads, AddPut(t) PROVE WaitInv'
  BY <1>12 DEF AddPut, Signal
<1>13. ASSUME NEW s \in Submitters, Submit(s) PROVE WaitInv'
  BY <1>13 DEF Submit
<1>14. ASSUME NEW s \in Submitters, ThreadPoolWait(s) PROVE WaitInv'
  BY <1>14 DEF ThreadPoolWait
<1>15. ASSUME NEW s \in Submitters, CleanupStart(s) PROVE WaitInv'
  BY <1>15 DEF CleanupStart
<1>16. ASSUME NEW s \in Submitters, CleanupBroadcast(s) PROVE WaitInv'
  BY <1>16 DEF CleanupBroadcast
<1>17. ASSUME NEW s \in Submitters, JoinReturns(s) PROVE WaitInv'
  BY <1>17 DEF JoinReturns
<1>18. ASSUME NEW t \in Threads, SpuriousWakeup(t) PROVE WaitInv'
  BY <1>18 DEF SpuriousWakeup
<1>19. CASE UNCHANGED vars
  BY <1>19 DEF vars
<1> QED
  BY <1>1, <1>2, <1>3, <1>4, <1>5, <1>6, <1>7, <1>8, <1>9, <1>10, <1>11, <1>12, <1>13,
     <1>14, <1>15, <1>16, <1>17, <1>18, <1>19 DEF Next, WorkerStep, SubmitterStep,
     AddStep

(* Indices go round the end of the array (lines 23, 66 and 73).            *)
LEMMA NextSlot ==
    \A i \in Slots : (i + 1) % QueueSize = IF i + 1 = QueueSize THEN 0 ELSE i + 1
  BY PoolAssumption DEF Slots

(* Taking a task frees the slot at front.                                  *)
LEMMA TakeSlot ==
    ASSUME TypeOK, NEW w \in Workers, WorkerTake(w)
    PROVE  front \in Live /\ Live' = Live \ {front}
<1>1. front' = IF front + 1 = QueueSize THEN 0 ELSE front + 1
  BY NextSlot DEF WorkerTake, TypeOK
<1> QED
  BY <1>1, PoolAssumption DEF WorkerTake, Empty, TypeOK, Live, Slots

(* Adding a task fills the slot at rear, which was free.                   *)
LEMMA PutSlot ==
    ASSUME TypeOK, NEW t \in Threads, AddPut(t)
    PROVE  rear \in Slots \ Live /\ Live' = Live \cup {rear}
<1>1. rear' = IF rear + 1 = QueueSize THEN 0 ELSE rear + 1
  BY NextSlot DEF AddPut, TypeOK
<1>2. rear' # front
  BY DEF AddPut, Full
<1> QED
  BY <1>1, <1>2, PoolAssumption DEF AddPut, TypeOK, Live, Slots

(* Tasks only move from adding to the queue and from there to a hand.      *)
LEMMA TaskStep == BaseInv /\ [Next]_vars => TaskInv'
<1> SUFFICES ASSUME BaseInv, [Next]_vars PROVE TaskInv'
  OBVIOUS
<1> USE PoolAssumption DEF BaseInv, TypeOK, TaskInv, Live, Slots, Threads, WorkerPCs,
       AddPCs, SubmitterPCs, queue, Goto
<1>1. ASSUME NEW w \in Workers, WorkerLock(w) PROVE TaskInv'
  BY <1>1 DEF WorkerLock, Acquire
<1>2. ASSUME NEW w \in Workers, WorkerSeesEmpty(w) PROVE TaskInv'
  BY <1>2 DEF WorkerSeesEmpty
<1>3. ASSUME NEW w \in Workers, WorkerWait(w) PROVE TaskInv'
  BY <1>3 DEF WorkerWait, Sleep
<1>4. ASSUME NEW w \in Workers, WorkerWake(w) PROVE TaskInv'
  BY <1>4 DEF WorkerWake, Acquire
<1>5. ASSUME NEW w \in Workers, WorkerExit(w) PROVE TaskInv'
  BY <1>5 DEF WorkerExit
<1>6. ASSUME NEW w \in Workers, WorkerTake(w) PROVE TaskInv'
  BY <1>6, TakeSlot DEF WorkerTake
<1>7. ASSUME NEW w \in Workers, TaskSpawns(w) PROVE TaskInv'
  BY <1>7 DEF TaskSpawns
<1>8. ASSUME NEW w \in Workers, TaskReturns(w) PROVE TaskInv'
  BY <1>8 DEF TaskReturns
<1>9. ASSUME NEW t \in Threads, AddLock(t) PROVE TaskInv'
  BY <1>9 DEF AddLock, Acquire
<1>10. ASSUME NEW t \in Threads, AddWait(t) PROVE TaskInv'
  BY <1>10 DEF AddWait, Sleep
<1>11. ASSUME NEW t \in Threads, AddWake(t) PROVE TaskInv'
  BY <1>11 DEF AddWake, Acquire
<1>12. ASSUME NEW t \in Threads, AddPut(t) PROVE TaskInv'
  <2>1. Live' = Live \cup {rear}
    BY <1>12, PutSlot
  <2>2. \A i \in Live' : task_queue'[i] \in submitted'
    BY <1>12, <2>1 DEF AddPut
  <2> QED
    BY <1>12, <2>2 DEF AddPut
<1>13. ASSUME NEW s \in Submitters, Submit(s) PROVE TaskInv'
  BY <1>13 DEF Submit
<1>14. ASSUME NEW s \in Submitters, ThreadPoolWait(s) PROVE TaskInv'
  BY <1>14 DEF ThreadPoolWait
<1>15. ASSUME NEW s \in Submitters, CleanupStart(s) PROVE TaskInv'
  BY <1>15 DEF CleanupStart
<1>16. ASSUME NEW s \in Submitters, CleanupBroadcast(s) PROVE TaskInv'
  BY <1>16 DEF CleanupBroadcast
<1>17. ASSUME NEW s \in Submitters, JoinReturns(s) PROVE TaskInv'
  BY <1>17 DEF JoinReturns
<1>18. ASSUME NEW t \in Threads, SpuriousWakeup(t) PROVE TaskInv'
  BY <1>18 DEF SpuriousWakeup
<1>19. CASE UNCHANGED vars
  BY <1>19 DEF vars
<1> QED
  BY <1>1, <1>2, <1>3, <1>4, <1>5, <1>6, <1>7, <1>8, <1>9, <1>10, <1>11, <1>12, <1>13,
     <1>14, <1>15, <1>16, <1>17, <1>18, <1>19 DEF Next, WorkerStep, SubmitterStep,
     AddStep

(* No step strands a task.                                                 *)
LEMMA StrandStep == IInv /\ [Next]_vars => NoTaskStranded'
<1> SUFFICES ASSUME IInv, [Next]_vars PROVE NoTaskStranded'
  OBVIOUS
<1> USE PoolAssumption DEF IInv, BaseInv, TypeOK, LockInv, SleepInv, WaitInv,
       NoTaskStranded, Empty, Full, Threads, WorkerPCs, AddPCs, SubmitterPCs, queue,
       Goto
<1>1. ASSUME NEW w \in Workers, WorkerLock(w) PROVE NoTaskStranded'
  BY <1>1 DEF WorkerLock, Acquire
<1>2. ASSUME NEW w \in Workers, WorkerSeesEmpty(w) PROVE NoTaskStranded'
  BY <1>2 DEF WorkerSeesEmpty
<1>3. ASSUME NEW w \in Workers, WorkerWait(w) PROVE NoTaskStranded'
  BY <1>3 DEF WorkerWait, Sleep
<1>4. ASSUME NEW w \in Workers, WorkerWake(w) PROVE NoTaskStranded'
  BY <1>4 DEF WorkerWake, Acquire
<1>5. ASSUME NEW w \in Workers, WorkerExit(w) PROVE NoTaskStranded'
  BY <1>5 DEF WorkerExit
<1>6. ASSUME NEW w \in Workers, WorkerTake(w) PROVE NoTaskStranded'
  BY <1>6 DEF WorkerTake
<1>7. ASSUME NEW w \in Workers, TaskSpawns(w) PROVE NoTaskStranded'
  BY <1>7 DEF TaskSpawns
<1>8. ASSUME NEW w \in Workers, TaskReturns(w) PROVE NoTaskStranded'
  BY <1>8 DEF TaskReturns
<1>9. ASSUME NEW t \in Threads, AddLock(t) PROVE NoTaskStranded'
  BY <1>9 DEF AddLock, Acquire
<1>10. ASSUME NEW t \in Threads, AddWait(t) PROVE NoTaskStranded'
  BY <1>10 DEF AddWait, Sleep
<1>11. ASSUME NEW t \in Threads, AddWake(t) PROVE NoTaskStranded'
  BY <1>11 DEF AddWake, Acquire
<1>12. ASSUME NEW t \in Threads, AddPut(t) PROVE NoTaskStranded'
  BY <1>12 DEF AddPut, Signal
<1>13. ASSUME NEW s \in Submitters, Submit(s) PROVE NoTaskStranded'
  BY <1>13 DEF Submit
<1>14. ASSUME NEW s \in Submitters, ThreadPoolWait(s) PROVE NoTaskStranded'
  BY <1>14 DEF ThreadPoolWait
<1>15. ASSUME NEW s \in Submitters, CleanupStart(s) PROVE NoTaskStranded'
  BY <1>15 DEF CleanupStart
<1>16. ASSUME NEW s \in Submitters, CleanupBroadcast(s) PROVE NoTaskStranded'
  BY <1>16 DEF CleanupBroadcast
<1>17. ASSUME NEW s \in Submitters, JoinReturns(s) PROVE NoTaskStranded'
  BY <1>17 DEF JoinReturns
<1>18. ASSUME NEW t \in Threads, SpuriousWakeup(t) PROVE NoTaskStranded'
  BY <1>18 DEF SpuriousWakeup
<1>19. CASE UNCHANGED vars
  BY <1>19 DEF vars
<1> QED
  BY <1>1, <1>2, <1>3, <1>4, <1>5, <1>6, <1>7, <1>8, <1>9, <1>10, <1>11, <1>12, <1>13,
     <1>14, <1>15, <1>16, <1>17, <1>18, <1>19 DEF Next, WorkerStep, SubmitterStep,
     AddStep

-----------------------------------------------------------------------------
(* The inductive invariant of the pool's locking, waiting and queue holds  *)
(* in every reachable state (thread_pool.c:9-106).                         *)
THEOREM Invariance == Spec => []IInv
<1>1. IInv /\ [Next]_vars => IInv'
  BY TypeStep, LockStep, SleepStep, WaitStep, TaskStep, StrandStep
     DEF IInv, BaseInv
<1> QED
  BY InitInv, <1>1, PTL DEF Spec

(***************************************************************************)
(* Type correctness of the pool: the indices stay inside the array that    *)
(* ThreadPoolInit allocates, whatever its size (thread_pool.c:46-47).      *)
(***************************************************************************)
THEOREM TypeCorrect == Spec => []TypeOK
<1>1. IInv => TypeOK
  BY DEF IInv, BaseInv
<1> QED
  BY Invariance, <1>1, PTL

(***************************************************************************)
(* With any number of workers and submitters sharing the one condition     *)
(* variable, no task of a queue that is not full is stranded               *)
(* (thread_pool.c:11-14, 66-75).                                           *)
(***************************************************************************)
THEOREM NoTaskIsStranded == Spec => []NoTaskStranded
<1>1. IInv => NoTaskStranded
  BY DEF IInv
<1> QED
  BY Invariance, <1>1, PTL

-----------------------------------------------------------------------------
(* The refinement: every step of the pool maps to a step of the queue or   *)
(* to no step at all.                                                      *)

\* A worker holds a task exactly from taking it to its function's return.
HandInv ==
    \A w \in Workers : hand[w] = NoTask <=> pc[w] \in WorkerPCs \ {"run", "ran"}

\* A task that another adds is submitted only once that one has done so.
SpawnInv ==
    \A p \in Tasks :
        Spawns[p] \in submitted =>
            \/ p \in done
            \/ \E w \in Workers : hand[w] = p /\ pc[w] \in AddPCs \cup {"ran"}

\* A task that a thread is adding is nowhere else.
AddingInv ==
    \A t \in Threads : pc[t] \in AddPCs =>
        /\ \A u \in Threads : u # t /\ pc[u] \in AddPCs => adding[u] # adding[t]
        /\ \A i \in Live : task_queue[i] # adding[t]
        /\ \A w \in Workers : hand[w] # adding[t]
        /\ adding[t] \notin done

\* Neither is a queued one.
QueuedInv ==
    \A i \in Live :
        /\ \A j \in Live : i # j => task_queue[i] # task_queue[j]
        /\ \A w \in Workers : hand[w] # task_queue[i]
        /\ task_queue[i] \notin done

\* Neither is one that a worker runs.
RunningInv ==
    \A w \in Workers : hand[w] # NoTask =>
        /\ hand[w] \in submitted \ done
        /\ \A v \in Workers : v # w => hand[v] # hand[w]

\* The invariant behind the refinement: a task is in one place.
PlaceInv == HandInv /\ SpawnInv /\ AddingInv /\ QueuedInv /\ RunningInv

RInv == IInv /\ PlaceInv

\* A step that moves no task, and moves no thread into or out of running or
\* adding one.
Quiet ==
    /\ UNCHANGED <<task_queue, front, rear, adding, hand, submitted, done>>
    /\ \A t \in Threads :
          /\ pc'[t] \in AddPCs <=> pc[t] \in AddPCs
          /\ pc'[t] = "run" <=> pc[t] = "run"
          /\ pc'[t] = "ran" <=> pc[t] = "ran"

\* The other steps.
Moves ==
    \/ \E w \in Workers : WorkerTake(w) \/ TaskSpawns(w) \/ TaskReturns(w)
    \/ \E t \in Threads : AddPut(t)
    \/ \E s \in Submitters : Submit(s)

-----------------------------------------------------------------------------
(* At the start no task is anywhere.                                      *)
LEMMA InitPlaces == Init => PlaceInv
<1> SUFFICES ASSUME Init PROVE PlaceInv
  OBVIOUS
<1> USE PoolAssumption DEF Init, Threads, Slots
<1>1. HandInv
  BY DEF HandInv, WorkerPCs
<1>2. SpawnInv /\ RunningInv
  BY DEF SpawnInv, RunningInv
<1>3. AddingInv /\ QueuedInv
  BY DEF AddingInv, QueuedInv, Live, AddPCs
<1> QED
  BY <1>1, <1>2, <1>3 DEF PlaceInv

(* Only taking, running and adding a task moves it.                        *)
LEMMA MovesOrQuiet == IInv /\ [Next]_vars => Moves \/ Quiet
<1> SUFFICES ASSUME IInv, [Next]_vars, ~ Moves PROVE Quiet
  OBVIOUS
<1> USE DEF IInv, BaseInv, TypeOK, Threads, WorkerPCs, AddPCs, SubmitterPCs, queue,
       Goto, Quiet
<1>1. ASSUME NEW w \in Workers, WorkerLock(w) PROVE Quiet
  BY <1>1 DEF WorkerLock, Acquire
<1>2. ASSUME NEW w \in Workers, WorkerSeesEmpty(w) PROVE Quiet
  BY <1>2 DEF WorkerSeesEmpty
<1>3. ASSUME NEW w \in Workers, WorkerWait(w) PROVE Quiet
  BY <1>3 DEF WorkerWait, Sleep
<1>4. ASSUME NEW w \in Workers, WorkerWake(w) PROVE Quiet
  BY <1>4 DEF WorkerWake, Acquire
<1>5. ASSUME NEW w \in Workers, WorkerExit(w) PROVE Quiet
  BY <1>5 DEF WorkerExit
<1>6. ASSUME NEW t \in Threads, AddLock(t) PROVE Quiet
  BY <1>6 DEF AddLock, Acquire
<1>7. ASSUME NEW t \in Threads, AddWait(t) PROVE Quiet
  BY <1>7 DEF AddWait, Sleep
<1>8. ASSUME NEW t \in Threads, AddWake(t) PROVE Quiet
  BY <1>8 DEF AddWake, Acquire
<1>9. ASSUME NEW s \in Submitters, ThreadPoolWait(s) PROVE Quiet
  BY <1>9 DEF ThreadPoolWait
<1>10. ASSUME NEW s \in Submitters, CleanupStart(s) PROVE Quiet
  BY <1>10 DEF CleanupStart
<1>11. ASSUME NEW s \in Submitters, CleanupBroadcast(s) PROVE Quiet
  BY <1>11 DEF CleanupBroadcast
<1>12. ASSUME NEW s \in Submitters, JoinReturns(s) PROVE Quiet
  BY <1>12 DEF JoinReturns
<1>13. ASSUME NEW t \in Threads, SpuriousWakeup(t) PROVE Quiet
  BY <1>13 DEF SpuriousWakeup
<1>14. CASE UNCHANGED vars
  BY <1>14 DEF vars
<1> QED
  BY <1>1, <1>2, <1>3, <1>4, <1>5, <1>6, <1>7, <1>8, <1>9, <1>10, <1>11, <1>12, <1>13, <1>14
     DEF Next, WorkerStep, SubmitterStep, AddStep, Moves

(* Taking fills the hand, returning empties it.                           *)
LEMMA HandStep == RInv /\ [Next]_vars => HandInv'
<1> SUFFICES ASSUME RInv, [Next]_vars PROVE HandInv'
  OBVIOUS
<1> USE PoolAssumption DEF RInv, IInv, BaseInv, PlaceInv, TypeOK, Threads, WorkerPCs,
       AddPCs, SubmitterPCs, queue, Goto, HandInv, TaskInv
<1>1. ASSUME NEW w \in Workers, WorkerTake(w) PROVE HandInv'
  <2>1. front \in Live /\ task_queue[front] \in Tasks
    BY <1>1, TakeSlot DEF WorkerTake
  <2>2. /\ hand' = [hand EXCEPT ![w] = task_queue[front]]
        /\ pc' = [pc EXCEPT ![w] = "run"]
        /\ task_queue[front] # NoTask
    BY <1>1, <2>1 DEF WorkerTake
  <2> QED
    BY <2>2 DEF HandInv
<1>2. ASSUME NEW w \in Workers, TaskSpawns(w) PROVE HandInv'
  BY <1>2 DEF TaskSpawns, Live, Slots
<1>3. ASSUME NEW w \in Workers, TaskReturns(w) PROVE HandInv'
  BY <1>3 DEF TaskReturns, Live, Slots
<1>4. ASSUME NEW t \in Threads, AddPut(t) PROVE HandInv'
  BY <1>4, PutSlot DEF AddPut
<1>5. ASSUME NEW s \in Submitters, Submit(s) PROVE HandInv'
  BY <1>5 DEF Submit, Live, Slots
<1>6. CASE Quiet
  BY <1>6, TypeStep DEF Quiet
<1> QED
  BY <1>1, <1>2, <1>3, <1>4, <1>5, <1>6, MovesOrQuiet DEF Moves

(* Only the parent's own step submits a spawned task.                     *)
LEMMA SpawnStep == RInv /\ [Next]_vars => SpawnInv'
<1> SUFFICES ASSUME RInv, [Next]_vars PROVE SpawnInv'
  OBVIOUS
<1> USE PoolAssumption DEF RInv, IInv, BaseInv, PlaceInv, TypeOK, Threads, WorkerPCs,
       AddPCs, SubmitterPCs, queue, Goto, HandInv, RunningInv, SpawnInv, Roots, Range
<1>1. ASSUME NEW w \in Workers, WorkerTake(w) PROVE SpawnInv'
  BY <1>1, TakeSlot DEF WorkerTake
<1>2. ASSUME NEW w \in Workers, TaskSpawns(w) PROVE SpawnInv'
  BY <1>2 DEF TaskSpawns, Live, Slots
<1>3. ASSUME NEW w \in Workers, TaskReturns(w) PROVE SpawnInv'
  BY <1>3 DEF TaskReturns, Live, Slots
<1>4. ASSUME NEW t \in Threads, AddPut(t) PROVE SpawnInv'
  BY <1>4, PutSlot DEF AddPut
<1>5. ASSUME NEW s \in Submitters, Submit(s) PROVE SpawnInv'
  BY <1>5 DEF Submit, Live, Slots
<1>6. CASE Quiet
  BY <1>6 DEF Quiet, Live, Slots
<1> QED
  BY <1>1, <1>2, <1>3, <1>4, <1>5, <1>6, MovesOrQuiet DEF Moves

(* A task to be added is new.                                             *)
LEMMA AddingStep == RInv /\ [Next]_vars => AddingInv'
<1> SUFFICES ASSUME RInv, [Next]_vars PROVE AddingInv'
  OBVIOUS
<1> USE PoolAssumption DEF RInv, IInv, BaseInv, PlaceInv, TypeOK, Threads, WorkerPCs,
       AddPCs, SubmitterPCs, queue, Goto, AddingInv, TaskInv, SpawnInv, HandInv,
       RunningInv
<1>1. ASSUME NEW w \in Workers, WorkerTake(w) PROVE AddingInv'
  <2> SUFFICES ASSUME NEW u \in Threads, pc'[u] \in AddPCs
               PROVE
          /\ \A v \in Threads : v # u /\ pc'[v] \in AddPCs => adding'[v] # adding'[u]
          /\ \A i \in Live' : task_queue'[i] # adding'[u]
          /\ \A v \in Workers : hand'[v] # adding'[u]
          /\ adding'[u] \notin done'
    BY DEF AddingInv
  <2>1. front \in Live /\ Live' = Live \ {front}
    BY <1>1, TakeSlot
  <2>2. pc[u] \in AddPCs /\ \A v \in Threads : pc'[v] \in AddPCs => pc[v] \in AddPCs
    BY <1>1 DEF WorkerTake
  <2>3. hand' = [hand EXCEPT ![w] = task_queue[front]] /\ UNCHANGED <<task_queue, adding, done>>
    BY <1>1 DEF WorkerTake
  <2> QED
    BY <2>1, <2>2, <2>3
<1>2. ASSUME NEW w \in Workers, TaskSpawns(w) PROVE AddingInv'
  BY <1>2 DEF TaskSpawns, Live, Slots
<1>3. ASSUME NEW w \in Workers, TaskReturns(w) PROVE AddingInv'
  BY <1>3 DEF TaskReturns, Live, Slots
<1>4. ASSUME NEW t \in Threads, AddPut(t) PROVE AddingInv'
  <2> SUFFICES ASSUME NEW u \in Threads, pc'[u] \in AddPCs
               PROVE
          /\ \A v \in Threads : v # u /\ pc'[v] \in AddPCs => adding'[v] # adding'[u]
          /\ \A i \in Live' : task_queue'[i] # adding'[u]
          /\ \A v \in Workers : hand'[v] # adding'[u]
          /\ adding'[u] \notin done'
    BY DEF AddingInv
  <2>1. rear \in Slots /\ Live' = Live \cup {rear} /\ Live \subseteq Slots
    BY <1>4, PutSlot DEF Live
  <2>2. /\ u # t /\ pc[u] \in AddPCs
        /\ \A v \in Threads : pc'[v] \in AddPCs => v # t /\ pc[v] \in AddPCs
    BY <1>4 DEF AddPut
  <2>3. /\ task_queue' = [task_queue EXCEPT ![rear] = adding[t]]
        /\ \A v \in Threads : v # t => adding'[v] = adding[v]
        /\ UNCHANGED <<hand, done>>
    BY <1>4 DEF AddPut
  <2>4. pc[t] \in AddPCs /\ adding[t] # adding[u]
    BY <1>4, <2>2 DEF AddPut
  <2> QED
    BY <2>1, <2>2, <2>3, <2>4
<1>5. ASSUME NEW s \in Submitters, Submit(s) PROVE AddingInv'
  <2>1. PICK new \in Roots \ submitted :
             /\ pc[s] = "idle"
             /\ pc' = [pc EXCEPT ![s] = "add_lock"]
             /\ adding' = [adding EXCEPT ![s] = new]
             /\ UNCHANGED <<task_queue, front, rear, hand, done>>
    BY <1>5 DEF Submit
  <2>2. /\ \A v \in Threads : pc[v] \in AddPCs => adding[v] # new
        /\ \A i \in Live : task_queue[i] # new
        /\ \A v \in Workers : hand[v] # new
        /\ new \notin done
    BY <2>1 DEF Roots
  <2>3. Live' = Live
    BY <2>1 DEF Live, Slots
  <2> SUFFICES ASSUME NEW u \in Threads, pc'[u] \in AddPCs
               PROVE
          /\ \A v \in Threads : v # u /\ pc'[v] \in AddPCs => adding'[v] # adding'[u]
          /\ \A i \in Live' : task_queue'[i] # adding'[u]
          /\ \A v \in Workers : hand'[v] # adding'[u]
          /\ adding'[u] \notin done'
    BY DEF AddingInv
  <2>4. CASE u = s
    BY <2>1, <2>2, <2>3, <2>4
  <2>5. CASE u # s
    BY <2>1, <2>2, <2>3, <2>5
  <2> QED
    BY <2>4, <2>5
<1>6. CASE Quiet
  BY <1>6 DEF Quiet, Live, Slots
<1> QED
  BY <1>1, <1>2, <1>3, <1>4, <1>5, <1>6, MovesOrQuiet DEF Moves

(* What is put into the queue was in an adder's hands only.                *)
LEMMA QueuedStep == RInv /\ [Next]_vars => QueuedInv'
<1> SUFFICES ASSUME RInv, [Next]_vars PROVE QueuedInv'
  OBVIOUS
<1> USE PoolAssumption DEF RInv, IInv, BaseInv, PlaceInv, TypeOK, Threads, WorkerPCs,
       AddPCs, SubmitterPCs, queue, Goto, AddingInv, QueuedInv, TaskInv
<1>1. ASSUME NEW w \in Workers, WorkerTake(w) PROVE QueuedInv'
  <2>1. front \in Live /\ Live' = Live \ {front}
    BY <1>1, TakeSlot
  <2>2. /\ hand' = [hand EXCEPT ![w] = task_queue[front]]
        /\ UNCHANGED <<task_queue, done>>
    BY <1>1 DEF WorkerTake
  <2>3. \A v \in Workers : hand'[v] = hand[v] \/ hand'[v] = task_queue[front]
    BY <2>2
  <2> QED
    BY <2>1, <2>2, <2>3 DEF QueuedInv
<1>2. ASSUME NEW w \in Workers, TaskSpawns(w) PROVE QueuedInv'
  BY <1>2 DEF TaskSpawns, Live, Slots
<1>3. ASSUME NEW w \in Workers, TaskReturns(w) PROVE QueuedInv'
  BY <1>3 DEF TaskReturns, Live, Slots
<1>4. ASSUME NEW t \in Threads, AddPut(t) PROVE QueuedInv'
  <2>1. rear \in Slots \ Live /\ Live' = Live \cup {rear} /\ Live \subseteq Slots
    BY <1>4, PutSlot DEF Live
  <2>2. /\ task_queue' = [task_queue EXCEPT ![rear] = adding[t]]
        /\ UNCHANGED <<hand, done>>
        /\ pc[t] \in AddPCs
    BY <1>4 DEF AddPut
  <2>3. /\ task_queue'[rear] = adding[t]
        /\ \A i \in Live : task_queue'[i] = task_queue[i] /\ task_queue[i] # adding[t]
    BY <2>1, <2>2
  <2>4. (\A w \in Workers : hand[w] # adding[t]) /\ adding[t] \notin done
    BY <2>2
  <2> QED
    BY <2>1, <2>2, <2>3, <2>4 DEF QueuedInv
<1>5. ASSUME NEW s \in Submitters, Submit(s) PROVE QueuedInv'
  BY <1>5 DEF Submit, Live, Slots
<1>6. CASE Quiet
  BY <1>6 DEF Quiet, Live, Slots
<1> QED
  BY <1>1, <1>2, <1>3, <1>4, <1>5, <1>6, MovesOrQuiet DEF Moves

(* What is taken from the queue was nowhere else.                         *)
LEMMA RunningStep == RInv /\ [Next]_vars => RunningInv'
<1> SUFFICES ASSUME RInv, [Next]_vars PROVE RunningInv'
  OBVIOUS
<1> USE PoolAssumption DEF RInv, IInv, BaseInv, PlaceInv, TypeOK, Threads, WorkerPCs,
       AddPCs, SubmitterPCs, queue, Goto, QueuedInv, RunningInv, TaskInv
<1>1. ASSUME NEW w \in Workers, WorkerTake(w) PROVE RunningInv'
  <2>1. /\ task_queue[front] \in submitted \ done
        /\ \A v \in Workers : hand[v] # task_queue[front]
    BY <1>1, TakeSlot
  <2>2. /\ hand' = [hand EXCEPT ![w] = task_queue[front]]
        /\ UNCHANGED <<submitted, done>>
    BY <1>1 DEF WorkerTake
  <2> QED
    BY <2>1, <2>2 DEF RunningInv
<1>2. ASSUME NEW w \in Workers, TaskSpawns(w) PROVE RunningInv'
  BY <1>2 DEF TaskSpawns, Live, Slots
<1>3. ASSUME NEW w \in Workers, TaskReturns(w) PROVE RunningInv'
  BY <1>3 DEF TaskReturns, Live, Slots
<1>4. ASSUME NEW t \in Threads, AddPut(t) PROVE RunningInv'
  BY <1>4, PutSlot DEF AddPut
<1>5. ASSUME NEW s \in Submitters, Submit(s) PROVE RunningInv'
  BY <1>5 DEF Submit, Live, Slots
<1>6. CASE Quiet
  BY <1>6 DEF Quiet, Live, Slots
<1> QED
  BY <1>1, <1>2, <1>3, <1>4, <1>5, <1>6, MovesOrQuiet DEF Moves

(* Every task the pool has been given is in one place (thread_pool.c:22-28). *)
THEOREM PlacesInvariant == Spec => []RInv
<1>1. Init => RInv
  BY InitInv, InitPlaces DEF RInv
<1>2. RInv /\ [Next]_vars => RInv'
  <2> SUFFICES ASSUME RInv, [Next]_vars PROVE RInv'
    OBVIOUS
  <2>1. IInv'
    BY TypeStep, LockStep, SleepStep, WaitStep, TaskStep, StrandStep
       DEF RInv, IInv, BaseInv
  <2> QED
    BY <2>1, HandStep, SpawnStep, AddingStep, QueuedStep, RunningStep DEF RInv, PlaceInv
<1> QED
  BY <1>1, <1>2, PTL DEF Spec

-----------------------------------------------------------------------------
(* The ring buffer as a sequence.                                          *)

\* The slot of the i-th queued task.
SlotOf(i) == (front + i - 1) % QueueSize

(* What the remainder does to an index less than two rounds ahead.         *)
LEMMA Wrap ==
    ASSUME NEW k \in 0 .. 2 * QueueSize - 1
    PROVE  k % QueueSize = IF k < QueueSize THEN k ELSE k - QueueSize
  BY PoolAssumption

(* The queued tasks are in live slots, and rear is the slot behind them.   *)
LEMMA SlotsOfPending ==
    ASSUME TypeOK
    PROVE  /\ Count \in 0 .. QueueSize - 1
           /\ \A i \in 1 .. Count : SlotOf(i) \in Live
           /\ \A i \in 1 .. Count + 1 :
                 SlotOf(i) = IF front + i - 1 < QueueSize THEN front + i - 1
                                                         ELSE front + i - 1 - QueueSize
           /\ SlotOf(Count + 1) = rear
<1>1. Count \in 0 .. QueueSize - 1
  BY PoolAssumption DEF TypeOK, Slots, Count
<1>2. \A i \in 1 .. Count + 1 :
         SlotOf(i) = IF front + i - 1 < QueueSize THEN front + i - 1
                                                 ELSE front + i - 1 - QueueSize
  <2> TAKE i \in 1 .. Count + 1
  <2>1. PICK k \in 0 .. 2 * QueueSize - 1 : k = front + i - 1
    BY <1>1, PoolAssumption DEF TypeOK, Slots
  <2>2. SlotOf(i) = k % QueueSize
    BY <2>1 DEF SlotOf
  <2>3. k % QueueSize = IF k < QueueSize THEN k ELSE k - QueueSize
    BY Wrap
  <2> QED
    BY <1>1, <2>1, <2>2, <2>3, PoolAssumption DEF TypeOK, Slots
<1> QED
  BY <1>1, <1>2, PoolAssumption DEF TypeOK, Slots, Count, Live

(* Pending is a sequence: its length and its elements.                    *)
LEMMA PendingIsSeq ==
    ASSUME TypeOK
    PROVE  /\ Pending \in Seq(Tasks \cup {NoTask})
           /\ Len(Pending) = Count
           /\ DOMAIN Pending = 1 .. Count
           /\ \A i \in 1 .. Count : Pending[i] = task_queue[SlotOf(i)]
<1>1. \A i \in 1 .. Count : SlotOf(i) \in Slots
  BY SlotsOfPending DEF Live
<1> QED
  BY <1>1, SlotsOfPending, PoolAssumption DEF TypeOK, Pending, SlotOf

(* Lines 71-73 append the task.                                            *)
LEMMA PutAppends ==
    ASSUME TypeOK, TypeOK', NEW t \in Threads, AddPut(t)
    PROVE  Pending' = Append(Pending, adding[t]) /\ Len(Pending) < QueueSize - 1
<1>1. /\ front' = front
      /\ rear' = IF rear + 1 = QueueSize THEN 0 ELSE rear + 1
      /\ rear' # front
      /\ task_queue' = [task_queue EXCEPT ![rear] = adding[t]]
  BY NextSlot DEF AddPut, Full, TypeOK
<1>2. Count' = Count + 1 /\ Count < QueueSize - 1
  BY <1>1, PoolAssumption DEF TypeOK, Slots, Count
<1>3. /\ Pending' = [i \in 1 .. Count + 1 |-> task_queue'[SlotOf(i)]]
      /\ Pending = [i \in 1 .. Count |-> task_queue[SlotOf(i)]]
  BY <1>1, <1>2 DEF Pending, SlotOf
<1>4. task_queue'[SlotOf(Count + 1)] = adding[t]
  BY <1>1, SlotsOfPending DEF TypeOK
<1>5. \A i \in 1 .. Count : task_queue'[SlotOf(i)] = task_queue[SlotOf(i)]
  <2>1. \A i \in 1 .. Count : SlotOf(i) # rear
    BY SlotsOfPending, PutSlot
  <2> QED
    BY <1>1, <2>1, SlotsOfPending DEF TypeOK, Live
<1>6. Append(Pending, adding[t])
        = [i \in 1 .. Count + 1 |-> IF i = Count + 1 THEN adding[t] ELSE task_queue[SlotOf(i)]]
  BY <1>3, PendingIsSeq, SlotsOfPending
<1> QED
  BY <1>2, <1>3, <1>4, <1>5, <1>6, PendingIsSeq, SlotsOfPending

(* Tail, element by element.                                              *)
LEMMA TailOf ==
    ASSUME NEW S, NEW s \in Seq(S), s # <<>>
    PROVE  Tail(s) = [i \in 1 .. Len(s) - 1 |-> s[i + 1]]
<1>1. /\ Tail(s) \in Seq(S)
      /\ Len(Tail(s)) = Len(s) - 1
      /\ \A i \in 1 .. Len(Tail(s)) : Tail(s)[i] = s[i + 1]
  BY HeadTailProperties
<1>2. Len(s) \in Nat /\ Tail(s) \in [1 .. Len(Tail(s)) -> S]
  BY <1>1, LenProperties
<1> QED
  BY <1>1, <1>2

(* Lines 22-23 take the first task.                                        *)
LEMMA TakeIsTail ==
    ASSUME TypeOK, TypeOK', NEW w \in Workers, WorkerTake(w)
    PROVE  Pending # <<>> /\ Pending' = Tail(Pending) /\ Head(Pending) = task_queue[front]
<1>1. /\ front' = IF front + 1 = QueueSize THEN 0 ELSE front + 1
      /\ rear' = rear /\ front # rear
      /\ task_queue' = task_queue
  BY NextSlot DEF WorkerTake, Empty, TypeOK
<1>2. Count' = Count - 1 /\ Count > 0
  BY <1>1, PoolAssumption DEF TypeOK, Slots, Count
<1>3. \A i \in 1 .. Count - 1 : SlotOf(i)' = SlotOf(i + 1)
  <2> TAKE i \in 1 .. Count - 1
  <2>1. PICK k \in 0 .. 2 * QueueSize - 1 : k = front' + i - 1
    BY <1>1, SlotsOfPending, PoolAssumption DEF TypeOK, Slots
  <2>2. SlotOf(i)' = k % QueueSize
    BY <2>1 DEF SlotOf
  <2>3. PICK m \in 1 .. Count + 1 : m = i + 1
    BY SlotsOfPending
  <2>4. SlotOf(m) = IF front + m - 1 < QueueSize THEN front + m - 1
                                                ELSE front + m - 1 - QueueSize
    BY SlotsOfPending
  <2>5. k % QueueSize = IF k < QueueSize THEN k ELSE k - QueueSize
    BY Wrap
  <2>6. k % QueueSize = SlotOf(i + 1)
    BY <1>1, <2>1, <2>3, <2>4, <2>5, PoolAssumption, SlotsOfPending DEF TypeOK, Slots
  <2> QED
    BY <2>2, <2>6
<1>4. Pending' = [i \in 1 .. Count - 1 |-> task_queue[SlotOf(i + 1)]]
  BY <1>1, <1>2, <1>3 DEF Pending, SlotOf
<1>5. SlotOf(1) = front
  BY <1>2, SlotsOfPending, PoolAssumption DEF TypeOK, Slots
<1>6. Count \in Nat \ {0} /\ Len(Pending) = Count /\ Pending \in Seq(Tasks \cup {NoTask})
  BY <1>2, PendingIsSeq, SlotsOfPending
<1>7. Head(Pending) = task_queue[front]
  BY <1>5, <1>6, PendingIsSeq
<1>8. Tail(Pending) = [i \in 1 .. Count - 1 |-> Pending[i + 1]]
  BY <1>6, TailOf
<1>9. \A i \in 1 .. Count - 1 : Pending[i + 1] = task_queue[SlotOf(i + 1)]
  BY <1>6, PendingIsSeq
<1> QED
  BY <1>4, <1>6, <1>7, <1>8, <1>9

-----------------------------------------------------------------------------
(* The refinement.                                                         *)

(* The new pool is the empty queue (thread_pool.c:47).                    *)
LEMMA InitMaps == Init => Queue!QueueInit
<1> SUFFICES ASSUME Init PROVE Queue!QueueInit
  OBVIOUS
<1>1. Pending = <<>>
  BY DEF Init, Pending, Count
<1> QED
  BY <1>1 DEF Init, Queue!QueueInit

(* Taking, returning and adding are Begin, Finish and Add; the rest is     *)
(* invisible.                                                              *)
LEMMA StepMaps == RInv /\ TypeOK' /\ [Next]_vars => [Queue!QueueNext]_(Queue!queueVars)
<1> SUFFICES ASSUME RInv, TypeOK', [Next]_vars
             PROVE  Queue!QueueNext \/ UNCHANGED Queue!queueVars
  OBVIOUS
<1> USE DEF RInv, IInv, BaseInv
<1>1. ASSUME NEW w \in Workers, WorkerTake(w) PROVE Queue!Begin(w)
  <2>1. hand[w] = NoTask /\ hand' = [hand EXCEPT ![w] = task_queue[front]] /\ done' = done
    BY <1>1 DEF WorkerTake, Goto, PlaceInv, HandInv, WorkerPCs
  <2> QED
    BY <1>1, <2>1, TakeIsTail DEF Queue!Begin
<1>2. ASSUME NEW w \in Workers, TaskSpawns(w) PROVE UNCHANGED Queue!queueVars
  BY <1>2 DEF TaskSpawns, queue, Queue!queueVars, Pending, Count
<1>3. ASSUME NEW w \in Workers, TaskReturns(w) PROVE Queue!Finish(w)
  <2>1. hand[w] # NoTask
    BY <1>3 DEF TaskReturns, Goto, PlaceInv, HandInv, WorkerPCs
  <2> QED
    BY <1>3, <2>1 DEF TaskReturns, queue, Queue!Finish, Pending, Count
<1>4. ASSUME NEW t \in Threads, AddPut(t) PROVE Queue!Add(adding[t]) /\ adding[t] \in Tasks
  <2>1. pc[t] \in AddPCs
    BY <1>4 DEF AddPut, Goto, AddPCs
  <2>2. adding[t] \in Tasks
    BY <2>1 DEF TaskInv, TypeOK
  <2>3. adding[t] \notin Range(Pending)
    BY <2>1, SlotsOfPending, PendingIsSeq DEF PlaceInv, AddingInv, Range
  <2>4. adding[t] \notin Range(hand) \cup done
    BY <2>1 DEF PlaceInv, AddingInv, Range, TypeOK
  <2>5. ~ Queue!Known(adding[t])
    BY <2>3, <2>4 DEF Queue!Known, Queue!Range, Range
  <2>6. UNCHANGED <<hand, done>>
    BY <1>4 DEF AddPut
  <2> QED
    BY <1>4, <2>2, <2>5, <2>6, PutAppends DEF Queue!Add
<1>5. ASSUME NEW s \in Submitters, Submit(s) PROVE UNCHANGED Queue!queueVars
  BY <1>5 DEF Submit, queue, Queue!queueVars, Pending, Count
<1>6. CASE Quiet
  BY <1>6 DEF Quiet, Queue!queueVars, Pending, Count
<1>7. Moves \/ Quiet
  BY MovesOrQuiet
<1> QED
  BY <1>1, <1>2, <1>3, <1>4, <1>5, <1>6, <1>7 DEF Moves, Queue!QueueNext

(***************************************************************************)
(* Whatever its size and however many threads use it, the ring buffer with *)
(* its mutex is a bounded FIFO queue whose tasks are each begun and        *)
(* finished once (thread_pool.c:22-28, 66-73).                             *)
(***************************************************************************)
THEOREM PoolIsAQueue == Spec => ImplementsTaskQueue
<1>1. RInv => TypeOK
  BY DEF RInv, IInv, BaseInv
<1> QED
  BY InitMaps, StepMaps, PlacesInvariant, <1>1, PTL
     DEF Spec, ImplementsTaskQueue, Queue!QueueSpec

=============================================================================
