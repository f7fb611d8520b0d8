--------------------------- MODULE TaskQueueProofs ---------------------------
(***************************************************************************)
(* Proofs about the queue of tasks, for any number of workers and tasks    *)
(* and any capacity: each task is queued, run and finished once.  The      *)
(* effects of its three operations on the set of tasks it holds are stated *)
(* as lemmas of their own, for the proofs of the modules built on it.      *)
(***************************************************************************)
EXTENDS TaskQueue, SequenceTheorems, TLAPS

\* The inductive invariant.
PoolInv == QueueTypeOK /\ ExactlyOnce

\* The tasks that are queued or running.
InPool == Range(pending) \cup (Range(running) \ {NoTask})

-----------------------------------------------------------------------------
(* Sequences and functions                                                 *)

\* What a queue with one task more contains.
LEMMA RangeAppend ==
    ASSUME NEW S, NEW s \in Seq(S), NEW e \in S
    PROVE  Range(Append(s, e)) = Range(s) \cup {e}
<1>1. Append(s, e) = s \o <<e>> /\ <<e>> \in Seq(S)
  BY AppendIsConcat
<1>2. Range(Append(s, e)) = Range(s) \cup Range(<<e>>)
  BY <1>1, RangeConcatenation
<1>3. Range(<<e>>) = {<<e>>[i] : i \in 1..1}
  BY <1>1, RangeEquality
<1> QED
  BY <1>2, <1>3

\* No element occurs twice.
Distinct(s) == \A i, j \in DOMAIN s : i # j => s[i] # s[j]

\* What a queue loses with its head, when no task is in it twice.
LEMMA TailOfDistinct ==
    ASSUME NEW S, NEW s \in Seq(S), s # <<>>, Distinct(s)
    PROVE  /\ Head(s) \in Range(s) /\ Head(s) \in S
           /\ Tail(s) \in Seq(S) /\ Len(Tail(s)) = Len(s) - 1
           /\ Range(Tail(s)) = Range(s) \ {Head(s)}
           /\ Distinct(Tail(s))
<1>1. /\ Tail(s) \in Seq(S)
      /\ Len(Tail(s)) = Len(s) - 1
      /\ \A i \in 1 .. Len(Tail(s)) : Tail(s)[i] = s[i + 1]
  BY HeadTailProperties
<1>2. Len(s) \in Nat \ {0} /\ Head(s) = s[1] /\ s[1] \in S
  BY EmptySeq, LenProperties
<1>3. DOMAIN s = 1..Len(s) /\ DOMAIN Tail(s) = 1 .. Len(s) - 1
  BY <1>1, LenProperties
<1>4. /\ Range(s) = {s[i] : i \in 1..Len(s)}
      /\ Range(Tail(s)) = {Tail(s)[i] : i \in 1 .. Len(s) - 1}
  BY <1>3 DEF Range
<1>5. \A i \in 2..Len(s) : s[i] # s[1]
  BY <1>2, <1>3 DEF Distinct
<1>6. Range(Tail(s)) = Range(s) \ {s[1]}
  <2>1. ASSUME NEW x \in Range(Tail(s)) PROVE x \in Range(s) /\ x # s[1]
    <3>1. PICK i \in 1 .. Len(s) - 1 : x = Tail(s)[i]
      BY <1>4
    <3>2. i + 1 \in 2..Len(s) /\ i + 1 \in 1..Len(s) /\ x = s[i + 1]
      BY <3>1, <1>1, <1>2
    <3> QED
      BY <3>2, <1>4, <1>5
  <2>2. ASSUME NEW x \in Range(s), x # s[1] PROVE x \in Range(Tail(s))
    <3>1. PICK i \in 1..Len(s) : x = s[i]
      BY <1>4
    <3>2. i - 1 \in 1 .. Len(s) - 1 /\ (i - 1) + 1 = i
      BY <3>1, <2>2, <1>2
    <3>3. Tail(s)[i - 1] = x
      BY <3>1, <3>2, <1>1
    <3> QED
      BY <3>2, <3>3, <1>4
  <2> QED
    BY <2>1, <2>2
<1>7. Distinct(Tail(s))
  <2> SUFFICES ASSUME NEW i \in 1 .. Len(s) - 1, NEW j \in 1 .. Len(s) - 1, i # j
               PROVE  Tail(s)[i] # Tail(s)[j]
    BY <1>3 DEF Distinct
  <2>1. i + 1 \in 1..Len(s) /\ j + 1 \in 1..Len(s) /\ i + 1 # j + 1
    BY <1>2
  <2>2. Tail(s)[i] = s[i + 1] /\ Tail(s)[j] = s[j + 1]
    BY <1>1
  <2> QED
    BY <2>1, <2>2, <1>3 DEF Distinct
<1>8. Head(s) \in Range(s)
  BY <1>2, <1>4
<1> QED
  BY <1>1, <1>2, <1>6, <1>7, <1>8

-----------------------------------------------------------------------------
(* What each operation does to the tasks in the pool                       *)

\* A task is known when it is in the pool or has finished.
LEMMA KnownTasks ==
    \A t \in Tasks : Known(t) <=> t \in InPool \cup finished
BY QueueAssumption DEF Known, InPool

\* The pool holds nothing but tasks.
LEMMA PoolTasks == PoolInv => InPool \subseteq Tasks
<1> SUFFICES ASSUME PoolInv PROVE InPool \subseteq Tasks
  OBVIOUS
<1>1. Range(pending) \subseteq Tasks
  <2>1. DOMAIN pending = 1..Len(pending) /\ \A i \in 1..Len(pending) : pending[i] \in Tasks
    BY LenProperties, ElementOfSeq DEF PoolInv, QueueTypeOK
  <2> QED
    BY <2>1 DEF Range
<1>2. Range(running) \subseteq Tasks \cup {NoTask}
  BY DEF PoolInv, QueueTypeOK, Range
<1> QED
  BY <1>1, <1>2 DEF InPool

LEMMA AddEffect ==
    ASSUME PoolInv, NEW t \in Tasks, Add(t)
    PROVE  /\ PoolInv'
           /\ t \notin InPool \cup finished
           /\ InPool' = InPool \cup {t}
           /\ running' = running /\ finished' = finished
<1>1. /\ pending' = Append(pending, t) /\ running' = running /\ finished' = finished
      /\ Len(pending) < Capacity /\ ~ Known(t)
      /\ pending \in Seq(Tasks)
  BY DEF Add, PoolInv, QueueTypeOK
<1>2. /\ pending' \in Seq(Tasks)
      /\ Len(pending') = Len(pending) + 1
      /\ \A i \in 1..Len(pending) : pending'[i] = pending[i]
      /\ pending'[Len(pending) + 1] = t
  BY <1>1, AppendProperties
<1>3. Range(pending') = Range(pending) \cup {t}
  BY <1>1, RangeAppend
<1>4. /\ Len(pending) \in Nat
      /\ DOMAIN pending = 1..Len(pending) /\ DOMAIN pending' = 1 .. Len(pending) + 1
  BY <1>1, <1>2, LenProperties
<1>5. t \notin Range(pending) /\ t \notin Range(running) /\ t \notin finished
  BY <1>1 DEF Known
<1>6. QueueTypeOK'
  BY <1>1, <1>2, <1>4, QueueAssumption DEF PoolInv, QueueTypeOK
<1>7. \A i, j \in DOMAIN pending' : i # j => pending'[i] # pending'[j]
  <2>1. \A i \in 1..Len(pending) : pending[i] # t
    BY <1>4, <1>5 DEF Range
  <2> SUFFICES ASSUME NEW i \in 1 .. Len(pending) + 1, NEW j \in 1 .. Len(pending) + 1,
                      i # j
               PROVE  pending'[i] # pending'[j]
    BY <1>4
  <2>2. CASE i = Len(pending) + 1
    <3>1. j \in 1..Len(pending)
      BY <2>2, <1>4
    <3> QED
      BY <3>1, <2>1, <2>2, <1>2
  <2>3. CASE j = Len(pending) + 1
    <3>1. i \in 1..Len(pending)
      BY <2>3, <1>4
    <3> QED
      BY <3>1, <2>1, <2>3, <1>2
  <2>4. CASE i # Len(pending) + 1 /\ j # Len(pending) + 1
    <3>1. i \in 1..Len(pending) /\ j \in 1..Len(pending)
      BY <2>4, <1>4
    <3> QED
      BY <3>1, <1>2, <1>4 DEF PoolInv, ExactlyOnce
  <2> QED
    BY <2>2, <2>3, <2>4
<1>8. ExactlyOnce'
  BY <1>1, <1>3, <1>5, <1>7 DEF PoolInv, ExactlyOnce
<1>9. InPool' = InPool \cup {t}
  BY <1>1, <1>3, QueueAssumption DEF InPool
<1> QED
  BY <1>1, <1>5, <1>6, <1>8, <1>9 DEF PoolInv, InPool

\* The worker a task is given to runs it, and no other task moves.
LEMMA BeginEffect ==
    ASSUME PoolInv, NEW w \in Workers, Begin(w)
    PROVE  /\ PoolInv'
           /\ Head(pending) \in InPool /\ Head(pending) \in Tasks
           /\ running[w] = NoTask
           /\ running' = [running EXCEPT ![w] = Head(pending)]
           /\ InPool' = InPool /\ finished' = finished
<1> DEFINE t == Head(pending)
<1>1. /\ running[w] = NoTask /\ pending # <<>>
      /\ running' = [running EXCEPT ![w] = t]
      /\ pending' = Tail(pending) /\ finished' = finished
      /\ pending \in Seq(Tasks) /\ Len(pending) <= Capacity
      /\ running \in [Workers -> Tasks \cup {NoTask}]
  BY DEF Begin, PoolInv, QueueTypeOK
<1>2. Distinct(pending)
  BY DEF PoolInv, ExactlyOnce, Distinct
<1>3. /\ t \in Range(pending) /\ t \in Tasks
      /\ pending' \in Seq(Tasks) /\ Len(pending') = Len(pending) - 1
      /\ Range(pending') = Range(pending) \ {t}
      /\ Distinct(pending')
  BY <1>1, <1>2, TailOfDistinct
<1> HIDE DEF t
<1>4. t \notin Range(running) /\ t \notin finished
  BY <1>3 DEF PoolInv, ExactlyOnce
<1>5. /\ running' \in [Workers -> Tasks \cup {NoTask}]
      /\ running'[w] = t /\ \A v \in Workers \ {w} : running'[v] = running[v]
  BY <1>1, <1>3
<1>6. Range(running') \ {NoTask} = (Range(running) \ {NoTask}) \cup {t}
  <2>1. DOMAIN running = Workers /\ DOMAIN running' = Workers
    BY <1>1, <1>5
  <2>2. t # NoTask
    BY <1>3, QueueAssumption
  <2> QED
    BY <2>1, <2>2, <1>1, <1>5 DEF Range
<1>7. QueueTypeOK'
  <2>1. Len(pending) \in Nat
    BY <1>1, LenProperties
  <2> QED
    BY <2>1, <1>1, <1>3, <1>5, QueueAssumption DEF PoolInv, QueueTypeOK
<1>8. ExactlyOnce'
  <2>1. \A i, j \in DOMAIN pending' : i # j => pending'[i] # pending'[j]
    BY <1>3 DEF Distinct
  <2>2. \A u, v \in Workers : u # v /\ running'[u] # NoTask => running'[u] # running'[v]
    <3>1. \A v \in Workers : running[v] # t
      BY <1>1, <1>4 DEF Range
    <3>2. t # NoTask
      BY <1>3, QueueAssumption
    <3> QED
      BY <3>1, <3>2, <1>5 DEF PoolInv, ExactlyOnce
  <2>3. Range(pending') \cap Range(running') = {}
    <3>1. NoTask \notin Range(pending')
      BY <1>3, RangeOfSeq, QueueAssumption
    <3> QED
      BY <3>1, <1>3, <1>6 DEF PoolInv, ExactlyOnce
  <2>4. finished' \cap (Range(pending') \cup Range(running')) = {}
    <3>1. NoTask \notin finished
      BY QueueAssumption DEF PoolInv, QueueTypeOK
    <3> QED
      BY <3>1, <1>1, <1>3, <1>4, <1>6 DEF PoolInv, ExactlyOnce
  <2> QED
    BY <2>1, <2>2, <2>3, <2>4 DEF ExactlyOnce
<1>9. InPool' = InPool
  BY <1>3, <1>6 DEF InPool
<1>10. t \in InPool
  BY <1>3 DEF InPool
<1> QED
  BY <1>1, <1>3, <1>7, <1>8, <1>9, <1>10 DEF PoolInv, t

LEMMA FinishEffect ==
    ASSUME PoolInv, NEW w \in Workers, Finish(w)
    PROVE  /\ PoolInv'
           /\ running[w] \in InPool /\ running[w] \in Tasks
           /\ running' = [running EXCEPT ![w] = NoTask]
           /\ InPool' = InPool \ {running[w]}
           /\ finished' = finished \cup {running[w]}
<1> DEFINE t == running[w]
<1>1. /\ t # NoTask /\ t \in Tasks
      /\ running' = [running EXCEPT ![w] = NoTask]
      /\ pending' = pending /\ finished' = finished \cup {t}
      /\ pending \in Seq(Tasks)
      /\ running \in [Workers -> Tasks \cup {NoTask}]
  BY DEF Finish, PoolInv, QueueTypeOK
<1>2. t \in Range(running)
  BY <1>1 DEF Range
<1>3. t \notin Range(pending) /\ \A v \in Workers \ {w} : running[v] # t
  BY <1>1, <1>2 DEF PoolInv, ExactlyOnce
<1>4. /\ running' \in [Workers -> Tasks \cup {NoTask}]
      /\ running'[w] = NoTask /\ \A v \in Workers \ {w} : running'[v] = running[v]
  BY <1>1
<1>5. Range(running') \ {NoTask} = (Range(running) \ {NoTask}) \ {t}
  <2>1. DOMAIN running = Workers /\ DOMAIN running' = Workers
    BY <1>1, <1>4
  <2> QED
    BY <2>1, <1>1, <1>3, <1>4 DEF Range
<1>6. NoTask \notin Range(pending) /\ NoTask \notin finished
  BY <1>1, RangeOfSeq, QueueAssumption DEF PoolInv, QueueTypeOK
<1>7. QueueTypeOK'
  BY <1>1, <1>4 DEF PoolInv, QueueTypeOK
<1>8. ExactlyOnce'
  <2>1. \A u, v \in Workers : u # v /\ running'[u] # NoTask => running'[u] # running'[v]
    BY <1>1, <1>4 DEF PoolInv, ExactlyOnce
  <2>2. Range(pending') \cap Range(running') = {}
    BY <1>1, <1>5, <1>6 DEF PoolInv, ExactlyOnce
  <2>3. finished' \cap (Range(pending') \cup Range(running')) = {}
    <3>1. finished \cap (Range(pending) \cup Range(running)) = {}
      BY DEF PoolInv, ExactlyOnce
    <3>2. t \notin Range(running')
      BY <1>1, <1>5
    <3>3. Range(running') \subseteq Range(running) \cup {NoTask}
      BY <1>5
    <3> HIDE DEF t
    <3> QED
      BY <3>1, <3>2, <3>3, <1>1, <1>3, <1>6
  <2>4. \A i, j \in DOMAIN pending' : i # j => pending'[i] # pending'[j]
    BY <1>1 DEF PoolInv, ExactlyOnce
  <2> QED
    BY <2>1, <2>2, <2>3, <2>4 DEF ExactlyOnce
<1>9. InPool' = InPool \ {t}
  BY <1>1, <1>3, <1>5 DEF InPool
<1> QED
  BY <1>1, <1>2, <1>7, <1>8, <1>9 DEF PoolInv, InPool

-----------------------------------------------------------------------------

LEMMA QueueInitInv == QueueInit => PoolInv /\ InPool = {}
<1> SUFFICES ASSUME QueueInit PROVE PoolInv /\ InPool = {}
  OBVIOUS
<1>1. /\ pending \in Seq(Tasks) /\ Len(pending) = 0 /\ DOMAIN pending = {}
      /\ Range(pending) = {}
  BY DEF QueueInit, Range
<1>2. /\ running \in [Workers -> Tasks \cup {NoTask}]
      /\ \A w \in Workers : running[w] = NoTask
      /\ finished = {}
  BY DEF QueueInit
<1>3. Range(running) \subseteq {NoTask}
  BY <1>2 DEF Range
<1> QED
  BY <1>1, <1>2, <1>3, QueueAssumption DEF PoolInv, QueueTypeOK, ExactlyOnce, InPool

\* One step per operation.
LEMMA QueueStepInv == PoolInv /\ [QueueNext]_queueVars => PoolInv'
<1> SUFFICES ASSUME PoolInv, [QueueNext]_queueVars PROVE PoolInv'
  OBVIOUS
<1>1. ASSUME NEW t \in Tasks, Add(t) PROVE PoolInv'
  BY <1>1, AddEffect
<1>2. ASSUME NEW w \in Workers, Begin(w) PROVE PoolInv'
  BY <1>2, BeginEffect
<1>3. ASSUME NEW w \in Workers, Finish(w) PROVE PoolInv'
  BY <1>3, FinishEffect
<1>4. CASE UNCHANGED queueVars
  BY <1>4 DEF queueVars, PoolInv, QueueTypeOK, ExactlyOnce
<1> QED
  BY <1>1, <1>2, <1>3, <1>4 DEF QueueNext

(***************************************************************************)
(* A task is never queued twice, never run by two workers and never again  *)
(* after it has finished (thread_pool.c:22-28).                            *)
(***************************************************************************)
THEOREM TasksRunOnce == QueueSpec => []ExactlyOnce
<1>1. PoolInv => ExactlyOnce
  BY DEF PoolInv
<1> QED
  BY <1>1, QueueInitInv, QueueStepInv, PTL DEF QueueSpec

=============================================================================
