----------------------------- MODULE LinkedQueue -----------------------------
(***************************************************************************)
(* The queue of v3/myqueue.c: nodes linked from head to tail.  It has no   *)
(* lock of its own.  A node is named after the client socket it holds,     *)
(* which is queued once.                                                   *)
(***************************************************************************)
EXTENDS Sequences

CONSTANTS
    Nodes,
    NULL

ASSUME LinkedQueueAssumption == NULL \notin Nodes

VARIABLES head, tail, next

linkedQueueVars == <<head, tail, next>>

LinkedQueueInit == head = NULL /\ tail = NULL /\ next = [n \in Nodes |-> NULL]

Enqueue(newnode) ==
    /\ IF tail = NULL
       THEN head' = newnode /\ next' = [next EXCEPT ![newnode] = NULL]
       ELSE UNCHANGED head /\ next' = [next EXCEPT ![newnode] = NULL, ![tail] = newnode]
    /\ tail' = newnode

\* Mutant: tail still points to the node that is freed.
DequeueKeepsTail(result) ==
    /\ result = head /\ head # NULL
    /\ head' = next[head]
    /\ next' = [next EXCEPT ![head] = NULL]
    /\ UNCHANGED tail

\* The node is freed; nothing reads its next any more.
Dequeue(result) ==
    /\ result = head /\ head # NULL
    /\ head' = next[head]
    /\ tail' = IF next[head] = NULL THEN NULL ELSE tail
    /\ next' = [next EXCEPT ![head] = NULL]

\* The nodes from the first one on.
From[n \in Nodes \cup {NULL}] == IF n = NULL THEN <<>> ELSE <<n>> \o From[next[n]]

Contents == From[head]

=============================================================================
