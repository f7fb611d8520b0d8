---------------------------- MODULE MCThreadPool ----------------------------
(* Small instances of ThreadPool for TLC.                                  *)
EXTENDS ThreadPool, TLC

CONSTANTS w1, w2, main, r1, r2, r3, c1, c2

\* Two submissions, each adding a worker task, and a status check.
SpawnsTwo == (r1 :> c1) @@ (r2 :> c2) @@ [t \in {r3, c1, c2} |-> NoTask]

SpawnsNone == [t \in Tasks |-> NoTask]

=============================================================================
