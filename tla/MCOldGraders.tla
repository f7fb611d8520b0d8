---------------------------- MODULE MCOldGraders ----------------------------
(* A small instance of OldGraders for TLC.                                 *)
EXTENDS OldGraders, TLC

CONSTANTS k1, k2, t1, t2

\* k2's file takes two writes.
ShortAndLong == [k \in Clients |-> IF k = k1 THEN 1 ELSE 2]

\* Programs that end, one for each verdict.
Ending == {(k1 :> "right" @@ k2 :> "broken"), (k1 :> "returns" @@ k2 :> "wrong")}

\* One of two programs never ends.
OneEndless == {(k1 :> "endless" @@ k2 :> "crashes")}

\* A program that does not compile.
Broken == {[k \in Clients |-> "broken"]}

Short == [k \in Clients |-> 1]

OneRound == [k \in Clients |-> 1]

TwoAndOne == [k \in Clients |-> IF k = k1 THEN 2 ELSE 1]

AllConns == Conns

Interchangeable == Permutations(Threads)

=============================================================================
