---------------------------- MODULE MCGraderClient ----------------------------
(* A small instance of GraderClient for TLC.                               *)
EXTENDS GraderClient

CONSTANTS w1, k1, i1, i2

AllConns == Clients \X (1..Rounds) \X (0..MaxChecks)

Some == AllConns \cup Ids

=============================================================================
