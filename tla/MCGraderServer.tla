--------------------------- MODULE MCGraderServer ---------------------------
(* Small instances of GraderServer for TLC.                                *)
EXTENDS GraderServer, TLC

CONSTANTS w1, w2, w3, c1, c2, c3, c4, c5, i1, i2

Some == Conns \cup Ids

\* Two submissions, of which one may break off, and two checks.
TwoSubmissions ==
    [c \in Conns |-> CASE c = c1 -> {"submit"}
                     [] c = c2 -> {"submit", "cut"}
                     [] OTHER  -> {"check"}]

\* Connections that end in every way but a crash of the server.
AllWays ==
    [c \in Conns |-> CASE c = c1 -> {"submit", "cut"}
                     [] c = c2 -> {"reset", "vanish"}
                     [] c = c3 -> {"check", "check36", "checkreset"}
                     [] OTHER  -> {"invalid"}]

\* A client that sends nothing, next to others that do.
OneStalls ==
    [c \in Conns |-> CASE c = c1 -> {"submit", "cut"}
                     [] c = c2 -> {"stall"}
                     [] OTHER  -> {"submit", "check", "invalid"}]

\* One submission and a check of it.
OneCheck == [c \in Conns |-> IF c = c1 THEN {"submit"} ELSE {"check"}]

Interchangeable == Permutations(Workers) \cup Permutations(Ids)

=============================================================================
