--------------------------- MODULE OneShotClients ---------------------------
(***************************************************************************)
(* The clients of versions 1, 2 and 3, their connections, and what the     *)
(* server's calls on a connection do.  A client goes round a loop: connect,*)
(* send the file, read once with a timeout, count, close.                  *)
(*                                                                         *)
(* What is sent comes in units: the client's writes of at most 1024 bytes, *)
(* which arrive whole, and in version 3 the size of the file first.        *)
(* A connection that fails is seen at both ends: what had arrived can still*)
(* be read, the next call then returns -1 ("pending"), and after that      *)
(* ("seen") read returns 0 and write raises SIGPIPE.                       *)
(***************************************************************************)
EXTENDS Integers, Sequences, FiniteSets

CONSTANTS
    Clients,
    Rounds,     \* the argument loop of each client
    Units,      \* Units[k]: the units of k's file
    Backlog,    \* the argument of listen
    Fragile,    \* the clients whose connections may fail
    Killable,   \* the clients that may be killed
    Versions,   \* the versions that are run
    NoReply

ASSUME ClientAssumption ==
    /\ IsFiniteSet(Clients) /\ Rounds \in [Clients -> Nat] /\ Backlog \in Nat
    /\ Units \in [Clients -> Nat \ {0}]
    /\ Fragile \subseteq Clients /\ Killable \subseteq Clients
    /\ Versions \subseteq {"v1", "v2", "v3"}

VARIABLES
    version,    \* of the server and of the clients
    up,         \* the server process runs
    client,     \* each client's next step, its round and its counters
    conn        \* each connection: its two ends, what was sent and taken, the
                \* errors the ends have to report, and what the server wrote

Conns == UNION {{k} \X (1..Rounds[k]) : k \in Clients}

Current(k) == <<k, client[k].round>>
Connection(k) == conn[Current(k)]

Stream(k) == Units[k] + (IF version = "v3" THEN 1 ELSE 0)

Waiting == {c \in Conns : conn[c].server = "waiting"}

ClientsInit ==
    /\ version \in Versions
    /\ up = TRUE
    /\ client = [k \in Clients |-> [step |-> "connect", round |-> 1, successfulRes |-> 0,
                                    numOfTimeouts |-> 0, numErrResponses |-> 0]]
    /\ conn = [c \in Conns |-> [client |-> "none", server |-> "none", sent |-> 0,
                                taken |-> 0, client_error |-> "none",
                                server_error |-> "none", reply |-> NoReply]]

-----------------------------------------------------------------------------
(* The loop of a client.  Its steps leave the version and the server alone. *)

\* The process ends, and with it its ends of all its connections.
Leave(k) ==
    /\ client' = [client EXCEPT ![k].step = "gone"]
    /\ conn' = [c \in Conns |->
                   IF c[1] = k /\ conn[c].client = "open"
                   THEN [conn[c] EXCEPT !.client = "closed"] ELSE conn[c]]

Connect(k) ==
    /\ client[k].step = "connect" /\ client[k].round <= Rounds[k]
    /\ up /\ Cardinality(Waiting) <= Backlog
    /\ client' = [client EXCEPT ![k].step = "send"]
    /\ conn' = [conn EXCEPT ![Current(k)].client = "open", ![Current(k)].server = "waiting"]

\* error("ERROR connecting"): nobody listens, or the queue stays full.
ConnectFails(k) ==
    /\ client[k].step = "connect" /\ client[k].round <= Rounds[k]
    /\ ~ up \/ Cardinality(Waiting) > Backlog
    /\ Leave(k)

Returns(k) ==
    /\ client[k].step = "connect" /\ client[k].round > Rounds[k]
    /\ Leave(k)

\* One write of the file; an end that is closed answers it with a reset.
Write(k) ==
    LET n == Connection(k).sent + 1 IN
    /\ client[k].step = "send" /\ Connection(k).client_error = "none"
    /\ client' = [client EXCEPT ![k].step = IF n = Stream(k) THEN "read" ELSE "send"]
    /\ conn' = [conn EXCEPT ![Current(k)].sent = n,
                            ![Current(k)].client_error =
                                IF Connection(k).server = "closed" THEN "pending" ELSE "none"]

\* Versions 1 and 2 do not look at the result and write on; send_file gives up.
LastWrite(k) == version = "v3" \/ Connection(k).sent + 1 = Stream(k)

WriteFails(k) ==
    /\ client[k].step = "send" /\ Connection(k).client_error = "pending"
    /\ LastWrite(k)
    /\ client' = [client EXCEPT ![k].step = "read"]
    /\ conn' = [conn EXCEPT ![Current(k)].client_error = "seen"]

\* The write behind one that failed: SIGPIPE.
BrokenPipe(k) ==
    /\ client[k].step = "send" /\ Connection(k).client_error = "pending"
    /\ ~ LastWrite(k)
    /\ Leave(k)

Answered(k) == Connection(k).reply # NoReply

EndOfFile(k) ==
    /\ Connection(k).client_error # "pending"
    /\ Connection(k).server = "closed" \/ Connection(k).client_error = "seen"

\* The end of a round: close(sockfd).
NextRound(k, counted) ==
    /\ client' = [client EXCEPT ![k] = [counted EXCEPT !.step = "connect", !.round = @ + 1]]
    /\ conn' = [conn EXCEPT ![Current(k)].client = "closed"]

\* Any length that is not negative is counted, 0 too.
ReadResponse(k) ==
    /\ client[k].step = "read"
    /\ Answered(k) \/ EndOfFile(k)
    /\ NextRound(k, [client[k] EXCEPT !.successfulRes = @ + 1])

MustWait(k) == ~ Answered(k) /\ ~ EndOfFile(k) /\ Connection(k).client_error = "none"

\* Mutant: a round that timed out is a success as well.
ReadTimesOutCounted(k) ==
    /\ client[k].step = "read" /\ MustWait(k)
    /\ NextRound(k, [client[k] EXCEPT !.numOfTimeouts = @ + 1, !.successfulRes = @ + 1])

ReadTimesOut(k) ==
    /\ client[k].step = "read" /\ MustWait(k)
    /\ NextRound(k, [client[k] EXCEPT !.numOfTimeouts = @ + 1])

\* The round ends without the close.
ReadFails(k) ==
    /\ client[k].step = "read"
    /\ ~ Answered(k) /\ Connection(k).client_error = "pending"
    /\ client' = [client EXCEPT ![k].step = "connect", ![k].round = @ + 1,
                                ![k].numErrResponses = @ + 1]
    /\ conn' = [conn EXCEPT ![Current(k)].client_error = "seen"]

\* The round of versions 1 and 2, which write the file as they read it.
PlainRound(k) ==
    \/ Connect(k) \/ ConnectFails(k) \/ Returns(k)
    \/ Write(k) \/ WriteFails(k) \/ BrokenPipe(k)
    \/ ReadResponse(k) \/ ReadTimesOut(k) \/ ReadFails(k)

V1Client(k) == version = "v1" /\ PlainRound(k)

V2Client(k) == version = "v2" /\ PlainRound(k)

\* The value that send_file compares with -1 is undefined when the size has been
\* sent (v3/common/common.c, lines 18-23 and 101).
GivesUp(k) ==
    /\ client[k].step = "send" /\ Connection(k).sent = 1
    /\ client' = [client EXCEPT ![k].step = "read"]
    /\ UNCHANGED conn

\* send_file: the size and the data of the file.
SendFile(k) == Write(k) \/ WriteFails(k) \/ GivesUp(k)

V3Client(k) ==
    /\ version = "v3"
    /\ \/ Connect(k) \/ ConnectFails(k) \/ Returns(k)
       \/ SendFile(k)
       \/ ReadResponse(k) \/ ReadTimesOut(k) \/ ReadFails(k)

\* loadtest.sh kills its clients when it is interrupted.
Kill(k) ==
    /\ k \in Killable /\ client[k].step # "gone"
    /\ Leave(k)

Break(c) ==
    /\ c[1] \in Fragile
    /\ conn[c].client = "open" /\ conn[c].server \in {"waiting", "open"}
    /\ conn[c].client_error = "none" /\ conn[c].server_error = "none"
    /\ conn' = [conn EXCEPT ![c].client_error = "pending", ![c].server_error = "pending"]
    /\ UNCHANGED client

ClientStep(k) == V1Client(k) \/ V2Client(k) \/ V3Client(k)

-----------------------------------------------------------------------------
(* The server's calls                                                      *)

HasUnit(c) == conn[c].taken < conn[c].sent

\* read or recv returns 0, or -1.
HasEnded(c) ==
    ~ HasUnit(c) /\ conn[c].server_error # "pending"
                 /\ (conn[c].client = "closed" \/ conn[c].server_error = "seen")
HasFailed(c) == ~ HasUnit(c) /\ conn[c].server_error = "pending"

\* A connection after accept, after a read of n units, after a failed call, and
\* after close, which resets a connection with data nobody has read.
Accepted(c) == [conn[c] EXCEPT !.server = "open"]
Taken(c, n) == [conn[c] EXCEPT !.taken = @ + n]
Failed(c) == [conn[c] EXCEPT !.server_error = "seen"]
Closed(r) ==
    [r EXCEPT !.server = "closed",
              !.client_error = IF r.taken < r.sent /\ @ = "none" THEN "pending" ELSE @]

\* After the one write of an answer, unless it raises SIGPIPE.
Raises(c) == conn[c].server_error = "seen"
Written(c, reply) ==
    IF conn[c].server_error = "pending" THEN Failed(c) ELSE [conn[c] EXCEPT !.reply = reply]

\* The server exits or is killed.  Connections it has not accepted are reset.
ServerEnds ==
    /\ up' = FALSE
    /\ conn' = [c \in Conns |->
                   IF conn[c].server = "waiting"
                   THEN [conn[c] EXCEPT !.server = "closed", !.client_error = "pending"]
                   ELSE IF conn[c].server = "open" THEN Closed(conn[c]) ELSE conn[c]]

=============================================================================
