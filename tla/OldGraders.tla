------------------------------ MODULE OldGraders ------------------------------
(***************************************************************************)
(* The servers of versions 1, 2 and 3, each with its clients.  A behaviour *)
(* runs one version.                                                       *)
(***************************************************************************)
EXTENDS SequentialServer, ThreadServer, PoolServer

\* What the servers answer, which is told from no answer.
V1Verdicts == {"COMPILATION ERROR", "RUNTIME ERROR", "OUTPUT ERROR", "PASS"}
Verdicts == {"COMPILE_ERROR", "RUNTIME_ERROR", "WRONG_ANSWER", "ACCEPTED"}

Replies == [verdict : V1Verdicts \cup Verdicts, text : Seq(Conns \cup {NoConn})]

ASSUME OldGradersAssumption == Nodes = Conns /\ NULL = NoConn /\ NoReply \notin Replies

oldVars == <<version, up, client, conn, program, shell, thread, file, errors, poolVars>>

OldInit == JudgingInit /\ PoolInit

ClientsNext ==
    /\ \/ \E k \in Clients : ClientStep(k) \/ Kill(k)
       \/ \E c \in Conns : Break(c)
    /\ UNCHANGED <<version, up, program, shell, thread, file, errors, poolVars>>

V1Next == V1Server /\ UNCHANGED poolVars

V2Next == (V2Main \/ \E t \in Threads : V2Thread(t)) /\ UNCHANGED poolVars

V3Next == V3Main \/ \E t \in Threads : V3Thread(t) \/ V3Wakes(t)

OldNext == ClientsNext \/ V1Next \/ V2Next \/ V3Next

OldSpec == OldInit /\ [][OldNext]_oldVars

(***************************************************************************)
(* Clients and threads that can go on do; a client is killed, a connection *)
(* fails and a thread wakes for no reason only perhaps.                    *)
(***************************************************************************)
OldFairness ==
    /\ \A k \in Clients :
          WF_oldVars(ClientStep(k) /\ UNCHANGED <<version, up, program, shell, thread, file, errors, poolVars>>)
    /\ WF_oldVars(V1Next)
    /\ WF_oldVars(V2Main /\ UNCHANGED poolVars)
    /\ WF_oldVars(V3Main)
    /\ \A t \in Threads :
          /\ WF_oldVars(V2Thread(t) /\ UNCHANGED poolVars)
          /\ WF_oldVars(V3Thread(t))

FairOldSpec == OldSpec /\ OldFairness

-----------------------------------------------------------------------------
(* Properties                                                              *)

OldTypeOK ==
    /\ version \in Versions /\ shell \in {"bash", "dash"} /\ program \in Programs
    /\ up \in BOOLEAN
    /\ client \in [Clients -> [step : {"connect", "send", "read", "gone"}, round : Nat,
                               successfulRes : Nat, numOfTimeouts : Nat,
                               numErrResponses : Nat]]
    /\ \A k \in Clients : client[k].successfulRes + client[k].numOfTimeouts
                             + client[k].numErrResponses = client[k].round - 1
    /\ \A c \in Conns :
          /\ conn[c].client \in {"none", "open", "closed"}
          /\ conn[c].server \in {"none", "waiting", "open", "closed"}
          /\ 0 <= conn[c].taken /\ conn[c].taken <= conn[c].sent
          /\ conn[c].sent <= Stream(c[1])
          /\ {conn[c].client_error, conn[c].server_error} \subseteq {"none", "pending", "seen"}
          /\ conn[c].reply # NoReply => conn[c].reply.verdict \in V1Verdicts \cup Verdicts
    /\ \A t \in AllThreads :
          thread[t].sock = NoConn <=> thread[t].at \in {"accept", "free", "lock", "asleep"}
    /\ head \in Conns \cup {NoConn} /\ tail \in Conns \cup {NoConn}
    /\ pool_size \in 0 .. Cardinality(Conns)
    /\ leaked \in 0 .. Cardinality(Conns)

Whole(c) == conn[c].taken = Stream(c[1])

VerdictOf(nature) ==
    CASE nature = "broken"               -> "COMPILE_ERROR"
      [] nature \in {"crashes", "returns"} -> "RUNTIME_ERROR"
      [] nature = "wrong"                -> "WRONG_ANSWER"
      [] nature = "right"                -> "ACCEPTED"

(***************************************************************************)
(* Whatever the others send at the same time, the verdict a client of      *)
(* version 2 or 3 gets on a file that was received whole is that of its    *)
(* own program (v2/server.c:104, v3/server.c:91: files named by thread).   *)
(***************************************************************************)
VerdictsAreOwn ==
    \A c \in Conns :
        /\ version \in {"v2", "v3"} /\ shell = "bash"
        /\ conn[c].reply # NoReply /\ Whole(c)
        => conn[c].reply.verdict = VerdictOf(program[c[1]])

(***************************************************************************)
(* In version 1 an answer of PASS or OUTPUT ERROR shows the output of the  *)
(* client's own program, and COMPILATION ERROR starts with its own errors, *)
(* although what earlier requests left in error_output.txt may follow.  Of *)
(* RUNTIME ERROR nothing is said: it may show nothing but what others left *)
(* (v1/server.c:65, 91-147).                                               *)
(***************************************************************************)
TextsAreOwn ==
    \A c \in Conns :
        LET reply == conn[c].reply IN
        version = "v1" /\ reply # NoReply =>
            /\ reply.verdict \in {"PASS", "OUTPUT ERROR"} => reply.text = <<c>>
            /\ reply.verdict = "COMPILATION ERROR" => Head(reply.text) = c

(***************************************************************************)
(* Version 3 answers with the file cut only a client that went away or     *)
(* whose connection failed (v3/common/common.c:70-82).                     *)
(***************************************************************************)
WholeFilesJudged ==
    \A c \in Conns :
        version = "v3" /\ conn[c].reply # NoReply =>
            Whole(c) \/ conn[c].client = "closed"

\* A thread or the queue has the connection.
Held(c) == (\E i \in DOMAIN Contents : Contents[i] = c) \/ \E t \in AllThreads : Sock(t) = c

\* The answers whose paths do not close the socket.
NotClosed ==
    CASE version = "v1" -> {}
      [] version = "v2" -> Verdicts
      [] version = "v3" -> {"COMPILE_ERROR", "RUNTIME_ERROR"}

Replied(c) == conn[c].reply # NoReply

\* A thread has returned from the connection without closing it; an answer that
\* was not written may have been any.
Left(c) ==
    \/ Replied(c) /\ conn[c].reply.verdict \in NotClosed
    \/ ~ Replied(c) /\ conn[c].server_error = "seen" /\ NotClosed # {}

(***************************************************************************)
(* While the server lives no socket is closed that a thread or the queue   *)
(* has, and one that neither has is open only behind the answers that      *)
(* leak: all of version 2, those of failed programs in version 3; and      *)
(* these stay open for good (v1/server.c:149, v2/server.c:115-133,         *)
(* v3/server.c:98-107, 123).                                               *)
(***************************************************************************)
SocketsAreAccounted ==
    up => \A c \in Conns :
              /\ conn[c].server = "open" => Held(c) \/ Left(c)
              /\ Held(c) => conn[c].server = "open"
              /\ Replied(c) /\ Left(c) => conn[c].server = "open"

\* What can end a server.
MayEnd ==
    \/ \E t \in AllThreads : /\ Sock(t) # NoConn /\ Sock(t)[1] \in Fragile
                             /\ conn[Sock(t)].server_error # "none"
    \/ version # "v1" /\ Descriptors + leaked >= FdLimit
    \/ version = "v2" /\ Waiting # {} /\ \A t \in Threads : Sock(t) # NoConn

(***************************************************************************)
(* A server ends only when a connection that a thread has failed, when its *)
(* open descriptors are up to the limit (which ones they may be is         *)
(* SocketsAreAccounted), or when a connection comes and every thread has   *)
(* one; not because clients come together, go away early, send too much,   *)
(* or fail before they are accepted (v1/server.c:77, v2/server.c:170-177,  *)
(* v3/server.c:188).                                                       *)
(***************************************************************************)
ServerSurvives == [][up /\ ~ up' => MayEnd]_oldVars

(***************************************************************************)
(* While the server lives, a client counts as successes at most the rounds *)
(* that were answered, with whatever verdict, or whose connection had      *)
(* failed under send_file or write: none that timed out (client.c:110-122  *)
(* of versions 1 and 2, v3/client.c:106-119).                              *)
(***************************************************************************)
SuccessesWereAnswered ==
    up => \A k \in Clients :
              client[k].successfulRes <=
                  Cardinality({c \in Conns : c[1] = k /\ (conn[c].reply # NoReply
                                                          \/ conn[c].client_error = "seen")})

\* v3/client.c:117 and v2/client.c:119, "If the response contains "PASS", consider
\* it a successful": a client counts no more successes than it had passes.
SuccessesPassed ==
    \A k \in Clients :
        client[k].successfulRes <=
            Cardinality({c \in Conns : /\ c[1] = k /\ conn[c].reply # NoReply
                                      /\ conn[c].reply.verdict \in {"PASS", "ACCEPTED"}})

TQ == INSTANCE TaskQueue WITH
        Workers <- Threads, Tasks <- Conns, Capacity <- Cardinality(Conns), NoTask <- NoConn,
        pending <- Contents,
        running <- [t \in Threads |-> IF version = "v3" THEN thread[t].sock ELSE NoConn],
        finished <- {c \in Conns : /\ version = "v3"
                                   /\ conn[c].reply # NoReply \/ conn[c].server_error = "seen"
                                   /\ \A t \in Threads : thread[t].sock # c}

(***************************************************************************)
(* The linked queue with its length and condition variable is the FIFO     *)
(* queue that version 4 has as a ring buffer: each connection is handed to *)
(* one thread, once, in order, and none drops out of the list while it is  *)
(* counted (v3/myqueue.c, v3/server.c:127-142, 190-195).                   *)
(***************************************************************************)
PoolIsTaskQueue == TQ!QueueSpec /\ [](pool_size = Len(Contents))

\* The threads that a program keeps for ever.
Stuck(t) == thread[t].at = "run_task" /\ shell = "bash" /\ ~ Ends(t)

(***************************************************************************)
(* A client that has connected is answered, unless the server ends, or its *)
(* connection failed, or programs that never end hold version 1's only     *)
(* thread, the connection's own in version 2, or every one in version 3.   *)
(***************************************************************************)
ConnectedAreAnswered ==
    \A c \in Conns :
        conn[c].server = "waiting" ~>
            \/ conn[c].reply # NoReply \/ conn[c].server_error = "seen" \/ ~ up
            \/ version = "v1" /\ thread[Main].at = "run" /\ ~ Ends(Main)
            \/ \E t \in Threads : Stuck(t) /\ thread[t].sock = c
            \/ version = "v3" /\ \A t \in Threads : Stuck(t)

=============================================================================
