--------------------------- MODULE OldCountsProofs ---------------------------
(***************************************************************************)
(* Proofs about what the servers of versions 1, 2 and 3 and their clients  *)
(* count and keep: rounds and successes, sockets that are open, files that *)
(* are left open, and the nodes of version 3's queue, which is shown to be *)
(* the queue of TaskQueue; and about what ends a server.                   *)
(***************************************************************************)
EXTENDS OldGradersProofs, FiniteSetTheorems, SequenceTheorems

\* What the initial choice fixes.
ParamInv ==
    /\ version \in Versions /\ shell \in {"bash", "dash"} /\ program \in Programs
    /\ up \in BOOLEAN

\* A connection fails at both ends, and only where that may happen.
ErrorInv ==
    \A c \in Conns :
        conn[c].server_error # "none" => conn[c].client_error # "none" /\ c[1] \in Fragile

\* What the server reads was sent, and what is sent belongs to the file.
StreamInv ==
    /\ \A c \in Conns :
          /\ conn[c].taken <= conn[c].sent /\ conn[c].sent <= Stream(c[1])
          /\ Ahead(c) => conn[c].sent = 0
    /\ \A k \in Clients : client[k].step = "send" => Connection(k).sent < Stream(k)

\* Every round that is over was counted once.
RoundInv ==
    \A k \in Clients :
        /\ client[k].round \in Nat \ {0}
        /\ client[k].step \in {"send", "read"} => client[k].round <= Rounds[k]
        /\ client[k].successfulRes + client[k].numOfTimeouts + client[k].numErrResponses
              = client[k].round - 1

\* A server that lives closes what it has answered, or cannot answer.
ClosedInv ==
    up => \A c \in Conns :
              conn[c].server = "closed" =>
                  conn[c].reply # NoReply \/ conn[c].client_error # "none"

\* The connections of k's rounds that are over and may have been counted as successes.
Counted(c) == conn[c].reply # NoReply \/ conn[c].client_error = "seen"
CountedBy(k) == {c \in Conns : c[1] = k /\ c[2] < client[k].round /\ Counted(c)}

SuccessInv ==
    up => \A k \in Clients : client[k].successfulRes <= Cardinality(CountedBy(k))

\* The connections whose file a thread of version 3 has begun to receive.
Received(c) ==
    /\ ~ Outside(c) /\ ~ Listed(c)
    /\ \A t \in AllThreads : thread[t].sock = c => thread[t].at \notin {"enqueue", "recv_size"}

LeakInv == leaked \in Nat /\ leaked <= Cardinality({c \in Conns : Received(c)})

\* q are the nodes of a list, and the links of all others are empty.
Links(q, nxt) ==
    /\ q \in Seq(Conns)
    /\ \A i \in 1 .. Len(q) : nxt[q[i]] = IF i < Len(q) THEN q[i + 1] ELSE NULL
    /\ \A i, j \in 1 .. Len(q) : q[i] = q[j] => i = j
    /\ \A n \in Conns : (\A i \in 1 .. Len(q) : q[i] # n) => nxt[n] = NULL

Chain(q) ==
    /\ Links(q, next)
    /\ IF q = <<>> THEN head = NULL /\ tail = NULL ELSE head = q[1] /\ tail = q[Len(q)]

QueueInv == Chain(Contents) /\ pool_size = Len(Contents)

CountInv ==
    /\ ParamInv /\ ErrorInv /\ StreamInv /\ RoundInv /\ ClosedInv /\ SuccessInv
    /\ LeakInv /\ QueueInv /\ SocketsAreAccounted

-----------------------------------------------------------------------------
(* What a step of a server makes of the connections                        *)

\* One call on c, of which r is what is left.
CallOf(c, r) ==
    \/ r = conn[c]
    \/ conn[c].server = "waiting" /\ r = Accepted(c)
    \/ HasUnit(c) /\ r = Taken(c, 1)
    \/ r = Taken(c, 0)
    \/ HasFailed(c) /\ r = Failed(c)
    \/ ~ Raises(c) /\ \E reply \in Replies :
          r = Written(c, reply) \/ r = Closed(Written(c, reply))

\* What ends a server.
Reason ==
    \/ \E t \in AllThreads : /\ thread[t].sock \in Conns
                             /\ HasFailed(thread[t].sock) \/ Raises(thread[t].sock)
    \/ version = "v2" /\ Descriptors >= FdLimit
    \/ version = "v3" /\ Descriptors + leaked >= FdLimit
    \/ version = "v2" /\ Waiting # {} /\ \A t \in Threads : thread[t].at # "free"

ServerDoes ==
    \/ ServerEnds /\ leaked' = leaked /\ Reason
    \/ up' = up /\ \A c \in Conns : CallOf(c, conn'[c])

LEMMA OneCall ==
    ASSUME OldInv, NEW c \in Conns, NEW r, conn' = [conn EXCEPT ![c] = r], CallOf(c, r),
           up' = up
    PROVE  ServerDoes
<1>1. \A d \in Conns : conn'[d] = IF d = c THEN r ELSE conn[d]
  BY DEF OldInv, TypeInv
<1>2. \A d \in Conns : CallOf(d, conn'[d])
  BY <1>1 DEF CallOf
<1> QED
  BY <1>2 DEF ServerDoes

LEMMA NoCall ==
    ASSUME conn' = conn, up' = up
    PROVE  ServerDoes
BY DEF ServerDoes, CallOf

LEMMA AnswerDoes ==
    ASSUME OldInv, NEW t \in AllThreads, thread[t].sock \in Conns,
           NEW reply \in Replies, NEW close \in BOOLEAN, NEW to,
           Answer(t, reply, close, to), leaked' = leaked
    PROVE  ServerDoes
<1>1. PICK c \in Conns : c = thread[t].sock
  OBVIOUS
<1>2. CASE Raises(c)
  BY <1>1, <1>2 DEF Answer, Sock, ServerDoes, Reason
<1>3. CASE ~ Raises(c)
  <2>1. PICK r : r = IF close THEN Closed(Written(c, reply)) ELSE Written(c, reply)
    OBVIOUS
  <2>2. conn' = [conn EXCEPT ![c] = r] /\ up' = up
    BY <1>1, <1>3, <2>1 DEF Answer, Sock
  <2>3. CallOf(c, r)
    BY <1>3, <2>1 DEF CallOf
  <2> QED
    BY <2>2, <2>3, OneCall
<1> QED
  BY <1>2, <1>3

LEMMA V1Does ==
    ASSUME OldInv, V1Next
    PROVE  ServerDoes
<1>1. version = "v1" /\ leaked' = leaked
  BY DEF V1Next, V1Server, poolVars
<1>2. Main \in AllThreads /\ Own(Main)
  BY <1>1, V1Main
<1>3. CASE V1Accept
  <2>1. PICK c \in Waiting : conn' = [conn EXCEPT ![c] = Accepted(c)] /\ up' = up
    BY <1>3 DEF V1Accept
  <2>2. c \in Conns /\ CallOf(c, Accepted(c))
    BY DEF Waiting, CallOf
  <2> QED
    BY <2>1, <2>2, OneCall
<1>4. CASE V1Read
  <2>1. PICK c \in Conns : c = thread[Main].sock
    BY <1>1, <1>4, V1Main DEF V1Read, Step
  <2>2. PICK r : /\ r = Taken(c, IF HasUnit(c) THEN 1 ELSE 0)
                 /\ conn' = [conn EXCEPT ![c] = r] /\ up' = up
    BY <1>4, <2>1 DEF V1Read, Sock
  <2>3. CallOf(c, r)
    BY <2>2 DEF CallOf
  <2> QED
    BY <2>2, <2>3, OneCall
<1>5. CASE V1ReadFails
  BY <1>1, <1>5, V1Main DEF V1ReadFails, Sock, ServerDoes, Reason
<1>6. CASE V1Compile \/ V1Run \/ V1Diff
  BY <1>6, NoCall DEF V1Compile, V1Run, V1Diff
<1>7. CASE V1Answer
  <2>1. PICK reply : reply = [verdict |-> thread[Main].verdict, text |-> V1Text]
    OBVIOUS
  <2>2. Answer(Main, reply, TRUE, "accept") /\ thread[Main].sock \in Conns
    BY <1>1, <1>7, <2>1, V1Main DEF V1Answer
  <2>3. thread[Main].verdict \in V1Verdicts
    BY <1>2, <1>7 DEF V1Answer, Own, TextsOk
  <2>4. V1Text \in Seq(Sides)
    BY V1TextIs
  <2>5. reply \in Replies
    BY <2>1, <2>3, <2>4 DEF Replies, Sides
  <2> QED
    BY <1>1, <1>2, <2>2, <2>5, AnswerDoes
<1> QED
  BY <1>3, <1>4, <1>5, <1>6, <1>7 DEF V1Next, V1Server

\* A verdict of version 2 or 3.
LEMMA VerdictDoes ==
    ASSUME OldInv, NEW t \in Threads, version \in {"v2", "v3"}, AtWork(t),
           NEW verdict \in Verdicts, NEW close \in BOOLEAN, NEW to,
           Answer(t, [verdict |-> verdict, text |-> <<>>], close, to), leaked' = leaked
    PROVE  ServerDoes
<1>1. PICK reply : reply = [verdict |-> verdict, text |-> <<>>]
  OBVIOUS
<1>2. reply \in Replies
  BY <1>1 DEF Replies
<1> QED
  BY <1>1, <1>2, AtWorkOwns, AnswerDoes

LEMMA V2Does ==
    ASSUME OldInv, V2Next
    PROVE  ServerDoes
<1>1. version = "v2" /\ leaked' = leaked
  BY DEF V2Next, V2Main, V2Thread, poolVars
<1>2. CASE V2Accept
  <2>1. PICK c \in Waiting : conn' = [conn EXCEPT ![c] = Accepted(c)] /\ up' = up
    BY <1>2 DEF V2Accept
  <2>2. c \in Conns /\ CallOf(c, Accepted(c))
    BY DEF Waiting, CallOf
  <2> QED
    BY <2>1, <2>2, OneCall
<1>3. CASE V2Exit
  BY <1>1, <1>3 DEF V2Exit, ServerDoes, Reason
<1>4. ASSUME NEW t \in Threads, HandleClientV2(t) PROVE ServerDoes
  <2>1. AtWork(t)
    BY <1>1, <1>4 DEF HandleClientV2, V2Read, V2Compile, V2Run, V2Diff, Step, AtWork
  <2>2. t \in AllThreads /\ thread[t].sock \in Conns
    BY <1>1, <2>1, AtWorkOwns
  <2>3. {"COMPILE_ERROR", "RUNTIME_ERROR", "ACCEPTED", "WRONG_ANSWER"} \subseteq Verdicts
    BY DEF Verdicts
  <2>4. CASE V2Read(t)
    <3>1. PICK c \in Conns : c = thread[t].sock
      BY <2>2
    <3>2. PICK r : /\ r = IF HasFailed(c) THEN Failed(c)
                          ELSE Taken(c, IF HasUnit(c) THEN 1 ELSE 0)
                   /\ conn' = [conn EXCEPT ![c] = r] /\ up' = up
      BY <2>4, <3>1 DEF V2Read, Sock
    <3>3. CallOf(c, r)
      BY <3>2 DEF CallOf
    <3> QED
      BY <3>2, <3>3, OneCall
  <2>5. ASSUME NEW verdict \in Verdicts, V2Answer(t, verdict) PROVE ServerDoes
    BY <1>1, <2>1, <2>5, VerdictDoes DEF V2Answer
  <2>6. CASE V2Compile(t) \/ V2Run(t) \/ V2Diff(t)
    BY <2>3, <2>5, <2>6, NoCall DEF V2Compile, V2Run, V2Diff
  <2> QED
    BY <1>4, <2>4, <2>6 DEF HandleClientV2
<1> QED
  BY <1>2, <1>3, <1>4 DEF V2Next, V2Main, V2Thread

LEMMA V3Does ==
    ASSUME OldInv, V3Next
    PROVE  ServerDoes
<1>1. version = "v3"
  BY DEF V3Next, V3Main, V3Thread, V3Wakes
<1>2. CASE V3Accept
  <2>1. PICK c \in Waiting : conn' = [conn EXCEPT ![c] = Accepted(c)] /\ up' = up
    BY <1>2 DEF V3Accept
  <2>2. c \in Conns /\ CallOf(c, Accepted(c))
    BY DEF Waiting, CallOf
  <2> QED
    BY <2>1, <2>2, OneCall
<1>3. CASE V3Exit
  BY <1>1, <1>3 DEF V3Exit, ServerDoes, Reason, poolVars
<1>4. CASE V3Enqueue
  BY <1>4, NoCall DEF V3Enqueue
<1>5. ASSUME NEW t \in Threads, WorkerFunction(t) \/ SpuriousWakeup(t) PROVE ServerDoes
  BY <1>5, NoCall DEF WorkerFunction, SpuriousWakeup
<1>6. ASSUME NEW t \in Threads, HandleClientV3(t) PROVE ServerDoes
  <2>1. AtWork(t)
    BY <1>1, <1>6
       DEF HandleClientV3, RecvFileV3, V3RecvSize, V3RecvData, V3RecvEnds, V3RecvCrashes,
           V3Compile, V3Run, V3RunDash, V3Diff, Goes, Step, AtWork
  <2>2. t \in AllThreads /\ thread[t].sock \in Conns
    BY <1>1, <2>1, AtWorkOwns
  <2>3. {"COMPILE_ERROR", "RUNTIME_ERROR", "ACCEPTED", "WRONG_ANSWER"} \subseteq Verdicts
    BY DEF Verdicts
  <2>4. PICK c \in Conns : c = thread[t].sock
    BY <2>2
  <2>5. CASE V3RecvSize(t) \/ V3RecvData(t)
    <3>1. CASE conn' = conn
      BY <2>5, <3>1, NoCall DEF V3RecvSize, V3RecvData, poolVars
    <3>2. CASE conn' # conn
      <4>1. PICK r : /\ (HasUnit(c) /\ r = Taken(c, 1)) \/ (HasFailed(c) /\ r = Failed(c))
                     /\ conn' = [conn EXCEPT ![c] = r]
        BY <2>4, <2>5, <3>2 DEF V3RecvSize, V3RecvData, Sock
      <4>2. CallOf(c, r)
        BY <4>1 DEF CallOf
      <4>3. up' = up
        BY <2>5 DEF V3RecvSize, V3RecvData
      <4> QED
        BY <4>1, <4>2, <4>3, OneCall
    <3> QED
      BY <3>1, <3>2
  <2>6. CASE V3RecvEnds(t)
    <3>1. PICK r : r = IF HasFailed(c) THEN Failed(c) ELSE conn[c]
      OBVIOUS
    <3>2. conn' = [conn EXCEPT ![c] = r] /\ up' = up
      BY <2>4, <2>6, <3>1 DEF V3RecvEnds, Sock, OldInv, TypeInv
    <3>3. CallOf(c, r)
      BY <3>1 DEF CallOf
    <3> QED
      BY <3>2, <3>3, OneCall
  <2>7. CASE V3RecvCrashes(t)
    BY <2>2, <2>4, <2>7 DEF V3RecvCrashes, Sock, ServerDoes, Reason, poolVars
  <2>8. ASSUME NEW verdict \in Verdicts, NEW close \in BOOLEAN, V3Answer(t, verdict, close)
        PROVE  ServerDoes
    BY <1>1, <2>1, <2>8, VerdictDoes DEF V3Answer, poolVars
  <2>9. CASE V3Compile(t) \/ V3Run(t) \/ V3RunDash(t) \/ V3Diff(t)
    BY <2>3, <2>8, <2>9, NoCall DEF V3Compile, V3Run, V3RunDash, V3Diff, Goes
  <2> QED
    BY <1>6, <2>5, <2>6, <2>7, <2>9 DEF HandleClientV3, RecvFileV3
<1> QED
  BY <1>2, <1>3, <1>4, <1>5, <1>6 DEF V3Next, V3Main, V3Thread, V3Wakes

-----------------------------------------------------------------------------
(* What a step of a client makes of the connections and of its counters    *)

\* Errors are not taken back, and what was sent stays so.
Touched(c) ==
    /\ conn'[c].server_error = conn[c].server_error
    /\ conn[c].client_error # "none" => conn'[c].client_error # "none"
    /\ conn[c].client_error = "seen" => conn'[c].client_error = "seen"

\* A client goes on in its round ...
Stays(k) ==
    /\ client'[k].round = client[k].round
    /\ client'[k].successfulRes = client[k].successfulRes
    /\ client'[k].numOfTimeouts = client[k].numOfTimeouts
    /\ client'[k].numErrResponses = client[k].numErrResponses
    /\ client'[k].step \in {"send", "read"} =>
          client[k].step \in {"send", "read"} \/ client[k].round <= Rounds[k]
    /\ client'[k].step = "send" => conn'[Current(k)].sent < Stream(k)

\* ... or counts it and begins the next.
Counts(k) ==
    /\ client[k].step = "read" /\ client'[k].step = "connect"
    /\ client'[k].round = client[k].round + 1
    /\ client'[k].successfulRes + client'[k].numOfTimeouts + client'[k].numErrResponses
          = client[k].successfulRes + client[k].numOfTimeouts + client[k].numErrResponses + 1
    /\ \/ client'[k].successfulRes = client[k].successfulRes
       \/ /\ client'[k].successfulRes = client[k].successfulRes + 1
          /\ Answered(k) \/ EndOfFile(k)

LEMMA CurrentIs ==
    ASSUME OldInv, RoundInv, NEW k \in Clients,
           \/ client[k].step \in {"send", "read"}
           \/ client[k].step = "connect" /\ client[k].round <= Rounds[k]
    PROVE  Current(k) \in Conns
<1>1. client[k].round \in 1 .. Rounds[k]
  BY ClientAssumption DEF RoundInv
<1> QED
  BY <1>1 DEF Current, Conns

LEMMA StreamType ==
    ASSUME NEW k \in Clients
    PROVE  Stream(k) \in Nat \ {0}
BY ClientAssumption DEF Stream

\* A client that leaves.
LEMMA LeaveDoes ==
    ASSUME OldInv, NEW k \in Clients, Leave(k)
    PROVE  /\ Stays(k)
           /\ \A c \in Conns : Touched(c) /\ conn'[c].sent = conn[c].sent
<1>1. client[k] \in ClientRecords /\ client = [j \in Clients |-> client[j]]
  BY DEF OldInv, TypeInv
<1>2. client'[k] = [client[k] EXCEPT !.step = "gone"]
  BY <1>1 DEF Leave
<1>3. Stays(k)
  BY <1>1, <1>2 DEF Stays, ClientRecords
<1>4. ASSUME NEW c \in Conns PROVE Touched(c) /\ conn'[c].sent = conn[c].sent
  <2>1. conn[c] \in ConnRecords
    BY DEF OldInv, TypeInv
  <2>2. conn'[c] = conn[c] \/ conn'[c] = [conn[c] EXCEPT !.client = "closed"]
    BY DEF Leave
  <2> QED
    BY <2>1, <2>2 DEF Touched, ConnRecords
<1> QED
  BY <1>3, <1>4

\* A client that connects or sends.
LEMMA SendDoes ==
    ASSUME OldInv, StreamInv, RoundInv, NEW k \in Clients,
           Connect(k) \/ Write(k) \/ WriteFails(k) \/ GivesUp(k)
    PROVE  /\ Stays(k)
           /\ \A c \in Conns : Touched(c)
           /\ \A c \in Conns :
                 conn'[c].sent = conn[c].sent \/ (Write(k) /\ c = Current(k)
                                                     /\ conn'[c].sent = conn[c].sent + 1)
<1>1. client[k] \in ClientRecords /\ client = [j \in Clients |-> client[j]]
  BY DEF OldInv, TypeInv
<1>2. conn = [c \in Conns |-> conn[c]] /\ \A c \in Conns : conn[c] \in ConnRecords
  BY DEF OldInv, TypeInv
<1>3. PICK d \in Conns : d = Current(k)
  BY CurrentIs DEF Connect, Write, WriteFails, GivesUp
<1>4. d[1] = k /\ d[2] = client[k].round /\ Connection(k) = conn[d]
  BY <1>3 DEF Current, Connection
<1>5. \A c \in Conns : c # d => conn'[c] = conn[c]
  BY <1>2, <1>3 DEF Connect, Write, WriteFails, GivesUp
<1>6. ASSUME NEW step \in {"send", "read"}, client' = [client EXCEPT ![k].step = step],
             step = "send" => conn'[d].sent < Stream(k),
             client[k].step = "send" \/ client[k].round <= Rounds[k]
      PROVE  Stays(k)
  <2>1. client'[k] = [client[k] EXCEPT !.step = step]
    BY <1>1, <1>6
  <2> QED
    BY <1>1, <1>3, <1>6, <2>1 DEF Stays, ClientRecords
<1>7. CASE Connect(k)
  <2>1. conn'[d] = [[conn[d] EXCEPT !.client = "open"] EXCEPT !.server = "waiting"]
    BY <1>2, <1>3, <1>7 DEF Connect
  <2>2. Touched(d) /\ conn'[d].sent = conn[d].sent
    BY <1>2, <2>1 DEF Touched, ConnRecords
  <2>3. conn[d].sent = 0
    BY <1>4, <1>7 DEF StreamInv, Ahead, Connect
  <2>4. Stays(k)
    BY <1>6, <1>7, <2>2, <2>3, StreamType DEF Connect
  <2> QED
    BY <1>5, <2>2, <2>4 DEF Touched
<1>8. CASE Write(k)
  <2>1. PICK n : n = conn[d].sent + 1
    OBVIOUS
  <2>2. PICK e \in {"none", "pending"} :
           conn' = [conn EXCEPT ![d].sent = n, ![d].client_error = e]
    BY <1>3, <1>4, <1>8, <2>1 DEF Write
  <2>3. n \in Nat /\ conn[d].sent \in Nat /\ conn[d].client_error = "none"
    BY <1>2, <1>4, <1>8, <2>1 DEF ConnRecords, Write
  <2>4. conn'[d] = [conn[d] EXCEPT !.sent = n, !.client_error = e]
    BY <1>2, <2>2
  <2>5. Touched(d) /\ conn'[d].sent = n
    BY <1>2, <2>3, <2>4 DEF Touched, ConnRecords
  <2>6. conn[d].sent < Stream(k) /\ Stream(k) \in Nat
    BY <1>4, <1>8, StreamType DEF StreamInv, Write
  <2>7. Stays(k)
    <3>1. PICK step : /\ step = IF n = Stream(k) THEN "read" ELSE "send"
                      /\ client' = [client EXCEPT ![k].step = step]
      BY <1>4, <1>8, <2>1 DEF Write
    <3>2. step = "send" => n < Stream(k)
      BY <2>1, <2>3, <2>6, <3>1
    <3> QED
      BY <1>6, <1>8, <2>5, <3>1, <3>2 DEF Write
  <2> QED
    BY <1>3, <1>5, <1>8, <2>1, <2>5, <2>7 DEF Touched
<1>9. CASE WriteFails(k)
  <2>1. conn'[d] = [conn[d] EXCEPT !.client_error = "seen"]
    BY <1>2, <1>3, <1>9 DEF WriteFails
  <2>2. Touched(d) /\ conn'[d].sent = conn[d].sent
    BY <1>2, <2>1 DEF Touched, ConnRecords
  <2>3. Stays(k)
    BY <1>6, <1>9 DEF WriteFails
  <2> QED
    BY <1>5, <2>2, <2>3 DEF Touched
<1>10. CASE GivesUp(k)
  <2>1. Stays(k)
    BY <1>6, <1>10 DEF GivesUp
  <2> QED
    BY <1>10, <2>1 DEF GivesUp, Touched
<1> QED
  BY <1>7, <1>8, <1>9, <1>10

LEMMA NextRoundCounts ==
    ASSUME OldInv, NEW k \in Clients, NEW counted \in ClientRecords, NextRound(k, counted)
    PROVE  /\ client'[k].step = "connect" /\ client'[k].round = counted.round + 1
           /\ client'[k].successfulRes = counted.successfulRes
           /\ client'[k].numOfTimeouts = counted.numOfTimeouts
           /\ client'[k].numErrResponses = counted.numErrResponses
<1>1. PICK n : n = counted.round + 1
  OBVIOUS
<1>2. client'[k] = [counted EXCEPT !.step = "connect", !.round = n]
  BY <1>1 DEF NextRound, OldInv, TypeInv
<1> QED
  BY <1>1, <1>2 DEF ClientRecords

\* A client that reads.
LEMMA ReadDoes ==
    ASSUME OldInv, RoundInv, NEW k \in Clients,
           ReadResponse(k) \/ ReadTimesOut(k) \/ ReadFails(k)
    PROVE  /\ Counts(k)
           /\ \A c \in Conns : Touched(c) /\ conn'[c].sent = conn[c].sent
<1>1. client[k] \in ClientRecords /\ client = [j \in Clients |-> client[j]]
  BY DEF OldInv, TypeInv
<1>2. conn = [c \in Conns |-> conn[c]] /\ \A c \in Conns : conn[c] \in ConnRecords
  BY DEF OldInv, TypeInv
<1>3. PICK d \in Conns : d = Current(k)
  BY CurrentIs DEF ReadResponse, ReadTimesOut, ReadFails
<1>4. \A c \in Conns : Touched(c) /\ conn'[c].sent = conn[c].sent
  <2>1. \A c \in Conns : c # d => conn'[c] = conn[c]
    BY <1>2, <1>3 DEF ReadResponse, ReadTimesOut, ReadFails, NextRound
  <2>2. \/ conn'[d] = [conn[d] EXCEPT !.client = "closed"]
        \/ conn'[d] = [conn[d] EXCEPT !.client_error = "seen"]
    BY <1>2, <1>3 DEF ReadResponse, ReadTimesOut, ReadFails, NextRound
  <2>3. Touched(d) /\ conn'[d].sent = conn[d].sent
    BY <1>2, <2>2 DEF Touched, ConnRecords
  <2> QED
    BY <2>1, <2>3 DEF Touched
<1>5. /\ client[k].successfulRes \in Nat /\ client[k].numOfTimeouts \in Nat
      /\ client[k].numErrResponses \in Nat /\ client[k].step = "read"
  BY <1>1 DEF ClientRecords, ReadResponse, ReadTimesOut, ReadFails
<1>6. CASE ReadResponse(k)
  <2>1. PICK n : n = client[k].successfulRes + 1
    OBVIOUS
  <2>2. PICK counted : counted = [client[k] EXCEPT !.successfulRes = n]
    OBVIOUS
  <2>3. /\ counted \in ClientRecords /\ counted.round = client[k].round
        /\ counted.successfulRes = n
        /\ counted.numOfTimeouts = client[k].numOfTimeouts
        /\ counted.numErrResponses = client[k].numErrResponses
    BY <1>1, <1>5, <2>1, <2>2 DEF ClientRecords
  <2>4. NextRound(k, counted)
    BY <1>6, <2>1, <2>2 DEF ReadResponse
  <2>5. /\ client'[k].step = "connect" /\ client'[k].round = client[k].round + 1
        /\ client'[k].successfulRes = counted.successfulRes
        /\ client'[k].numOfTimeouts = counted.numOfTimeouts
        /\ client'[k].numErrResponses = counted.numErrResponses
    BY <2>3, <2>4, NextRoundCounts
  <2> QED
    BY <1>4, <1>5, <1>6, <2>1, <2>3, <2>5 DEF Counts, ReadResponse
<1>7. CASE ReadTimesOut(k)
  <2>1. PICK n : n = client[k].numOfTimeouts + 1
    OBVIOUS
  <2>2. PICK counted : counted = [client[k] EXCEPT !.numOfTimeouts = n]
    OBVIOUS
  <2>3. /\ counted \in ClientRecords /\ counted.round = client[k].round
        /\ counted.successfulRes = client[k].successfulRes
        /\ counted.numOfTimeouts = n
        /\ counted.numErrResponses = client[k].numErrResponses
    BY <1>1, <1>5, <2>1, <2>2 DEF ClientRecords
  <2>4. NextRound(k, counted)
    BY <1>7, <2>1, <2>2 DEF ReadTimesOut
  <2>5. /\ client'[k].step = "connect" /\ client'[k].round = client[k].round + 1
        /\ client'[k].successfulRes = counted.successfulRes
        /\ client'[k].numOfTimeouts = counted.numOfTimeouts
        /\ client'[k].numErrResponses = counted.numErrResponses
    BY <2>3, <2>4, NextRoundCounts
  <2> QED
    BY <1>4, <1>5, <1>7, <2>1, <2>3, <2>5 DEF Counts, ReadTimesOut
<1>8. CASE ReadFails(k)
  <2>1. PICK m, n : m = client[k].round + 1 /\ n = client[k].numErrResponses + 1
    OBVIOUS
  <2>2. client'[k] = [client[k] EXCEPT !.step = "connect", !.round = m, !.numErrResponses = n]
    BY <1>1, <1>8, <2>1 DEF ReadFails
  <2>3. /\ client'[k].step = "connect" /\ client'[k].round = m
        /\ client'[k].successfulRes = client[k].successfulRes
        /\ client'[k].numOfTimeouts = client[k].numOfTimeouts
        /\ client'[k].numErrResponses = n
    BY <1>1, <2>2 DEF ClientRecords
  <2> QED
    BY <1>4, <1>5, <2>1, <2>3 DEF Counts
<1> QED
  BY <1>6, <1>7, <1>8

\* All the clients' steps.
LEMMA ClientsDo ==
    ASSUME OldInv, StreamInv, RoundInv, ClientsNext
    PROVE  /\ \A c \in Conns :
                 /\ conn'[c].server_error = "none" \/ conn[c].server_error # "none"
                       \/ (conn'[c].client_error # "none" /\ c[1] \in Fragile)
                 /\ conn[c].client_error # "none" => conn'[c].client_error # "none"
                 /\ conn[c].client_error = "seen" => conn'[c].client_error = "seen"
           /\ \/ client' = client /\ \A c \in Conns : conn'[c].sent = conn[c].sent
              \/ \E k \in Clients :
                    /\ \A j \in Clients : j # k => client'[j] = client[j]
                    /\ Stays(k) \/ Counts(k)
                    /\ \A c \in Conns :
                          \/ conn'[c].sent = conn[c].sent
                          \/ /\ client[k].step = "send" /\ c = Current(k)
                             /\ conn'[c].sent = conn[c].sent + 1
<1>1. CASE \E d \in Conns : Break(d)
  <2>1. PICK d \in Conns : Break(d)
    BY <1>1
  <2>2. conn[d] \in ConnRecords /\ \A c \in Conns : c # d => conn'[c] = conn[c]
    BY <2>1 DEF Break, OldInv, TypeInv
  <2>3. PICK r : r = conn[d]
    OBVIOUS
  <2>4. conn'[d] = [r EXCEPT !.client_error = "pending", !.server_error = "pending"]
    BY <2>1, <2>3 DEF Break, OldInv, TypeInv
  <2>5. conn'[d].client_error = "pending" /\ conn'[d].sent = r.sent
    BY ONLY <2>2, <2>3, <2>4 DEF ConnRecords
  <2>6. conn[d].client_error = "none" /\ d[1] \in Fragile /\ client' = client
    BY <2>1 DEF Break
  <2> QED
    BY <2>2, <2>3, <2>5, <2>6
<1>2. ASSUME NEW k \in Clients, PlainRound(k) \/ SendFile(k) \/ Kill(k)
      PROVE  /\ \A c \in Conns : Touched(c)
             /\ \A j \in Clients : j # k => client'[j] = client[j]
             /\ Stays(k) \/ Counts(k)
             /\ \A c \in Conns :
                   \/ conn'[c].sent = conn[c].sent
                   \/ /\ client[k].step = "send" /\ c = Current(k)
                      /\ conn'[c].sent = conn[c].sent + 1
  <2>1. \A j \in Clients : j # k => client'[j] = client[j]
    BY <1>2, ClientGoesOn DEF OldInv, TypeInv, GoesOn
  <2>2. CASE ConnectFails(k) \/ Returns(k) \/ BrokenPipe(k) \/ Kill(k)
    BY <2>1, <2>2, LeaveDoes DEF ConnectFails, Returns, BrokenPipe, Kill
  <2>3. CASE Connect(k) \/ Write(k) \/ WriteFails(k) \/ GivesUp(k)
    BY <2>1, <2>3, SendDoes DEF Write
  <2>4. CASE ReadResponse(k) \/ ReadTimesOut(k) \/ ReadFails(k)
    BY <2>1, <2>4, ReadDoes
  <2> QED
    BY <1>2, <2>2, <2>3, <2>4 DEF PlainRound, SendFile
<1>3. (\E k \in Clients : PlainRound(k) \/ SendFile(k) \/ Kill(k)) \/ (\E d \in Conns : Break(d))
  BY DEF ClientsNext, ClientStep, V1Client, V2Client, V3Client, PlainRound, SendFile
<1>4. CASE \E k \in Clients : PlainRound(k) \/ SendFile(k) \/ Kill(k)
  <2>1. PICK k \in Clients : PlainRound(k) \/ SendFile(k) \/ Kill(k)
    BY <1>4
  <2> QED
    BY <1>2, <2>1 DEF Touched
<1> QED
  BY <1>1, <1>3, <1>4

\* What a step of the server keeps of a connection.
LEMMA CallKeeps ==
    ASSUME OldInv, StreamInv, ErrorInv, NEW c \in Conns, CallOf(c, conn'[c])
    PROVE  /\ conn'[c].sent = conn[c].sent /\ conn'[c].taken <= conn[c].sent
           /\ conn'[c].server_error # "none" => conn[c].server_error # "none"
           /\ conn[c].client_error # "none" => conn'[c].client_error # "none"
           /\ conn[c].client_error = "seen" => conn'[c].client_error = "seen"
           /\ conn[c].reply # NoReply => conn'[c].reply # NoReply
           /\ conn[c].server # "none" => conn'[c].server # "none"
           /\ conn'[c].server = "closed" =>
                 conn[c].server = "closed" \/ conn'[c].reply # NoReply
                    \/ conn'[c].client_error # "none"
<1>1. conn[c] \in ConnRecords /\ conn[c].taken <= conn[c].sent
  BY DEF OldInv, TypeInv, StreamInv
<1>2. conn[c].server_error # "none" => conn[c].client_error # "none"
  BY DEF ErrorInv
<1>3. CASE conn'[c] = conn[c]
  BY <1>1, <1>3
<1>4. CASE conn[c].server = "waiting" /\ conn'[c] = Accepted(c)
  BY <1>1, <1>4 DEF Accepted, ConnRecords
<1>5. ASSUME NEW n \in {0, 1}, conn[c].taken + n <= conn[c].sent, conn'[c] = Taken(c, n)
      PROVE  /\ conn'[c].sent = conn[c].sent /\ conn'[c].taken <= conn[c].sent
             /\ conn'[c].server_error = conn[c].server_error
             /\ conn'[c].client_error = conn[c].client_error
             /\ conn'[c].reply = conn[c].reply /\ conn'[c].server = conn[c].server
  <2>1. PICK m : m = conn[c].taken + n
    OBVIOUS
  <2>2. conn'[c] = [conn[c] EXCEPT !.taken = m]
    BY <1>5, <2>1 DEF Taken
  <2> QED
    BY <1>1, <1>5, <2>1, <2>2 DEF ConnRecords
<1>6. CASE (HasUnit(c) /\ conn'[c] = Taken(c, 1)) \/ conn'[c] = Taken(c, 0)
  <2>1. conn[c].taken \in Nat /\ conn[c].sent \in Nat
    BY <1>1 DEF ConnRecords
  <2>2. PICK n \in {0, 1} : conn[c].taken + n <= conn[c].sent /\ conn'[c] = Taken(c, n)
    BY <1>1, <1>6, <2>1 DEF HasUnit
  <2> QED
    BY <1>5, <2>2
<1>7. CASE HasFailed(c) /\ conn'[c] = Failed(c)
  BY <1>1, <1>7 DEF HasFailed, Failed, ConnRecords
<1>8. CASE ~ Raises(c) /\ \E reply \in Replies :
              conn'[c] = Written(c, reply) \/ conn'[c] = Closed(Written(c, reply))
  <2>0. PICK reply \in Replies :
           conn'[c] = Written(c, reply) \/ conn'[c] = Closed(Written(c, reply))
    BY <1>8
  <2>1. PICK r : r = Written(c, reply) /\ (conn'[c] = r \/ conn'[c] = Closed(r))
    BY <2>0
  <2>2. /\ r \in ConnRecords /\ r.sent = conn[c].sent /\ r.taken = conn[c].taken
        /\ r.client_error = conn[c].client_error /\ r.server = conn[c].server
        /\ r.server_error # "none" => conn[c].server_error # "none"
        /\ conn[c].reply # NoReply => r.reply # NoReply
        /\ r.reply # NoReply \/ conn[c].server_error = "pending"
    <3>1. CASE conn[c].server_error = "pending"
      BY <1>1, <2>1, <3>1 DEF Written, Failed, ConnRecords
    <3>2. CASE conn[c].server_error # "pending"
      BY <1>1, <2>1, <3>2, OldGradersAssumption DEF Written, ConnRecords
    <3> QED
      BY <3>1, <3>2
  <2>3. CASE conn'[c] = r
    BY <1>1, <1>2, <2>2, <2>3
  <2>4. CASE conn'[c] = Closed(r)
    <3>1. PICK e : /\ e = IF r.taken < r.sent /\ r.client_error = "none" THEN "pending"
                          ELSE r.client_error
                   /\ conn'[c] = [r EXCEPT !.server = "closed", !.client_error = e]
      BY <2>4 DEF Closed
    <3>2. e \in {"none", "pending", "seen"}
      BY <2>2, <3>1 DEF ConnRecords
    <3>3. /\ conn'[c].sent = r.sent /\ conn'[c].taken = r.taken
          /\ conn'[c].server_error = r.server_error /\ conn'[c].client_error = e
          /\ conn'[c].reply = r.reply /\ conn'[c].server = "closed"
      BY ONLY <2>2, <3>1, <3>2 DEF ConnRecords
    <3> QED
      BY <1>1, <1>2, <2>2, <3>1, <3>3
  <2> QED
    BY <2>1, <2>3, <2>4
<1> QED
  BY <1>3, <1>4, <1>6, <1>7, <1>8 DEF CallOf

\* What its end keeps.
LEMMA EndKeeps ==
    ASSUME OldInv, ServerEnds, NEW c \in Conns
    PROVE  /\ conn'[c].sent = conn[c].sent /\ conn'[c].taken = conn[c].taken
           /\ conn'[c].server_error = conn[c].server_error
           /\ conn[c].client_error # "none" => conn'[c].client_error # "none"
           /\ conn[c].reply # NoReply => conn'[c].reply # NoReply
           /\ conn[c].server # "none" => conn'[c].server # "none"
<1>1. conn[c] \in ConnRecords
  BY DEF OldInv, TypeInv
<1>2. conn'[c] = IF conn[c].server = "waiting"
                 THEN [conn[c] EXCEPT !.server = "closed", !.client_error = "pending"]
                 ELSE IF conn[c].server = "open" THEN Closed(conn[c]) ELSE conn[c]
  BY DEF ServerEnds
<1>3. /\ SameEnds(conn'[c], conn[c]) /\ conn'[c].taken = conn[c].taken
      /\ conn'[c].reply = conn[c].reply /\ conn'[c].server_error = conn[c].server_error
      /\ conn[c].server = "none" <=> conn'[c].server = "none"
  BY ServerEndsIs DEF OldInv
<1>4. conn[c].client_error # "none" => conn'[c].client_error # "none"
  <2>1. CASE conn[c].server = "waiting"
    <3>1. PICK r : r = conn[c]
      OBVIOUS
    <3>2. conn'[c] = [r EXCEPT !.server = "closed", !.client_error = "pending"]
      BY <1>2, <2>1, <3>1
    <3>3. conn'[c].client_error = "pending"
      BY ONLY <1>1, <3>1, <3>2 DEF ConnRecords
    <3> QED
      BY <3>3
  <2>2. CASE conn[c].server = "open"
    <3>1. PICK r : r = conn[c]
      OBVIOUS
    <3>2. PICK e : /\ e = IF r.taken < r.sent /\ r.client_error = "none" THEN "pending"
                          ELSE r.client_error
                   /\ conn'[c] = [r EXCEPT !.server = "closed", !.client_error = e]
      BY <1>2, <2>2, <3>1 DEF Closed
    <3>3. conn'[c].client_error = e
      BY ONLY <1>1, <3>1, <3>2 DEF ConnRecords
    <3> QED
      BY <3>1, <3>2, <3>3
  <2>3. CASE conn[c].server \notin {"waiting", "open"}
    BY <1>2, <2>3
  <2> QED
    BY <2>1, <2>2, <2>3
<1> QED
  BY <1>3, <1>4 DEF SameEnds

ServerNext == V1Next \/ V2Next \/ V3Next

\* All the steps of the server.
LEMMA ServerSteps ==
    ASSUME OldInv, ServerNext
    PROVE  /\ up /\ ServerDoes /\ Shaped
           /\ UNCHANGED <<version, client, program, shell>>
           /\ \/ leaked' = leaked
              \/ \E t \in Threads :
                    V3RecvSize(t) /\ version = "v3" /\ leaked' = leaked + 1 /\ up' = up
<1>1. up /\ ServerDoes /\ Shaped
  BY V1Does, V2Does, V3Does, V1Shape, V2Shape, V3Shape
     DEF ServerNext, V1Next, V1Server, V2Next, V2Main, V2Thread, V3Next, V3Main, V3Thread,
         V3Wakes
<1>2. UNCHANGED <<version, client, program, shell>>
  <2>1. (\E t \in AllThreads : Frame(t)) \/ Frame(Main)
    BY <1>1 DEF Shaped, Moves, Answers, Stops, Accepts, Dequeues, Enqueues
  <2> QED
    BY <2>1 DEF Frame
<1>3. leaked' = leaked \/ \E t \in Threads : V3RecvSize(t) /\ version = "v3"
                                              /\ leaked' = leaked + 1 /\ up' = up
  <2>1. CASE V1Next \/ V2Next
    BY <2>1 DEF V1Next, V2Next, poolVars
  <2>2. CASE V3Main \/ \E t \in Threads : WorkerFunction(t) \/ SpuriousWakeup(t)
    BY <2>2 DEF V3Main, V3Accept, V3Exit, V3Enqueue, WorkerFunction, SpuriousWakeup, poolVars
  <2>3. ASSUME NEW t \in Threads, V3RecvSize(t), version = "v3"
        PROVE  leaked' = leaked \/ (leaked' = leaked + 1 /\ up' = up)
    BY <2>3 DEF V3RecvSize
  <2>4. ASSUME NEW t \in Threads, HandleClientV3(t), ~ V3RecvSize(t) PROVE leaked' = leaked
    <3>1. CASE V3RecvData(t) \/ V3RecvEnds(t) \/ V3RecvCrashes(t)
      BY <3>1 DEF V3RecvData, V3RecvEnds, V3RecvCrashes, poolVars
    <3>2. CASE V3Compile(t) \/ V3Run(t) \/ V3RunDash(t) \/ V3Diff(t)
      BY <3>2 DEF V3Compile, V3Run, V3RunDash, V3Diff, V3Answer, Goes, poolVars
    <3> QED
      BY <2>4, <3>1, <3>2 DEF HandleClientV3, RecvFileV3
  <2>5. CASE V3Next
    <3>1. version = "v3"
      BY <2>5 DEF V3Next, V3Main, V3Thread, V3Wakes
    <3> QED
      BY <2>2, <2>3, <2>4, <2>5, <3>1 DEF V3Next, V3Thread, V3Wakes
  <2> QED
    BY <2>1, <2>5 DEF ServerNext
<1> QED
  BY <1>1, <1>2, <1>3

\* In a step of the server that it survives, every connection sees one call at most.
LEMMA ServerKeeps ==
    ASSUME OldInv, StreamInv, ErrorInv, ServerNext, NEW c \in Conns
    PROVE  /\ conn'[c].sent = conn[c].sent /\ conn'[c].taken <= conn[c].sent
           /\ conn'[c].server_error # "none" => conn[c].server_error # "none"
           /\ conn[c].client_error # "none" => conn'[c].client_error # "none"
           /\ conn[c].server # "none" => conn'[c].server # "none"
           /\ up' =>
                 /\ conn[c].client_error = "seen" => conn'[c].client_error = "seen"
                 /\ conn[c].reply # NoReply => conn'[c].reply # NoReply
                 /\ conn'[c].server = "closed" =>
                       conn[c].server = "closed" \/ conn'[c].reply # NoReply
                          \/ conn'[c].client_error # "none"
<1>1. CASE up' = up /\ \A d \in Conns : CallOf(d, conn'[d])
  <2>1. CallOf(c, conn'[c])
    BY <1>1
  <2> QED
    BY <2>1, CallKeeps
<1>2. CASE ServerEnds
  <2>1. ~ up' /\ conn[c].taken <= conn[c].sent
    BY <1>2 DEF ServerEnds, StreamInv
  <2> QED
    BY <1>2, <2>1, EndKeeps
<1> QED
  BY <1>1, <1>2, ServerSteps DEF ServerDoes

-----------------------------------------------------------------------------
(* Rounds, streams and errors                                              *)

LoopInv == ParamInv /\ ErrorInv /\ StreamInv /\ RoundInv /\ ClosedInv

LEMMA ErrorStep ==
    ASSUME OldInv, LoopInv, ClientsNext \/ ServerNext
    PROVE  ErrorInv'
BY ClientsDo, ServerKeeps DEF LoopInv, ErrorInv

LEMMA RoundStep ==
    ASSUME OldInv, LoopInv, ClientsNext \/ ServerNext
    PROVE  RoundInv'
<1>1. CASE client' = client
  BY <1>1 DEF LoopInv, RoundInv
<1>2. ASSUME NEW k \in Clients, \A j \in Clients : j # k => client'[j] = client[j],
             Stays(k) \/ Counts(k)
      PROVE  RoundInv'
  <2>1. client[k] \in ClientRecords
    BY DEF OldInv, TypeInv
  <2>2. /\ client[k].round \in Nat \ {0}
        /\ client[k].step \in {"send", "read"} => client[k].round <= Rounds[k]
        /\ client[k].successfulRes + client[k].numOfTimeouts + client[k].numErrResponses
              = client[k].round - 1
    BY DEF LoopInv, RoundInv
  <2>3. /\ client'[k].round \in Nat \ {0}
        /\ client'[k].step \in {"send", "read"} => client'[k].round <= Rounds[k]
        /\ client'[k].successfulRes + client'[k].numOfTimeouts + client'[k].numErrResponses
              = client'[k].round - 1
    <3>1. CASE Stays(k)
      BY <2>2, <3>1 DEF Stays
    <3>2. CASE Counts(k)
      <4>1. /\ client[k].successfulRes \in Nat /\ client[k].numOfTimeouts \in Nat
            /\ client[k].numErrResponses \in Nat
        BY <2>1 DEF ClientRecords
      <4> QED
        BY <2>2, <3>2, <4>1 DEF Counts
    <3> QED
      BY <1>2, <3>1, <3>2
  <2> QED
    BY <1>2, <2>3 DEF LoopInv, RoundInv
<1>3. CASE ClientsNext
  BY <1>1, <1>2, <1>3, ClientsDo DEF LoopInv
<1> QED
  BY <1>1, <1>3, ServerSteps

LEMMA StreamStep ==
    ASSUME OldInv, LoopInv, ClientsNext \/ ServerNext
    PROVE  StreamInv'
<1>1. version' = version /\ \A k \in Clients : Stream(k)' = Stream(k)
  BY ServerSteps DEF ClientsNext, Stream
<1>2. \A c \in Conns : /\ c[1] \in Clients /\ conn[c].sent \in Nat /\ conn[c].taken \in Nat
                       /\ Stream(c[1]) \in Nat
  BY ConnParts, StreamType DEF OldInv, TypeInv, ConnRecords
<1>3. CASE ServerNext
  <2>1. client' = client /\ \A c \in Conns : Ahead(c)' <=> Ahead(c)
    BY <1>3, ServerSteps DEF Ahead
  <2>2. \A c \in Conns : conn'[c].sent = conn[c].sent /\ conn'[c].taken <= conn[c].sent
    BY <1>3, ServerKeeps DEF LoopInv
  <2>3. \A k \in Clients : Current(k)' = Current(k)
    BY <2>1 DEF Current
  <2>4. ASSUME NEW k \in Clients, client'[k].step = "send" PROVE Connection(k)'.sent < Stream(k)
    <3>1. Current(k) \in Conns
      BY <2>1, <2>4, CurrentIs DEF LoopInv
    <3> QED
      BY <2>1, <2>2, <2>3, <2>4, <3>1 DEF LoopInv, StreamInv, Connection
  <2> QED
    BY <1>1, <1>2, <2>1, <2>2, <2>4 DEF LoopInv, StreamInv
<1>4. CASE ClientsNext
  <2>1. \A c \in Conns : conn'[c].taken = conn[c].taken /\ (Ahead(c)' => Ahead(c))
    BY <1>4, ClientsNextIs DEF OldInv, Kept, Made
  <2>2. CASE client' = client /\ \A c \in Conns : conn'[c].sent = conn[c].sent
    <3>1. \A k \in Clients : Current(k)' = Current(k)
      BY <2>2 DEF Current
    <3>2. ASSUME NEW k \in Clients, client'[k].step = "send"
          PROVE  Connection(k)'.sent < Stream(k)
      <4>1. Current(k) \in Conns
        BY <2>2, <3>2, CurrentIs DEF LoopInv
      <4> QED
        BY <2>2, <3>1, <3>2, <4>1 DEF LoopInv, StreamInv, Connection
    <3> QED
      BY <1>1, <1>2, <2>1, <2>2, <3>2 DEF LoopInv, StreamInv
  <2>3. ASSUME NEW k \in Clients,
               \A j \in Clients : j # k => client'[j] = client[j],
               Stays(k) \/ Counts(k),
               \A c \in Conns : \/ conn'[c].sent = conn[c].sent
                                \/ /\ client[k].step = "send" /\ c = Current(k)
                                   /\ conn'[c].sent = conn[c].sent + 1
        PROVE  StreamInv'
    <3>1. client[k].step = "send" => conn[Current(k)].sent < Stream(k)
      BY DEF LoopInv, StreamInv, Connection
    <3>2. Current(k)[1] = k /\ Current(k)[2] = client[k].round /\ client[k].round \in Nat
      BY DEF LoopInv, RoundInv, Current
    <3>3. ASSUME NEW c \in Conns
          PROVE  /\ conn'[c].taken <= conn'[c].sent /\ conn'[c].sent <= Stream(c[1])
                 /\ Ahead(c)' => conn'[c].sent = 0
      <4>1. CASE conn'[c].sent = conn[c].sent
        BY <1>2, <2>1, <4>1 DEF LoopInv, StreamInv
      <4>2. CASE /\ client[k].step = "send" /\ c = Current(k)
                 /\ conn'[c].sent = conn[c].sent + 1
        <5>1. ~ Ahead(c)
          BY <3>2, <4>2 DEF Ahead
        <5>2. conn[c].taken <= conn[c].sent /\ conn[c].sent < Stream(c[1])
          BY <3>1, <3>2, <4>2 DEF LoopInv, StreamInv
        <5> QED
          BY <1>2, <2>1, <4>2, <5>1, <5>2
      <4> QED
        BY <2>3, <4>1, <4>2
    <3>4. ASSUME NEW j \in Clients, client'[j].step = "send"
          PROVE  Connection(j)'.sent < Stream(j)
      <4>1. CASE j = k
        <5>1. Stays(k)
          BY <2>3, <3>4, <4>1 DEF Counts
        <5>2. Current(k)' = Current(k)
          BY <5>1 DEF Stays, Current
        <5> QED
          BY <3>4, <4>1, <5>1, <5>2 DEF Stays, Connection
      <4>2. CASE j # k
        <5>1. client'[j] = client[j]
          BY <2>3, <4>2
        <5>2. Current(j)' = Current(j) /\ Current(j) \in Conns /\ Current(j) # Current(k)
          BY <3>4, <4>2, <5>1, CurrentIs DEF Current, LoopInv
        <5>3. conn'[Current(j)].sent = conn[Current(j)].sent
          BY <2>3, <5>2
        <5> QED
          BY <3>4, <5>1, <5>2, <5>3 DEF LoopInv, StreamInv, Connection
      <4> QED
        BY <4>1, <4>2
    <3> QED
      BY <1>1, <1>2, <3>3, <3>4 DEF StreamInv
  <2> QED
    BY <1>4, <2>2, <2>3, ClientsDo DEF LoopInv
<1> QED
  BY <1>3, <1>4

LEMMA ClosedStep ==
    ASSUME OldInv, LoopInv, ClientsNext \/ ServerNext
    PROVE  ClosedInv'
<1>1. CASE ClientsNext
  <2>1. up' = up
    BY <1>1 DEF ClientsNext
  <2>2. \A c \in Conns : /\ conn'[c].server = "closed" => conn[c].server = "closed"
                         /\ conn'[c].reply = conn[c].reply
    BY <1>1, ClientsNextIs DEF OldInv, Kept, Made
  <2>3. \A c \in Conns : conn[c].client_error # "none" => conn'[c].client_error # "none"
    BY <1>1, ClientsDo DEF LoopInv
  <2> QED
    BY <2>1, <2>2, <2>3 DEF LoopInv, ClosedInv
<1>2. CASE ServerNext
  BY <1>2, ServerKeeps, ServerSteps DEF LoopInv, ClosedInv
<1> QED
  BY <1>1, <1>2

LEMMA LoopStep ==
    ASSUME OldInv, LoopInv, ClientsNext \/ ServerNext
    PROVE  LoopInv'
<1>1. UNCHANGED <<version, shell, program>>
  BY ServerSteps DEF ClientsNext
<1>2. up' \in BOOLEAN
  BY ServerSteps DEF ClientsNext, ServerDoes, ServerEnds, LoopInv, ParamInv
<1>3. ParamInv'
  BY <1>1, <1>2 DEF LoopInv, ParamInv
<1> QED
  BY <1>3, ErrorStep, RoundStep, StreamStep, ClosedStep DEF LoopInv

-----------------------------------------------------------------------------
(* Successes                                                               *)

LEMMA FiniteConns == IsFiniteSet(Conns)
<1>1. PICK own : own = [k \in Clients |-> {k} \X (1 .. Rounds[k])]
  OBVIOUS
<1>2. PICK T : T = {own[k] : k \in Clients}
  OBVIOUS
<1>3. own \in Surjection(Clients, T)
  BY <1>1, <1>2 DEF Surjection
<1>4. IsFiniteSet(T)
  BY <1>3, ClientAssumption, FS_Surjection
<1>5. ASSUME NEW k \in Clients PROVE IsFiniteSet(own[k])
  <2>1. IsFiniteSet({k})
    BY FS_Singleton
  <2>2. 1 \in Int /\ Rounds[k] \in Int
    BY ClientAssumption
  <2>3. IsFiniteSet(1 .. Rounds[k])
    BY <2>2, FS_Interval
  <2> QED
    BY <1>1, <2>1, <2>3, FS_Product
<1>6. Conns = UNION T
  BY <1>1, <1>2 DEF Conns
<1> QED
  BY <1>2, <1>4, <1>5, <1>6, FS_UNION

LEMMA FiniteCount ==
    ASSUME NEW S \in SUBSET Conns
    PROVE  IsFiniteSet(S) /\ Cardinality(S) \in Nat
BY FiniteConns, FS_Subset, FS_CardinalityType

LEMMA Grows ==
    ASSUME NEW T \in SUBSET Conns, NEW S \in SUBSET T
    PROVE  Cardinality(S) <= Cardinality(T)
BY FiniteCount, FS_Subset

LEMMA GrowsByOne ==
    ASSUME NEW T \in SUBSET Conns, NEW S \in SUBSET T, NEW c \in T, c \notin S
    PROVE  Cardinality(S) + 1 <= Cardinality(T)
<1>1. Cardinality(S \cup {c}) = Cardinality(S) + 1
  BY FiniteCount, FS_AddElement
<1>2. S \cup {c} \in SUBSET T
  OBVIOUS
<1> QED
  BY <1>1, <1>2, Grows

LEMMA SuccessStep ==
    ASSUME OldInv, LoopInv, SuccessInv, ClientsNext \/ ServerNext
    PROVE  SuccessInv'
<1> SUFFICES ASSUME up' PROVE \A k \in Clients : client'[k].successfulRes <= Cardinality(CountedBy(k)')
  BY DEF SuccessInv
<1>1. up /\ \A k \in Clients : client[k].successfulRes <= Cardinality(CountedBy(k))
  BY ServerSteps DEF ClientsNext, SuccessInv
<1>2. ASSUME NEW c \in Conns, Counted(c) PROVE Counted(c)'
  <2>1. CASE ClientsNext
    <3>1. conn'[c].reply = conn[c].reply
      BY <2>1, ClientsNextIs DEF OldInv, Kept, Made
    <3> QED
      BY <1>2, <2>1, <3>1, ClientsDo DEF Counted, LoopInv
  <2>2. CASE ServerNext
    BY <1>2, <2>2, ServerKeeps DEF Counted, LoopInv
  <2> QED
    BY <2>1, <2>2
<1>3. \A k \in Clients : /\ client[k].successfulRes \in Nat /\ client[k].round \in Nat
                         /\ CountedBy(k) \in SUBSET Conns
  BY DEF OldInv, TypeInv, ClientRecords, CountedBy
<1>4. \A c \in Conns : c[2] \in Nat
  BY ConnParts
<1>5. \A k \in Clients : CountedBy(k)' \in SUBSET Conns
  BY DEF CountedBy
<1>6. ASSUME NEW k \in Clients, client'[k].round >= client[k].round, client'[k].round \in Nat,
             client'[k].successfulRes = client[k].successfulRes
      PROVE  client'[k].successfulRes <= Cardinality(CountedBy(k)')
  <2>1. CountedBy(k) \in SUBSET CountedBy(k)'
    BY <1>2, <1>3, <1>4, <1>6 DEF CountedBy
  <2>2. Cardinality(CountedBy(k)) <= Cardinality(CountedBy(k)')
    BY <1>5, <2>1, Grows
  <2> QED
    BY <1>1, <1>3, <1>5, <1>6, <2>2, FiniteCount
<1>7. ASSUME NEW k \in Clients, client'[k] = client[k]
      PROVE  client'[k].successfulRes <= Cardinality(CountedBy(k)')
  BY <1>3, <1>6, <1>7
<1>8. ASSUME NEW k \in Clients, Stays(k)
      PROVE  client'[k].successfulRes <= Cardinality(CountedBy(k)')
  BY <1>3, <1>6, <1>8 DEF Stays
<1>9. ASSUME NEW k \in Clients, Counts(k)
      PROVE  client'[k].successfulRes <= Cardinality(CountedBy(k)')
  <2>1. CASE client'[k].successfulRes = client[k].successfulRes
    BY <1>3, <1>6, <1>9, <2>1 DEF Counts
  <2>2. CASE /\ client'[k].successfulRes = client[k].successfulRes + 1
             /\ Answered(k) \/ EndOfFile(k)
    <3>1. PICK c \in Conns : c = Current(k)
      BY <1>9, CurrentIs DEF Counts, LoopInv
    <3>2. c[1] = k /\ c[2] = client[k].round /\ Connection(k) = conn[c]
      BY <3>1 DEF Current, Connection
    <3>3. Counted(c)
      <4>1. conn[c].client_error \in {"none", "pending", "seen"}
        BY DEF OldInv, TypeInv, ConnRecords
      <4>2. conn[c].server = "closed" => conn[c].reply # NoReply \/ conn[c].client_error # "none"
        BY <1>1 DEF LoopInv, ClosedInv
      <4> QED
        BY <2>2, <3>2, <4>1, <4>2 DEF Counted, Answered, EndOfFile
    <3>4. CountedBy(k) \in SUBSET CountedBy(k)' /\ c \in CountedBy(k)' /\ c \notin CountedBy(k)
      BY <1>2, <1>3, <1>4, <1>9, <3>2, <3>3 DEF CountedBy, Counts
    <3>5. Cardinality(CountedBy(k)) + 1 <= Cardinality(CountedBy(k)')
      BY <1>5, <3>4, GrowsByOne
    <3> QED
      BY <1>1, <1>3, <1>5, <2>2, <3>5, FiniteCount
  <2> QED
    BY <1>9, <2>1, <2>2 DEF Counts
<1>10. CASE ClientsNext
  BY <1>7, <1>8, <1>9, <1>10, ClientsDo DEF LoopInv
<1>11. CASE ServerNext
  BY <1>7, <1>11, ServerSteps
<1> QED
  BY <1>10, <1>11

-----------------------------------------------------------------------------
(* What recv_file leaves open                                              *)

LEMMA ReceivedStays ==
    ASSUME OldInv, ClientsNext \/ ServerNext, NEW c \in Conns, Received(c)
    PROVE  Received(c)'
<1>1. c # NULL /\ c # NoConn /\ Nodes = Conns
  BY NoConnIsNone
<1>2. /\ ~ Outside(c) /\ ~ Listed(c)
      /\ \A t \in AllThreads : thread[t].sock = c => thread[t].at \notin {"enqueue", "recv_size"}
  BY DEF Received
<1>3. CASE ClientsNext
  <2>1. UNCHANGED <<thread, head, tail, next>>
    BY <1>3 DEF ClientsNext, poolVars, linkedQueueVars
  <2>2. ~ Outside(c)'
    BY <1>2, <1>3, ClientsNextIs DEF OldInv, Kept, Made, Outside
  <2> QED
    BY <1>2, <2>1, <2>2 DEF Received, Listed
<1>4. ASSUME NEW t \in AllThreads, Moves(t) PROVE Received(c)'
  <2>1. UNCHANGED <<head, tail, next>> /\ ~ Outside(c)'
    BY <1>2, <1>4 DEF Moves, Outside
  <2> QED
    BY <1>2, <1>4, <2>1 DEF Moves, Received, Listed
<1>5. ASSUME NEW t \in AllThreads, Answers(t) PROVE Received(c)'
  <2>1. UNCHANGED <<head, tail, next>> /\ ~ Outside(c)'
    BY <1>2, <1>5 DEF Answers, Outside
  <2> QED
    BY <1>1, <1>2, <1>5, <2>1 DEF Answers, Received, Listed
<1>6. ASSUME NEW t \in AllThreads, Stops(t) PROVE Received(c)'
  <2>1. UNCHANGED <<head, tail, next>> /\ ~ Outside(c)'
    BY <1>2, <1>6 DEF Stops, Outside
  <2> QED
    BY <1>2, <1>6, <2>1 DEF Stops, Received, Listed
<1>7. ASSUME NEW t \in AllThreads, NEW d \in Conns, Accepts(t, d) PROVE Received(c)'
  <2>1. c # d /\ UNCHANGED <<head, tail, next>> /\ ~ Outside(c)'
    BY <1>2, <1>7 DEF Accepts, Outside
  <2> QED
    BY <1>2, <1>7, <2>1 DEF Accepts, Received, Listed
<1>8. ASSUME NEW t \in AllThreads, Dequeues(t) PROVE Received(c)'
  <2>1. conn' = conn /\ Dequeue(thread'[t].sock)
    BY <1>8 DEF Dequeues
  <2>2. ~ Listed(c)' /\ thread'[t].sock = head
    BY <1>2, <2>1, DequeueKeepsLinked DEF OldInv, ListInv
  <2>3. thread'[t].sock # c
    BY <1>2, <2>2 DEF Listed
  <2> QED
    BY <1>2, <1>8, <2>1, <2>2, <2>3 DEF Dequeues, Received, Outside
<1>9. CASE Enqueues
  <2>1. PICK d \in Conns : d = thread[Main].sock
    BY <1>9 DEF Enqueues
  <2>2. Main \in AllThreads /\ c # d
    BY <1>2, <1>9, <2>1 DEF Enqueues, AllThreads
  <2>3. conn' = conn /\ Enqueue(d) /\ ~ Listed(d)
    BY <1>9, <2>1, <2>2 DEF Enqueues, OldInv, ListInv
  <2>4. ~ Listed(c)'
    BY <1>2, <2>2, <2>3, EnqueueKeepsLinked DEF OldInv, ListInv
  <2>5. ASSUME NEW t \in AllThreads, thread'[t].sock = c PROVE thread'[t] = thread[t]
    BY <1>1, <1>9, <2>5 DEF Enqueues, AllThreads
  <2> QED
    BY <1>2, <2>3, <2>4, <2>5 DEF Received, Outside
<1> QED
  BY <1>3, <1>4, <1>5, <1>6, <1>7, <1>8, <1>9, ServerSteps DEF Shaped

LEMMA LeakStep ==
    ASSUME OldInv, OldInv', LeakInv, ClientsNext \/ ServerNext
    PROVE  LeakInv'
<1>1. PICK S : S = {c \in Conns : Received(c)}
  OBVIOUS
<1>2. PICK T : T = {c \in Conns : Received(c)'}
  OBVIOUS
<1>3. S \in SUBSET T /\ T \in SUBSET Conns /\ S \in SUBSET Conns
  BY <1>1, <1>2, ReceivedStays
<1>4. leaked \in Nat /\ leaked <= Cardinality(S) /\ Cardinality(S) \in Nat /\ Cardinality(T) \in Nat
  BY <1>1, <1>3, FiniteCount DEF LeakInv
<1>5. leaked' \in Nat /\ leaked' <= Cardinality(T)
  <2>1. CASE leaked' = leaked
    BY <1>3, <1>4, <2>1, Grows
  <2>2. ASSUME NEW t \in Threads, V3RecvSize(t), version = "v3", leaked' = leaked + 1
        PROVE  leaked' \in Nat /\ leaked' <= Cardinality(T)
    <3>1. AtWork(t)
      BY <2>2 DEF V3RecvSize, AtWork
    <3>2. PICK c \in Conns : c = thread[t].sock
      BY <2>2, <3>1, AtWorkOwns
    <3>3. t \in AllThreads /\ thread[t].at = "recv_size"
      BY <2>2 DEF V3RecvSize, AllThreads
    <3>4. c \notin S
      BY <1>1, <3>2, <3>3 DEF Received
    <3>5. thread'[t].sock = c /\ thread'[t].at \notin {"enqueue", "recv_size"}
      <4>1. Step(t, "recv_size", "recv_file") \/ Step(t, "recv_size", "compile_task")
        BY <2>2 DEF V3RecvSize
      <4> QED
        BY <3>2, <3>3, <4>1, StepIs DEF OldInv, Steps
    <3>6. Received(c)'
      <4>1. ~ Outside(c)' /\ ~ Listed(c)'
        BY <3>3, <3>5, NoConnIsNone DEF OldInv, HoldInv, ListInv
      <4>2. \A u \in AllThreads : thread'[u].sock = c => u = t
        BY <3>3, <3>5, NoConnIsNone DEF OldInv, HoldInv
      <4> QED
        BY <3>5, <4>1, <4>2 DEF Received
    <3>7. Cardinality(S) + 1 <= Cardinality(T)
      BY <1>2, <1>3, <3>4, <3>6, GrowsByOne
    <3> QED
      BY <1>4, <2>2, <3>7
  <2>3. CASE ClientsNext
    BY <2>1, <2>3 DEF ClientsNext, poolVars
  <2> QED
    BY <2>1, <2>2, <2>3, ServerSteps
<1> QED
  BY <1>2, <1>5 DEF LeakInv

-----------------------------------------------------------------------------
(* Why a server ends                                                       *)

LEMMA EndsForReason ==
    ASSUME OldInv, LoopInv, LeakInv, ClientsNext \/ ServerNext, up, ~ up'
    PROVE  MayEnd
<1>1. Reason
  BY ServerSteps DEF ClientsNext, ServerDoes
<1>2. ASSUME NEW t \in AllThreads, thread[t].sock \in Conns,
             HasFailed(thread[t].sock) \/ Raises(thread[t].sock)
      PROVE  MayEnd
  <2>1. conn[thread[t].sock].server_error # "none" /\ thread[t].sock # NoConn
    BY <1>2, NoConnIsNone DEF HasFailed, Raises
  <2>2. thread[t].sock[1] \in Fragile
    BY <1>2, <2>1 DEF LoopInv, ErrorInv
  <2> QED
    BY <2>1, <2>2 DEF MayEnd, Sock
<1>3. CASE version = "v2" /\ Descriptors >= FdLimit
  <2>1. {c \in Conns : conn[c].server = "open"} \in SUBSET Conns
    OBVIOUS
  <2>2. Descriptors \in Nat
    BY <2>1, FiniteCount DEF Descriptors
  <2> QED
    BY <1>3, <2>2, JudgingAssumption DEF LeakInv, MayEnd
<1>4. CASE version = "v3" /\ Descriptors + leaked >= FdLimit
  BY <1>4 DEF MayEnd
<1>5. CASE version = "v2" /\ Waiting # {} /\ \A t \in Threads : thread[t].at # "free"
  <2>1. ASSUME NEW t \in Threads PROVE thread[t].sock # NoConn
    <3>1. t \in AllThreads /\ t # Main
      BY JudgingAssumption DEF AllThreads
    <3>2. Own(t)
      BY <3>1 DEF OldInv
    <3> QED
      BY <1>5, <3>1, <3>2 DEF Own, StepOk
  <2> QED
    BY <1>5, <2>1 DEF MayEnd, Sock
<1> QED
  BY <1>1, <1>2, <1>3, <1>4, <1>5 DEF Reason

-----------------------------------------------------------------------------
(* The queue                                                               *)

LEMMA LeastNatural ==
    ASSUME NEW S \in SUBSET Nat, S # {}
    PROVE  \E m \in S : \A n \in S : m <= n
<1>1. PICK T : T = {0 .. m : m \in S}
  OBVIOUS
<1>2. T \subseteq FiniteSubsetsOf(Nat) /\ T # {}
  <2>1. \A m \in S : 0 .. m \in SUBSET Nat /\ IsFiniteSet(0 .. m)
    BY FS_Interval
  <2> QED
    BY <1>1, <2>1 DEF FiniteSubsetsOf
<1>3. PICK U \in T : \A V \in T : ~ (<<V, U>> \in StrictSubsetOrdering(Nat))
  BY <1>2, FS_StrictSubsetOrderingWellFounded, WFMin
<1>4. PICK m \in S : U = 0 .. m
  BY <1>1
<1>5. ASSUME NEW n \in S, n < m PROVE FALSE
  <2>1. 0 .. n \in T /\ 0 .. n \subseteq U /\ m \in U /\ m \notin 0 .. n
    BY <1>1, <1>4, <1>5
  <2>2. 0 .. n # U /\ <<0 .. n, U>> \in (SUBSET Nat) \X (SUBSET Nat)
    BY <1>2, <2>1 DEF FiniteSubsetsOf
  <2> QED
    BY <1>3, <2>1, <2>2 DEF StrictSubsetOrdering
<1> QED
  BY <1>5

\* A function that follows links, as the one of LinkedQueue does.
Follows(f, nxt) == f[NULL] = <<>> /\ \A n \in Conns : f[n] = <<n>> \o f[nxt[n]]

\* Its value for a node is the list from there on.
LEMMA FollowsList ==
    ASSUME NEW q, NEW nxt, Links(q, nxt), NEW f, Follows(f, nxt), NEW i \in 1 .. Len(q)
    PROVE  f[q[i]] = SubSeq(q, i, Len(q))
<1>0. /\ q \in Seq(Conns)
      /\ \A j \in 1 .. Len(q) : nxt[q[j]] = IF j < Len(q) THEN q[j + 1] ELSE NULL
      /\ f[NULL] = <<>> /\ \A n \in Conns : f[n] = <<n>> \o f[nxt[n]]
  BY DEF Links, Follows
<1> USE <1>0
<1>1. PICK S : S = {d \in Nat : d < Len(q) /\ f[q[Len(q) - d]] # SubSeq(q, Len(q) - d, Len(q))}
  OBVIOUS
<1>2. CASE S = {}
  <2>1. Len(q) - i \in Nat /\ Len(q) - i < Len(q) /\ Len(q) - (Len(q) - i) = i
    OBVIOUS
  <2> QED
    BY <1>1, <1>2, <2>1
<1>3. CASE S # {}
  <2>1. PICK m : m \in S /\ \A n \in S : m <= n
    BY <1>1, <1>3, LeastNatural
  <2>2. PICK j : j = Len(q) - m
    OBVIOUS
  <2>3. m \in Nat /\ j \in 1 .. Len(q) /\ f[q[j]] # SubSeq(q, j, Len(q))
    BY ONLY <1>0, <1>1, <2>1, <2>2
  <2>4. f[q[j]] = <<q[j]>> \o f[nxt[q[j]]]
    <3>1. q[j] \in Conns
      BY <2>3
    <3> QED
      BY <1>0, <3>1
  <2>5. f[nxt[q[j]]] = SubSeq(q, j + 1, Len(q))
    <3>1. CASE j = Len(q)
      <4>1. SubSeq(q, j + 1, Len(q)) = <<>>
        BY <3>1, SubSeqEmpty
      <4>2. nxt[q[j]] = NULL
        BY <2>3, <3>1
      <4> QED
        BY <1>0, <4>1, <4>2
    <3>2. CASE j < Len(q)
      <4>1. m - 1 \in Nat /\ m - 1 \notin S /\ m - 1 < Len(q) /\ Len(q) - (m - 1) = j + 1
        BY <2>1, <2>2, <2>3, <3>2
      <4>2. f[q[j + 1]] = SubSeq(q, j + 1, Len(q))
        BY <1>1, <4>1
      <4> QED
        BY <2>3, <3>2, <4>2
    <3> QED
      BY ONLY <1>0, <2>3, <3>1, <3>2
  <2>6. SubSeq(q, j, Len(q)) = <<q[j]>> \o SubSeq(q, j + 1, Len(q))
    <3>1. Len(q) \in j .. Len(q) /\ j \in 1 .. Len(q)
      BY <2>3
    <3> QED
      BY ONLY <1>0, <3>1, SubSeqRecursiveFirst
  <2> QED
    BY <2>3, <2>4, <2>5, <2>6
<1> QED
  BY <1>2, <1>3

\* There is one.
Follow(nxt) ==
    CHOOSE f : f = [n \in Conns \cup {NULL} |-> IF n = NULL THEN <<>> ELSE <<n>> \o f[nxt[n]]]

LEMMA FollowIs ==
    ASSUME NEW q, NEW nxt \in [Conns -> Conns \cup {NULL}], Links(q, nxt)
    PROVE  Follows(Follow(nxt), nxt)
<1>0. /\ q \in Seq(Conns) /\ NULL \notin Conns
      /\ \A i \in 1 .. Len(q) : nxt[q[i]] = IF i < Len(q) THEN q[i + 1] ELSE NULL
      /\ \A i, j \in 1 .. Len(q) : q[i] = q[j] => i = j
      /\ \A n \in Conns : (\A i \in 1 .. Len(q) : q[i] # n) => nxt[n] = NULL
  BY NoConnIsNone DEF Links
<1> USE <1>0
<1>1. PICK g : g = [n \in Conns \cup {NULL} |->
                       IF n = NULL THEN <<>>
                       ELSE IF \E i \in 1 .. Len(q) : q[i] = n
                            THEN LET i == CHOOSE m \in 1 .. Len(q) : q[m] = n
                                 IN  SubSeq(q, i, Len(q))
                            ELSE <<n>>]
  OBVIOUS
<1>2. g[NULL] = <<>>
  BY <1>1
<1>3. ASSUME NEW i \in 1 .. Len(q) PROVE g[q[i]] = SubSeq(q, i, Len(q))
  <2>1. q[i] \in Conns /\ q[i] # NULL
    OBVIOUS
  <2>2. PICK j : j = CHOOSE m \in 1 .. Len(q) : q[m] = q[i]
    OBVIOUS
  <2>3. j \in 1 .. Len(q) /\ q[j] = q[i]
    BY <2>2
  <2>4. j = i
    BY <2>3
  <2>5. g[q[i]] = SubSeq(q, j, Len(q))
    BY <1>1, <2>1, <2>2
  <2> QED
    BY <2>4, <2>5
<1>4. ASSUME NEW n \in Conns PROVE g[n] = <<n>> \o g[nxt[n]]
  <2>1. CASE \A i \in 1 .. Len(q) : q[i] # n
    <3>1. g[n] = <<n>> /\ nxt[n] = NULL
      BY <1>1, <2>1
    <3> QED
      BY <1>2, <3>1
  <2>2. ASSUME NEW i \in 1 .. Len(q), q[i] = n PROVE g[n] = <<n>> \o g[nxt[n]]
    <3>1. g[n] = <<n>> \o SubSeq(q, i + 1, Len(q))
      <4>1. SubSeq(q, i, Len(q)) = <<q[i]>> \o SubSeq(q, i + 1, Len(q))
        BY SubSeqRecursiveFirst
      <4> QED
        BY <1>3, <2>2, <4>1
    <3>2. g[nxt[n]] = SubSeq(q, i + 1, Len(q))
      <4>1. CASE i = Len(q)
        <5>1. SubSeq(q, i + 1, Len(q)) = <<>>
          BY <4>1, SubSeqEmpty
        <5>2. nxt[n] = NULL
          BY <1>0, <2>2, <4>1
        <5> QED
          BY <1>2, <5>1, <5>2
      <4>2. CASE i < Len(q)
        <5>1. i + 1 \in 1 .. Len(q) /\ nxt[n] = q[i + 1]
          BY <1>0, <2>2, <4>2
        <5>2. g[q[i + 1]] = SubSeq(q, i + 1, Len(q))
          BY <1>3, <5>1
        <5> QED
          BY <5>1, <5>2
      <4> QED
        BY <4>1, <4>2
    <3> QED
      BY <3>1, <3>2
  <2> QED
    BY <2>1, <2>2
<1>5. g = [n \in Conns \cup {NULL} |-> IF n = NULL THEN <<>> ELSE <<n>> \o g[nxt[n]]]
  <2>1. PICK h : h = [n \in Conns \cup {NULL} |-> IF n = NULL THEN <<>> ELSE <<n>> \o g[nxt[n]]]
    OBVIOUS
  <2>2. \A n \in Conns \cup {NULL} : h[n] = g[n]
    BY <1>2, <1>4, <2>1
  <2>3. g = [n \in Conns \cup {NULL} |-> g[n]] /\ h = [n \in Conns \cup {NULL} |-> h[n]]
    BY <1>1, <2>1
  <2>4. h = g
    BY <2>2, <2>3
  <2> QED
    BY <2>1, <2>4
<1>6. PICK f : f = Follow(nxt)
  OBVIOUS
<1>7. f = [n \in Conns \cup {NULL} |-> IF n = NULL THEN <<>> ELSE <<n>> \o f[nxt[n]]]
  BY <1>5, <1>6, Zenon DEF Follow
<1> QED
  BY <1>0, <1>6, <1>7 DEF Follows

LEMMA FirstIs ==
    ASSUME NEW q, NEW nxt \in [Conns -> Conns \cup {NULL}], Links(q, nxt)
    PROVE  Follow(nxt)[IF q = <<>> THEN NULL ELSE q[1]] = q
<1>1. PICK f : f = Follow(nxt)
  OBVIOUS
<1>2. Follows(f, nxt)
  BY <1>1, FollowIs
<1>3. q \in Seq(Conns)
  BY DEF Links
<1>4. CASE q = <<>>
  BY <1>1, <1>2, <1>4 DEF Follows
<1>5. CASE q # <<>>
  <2>1. 1 \in 1 .. Len(q)
    BY <1>3, <1>5
  <2>2. f[q[1]] = SubSeq(q, 1, Len(q))
    BY <1>2, <2>1, FollowsList
  <2>3. SubSeq(q, 1, Len(q)) = q
    BY <1>3, SubSeqFull
  <2> QED
    BY <1>1, <1>5, <2>2, <2>3
<1> QED
  BY <1>4, <1>5

LEMMA ContentsIs ==
    ASSUME TypeInv, NEW q, Chain(q)
    PROVE  Contents = q
<1>1. /\ NULL \notin Conns /\ Nodes = Conns /\ next \in [Conns -> Conns \cup {NULL}]
      /\ head = IF q = <<>> THEN NULL ELSE q[1]
  BY NoConnIsNone DEF TypeInv, Sides, Chain
<1>2. From = Follow(next)
  BY <1>1 DEF From, Follow
<1>3. Links(q, next)
  BY DEF Chain
<1>4. Follow(next)[IF q = <<>> THEN NULL ELSE q[1]] = q
  BY <1>1, <1>3, FirstIs
<1> QED
  BY <1>1, <1>2, <1>4 DEF Contents

LEMMA ContentsAfter ==
    ASSUME TypeInv', NEW q, Chain(q)'
    PROVE  Contents' = q
<1>1. /\ NULL \notin Conns /\ Nodes = Conns /\ next' \in [Conns -> Conns \cup {NULL}]
      /\ head' = IF q = <<>> THEN NULL ELSE q[1]
  BY NoConnIsNone DEF TypeInv, Sides, Chain
<1>2. From' = Follow(next')
  BY <1>1 DEF From, Follow
<1>3. Links(q, next')
  BY DEF Chain
<1>4. Follow(next')[IF q = <<>> THEN NULL ELSE q[1]] = q
  BY <1>1, <1>3, FirstIs
<1> QED
  BY <1>1, <1>2, <1>4 DEF Contents

\* A list has no more nodes than there are connections.
LEMMA LinksLength ==
    ASSUME NEW q, NEW nxt, Links(q, nxt)
    PROVE  Len(q) \in Nat /\ Len(q) <= Cardinality(Conns)
<1>1. q \in Seq(Conns) /\ \A i, j \in 1 .. Len(q) : q[i] = q[j] => i = j
  BY DEF Links
<1>2. 1 .. Len(q) = DOMAIN q /\ q \in [1 .. Len(q) -> Conns] /\ Len(q) \in Nat
  BY <1>1
<1>3. q \in Injection(1 .. Len(q), Conns)
  BY <1>1, <1>2 DEF Injection, IsInjective
<1>4. Cardinality(1 .. Len(q)) <= Cardinality(Conns)
  BY <1>3, FiniteConns, FS_Injection
<1>5. Cardinality(1 .. Len(q)) = Len(q)
  <2>1. PICK n \in Nat : n = Len(q)
    BY <1>2
  <2>2. 1 \in Int /\ n \in Int
    OBVIOUS
  <2>3. Cardinality(1 .. n) = IF 1 > n THEN 0 ELSE n - 1 + 1
    BY <2>2, FS_Interval
  <2> QED
    BY <2>1, <2>3
<1> QED
  BY <1>2, <1>4, <1>5

LEMMA ChainListed ==
    ASSUME NEW q, Chain(q), NEW i \in 1 .. Len(q)
    PROVE  Listed(q[i])
<1>1. /\ q \in Seq(Conns) /\ NULL \notin Conns /\ Nodes = Conns
      /\ \A j \in 1 .. Len(q) : next[q[j]] = IF j < Len(q) THEN q[j + 1] ELSE NULL
      /\ q # <<>> => head = q[1]
  BY NoConnIsNone DEF Chain, Links
<1>2. q # <<>> /\ Len(q) \in Nat /\ \A j \in 1 .. Len(q) : q[j] \in Conns
  BY <1>1
<1>3. CASE i = 1
  BY <1>1, <1>2, <1>3 DEF Listed
<1>4. CASE i # 1
  <2>1. i - 1 \in 1 .. Len(q) /\ i - 1 < Len(q) /\ (i - 1) + 1 = i
    BY <1>2, <1>4
  <2>2. next[q[i - 1]] = q[i] /\ q[i - 1] \in Conns
    BY <1>1, <1>2, <2>1
  <2> QED
    BY <1>1, <2>2 DEF Listed
<1> QED
  BY <1>3, <1>4

\* A node that is not the list's comes last.
LEMMA EnqueueChain ==
    ASSUME TypeInv, NEW q, Chain(q), NEW d \in Conns, ~ Listed(d), Enqueue(d)
    PROVE  Chain(Append(q, d))'
<1>1. PICK r : r = Append(q, d)
  OBVIOUS
<1>2. /\ q \in Seq(Conns) /\ NULL \notin Conns /\ Nodes = Conns
      /\ next \in [Conns -> Conns \cup {NULL}]
      /\ \A i \in 1 .. Len(q) : next[q[i]] = IF i < Len(q) THEN q[i + 1] ELSE NULL
      /\ \A i, j \in 1 .. Len(q) : q[i] = q[j] => i = j
      /\ \A n \in Conns : (\A i \in 1 .. Len(q) : q[i] # n) => next[n] = NULL
      /\ IF q = <<>> THEN head = NULL /\ tail = NULL ELSE head = q[1] /\ tail = q[Len(q)]
  BY NoConnIsNone DEF Chain, Links, TypeInv, Sides
<1>3. /\ r \in Seq(Conns) /\ r # <<>> /\ Len(r) = Len(q) + 1 /\ r[Len(r)] = d /\ Len(q) \in Nat
      /\ \A i \in 1 .. Len(q) : r[i] = q[i] /\ q[i] \in Conns
  BY <1>1, <1>2, AppendProperties
<1>4. \A i \in 1 .. Len(q) : q[i] # d
  BY ChainListed
<1>5. tail' = d /\ IF q = <<>>
                   THEN head' = d /\ next' = [next EXCEPT ![d] = NULL]
                   ELSE /\ head' = head /\ tail = q[Len(q)] /\ tail # NULL /\ Len(q) # 0
                        /\ next' = [next EXCEPT ![d] = NULL, ![q[Len(q)]] = d]
  BY <1>2, <1>3 DEF Enqueue
<1>6. head' = r[1] /\ tail' = r[Len(r)]
  BY <1>2, <1>3, <1>5
<1>7. \A i \in 1 .. Len(q) : next'[q[i]] = r[i + 1]
  <2> SUFFICES ASSUME NEW i \in 1 .. Len(q) PROVE next'[q[i]] = r[i + 1]
    OBVIOUS
  <2>1. q # <<>> /\ q[i] # d /\ q[i] \in Conns /\ q[Len(q)] \in Conns /\ Len(q) \in 1 .. Len(q)
    BY <1>3, <1>4
  <2>2. next'[q[i]] = IF q[i] = q[Len(q)] THEN d ELSE next[q[i]]
    BY <1>2, <1>5, <2>1
  <2>3. CASE i = Len(q)
    BY <1>3, <2>2, <2>3
  <2>4. CASE i < Len(q)
    <3>1. q[i] # q[Len(q)] /\ next[q[i]] = q[i + 1] /\ i + 1 \in 1 .. Len(q)
      BY <1>2, <2>1, <2>4
    <3> QED
      BY <1>3, <2>2, <3>1
  <2> QED
    BY <2>3, <2>4
<1>8. next'[d] = NULL
  <2>1. q # <<>> => q[Len(q)] # d
    BY <1>3, <1>4, <1>5
  <2> QED
    BY <1>2, <1>5, <2>1
<1>9. \A i \in 1 .. Len(r) : next'[r[i]] = IF i < Len(r) THEN r[i + 1] ELSE NULL
  BY <1>3, <1>7, <1>8
<1>10. \A i, j \in 1 .. Len(r) : r[i] = r[j] => i = j
  BY <1>2, <1>3, <1>4
<1>11. ASSUME NEW n \in Conns, \A i \in 1 .. Len(r) : r[i] # n PROVE next'[n] = NULL
  <2>1. n # d /\ \A i \in 1 .. Len(q) : q[i] # n
    BY <1>3, <1>11
  <2>2. next[n] = NULL /\ (q # <<>> => n # q[Len(q)])
    BY <1>2, <1>3, <1>5, <2>1
  <2> QED
    BY <1>2, <1>5, <2>1, <2>2
<1>12. Links(r, next')
  BY <1>3, <1>9, <1>10, <1>11 DEF Links
<1>13. Chain(r)'
  BY <1>3, <1>6, <1>12 DEF Chain
<1> QED
  BY <1>1, <1>13

\* The first node leaves.
LEMMA DequeueChain ==
    ASSUME TypeInv, NEW q, Chain(q), NEW d, Dequeue(d)
    PROVE  q # <<>> /\ d = Head(q) /\ Chain(Tail(q))'
<1>2. /\ q \in Seq(Conns) /\ NULL \notin Conns /\ Nodes = Conns
      /\ next \in [Conns -> Conns \cup {NULL}]
      /\ \A i \in 1 .. Len(q) : next[q[i]] = IF i < Len(q) THEN q[i + 1] ELSE NULL
      /\ \A i, j \in 1 .. Len(q) : q[i] = q[j] => i = j
      /\ \A n \in Conns : (\A i \in 1 .. Len(q) : q[i] # n) => next[n] = NULL
      /\ IF q = <<>> THEN head = NULL /\ tail = NULL ELSE head = q[1] /\ tail = q[Len(q)]
  BY NoConnIsNone DEF Chain, Links, TypeInv, Sides
<1>3. q # <<>> /\ d = q[1] /\ d = Head(q) /\ d \in Conns
  BY <1>2 DEF Dequeue
<1>4. PICK r : r = Tail(q)
  OBVIOUS
<1>5. /\ r \in Seq(Conns) /\ Len(r) = Len(q) - 1 /\ Len(q) \in Nat \ {0} /\ Len(r) \in Nat
      /\ \A i \in 1 .. Len(r) : r[i] = q[i + 1] /\ i + 1 \in 1 .. Len(q)
  BY <1>2, <1>3, <1>4, HeadTailProperties
<1>6. /\ head' = next[d] /\ tail' = IF next[d] = NULL THEN NULL ELSE tail
      /\ next' = [next EXCEPT ![d] = NULL]
  BY <1>2, <1>3 DEF Dequeue
<1>7. \A i \in 1 .. Len(q) : q[i] \in Conns
  BY <1>2
<1>8. IF r = <<>> THEN head' = NULL /\ tail' = NULL ELSE head' = r[1] /\ tail' = r[Len(r)]
  <2>1. next[d] = IF 1 < Len(q) THEN q[2] ELSE NULL
    BY <1>2, <1>3, <1>5
  <2>2. CASE Len(q) = 1
    BY <1>5, <1>6, <2>1, <2>2
  <2>3. CASE Len(q) > 1
    <3>1. r # <<>> /\ r[1] = q[2] /\ r[Len(r)] = q[Len(q)] /\ q[2] \in Conns
      BY <1>5, <1>7, <2>3
    <3> QED
      BY <1>2, <1>3, <1>6, <2>1, <2>3, <3>1
  <2> QED
    BY <1>5, <2>2, <2>3
<1>9. ASSUME NEW i \in 1 .. Len(r)
      PROVE  next'[r[i]] = IF i < Len(r) THEN r[i + 1] ELSE NULL
  <2>1. r[i] = q[i + 1] /\ i + 1 \in 1 .. Len(q) /\ r[i] # d /\ r[i] \in Conns
    BY <1>2, <1>3, <1>5, <1>7
  <2>2. next'[r[i]] = next[q[i + 1]]
    BY <1>2, <1>6, <2>1
  <2>3. i < Len(r) => r[i + 1] = q[(i + 1) + 1]
    BY <1>5
  <2> QED
    BY <1>2, <1>5, <2>1, <2>2, <2>3
<1>10. \A i, j \in 1 .. Len(r) : r[i] = r[j] => i = j
  BY <1>2, <1>5
<1>11. ASSUME NEW n \in Conns, \A i \in 1 .. Len(r) : r[i] # n PROVE next'[n] = NULL
  <2>1. CASE n = d
    BY <1>2, <1>6, <2>1
  <2>2. CASE n # d
    <3>1. ASSUME NEW i \in 1 .. Len(q) PROVE q[i] # n
      <4>1. CASE i = 1
        BY <1>3, <2>2, <4>1
      <4>2. CASE i # 1
        <5>1. i - 1 \in 1 .. Len(r) /\ (i - 1) + 1 = i
          BY <1>5, <4>2
        <5> QED
          BY <1>5, <1>11, <5>1
      <4> QED
        BY <4>1, <4>2
    <3> QED
      BY <1>2, <1>6, <2>2, <3>1
  <2> QED
    BY <2>1, <2>2
<1>12. Links(r, next')
  BY <1>5, <1>9, <1>10, <1>11 DEF Links
<1>13. Chain(r)'
  BY <1>8, <1>12 DEF Chain
<1> QED
  BY <1>3, <1>4, <1>13

\* What a step does to the queue.
LEMMA QueueStep ==
    ASSUME OldInv, OldInv', QueueInv, ClientsNext \/ ServerNext
    PROVE  QueueInv'
<1>1. PICK q : q = Contents
  OBVIOUS
<1>2. Chain(q) /\ pool_size = Len(q) /\ q \in Seq(Conns) /\ TypeInv /\ TypeInv'
  BY <1>1 DEF QueueInv, Chain, Links, OldInv
<1>3. ASSUME NEW r, Chain(r)', pool_size' = Len(r) PROVE QueueInv'
  BY <1>2, <1>3, ContentsAfter DEF QueueInv
<1>4. CASE UNCHANGED <<head, tail, next, pool_size>>
  <2>1. Chain(q)'
    BY <1>2, <1>4 DEF Chain
  <2> QED
    BY <1>2, <1>3, <1>4, <2>1
<1>5. ASSUME NEW t \in AllThreads, Dequeues(t) PROVE QueueInv'
  <2>1. Dequeue(thread'[t].sock) /\ pool_size' = pool_size - 1
    BY <1>5 DEF Dequeues
  <2>2. q # <<>> /\ Chain(Tail(q))'
    BY <1>2, <2>1, DequeueChain
  <2>3. Len(Tail(q)) = Len(q) - 1
    BY <1>2, <2>2, HeadTailProperties
  <2> QED
    BY <1>2, <1>3, <2>1, <2>2, <2>3
<1>6. CASE Enqueues
  <2>1. PICK d \in Conns : d = thread[Main].sock
    BY <1>6 DEF Enqueues
  <2>2. Enqueue(d) /\ ~ Listed(d) /\ pool_size' = pool_size + 1
    BY <1>6, <2>1 DEF Enqueues, OldInv, ListInv, AllThreads
  <2>3. Chain(Append(q, d))'
    BY <1>2, <2>2, EnqueueChain
  <2>4. Len(Append(q, d)) = Len(q) + 1
    BY <1>2, AppendProperties
  <2> QED
    BY <1>2, <1>3, <2>2, <2>3, <2>4
<1>7. CASE ClientsNext
  BY <1>4, <1>7 DEF ClientsNext, poolVars, linkedQueueVars
<1>8. CASE Shaped
  BY <1>4, <1>5, <1>6, <1>8 DEF Shaped, Moves, Answers, Stops, Accepts
<1> QED
  BY <1>7, <1>8, ServerSteps

-----------------------------------------------------------------------------
(* Which sockets are open                                                  *)

Queued(c) == \E i \in DOMAIN Contents : Contents[i] = c

SocketOk(c) ==
    /\ conn[c].server = "open" => Held(c) \/ Left(c)
    /\ Held(c) => conn[c].server = "open"
    /\ Replied(c) /\ Left(c) => conn[c].server = "open"

LEMMA QueuedListed ==
    ASSUME QueueInv, NEW c \in Conns, Queued(c)
    PROVE  Listed(c)
<1>1. PICK q : q = Contents
  OBVIOUS
<1>2. Chain(q) /\ DOMAIN q = 1 .. Len(q)
  BY <1>1 DEF QueueInv, Chain, Links
<1>3. PICK i \in 1 .. Len(q) : q[i] = c
  BY <1>1, <1>2 DEF Queued
<1> QED
  BY <1>2, <1>3, ChainListed

LEMMA QueuedRests ==
    ASSUME OldInv', QueueInv, UNCHANGED <<head, tail, next>>
    PROVE  \A c \in Conns : Queued(c)' <=> Queued(c)
<1>1. PICK q : q = Contents
  OBVIOUS
<1>2. Chain(q)' /\ TypeInv'
  BY <1>1 DEF QueueInv, Chain, OldInv
<1>3. Contents' = Contents
  BY <1>1, <1>2, ContentsAfter
<1> QED
  BY <1>3 DEF Queued

\* One connection joins the list or leaves it.
LEMMA QueuedAfter ==
    ASSUME OldInv, OldInv', QueueInv
    PROVE  /\ \A t \in AllThreads : Dequeues(t) =>
                 \A c \in Conns : Queued(c) <=> Queued(c)' \/ c = thread'[t].sock
           /\ Enqueues =>
                 \A c \in Conns : Queued(c)' <=> Queued(c) \/ c = thread[Main].sock
<1>1. PICK q : q = Contents
  OBVIOUS
<1>2. Chain(q) /\ q \in Seq(Conns) /\ TypeInv /\ TypeInv'
  BY <1>1 DEF QueueInv, Chain, Links, OldInv
<1>3. ASSUME NEW t \in AllThreads, Dequeues(t), NEW c \in Conns
      PROVE  Queued(c) <=> Queued(c)' \/ c = thread'[t].sock
  <2>1. PICK d : d = thread'[t].sock
    OBVIOUS
  <2>2. Dequeue(d)
    BY <1>3, <2>1 DEF Dequeues
  <2>3. q # <<>> /\ d = Head(q) /\ Chain(Tail(q))'
    BY <1>2, <2>2, DequeueChain
  <2>4. Contents' = Tail(q)
    BY <1>2, <2>3, ContentsAfter
  <2>5. (\E i \in 1 .. Len(q) : q[i] = c) <=> (\E i \in 1 .. Len(Tail(q)) : Tail(q)[i] = c) \/ c = d
    <3>1. PICK r : r = Tail(q)
      OBVIOUS
    <3>2. /\ d = q[1] /\ Len(q) \in Nat \ {0} /\ Len(r) = Len(q) - 1
          /\ \A i \in 1 .. Len(r) : r[i] = q[i + 1] /\ i + 1 \in 1 .. Len(q)
      BY <1>2, <2>3, <3>1, HeadTailProperties
    <3>3. ASSUME NEW i \in 1 .. Len(q), q[i] = c PROVE c = d \/ \E j \in 1 .. Len(r) : r[j] = c
      <4>1. CASE i = 1
        BY <3>2, <3>3, <4>1
      <4>2. CASE i # 1
        <5>1. i - 1 \in 1 .. Len(r) /\ (i - 1) + 1 = i
          BY <3>2, <4>2
        <5>2. r[i - 1] = c
          BY <3>2, <3>3, <5>1
        <5> QED
          BY <5>1, <5>2
      <4> QED
        BY <4>1, <4>2
    <3>4. c = d => \E i \in 1 .. Len(q) : q[i] = c
      <4>1. 1 \in 1 .. Len(q)
        BY <3>2
      <4> QED
        BY <3>2, <4>1
    <3> QED
      BY <3>1, <3>2, <3>3, <3>4
  <2>6. DOMAIN q = 1 .. Len(q) /\ DOMAIN Tail(q) = 1 .. Len(Tail(q))
    BY <1>2, <2>3
  <2> QED
    BY <1>1, <2>1, <2>4, <2>5, <2>6 DEF Queued
<1>4. ASSUME Enqueues, NEW c \in Conns
      PROVE  Queued(c)' <=> Queued(c) \/ c = thread[Main].sock
  <2>1. PICK d \in Conns : d = thread[Main].sock
    BY <1>4 DEF Enqueues
  <2>2. Enqueue(d) /\ ~ Listed(d)
    BY <1>4, <2>1 DEF Enqueues, OldInv, ListInv, AllThreads
  <2>3. PICK r : r = Append(q, d)
    OBVIOUS
  <2>4. Contents' = r
    BY <1>2, <2>2, <2>3, EnqueueChain, ContentsAfter
  <2>5. /\ r \in Seq(Conns) /\ Len(r) = Len(q) + 1 /\ r[Len(r)] = d /\ Len(q) \in Nat
        /\ \A i \in 1 .. Len(q) : r[i] = q[i]
    BY <1>2, <2>3, AppendProperties
  <2>6. (\E i \in 1 .. Len(r) : r[i] = c) <=> (\E i \in 1 .. Len(q) : q[i] = c) \/ c = d
    <3>1. ASSUME NEW i \in 1 .. Len(r), r[i] = c
          PROVE  c = d \/ \E j \in 1 .. Len(q) : q[j] = c
      BY <2>5, <3>1
    <3>2. c = d => \E i \in 1 .. Len(r) : r[i] = c
      <4>1. Len(r) \in 1 .. Len(r)
        BY <2>5
      <4> QED
        BY <2>5, <4>1
    <3>3. ASSUME NEW i \in 1 .. Len(q), q[i] = c PROVE \E j \in 1 .. Len(r) : r[j] = c
      BY <2>5, <3>3
    <3> QED
      BY <3>1, <3>2, <3>3
  <2>7. DOMAIN q = 1 .. Len(q) /\ DOMAIN r = 1 .. Len(r)
    BY <1>2, <2>5
  <2> QED
    BY <1>1, <2>1, <2>4, <2>6, <2>7 DEF Queued
<1> QED
  BY <1>3, <1>4

LEMMA SocketStep ==
    ASSUME OldInv, OldInv', QueueInv, SocketsAreAccounted, ClientsNext \/ ServerNext
    PROVE  SocketsAreAccounted'
<1> SUFFICES ASSUME up', NEW c \in Conns PROVE SocketOk(c)'
  BY DEF SocketsAreAccounted, SocketOk
<1>1. up /\ SocketOk(c) /\ version' = version
  BY ServerSteps DEF ClientsNext, ServerDoes, ServerEnds, SocketsAreAccounted, SocketOk
<1>2. /\ c # NoConn /\ NotClosed' = NotClosed /\ (Queued(c) => Listed(c))
      /\ Held(c) <=> Queued(c) \/ \E t \in AllThreads : thread[t].sock = c
      /\ Held(c)' <=> Queued(c)' \/ \E t \in AllThreads : thread'[t].sock = c
  BY <1>1, NoConnIsNone, QueuedListed DEF Held, Queued, Sock, NotClosed
<1>3. ASSUME Held(c)' <=> Held(c), conn'[c].server = conn[c].server,
             conn'[c].reply = conn[c].reply,
             conn'[c].server_error = "seen" <=> conn[c].server_error = "seen"
      PROVE  SocketOk(c)'
  BY <1>1, <1>2, <1>3 DEF SocketOk, Left, Replied
<1>4. CASE ClientsNext
  <2>1. Kept(c) \/ Made(c)
    BY <1>4, ClientsNextIs DEF OldInv
  <2>2. Held(c)' <=> Held(c)
    BY <1>2, <1>4, QueuedRests DEF ClientsNext, poolVars, linkedQueueVars
  <2>3. CASE Kept(c)
    BY <1>3, <2>2, <2>3 DEF Kept
  <2>4. CASE Made(c)
    BY <1>1, <1>2, <2>2, <2>4 DEF Made, SocketOk, Left, Replied
  <2> QED
    BY <2>1, <2>3, <2>4
<1>5. ASSUME NEW t \in AllThreads, Moves(t) PROVE SocketOk(c)'
  <2>1. Held(c)' <=> Held(c)
    BY <1>2, <1>5, QueuedRests DEF Moves
  <2>2. conn'[c].server = conn[c].server /\ conn'[c].reply = conn[c].reply
    BY <1>5 DEF Moves
  <2>3. CASE c = thread[t].sock
    <3>1. conn[c].reply = NoReply /\ Held(c)
      BY <1>2, <2>3 DEF OldInv, HoldInv
    <3> QED
      BY <1>1, <2>1, <2>2, <3>1 DEF SocketOk, Replied
  <2>4. CASE c # thread[t].sock
    BY <1>3, <1>5, <2>1, <2>2, <2>4 DEF Moves
  <2> QED
    BY <2>3, <2>4
<1>6. ASSUME NEW t \in AllThreads, Answers(t) PROVE SocketOk(c)'
  <2>1. Queued(c)' <=> Queued(c)
    BY <1>6, QueuedRests DEF Answers
  <2>2. CASE c = thread[t].sock
    <3>1. conn[c].server = "open"
      BY <1>1, <1>2, <2>2 DEF SocketOk
    <3>2. ~ Queued(c) /\ \A u \in AllThreads : thread'[u].sock # c
      BY <1>2, <1>6, <2>2 DEF Answers, OldInv, HoldInv, ListInv
    <3>3. \/ conn'[c].server = conn[c].server /\ Left(c)'
          \/ conn'[c].server = "closed" /\ ~ (Replied(c)' /\ Left(c)')
      BY <1>6, <2>2 DEF Answers
    <3> QED
      BY <1>2, <2>1, <3>1, <3>2, <3>3 DEF SocketOk
  <2>3. CASE c # thread[t].sock
    <3>1. conn'[c] = conn[c]
      BY <1>6, <2>3 DEF Answers
    <3>2. \A u \in AllThreads : thread'[u].sock = c <=> thread[u].sock = c
      BY <1>2, <1>6, <2>3 DEF Answers
    <3> QED
      BY <1>2, <1>3, <2>1, <3>1, <3>2
  <2> QED
    BY <2>2, <2>3
<1>7. ASSUME NEW t \in AllThreads, Stops(t) PROVE SocketOk(c)'
  BY <1>7 DEF Stops
<1>8. ASSUME NEW t \in AllThreads, NEW d \in Conns, Accepts(t, d) PROVE SocketOk(c)'
  <2>1. Queued(c)' <=> Queued(c)
    BY <1>8, QueuedRests DEF Accepts
  <2>2. CASE c = d
    <3>1. conn'[c].server = "open" /\ thread'[t].sock = c /\ conn'[c].reply = NoReply
      BY <1>8, <2>2 DEF Accepts, OldInv, HoldInv, Outside, Unread
    <3> QED
      BY <1>2, <3>1 DEF SocketOk, Replied
  <2>3. CASE c # d
    <3>1. conn'[c] = conn[c]
      BY <1>8, <2>3 DEF Accepts
    <3>2. \A u \in AllThreads : thread'[u].sock = c <=> thread[u].sock = c
      BY <1>2, <1>8, <2>3 DEF Accepts
    <3> QED
      BY <1>2, <1>3, <2>1, <3>1, <3>2
  <2> QED
    BY <2>2, <2>3
<1>9. ASSUME NEW t \in AllThreads, Dequeues(t) PROVE SocketOk(c)'
  <2>1. Queued(c) <=> Queued(c)' \/ c = thread'[t].sock
    BY <1>9, QueuedAfter
  <2>2. /\ conn' = conn /\ thread[t].sock = NoConn
        /\ \A u \in AllThreads : u # t => thread'[u] = thread[u]
    BY <1>9 DEF Dequeues
  <2> QED
    BY <1>2, <1>3, <2>1, <2>2
<1>10. CASE Enqueues
  <2>1. Queued(c)' <=> Queued(c) \/ c = thread[Main].sock
    BY <1>10, QueuedAfter
  <2>2. Main \in AllThreads /\ \A u \in AllThreads : u = Main \/ u \in Threads
    BY DEF AllThreads
  <2>3. ASSUME NEW u \in Threads PROVE thread'[u].sock = c <=> thread[u].sock = c
    <3>1. thread[u].at = "asleep" => thread[u].sock = NoConn
      BY DEF OldInv, Own, StepOk, AllThreads
    <3> QED
      BY <1>2, <1>10, <3>1 DEF Enqueues
  <2>4. conn' = conn /\ thread'[Main].sock = NoConn
    BY <1>10 DEF Enqueues
  <2> QED
    BY <1>2, <1>3, <2>1, <2>2, <2>3, <2>4
<1> QED
  BY <1>4, <1>5, <1>6, <1>7, <1>8, <1>9, <1>10, ServerSteps DEF Shaped

-----------------------------------------------------------------------------
(* The invariant                                                           *)

LEMMA CountInit ==
    ASSUME OldInit
    PROVE  CountInv
<1>1. OldInv
  BY OldInitInv
<1>2. /\ version \in Versions /\ program \in Programs /\ up = TRUE /\ shell \in {"bash", "dash"}
      /\ leaked = 0 /\ pool_size = 0 /\ head = NULL /\ tail = NULL
      /\ next = [n \in Conns |-> NULL]
  BY NoConnIsNone, JudgingAssumption
     DEF OldInit, JudgingInit, ClientsInit, PoolInit, LinkedQueueInit
<1>3. \A k \in Clients : /\ client[k].step = "connect" /\ client[k].round = 1
                         /\ client[k].successfulRes = 0 /\ client[k].numOfTimeouts = 0
                         /\ client[k].numErrResponses = 0
  BY DEF OldInit, JudgingInit, ClientsInit
<1>4. \A c \in Conns : /\ conn[c].server = "none" /\ conn[c].taken = 0 /\ conn[c].sent = 0
                       /\ conn[c].server_error = "none"
  BY DEF OldInit, JudgingInit, ClientsInit
<1>5. ParamInv /\ ErrorInv /\ RoundInv /\ ClosedInv
  BY <1>2, <1>3, <1>4 DEF ParamInv, ErrorInv, RoundInv, ClosedInv
<1>6. StreamInv
  BY <1>3, <1>4, ConnParts, StreamType DEF StreamInv
<1>7. SuccessInv
  <2>1. \A k \in Clients : CountedBy(k) \in SUBSET Conns
    BY DEF CountedBy
  <2> QED
    BY <1>3, <2>1, FiniteCount DEF SuccessInv
<1>8. LeakInv
  BY <1>2, FiniteCount DEF LeakInv
<1>9. QueueInv
  <2>1. Chain(<<>>)
    BY <1>2 DEF Chain, Links
  <2> QED
    BY <1>1, <1>2, <2>1, ContentsIs DEF QueueInv, OldInv
<1>10. ASSUME NEW c \in Conns PROVE SocketOk(c)
  <2>1. conn[c].server = "none" /\ conn[c].reply = NoReply /\ c # NoConn
    BY NoConnIsNone DEF OldInit, JudgingInit, ClientsInit
  <2>2. \A t \in AllThreads : thread[t].sock # c
    BY <2>1 DEF OldInit, JudgingInit
  <2>3. ~ Queued(c)
    <3>1. Chain(<<>>) /\ TypeInv
      BY <1>1, <1>2 DEF Chain, Links, OldInv
    <3>2. Contents = <<>>
      BY <3>1, ContentsIs
    <3> QED
      BY <3>2 DEF Queued
  <2> QED
    BY <2>1, <2>2, <2>3 DEF SocketOk, Held, Queued, Sock, Replied
<1>11. SocketsAreAccounted
  BY <1>10 DEF SocketsAreAccounted, SocketOk
<1> QED
  BY <1>5, <1>6, <1>7, <1>8, <1>9, <1>11 DEF CountInv

LEMMA CountStep ==
    ASSUME OldInv, OldInv', CountInv, [OldNext]_oldVars
    PROVE  CountInv'
<1>1. CASE ClientsNext \/ ServerNext
  <2>1. LoopInv'
    BY <1>1, LoopStep DEF CountInv, LoopInv
  <2>2. SuccessInv' /\ LeakInv' /\ QueueInv'
    BY <1>1, SuccessStep, LeakStep, QueueStep DEF CountInv, LoopInv
  <2>3. SocketsAreAccounted'
    BY <1>1, SocketStep DEF CountInv
  <2> QED
    BY <2>1, <2>2, <2>3 DEF CountInv, LoopInv
<1>2. CASE UNCHANGED oldVars
  <2>1. UNCHANGED <<version, up, client, conn, program, shell, thread, head, tail, next,
                    pool_size, leaked>>
    BY <1>2 DEF oldVars, poolVars, linkedQueueVars
  <2>2. ParamInv' /\ ErrorInv' /\ RoundInv' /\ ClosedInv'
    BY <2>1 DEF CountInv, ParamInv, ErrorInv, RoundInv, ClosedInv
  <2>3. StreamInv'
    BY <2>1 DEF CountInv, StreamInv, Stream, Ahead, Connection, Current
  <2>4. SuccessInv'
    BY <2>1 DEF CountInv, SuccessInv, CountedBy, Counted
  <2>5. LeakInv'
    BY <2>1 DEF CountInv, LeakInv, Received, Outside, Listed
  <2>6. QueueInv'
    <3>1. PICK q : q = Contents
      OBVIOUS
    <3>2. Chain(q)' /\ pool_size' = Len(q) /\ TypeInv'
      BY <2>1, <3>1 DEF CountInv, QueueInv, Chain, OldInv
    <3> QED
      BY <3>2, ContentsAfter DEF QueueInv
  <2>7. SocketsAreAccounted'
    <3>1. \A c \in Conns : Queued(c)' <=> Queued(c)
      BY <2>1, QueuedRests DEF CountInv
    <3>2. \A c \in Conns : (Held(c)' <=> Held(c)) /\ (Left(c)' <=> Left(c))
      BY <2>1, <3>1 DEF Held, Queued, Sock, Left, NotClosed, Replied
    <3> QED
      BY <2>1, <3>2 DEF CountInv, SocketsAreAccounted, Replied
  <2> QED
    BY <2>2, <2>3, <2>4, <2>5, <2>6, <2>7 DEF CountInv
<1> QED
  BY <1>1, <1>2 DEF OldNext, ServerNext

(***************************************************************************)
(* What the servers of versions 1, 2 and 3 and their clients count: each   *)
(* round once, as a success only what may have been answered; the files    *)
(* left open, against the connections received; the queue's length,        *)
(* against its nodes (v3/myqueue.c, v3/server.c:127-142, 190-195).         *)
(***************************************************************************)
THEOREM OldCountsInvariant == OldSpec => []CountInv
<1>1. OldInit => CountInv
  BY CountInit
<1>2. OldInv /\ OldInv' /\ CountInv /\ [OldNext]_oldVars => CountInv'
  BY CountStep
<1> QED
  BY <1>1, <1>2, OldGradersInvariant, PTL DEF OldSpec

(***************************************************************************)
(* However many clients come and go, a server ends only in a step in which *)
(* a connection that one of its threads has failed, its open descriptors   *)
(* are up to the limit, or all its threads have connections and another    *)
(* one waits (v1/server.c:77, v2/server.c:170-177, v3/server.c:188).       *)
(***************************************************************************)
THEOREM Survives == OldSpec => ServerSurvives
<1>1. OldInv /\ CountInv /\ [OldNext]_oldVars => [up /\ ~ up' => MayEnd]_oldVars
  <2> SUFFICES ASSUME OldInv, CountInv, OldNext, up, ~ up' PROVE MayEnd
    OBVIOUS
  <2> QED
    BY EndsForReason DEF CountInv, LoopInv, OldNext, ServerNext
<1> QED
  BY <1>1, OldGradersInvariant, OldCountsInvariant, PTL DEF OldSpec, ServerSurvives

(***************************************************************************)
(* Every socket a living server has open is in the queue, or a thread's,   *)
(* or one that a path of its version leaves open; and none is closed that  *)
(* the queue or a thread still has (v1/server.c:149, v2/server.c:115-133,  *)
(* v3/server.c:98-107, 123).                                               *)
(***************************************************************************)
THEOREM SocketsAccounted == OldSpec => []SocketsAreAccounted
<1>1. CountInv => SocketsAreAccounted
  BY DEF CountInv
<1> QED
  BY <1>1, OldCountsInvariant, PTL

(***************************************************************************)
(* While its server lives, no client of versions 1, 2 or 3 counts a        *)
(* success for which there was no answer and no failure under it           *)
(* (client.c:110-122 of versions 1 and 2, v3/client.c:106-119).            *)
(***************************************************************************)
THEOREM SuccessesAnswered == OldSpec => []SuccessesWereAnswered
<1>1. OldInv /\ CountInv => SuccessesWereAnswered
  <2> SUFFICES ASSUME OldInv, CountInv, up, NEW k \in Clients
               PROVE  client[k].successfulRes <=
                         Cardinality({c \in Conns : c[1] = k /\ (conn[c].reply # NoReply
                                                       \/ conn[c].client_error = "seen")})
    BY DEF SuccessesWereAnswered
  <2>1. PICK T : T = {c \in Conns : c[1] = k /\ (conn[c].reply # NoReply
                                                  \/ conn[c].client_error = "seen")}
    OBVIOUS
  <2>2. T \in SUBSET Conns /\ CountedBy(k) \in SUBSET T
    BY <2>1 DEF CountedBy, Counted
  <2>3. /\ client[k].successfulRes \in Nat
        /\ client[k].successfulRes <= Cardinality(CountedBy(k))
    BY DEF OldInv, TypeInv, ClientRecords, CountInv, SuccessInv
  <2>4. Cardinality(CountedBy(k)) <= Cardinality(T) /\ Cardinality(T) \in Nat
        /\ Cardinality(CountedBy(k)) \in Nat
    BY <2>2, Grows, FiniteCount
  <2> QED
    BY <2>1, <2>3, <2>4
<1> QED
  BY <1>1, OldGradersInvariant, OldCountsInvariant, PTL

(***************************************************************************)
(* The state of versions 1, 2 and 3 has its types: every round is counted  *)
(* once, nothing is received that was not sent, and neither the queue nor  *)
(* the files left open outgrow the connections.                            *)
(***************************************************************************)
THEOREM OldTypes == OldSpec => []OldTypeOK
<1>1. OldInv /\ CountInv => OldTypeOK
  <2> SUFFICES ASSUME OldInv, CountInv PROVE OldTypeOK
    OBVIOUS
  <2>1. /\ version \in Versions /\ shell \in {"bash", "dash"} /\ program \in Programs
        /\ up \in BOOLEAN
    BY DEF CountInv, ParamInv
  <2>2. /\ client \in [Clients -> ClientRecords]
        /\ \A k \in Clients : client[k].successfulRes + client[k].numOfTimeouts
                                 + client[k].numErrResponses = client[k].round - 1
    BY DEF OldInv, TypeInv, CountInv, RoundInv
  <2>3. ASSUME NEW c \in Conns
        PROVE  /\ conn[c].client \in {"none", "open", "closed"}
               /\ conn[c].server \in {"none", "waiting", "open", "closed"}
               /\ 0 <= conn[c].taken /\ conn[c].taken <= conn[c].sent
               /\ conn[c].sent <= Stream(c[1])
               /\ {conn[c].client_error, conn[c].server_error}
                     \subseteq {"none", "pending", "seen"}
               /\ conn[c].reply # NoReply =>
                     conn[c].reply.verdict \in V1Verdicts \cup Verdicts
    <3>1. conn[c] \in ConnRecords
      BY DEF OldInv, TypeInv
    <3>2. conn[c].taken <= conn[c].sent /\ conn[c].sent <= Stream(c[1])
      BY DEF CountInv, StreamInv
    <3> QED
      BY <3>1, <3>2 DEF ConnRecords, Replies
  <2>4. \A t \in AllThreads :
           thread[t].sock = NoConn <=> thread[t].at \in {"accept", "free", "lock", "asleep"}
    BY DEF OldInv, Own, StepOk
  <2>5. head \in Conns \cup {NoConn} /\ tail \in Conns \cup {NoConn}
    BY DEF OldInv, TypeInv, Sides
  <2>6. Cardinality(Conns) \in Nat
    BY FiniteCount
  <2>7. pool_size \in 0 .. Cardinality(Conns)
    BY <2>6, LinksLength DEF CountInv, QueueInv, Chain
  <2>8. leaked \in 0 .. Cardinality(Conns)
    <3>1. PICK T : T = {c \in Conns : Received(c)}
      OBVIOUS
    <3>2. T \in SUBSET Conns
      BY <3>1
    <3>3. Cardinality(T) <= Cardinality(Conns) /\ Cardinality(T) \in Nat
      BY <3>2, Grows, FiniteCount
    <3> QED
      BY <2>6, <3>1, <3>3 DEF CountInv, LeakInv
  <2> QED
    BY <2>1, <2>2, <2>3, <2>4, <2>5, <2>7, <2>8 DEF OldTypeOK, ClientRecords
<1> QED
  BY <1>1, OldGradersInvariant, OldCountsInvariant, PTL

-----------------------------------------------------------------------------
(* Version 3's queue is the queue of TaskQueue                             *)

Done(c) == conn[c].reply # NoReply \/ conn[c].server_error = "seen"

\* What the threads of version 3 have, and what they are done with.
running == [t \in Threads |-> IF version = "v3" THEN thread[t].sock ELSE NoConn]
finished == {c \in Conns : version = "v3" /\ Done(c) /\ \A t \in Threads : thread[t].sock # c}

LEMMA Maps ==
    /\ TQ!queueVars = <<Contents, running, finished>>
    /\ \A t \in Threads :
          /\ running[t] = NoConn /\ Contents # <<>>
          /\ running' = [running EXCEPT ![t] = Head(Contents)]
          /\ Contents' = Tail(Contents) /\ finished' = finished
          => TQ!Begin(t)
    /\ \A t \in Threads :
          /\ running[t] # NoConn /\ Contents' = Contents
          /\ running' = [running EXCEPT ![t] = NoConn]
          /\ finished' = finished \cup {running[t]}
          => TQ!Finish(t)
    /\ \A c \in Conns :
          /\ c \notin TQ!Range(Contents) \cup TQ!Range(running) \cup finished
          /\ Len(Contents) < Cardinality(Conns) /\ Contents' = Append(Contents, c)
          /\ running' = running /\ finished' = finished
          => TQ!Add(c)
BY DEF running, finished, Done, TQ!queueVars, TQ!Begin, TQ!Finish, TQ!Add, TQ!Known

\* What leaves the list, the threads' connections and the answers alone.
LEMMA QueueRests ==
    ASSUME OldInv, OldInv', QueueInv, UNCHANGED <<version, head, tail, next>>,
           version = "v3" => \A t \in Threads : thread'[t].sock = thread[t].sock,
           version = "v3" => \A c \in Conns : \/ Done(c)' <=> Done(c)
                                              \/ \E t \in Threads : thread[t].sock = c
    PROVE  UNCHANGED <<Contents, running, finished>>
<1>1. PICK q : q = Contents
  OBVIOUS
<1>2. Chain(q)' /\ TypeInv'
  BY <1>1 DEF QueueInv, Chain, OldInv
<1>3. Contents' = Contents
  BY <1>1, <1>2, ContentsAfter
<1>4. running' = running
  BY DEF running
<1>5. finished' = finished
  BY DEF finished
<1> QED
  BY <1>3, <1>4, <1>5

LEMMA MovesRefine ==
    ASSUME OldInv, OldInv', QueueInv, NEW t \in AllThreads, Moves(t)
    PROVE  UNCHANGED <<Contents, running, finished>>
<1>1. /\ UNCHANGED <<version, head, tail, next>>
      /\ \A u \in AllThreads : thread'[u].sock = thread[u].sock
      /\ \A c \in Conns : c # thread[t].sock => conn'[c] = conn[c]
      /\ thread'[t].at # "enqueue" /\ Own(t)'
  BY DEF Moves, Frame
<1>2. CASE t \in Threads
  <2>1. \A c \in Conns : (Done(c)' <=> Done(c)) \/ thread[t].sock = c
    BY <1>1 DEF Done
  <2> QED
    BY <1>1, <1>2, <2>1, QueueRests DEF AllThreads
<1>3. CASE t = Main /\ version = "v3"
  <2>1. thread[t].sock = NoConn
    BY <1>1, <1>3 DEF Own, StepOk
  <2>2. \A c \in Conns : Done(c)' <=> Done(c)
    BY <1>1, <2>1, NoConnIsNone DEF Done
  <2> QED
    BY <1>1, <2>2, QueueRests DEF AllThreads
<1>4. CASE version # "v3"
  BY <1>1, <1>4, QueueRests
<1> QED
  BY <1>2, <1>3, <1>4 DEF AllThreads

LEMMA AnswersRefine ==
    ASSUME OldInv, OldInv', QueueInv, NEW t \in AllThreads, Answers(t)
    PROVE  \/ UNCHANGED <<Contents, running, finished>>
           \/ t \in Threads /\ TQ!Finish(t)
<1>0. PICK d : d = thread[t].sock
  OBVIOUS
<1>1. /\ UNCHANGED <<version, head, tail, next>> /\ thread[t].at # "enqueue"
      /\ \A u \in AllThreads : u # t => thread'[u] = thread[u]
      /\ d = thread[t].sock /\ d \in Conns /\ thread'[t].sock = NoConn /\ Done(d)'
      /\ \A c \in Conns : c # d => conn'[c] = conn[c]
  BY <1>0 DEF Answers, Frame, Done
<1>2. CASE version # "v3"
  BY <1>1, <1>2, QueueRests
<1>3. CASE version = "v3"
  <2>1. d # NoConn
    BY <1>1, NoConnIsNone
  <2>2. t \in Threads
    BY <1>1, <1>3, <2>1 DEF AllThreads, OldInv, Own, StepOk
  <2>3. Contents' = Contents
    <3>1. PICK q : q = Contents
      OBVIOUS
    <3>2. Chain(q)' /\ TypeInv'
      BY <1>1, <3>1 DEF QueueInv, Chain, OldInv
    <3> QED
      BY <3>1, <3>2, ContentsAfter
  <2>4. running[t] = d /\ running' = [running EXCEPT ![t] = NoConn]
    BY <1>1, <1>3, <2>1, <2>2 DEF running, AllThreads
  <2>5. \A u \in Threads : u # t => thread[u].sock # d
    BY <1>1, <2>1, <2>2 DEF OldInv, HoldInv, AllThreads
  <2>6. ASSUME NEW c \in Conns PROVE c \in finished' <=> c \in finished \cup {d}
    <3>1. CASE c = d
      BY <1>1, <1>3, <2>1, <2>2, <2>5, <3>1 DEF finished, AllThreads
    <3>2. CASE c # d
      <4>1. Done(c)' <=> Done(c)
        BY <1>1, <2>1, <3>2 DEF Done
      <4>2. \A u \in Threads : thread'[u].sock = c <=> thread[u].sock = c
        BY <1>1, <2>1, <3>2, NoConnIsNone DEF AllThreads
      <4> QED
        BY <1>1, <3>2, <4>1, <4>2 DEF finished
    <3> QED
      BY <3>1, <3>2
  <2>7. finished' = finished \cup {running[t]}
    <3>1. finished \in SUBSET Conns /\ finished' \in SUBSET Conns
      BY DEF finished
    <3> QED
      BY <1>1, <2>4, <2>6, <3>1
  <2> QED
    BY <2>1, <2>2, <2>3, <2>4, <2>7, Maps
<1> QED
  BY <1>2, <1>3

LEMMA DequeuesRefine ==
    ASSUME OldInv, OldInv', QueueInv, NEW t \in AllThreads, Dequeues(t)
    PROVE  t \in Threads /\ TQ!Begin(t)
<1>1. PICK d : d = thread'[t].sock
  OBVIOUS
<1>2. /\ version = "v3" /\ version' = version /\ t \in Threads /\ conn' = conn
      /\ \A u \in AllThreads : u # t => thread'[u] = thread[u]
      /\ thread[t].sock = NoConn /\ Dequeue(d)
  BY <1>1 DEF Dequeues, Frame
<1>3. PICK q : q = Contents
  OBVIOUS
<1>4. q # <<>> /\ d = Head(q) /\ Chain(Tail(q))'
  BY <1>2, <1>3, DequeueChain DEF OldInv, QueueInv
<1>5. Contents' = Tail(q)
  BY <1>4, ContentsAfter DEF OldInv
<1>6. running[t] = NoConn /\ running' = [running EXCEPT ![t] = Head(Contents)]
  BY <1>1, <1>2, <1>3, <1>4 DEF running, AllThreads
<1>7. d \in Conns /\ d = head
  BY <1>2, DequeueKeepsLinked DEF OldInv, ListInv
<1>8. ~ Done(d)
  BY <1>7 DEF OldInv, ListInv, Listed, Unread, Done
<1>9. finished' = finished
  <2>1. ASSUME NEW c \in Conns PROVE c \in finished' <=> c \in finished
    <3>1. CASE c = d
      BY <1>2, <1>8, <3>1 DEF finished, Done
    <3>2. CASE c # d
      <4>1. \A u \in Threads : thread'[u].sock = c <=> thread[u].sock = c
        BY <1>1, <1>2, <3>2, NoConnIsNone DEF AllThreads
      <4> QED
        BY <1>2, <4>1 DEF finished, Done
    <3> QED
      BY <3>1, <3>2
  <2> QED
    BY <2>1 DEF finished
<1> QED
  BY <1>2, <1>3, <1>4, <1>5, <1>6, <1>9, Maps

LEMMA EnqueuesRefine ==
    ASSUME OldInv, OldInv', QueueInv, QueueInv', Enqueues
    PROVE  \E d \in Conns : TQ!Add(d)
<1>1. PICK d \in Conns : d = thread[Main].sock
  BY DEF Enqueues
<1>2. /\ version = "v3" /\ version' = version /\ conn' = conn /\ Enqueue(d)
      /\ thread[Main].at = "enqueue" /\ Main \in AllThreads /\ d # NoConn
  BY <1>1, NoConnIsNone DEF Enqueues, Frame, AllThreads
<1>3. ~ Listed(d) /\ ~ Done(d) /\ \A u \in Threads : thread[u].sock # d
  BY <1>1, <1>2, JudgingAssumption DEF OldInv, HoldInv, ListInv, Unread, Done, AllThreads
<1>4. \A u \in Threads : thread'[u].sock = thread[u].sock
  <2>1. \A u \in Threads : thread[u].at = "asleep" => thread[u].sock = NoConn
    BY DEF OldInv, Own, StepOk, AllThreads
  <2> QED
    BY <2>1 DEF Enqueues
<1>5. running' = running /\ finished' = finished
  BY <1>2, <1>4 DEF running, finished, Done
<1>6. PICK q : q = Contents
  OBVIOUS
<1>7. Chain(q) /\ q \in Seq(Conns)
  BY <1>6 DEF QueueInv, Chain, Links
<1>8. Chain(Append(q, d))'
  BY <1>2, <1>3, <1>7, EnqueueChain DEF OldInv
<1>9. Contents' = Append(q, d)
  BY <1>8, ContentsAfter DEF OldInv
<1>10. Len(q) < Cardinality(Conns)
  <2>1. Len(Append(q, d)) <= Cardinality(Conns)
    BY <1>8, LinksLength DEF Chain
  <2>2. Len(Append(q, d)) = Len(q) + 1 /\ Len(q) \in Nat /\ Cardinality(Conns) \in Nat
    BY <1>7, AppendProperties, FiniteCount
  <2> QED
    BY <2>1, <2>2
<1>11. d \notin TQ!Range(q)
  <2>1. \A i \in 1 .. Len(q) : Listed(q[i])
    BY <1>7, ChainListed
  <2> QED
    BY <1>3, <1>7, <2>1 DEF TQ!Range
<1>12. d \notin TQ!Range(running)
  BY <1>2, <1>3 DEF running, TQ!Range
<1>13. d \notin finished
  BY <1>3 DEF finished
<1> QED
  BY <1>5, <1>6, <1>9, <1>10, <1>11, <1>12, <1>13, Maps

LEMMA OtherServerStepsRefine ==
    ASSUME OldInv, OldInv', QueueInv, NEW t \in AllThreads,
           Stops(t) \/ \E d \in Conns : Accepts(t, d)
    PROVE  UNCHANGED <<Contents, running, finished>>
<1>1. CASE Stops(t)
  <2>1. \A c \in Conns : Done(c)' <=> Done(c)
    BY <1>1 DEF Stops, Done
  <2> QED
    BY <1>1, <2>1, QueueRests DEF Stops, Frame
<1>2. ASSUME NEW d \in Conns, Accepts(t, d) PROVE UNCHANGED <<Contents, running, finished>>
  <2>1. \A c \in Conns : Done(c)' <=> Done(c)
    BY <1>2 DEF Accepts, Done
  <2>2. version = "v3" => \A u \in Threads : thread'[u].sock = thread[u].sock
    BY <1>2, JudgingAssumption DEF Accepts, AllThreads
  <2>3. UNCHANGED <<version, head, tail, next>>
    BY <1>2 DEF Accepts, Frame
  <2> QED
    BY <2>1, <2>2, <2>3, QueueRests
<1> QED
  BY <1>1, <1>2

LEMMA ClientsRefine ==
    ASSUME OldInv, OldInv', QueueInv, ClientsNext
    PROVE  UNCHANGED <<Contents, running, finished>>
<1>1. \A c \in Conns : Done(c)' <=> Done(c)
  <2>1. \A c \in Conns : Kept(c) \/ Made(c)
    BY ClientsNextIs DEF OldInv
  <2> QED
    BY <2>1 DEF Kept, Made, Done
<1>2. UNCHANGED <<version, thread, head, tail, next>>
  BY DEF ClientsNext, poolVars, linkedQueueVars
<1> QED
  BY <1>1, <1>2, QueueRests

LEMMA RestRefines ==
    ASSUME OldInv, OldInv', QueueInv, UNCHANGED oldVars
    PROVE  UNCHANGED <<Contents, running, finished>>
<1>1. UNCHANGED <<version, conn, thread, head, tail, next>>
  BY DEF oldVars, poolVars, linkedQueueVars
<1>2. \A c \in Conns : Done(c)' <=> Done(c)
  BY <1>1 DEF Done
<1> QED
  BY <1>1, <1>2, QueueRests

LEMMA StepRefines ==
    ASSUME OldInv, OldInv', CountInv, CountInv', [OldNext]_oldVars
    PROVE  [TQ!QueueNext]_(TQ!queueVars)
<1>0. QueueInv /\ QueueInv'
  BY DEF CountInv
<1>1. CASE UNCHANGED <<Contents, running, finished>>
  BY <1>1 DEF TQ!queueVars, running, finished, Done
<1>2. CASE ServerNext
  <2>1. CASE Enqueues
    BY <1>0, <2>1, EnqueuesRefine DEF TQ!QueueNext
  <2>2. ASSUME NEW t \in AllThreads, Dequeues(t) PROVE [TQ!QueueNext]_(TQ!queueVars)
    BY <1>0, <2>2, DequeuesRefine DEF TQ!QueueNext
  <2>3. ASSUME NEW t \in AllThreads, Answers(t) PROVE [TQ!QueueNext]_(TQ!queueVars)
    BY <1>0, <1>1, <2>3, AnswersRefine DEF TQ!QueueNext
  <2>4. ASSUME NEW t \in AllThreads,
               Moves(t) \/ Stops(t) \/ \E d \in Conns : Accepts(t, d)
        PROVE  [TQ!QueueNext]_(TQ!queueVars)
    BY <1>0, <1>1, <2>4, MovesRefine, OtherServerStepsRefine
  <2> QED
    BY <1>2, <2>1, <2>2, <2>3, <2>4, ServerSteps DEF Shaped
<1>3. CASE ClientsNext
  BY <1>0, <1>1, <1>3, ClientsRefine
<1>4. CASE UNCHANGED oldVars
  BY <1>0, <1>1, <1>4, RestRefines
<1> QED
  BY <1>2, <1>3, <1>4 DEF OldNext, ServerNext

LEMMA InitRefines ==
    ASSUME OldInit
    PROVE  TQ!QueueInit
<1>1. OldInv
  BY OldInitInv
<1>2. /\ head = NULL /\ tail = NULL /\ next = [n \in Conns |-> NULL]
      /\ \A t \in Threads : thread[t].sock = NoConn
      /\ \A c \in Conns : conn[c].reply = NoReply /\ conn[c].server_error = "none"
  BY NoConnIsNone, JudgingAssumption
     DEF OldInit, JudgingInit, ClientsInit, PoolInit, LinkedQueueInit, AllThreads
<1>3. Contents = <<>>
  <2>1. Chain(<<>>)
    BY <1>2 DEF Chain, Links
  <2> QED
    BY <1>1, <2>1, ContentsIs DEF OldInv
<1>4. running = [t \in Threads |-> NoConn] /\ finished = {}
  BY <1>2 DEF running, finished, Done
<1> QED
  BY <1>3, <1>4 DEF TQ!QueueInit, running, finished, Done

(***************************************************************************)
(* Version 3's list, with its length and condition variable, is the queue  *)
(* of TaskQueue: an accepted connection is queued once, is handed in order *)
(* to one thread, and stays listed as long as it is counted                *)
(* (v3/myqueue.c, v3/server.c:127-142, 190-195).                           *)
(***************************************************************************)
THEOREM QueueRefined == OldSpec => PoolIsTaskQueue
<1>1. OldInit => TQ!QueueInit
  BY InitRefines
<1>2. OldInv /\ OldInv' /\ CountInv /\ CountInv' /\ [OldNext]_oldVars
         => [TQ!QueueNext]_(TQ!queueVars)
  BY StepRefines
<1>3. CountInv => pool_size = Len(Contents)
  BY DEF CountInv, QueueInv
<1> QED
  BY <1>1, <1>2, <1>3, OldGradersInvariant, OldCountsInvariant, PTL
     DEF OldSpec, PoolIsTaskQueue, TQ!QueueSpec

=============================================================================
