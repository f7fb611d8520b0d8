-------------------------- MODULE GraderClientProofs --------------------------
(***************************************************************************)
(* Proofs about the clients of version 4 and the server they submit to, for *)
(* any number of clients, rounds, workers and restarts: that a client asks *)
(* for its own ids and is told their verdicts, and that it asks once in a  *)
(* round.  Every behaviour of the two is one of the server, so that what   *)
(* is proved of the server holds here.                                     *)
(***************************************************************************)
EXTENDS GraderClient, GraderVerdictProofs

Steps == {"submit", "send_file", "await_id", "check", "await_status", "gone"}

Locals == [step : Steps, round : Nat \ {0}, req_id : Ids \cup {NoId, "unset"},
           status_check_counter : Nat, successfulRes : Nat]

\* The locals and counters of a client.  A client that has submitted is in a
\* round, and its first check is its last.
CountInv ==
    /\ client \in [Clients -> Locals]
    /\ \A k \in Clients :
          /\ client[k].step \in {"send_file", "await_id", "check", "await_status"}
               => client[k].round <= Rounds
          /\ client[k].step \in {"check", "await_status"}
               => client[k].status_check_counter = 1
          /\ client[k].status_check_counter <= 1
          /\ client[k].step # "gone" => client[k].successfulRes = client[k].round - 1

\* The connections a client has still to make.
Ahead(c) ==
    LET me == client[c[1]] IN
    \/ c[2] > me.round
    \/ /\ c[2] = me.round
       /\ me.step = "submit" \/ (me.step \in {"send_file", "await_id", "check"} /\ c[3] >= 1)

\* What is sent on a connection is sent once, and what the server has taken from
\* it is that.
SentInv ==
    /\ request \in [Conns -> [kind : {"none", "submit", "cut", "check36", "noid", "reset"},
                              id : Ids \cup {NoId}]]
    /\ \A c \in Conns :
          /\ Ahead(c) => request[c].kind = "none"
          /\ c[3] = 0 => request[c].kind \in {"none", "submit", "cut", "reset"}
          /\ socket[c] # "none" => /\ wants[c].kind \in Requests[c]
                                   /\ request[c].kind = wants[c].kind
                                   /\ request[c].id = wants[c].id

\* A connection that was answered is about to be closed, and a submission is
\* answered with an id.
AnswerInv ==
    \A c \in Conns :
        /\ socket[c] = "open" /\ reply[c] # "none"
             => \E w \in Workers : running[w] = c /\ at[w] = "close"
        /\ wants[c].kind \in Asked => reply[c] \in Ids \cup {"none"}

\* A client has no other ids than those of its own submissions, nor asks for others.
OwnIdInv ==
    /\ \A k \in Clients : client[k].req_id \in IdsOf(k) \cup {NoId, "unset"}
    /\ \A c \in Conns : request[c].kind = "check36"
                          => request[c].id \in IdsOf(c[1]) \cup {NoId}

GraderInv ==
    GradeInv /\ AnswerInv /\ CountInv /\ SentInv /\ OwnIdInv

-----------------------------------------------------------------------------
(* The server within the composition                                       *)

\* Every step of the two is one of the server or leaves it alone.
LEMMA ServerInside ==
    ASSUME [GraderNext]_graderVars
    PROVE  [ServerNext]_serverVars
<1>1. CASE \E k \in Clients : ClientStep(k)
  BY <1>1 DEF ClientStep
<1>2. CASE AcceptSent \/ MainStep \/ ProcessEnds \/ ProcessStarts
  BY <1>2 DEF AcceptSent, MainStep, ProcessEnds, ProcessStarts, ServerNext
<1>3. CASE \E w \in Workers : HandlerStep(w)
  BY <1>3 DEF HandlerStep, ServerNext
<1>4. CASE UNCHANGED graderVars
  BY <1>4 DEF graderVars
<1> QED
  BY <1>1, <1>2, <1>3, <1>4 DEF GraderNext

(***************************************************************************)
(* Whatever clients of client.c do, the server behaves as GraderServer     *)
(* says, which lets a connection ask for anything: all that is proved of   *)
(* it holds with these clients too.                                        *)
(***************************************************************************)
THEOREM ClientsUseTheServer == GraderSpec => ServerSpec
<1>1. GraderInit => ServerInit
  BY DEF GraderInit
<1>2. [GraderNext]_graderVars => [ServerNext]_serverVars
  BY ServerInside
<1> QED
  BY <1>1, <1>2, PTL DEF GraderSpec, ServerSpec

-----------------------------------------------------------------------------
(* Answers                                                                 *)

\* A handler that is to close its socket does nothing else.
LEMMA CloseOnly ==
    ASSUME NEW w \in Workers, WorkerStep(w), at[w] = "close"
    PROVE  CloseSocket(w)
<1> USE DEF Step
<1>1. CASE \/ BeginTask(w) \/ InvalidAction(w) \/ NewSubmission(w) \/ RecvWhole(w)
           \/ RecvFails(w) \/ RecvFailsOnSize(w) \/ RecvMisses(w) \/ OpenReceived(w)
           \/ WriteReceived(w) \/ AddWorkerTask(w) \/ ReplyId(w)
  BY <1>1 DEF BeginTask, InvalidAction, NewSubmission, RecvWhole, RecvFails,
     RecvFailsOnSize, RecvMisses, OpenReceived, WriteReceived, AddWorkerTask, ReplyId
<1>2. CASE \/ CheckFails(w) \/ StatusOfNoFile(w) \/ OpenStatus(w) \/ ReadStatus(w) \/ ReadReceived(w)
           \/ ReadOn(w) \/ OpenStatusForGrading(w) \/ Compile(w) \/ Run(w) \/ Diff(w)
           \/ CloseStatus(w)
  BY <1>2 DEF CheckFails, StatusOfNoFile, OpenStatus, ReadStatus, ReadReceived, ReadOn,
     OpenStatusForGrading, Compile, Run, Diff, CloseStatus
<1> QED
  BY <1>1, <1>2 DEF WorkerStep, WorkerTask

\* Only the handler of a connection writes to it, and then it goes on to the close.
LEMMA WrittenBy ==
    ASSUME GradeInv, [ServerNext]_serverVars, NEW c \in Conns, reply'[c] # reply[c]
    PROVE  \E w \in Workers :
              /\ running[w] = c /\ at[w] \in Handling \ {"close"} /\ at'[w] = "close"
              /\ UNCHANGED <<running, socket, wants>>
              /\ wants[c].kind \in Asked => reply'[c] \in Ids
<1> DEFINE Goal(w) ==
        /\ running[w] = c /\ at[w] \in Handling \ {"close"} /\ at'[w] = "close"
        /\ UNCHANGED <<running, socket, wants>>
        /\ wants[c].kind \in Asked => reply'[c] \in Ids
<1>1. /\ reply = [d \in Conns |-> reply[d]]
      /\ at = [w \in Workers |-> at[w]]
  BY DEF GradeInv, BaseInv, DataInv, PlaceInv
<1>2. ASSUME NEW w \in Workers, ReplyId(w) PROVE Goal(w)
  <2>1. /\ at[w] = "write_id" /\ at'[w] = "close"
        /\ UNCHANGED <<running, socket, wants>>
        /\ reply' = [reply EXCEPT ![running[w]] = req_id[w]]
    BY <1>1, <1>2 DEF ReplyId, Write, Step, queueVars
  <2>2. req_id[w] \in Ids
    BY <2>1 DEF GradeInv, BaseInv, LocalInv, Submitting
  <2>3. running[w] = c /\ reply'[c] = req_id[w]
    BY <1>1, <2>1
  <2> QED
    BY <2>1, <2>2, <2>3 DEF Handling
<1>3. ASSUME NEW w \in Workers, NEW from \in Handling \ {"close"}, NEW text,
             Answer(w, from, text), Request(w).kind \notin Asked
      PROVE  Goal(w)
  <2>1. /\ at[w] = from /\ at'[w] = "close"
        /\ UNCHANGED <<running, socket, wants>>
        /\ reply' = [reply EXCEPT ![running[w]] = text]
    BY <1>1, <1>3 DEF Answer, Write, Step, queueVars
  <2>2. running[w] = c
    BY <1>1, <2>1
  <2> QED
    BY <1>3, <2>1, <2>2 DEF Request
<1>4. ASSUME NEW w \in Workers, StatusOfNoFile(w) PROVE Goal(w)
  <2>1. Request(w).kind \notin Asked /\ "read_action" \in Handling \ {"close"}
    BY <1>4 DEF StatusOfNoFile, CheckedIds, Checks, Handling, Asked
  <2>2. Answer(w, "read_action", "WRONG ID")
    BY <1>4 DEF StatusOfNoFile
  <2> HIDE DEF Goal
  <2> QED
    BY <1>3, <2>1, <2>2
<1>5. ASSUME NEW w \in Workers, ReadStatus(w) \/ ReadOn(w) PROVE Goal(w)
  <2>1. /\ {"read_status", "read_on"} \subseteq Handling \ {"close"}
        /\ Request(w).kind \notin Asked
    <3>1. Reading(w)
      BY <1>5 DEF ReadStatus, ReadOn, Reading
    <3> QED
      BY <3>1 DEF GradeInv, CheckInv, CheckOk, Checks, Handling, Asked
  <2>2. PICK from \in {"read_status", "read_on"}, text \in {reply'[running[w]]} :
           Answer(w, from, text)
    <3>1. ASSUME NEW from, NEW text, Answer(w, from, text)
          PROVE  reply'[running[w]] = text
      <4>1. at[w] = from /\ reply' = [reply EXCEPT ![running[w]] = text]
        BY <3>1 DEF Answer, Write, Step
      <4>2. running[w] \in Conns
        BY <4>1, <1>5 DEF GradeInv, BaseInv, PlaceInv, Handling, ReadStatus, ReadOn
      <4> QED
        BY <1>1, <4>1, <4>2
    <3> QED
      BY <1>5, <3>1 DEF ReadStatus, ReadOn
  <2>3. from \in Handling \ {"close"}
    BY <2>1
  <2> HIDE DEF Goal
  <2> QED
    BY <1>3, <2>1, <2>2, <2>3
<1>6. ASSUME NEW w \in Workers,
             \/ BeginTask(w) \/ InvalidAction(w) \/ CloseSocket(w) \/ NewSubmission(w)
             \/ RecvWhole(w) \/ RecvFails(w) \/ RecvFailsOnSize(w) \/ RecvMisses(w)
             \/ OpenReceived(w) \/ WriteReceived(w) \/ AddWorkerTask(w)
             \/ CheckFails(w) \/ OpenStatus(w) \/ ReadReceived(w) \/ OpenStatusForGrading(w)
             \/ Compile(w) \/ Run(w) \/ Diff(w) \/ CloseStatus(w)
      PROVE  FALSE
  BY <1>6 DEF BeginTask, InvalidAction, CloseSocket, NewSubmission, RecvWhole,
     RecvFails, RecvFailsOnSize, RecvMisses, OpenReceived, WriteReceived,
     AddWorkerTask, CheckFails, OpenStatus, ReadReceived, OpenStatusForGrading, Compile,
     Run, Diff, Fprintf, CloseStatus, clients
<1>7. ASSUME Accept \/ AddRequest \/ Restart \/ Ends PROVE FALSE
  BY <1>7 DEF Accept, AddRequest, Restart, Ends, clients
<1>8. ASSUME UNCHANGED serverVars PROVE FALSE
  BY <1>8 DEF serverVars, clients
<1> HIDE DEF Goal
<1>9. \E w \in Workers : Goal(w)
  BY <1>2, <1>4, <1>5, <1>6, <1>7, <1>8 DEF ServerNext, KillServer, Crash, WorkerStep,
       WorkerTask
<1> QED
  BY <1>9 DEF Goal

\* No second answer is written.
LEMMA AnsweredOnce ==
    ASSUME GradeInv, AnswerInv, [ServerNext]_serverVars, NEW c \in Conns,
           reply[c] # "none"
    PROVE  reply'[c] = reply[c]
<1> SUFFICES ASSUME reply'[c] # reply[c] PROVE FALSE
  OBVIOUS
<1>1. PICK w \in Workers : running[w] = c /\ at[w] # "close"
  BY WrittenBy
<1>2. socket[c] = "open"
  BY <1>1, WorkerSocket DEF GradeInv
<1>3. PICK v \in Workers : running[v] = c /\ at[v] = "close"
  BY <1>2 DEF AnswerInv
<1>4. v # w /\ running[v] # NoTask
  BY <1>1, <1>3, TaskKinds
<1> QED
  BY <1>1, <1>3, <1>4 DEF GradeInv, BaseInv, PoolInv, ExactlyOnce

\* What opens a socket and what closes it.
LEMMA WorkerSockets ==
    ASSUME NEW w \in Workers, WorkerStep(w)
    PROVE  CloseSocket(w) \/ socket' = socket
<1> USE DEF clients
<1>1. CASE \/ BeginTask(w) \/ InvalidAction(w) \/ NewSubmission(w) \/ RecvWhole(w)
           \/ RecvFails(w) \/ RecvFailsOnSize(w) \/ RecvMisses(w) \/ OpenReceived(w)
           \/ WriteReceived(w) \/ AddWorkerTask(w) \/ ReplyId(w)
  BY <1>1 DEF BeginTask, InvalidAction, NewSubmission, RecvWhole, RecvFails,
     RecvFailsOnSize, RecvMisses, OpenReceived, WriteReceived, AddWorkerTask, ReplyId
<1>2. CASE \/ CheckFails(w) \/ StatusOfNoFile(w) \/ OpenStatus(w) \/ ReadStatus(w) \/ ReadReceived(w)
           \/ ReadOn(w) \/ OpenStatusForGrading(w) \/ Compile(w) \/ Run(w)
           \/ Diff(w) \/ CloseStatus(w)
  BY <1>2 DEF CheckFails, StatusOfNoFile, OpenStatus, ReadStatus, ReadReceived, ReadOn, Answer,
     OpenStatusForGrading, Compile, Run, Diff, Fprintf, CloseStatus
<1> QED
  BY <1>1, <1>2 DEF WorkerStep, WorkerTask

LEMMA SocketSteps ==
    ASSUME [ServerNext]_serverVars
    PROVE  Accept \/ Ends \/ (\E w \in Workers : CloseSocket(w)) \/ socket' = socket
<1>1. CASE AddRequest \/ Restart
  BY <1>1 DEF AddRequest, Restart, clients
<1>2. CASE UNCHANGED serverVars
  BY <1>2 DEF serverVars, clients
<1> QED
  BY <1>1, <1>2, WorkerSockets DEF ServerNext, KillServer, Crash

LEMMA WorkerOpensNone ==
    ASSUME BaseInv, NEW w \in Workers, WorkerStep(w), NEW c \in Conns, socket[c] = "none"
    PROVE  socket'[c] = "none"
<1> USE DEF BaseInv, DataInv
<1>1. CASE CloseSocket(w)
  <2>1. running[w] \in Conns => socket[running[w]] = "open"
    BY WorkerSocket
  <2>2. socket' = [socket EXCEPT ![running[w]] = "closed"]
    BY <1>1 DEF CloseSocket
  <2> QED
    BY <2>1, <2>2
<1> QED
  BY <1>1, WorkerSockets

\* A closed socket is not opened again.
LEMMA ClosedForGood ==
    ASSUME BaseInv, [ServerNext]_serverVars, NEW c \in Conns, socket[c] # "none",
           socket'[c] = "open"
    PROVE  socket[c] = "open" /\ ~ Ends
<1> USE DEF BaseInv, DataInv
<1>1. ~ Ends
  BY DEF Ends
<1>2. CASE Accept
  BY <1>1, <1>2 DEF Accept
<1>3. CASE \E w \in Workers : CloseSocket(w)
  BY <1>1, <1>3 DEF CloseSocket
<1>4. CASE socket' = socket
  BY <1>1, <1>4
<1> QED
  BY <1>1, <1>2, <1>3, <1>4, SocketSteps

\* A connection is opened by the acceptor.
LEMMA OpenedByAccept ==
    ASSUME BaseInv, [ServerNext]_serverVars, NEW c \in Conns, socket[c] = "none",
           socket'[c] # "none"
    PROVE  Accept /\ wants'[c].kind \in Requests[c]
<1> USE DEF BaseInv, DataInv
<1>1. CASE Accept
  <2>1. PICK d \in Conns, kind \in Kinds :
           /\ kind \in Requests[d]
           /\ socket' = [socket EXCEPT ![d] = "open"]
           /\ \E rest : wants' = [wants EXCEPT ![d] = rest] /\ rest.kind = kind
    <3>1. PICK d \in Conns, kind \in Kinds, i \in Issued \cup {NoId} :
             /\ kind \in Requests[d]
             /\ socket' = [socket EXCEPT ![d] = "open"]
             /\ wants' = [wants EXCEPT ![d] = [kind |-> kind, id |-> i, told |-> Told(i)]]
      BY ONLY <1>1 DEF Accept
    <3>2. [kind |-> kind, id |-> i, told |-> Told(i)].kind = kind
      OBVIOUS
    <3> QED
      BY <3>1, <3>2
  <2>2. d = c
    BY <2>1
  <2> QED
    BY <1>1, <2>1, <2>2
<1>2. CASE Ends
  BY <1>2 DEF Ends
<1>3. CASE AddRequest \/ Restart \/ UNCHANGED serverVars
  BY <1>3 DEF AddRequest, Restart, serverVars, clients
<1> QED
  BY <1>1, <1>2, <1>3, WorkerOpensNone DEF ServerNext, KillServer, Crash

LEMMA AnswerStep == GradeInv /\ AnswerInv /\ [ServerNext]_serverVars => AnswerInv'
<1> SUFFICES ASSUME GradeInv, AnswerInv, [ServerNext]_serverVars, NEW c \in Conns
             PROVE  /\ socket'[c] = "open" /\ reply'[c] # "none"
                         => \E w \in Workers : running'[w] = c /\ at'[w] = "close"
                    /\ wants'[c].kind \in Asked => reply'[c] \in Ids \cup {"none"}
  BY DEF AnswerInv
<1> USE DEF GradeInv
<1>1. CASE reply'[c] # reply[c]
  BY <1>1, WrittenBy
<1>2. ASSUME reply'[c] = reply[c], socket'[c] = "open", reply[c] # "none"
      PROVE  \E w \in Workers : running'[w] = c /\ at'[w] = "close"
  <2>1. socket[c] # "none"
    BY <1>2 DEF ToldInv, ToldOk
  <2>2. socket[c] = "open" /\ ~ Ends
    BY <1>2, <2>1, ClosedForGood
  <2>3. PICK v \in Workers : running[v] = c /\ at[v] = "close"
    BY <1>2, <2>2 DEF AnswerInv
  <2>4. ASSUME NEW w \in Workers, WorkerStep(w)
        PROVE  running'[v] = c /\ at'[v] = "close"
    <3>1. CASE v = w
      <4>1. CloseSocket(v)
        BY <2>3, <2>4, <3>1, CloseOnly
      <4>2. socket'[c] = "closed"
        BY <4>1, <2>3 DEF CloseSocket, BaseInv, DataInv
      <4> QED
        BY <1>2, <4>2
    <3>2. CASE v # w
      BY <2>3, <2>4, <3>2, OthersKept
    <3> QED
      BY <3>1, <3>2
  <2>5. CASE Accept \/ AddRequest \/ Restart \/ UNCHANGED serverVars
    <3>1. at' = at /\ running' = running
      BY <2>5 DEF Accept, AddRequest, Add, Restart, serverVars, queueVars, locals
    <3> QED
      BY <2>3, <3>1
  <2> QED
    BY <2>2, <2>4, <2>5 DEF ServerNext, KillServer, Crash
<1>3. ASSUME reply'[c] = reply[c], wants'[c].kind \in Asked
      PROVE  reply'[c] \in Ids \cup {"none"}
  <2>1. CASE socket[c] = "none"
    BY <1>3, <2>1 DEF ToldInv, ToldOk
  <2>2. CASE socket[c] # "none"
    <3>1. wants[c].kind \in Asked
      BY <1>3, <2>2, RequestKept
    <3> QED
      BY <1>3, <3>1 DEF AnswerInv
  <2> QED
    BY <2>1, <2>2
<1> QED
  BY <1>1, <1>2, <1>3

-----------------------------------------------------------------------------
(* The loop of a client                                                    *)

\* What check_func makes of any text: a verdict differs from every name, by its
\* newline, and the rest differs from the first.
LEMMA DecodeIsZero == \A text : Decode(text) = 0
<1> TAKE text
<1> DEFINE names == <<"SUCCESS", "COMPILE_ERROR", "RUNTIME_ERROR", "WRONG_ANSWER", "RECEIVED">>
           differs == {n \in 1..5 : Strcmp(text, names[n])}
<1>1. 1 \in differs /\ differs \subseteq 1..5
  BY DEF Strcmp, Verdicts
<1>2. Decode(text) = IF differs = {} THEN 5
                     ELSE (CHOOSE n \in differs : \A m \in differs : n <= m) - 1
  BY DEF Decode
<1> HIDE DEF differs
<1>3. \A n \in differs : (\A m \in differs : n <= m) <=> n = 1
  BY <1>1
<1>4. (CHOOSE n \in differs : \A m \in differs : n <= m) = 1
  BY <1>1, <1>3
<1> QED
  BY <1>1, <1>2, <1>4

\* The record of a client that CountInv allows.
CountOk(me) ==
    /\ me \in Locals
    /\ me.step \in {"send_file", "await_id", "check", "await_status"} => me.round <= Rounds
    /\ me.step \in {"check", "await_status"} => me.status_check_counter = 1
    /\ me.status_check_counter <= 1
    /\ me.step # "gone" => me.successfulRes = me.round - 1

LEMMA CountOfEach ==
    ASSUME CountInv
    PROVE  /\ client = [k \in Clients |-> client[k]]
           /\ \A k \in Clients : CountOk(client[k])
BY DEF CountInv, CountOk

LEMMA CountOfOne ==
    ASSUME CountInv, NEW k \in Clients, NEW me, CountOk(me),
           client' = [client EXCEPT ![k] = me]
    PROVE  CountInv'
<1>1. \A j \in Clients : client'[j] = IF j = k THEN me ELSE client[j]
  BY CountOfEach
<1>2. \A j \in Clients : CountOk(client'[j])
  BY <1>1, CountOfEach
<1>3. client' = [j \in Clients |-> client'[j]]
  BY CountOfEach
<1>4. client' \in [Clients -> Locals]
  BY <1>2, <1>3 DEF CountOk
<1> QED
  BY <1>2, <1>4 DEF CountInv, CountOk

\* The fields of a client's record at the end of its round.
LEMMA LocalsOfNextRound ==
    ASSUME NEW me \in Locals, NEW next,
           next = [me EXCEPT !.step = "submit", !.round = @ + 1, !.successfulRes = @ + 1]
    PROVE  /\ next \in Locals
           /\ next.step = "submit" /\ next.round = me.round + 1
           /\ next.successfulRes = me.successfulRes + 1
           /\ next.status_check_counter = me.status_check_counter
<1>1. me.round + 1 \in Nat \ {0} /\ me.successfulRes + 1 \in Nat
  BY DEF Locals
<1>2. \A r \in Nat \ {0}, n \in Nat :
         [me EXCEPT !.step = "submit", !.round = r, !.successfulRes = n] \in Locals
  BY DEF Locals, Steps
<1>3. next \in Locals
  BY ONLY <1>1, <1>2, next = [me EXCEPT !.step = "submit", !.round = @ + 1,
                                        !.successfulRes = @ + 1]
<1>4. /\ next.step = "submit" /\ next.round = me.round + 1
      /\ next.successfulRes = me.successfulRes + 1
      /\ next.status_check_counter = me.status_check_counter
  BY DEF Locals
<1> QED
  BY <1>3, <1>4

\* The connection of a submission that is awaited.
LEMMA AwaitedId ==
    ASSUME GraderInv, NEW k \in Clients, client[k].step = "await_id", HasReply(k)
    PROVE  reply[Awaited(k)] \in IdsOf(k)
<1> DEFINE r == client[k].round
           c == <<k, r, 0>>
<1>1. r \in 1..Rounds /\ 0 \in 0..MaxChecks
  BY GraderClientAssumption DEF GraderInv, CountInv, Locals
<1>2. c \in Conns /\ c[3] = 0 /\ Awaited(k) = c
  BY <1>1, GraderClientAssumption DEF Awaited
<1>3. reply[c] # "none" /\ socket[c] # "none"
  BY <1>2 DEF HasReply, GraderInv, GradeInv, ToldInv, ToldOk
<1>4. wants[c].kind \in Asked
  BY <1>2, <1>3, GraderClientAssumption DEF GraderInv, SentInv, SubmitOrCheck, Asked
<1>5. reply[c] \in Ids
  BY <1>2, <1>3, <1>4 DEF GraderInv, AnswerInv
<1> QED
  BY <1>1, <1>2, <1>5 DEF IdsOf

\* What a client's step makes of its record, and of what it has still to send.
LEMMA CountStep ==
    ASSUME GraderInv, NEW k \in Clients, Client(k)
    PROVE  CountInv' /\ \A c \in Conns : Ahead(c)' => Ahead(c)
<1> DEFINE me == client[k]
<1>1. CountInv /\ CountOk(me) /\ client = [j \in Clients |-> client[j]]
  BY CountOfEach DEF GraderInv
<1>2. \A c \in Conns : c[1] \in Clients /\ c[2] \in Nat /\ c[3] \in Nat
  BY GraderClientAssumption
<1>3. ASSUME NEW next, CountOk(next), client' = [client EXCEPT ![k] = next],
             \/ next.step \in {"gone", "await_status"} /\ next.round = me.round
             \/ me.step = "submit" /\ next.step = "send_file" /\ next.round = me.round
             \/ me.step = "send_file" /\ next.step = "await_id" /\ next.round = me.round
             \/ me.step = "await_id" /\ next.step = "check" /\ next.round = me.round
             \/ next.round = me.round + 1
      PROVE  CountInv' /\ \A c \in Conns : Ahead(c)' => Ahead(c)
  <2>1. CountInv'
    BY <1>1, <1>3, CountOfOne
  <2>2. \A j \in Clients : client'[j] = IF j = k THEN next ELSE client[j]
    BY <1>1, <1>3
  <2>3. ASSUME NEW c \in Conns, Ahead(c)' PROVE Ahead(c)
    <3>1. CASE c[1] # k
      BY <1>2, <2>2, <2>3, <3>1 DEF Ahead
    <3>2. CASE c[1] = k
      <4>1. \/ c[2] > next.round
            \/ /\ c[2] = next.round
               /\ next.step = "submit" \/ (next.step \in {"send_file", "await_id", "check"} /\ c[3] >= 1)
        BY <2>2, <2>3, <3>2 DEF Ahead
      <4>2. me.round \in Nat /\ c[2] \in Nat
        BY <1>1, <1>2 DEF CountOk, Locals
      <4>3. \/ c[2] > me.round
            \/ /\ c[2] = me.round
               /\ me.step = "submit" \/ (me.step \in {"send_file", "await_id", "check"} /\ c[3] >= 1)
        BY <1>3, <4>1, <4>2
      <4> QED
        BY <3>2, <4>3 DEF Ahead
    <3> QED
      BY <3>1, <3>2
  <2> QED
    BY <2>1, <2>3
<1>4. CASE Submit(k)
  <2> DEFINE next == [me EXCEPT !.step = "send_file"]
  <2>1. me.step = "submit" /\ me.round <= Rounds /\ client' = [client EXCEPT ![k] = next]
    BY <1>1, <1>4 DEF Submit
  <2>2. CountOk(next) /\ next.step = "send_file" /\ next.round = me.round
    BY <1>1, <2>1 DEF CountOk, Locals, Steps
  <2> HIDE DEF next
  <2> QED
    BY <1>3, <2>1, <2>2
<1>13. CASE SendFile(k)
  <2> DEFINE next == [me EXCEPT !.step = "await_id"]
  <2>1. me.step = "send_file" /\ client' = [client EXCEPT ![k] = next]
    BY <1>1, <1>13 DEF SendFile
  <2>2. CountOk(next) /\ next.step = "await_id" /\ next.round = me.round
    BY <1>1, <2>1 DEF CountOk, Locals, Steps
  <2> HIDE DEF next
  <2> QED
    BY <1>3, <2>1, <2>2
<1>5. CASE ConnectFails(k) \/ Returns(k) \/ BrokenPipe(k)
  <2> DEFINE next == [me EXCEPT !.step = "gone"]
  <2>1. client' = [client EXCEPT ![k] = next]
    BY <1>1, <1>5 DEF ConnectFails, Returns, BrokenPipe
  <2>2. CountOk(next) /\ next.step = "gone" /\ next.round = me.round
    BY <1>1 DEF CountOk, Locals, Steps
  <2> HIDE DEF next
  <2> QED
    BY <1>3, <2>1, <2>2
<1>6. CASE Check(k)
  <2> DEFINE next == [me EXCEPT !.step = "await_status"]
  <2>1. me.step = "check" /\ client' = [client EXCEPT ![k] = next]
    BY <1>1, <1>6 DEF Check
  <2>2. CountOk(next) /\ next.step = "await_status" /\ next.round = me.round
    BY <1>1, <2>1 DEF CountOk, Locals, Steps
  <2> HIDE DEF next
  <2> QED
    BY <1>3, <2>1, <2>2
<1>7. ASSUME NEW text \in Ids \cup {NoId, "unset"}, me.step = "await_id",
             client' = [client EXCEPT ![k] = [me EXCEPT !.step = "check", !.req_id = text,
                                                        !.status_check_counter = 1]]
      PROVE  CountInv' /\ \A c \in Conns : Ahead(c)' => Ahead(c)
  <2> DEFINE next == [me EXCEPT !.step = "check", !.req_id = text,
                                !.status_check_counter = 1]
  <2>1. me \in Locals /\ me.round <= Rounds /\ me.successfulRes = me.round - 1
    BY <1>1, <1>7 DEF CountOk
  <2>2. client' = [client EXCEPT ![k] = next]
    BY <1>7
  <2>3. next = [me EXCEPT !.step = "check", !.req_id = text, !.status_check_counter = 1]
    OBVIOUS
  <2> HIDE DEF next
  <2>4. /\ next \in Locals
        /\ next.step = "check" /\ next.status_check_counter = 1
        /\ next.round = me.round /\ next.successfulRes = me.successfulRes
    BY <2>1, <2>3 DEF Locals, Steps
  <2>5. CountOk(next)
    BY ONLY <2>1, <2>4 DEF CountOk
  <2> QED
    BY <1>3, <1>7, <2>2, <2>4, <2>5
<1>8. ASSUME NEW text \in Ids \cup {NoId, "unset"}, TakeId(k, text)
      PROVE  CountInv' /\ \A c \in Conns : Ahead(c)' => Ahead(c)
  <2>1. /\ me.step = "await_id"
        /\ client' = [client EXCEPT ![k] = [me EXCEPT !.step = "check", !.req_id = text,
                                                      !.status_check_counter = 1]]
    BY <1>1, <1>8 DEF TakeId
  <2> QED
    BY <1>7, <2>1
<1>9. CASE IdArrives(k) \/ IdTimesOut(k)
  <2>1. CASE HasReply(k) /\ TakeId(k, reply[Awaited(k)])
    <3>1. reply[Awaited(k)] \in Ids
      BY <2>1, AwaitedId DEF TakeId, IdsOf
    <3> QED
      BY <1>8, <2>1, <3>1
  <2>2. CASE TakeId(k, NoId)
    BY <1>8, <2>2
  <2> QED
    BY <1>9, <2>1, <2>2 DEF IdArrives, IdTimesOut
<1>10. CASE IdFails(k)
  <2>1. me.step = "await_id"
    BY <1>10 DEF IdFails
  <2>2. me.req_id \in Ids \cup {NoId, "unset"}
    BY <1>1 DEF CountOk, Locals
  <2>3. client' = [client EXCEPT ![k] = [me EXCEPT !.step = "check", !.req_id = me.req_id,
                                                   !.status_check_counter = 1]]
    <3>1. client' = [client EXCEPT ![k] = [me EXCEPT !.step = "check",
                                                     !.status_check_counter = 1]]
      BY <1>1, <1>10 DEF IdFails
    <3>2. [me EXCEPT !.step = "check", !.status_check_counter = 1]
            = [me EXCEPT !.step = "check", !.req_id = me.req_id, !.status_check_counter = 1]
      BY <1>1 DEF CountOk
    <3> QED
      BY <3>1, <3>2
  <2> QED
    BY <1>7, <2>1, <2>2, <2>3
<1>11. ASSUME NEW code \in {0, -1}, Answers(k, code)
       PROVE  CountInv' /\ \A c \in Conns : Ahead(c)' => Ahead(c)
  <2> DEFINE next == Loop(me, code)
  <2>1. me.step = "await_status" /\ client' = [client EXCEPT ![k] = next]
    BY <1>1, <1>11 DEF Answers
  <2>2. me.status_check_counter = 1
    BY <1>1, <2>1 DEF CountOk
  <2>3. next = [me EXCEPT !.step = "submit", !.round = @ + 1, !.successfulRes = @ + 1]
    <3>1. code # 4 /\ code # 5 /\ me.status_check_counter <= 10
      BY <1>11, <2>2
    <3> QED
      BY <3>1 DEF Loop
  <2>4. me \in Locals /\ me.successfulRes = me.round - 1
    BY <1>1, <2>1 DEF CountOk
  <2>5. /\ next \in Locals
        /\ next.step = "submit" /\ next.round = me.round + 1
        /\ next.successfulRes = me.successfulRes + 1 /\ next.status_check_counter = 1
    BY <2>2, <2>3, <2>4, LocalsOfNextRound
  <2>6. me.round \in Nat
    BY <2>4 DEF Locals
  <2>7. CountOk(next) /\ next.round = me.round + 1
    BY ONLY <2>4, <2>5, <2>6 DEF CountOk
  <2> HIDE DEF next
  <2> QED
    BY <1>3, <2>1, <2>7
<1>12. CASE StatusArrives(k) \/ StatusTimesOut(k) \/ StatusFails(k)
  <2>1. PICK code \in {0, -1} : Answers(k, code)
    BY <1>12, DecodeIsZero DEF StatusArrives, StatusTimesOut, StatusFails
  <2> QED
    BY <1>11, <2>1
<1> QED
  BY <1>4, <1>5, <1>6, <1>9, <1>10, <1>12, <1>13 DEF Client

-----------------------------------------------------------------------------
(* What is sent                                                            *)

\* A connection still to be made is not open: nothing was sent on it.
LEMMA AheadIsIdle ==
    ASSUME GraderInv, NEW c \in Conns, Ahead(c)
    PROVE  socket[c] = "none" /\ request[c].kind = "none"
<1>1. request[c].kind = "none"
  BY DEF GraderInv, SentInv
<1>2. socket[c] # "none" => request[c].kind \in Requests[c]
  BY DEF GraderInv, SentInv
<1>3. "none" \notin Requests[c]
  BY GraderClientAssumption DEF SubmitOrCheck
<1> QED
  BY <1>1, <1>2, <1>3

\* What a step of a client sends: its submission, or a check of the id it has.
Sends(k, c) ==
    /\ c \in Conns /\ c[1] = k /\ Ahead(c) /\ ~ Ahead(c)'
    /\ \E kind \in {"submit", "cut", "check36", "noid"}, i \in Ids \cup {NoId} :
          /\ request' = [request EXCEPT ![c] = [kind |-> kind, id |-> i]]
          /\ c[3] = 0 => kind \in Asked
          /\ kind = "check36" => (i = client[k].req_id /\ i # "unset") \/ i = NoId

LEMMA ClientSends ==
    ASSUME GraderInv, NEW k \in Clients, Client(k)
    PROVE  request' = request \/ \E c \in Conns : Sends(k, c)
<1> DEFINE me == client[k]
<1>1. me \in Locals /\ client = [j \in Clients |-> client[j]] /\ CountOk(me)
  BY CountOfEach DEF GraderInv, CountOk
<1>2. CASE Submit(k)
  <2>0. PICK c : c = <<k, me.round, 0>>
    OBVIOUS
  <2>1. /\ me.step = "submit" /\ me.round <= Rounds
        /\ client' = [client EXCEPT ![k].step = "send_file"]
    BY <1>2, <2>0 DEF Submit
  <2>7. PICK kind \in Asked : request' = [request EXCEPT ![c] = [kind |-> kind, id |-> NoId]]
    BY <1>2, <2>0 DEF Submit, Asked
  <2>2. me.round \in 1..Rounds /\ 0 \in 0..MaxChecks
    BY <1>1, <2>1, GraderClientAssumption DEF Locals
  <2>3. c \in Conns
    BY <2>0, <2>2, GraderClientAssumption
  <2>4. client'[k].step = "send_file" /\ client'[k].round = me.round
    BY <1>1, <2>1 DEF Locals
  <2>5. c[1] = k /\ c[2] = me.round /\ c[3] = 0 /\ me.round \in Nat
    BY <2>0, <2>2
  <2>6. Ahead(c) /\ ~ Ahead(c)'
    BY <2>1, <2>4, <2>5 DEF Ahead
  <2> QED
    BY <2>1, <2>3, <2>5, <2>6, <2>7 DEF Sends, Asked
<1>3. CASE Check(k)
  <2>0. PICK c, i : /\ c = <<k, me.round, me.status_check_counter>>
                    /\ i = IF me.req_id = "unset" THEN NoId ELSE me.req_id
    OBVIOUS
  <2>1. PICK kind \in {"noid", "check36"} :
           request' = [request EXCEPT ![c] = [kind |-> kind, id |-> i]]
    BY <1>3, <2>0 DEF Check
  <2>2. /\ me.step = "check" /\ me.status_check_counter <= MaxChecks
        /\ client' = [client EXCEPT ![k].step = "await_status"]
    BY <1>3 DEF Check
  <2>3. me.round \in 1..Rounds /\ me.status_check_counter = 1 /\ 1 \in 0..MaxChecks
    BY <1>1, <2>2, GraderClientAssumption DEF Locals, CountOk
  <2>4. c \in Conns
    BY <2>0, <2>3, GraderClientAssumption
  <2>5. client'[k].step = "await_status" /\ client'[k].round = me.round
    BY <1>1, <2>2 DEF Locals
  <2>6. c[1] = k /\ c[2] = me.round /\ c[3] = 1 /\ me.round \in Nat
    BY <2>0, <2>3
  <2>7. i \in Ids \cup {NoId} /\ ((i = me.req_id /\ i # "unset") \/ i = NoId)
    BY <1>1, <2>0 DEF Locals
  <2>8. Ahead(c) /\ ~ Ahead(c)'
    BY <2>2, <2>5, <2>6 DEF Ahead
  <2>9. Sends(k, c)
    <3>1. kind \in {"submit", "cut", "check36", "noid"} /\ (c[3] = 0 => kind \in Asked)
      BY <2>6
    <3>2. kind = "check36" => (i = client[k].req_id /\ i # "unset") \/ i = NoId
      BY <2>7
    <3> QED
      BY ONLY <2>1, <2>4, <2>6, <2>7, <2>8, <3>1, <3>2 DEF Sends
  <2> QED
    BY <2>4, <2>9
<1>4. CASE \/ ConnectFails(k) \/ Returns(k) \/ SendFile(k) \/ BrokenPipe(k)
           \/ IdArrives(k) \/ IdTimesOut(k) \/ IdFails(k)
           \/ StatusArrives(k) \/ StatusTimesOut(k) \/ StatusFails(k)
  BY <1>4 DEF ConnectFails, Returns, SendFile, BrokenPipe, IdArrives, IdTimesOut, IdFails, TakeId,
     StatusArrives, StatusTimesOut, StatusFails, Answers
<1> QED
  BY <1>2, <1>3, <1>4 DEF Client

\* The conjuncts of SentInv for one connection.
SentOk(c) ==
    /\ Ahead(c) => request[c].kind = "none"
    /\ c[3] = 0 => request[c].kind \in {"none", "submit", "cut", "reset"}
    /\ socket[c] # "none" => /\ wants[c].kind \in Requests[c]
                             /\ request[c].kind = wants[c].kind
                             /\ request[c].id = wants[c].id

RequestRecords == [kind : {"none", "submit", "cut", "check36", "noid", "reset"},
                   id : Ids \cup {NoId}]

LEMMA SentByParts ==
    SentInv <=> request \in [Conns -> RequestRecords] /\ \A c \in Conns : SentOk(c)
BY DEF SentInv, SentOk, RequestRecords

\* The steps other than the client's leave its record alone, and request but for
\* what the end of the process resets.
LEMMA RequestsRest ==
    ASSUME GraderInv, [GraderNext]_graderVars, ~ \E k \in Clients : ClientStep(k)
    PROVE  /\ client' = client
           /\ \/ request' = request
              \/ /\ socket' = [c \in Conns |-> IF socket[c] = "open" THEN "closed" ELSE socket[c]]
                 /\ request' = [c \in Conns |->
                        IF request[c].kind # "none" /\ socket[c] = "none"
                        THEN [kind |-> "reset", id |-> NoId] ELSE request[c]]
<1>1. CASE ProcessEnds
  BY <1>1 DEF ProcessEnds, KillServer, Crash, Ends
<1>2. CASE AcceptSent \/ MainStep \/ ProcessStarts
  BY <1>2 DEF AcceptSent, MainStep, ProcessStarts
<1>3. CASE \E w \in Workers : HandlerStep(w)
  BY <1>3 DEF HandlerStep
<1>4. CASE UNCHANGED graderVars
  BY <1>4 DEF graderVars
<1> QED
  BY <1>1, <1>2, <1>3, <1>4 DEF GraderNext

LEMMA SentStep == GraderInv /\ [GraderNext]_graderVars => SentInv'
<1> SUFFICES ASSUME GraderInv, [GraderNext]_graderVars PROVE SentInv'
  OBVIOUS
<1>1. request \in [Conns -> RequestRecords] /\ \A c \in Conns : SentOk(c)
  BY SentByParts DEF GraderInv
<1>2. SUFFICES request' \in [Conns -> RequestRecords] /\ \A c \in Conns : SentOk(c)'
  BY DEF SentInv, SentOk, RequestRecords
<1>3. ASSUME NEW k \in Clients, ClientStep(k)
      PROVE  request' \in [Conns -> RequestRecords] /\ \A c \in Conns : SentOk(c)'
  <2>1. Client(k) /\ socket' = socket /\ wants' = wants
    BY <1>3 DEF ClientStep, serverVars, clients
  <2>2. \A c \in Conns : Ahead(c)' => Ahead(c)
    BY <2>1, CountStep
  <2>3. CASE request' = request
    BY <1>1, <2>1, <2>2, <2>3 DEF SentOk
  <2>4. ASSUME NEW c \in Conns, Sends(k, c)
        PROVE  request' \in [Conns -> RequestRecords] /\ \A d \in Conns : SentOk(d)'
    <3>1. PICK kind \in {"submit", "cut", "check36", "noid"}, i \in Ids \cup {NoId} :
             /\ request' = [request EXCEPT ![c] = [kind |-> kind, id |-> i]]
             /\ c[3] = 0 => kind \in {"submit", "cut"}
      BY <2>4 DEF Sends, Asked
    <3>2. socket[c] = "none" /\ ~ Ahead(c)'
      BY <2>4, AheadIsIdle DEF Sends
    <3>3. request' \in [Conns -> RequestRecords]
      BY <1>1, <3>1 DEF RequestRecords
    <3>4. request'[c].kind = kind
      BY <1>1, <3>1
    <3>5. SentOk(c)'
      BY <2>1, <3>1, <3>2, <3>4 DEF SentOk
    <3>6. ASSUME NEW d \in Conns, d # c PROVE SentOk(d)'
      <4>1. request'[d] = request[d]
        BY <1>1, <3>1, <3>6
      <4> QED
        BY <1>1, <2>1, <2>2, <4>1 DEF SentOk
    <3> QED
      BY <3>3, <3>5, <3>6
  <2> QED
    BY <2>1, <2>3, <2>4, ClientSends DEF Sends
<1>4. ASSUME ~ \E k \in Clients : ClientStep(k)
      PROVE  request' \in [Conns -> RequestRecords] /\ \A c \in Conns : SentOk(c)'
  <2>1. /\ client' = client
        /\ \/ request' = request
           \/ /\ socket' = [c \in Conns |-> IF socket[c] = "open" THEN "closed" ELSE socket[c]]
              /\ request' = [c \in Conns |->
                     IF request[c].kind # "none" /\ socket[c] = "none"
                     THEN [kind |-> "reset", id |-> NoId] ELSE request[c]]
    BY <1>4, RequestsRest
  <2>2. request' \in [Conns -> RequestRecords]
    BY <1>1, <2>1 DEF RequestRecords
  <2>3. ASSUME NEW c \in Conns PROVE SentOk(c)'
    <3>1. Ahead(c)' <=> Ahead(c)
      BY <2>1 DEF Ahead
    <3>2. \/ request'[c] = request[c]
          \/ /\ socket'[c] = "none" /\ request[c].kind # "none"
             /\ request'[c].kind = "reset"
      BY <2>1
    <3>3. [ServerNext]_serverVars /\ BaseInv
      BY ServerInside DEF GraderInv, GradeInv
    <3>4. CASE socket'[c] = "none"
      BY <1>1, <3>1, <3>2, <3>4 DEF SentOk
    <3>5. CASE socket[c] # "none"
      <4>1. wants'[c] = wants[c] /\ socket'[c] # "none"
        BY <3>3, <3>5, RequestKept
      <4> QED
        BY <1>1, <3>1, <3>2, <3>5, <4>1 DEF SentOk
    <3>6. CASE socket[c] = "none" /\ socket'[c] # "none"
      <4>1. Accept /\ wants'[c].kind \in Requests[c]
        BY <3>3, <3>6, OpenedByAccept
      <4>2. wants[c].kind = "none" /\ "none" \notin Requests[c]
        <5>1. wants[c].kind = "none"
          BY <3>6 DEF GraderInv, GradeInv, ToldInv, ToldOk
        <5>2. "none" \notin Requests[c]
          BY GraderClientAssumption DEF SubmitOrCheck
        <5> QED
          BY <5>1, <5>2
      <4>3. AcceptSent
        <5>1. ~ \E w \in Workers : HandlerStep(w)
          BY <3>3, <3>6, WorkerOpensNone DEF HandlerStep
        <5>2. ~ ProcessEnds
          BY <3>6 DEF ProcessEnds, KillServer, Crash, Ends
        <5>3. ~ MainStep /\ ~ ProcessStarts /\ ~ UNCHANGED graderVars
          BY <3>6 DEF MainStep, AddRequest, ProcessStarts, Restart, graderVars, serverVars,
             clients
        <5> QED
          BY <1>4, <5>1, <5>2, <5>3 DEF GraderNext
      <4>4. /\ request'[c] = request[c]
            /\ request[c].kind = wants'[c].kind /\ request[c].id = wants'[c].id
        BY <4>1, <4>2, <4>3 DEF AcceptSent, AsSent
      <4> QED
        BY <1>1, <3>1, <4>1, <4>4 DEF SentOk
    <3> QED
      BY <3>4, <3>5, <3>6
  <2> QED
    BY <2>2, <2>3
<1> QED
  BY <1>3, <1>4

-----------------------------------------------------------------------------
(* Whose ids a client has                                                  *)

\* An answer that is an id stays.
LEMMA IdsOfGrows ==
    ASSUME GraderInv, [GraderNext]_graderVars, NEW k \in Clients
    PROVE  IdsOf(k) \subseteq IdsOf(k)'
<1> SUFFICES ASSUME NEW r \in 1..Rounds, reply[<<k, r, 0>>] \in Ids
             PROVE  reply'[<<k, r, 0>>] = reply[<<k, r, 0>>]
  BY DEF IdsOf
<1>1. 0 \in 0..MaxChecks
  BY GraderClientAssumption
<1>2. PICK c \in Conns : c = <<k, r, 0>>
  BY <1>1, GraderClientAssumption
<1>3. reply[c] # "none"
  BY <1>2, ServerAssumption
<1>4. reply'[c] = reply[c]
  BY <1>3, AnsweredOnce, ServerInside DEF GraderInv
<1> QED
  BY <1>2, <1>4

\* Where a client has its id from.
LEMMA IdTaken ==
    ASSUME GraderInv, NEW k \in Clients, Client(k), NEW j \in Clients
    PROVE  client'[j].req_id \in IdsOf(j) \cup {client[j].req_id, NoId}
<1> DEFINE me == client[k]
<1>1. me \in Locals /\ client = [l \in Clients |-> client[l]]
  BY CountOfEach DEF GraderInv, CountOk
<1>2. CASE j # k
  BY <1>1, <1>2 DEF Client, Submit, ConnectFails, Returns, SendFile, BrokenPipe, IdArrives, IdTimesOut, IdFails,
     TakeId, Check, StatusArrives, StatusTimesOut, StatusFails, Answers
<1>3. CASE j = k
  <2>1. CASE \/ Submit(k) \/ ConnectFails(k) \/ Returns(k) \/ SendFile(k) \/ BrokenPipe(k)
             \/ IdFails(k) \/ Check(k)
    BY <1>1, <1>3, <2>1 DEF Submit, ConnectFails, Returns, SendFile, BrokenPipe, IdFails,
       Check, Locals
  <2>2. ASSUME NEW text, TakeId(k, text) PROVE client'[k].req_id = text
    BY <1>1, <2>2 DEF TakeId, Locals
  <2>3. CASE IdArrives(k) \/ IdTimesOut(k)
    <3>1. CASE HasReply(k) /\ TakeId(k, reply[Awaited(k)])
      <4>1. reply[Awaited(k)] \in IdsOf(k)
        BY <3>1, AwaitedId DEF TakeId
      <4> QED
        BY <1>3, <2>2, <3>1, <4>1
    <3>2. CASE TakeId(k, NoId)
      BY <1>3, <2>2, <3>2
    <3> QED
      BY <2>3, <3>1, <3>2 DEF IdArrives, IdTimesOut
  <2>4. ASSUME NEW code, Answers(k, code) PROVE client'[k].req_id = me.req_id
    <3>1. client'[k] = Loop(me, code)
      BY <1>1, <2>4 DEF Answers
    <3>2. Loop(me, code).req_id = me.req_id
      BY <1>1 DEF Loop, Locals
    <3> QED
      BY <3>1, <3>2
  <2>5. CASE StatusArrives(k) \/ StatusTimesOut(k) \/ StatusFails(k)
    BY <1>3, <2>4, <2>5 DEF StatusArrives, StatusTimesOut, StatusFails
  <2> QED
    BY <2>1, <2>3, <2>5 DEF Client
<1> QED
  BY <1>2, <1>3

LEMMA OwnIdStep == GraderInv /\ [GraderNext]_graderVars => OwnIdInv'
<1> SUFFICES ASSUME GraderInv, [GraderNext]_graderVars PROVE OwnIdInv'
  OBVIOUS
<1>1. \A k \in Clients : IdsOf(k) \subseteq IdsOf(k)'
  BY IdsOfGrows
<1>2. /\ \A k \in Clients : client[k].req_id \in IdsOf(k) \cup {NoId, "unset"}
      /\ \A c \in Conns : request[c].kind = "check36"
                            => request[c].id \in IdsOf(c[1]) \cup {NoId}
      /\ request \in [Conns -> RequestRecords]
      /\ \A c \in Conns : c[1] \in Clients
  BY GraderClientAssumption DEF GraderInv, OwnIdInv, SentInv, RequestRecords
<1>3. ASSUME NEW j \in Clients PROVE client'[j].req_id \in IdsOf(j)' \cup {NoId, "unset"}
  <2>1. CASE \E k \in Clients : ClientStep(k)
    <3>1. client'[j].req_id \in IdsOf(j) \cup {client[j].req_id, NoId}
      BY <2>1, IdTaken DEF ClientStep
    <3> QED
      BY <1>1, <1>2, <3>1
  <2>2. CASE ~ \E k \in Clients : ClientStep(k)
    <3>1. client' = client
      BY <2>2, RequestsRest
    <3> QED
      BY <1>1, <1>2, <3>1
  <2> QED
    BY <2>1, <2>2
<1>4. ASSUME NEW c \in Conns, request'[c].kind = "check36"
      PROVE  request'[c].id \in IdsOf(c[1])' \cup {NoId}
  <2>1. CASE request'[c] = request[c]
    BY <1>1, <1>2, <1>4, <2>1
  <2>2. ASSUME NEW k \in Clients, ClientStep(k), NEW d \in Conns, Sends(k, d)
        PROVE  request'[c].id \in IdsOf(c[1])' \cup {NoId}
    <3>1. PICK kind, i :
             /\ request' = [request EXCEPT ![d] = [kind |-> kind, id |-> i]]
             /\ kind = "check36" => (i = client[k].req_id /\ i # "unset") \/ i = NoId
             /\ d[1] = k
      BY <2>2 DEF Sends
    <3>2. CASE c # d
      BY <1>2, <2>1, <3>1, <3>2
    <3>3. CASE c = d
      <4>1. request'[c].kind = kind /\ request'[c].id = i
        BY <1>2, <3>1, <3>3
      <4> QED
        BY <1>1, <1>2, <1>4, <3>1, <3>3, <4>1
    <3> QED
      BY <3>2, <3>3
  <2>3. CASE ~ \E k \in Clients : ClientStep(k)
    <3>1. request'[c] = request[c] \/ request'[c].kind = "reset"
      BY <2>3, RequestsRest
    <3> QED
      BY <1>4, <2>1, <3>1
  <2>4. CASE request' = request
    BY <2>1, <2>4
  <2> QED
    BY <2>2, <2>3, <2>4, ClientSends DEF ClientStep
<1> QED
  BY <1>3, <1>4 DEF OwnIdInv

-----------------------------------------------------------------------------
(* The invariant, and what follows from it                                 *)

LEMMA GraderInitInv == GraderInit => GraderInv
<1> SUFFICES ASSUME GraderInit PROVE GraderInv
  OBVIOUS
<1>1. GradeInv
  BY GradeInitInv DEF GraderInit
<1>2. /\ \A c \in Conns : socket[c] = "none" /\ wants[c] = NoRequest /\ reply[c] = "none"
      /\ \A c \in Conns : request[c].kind = "none"
      /\ request \in [Conns -> RequestRecords]
  BY DEF GraderInit, ServerInit, NotMade, RequestRecords
<1>3. AnswerInv
  BY <1>2 DEF AnswerInv
<1>4. CountInv
  BY DEF GraderInit, CountInv, Locals, Steps
<1>5. SentInv
  BY <1>2, SentByParts DEF SentOk
<1>6. \A k \in Clients : client[k].req_id = "unset"
  BY DEF GraderInit
<1>7. OwnIdInv
  BY <1>2, <1>6 DEF OwnIdInv
<1> QED
  BY <1>1, <1>3, <1>4, <1>5, <1>7 DEF GraderInv

\* The parts of GraderInv together are inductive.
THEOREM GraderInvariant == GraderSpec => []GraderInv
<1>1. GraderInit => GraderInv
  BY GraderInitInv
<1>2. GraderInv /\ [GraderNext]_graderVars => GraderInv'
  <2> SUFFICES ASSUME GraderInv, [GraderNext]_graderVars PROVE GraderInv'
    OBVIOUS
  <2>1. GradeInv' /\ AnswerInv'
    BY ServerInside, GradeStep, AnswerStep DEF GraderInv
  <2>2. CountInv'
    <3>1. CASE \E k \in Clients : ClientStep(k)
      BY <3>1, CountStep DEF ClientStep
    <3>2. CASE ~ \E k \in Clients : ClientStep(k)
      <4>1. client' = client
        BY <3>2, RequestsRest
      <4> QED
        BY <4>1 DEF GraderInv, CountInv
    <3> QED
      BY <3>1, <3>2
  <2> QED
    BY <2>1, <2>2, SentStep, OwnIdStep DEF GraderInv
<1> QED
  BY <1>1, <1>2, PTL DEF GraderSpec

(***************************************************************************)
(* A client asks for none but the ids of its own submissions, whatever was *)
(* late, lost or reset, and a verdict it is told is the one in that id's   *)
(* status file: of a connection the server takes what the client sent on   *)
(* it, and answers it once (client.c:92, 163-174,                          *)
(* req_handler_threads.c:73-111).                                          *)
(***************************************************************************)
THEOREM OwnVerdictsOnly == GraderSpec => []OwnVerdicts
<1>1. GraderInv => OwnVerdicts
  <2> SUFFICES ASSUME GraderInv, NEW c \in Conns, request[c].kind = "check36"
               PROVE  /\ request[c].id \in IdsOf(c[1]) \cup {NoId}
                      /\ reply[c] \in Verdicts
                           => request[c].id # NoId /\ status[request[c].id] = reply[c]
    BY DEF OwnVerdicts
  <2>1. request[c].id \in IdsOf(c[1]) \cup {NoId}
    BY DEF GraderInv, OwnIdInv
  <2>2. ASSUME reply[c] \in Verdicts
        PROVE  request[c].id # NoId /\ status[request[c].id] = reply[c]
    <3>1. ToldOk(c)
      BY DEF GraderInv, GradeInv, ToldInv
    <3>2. socket[c] # "none"
      BY <2>2, <3>1 DEF ToldOk, Verdicts
    <3>3. wants[c].kind \in Checks /\ wants[c].id = request[c].id
      BY <3>2 DEF GraderInv, SentInv, Checks
    <3>4. wants[c].id \in Ids /\ reply[c] = status[wants[c].id]
      BY <2>2, <3>1, <3>3 DEF ToldOk
    <3> QED
      BY <3>3, <3>4, ServerAssumption
  <2> QED
    BY <2>1, <2>2
<1> QED
  BY <1>1, GraderInvariant, PTL

(***************************************************************************)
(* A client's loop makes one check in a round, whatever it is told or not, *)
(* and counts every round as a success, errors and timeouts among them:    *)
(* any text differs from some name, so that check_func decodes none as the *)
(* 4 that asks again or the 5 that is no success (client.c:49-60, 171-186).*)
(***************************************************************************)
THEOREM ChecksOnceARound == GraderSpec => []OneCheckARound
<1>1. GraderInv => OneCheckARound
  BY DEF GraderInv, CountInv, OneCheckARound
<1> QED
  BY <1>1, GraderInvariant, PTL

=============================================================================
