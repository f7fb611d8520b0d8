--------------------------- MODULE OldGradersProofs ---------------------------
(***************************************************************************)
(* Proofs about the servers of versions 1, 2 and 3 with their clients, for *)
(* any number of clients, rounds and threads, any programs and any         *)
(* failures: that nobody is given another's verdict or texts, and that what*)
(* version 3 judges is whole.                                              *)
(***************************************************************************)
EXTENDS OldGraders, TLAPS

Sides == Conns \cup {NoConn}

ConnRecords ==
    [client : {"none", "open", "closed"}, server : {"none", "waiting", "open", "closed"},
     sent : Nat, taken : Nat,
     client_error : {"none", "pending", "seen"}, server_error : {"none", "pending", "seen"},
     reply : Replies \cup {NoReply}]

Steps ==
    {"accept", "read", "compile", "run", "diff", "answer", "enqueue", "free", "lock",
     "asleep", "recv_size", "recv_file", "compile_task", "run_task", "diff_task"}

ClientRecords ==
    [step : {"connect", "send", "read", "gone"}, round : Nat, successfulRes : Nat,
     numOfTimeouts : Nat, numErrResponses : Nat]

ThreadRecords == [at : Steps, sock : Sides, verdict : {"none"} \cup V1Verdicts]

FileRecords ==
    [source : [by : Sides, units : Nat], binary : [by : Sides, nature : Natures],
     output : [by : Sides, expected : BOOLEAN]]

TypeInv ==
    /\ version \in {"v1", "v2", "v3"} /\ program \in [Clients -> Natures]
    /\ client \in [Clients -> ClientRecords]
    /\ conn \in [Conns -> ConnRecords]
    /\ thread \in [AllThreads -> ThreadRecords]
    /\ file \in [AllThreads -> FileRecords]
    /\ errors \in Seq(Conns)
    /\ head \in Sides /\ tail \in Sides /\ next \in [Conns -> Sides]

\* The connections a client has still to make.
Ahead(c) ==
    c[2] > client[c[1]].round \/ (c[2] = client[c[1]].round /\ client[c[1]].step = "connect")

AheadInv == \A c \in Conns : Ahead(c) => conn[c].server = "none"

Unread(c) ==
    conn[c].reply = NoReply /\ conn[c].taken = 0 /\ conn[c].server_error # "seen"

Outside(c) == conn[c].server \in {"none", "waiting"}

\* Nobody has touched a connection that is not accepted, and one thread has an
\* accepted one, which it has not answered.
HoldInv ==
    /\ \A c \in Conns : Outside(c) => Unread(c)
    /\ \A t, u \in AllThreads : thread[t].sock = thread[u].sock /\ thread[t].sock # NoConn => t = u
    /\ \A t \in AllThreads :
          LET c == thread[t].sock IN
          c # NoConn => /\ ~ Outside(c) /\ conn[c].reply = NoReply
                        /\ thread[t].at \in {"read", "recv_size", "enqueue"} => Unread(c)

\* A node of the list, or of what is left of it.
Listed(c) == c = head \/ c = tail \/ next[c] # NULL \/ \E n \in Nodes : next[n] = c

\* The list by itself: nodes have one predecessor, and the first has none.
Linked ==
    /\ head = NULL <=> tail = NULL
    /\ tail # NULL => next[tail] = NULL
    /\ \A m, n \in Nodes : next[m] = next[n] /\ next[m] # NULL => m = n
    /\ head # NULL => \A n \in Nodes : next[n] # head

\* Nobody has read from a connection that is listed, and no thread has it.
ListInv ==
    /\ Linked
    /\ \A c \in Conns : Listed(c) =>
          /\ ~ Outside(c) /\ Unread(c)
          /\ \A t \in AllThreads : thread[t].sock # c

\* The steps of each version's threads, and at which they have a socket.
StepOk(t) ==
    /\ thread[t].sock = NoConn <=> thread[t].at \in {"accept", "free", "lock", "asleep"}
    /\ version = "v1" =>
          thread[t].at \in IF t = Main
                           THEN {"accept", "read", "compile", "run", "diff", "answer"}
                           ELSE {"free"}
    /\ version = "v2" =>
          thread[t].at \in IF t = Main THEN {"accept"}
                           ELSE {"free", "read", "compile_task", "run_task", "diff_task"}
    /\ version = "v3" =>
          thread[t].at \in IF t = Main THEN {"accept", "enqueue"}
                           ELSE {"lock", "asleep", "recv_size", "recv_file", "compile_task",
                                 "run_task", "diff_task"}

\* What a thread of versions 2 and 3 makes of its files.
FilesOk(t) ==
    LET c == thread[t].sock IN
    /\ thread[t].at = "recv_file" =>
          file[t].source.by = c /\ conn[c].taken = file[t].source.units + 1
    /\ thread[t].at = "compile_task" =>
          file[t].source.by = c /\ (Whole(c) => file[t].source.units = Units[c[1]])
    /\ thread[t].at = "run_task" =>
          /\ file[t].binary.nature # "broken"
          /\ Whole(c) => file[t].binary.nature = program[c[1]]
    /\ thread[t].at = "diff_task" /\ shell = "bash" /\ Whole(c) =>
          /\ program[c[1]] \in {"right", "wrong"}
          /\ file[t].output.expected <=> program[c[1]] = "right"

\* What version 3 goes on with is whole, or will not be answered, or nobody reads
\* the answer.
CutOk(t) ==
    LET c == thread[t].sock IN
    version = "v3" /\ thread[t].at \in {"compile_task", "run_task", "diff_task"} =>
        Whole(c) \/ conn[c].client = "closed" \/ conn[c].server_error = "seen"

\* Whose texts version 1 has in its files.
TextsOk(t) ==
    LET c == thread[t].sock IN
    /\ thread[t].at = "compile" => file[t].source.by = c
    /\ thread[t].at = "run" => file[t].binary.by = c
    /\ thread[t].at = "diff" => file[t].output.by = c
    /\ thread[t].at = "answer" =>
          /\ thread[t].verdict \in V1Verdicts
          /\ thread[t].verdict \in {"PASS", "OUTPUT ERROR"} => file[t].output.by = c
          /\ thread[t].verdict = "COMPILATION ERROR" => errors # <<>> /\ Head(errors) = c

Own(t) == StepOk(t) /\ FilesOk(t) /\ CutOk(t) /\ TextsOk(t)

\* An answer is what the properties say of it.
AnswerOk(c) ==
    LET reply == conn[c].reply IN
    /\ version \in {"v2", "v3"} /\ shell = "bash" /\ Whole(c)
          => reply.verdict = VerdictOf(program[c[1]])
    /\ version = "v1" =>
          /\ reply.verdict \in {"PASS", "OUTPUT ERROR"} => reply.text = <<c>>
          /\ reply.verdict = "COMPILATION ERROR" => Head(reply.text) = c
    /\ version = "v3" => Whole(c) \/ conn[c].client = "closed"

OldInv ==
    /\ TypeInv /\ AheadInv /\ HoldInv /\ ListInv
    /\ \A t \in AllThreads : Own(t)
    /\ \A c \in Conns : conn[c].reply # NoReply => AnswerOk(c)

-----------------------------------------------------------------------------
(* The server's calls on a connection                                      *)

LEMMA NoConnIsNone == NoConn \notin Conns /\ NULL = NoConn /\ Nodes = Conns
BY OldGradersAssumption, LinkedQueueAssumption

LEMMA ConnParts ==
    ASSUME NEW c \in Conns
    PROVE  c[1] \in Clients /\ c[2] \in Nat /\ Units[c[1]] \in Nat \ {0}
BY ClientAssumption DEF Conns

\* What no call on a connection changes.
SameEnds(r, s) ==
    /\ r \in ConnRecords /\ r.client = s.client /\ r.sent = s.sent
    /\ s.server_error = "seen" => r.server_error = "seen"

LEMMA AcceptedIs ==
    ASSUME NEW c \in Conns, conn[c] \in ConnRecords
    PROVE  /\ SameEnds(Accepted(c), conn[c])
           /\ Accepted(c).server = "open" /\ Accepted(c).taken = conn[c].taken
           /\ Accepted(c).reply = conn[c].reply
           /\ Accepted(c).server_error = conn[c].server_error
BY DEF Accepted, ConnRecords, SameEnds

LEMMA TakenIs ==
    ASSUME NEW c \in Conns, conn[c] \in ConnRecords, NEW n \in Nat
    PROVE  /\ SameEnds(Taken(c, n), conn[c])
           /\ Taken(c, n).server = conn[c].server /\ Taken(c, n).taken = conn[c].taken + n
           /\ Taken(c, n).reply = conn[c].reply
<1>1. conn[c].taken + n \in Nat
  BY DEF ConnRecords
<1>2. \A m \in Nat : /\ [conn[c] EXCEPT !.taken = m] \in ConnRecords
                     /\ [conn[c] EXCEPT !.taken = m].taken = m
                     /\ [conn[c] EXCEPT !.taken = m].client = conn[c].client
                     /\ [conn[c] EXCEPT !.taken = m].sent = conn[c].sent
                     /\ [conn[c] EXCEPT !.taken = m].server = conn[c].server
                     /\ [conn[c] EXCEPT !.taken = m].server_error = conn[c].server_error
                     /\ [conn[c] EXCEPT !.taken = m].reply = conn[c].reply
  BY DEF ConnRecords
<1>3. Taken(c, n) = [conn[c] EXCEPT !.taken = conn[c].taken + n]
  BY DEF Taken
<1> QED
  BY <1>1, <1>2, <1>3 DEF SameEnds

LEMMA FailedIs ==
    ASSUME NEW c \in Conns, conn[c] \in ConnRecords
    PROVE  /\ SameEnds(Failed(c), conn[c])
           /\ Failed(c).server = conn[c].server /\ Failed(c).taken = conn[c].taken
           /\ Failed(c).reply = conn[c].reply /\ Failed(c).server_error = "seen"
BY DEF Failed, ConnRecords, SameEnds

LEMMA ClosedIs ==
    ASSUME NEW r \in ConnRecords
    PROVE  /\ SameEnds(Closed(r), r)
           /\ Closed(r).server = "closed" /\ Closed(r).taken = r.taken
           /\ Closed(r).reply = r.reply /\ Closed(r).server_error = r.server_error
BY DEF Closed, ConnRecords, SameEnds

LEMMA WrittenIs ==
    ASSUME NEW c \in Conns, conn[c] \in ConnRecords, NEW reply \in Replies
    PROVE  /\ SameEnds(Written(c, reply), conn[c])
           /\ Written(c, reply).server = conn[c].server
           /\ Written(c, reply).taken = conn[c].taken
           /\ Written(c, reply).reply \in {reply, conn[c].reply}
           /\ Written(c, reply).reply = reply \/ Written(c, reply).server_error = "seen"
<1>1. CASE conn[c].server_error = "pending"
  BY <1>1, FailedIs DEF Written
<1>2. CASE conn[c].server_error # "pending"
  BY <1>2 DEF Written, ConnRecords, SameEnds
<1> QED
  BY <1>1, <1>2

\* The end of the server closes its ends, and changes nothing that was taken or
\* answered.
LEMMA ServerEndsIs ==
    ASSUME TypeInv, ServerEnds
    PROVE  /\ conn' \in [Conns -> ConnRecords]
           /\ \A c \in Conns :
                 /\ SameEnds(conn'[c], conn[c])
                 /\ conn'[c].taken = conn[c].taken /\ conn'[c].reply = conn[c].reply
                 /\ conn'[c].server_error = conn[c].server_error
                 /\ conn[c].server = "none" <=> conn'[c].server = "none"
                 /\ conn'[c].server \notin {"open", "waiting"}
<1> DEFINE reset(c) == [conn[c] EXCEPT !.server = "closed", !.client_error = "pending"]
<1>1. conn' = [c \in Conns |->
                  IF conn[c].server = "waiting" THEN reset(c)
                  ELSE IF conn[c].server = "open" THEN Closed(conn[c]) ELSE conn[c]]
  BY DEF ServerEnds
<1>2. ASSUME NEW c \in Conns
      PROVE  /\ SameEnds(conn'[c], conn[c])
             /\ conn'[c].taken = conn[c].taken /\ conn'[c].reply = conn[c].reply
             /\ conn'[c].server_error = conn[c].server_error
             /\ conn[c].server = "none" <=> conn'[c].server = "none"
             /\ conn'[c].server \notin {"open", "waiting"}
  <2>1. conn[c] \in ConnRecords
    BY DEF TypeInv
  <2>2. /\ SameEnds(reset(c), conn[c]) /\ reset(c).server = "closed"
        /\ reset(c).taken = conn[c].taken /\ reset(c).reply = conn[c].reply
        /\ reset(c).server_error = conn[c].server_error
    BY <2>1 DEF ConnRecords, SameEnds
  <2>3. SameEnds(conn[c], conn[c]) /\ conn[c].server \in {"none", "waiting", "open", "closed"}
    BY <2>1 DEF ConnRecords, SameEnds
  <2> HIDE DEF reset
  <2> QED
    BY <1>1, <2>1, <2>2, <2>3, ClosedIs
<1>3. conn' \in [Conns -> ConnRecords]
  BY <1>1, <1>2 DEF SameEnds
<1> QED
  BY <1>2, <1>3

-----------------------------------------------------------------------------
(* The clients                                                             *)

\* What a client's step makes of a connection.
Kept(c) ==
    /\ conn'[c] \in ConnRecords
    /\ conn'[c].server = conn[c].server
    /\ conn'[c].taken = conn[c].taken /\ conn'[c].reply = conn[c].reply
    /\ conn[c].client = "closed" => conn'[c].client = "closed"
    /\ conn[c].server_error = "seen" <=> conn'[c].server_error = "seen"

\* ... and of its record.
GoesOn(k) ==
    \/ client' = client
    \/ \E r \in ClientRecords :
          /\ client' = [client EXCEPT ![k] = r]
          /\ \/ r.round = client[k].round /\ r.step # "connect"
             \/ r.round = client[k].round + 1

LEMMA LeaveIs ==
    ASSUME TypeInv, NEW k \in Clients, Leave(k)
    PROVE  /\ GoesOn(k)
           /\ \A c \in Conns : Kept(c)
           /\ conn' \in [Conns -> ConnRecords]
<1>1. GoesOn(k)
  <2>1. client[k] \in ClientRecords /\ client = [j \in Clients |-> client[j]]
    BY DEF TypeInv, ClientRecords
  <2>2. PICK r : r = [client[k] EXCEPT !.step = "gone"]
    OBVIOUS
  <2>3. r \in ClientRecords /\ r.round = client[k].round /\ r.step = "gone"
    BY <2>1, <2>2 DEF ClientRecords
  <2>4. client' = [client EXCEPT ![k] = r]
    BY <2>1, <2>2 DEF Leave
  <2> QED
    BY <2>3, <2>4 DEF GoesOn
<1>2. ASSUME NEW c \in Conns PROVE Kept(c)
  <2>1. conn[c] \in ConnRecords
    BY DEF TypeInv
  <2>2. \/ conn'[c] = conn[c]
        \/ conn'[c] = [conn[c] EXCEPT !.client = "closed"]
    BY DEF Leave
  <2> QED
    BY <2>1, <2>2 DEF Kept, ConnRecords
<1>3. conn' \in [Conns -> ConnRecords]
  BY <1>2 DEF Leave, Kept
<1> QED
  BY <1>1, <1>2, <1>3

LEMMA NextRoundIs ==
    ASSUME TypeInv, NEW k \in Clients, NEW counted \in ClientRecords,
           counted.round = client[k].round, NextRound(k, counted)
    PROVE  GoesOn(k)
<1>1. PICK r : r = [counted EXCEPT !.step = "connect", !.round = @ + 1]
  OBVIOUS
<1>2. PICK n : n = counted.round + 1
  OBVIOUS
<1>3. n \in Nat /\ r = [counted EXCEPT !.step = "connect", !.round = n]
  BY <1>1, <1>2 DEF ClientRecords
<1>5. r \in ClientRecords /\ r.round = n
  BY <1>3 DEF ClientRecords
<1>4. client' = [client EXCEPT ![k] = r]
  BY <1>1 DEF NextRound
<1> QED
  BY <1>2, <1>4, <1>5 DEF GoesOn

\* What a step of a client's loop makes of its record: it goes on in its round or
\* to the next.
LEMMA ClientGoesOn ==
    ASSUME TypeInv, NEW k \in Clients,
           \/ PlainRound(k) \/ SendFile(k) \/ Kill(k)
    PROVE  GoesOn(k)
<1>1. client[k] \in ClientRecords /\ client = [j \in Clients |-> client[j]]
  BY DEF TypeInv, ClientRecords
<1>2. ASSUME NEW step \in {"send", "read"}, client' = [client EXCEPT ![k].step = step]
      PROVE  GoesOn(k)
  <2>1. PICK r : r = [client[k] EXCEPT !.step = step]
    OBVIOUS
  <2>2. r \in ClientRecords /\ r.round = client[k].round /\ r.step = step
    BY <1>1, <2>1 DEF ClientRecords
  <2>3. client' = [client EXCEPT ![k] = r]
    BY <1>1, <1>2, <2>1
  <2> QED
    BY <2>2, <2>3 DEF GoesOn
<1>3. CASE ConnectFails(k) \/ Returns(k) \/ BrokenPipe(k) \/ Kill(k)
  BY <1>3, LeaveIs DEF ConnectFails, Returns, BrokenPipe, Kill
<1>4. CASE Connect(k) \/ Write(k) \/ WriteFails(k) \/ GivesUp(k)
  BY <1>2, <1>4 DEF Connect, Write, WriteFails, GivesUp
<1>5. CASE ReadResponse(k)
  <2>1. PICK counted : counted = [client[k] EXCEPT !.successfulRes = @ + 1]
    OBVIOUS
  <2>2. client[k].successfulRes \in Nat
    BY <1>1 DEF ClientRecords
  <2>3. counted \in ClientRecords /\ counted.round = client[k].round
    BY <1>1, <2>1, <2>2 DEF ClientRecords
  <2> QED
    BY <1>5, <2>1, <2>3, NextRoundIs DEF ReadResponse
<1>6. CASE ReadTimesOut(k)
  <2>1. PICK counted : counted = [client[k] EXCEPT !.numOfTimeouts = @ + 1]
    OBVIOUS
  <2>2. client[k].numOfTimeouts \in Nat
    BY <1>1 DEF ClientRecords
  <2>3. counted \in ClientRecords /\ counted.round = client[k].round
    BY <1>1, <2>1, <2>2 DEF ClientRecords
  <2> QED
    BY <1>6, <2>1, <2>3, NextRoundIs DEF ReadTimesOut
<1>7. CASE ReadFails(k)
  <2>1. PICK r : r = [client[k] EXCEPT !.step = "connect", !.round = @ + 1,
                                       !.numErrResponses = @ + 1]
    OBVIOUS
  <2>2. client[k].round + 1 \in Nat /\ client[k].numErrResponses + 1 \in Nat
    BY <1>1 DEF ClientRecords
  <2>3. \A m, n \in Nat :
           LET q == [client[k] EXCEPT !.step = "connect", !.round = m, !.numErrResponses = n]
           IN  q \in ClientRecords /\ q.round = m
    BY <1>1 DEF ClientRecords
  <2>4. r \in ClientRecords /\ r.round = client[k].round + 1
    BY <2>1, <2>2, <2>3
  <2>5. client' = [client EXCEPT ![k] = r]
    BY <1>1, <1>7, <2>1 DEF ReadFails
  <2> QED
    BY <2>4, <2>5 DEF GoesOn
<1> QED
  BY <1>3, <1>4, <1>5, <1>6, <1>7 DEF PlainRound, SendFile

\* A connection that is made.
Made(c) ==
    /\ conn'[c] \in ConnRecords
    /\ conn[c].server = "none" /\ conn'[c].server = "waiting"
    /\ conn'[c].taken = conn[c].taken /\ conn'[c].reply = conn[c].reply
    /\ conn'[c].server_error = conn[c].server_error

\* Their connections stay what they are to the server, but for the one that is made.
LEMMA ClientKeeps ==
    ASSUME TypeInv, AheadInv, NEW k \in Clients,
           \/ PlainRound(k) \/ SendFile(k) \/ Kill(k)
    PROVE  /\ conn' \in [Conns -> ConnRecords]
           /\ \A c \in Conns : Kept(c) \/ (Connect(k) /\ c = Current(k) /\ Made(c))
<1>1. conn = [c \in Conns |-> conn[c]] /\ \A c \in Conns : conn[c] \in ConnRecords
  BY DEF TypeInv
<1>2. CASE ConnectFails(k) \/ Returns(k) \/ BrokenPipe(k) \/ Kill(k)
  BY <1>2, LeaveIs DEF ConnectFails, Returns, BrokenPipe, Kill
<1>3. ASSUME NEW c \in Conns, conn'[c] = conn[c] PROVE Kept(c)
  BY <1>1, <1>3 DEF Kept
<1>4. ASSUME Connect(k), NEW c \in Conns PROVE Kept(c) \/ (c = Current(k) /\ Made(c))
  <2>1. CASE c = Current(k)
    <3>1. conn'[c] = [[conn[c] EXCEPT !.client = "open"] EXCEPT !.server = "waiting"]
      BY <1>1, <1>4, <2>1 DEF Connect
    <3>2. c[1] = k /\ c[2] = client[k].round
      BY <2>1 DEF Current
    <3>3. conn[c].server = "none"
      BY <1>4, <3>2 DEF AheadInv, Ahead, Connect
    <3> QED
      BY <1>1, <2>1, <3>1, <3>3 DEF Made, ConnRecords
  <2>2. CASE c # Current(k)
    BY <1>1, <1>3, <1>4, <2>2 DEF Connect
  <2> QED
    BY <2>1, <2>2
<1>5. ASSUME Write(k) \/ WriteFails(k) \/ ReadFails(k) \/ ReadResponse(k) \/ ReadTimesOut(k),
             NEW c \in Conns
      PROVE  Kept(c)
  <2>1. CASE c # Current(k)
    <3>1. conn'[c] = conn[c]
      BY <1>1, <1>5, <2>1 DEF Write, WriteFails, ReadFails, ReadResponse, ReadTimesOut,
         NextRound
    <3> QED
      BY <1>3, <3>1
  <2>2. CASE c = Current(k)
    <3>1. CASE Write(k)
      <4>1. PICK n : n = conn[c].sent + 1
        OBVIOUS
      <4>2. PICK e \in {"none", "pending"} :
               conn' = [conn EXCEPT ![c].sent = n, ![c].client_error = e]
        BY <2>2, <3>1, <4>1 DEF Write, Connection
      <4>3. n \in Nat
        BY <1>1, <4>1 DEF ConnRecords
      <4>4. conn'[c] = [conn[c] EXCEPT !.sent = n, !.client_error = e]
        BY <1>1, <4>2
      <4> QED
        BY <1>1, <4>3, <4>4 DEF Kept, ConnRecords
    <3>2. CASE WriteFails(k) \/ ReadFails(k)
      <4>1. conn'[c] = [conn[c] EXCEPT !.client_error = "seen"]
        BY <1>1, <2>2, <3>2 DEF WriteFails, ReadFails
      <4> QED
        BY <1>1, <4>1 DEF Kept, ConnRecords
    <3>3. CASE ReadResponse(k) \/ ReadTimesOut(k)
      <4>1. conn'[c] = [conn[c] EXCEPT !.client = "closed"]
        BY <1>1, <2>2, <3>3 DEF ReadResponse, ReadTimesOut, NextRound
      <4> QED
        BY <1>1, <4>1 DEF Kept, ConnRecords
    <3> QED
      BY <1>5, <3>1, <3>2, <3>3
  <2> QED
    BY <2>1, <2>2
<1>7. CASE GivesUp(k)
  BY <1>1, <1>3, <1>7 DEF GivesUp
<1>6. CASE \/ Connect(k) \/ Write(k) \/ WriteFails(k) \/ ReadFails(k) \/ ReadResponse(k)
           \/ ReadTimesOut(k)
  <2>1. conn' = [c \in Conns |-> conn'[c]]
    BY <1>1, <1>6 DEF Connect, Write, WriteFails, ReadFails, ReadResponse, ReadTimesOut,
       NextRound
  <2>2. \A c \in Conns : Kept(c) \/ (Connect(k) /\ c = Current(k) /\ Made(c))
    BY <1>4, <1>5, <1>6
  <2>3. \A c \in Conns : conn'[c] \in ConnRecords
    BY <2>2 DEF Kept, Made
  <2> QED
    BY <2>1, <2>2, <2>3
<1> QED
  BY <1>2, <1>6, <1>7 DEF PlainRound, SendFile

LEMMA BreakIs ==
    ASSUME TypeInv, NEW d \in Conns, Break(d)
    PROVE  conn' \in [Conns -> ConnRecords] /\ \A c \in Conns : Kept(c)
<1>1. conn = [c \in Conns |-> conn[c]] /\ \A c \in Conns : conn[c] \in ConnRecords
  BY DEF TypeInv
<1>2. /\ conn' = [c \in Conns |-> conn'[c]]
      /\ \A c \in Conns : c # d => conn'[c] = conn[c]
      /\ conn'[d] = [conn[d] EXCEPT !.client_error = "pending", !.server_error = "pending"]
      /\ conn[d].server_error = "none"
  BY <1>1 DEF Break
<1>3. Kept(d)
  <2>1. PICK q \in ConnRecords : q = conn[d]
    BY <1>1
  <2>2. PICK r : r = [q EXCEPT !.client_error = "pending", !.server_error = "pending"]
    OBVIOUS
  <2>3. r \in ConnRecords
    BY ONLY <2>2, q \in ConnRecords DEF ConnRecords
  <2>4. r.server = q.server /\ r.taken = q.taken /\ r.reply = q.reply /\ r.client = q.client
    BY ONLY <2>2, q \in ConnRecords DEF ConnRecords
  <2>5. conn'[d] = r
    BY <1>2, <2>1, <2>2
  <2> QED
    BY ONLY <1>2, <2>1, <2>3, <2>4, <2>5 DEF Kept
<1>4. \A c \in Conns : Kept(c)
  BY <1>1, <1>2, <1>3 DEF Kept
<1> QED
  BY <1>2, <1>4 DEF Kept

\* The steps of the clients together.
LEMMA ClientsNextIs ==
    ASSUME TypeInv, AheadInv, ClientsNext
    PROVE  /\ conn' \in [Conns -> ConnRecords] /\ client' \in [Clients -> ClientRecords]
           /\ \A c \in Conns : Kept(c) \/ Made(c)
           /\ \A c \in Conns : Ahead(c)' => Ahead(c) /\ Kept(c)
<1>1. client \in [Clients -> ClientRecords]
  BY DEF TypeInv
<1>2. ASSUME NEW d \in Conns, Break(d)
      PROVE  /\ conn' \in [Conns -> ConnRecords] /\ client' = client
             /\ \A c \in Conns : Kept(c)
  BY <1>2, BreakIs DEF Break
<1>3. ASSUME NEW k \in Clients, PlainRound(k) \/ SendFile(k) \/ Kill(k)
      PROVE  /\ conn' \in [Conns -> ConnRecords] /\ client' \in [Clients -> ClientRecords]
             /\ \A c \in Conns : Kept(c) \/ Made(c)
             /\ \A c \in Conns : Ahead(c)' => Ahead(c) /\ Kept(c)
  <2>1. GoesOn(k)
    BY <1>3, ClientGoesOn
  <2>2. /\ conn' \in [Conns -> ConnRecords]
        /\ \A c \in Conns : Kept(c) \/ (Connect(k) /\ c = Current(k) /\ Made(c))
    BY <1>3, ClientKeeps
  <2>3. client' \in [Clients -> ClientRecords]
    BY <1>1, <2>1 DEF GoesOn
  <2>4. ASSUME NEW c \in Conns, Ahead(c)' PROVE Ahead(c)
    <3>1. c[1] \in Clients /\ c[2] \in Nat /\ client[c[1]].round \in Nat
      BY <1>1, ConnParts DEF ClientRecords
    <3>2. CASE c[1] # k \/ client' = client
      <4>1. client'[c[1]] = client[c[1]]
        BY <1>1, <2>1, <3>1, <3>2 DEF GoesOn
      <4> QED
        BY <2>4, <4>1 DEF Ahead
    <3>3. CASE c[1] = k /\ client' # client
      <4>1. PICK r \in ClientRecords :
               /\ client'[k] = r
               /\ \/ r.round = client[k].round /\ r.step # "connect"
                  \/ r.round = client[k].round + 1
        BY <1>1, <2>1, <3>3 DEF GoesOn
      <4>2. c[2] > r.round \/ (c[2] = r.round /\ r.step = "connect")
        BY <2>4, <3>3, <4>1 DEF Ahead
      <4> QED
        BY <3>1, <3>3, <4>1, <4>2 DEF Ahead
    <3> QED
      BY <3>2, <3>3
  <2>5. ASSUME Connect(k), NEW c \in Conns, c = Current(k) PROVE ~ Ahead(c)'
    <3>1. c[1] = k /\ c[2] = client[k].round
      BY <2>5 DEF Current
    <3>2. client' = [client EXCEPT ![k].step = "send"] /\ client[k] \in ClientRecords
      BY <1>1, <2>5 DEF Connect
    <3>3. client'[k].step = "send" /\ client'[k].round = client[k].round
      BY <1>1, <3>2 DEF ClientRecords
    <3>4. c[2] \in Nat
      BY ConnParts
    <3> QED
      BY <3>1, <3>3, <3>4 DEF Ahead
  <2>6. \A c \in Conns : Ahead(c)' => Kept(c)
    BY <2>2, <2>5
  <2> QED
    BY <2>2, <2>3, <2>4, <2>6
<1>4. (\E k \in Clients : PlainRound(k) \/ SendFile(k) \/ Kill(k)) \/ (\E d \in Conns : Break(d))
  BY DEF ClientsNext, ClientStep, V1Client, V2Client, V3Client, PlainRound, SendFile
<1>5. ASSUME NEW d \in Conns, Break(d)
      PROVE  \A c \in Conns : Ahead(c)' => Ahead(c) /\ Kept(c)
  BY <1>2, <1>5 DEF Ahead
<1> QED
  BY <1>1, <1>2, <1>3, <1>4, <1>5

-----------------------------------------------------------------------------
(* What a step leaves alone                                                *)

\* A thread keeps what it has in its files, whatever the others do, as long as its
\* connection keeps what was taken.
LEMMA OwnRests ==
    ASSUME NEW t \in AllThreads, Own(t),
           UNCHANGED <<version, program, shell>>,
           thread'[t] = thread[t],
           \/ file'[t] = file[t]
           \/ thread[t].at = "run_task" /\ file'[t].binary = file[t].binary,
           errors' = errors \/ thread[t].at # "answer",
           thread[t].sock # NoConn =>
              LET c == thread[t].sock IN
              /\ conn'[c].taken = conn[c].taken
              /\ conn[c].client = "closed" => conn'[c].client = "closed"
              /\ conn[c].server_error = "seen" => conn'[c].server_error = "seen"
    PROVE  Own(t)'
<1>1. /\ StepOk(t)'
      /\ thread[t].sock = NoConn => thread[t].at \in {"accept", "free", "lock", "asleep"}
  BY DEF Own, StepOk
<1>2. CASE thread[t].sock = NoConn
  BY <1>1, <1>2 DEF Own, FilesOk, CutOk, TextsOk
<1>3. CASE thread[t].sock # NoConn
  <2> DEFINE c == thread[t].sock
  <2>1. Whole(c)' <=> Whole(c)
    BY <1>3 DEF Whole, Stream
  <2>2. FilesOk(t)'
    BY <1>3, <2>1 DEF Own, FilesOk
  <2>3. CutOk(t)'
    BY <1>3, <2>1 DEF Own, CutOk
  <2>4. TextsOk(t)'
    BY <1>3 DEF Own, TextsOk
  <2> QED
    BY <1>1, <2>2, <2>3, <2>4 DEF Own
<1> QED
  BY <1>2, <1>3

\* So does an answer.
LEMMA AnswerRests ==
    ASSUME NEW c \in Conns, AnswerOk(c), UNCHANGED <<version, program, shell>>,
           conn'[c].taken = conn[c].taken, conn'[c].reply = conn[c].reply,
           conn[c].client = "closed" => conn'[c].client = "closed"
    PROVE  AnswerOk(c)'
<1>1. Whole(c)' <=> Whole(c)
  BY DEF Whole, Stream
<1>2. VerdictOf(program[c[1]])' = VerdictOf(program[c[1]])
  BY DEF VerdictOf
<1> QED
  BY <1>1, <1>2 DEF AnswerOk

\* The clients' steps and the invariant.
LEMMA ClientsInv ==
    ASSUME OldInv, ClientsNext
    PROVE  OldInv'
<1>1. /\ UNCHANGED <<version, program, shell, thread, file, errors>>
      /\ UNCHANGED <<head, tail, next, pool_size>>
  BY DEF ClientsNext, poolVars, linkedQueueVars
<1>2. /\ conn' \in [Conns -> ConnRecords] /\ client' \in [Clients -> ClientRecords]
      /\ \A c \in Conns : Kept(c) \/ Made(c)
      /\ \A c \in Conns : Ahead(c)' => Ahead(c) /\ Kept(c)
  BY ClientsNextIs DEF OldInv
<1>3. TypeInv'
  BY <1>1, <1>2 DEF OldInv, TypeInv
<1>4. AheadInv'
  BY <1>2 DEF OldInv, AheadInv, Kept
<1>5. \A c \in Conns : /\ ~ Outside(c) => Kept(c)
                       /\ Outside(c)' <=> Outside(c)
                       /\ conn'[c].taken = conn[c].taken /\ conn'[c].reply = conn[c].reply
                       /\ conn'[c].server_error = "seen" <=> conn[c].server_error = "seen"
  BY <1>2 DEF Kept, Made, Outside
<1>6. \A t \in AllThreads : thread[t].sock \in Conns \cup {NoConn}
  BY DEF OldInv, TypeInv, ThreadRecords, Sides
<1>7. HoldInv'
  BY <1>1, <1>5, <1>6 DEF OldInv, HoldInv, Unread, Outside
<1>8. ListInv'
  BY <1>1, <1>5 DEF OldInv, ListInv, Linked, Listed, Unread, Outside
<1>9. ASSUME NEW t \in AllThreads PROVE Own(t)'
  <2>1. thread[t].sock # NoConn => Kept(thread[t].sock)
    BY <1>5, <1>6 DEF OldInv, HoldInv
  <2>2. Own(t)
    BY DEF OldInv
  <2> QED
    BY <1>1, <2>1, <2>2, OwnRests DEF Kept
<1>10. ASSUME NEW c \in Conns, conn'[c].reply # NoReply PROVE AnswerOk(c)'
  <2>1. conn[c].reply # NoReply
    BY <1>5, <1>10
  <2>2. Kept(c) /\ AnswerOk(c)
    BY <1>5, <2>1 DEF OldInv, HoldInv, Unread
  <2> QED
    BY <1>1, <2>2, AnswerRests DEF Kept
<1> QED
  BY <1>3, <1>4, <1>7, <1>8, <1>9, <1>10 DEF OldInv

-----------------------------------------------------------------------------
(* The shapes of the server's steps                                        *)

\* What a thread's step leaves to the others.
Frame(t) ==
    /\ UNCHANGED <<version, client, program, shell>>
    /\ thread' \in [AllThreads -> ThreadRecords] /\ file' \in [AllThreads -> FileRecords]
    /\ conn' \in [Conns -> ConnRecords]
    /\ errors' \in Seq(Conns) /\ (errors' = errors \/ (version = "v1" /\ t = Main))
    /\ \A u \in AllThreads : u # t => file'[u] = file[u]

\* It goes on with the connection it has.
Moves(t) ==
    /\ Frame(t) /\ UNCHANGED <<head, tail, next, pool_size>>
    /\ \A u \in AllThreads : u # t => thread'[u] = thread[u]
    /\ thread'[t].sock = thread[t].sock
    /\ thread'[t].at \notin {"read", "recv_size", "enqueue"}
    /\ \A c \in Conns :
          IF c = thread[t].sock
          THEN /\ SameEnds(conn'[c], conn[c]) /\ conn'[c].server = conn[c].server
               /\ conn'[c].reply = conn[c].reply
          ELSE conn'[c] = conn[c]
    /\ Own(t)'

\* It answers, and has none any more.
Answers(t) ==
    /\ thread[t].at # "enqueue"
    /\ Frame(t) /\ UNCHANGED <<head, tail, next, pool_size>>
    /\ \A u \in AllThreads : u # t => thread'[u] = thread[u]
    /\ thread[t].sock \in Conns /\ thread'[t].sock = NoConn
    /\ \A c \in Conns :
          IF c = thread[t].sock
          THEN /\ SameEnds(conn'[c], conn[c]) /\ conn'[c].taken = conn[c].taken
               /\ \/ conn'[c].server = conn[c].server /\ Left(c)'
                  \/ conn'[c].server = "closed" /\ ~ (Replied(c)' /\ Left(c)')
               /\ conn'[c].reply # NoReply \/ conn'[c].server_error = "seen"
               /\ conn'[c].reply # NoReply => AnswerOk(c)'
          ELSE conn'[c] = conn[c]
    /\ Own(t)'

\* The server ends.
Stops(t) ==
    /\ up' = FALSE
    /\ Frame(t) /\ UNCHANGED <<head, tail, next, pool_size>>
    /\ thread' = thread
    /\ \A c \in Conns :
          /\ SameEnds(conn'[c], conn[c])
          /\ conn'[c].taken = conn[c].taken /\ conn'[c].reply = conn[c].reply
          /\ conn'[c].server_error = conn[c].server_error
          /\ conn[c].server = "none" <=> conn'[c].server = "none"
          /\ conn'[c].server \notin {"open", "waiting"}
    /\ Own(t)'

\* It has a connection that was accepted ...
Accepts(t, d) ==
    /\ version = "v3" => t = Main
    /\ Frame(t) /\ UNCHANGED <<head, tail, next, pool_size>>
    /\ \A u \in AllThreads : u # t => thread'[u] = thread[u]
    /\ thread[t].sock = NoConn /\ thread'[t].sock = d
    /\ conn[d].server = "waiting" /\ conn'[d].server = "open"
    /\ conn'[d].taken = conn[d].taken /\ conn'[d].reply = conn[d].reply
    /\ conn'[d].server_error = conn[d].server_error
    /\ \A c \in Conns : c # d => conn'[c] = conn[c]
    /\ Own(t)'

\* ... or one from the list.
Dequeues(t) ==
    /\ version = "v3" /\ t \in Threads
    /\ pool_size # 0 /\ pool_size' = pool_size - 1
    /\ Frame(t) /\ conn' = conn
    /\ \A u \in AllThreads : u # t => thread'[u] = thread[u]
    /\ thread[t].sock = NoConn /\ Dequeue(thread'[t].sock)
    /\ Own(t)'

\* Main hands its connection to the list; another thread may wake.
Enqueues ==
    /\ version = "v3" /\ pool_size' = pool_size + 1
    /\ Frame(Main) /\ conn' = conn /\ file' = file
    /\ thread[Main].at = "enqueue" /\ thread[Main].sock \in Conns
    /\ thread'[Main].sock = NoConn /\ Enqueue(thread[Main].sock)
    /\ \A u \in Threads :
          \/ thread'[u] = thread[u]
          \/ thread[u].at = "asleep" /\ thread'[u].at = "lock" /\ thread'[u].sock = NoConn
    /\ \A t \in AllThreads : Own(t)'

\* Every step of a server has one of these shapes.
Shaped ==
    \/ \E t \in AllThreads :
          Moves(t) \/ Answers(t) \/ Stops(t) \/ Dequeues(t) \/ \E d \in Conns : Accepts(t, d)
    \/ Enqueues

\* A thread with a connection of its own keeps it through what happens to others.
LEMMA OthersOwn ==
    ASSUME OldInv, NEW t \in AllThreads, Frame(t), NEW u \in AllThreads, u # t,
           thread'[u] = thread[u],
           \A c \in Conns : c = thread[u].sock =>
              /\ conn'[c].taken = conn[c].taken
              /\ conn[c].client = "closed" => conn'[c].client = "closed"
              /\ conn[c].server_error = "seen" => conn'[c].server_error = "seen"
    PROVE  Own(u)'
<1>1. Own(u) /\ thread[u].sock \in Conns \cup {NoConn}
  BY DEF OldInv, TypeInv, ThreadRecords, Sides
<1>2. errors' = errors \/ thread[u].at # "answer"
  <2>1. version = "v1" /\ t = Main => thread[u].at = "free"
    BY <1>1 DEF Own, StepOk, AllThreads
  <2> QED
    BY <2>1 DEF Frame
<1> QED
  BY <1>1, <1>2, OwnRests DEF Frame

LEMMA FrameTypes ==
    ASSUME OldInv, NEW t \in AllThreads, Frame(t),
           head' \in Sides, tail' \in Sides, next' \in [Conns -> Sides],
           \A c \in Conns : conn[c].server = "none" => conn'[c].server = "none"
    PROVE  TypeInv' /\ AheadInv'
<1>1. TypeInv'
  BY DEF OldInv, TypeInv, Frame
<1>2. AheadInv'
  BY DEF OldInv, AheadInv, Ahead, Frame
<1> QED
  BY <1>1, <1>2

\* Threads have their own connections.
LEMMA SockTypes ==
    ASSUME OldInv
    PROVE  /\ \A t \in AllThreads : thread[t].sock \in Conns \cup {NoConn}
           /\ \A c \in Conns : conn[c] \in ConnRecords /\ SameEnds(conn[c], conn[c])
BY DEF OldInv, TypeInv, ThreadRecords, Sides, SameEnds

LEMMA MovesInv ==
    ASSUME OldInv, NEW t \in AllThreads, Moves(t)
    PROVE  OldInv'
<1> DEFINE d == thread[t].sock
<1>1. /\ Frame(t) /\ UNCHANGED <<head, tail, next, pool_size>>
      /\ \A u \in AllThreads : u # t => thread'[u] = thread[u]
      /\ thread'[t].sock = d /\ thread'[t].at \notin {"read", "recv_size", "enqueue"}
      /\ \A c \in Conns : c # d => conn'[c] = conn[c]
      /\ Own(t)'
  BY DEF Moves
<1>2. \A c \in Conns : /\ SameEnds(conn'[c], conn[c])
                       /\ conn'[c].server = conn[c].server /\ conn'[c].reply = conn[c].reply
  BY SockTypes DEF Moves
<1>3. TypeInv' /\ AheadInv'
  BY <1>1, <1>2, FrameTypes DEF OldInv, TypeInv
<1>4. \A u \in AllThreads : thread'[u].sock = thread[u].sock
  BY <1>1
<1>5. \A u \in AllThreads : u # t /\ thread[u].sock # NoConn => thread[u].sock # d
  BY DEF OldInv, HoldInv
<1>6. HoldInv'
  <2>1. ASSUME NEW c \in Conns, Outside(c)' PROVE Unread(c)'
    <3>1. Outside(c)
      BY <1>2, <2>1 DEF Outside
    <3>2. c # d
      BY <3>1, NoConnIsNone DEF OldInv, HoldInv
    <3> QED
      BY <1>1, <3>1, <3>2 DEF OldInv, HoldInv, Unread
  <2>2. ASSUME NEW u \in AllThreads, NEW c \in Conns, thread'[u].sock = c
        PROVE  /\ ~ Outside(c)' /\ conn'[c].reply = NoReply
               /\ thread'[u].at \in {"read", "recv_size", "enqueue"} => Unread(c)'
    <3>1. ~ Outside(c)' /\ conn'[c].reply = NoReply
      BY <1>2, <1>4, <2>2, NoConnIsNone DEF OldInv, HoldInv, Outside
    <3>2. u # t => conn'[c] = conn[c]
      BY <1>1, <1>4, <1>5, <2>2, NoConnIsNone
    <3> QED
      BY <1>1, <1>4, <2>2, <3>1, <3>2, NoConnIsNone DEF OldInv, HoldInv, Unread
  <2>3. \A u, v \in AllThreads :
           thread'[u].sock = thread'[v].sock /\ thread'[u].sock # NoConn => u = v
    BY <1>4 DEF OldInv, HoldInv
  <2> QED
    BY <1>4, <2>1, <2>2, <2>3, SockTypes DEF HoldInv
<1>7. ListInv'
  <2>1. ASSUME NEW c \in Conns, Listed(c)
        PROVE  ~ Outside(c)' /\ Unread(c)' /\ \A u \in AllThreads : thread'[u].sock # c
    <3>1. c # d
      BY <2>1 DEF OldInv, ListInv
    <3> QED
      BY <1>1, <1>4, <2>1, <3>1 DEF OldInv, ListInv, Outside, Unread
  <2>2. \A c \in Conns : Listed(c)' <=> Listed(c)
    BY <1>1 DEF Listed
  <2> QED
    BY <1>1, <2>1, <2>2 DEF OldInv, ListInv, Linked
<1>8. ASSUME NEW u \in AllThreads PROVE Own(u)'
  <2>1. CASE u = t
    BY <1>1, <2>1
  <2>2. CASE u # t
    <3>1. \A c \in Conns : c = thread[u].sock => conn'[c] = conn[c]
      BY <1>1, <1>5, <2>2, NoConnIsNone
    <3> QED
      BY <1>1, <2>2, <3>1, OthersOwn
  <2> QED
    BY <2>1, <2>2
<1>9. ASSUME NEW c \in Conns, conn'[c].reply # NoReply PROVE AnswerOk(c)'
  <2>1. conn[c].reply # NoReply /\ c # d
    BY <1>2, <1>9, NoConnIsNone DEF OldInv, HoldInv
  <2> QED
    BY <1>1, <2>1, AnswerRests DEF OldInv, Frame
<1> QED
  BY <1>3, <1>6, <1>7, <1>8, <1>9 DEF OldInv

LEMMA AnswersInv ==
    ASSUME OldInv, NEW t \in AllThreads, Answers(t)
    PROVE  OldInv'
<1>0. PICK d : d = thread[t].sock
  OBVIOUS
<1>1. /\ Frame(t) /\ UNCHANGED <<head, tail, next, pool_size>>
      /\ \A u \in AllThreads : u # t => thread'[u] = thread[u]
      /\ d = thread[t].sock /\ d \in Conns /\ thread'[t].sock = NoConn
      /\ \A c \in Conns : c # d => conn'[c] = conn[c]
      /\ conn'[d].server \in {conn[d].server, "closed"}
      /\ conn'[d].reply # NoReply => AnswerOk(d)'
      /\ Own(t)'
  BY <1>0 DEF Answers
<1>2. ~ Outside(d) /\ ~ Outside(d)' /\ \A c \in Conns : Listed(c) => c # d
  BY <1>1, NoConnIsNone DEF OldInv, HoldInv, ListInv, Outside
<1>3. TypeInv' /\ AheadInv'
  BY <1>1, <1>2, FrameTypes DEF OldInv, TypeInv, Outside
<1>4. \A u \in AllThreads : u # t => thread[u].sock # d
  BY <1>1, NoConnIsNone DEF OldInv, HoldInv
<1>5. HoldInv'
  <2>1. ASSUME NEW c \in Conns, Outside(c)' PROVE Unread(c)'
    <3>1. c # d
      BY <1>2, <2>1
    <3> QED
      BY <1>1, <2>1, <3>1 DEF OldInv, HoldInv, Unread, Outside
  <2>2. ASSUME NEW u \in AllThreads, NEW c \in Conns, thread'[u].sock = c
        PROVE  /\ ~ Outside(c)' /\ conn'[c].reply = NoReply
               /\ thread'[u].at \in {"read", "recv_size", "enqueue"} => Unread(c)'
    <3>1. u # t /\ thread'[u] = thread[u] /\ conn'[c] = conn[c]
      BY <1>1, <1>4, <2>2, NoConnIsNone
    <3> QED
      BY <2>2, <3>1, NoConnIsNone DEF OldInv, HoldInv, Unread, Outside
  <2>3. \A u, v \in AllThreads :
           thread'[u].sock = thread'[v].sock /\ thread'[u].sock # NoConn => u = v
    BY <1>1 DEF OldInv, HoldInv
  <2>4. \A u \in AllThreads : thread'[u].sock \in Conns \cup {NoConn}
    BY <1>1, SockTypes
  <2> QED
    BY <2>1, <2>2, <2>3, <2>4 DEF HoldInv
<1>6. ListInv'
  <2>1. ASSUME NEW c \in Conns, Listed(c)
        PROVE  ~ Outside(c)' /\ Unread(c)' /\ \A u \in AllThreads : thread'[u].sock # c
    BY <1>1, <1>2, <2>1, NoConnIsNone DEF OldInv, ListInv, Outside, Unread
  <2>2. \A c \in Conns : Listed(c)' <=> Listed(c)
    BY <1>1 DEF Listed
  <2> QED
    BY <1>1, <2>1, <2>2 DEF OldInv, ListInv, Linked
<1>7. ASSUME NEW u \in AllThreads PROVE Own(u)'
  <2>1. CASE u = t
    BY <1>1, <2>1
  <2>2. CASE u # t
    BY <1>1, <1>4, <2>2, OthersOwn
  <2> QED
    BY <2>1, <2>2
<1>8. ASSUME NEW c \in Conns, conn'[c].reply # NoReply PROVE AnswerOk(c)'
  <2>1. CASE c = d
    BY <1>1, <1>8, <2>1
  <2>2. CASE c # d
    BY <1>1, <1>8, <2>2, AnswerRests DEF OldInv, Frame
  <2> QED
    BY <2>1, <2>2
<1> QED
  BY <1>3, <1>5, <1>6, <1>7, <1>8 DEF OldInv

LEMMA StopsInv ==
    ASSUME OldInv, NEW t \in AllThreads, Stops(t)
    PROVE  OldInv'
<1>1. /\ Frame(t) /\ UNCHANGED <<head, tail, next, pool_size>>
      /\ thread' = thread
      /\ \A c \in Conns :
            /\ SameEnds(conn'[c], conn[c])
            /\ conn'[c].taken = conn[c].taken /\ conn'[c].reply = conn[c].reply
            /\ conn'[c].server_error = conn[c].server_error
            /\ conn[c].server = "none" <=> conn'[c].server = "none"
            /\ conn'[c].server \notin {"open", "waiting"}
      /\ Own(t)'
  BY DEF Stops
<1>2. TypeInv' /\ AheadInv'
  BY <1>1, FrameTypes DEF OldInv, TypeInv
<1>3. \A c \in Conns : Outside(c)' => Outside(c)
  BY <1>1 DEF Outside
<1>4. HoldInv'
  BY <1>1, <1>3, SockTypes DEF OldInv, HoldInv, Unread
<1>5. ListInv'
  BY <1>1, <1>3 DEF OldInv, ListInv, Linked, Listed, Unread
<1>6. ASSUME NEW u \in AllThreads PROVE Own(u)'
  <2>1. CASE u = t
    BY <1>1, <2>1
  <2>2. CASE u # t
    BY <1>1, <2>2, OthersOwn DEF SameEnds
  <2> QED
    BY <2>1, <2>2
<1>7. ASSUME NEW c \in Conns, conn'[c].reply # NoReply PROVE AnswerOk(c)'
  BY <1>1, <1>7, AnswerRests DEF OldInv, Frame, SameEnds
<1> QED
  BY <1>2, <1>4, <1>5, <1>6, <1>7 DEF OldInv

LEMMA AcceptsInv ==
    ASSUME OldInv, NEW t \in AllThreads, NEW d \in Conns, Accepts(t, d)
    PROVE  OldInv'
<1>1. /\ Frame(t) /\ UNCHANGED <<head, tail, next, pool_size>>
      /\ \A u \in AllThreads : u # t => thread'[u] = thread[u]
      /\ thread[t].sock = NoConn /\ thread'[t].sock = d
      /\ conn[d].server = "waiting" /\ conn'[d].server = "open"
      /\ conn'[d].taken = conn[d].taken /\ conn'[d].reply = conn[d].reply
      /\ conn'[d].server_error = conn[d].server_error
      /\ \A c \in Conns : c # d => conn'[c] = conn[c]
      /\ Own(t)'
  BY DEF Accepts
<1>2. Outside(d) /\ ~ Outside(d)' /\ Unread(d) /\ Unread(d)'
  BY <1>1 DEF Outside, OldInv, HoldInv, Unread
<1>3. TypeInv' /\ AheadInv'
  BY <1>1, FrameTypes DEF OldInv, TypeInv
<1>4. \A u \in AllThreads : thread[u].sock # d
  BY <1>2, NoConnIsNone DEF OldInv, HoldInv
<1>5. HoldInv'
  <2>1. ASSUME NEW c \in Conns, Outside(c)' PROVE Unread(c)'
    <3>1. c # d
      BY <1>2, <2>1
    <3> QED
      BY <1>1, <2>1, <3>1 DEF OldInv, HoldInv, Unread, Outside
  <2>2. ASSUME NEW u \in AllThreads, NEW c \in Conns, thread'[u].sock = c
        PROVE  /\ ~ Outside(c)' /\ conn'[c].reply = NoReply
               /\ thread'[u].at \in {"read", "recv_size", "enqueue"} => Unread(c)'
    <3>1. CASE u = t
      BY <1>1, <1>2, <2>2, <3>1 DEF Unread
    <3>2. CASE u # t
      <4>1. thread'[u] = thread[u] /\ conn'[c] = conn[c]
        BY <1>1, <1>4, <2>2, <3>2
      <4> QED
        BY <2>2, <4>1, NoConnIsNone DEF OldInv, HoldInv, Unread, Outside
    <3> QED
      BY <3>1, <3>2
  <2>3. \A u, v \in AllThreads :
           thread'[u].sock = thread'[v].sock /\ thread'[u].sock # NoConn => u = v
    BY <1>1, <1>4 DEF OldInv, HoldInv
  <2>4. \A u \in AllThreads : thread'[u].sock \in Conns \cup {NoConn}
    BY <1>1, SockTypes
  <2> QED
    BY <2>1, <2>2, <2>3, <2>4 DEF HoldInv
<1>6. ListInv'
  <2>1. ASSUME NEW c \in Conns, Listed(c)
        PROVE  ~ Outside(c)' /\ Unread(c)' /\ \A u \in AllThreads : thread'[u].sock # c
    <3>1. c # d
      BY <1>2, <2>1 DEF OldInv, ListInv
    <3> QED
      BY <1>1, <2>1, <3>1 DEF OldInv, ListInv, Outside, Unread
  <2>2. \A c \in Conns : Listed(c)' <=> Listed(c)
    BY <1>1 DEF Listed
  <2> QED
    BY <1>1, <2>1, <2>2 DEF OldInv, ListInv, Linked
<1>7. ASSUME NEW u \in AllThreads PROVE Own(u)'
  <2>1. CASE u = t
    BY <1>1, <2>1
  <2>2. CASE u # t
    BY <1>1, <1>4, <2>2, OthersOwn
  <2> QED
    BY <2>1, <2>2
<1>8. ASSUME NEW c \in Conns, conn'[c].reply # NoReply PROVE AnswerOk(c)'
  <2>1. c # d /\ conn'[c] = conn[c]
    BY <1>1, <1>2, <1>8 DEF Unread
  <2> QED
    BY <1>1, <1>8, <2>1, AnswerRests DEF OldInv, Frame
<1> QED
  BY <1>3, <1>5, <1>6, <1>7, <1>8 DEF OldInv

\* The first node leaves the list, ...
LEMMA DequeueKeepsLinked ==
    ASSUME TypeInv, Linked, NEW d, Dequeue(d)
    PROVE  /\ d \in Conns /\ d = head
           /\ head' \in Sides /\ tail' \in Sides /\ next' \in [Conns -> Sides]
           /\ Linked'
           /\ \A c \in Conns : Listed(c)' => Listed(c) /\ c # d
<1>1. /\ d = head /\ d \in Conns /\ NULL \notin Conns
      /\ head' = next[d] /\ tail' = IF next[d] = NULL THEN NULL ELSE tail
      /\ next' = [next EXCEPT ![d] = NULL]
  BY NoConnIsNone DEF Dequeue, TypeInv, Sides
<1>2. head \in Sides /\ tail \in Sides /\ next \in [Conns -> Sides] /\ NULL \in Sides
  BY NoConnIsNone DEF TypeInv, Sides
<1>3. next'[d] = NULL /\ \A n \in Conns : n # d => next'[n] = next[n]
  BY <1>1, <1>2
<1>4. /\ head = NULL <=> tail = NULL
      /\ tail # NULL => next[tail] = NULL
      /\ \A m, n \in Conns : next[m] = next[n] /\ next[m] # NULL => m = n
      /\ \A n \in Conns : next[n] # d
  BY <1>1, NoConnIsNone DEF Linked
<1>5. /\ head' = NULL <=> tail' = NULL
      /\ tail' # NULL => next'[tail'] = NULL
  BY <1>1, <1>2, <1>3, <1>4 DEF Sides
<1>6. ASSUME NEW m \in Conns, NEW n \in Conns, next'[m] = next'[n], next'[m] # NULL
      PROVE  m = n
  BY <1>3, <1>4, <1>6
<1>7. ASSUME head' # NULL, NEW n \in Conns PROVE next'[n] # head'
  BY <1>1, <1>3, <1>4, <1>7
<1>8. Linked'
  BY <1>5, <1>6, <1>7, NoConnIsNone DEF Linked
<1>9. ASSUME NEW c \in Conns, Listed(c)' PROVE Listed(c) /\ c # d
  <2>1. c = head' \/ c = tail' \/ next'[c] # NULL \/ \E n \in Conns : next'[n] = c
    BY <1>9, NoConnIsNone DEF Listed
  <2>2. CASE c = head'
    BY <1>1, <1>4, <2>2, NoConnIsNone DEF Listed
  <2>3. CASE c = tail'
    BY <1>1, <1>4, <2>3, NoConnIsNone DEF Listed
  <2>4. CASE next'[c] # NULL
    BY <1>3, <2>4, NoConnIsNone DEF Listed
  <2>5. CASE \E n \in Conns : next'[n] = c
    <3>1. PICK n \in Conns : next'[n] = c
      BY <2>5
    <3>2. n # d /\ next[n] = c
      BY <1>1, <1>3, <3>1
    <3> QED
      BY <1>4, <3>2, NoConnIsNone DEF Listed
  <2> QED
    BY <2>1, <2>2, <2>3, <2>4, <2>5
<1>10. head' \in Sides /\ tail' \in Sides /\ next' \in [Conns -> Sides]
  BY <1>1, <1>2
<1> QED
  BY <1>1, <1>8, <1>9, <1>10

\* ... and one joins it that was not in it.
LEMMA EnqueueKeepsLinked ==
    ASSUME TypeInv, Linked, NEW d \in Conns, ~ Listed(d), Enqueue(d)
    PROVE  /\ head' \in Sides /\ tail' \in Sides /\ next' \in [Conns -> Sides]
           /\ Linked'
           /\ \A c \in Conns : Listed(c)' => Listed(c) \/ c = d
<1>1. NULL \notin Conns /\ d # NULL /\ d \in Sides /\ tail' = d
  BY NoConnIsNone DEF Enqueue, Sides
<1>2. head \in Sides /\ tail \in Sides /\ next \in [Conns -> Sides] /\ NULL \in Sides
  BY NoConnIsNone DEF TypeInv, Sides
<1>3. d # head /\ d # tail /\ next[d] = NULL /\ \A n \in Conns : next[n] # d
  BY NoConnIsNone DEF Listed
<1>4. /\ head = NULL <=> tail = NULL
      /\ tail # NULL => next[tail] = NULL
      /\ \A m, n \in Conns : next[m] = next[n] /\ next[m] # NULL => m = n
      /\ head # NULL => \A n \in Conns : next[n] # head
  BY NoConnIsNone DEF Linked
<1>5. /\ IF tail = NULL THEN head' = d ELSE head' = head
      /\ next' \in [Conns -> Sides]
      /\ \A n \in Conns : IF tail # NULL /\ n = tail THEN next'[n] = d ELSE next'[n] = next[n]
  BY <1>1, <1>2, <1>3 DEF Enqueue
<1>6. /\ head' # NULL /\ tail' # NULL
      /\ next'[tail'] = NULL
  BY <1>1, <1>3, <1>4, <1>5
<1>7. ASSUME NEW m \in Conns, NEW n \in Conns, next'[m] = next'[n], next'[m] # NULL
      PROVE  m = n
  BY <1>3, <1>4, <1>5, <1>7
<1>8. ASSUME NEW n \in Conns PROVE next'[n] # head'
  BY <1>3, <1>4, <1>5
<1>9. Linked'
  BY <1>6, <1>7, <1>8, NoConnIsNone DEF Linked
<1>10. ASSUME NEW c \in Conns, Listed(c)' PROVE Listed(c) \/ c = d
  <2>1. c = head' \/ c = tail' \/ next'[c] # NULL \/ \E n \in Conns : next'[n] = c
    BY <1>10, NoConnIsNone DEF Listed
  <2>2. c = head \/ c = tail \/ c = d \/ next[c] # NULL \/ \E n \in Conns : next[n] = c
    BY <1>1, <1>5, <2>1
  <2> QED
    BY <2>2, NoConnIsNone DEF Listed
<1> QED
  BY <1>1, <1>2, <1>5, <1>9, <1>10

LEMMA DequeuesInv ==
    ASSUME OldInv, NEW t \in AllThreads, Dequeues(t)
    PROVE  OldInv'
<1>0. PICK d : d = thread'[t].sock
  OBVIOUS
<1>1. /\ Frame(t) /\ conn' = conn
      /\ \A u \in AllThreads : u # t => thread'[u] = thread[u]
      /\ thread[t].sock = NoConn /\ thread'[t].sock = d /\ Dequeue(d)
      /\ Own(t)'
  BY <1>0 DEF Dequeues
<1>2. /\ d \in Conns /\ d = head
      /\ head' \in Sides /\ tail' \in Sides /\ next' \in [Conns -> Sides]
      /\ Linked'
      /\ \A c \in Conns : Listed(c)' => Listed(c) /\ c # d
  <2>1. TypeInv /\ Linked
    BY DEF OldInv, ListInv
  <2> QED
    BY <1>1, <2>1, DequeueKeepsLinked
<1>3. ~ Outside(d) /\ Unread(d) /\ \A u \in AllThreads : thread[u].sock # d
  BY <1>2 DEF OldInv, ListInv, Listed
<1>4. TypeInv' /\ AheadInv'
  BY <1>1, <1>2, FrameTypes
<1>5. \A c \in Conns : (Outside(c)' <=> Outside(c)) /\ (Unread(c)' <=> Unread(c))
  BY <1>1 DEF Outside, Unread
<1>6. HoldInv'
  <2>1. ASSUME NEW u \in AllThreads, NEW c \in Conns, thread'[u].sock = c
        PROVE  /\ ~ Outside(c)' /\ conn'[c].reply = NoReply
               /\ thread'[u].at \in {"read", "recv_size", "enqueue"} => Unread(c)'
    <3>1. CASE u = t
      BY <1>1, <1>3, <1>5, <2>1, <3>1 DEF Unread
    <3>2. CASE u # t
      BY <1>1, <1>5, <2>1, <3>2, NoConnIsNone DEF OldInv, HoldInv
    <3> QED
      BY <3>1, <3>2
  <2>2. \A u, v \in AllThreads :
           thread'[u].sock = thread'[v].sock /\ thread'[u].sock # NoConn => u = v
    BY <1>1, <1>3 DEF OldInv, HoldInv
  <2>3. \A u \in AllThreads : thread'[u].sock \in Conns \cup {NoConn}
    BY <1>1, <1>2, SockTypes
  <2>4. \A c \in Conns : Outside(c)' => Unread(c)'
    BY <1>5 DEF OldInv, HoldInv
  <2> QED
    BY <2>1, <2>2, <2>3, <2>4 DEF HoldInv
<1>7. ListInv'
  <2>1. ASSUME NEW c \in Conns, Listed(c)'
        PROVE  ~ Outside(c)' /\ Unread(c)' /\ \A u \in AllThreads : thread'[u].sock # c
    <3>1. Listed(c) /\ c # d
      BY <1>2, <2>1
    <3> QED
      BY <1>1, <1>5, <3>1 DEF OldInv, ListInv
  <2> QED
    BY <1>2, <2>1 DEF ListInv
<1>8. ASSUME NEW u \in AllThreads PROVE Own(u)'
  <2>1. CASE u = t
    BY <1>1, <2>1
  <2>2. CASE u # t
    BY <1>1, <2>2, OthersOwn
  <2> QED
    BY <2>1, <2>2
<1>9. ASSUME NEW c \in Conns, conn'[c].reply # NoReply PROVE AnswerOk(c)'
  BY <1>1, <1>9, AnswerRests DEF OldInv, Frame
<1> QED
  BY <1>4, <1>6, <1>7, <1>8, <1>9 DEF OldInv

LEMMA EnqueuesInv ==
    ASSUME OldInv, Enqueues
    PROVE  OldInv'
<1>0. PICK d : d = thread[Main].sock
  OBVIOUS
<1>1. /\ Frame(Main) /\ conn' = conn
      /\ thread[Main].at = "enqueue" /\ d \in Conns /\ thread[Main].sock = d
      /\ thread'[Main].sock = NoConn /\ Enqueue(d)
      /\ \A u \in Threads :
            \/ thread'[u] = thread[u]
            \/ thread[u].at = "asleep" /\ thread'[u].at = "lock" /\ thread'[u].sock = NoConn
      /\ \A t \in AllThreads : Own(t)'
  BY <1>0 DEF Enqueues
<1>2. Main \in AllThreads /\ \A u \in AllThreads : u = Main \/ u \in Threads
  BY DEF AllThreads
<1>3. ~ Outside(d) /\ Unread(d) /\ ~ Listed(d) /\ \A u \in Threads : thread[u].sock # d
  <2>1. Main \notin Threads
    BY JudgingAssumption
  <2> QED
    BY <1>1, <1>2, <2>1, NoConnIsNone DEF OldInv, HoldInv, ListInv, AllThreads
<1>4. /\ head' \in Sides /\ tail' \in Sides /\ next' \in [Conns -> Sides]
      /\ Linked'
      /\ \A c \in Conns : Listed(c)' => Listed(c) \/ c = d
  <2>1. TypeInv /\ Linked
    BY DEF OldInv, ListInv
  <2> QED
    BY <1>1, <1>3, <2>1, EnqueueKeepsLinked
<1>5. TypeInv' /\ AheadInv'
  BY <1>1, <1>2, <1>4, FrameTypes
<1>6. \A c \in Conns : (Outside(c)' <=> Outside(c)) /\ (Unread(c)' <=> Unread(c))
  BY <1>1 DEF Outside, Unread
<1>7. \A u \in AllThreads :
         thread'[u].sock = NoConn \/ (u \in Threads /\ thread'[u] = thread[u])
  BY <1>1, <1>2
<1>8. HoldInv'
  <2>1. ASSUME NEW u \in AllThreads, NEW c \in Conns, thread'[u].sock = c
        PROVE  /\ ~ Outside(c)' /\ conn'[c].reply = NoReply
               /\ thread'[u].at \in {"read", "recv_size", "enqueue"} => Unread(c)'
    BY <1>1, <1>6, <1>7, <2>1, NoConnIsNone DEF OldInv, HoldInv
  <2>2. \A u, v \in AllThreads :
           thread'[u].sock = thread'[v].sock /\ thread'[u].sock # NoConn => u = v
    BY <1>7 DEF OldInv, HoldInv
  <2>3. \A u \in AllThreads : thread'[u].sock \in Conns \cup {NoConn}
    BY <1>7, SockTypes
  <2>4. \A c \in Conns : Outside(c)' => Unread(c)'
    BY <1>6 DEF OldInv, HoldInv
  <2> QED
    BY <2>1, <2>2, <2>3, <2>4 DEF HoldInv
<1>9. ListInv'
  <2>1. ASSUME NEW c \in Conns, Listed(c)'
        PROVE  ~ Outside(c)' /\ Unread(c)' /\ \A u \in AllThreads : thread'[u].sock # c
    <3>1. CASE c = d
      BY <1>3, <1>6, <1>7, <3>1, NoConnIsNone
    <3>2. CASE c # d
      <4>1. Listed(c)
        BY <1>4, <2>1, <3>2
      <4> QED
        BY <1>6, <1>7, <4>1, NoConnIsNone DEF OldInv, ListInv
    <3> QED
      BY <3>1, <3>2
  <2> QED
    BY <1>4, <2>1 DEF ListInv
<1>10. ASSUME NEW c \in Conns, conn'[c].reply # NoReply PROVE AnswerOk(c)'
  BY <1>1, <1>10, AnswerRests DEF OldInv, Frame
<1> QED
  BY <1>1, <1>5, <1>8, <1>9, <1>10 DEF OldInv

LEMMA ShapedInv ==
    ASSUME OldInv, Shaped
    PROVE  OldInv'
BY MovesInv, AnswersInv, StopsInv, AcceptsInv, DequeuesInv, EnqueuesInv DEF Shaped

-----------------------------------------------------------------------------
(* What the server's steps are made of                                     *)

LEMMA StepIs ==
    ASSUME TypeInv, NEW t \in AllThreads, NEW from, NEW to \in Steps, Step(t, from, to)
    PROVE  /\ thread[t].at = from
           /\ thread' \in [AllThreads -> ThreadRecords]
           /\ \A u \in AllThreads : u # t => thread'[u] = thread[u]
           /\ thread'[t].at = to /\ thread'[t].sock = thread[t].sock
           /\ thread'[t].verdict = thread[t].verdict
<1>1. thread[t] \in ThreadRecords /\ thread \in [AllThreads -> ThreadRecords]
  BY DEF TypeInv
<1>2. PICK r : r = [thread[t] EXCEPT !.at = to]
  OBVIOUS
<1>3. /\ r \in ThreadRecords /\ r.at = to /\ r.sock = thread[t].sock
      /\ r.verdict = thread[t].verdict
  BY <1>1, <1>2 DEF ThreadRecords
<1>4. thread[t].at = from /\ thread' = [thread EXCEPT ![t] = r]
  BY <1>1, <1>2 DEF Step
<1> QED
  BY <1>1, <1>3, <1>4

\* A thread that is given a connection.
LEMMA TakesIs ==
    ASSUME TypeInv, NEW t \in AllThreads, NEW to \in Steps, NEW c \in Conns,
           thread' = [thread EXCEPT ![t].at = to, ![t].sock = c]
    PROVE  /\ thread' \in [AllThreads -> ThreadRecords]
           /\ \A u \in AllThreads : u # t => thread'[u] = thread[u]
           /\ thread'[t].at = to /\ thread'[t].sock = c
<1>1. thread[t] \in ThreadRecords /\ thread \in [AllThreads -> ThreadRecords]
  BY DEF TypeInv
<1>2. PICK r : r = [thread[t] EXCEPT !.at = to, !.sock = c]
  OBVIOUS
<1>3. r \in ThreadRecords /\ r.at = to /\ r.sock = c
  BY <1>1, <1>2 DEF ThreadRecords, Sides
<1>4. thread' = [thread EXCEPT ![t] = r]
  BY <1>1, <1>2
<1> QED
  BY <1>1, <1>3, <1>4

LEMMA JudgedIs ==
    ASSUME TypeInv, NEW from, NEW verdict \in V1Verdicts, Judged(from, verdict)
    PROVE  /\ thread[Main].at = from
           /\ thread' \in [AllThreads -> ThreadRecords]
           /\ \A u \in AllThreads : u # Main => thread'[u] = thread[u]
           /\ thread'[Main].at = "answer" /\ thread'[Main].sock = thread[Main].sock
           /\ thread'[Main].verdict = verdict
<1>1. Main \in AllThreads
  BY DEF AllThreads
<1>2. thread[Main] \in ThreadRecords /\ thread \in [AllThreads -> ThreadRecords]
  BY <1>1 DEF TypeInv
<1>3. PICK r : r = [thread[Main] EXCEPT !.at = "answer", !.verdict = verdict]
  OBVIOUS
<1>4. /\ r \in ThreadRecords /\ r.at = "answer" /\ r.sock = thread[Main].sock
      /\ r.verdict = verdict
  BY <1>2, <1>3 DEF ThreadRecords, Steps
<1>5. thread[Main].at = from /\ thread' = [thread EXCEPT ![Main] = r]
  BY <1>2, <1>3 DEF Judged
<1> QED
  BY <1>1, <1>2, <1>4, <1>5

\* The files of t alone change.
FilesOf(t) ==
    /\ file' \in [AllThreads -> FileRecords]
    /\ \A u \in AllThreads : u # t => file'[u] = file[u]

LEMMA SourceIs ==
    ASSUME TypeInv, NEW t \in AllThreads, NEW s \in [by : Sides, units : Nat],
           file' = [file EXCEPT ![FileOf(t)].source = s]
    PROVE  FilesOf(t) /\ file'[t].source = s
<1>1. file \in [AllThreads -> FileRecords] /\ file[t] \in FileRecords
  BY DEF TypeInv
<1>2. PICK r : r = [file[t] EXCEPT !.source = s]
  OBVIOUS
<1>3. r \in FileRecords /\ r.source = s
  BY <1>1, <1>2 DEF FileRecords
<1>4. file' = [file EXCEPT ![t] = r]
  BY <1>1, <1>2 DEF FileOf
<1> QED
  BY <1>1, <1>3, <1>4 DEF FilesOf

\* What gcc makes of a source file that is whole, and of any.
LEMMA GccIs ==
    ASSUME TypeInv, NEW t \in AllThreads, NEW nature \in Natures, Gcc(t, nature)
    PROVE  /\ FilesOf(t)
           /\ file'[t].output = file[t].output
           /\ IF nature = "broken" THEN file' = file
              ELSE file'[t].binary.by = file[t].source.by
                   /\ file'[t].binary.nature = nature
           /\ \A c \in Conns : /\ file[t].source.by = c
                               /\ file[t].source.units = Units[c[1]]
                               => nature = program[c[1]]
<1>1. /\ file \in [AllThreads -> FileRecords] /\ file[t] \in FileRecords
      /\ file[t].source.by \in Sides /\ file[t].source.units \in Nat
  BY DEF TypeInv, FileRecords
<1>2. nature \in NaturesOf(file[t].source)
  BY DEF Gcc, Source, FileOf
<1>3. \A c \in Conns : file[t].source.by = c /\ file[t].source.units = Units[c[1]]
         => nature = program[c[1]]
  BY <1>2, ConnParts DEF NaturesOf
<1>4. CASE nature = "broken"
  BY <1>1, <1>3, <1>4 DEF Gcc, FilesOf
<1>5. CASE nature # "broken"
  <2>1. PICK b : b = [by |-> file[t].source.by, nature |-> nature]
    OBVIOUS
  <2>2. PICK r : r = [file[t] EXCEPT !.binary = b]
    OBVIOUS
  <2>3. /\ b \in [by : Sides, nature : Natures] /\ b.by = file[t].source.by
        /\ b.nature = nature
    BY <1>1, <2>1
  <2>4. r \in FileRecords /\ r.binary = b /\ r.output = file[t].output
    BY <1>1, <2>2, <2>3 DEF FileRecords
  <2>5. file' = [file EXCEPT ![t] = r]
    BY <1>1, <1>5, <2>1, <2>2 DEF Gcc, Source, FileOf
  <2> QED
    BY <1>1, <1>3, <1>5, <2>3, <2>4, <2>5 DEF FilesOf
<1> QED
  BY <1>4, <1>5

\* What the program's output is.
LEMMA OutputIs ==
    ASSUME TypeInv, NEW t \in AllThreads, NEW o \in [by : Sides, expected : BOOLEAN],
           file' = [file EXCEPT ![FileOf(t)].output = o]
    PROVE  /\ FilesOf(t) /\ file'[t].output = o
           /\ file'[t].source = file[t].source /\ file'[t].binary = file[t].binary
<1>1. file \in [AllThreads -> FileRecords] /\ file[t] \in FileRecords
  BY DEF TypeInv
<1>2. PICK r : r = [file[t] EXCEPT !.output = o]
  OBVIOUS
<1>3. /\ r \in FileRecords /\ r.output = o /\ r.source = file[t].source
      /\ r.binary = file[t].binary
  BY <1>1, <1>2 DEF FileRecords
<1>4. file' = [file EXCEPT ![t] = r]
  BY <1>1, <1>2 DEF FileOf
<1> QED
  BY <1>1, <1>3, <1>4 DEF FilesOf

LEMMA PrintsIs ==
    ASSUME TypeInv, NEW t \in AllThreads, Prints(t)
    PROVE  /\ FilesOf(t)
           /\ file'[t].output.by = file[t].binary.by
           /\ file'[t].output.expected <=> file[t].binary.nature \in {"right", "returns"}
           /\ file'[t].source = file[t].source /\ file'[t].binary = file[t].binary
<1>1. file[t].binary \in [by : Sides, nature : Natures]
  BY DEF TypeInv, FileRecords
<1>2. PICK o : o = [by |-> file[t].binary.by,
                    expected |-> file[t].binary.nature \in {"right", "returns"}]
  OBVIOUS
<1>3. /\ o \in [by : Sides, expected : BOOLEAN] /\ o.by = file[t].binary.by
      /\ o.expected <=> file[t].binary.nature \in {"right", "returns"}
  <2>1. CASE file[t].binary.nature \in {"right", "returns"}
    <3>1. o = [by |-> file[t].binary.by, expected |-> TRUE]
      BY <1>2, <2>1, Zenon
    <3> QED
      BY <1>1, <2>1, <3>1
  <2>2. CASE file[t].binary.nature \notin {"right", "returns"}
    <3>1. (file[t].binary.nature \in {"right", "returns"}) = FALSE
      BY <2>2
    <3>2. o = [by |-> file[t].binary.by, expected |-> FALSE]
      BY ONLY <1>2, <3>1, Zenon
    <3> QED
      BY <1>1, <2>2, <3>2
  <2> QED
    BY <2>1, <2>2
<1>4. file' = [file EXCEPT ![FileOf(t)].output = o]
  BY <1>2 DEF Prints, Binary, FileOf
<1> QED
  BY <1>3, <1>4, OutputIs

\* What version 1's children write begins with the texts of the connection.
LEMMA WriteErrorsIs ==
    ASSUME TypeInv, NEW c \in Conns, WriteErrors(c)
    PROVE  errors' \in Seq(Conns) /\ errors' # <<>> /\ Head(errors') = c
<1>1. PICK rest : rest = IF errors # <<>> /\ Head(errors) = c THEN Tail(errors) ELSE errors
  OBVIOUS
<1>2. rest \in Seq(Conns)
  BY <1>1 DEF TypeInv
<1>3. PICK i \in 1 .. Len(rest) + 1 : errors' = <<c>> \o SubSeq(rest, i, Len(rest))
  BY <1>1 DEF WriteErrors
<1>4. SubSeq(rest, i, Len(rest)) \in Seq(Conns)
  BY <1>2
<1>5. \A q \in Seq(Conns) : <<c>> \o q \in Seq(Conns) /\ <<c>> \o q # <<>> /\ Head(<<c>> \o q) = c
  OBVIOUS
<1> QED
  BY <1>3, <1>4, <1>5

\* The server ends and leaves the rest as it is, or as it was to be when it answers.
LEMMA EndsIs ==
    ASSUME OldInv, NEW t \in AllThreads, ServerEnds, FilesOf(t),
           \/ file'[t] = file[t]
           \/ thread[t].at = "run_task" /\ file'[t].binary = file[t].binary,
           UNCHANGED <<version, client, program, shell, thread, errors, head, tail, next, pool_size>>
    PROVE  Stops(t)
<1>1. /\ conn' \in [Conns -> ConnRecords]
      /\ \A c \in Conns :
            /\ SameEnds(conn'[c], conn[c])
            /\ conn'[c].taken = conn[c].taken /\ conn'[c].reply = conn[c].reply
            /\ conn'[c].server_error = conn[c].server_error
            /\ conn[c].server = "none" <=> conn'[c].server = "none"
            /\ conn'[c].server \notin {"open", "waiting"}
  BY ServerEndsIs DEF OldInv
<1>5. up' = FALSE
  BY DEF ServerEnds
<1>2. Frame(t)
  BY <1>1 DEF OldInv, TypeInv, Frame, FilesOf
<1>3. Own(t) /\ thread[t].sock \in Conns \cup {NoConn}
  BY SockTypes DEF OldInv
<1>4. Own(t)'
  BY <1>1, <1>3, OwnRests DEF SameEnds
<1> QED
  BY <1>1, <1>2, <1>4, <1>5 DEF Stops

\* What a thread may answer.
Fits(c, reply, close) ==
    /\ version \in {"v2", "v3"} /\ shell = "bash" /\ Whole(c)
          => reply.verdict = VerdictOf(program[c[1]])
    /\ version = "v1" =>
          /\ reply.verdict \in {"PASS", "OUTPUT ERROR"} => reply.text = <<c>>
          /\ reply.verdict = "COMPILATION ERROR" => Head(reply.text) = c
    /\ version = "v3" =>
          Whole(c) \/ conn[c].client = "closed" \/ conn[c].server_error = "seen"
    /\ close <=> reply.verdict \notin NotClosed

LEMMA AnswerIs ==
    ASSUME OldInv, NEW t \in AllThreads, thread[t].sock \in Conns, thread[t].at # "enqueue",
           NEW reply \in Replies, NEW close \in BOOLEAN, Fits(thread[t].sock, reply, close),
           NEW to, to = IF version = "v1" THEN "accept" ELSE IF version = "v2" THEN "free"
                        ELSE "lock",
           Answer(t, reply, close, to), FilesOf(t),
           \/ file'[t] = file[t]
           \/ thread[t].at = "run_task" /\ file'[t].binary = file[t].binary,
           UNCHANGED <<version, client, program, shell, errors, head, tail, next, pool_size>>
    PROVE  Shaped
<1>0. PICK c \in Conns : c = thread[t].sock
  OBVIOUS
<1>1. CASE Raises(c)
  <2>1. Stops(t)
    BY <1>0, <1>1, EndsIs DEF Answer, Sock
  <2> QED
    BY <2>1 DEF Shaped
<1>2. CASE ~ Raises(c)
  <2>1. PICK r : r = Written(c, reply)
    OBVIOUS
  <2>2. conn[c] \in ConnRecords /\ conn[c].reply = NoReply /\ conn[c].server_error # "seen"
    BY <1>0, <1>2, SockTypes, NoConnIsNone DEF OldInv, HoldInv, Raises
  <2>3. /\ SameEnds(r, conn[c]) /\ r.server = conn[c].server /\ r.taken = conn[c].taken
        /\ r.reply \in {reply, NoReply}
        /\ r.reply = reply \/ r.server_error = "seen"
    BY <2>1, <2>2, WrittenIs
  <2>4. PICK q : q = IF close THEN Closed(r) ELSE r
    OBVIOUS
  <2>5. /\ SameEnds(q, conn[c]) /\ q.taken = conn[c].taken
        /\ q.reply \in {reply, NoReply}
        /\ q.reply # NoReply \/ q.server_error = "seen"
        /\ q.server = IF close THEN "closed" ELSE conn[c].server
    BY <2>3, <2>4, ClosedIs, OldGradersAssumption DEF SameEnds
  <2>6. /\ conn' = [conn EXCEPT ![c] = q]
        /\ thread' = [thread EXCEPT ![t] = [at |-> to, sock |-> NoConn, verdict |-> "none"]]
    BY <1>0, <1>2, <2>1, <2>4 DEF Answer, Sock
  <2>7. thread \in [AllThreads -> ThreadRecords] /\ conn \in [Conns -> ConnRecords]
    BY DEF OldInv, TypeInv
  <2>8. /\ conn' \in [Conns -> ConnRecords] /\ conn'[c] = q
        /\ \A d \in Conns : d # c => conn'[d] = conn[d]
    BY <2>5, <2>6, <2>7 DEF SameEnds
  <2>9. [at |-> to, sock |-> NoConn, verdict |-> "none"] \in ThreadRecords
    BY DEF ThreadRecords, Steps, Sides
  <2>10. /\ thread' \in [AllThreads -> ThreadRecords]
         /\ \A u \in AllThreads : u # t => thread'[u] = thread[u]
         /\ thread'[t].at = to /\ thread'[t].sock = NoConn
    BY <2>6, <2>7, <2>9
  <2>11. Frame(t)
    BY <2>8, <2>10 DEF OldInv, TypeInv, Frame, FilesOf
  <2>12. Own(t)'
    <3>1. Own(t) /\ version \in {"v1", "v2", "v3"} /\ thread[t].sock # NoConn
      BY <1>0, NoConnIsNone DEF OldInv, TypeInv
    <3>3. version = "v1" => t = Main
      BY <3>1 DEF Own, StepOk
    <3>4. version \in {"v2", "v3"} => t # Main
      <4>1. version \in {"v2", "v3"} /\ t = Main => thread[t].at \in {"accept", "enqueue"}
        BY <3>1 DEF Own, StepOk
      <4> QED
        BY <3>1, <4>1 DEF Own, StepOk
    <3>5. StepOk(t)'
      <4>1. thread'[t].at = IF version = "v1" THEN "accept" ELSE IF version = "v2" THEN "free"
                            ELSE "lock"
        BY <2>10
      <4> QED
        BY <2>10, <3>1, <3>3, <3>4, <4>1 DEF StepOk
    <3>6. FilesOk(t)' /\ CutOk(t)' /\ TextsOk(t)'
      BY <2>10 DEF FilesOk, CutOk, TextsOk
    <3> QED
      BY <3>5, <3>6 DEF Own
  <2>13. ASSUME conn'[c].reply # NoReply PROVE AnswerOk(c)'
    <3>1. /\ conn'[c].reply = reply /\ conn'[c].taken = conn[c].taken
          /\ conn'[c].client = conn[c].client
      BY <2>5, <2>8, <2>13 DEF SameEnds
    <3>2. Whole(c)' <=> Whole(c)
      BY <3>1 DEF Whole, Stream
    <3>3. VerdictOf(program[c[1]])' = VerdictOf(program[c[1]])
      BY DEF VerdictOf
    <3> QED
      BY <1>0, <2>2, <3>1, <3>2, <3>3 DEF AnswerOk, Fits
  <2>15. \/ conn'[c].server = conn[c].server /\ Left(c)'
         \/ conn'[c].server = "closed" /\ ~ (Replied(c)' /\ Left(c)')
    <3>1. NotClosed' = NotClosed
      BY DEF NotClosed
    <3>2. close <=> reply.verdict \notin NotClosed
      BY <1>0 DEF Fits
    <3>3. CASE close
      BY <2>5, <2>8, <3>1, <3>2, <3>3 DEF Left, Replied
    <3>4. CASE ~ close
      BY <2>5, <2>8, <3>1, <3>2, <3>4 DEF Left, Replied
    <3> QED
      BY <3>3, <3>4
  <2>14. Answers(t)
    BY <1>0, <2>5, <2>8, <2>10, <2>11, <2>12, <2>13, <2>15 DEF Answers
  <2> QED
    BY <2>14 DEF Shaped
<1> QED
  BY <1>1, <1>2

\* A connection that is not changed otherwise than by a call of the server.
LEMMA CallIs ==
    ASSUME OldInv, NEW c \in Conns, NEW r, SameEnds(r, conn[c]), conn' = [conn EXCEPT ![c] = r]
    PROVE  /\ conn' \in [Conns -> ConnRecords] /\ conn'[c] = r
           /\ \A d \in Conns : d # c => conn'[d] = conn[d]
BY DEF OldInv, TypeInv, SameEnds

-----------------------------------------------------------------------------
(* Version 1                                                               *)

LEMMA V1Own ==
    ASSUME version' = "v1", thread'[Main].sock # NoConn, TextsOk(Main)',
           thread'[Main].at \in {"read", "compile", "run", "diff", "answer"}
    PROVE  Own(Main)'
<1>1. StepOk(Main)'
  BY DEF StepOk
<1>2. FilesOk(Main)' /\ CutOk(Main)'
  BY DEF FilesOk, CutOk
<1> QED
  BY <1>1, <1>2 DEF Own

\* What its thread has when it is not waiting for a connection.
LEMMA V1Main ==
    ASSUME OldInv, version = "v1"
    PROVE  /\ Main \in AllThreads /\ Own(Main)
           /\ thread[Main].at # "accept" => thread[Main].sock \in Conns
           /\ thread[Main].at # "enqueue"
<1>1. Main \in AllThreads
  BY DEF AllThreads
<1>2. Own(Main) /\ thread[Main].sock \in Conns \cup {NoConn}
  BY <1>1, SockTypes DEF OldInv
<1>3. thread[Main].at \in {"accept", "read", "compile", "run", "diff", "answer"}
  BY <1>2 DEF Own, StepOk
<1> QED
  BY <1>1, <1>2, <1>3 DEF Own, StepOk

\* Lines 48-85: until a verdict is known.
LEMMA V1AcceptReadShape ==
    ASSUME OldInv, version = "v1", UNCHANGED <<head, tail, next, pool_size>>, V1Accept \/ V1Read
    PROVE  Shaped
<1>1. Main \in AllThreads /\ TypeInv /\ Own(Main)
  BY V1Main DEF OldInv
<1>2. CASE V1Accept
  <2>1. PICK c \in Waiting :
           /\ thread[Main].at = "accept"
           /\ thread' = [thread EXCEPT ![Main].at = "read", ![Main].sock = c]
           /\ conn' = [conn EXCEPT ![c] = Accepted(c)]
    BY <1>2 DEF V1Accept
  <2>2. c \in Conns /\ conn[c].server = "waiting" /\ c # NoConn
    BY NoConnIsNone DEF Waiting
  <2>3. /\ thread' \in [AllThreads -> ThreadRecords]
        /\ \A u \in AllThreads : u # Main => thread'[u] = thread[u]
        /\ thread'[Main].at = "read" /\ thread'[Main].sock = c
    BY <1>1, <2>1, <2>2, TakesIs DEF Steps
  <2>4. /\ SameEnds(Accepted(c), conn[c])
        /\ Accepted(c).server = "open" /\ Accepted(c).taken = conn[c].taken
        /\ Accepted(c).reply = conn[c].reply
        /\ Accepted(c).server_error = conn[c].server_error
    BY <2>2, AcceptedIs, SockTypes
  <2>5. /\ conn' \in [Conns -> ConnRecords] /\ conn'[c] = Accepted(c)
        /\ \A d \in Conns : d # c => conn'[d] = conn[d]
    BY <2>1, <2>2, <2>4, CallIs
  <2>6. UNCHANGED <<version, client, program, shell, file, errors>>
    BY <1>2 DEF V1Accept, v1Unchanged
  <2>7. Own(Main)'
    BY <2>2, <2>3, <2>6, V1Own DEF TextsOk
  <2>8. thread[Main].sock = NoConn
    BY <1>1, <2>1 DEF Own, StepOk
  <2>9. Frame(Main)
    BY <1>1, <2>3, <2>5, <2>6 DEF TypeInv, Frame
  <2>10. Accepts(Main, c)
    BY <2>2, <2>3, <2>4, <2>5, <2>7, <2>8, <2>9 DEF Accepts
  <2> QED
    BY <1>1, <2>2, <2>10 DEF Shaped
<1>3. CASE V1Read
  <2>1. PICK c : c = thread[Main].sock
    OBVIOUS
  <2>2. Step(Main, "read", "compile")
    BY <1>3 DEF V1Read
  <2>3. /\ thread[Main].at = "read"
        /\ thread' \in [AllThreads -> ThreadRecords]
        /\ \A u \in AllThreads : u # Main => thread'[u] = thread[u]
        /\ thread'[Main].at = "compile" /\ thread'[Main].sock = c
    BY <1>1, <2>1, <2>2, StepIs DEF Steps
  <2>4. c \in Conns /\ c # NoConn
    BY <2>1, <2>3, V1Main, NoConnIsNone
  <2>5. PICK n \in {0, 1} :
           /\ conn' = [conn EXCEPT ![c] = Taken(c, n)]
           /\ file' = [file EXCEPT ![FileOf(Main)].source = [by |-> c, units |-> n]]
    BY <1>3, <2>1 DEF V1Read, Sock
  <2>6. /\ SameEnds(Taken(c, n), conn[c]) /\ Taken(c, n).server = conn[c].server
        /\ Taken(c, n).reply = conn[c].reply
    BY <2>4, TakenIs, SockTypes
  <2>7. /\ conn' \in [Conns -> ConnRecords] /\ conn'[c] = Taken(c, n)
        /\ \A d \in Conns : d # c => conn'[d] = conn[d]
    BY <2>4, <2>5, <2>6, CallIs
  <2>8. [by |-> c, units |-> n] \in [by : Sides, units : Nat]
    BY <2>4 DEF Sides
  <2>9. FilesOf(Main) /\ file'[Main].source = [by |-> c, units |-> n]
    BY <1>1, <2>5, <2>8, SourceIs
  <2>10. UNCHANGED <<version, client, program, shell, errors>>
    BY <1>3 DEF V1Read, v1Unchanged
  <2>11. Own(Main)'
    BY <2>3, <2>4, <2>9, <2>10, V1Own DEF TextsOk
  <2>12. Frame(Main)
    BY <1>1, <2>3, <2>7, <2>9, <2>10 DEF TypeInv, Frame, FilesOf
  <2>13. Moves(Main)
    BY <2>1, <2>3, <2>6, <2>7, <2>11, <2>12 DEF Moves
  <2> QED
    BY <1>1, <2>13 DEF Shaped
<1> QED
  BY <1>2, <1>3

\* Lines 79-91.
LEMMA V1CommandsShape ==
    ASSUME OldInv, version = "v1", UNCHANGED <<head, tail, next, pool_size>>,
           V1Compile \/ V1Run \/ V1Diff
    PROVE  Shaped
<1>1. Main \in AllThreads /\ TypeInv /\ Own(Main)
  BY V1Main DEF OldInv
<1>2. PICK c : c = thread[Main].sock
  OBVIOUS
<1>3. thread[Main].at \in {"compile", "run", "diff"}
  BY DEF V1Compile, V1Run, V1Diff, Judged, Step
<1>4. c \in Conns /\ c # NoConn
  BY <1>2, <1>3, V1Main, NoConnIsNone
<1>5. UNCHANGED <<version, client, program, shell, conn>>
  BY DEF V1Compile, V1Run, V1Diff, v1Unchanged
<1>6. ASSUME FilesOf(Main), errors' \in Seq(Conns),
             thread' \in [AllThreads -> ThreadRecords],
             \A u \in AllThreads : u # Main => thread'[u] = thread[u],
             thread'[Main].at \in {"run", "diff", "answer"}, thread'[Main].sock = c,
             TextsOk(Main)'
      PROVE  Shaped
  <2>1. Own(Main)'
    BY <1>4, <1>5, <1>6, V1Own
  <2>2. Frame(Main)
    BY <1>1, <1>5, <1>6 DEF TypeInv, Frame, FilesOf
  <2>3. Moves(Main)
    BY <1>2, <1>5, <1>6, <2>1, <2>2, SockTypes DEF Moves
  <2> QED
    BY <1>1, <2>3 DEF Shaped
<1>7. WriteErrors(c) => errors' \in Seq(Conns) /\ errors' # <<>> /\ Head(errors') = c
  BY <1>1, <1>4, WriteErrorsIs
<1>8. CASE V1Compile
  <2>1. PICK nature \in Natures :
           /\ Gcc(Main, nature)
           /\ IF nature = "broken"
              THEN Judged("compile", "COMPILATION ERROR") /\ WriteErrors(c)
              ELSE /\ Step(Main, "compile", "run")
                   /\ WriteErrors(c) \/ UNCHANGED errors
    BY <1>2, <1>8 DEF V1Compile, Sock
  <2>2. /\ FilesOf(Main)
        /\ nature # "broken" => file'[Main].binary.by = file[Main].source.by
    BY <1>1, <2>1, GccIs
  <2>3. CASE nature = "broken"
    <3>1. "COMPILATION ERROR" \in V1Verdicts
      BY DEF V1Verdicts
    <3>2. /\ thread' \in [AllThreads -> ThreadRecords]
          /\ \A u \in AllThreads : u # Main => thread'[u] = thread[u]
          /\ thread'[Main].at = "answer" /\ thread'[Main].sock = c
          /\ thread'[Main].verdict = "COMPILATION ERROR"
      BY <1>1, <1>2, <2>1, <2>3, <3>1, JudgedIs
    <3>3. TextsOk(Main)'
      BY <1>7, <2>1, <2>3, <3>1, <3>2 DEF TextsOk
    <3> QED
      BY <1>6, <1>7, <2>1, <2>2, <2>3, <3>2, <3>3
  <2>4. CASE nature # "broken"
    <3>1. /\ thread[Main].at = "compile"
          /\ thread' \in [AllThreads -> ThreadRecords]
          /\ \A u \in AllThreads : u # Main => thread'[u] = thread[u]
          /\ thread'[Main].at = "run" /\ thread'[Main].sock = c
      BY <1>1, <1>2, <2>1, <2>4, StepIs DEF Steps
    <3>2. file[Main].source.by = c
      BY <1>1, <1>2, <3>1 DEF Own, TextsOk
    <3>3. TextsOk(Main)'
      BY <2>2, <2>4, <3>1, <3>2 DEF TextsOk
    <3>4. errors' \in Seq(Conns)
      BY <1>1, <1>7, <2>1, <2>4 DEF TypeInv
    <3> QED
      BY <1>6, <2>2, <3>1, <3>3, <3>4
  <2> QED
    BY <2>3, <2>4
<1>9. CASE V1Run
  <2>1. FilesOf(Main) /\ file'[Main].output.by = file[Main].binary.by
    BY <1>1, <1>9, PrintsIs DEF V1Run
  <2>2. errors' \in Seq(Conns)
    BY <1>1, <1>2, <1>7, <1>9 DEF V1Run, Sock, TypeInv
  <2>3. CASE Judged("run", "RUNTIME ERROR")
    <3>1. "RUNTIME ERROR" \in V1Verdicts
      BY DEF V1Verdicts
    <3>2. /\ thread' \in [AllThreads -> ThreadRecords]
          /\ \A u \in AllThreads : u # Main => thread'[u] = thread[u]
          /\ thread'[Main].at = "answer" /\ thread'[Main].sock = c
          /\ thread'[Main].verdict = "RUNTIME ERROR"
      BY <1>1, <1>2, <2>3, <3>1, JudgedIs
    <3>3. TextsOk(Main)'
      BY <3>1, <3>2 DEF TextsOk
    <3> QED
      BY <1>6, <2>1, <2>2, <3>2, <3>3
  <2>4. CASE Step(Main, "run", "diff")
    <3>1. /\ thread[Main].at = "run"
          /\ thread' \in [AllThreads -> ThreadRecords]
          /\ \A u \in AllThreads : u # Main => thread'[u] = thread[u]
          /\ thread'[Main].at = "diff" /\ thread'[Main].sock = c
      BY <1>1, <1>2, <2>4, StepIs DEF Steps
    <3>2. file[Main].binary.by = c
      BY <1>1, <1>2, <3>1 DEF Own, TextsOk
    <3>3. TextsOk(Main)'
      BY <2>1, <3>1, <3>2 DEF TextsOk
    <3> QED
      BY <1>6, <2>1, <2>2, <3>1, <3>3
  <2> QED
    BY <1>9, <2>3, <2>4 DEF V1Run
<1>10. CASE V1Diff
  <2>1. PICK verdict \in {"PASS", "OUTPUT ERROR"} : Judged("diff", verdict)
    BY <1>10 DEF V1Diff
  <2>2. verdict \in V1Verdicts
    BY <2>1 DEF V1Verdicts
  <2>3. /\ thread[Main].at = "diff"
        /\ thread' \in [AllThreads -> ThreadRecords]
        /\ \A u \in AllThreads : u # Main => thread'[u] = thread[u]
        /\ thread'[Main].at = "answer" /\ thread'[Main].sock = c
        /\ thread'[Main].verdict = verdict
    BY <1>1, <1>2, <2>1, <2>2, JudgedIs
  <2>4. file' = file /\ errors' = errors
    BY <1>10 DEF V1Diff
  <2>5. file[Main].output.by = c
    BY <1>1, <1>2, <2>3 DEF Own, TextsOk
  <2>6. TextsOk(Main)'
    BY <2>1, <2>2, <2>3, <2>4, <2>5 DEF TextsOk
  <2>7. FilesOf(Main) /\ errors' \in Seq(Conns)
    BY <1>1, <2>4 DEF TypeInv, FilesOf
  <2> QED
    BY <1>6, <2>3, <2>6, <2>7
<1> QED
  BY <1>8, <1>9, <1>10

\* The answer is a sequence of texts.
LEMMA V1TextIs ==
    ASSUME OldInv
    PROVE  V1Text \in Seq(Sides)
<1>1. Main \in AllThreads /\ TypeInv
  BY DEF AllThreads, OldInv
<1>2. errors \in Seq(Sides)
  <2>1. \A q \in Seq(Conns) : q \in Seq(Sides)
    BY DEF Sides
  <2> QED
    BY <1>1, <2>1 DEF TypeInv
<1>3. file[Main].output.by \in Sides
  BY <1>1 DEF TypeInv, FileRecords
<1>4. <<file[Main].output.by>> \in Seq(Sides)
  BY <1>3
<1>5. V1Text \in {<<file[Main].output.by>>, errors}
  BY DEF V1Text, Output, FileOf
<1> QED
  BY <1>2, <1>4, <1>5

LEMMA V1AnswerShape ==
    ASSUME OldInv, version = "v1", UNCHANGED <<head, tail, next, pool_size>>, V1ReadFails \/ V1Answer
    PROVE  Shaped
<1>1. Main \in AllThreads /\ TypeInv /\ Own(Main)
  BY V1Main DEF OldInv
<1>2. /\ UNCHANGED <<version, client, program, shell, file, errors>>
      /\ FilesOf(Main)
  BY <1>1 DEF V1ReadFails, V1Answer, v1Unchanged, TypeInv, FilesOf
<1>3. CASE V1ReadFails
  <2>1. Stops(Main)
    BY <1>1, <1>2, <1>3, EndsIs DEF V1ReadFails
  <2> QED
    BY <1>1, <2>1 DEF Shaped
<1>4. CASE V1Answer
  <2>1. PICK c : c = thread[Main].sock
    OBVIOUS
  <2>2. PICK reply : reply = [verdict |-> thread[Main].verdict, text |-> V1Text]
    OBVIOUS
  <2>3. thread[Main].at = "answer" /\ Answer(Main, reply, TRUE, "accept")
    BY <1>4, <2>2 DEF V1Answer
  <2>4. c \in Conns
    BY <2>1, <2>3, V1Main
  <2>5. /\ thread[Main].verdict \in V1Verdicts
        /\ thread[Main].verdict \in {"PASS", "OUTPUT ERROR"} => file[Main].output.by = c
        /\ thread[Main].verdict = "COMPILATION ERROR" => errors # <<>> /\ Head(errors) = c
    BY <1>1, <2>1, <2>3 DEF Own, TextsOk
  <2>6. V1Text \in Seq(Sides)
    BY V1TextIs
  <2>7. reply \in Replies
    BY <2>2, <2>5, <2>6 DEF Replies, Sides
  <2>8. /\ thread[Main].verdict \in {"PASS", "OUTPUT ERROR"} => V1Text = <<c>>
        /\ thread[Main].verdict = "COMPILATION ERROR" => Head(V1Text) = c
    BY <2>5 DEF V1Text, Output, FileOf
  <2>11. reply.verdict \notin NotClosed
    BY DEF NotClosed
  <2>9. Fits(c, reply, TRUE)
    BY <2>2, <2>8, <2>11 DEF Fits
  <2>10. thread[Main].at # "enqueue"
    BY <2>3
  <2> QED
    BY <1>1, <1>2, <2>1, <2>3, <2>4, <2>7, <2>9, <2>10, AnswerIs
<1> QED
  BY <1>3, <1>4

LEMMA V1Shape ==
    ASSUME OldInv, V1Next
    PROVE  Shaped
<1>1. version = "v1" /\ UNCHANGED <<head, tail, next, pool_size>>
  BY DEF V1Next, V1Server, poolVars, linkedQueueVars
<1> QED
  BY <1>1, V1AcceptReadShape, V1CommandsShape, V1AnswerShape DEF V1Next, V1Server

-----------------------------------------------------------------------------
(* Versions 2 and 3                                                        *)

\* A thread that handles a client, and what it owns then.
AtWork(t) ==
    thread[t].at \in IF version = "v2" THEN {"read", "compile_task", "run_task", "diff_task"}
                     ELSE {"recv_size", "recv_file", "compile_task", "run_task", "diff_task"}

LEMMA AtWorkOwns ==
    ASSUME OldInv, NEW t \in Threads, version \in {"v2", "v3"}, AtWork(t)
    PROVE  /\ t \in AllThreads /\ t # Main /\ Own(t)
           /\ thread[t].sock \in Conns /\ conn[thread[t].sock] \in ConnRecords
           /\ thread[t].at # "enqueue"
<1>1. t \in AllThreads /\ t # Main
  BY JudgingAssumption DEF AllThreads
<1>2. Own(t) /\ thread[t].sock \in Conns \cup {NoConn}
  BY <1>1, SockTypes DEF OldInv
<1>3. thread[t].at \notin {"accept", "free", "lock", "asleep", "enqueue"}
  BY DEF AtWork
<1>4. thread[t].sock \in Conns
  BY <1>2, <1>3 DEF Own, StepOk
<1> QED
  BY <1>1, <1>2, <1>3, <1>4, SockTypes

LEMMA WorkOwn ==
    ASSUME NEW t, t # Main, version' \in {"v2", "v3"}, thread'[t].sock # NoConn,
           AtWork(t)', FilesOk(t)', CutOk(t)'
    PROVE  Own(t)'
<1>1. StepOk(t)'
  BY DEF StepOk, AtWork
<1>2. TextsOk(t)'
  BY DEF TextsOk, AtWork
<1> QED
  BY <1>1, <1>2 DEF Own

\* It goes on with its connection.
LEMMA GoesOnShape ==
    ASSUME OldInv, NEW t \in Threads, version \in {"v2", "v3"}, AtWork(t), FilesOf(t),
           UNCHANGED <<version, client, program, shell, errors, head, tail, next, pool_size>>,
           thread' \in [AllThreads -> ThreadRecords],
           \A u \in AllThreads : u # t => thread'[u] = thread[u],
           thread'[t].sock = thread[t].sock,
           thread'[t].at \in {"recv_file", "compile_task", "run_task", "diff_task"},
           AtWork(t)', FilesOk(t)', CutOk(t)',
           NEW r, conn' = [conn EXCEPT ![thread[t].sock] = r],
           SameEnds(r, conn[thread[t].sock]), r.server = conn[thread[t].sock].server,
           r.reply = conn[thread[t].sock].reply
    PROVE  Shaped
<1>1. /\ t \in AllThreads /\ t # Main /\ thread[t].sock \in Conns
      /\ thread[t].sock # NoConn
  BY AtWorkOwns, NoConnIsNone
<1>2. Own(t)'
  BY <1>1, WorkOwn
<1>3. /\ conn' \in [Conns -> ConnRecords] /\ conn'[thread[t].sock] = r
      /\ \A d \in Conns : d # thread[t].sock => conn'[d] = conn[d]
  BY <1>1, CallIs
<1>4. Frame(t)
  BY <1>3 DEF OldInv, TypeInv, Frame, FilesOf
<1>5. Moves(t)
  BY <1>2, <1>3, <1>4 DEF Moves
<1> QED
  BY <1>1, <1>5 DEF Shaped

\* It goes to its next command.
LEMMA NextTaskShape ==
    ASSUME OldInv, NEW t \in Threads, version \in {"v2", "v3"},
           NEW from \in {"compile_task", "run_task"}, NEW to \in {"run_task", "diff_task"},
           Step(t, from, to), FilesOf(t),
           UNCHANGED <<version, client, program, shell, errors, head, tail, next, pool_size, conn>>,
           LET c == thread[t].sock IN
           /\ to = "run_task" =>
                 /\ file'[t].binary.nature # "broken"
                 /\ Whole(c) => file'[t].binary.nature = program[c[1]]
           /\ to = "diff_task" /\ shell = "bash" /\ Whole(c) =>
                 /\ program[c[1]] \in {"right", "wrong"}
                 /\ file'[t].output.expected <=> program[c[1]] = "right"
    PROVE  Shaped
<1>1. AtWork(t)
  BY DEF Step, AtWork
<1>2. /\ t \in AllThreads /\ t # Main /\ Own(t) /\ thread[t].sock \in Conns
  BY <1>1, AtWorkOwns
<1>3. /\ thread' \in [AllThreads -> ThreadRecords]
      /\ \A u \in AllThreads : u # t => thread'[u] = thread[u]
      /\ thread[t].at = from /\ thread'[t].at = to /\ thread'[t].sock = thread[t].sock
  <2>1. to \in Steps /\ TypeInv
    BY DEF Steps, OldInv
  <2> QED
    BY <1>2, <2>1, StepIs
<1>4. PICK c \in Conns : c = thread[t].sock
  BY <1>2
<1>5. Whole(c)' <=> Whole(c)
  BY DEF Whole, Stream
<1>6. FilesOk(t)'
  BY <1>3, <1>4, <1>5 DEF FilesOk
<1>7. CutOk(t)'
  BY <1>2, <1>3, <1>4, <1>5 DEF Own, CutOk
<1>8. AtWork(t)'
  BY <1>3 DEF AtWork
<1>9. conn' = [conn EXCEPT ![thread[t].sock] = conn[thread[t].sock]]
  BY DEF OldInv, TypeInv
<1> QED
  BY <1>1, <1>2, <1>3, <1>6, <1>7, <1>8, <1>9, SockTypes, GoesOnShape

\* It answers, after a command that left its files as AnswerIs wants them.
LEMMA VerdictShape ==
    ASSUME OldInv, NEW t \in Threads, version \in {"v2", "v3"},
           thread[t].at \in {"compile_task", "run_task", "diff_task"},
           NEW verdict \in Verdicts, NEW close \in BOOLEAN,
           Answer(t, [verdict |-> verdict, text |-> <<>>], close,
                  IF version = "v2" THEN "free" ELSE "lock"),
           FilesOf(t),
           \/ file'[t] = file[t]
           \/ thread[t].at = "run_task" /\ file'[t].binary = file[t].binary,
           UNCHANGED <<version, client, program, shell, errors, head, tail, next, pool_size>>,
           LET c == thread[t].sock IN
               shell = "bash" /\ Whole(c) => verdict = VerdictOf(program[c[1]]),
           close <=> verdict \notin NotClosed
    PROVE  Shaped
<1>1. AtWork(t)
  BY DEF AtWork
<1>2. /\ t \in AllThreads /\ Own(t) /\ thread[t].sock \in Conns
      /\ thread[t].at # "enqueue"
  BY <1>1, AtWorkOwns
<1>3. PICK reply : reply = [verdict |-> verdict, text |-> <<>>]
  OBVIOUS
<1>4. PICK to : to = IF version = "v2" THEN "free" ELSE "lock"
  OBVIOUS
<1>5. reply \in Replies /\ reply.verdict = verdict
  BY <1>3 DEF Replies
<1>6. version # "v1" /\ (version = "v2" \/ version = "v3")
  OBVIOUS
<1>7. Fits(thread[t].sock, reply, close)
  <2>1. version = "v3" => LET c == thread[t].sock IN
           Whole(c) \/ conn[c].client = "closed" \/ conn[c].server_error = "seen"
    BY <1>2 DEF Own, CutOk
  <2> QED
    BY <1>5, <1>6, <2>1 DEF Fits
<1>8. Answer(t, reply, close, to)
  BY <1>3, <1>4
<1>9. to = IF version = "v1" THEN "accept" ELSE IF version = "v2" THEN "free" ELSE "lock"
  BY <1>4, <1>6
<1> QED
  BY <1>2, <1>5, <1>7, <1>8, <1>9, AnswerIs

\* compile_task, run_task and diff_task with their callers.
LEMMA CompileShape ==
    ASSUME OldInv, NEW t \in Threads, version \in {"v2", "v3"},
           thread[t].at = "compile_task", NEW nature \in Natures, Gcc(t, nature),
           UNCHANGED <<version, client, program, shell, errors, head, tail, next, pool_size>>,
           IF nature = "broken"
           THEN Answer(t, [verdict |-> "COMPILE_ERROR", text |-> <<>>], FALSE,
                       IF version = "v2" THEN "free" ELSE "lock")
           ELSE Step(t, "compile_task", "run_task") /\ conn' = conn
    PROVE  Shaped
<1>1. AtWork(t)
  BY DEF AtWork
<1>2. t \in AllThreads /\ Own(t) /\ thread[t].sock \in Conns /\ TypeInv
  BY <1>1, AtWorkOwns DEF OldInv
<1>3. PICK c \in Conns : c = thread[t].sock
  BY <1>2
<1>4. /\ FilesOf(t)
      /\ IF nature = "broken" THEN file' = file ELSE file'[t].binary.nature = nature
      /\ file[t].source.by = c /\ file[t].source.units = Units[c[1]] => nature = program[c[1]]
  BY <1>2, GccIs
<1>5. Whole(c) => nature = program[c[1]]
  BY <1>2, <1>3, <1>4 DEF Own, FilesOk
<1>6. CASE nature = "broken"
  <2>1. "COMPILE_ERROR" \in Verdicts /\ VerdictOf("broken") = "COMPILE_ERROR"
    BY DEF Verdicts, VerdictOf
  <2>2. file'[t] = file[t]
    BY <1>4, <1>6
  <2>3. Whole(c) => "COMPILE_ERROR" = VerdictOf(program[c[1]])
    BY <1>5, <1>6, <2>1
  <2>4. "COMPILE_ERROR" \in NotClosed
    BY DEF NotClosed, Verdicts
  <2> QED
    BY <1>3, <1>4, <1>6, <2>1, <2>2, <2>3, <2>4, VerdictShape
<1>7. CASE nature # "broken"
  <2>1. /\ file'[t].binary.nature # "broken"
        /\ Whole(c) => file'[t].binary.nature = program[c[1]]
    BY <1>4, <1>5, <1>7
  <2> QED
    BY <1>3, <1>4, <1>7, <2>1, NextTaskShape
<1> QED
  BY <1>6, <1>7

LEMMA RunShape ==
    ASSUME OldInv, NEW t \in Threads, version \in {"v2", "v3"},
           thread[t].at = "run_task", Ends(t), Prints(t),
           UNCHANGED <<version, client, program, shell, errors, head, tail, next, pool_size>>,
           IF StatusZero(t)
           THEN Step(t, "run_task", "diff_task") /\ conn' = conn
           ELSE Answer(t, [verdict |-> "RUNTIME_ERROR", text |-> <<>>], FALSE,
                       IF version = "v2" THEN "free" ELSE "lock")
    PROVE  Shaped
<1>1. AtWork(t)
  BY DEF AtWork
<1>2. t \in AllThreads /\ Own(t) /\ thread[t].sock \in Conns /\ TypeInv
  BY <1>1, AtWorkOwns DEF OldInv
<1>3. PICK c \in Conns : c = thread[t].sock
  BY <1>2
<1>4. PICK nature : nature = file[t].binary.nature
  OBVIOUS
<1>5. /\ nature \in Natures /\ nature # "broken" /\ nature # "endless"
      /\ Whole(c) => nature = program[c[1]]
      /\ StatusZero(t) <=> nature \in {"right", "wrong"}
  BY <1>2, <1>3, <1>4
     DEF Own, FilesOk, TypeInv, FileRecords, Ends, StatusZero, Binary, FileOf
<1>6. /\ FilesOf(t) /\ file'[t].binary = file[t].binary
      /\ file'[t].output.expected <=> nature \in {"right", "returns"}
  BY <1>2, <1>4, PrintsIs
<1>7. CASE StatusZero(t)
  <2>1. Whole(c) => /\ program[c[1]] \in {"right", "wrong"}
                    /\ file'[t].output.expected <=> program[c[1]] = "right"
    BY <1>5, <1>6, <1>7
  <2> QED
    BY <1>3, <1>6, <1>7, <2>1, NextTaskShape
<1>8. CASE ~ StatusZero(t)
  <2>1. "RUNTIME_ERROR" \in Verdicts /\ nature \in {"crashes", "returns"}
    BY <1>5, <1>8 DEF Verdicts, Natures
  <2>2. VerdictOf(nature) = "RUNTIME_ERROR"
    BY <2>1 DEF VerdictOf
  <2>3. Whole(c) => "RUNTIME_ERROR" = VerdictOf(program[c[1]])
    BY <1>5, <2>2
  <2>4. "RUNTIME_ERROR" \in NotClosed
    BY DEF NotClosed, Verdicts
  <2> QED
    BY <1>3, <1>6, <1>8, <2>1, <2>3, <2>4, VerdictShape
<1> QED
  BY <1>7, <1>8

LEMMA DiffShape ==
    ASSUME OldInv, NEW t \in Threads, version \in {"v2", "v3"},
           thread[t].at = "diff_task", file' = file,
           UNCHANGED <<version, client, program, shell, errors, head, tail, next, pool_size>>,
           NEW close \in BOOLEAN, close <=> version = "v3",
           Answer(t, [verdict |-> IF Output(t).expected THEN "ACCEPTED" ELSE "WRONG_ANSWER",
                      text |-> <<>>], close,
                  IF version = "v2" THEN "free" ELSE "lock")
    PROVE  Shaped
<1>1. AtWork(t)
  BY DEF AtWork
<1>2. t \in AllThreads /\ Own(t) /\ thread[t].sock \in Conns /\ TypeInv
  BY <1>1, AtWorkOwns DEF OldInv
<1>3. PICK c \in Conns : c = thread[t].sock
  BY <1>2
<1>4. PICK verdict : verdict = IF Output(t).expected THEN "ACCEPTED" ELSE "WRONG_ANSWER"
  OBVIOUS
<1>5. verdict \in Verdicts
  BY <1>4 DEF Verdicts
<1>6. shell = "bash" /\ Whole(c) => verdict = VerdictOf(program[c[1]])
  <2>1. shell = "bash" /\ Whole(c) => /\ program[c[1]] \in {"right", "wrong"}
                                      /\ file[t].output.expected <=> program[c[1]] = "right"
    BY <1>2, <1>3 DEF Own, FilesOk
  <2>2. VerdictOf("right") = "ACCEPTED" /\ VerdictOf("wrong") = "WRONG_ANSWER"
    BY DEF VerdictOf
  <2>3. Output(t) = file[t].output
    BY DEF Output, FileOf
  <2> QED
    BY <1>4, <2>1, <2>2, <2>3
<1>7. FilesOf(t)
  BY <1>2 DEF TypeInv, FilesOf
<1>8. close <=> verdict \notin NotClosed
  BY <1>4 DEF NotClosed, Verdicts
<1> QED
  BY <1>3, <1>4, <1>5, <1>6, <1>7, <1>8, VerdictShape

\* v2/server.c:166-180.
LEMMA V2MainShape ==
    ASSUME OldInv, version = "v2", UNCHANGED <<head, tail, next, pool_size>>, V2Accept \/ V2Exit
    PROVE  Shaped
<1>1. Main \in AllThreads /\ TypeInv
  BY DEF AllThreads, OldInv
<1>2. UNCHANGED <<version, client, program, shell, errors, file>>
  BY DEF V2Accept, V2Exit, v2Unchanged
<1>3. CASE V2Exit
  <2>1. FilesOf(Main) /\ ServerEnds /\ thread' = thread
    BY <1>1, <1>2, <1>3 DEF TypeInv, FilesOf, V2Exit
  <2>2. Stops(Main)
    BY <1>1, <1>2, <2>1, EndsIs
  <2> QED
    BY <1>1, <2>2 DEF Shaped
<1>4. CASE V2Accept
  <2>1. PICK c \in Waiting, t \in Threads :
           /\ thread[t].at = "free"
           /\ thread' = [thread EXCEPT ![t].at = "read", ![t].sock = c]
           /\ conn' = [conn EXCEPT ![c] = Accepted(c)]
    BY <1>4 DEF V2Accept
  <2>2. /\ c \in Conns /\ conn[c].server = "waiting" /\ c # NoConn
        /\ t \in AllThreads /\ t # Main
    BY NoConnIsNone, JudgingAssumption DEF Waiting, AllThreads
  <2>3. /\ thread' \in [AllThreads -> ThreadRecords]
        /\ \A u \in AllThreads : u # t => thread'[u] = thread[u]
        /\ thread'[t].at = "read" /\ thread'[t].sock = c
    BY <1>1, <2>1, <2>2, TakesIs DEF Steps
  <2>4. /\ SameEnds(Accepted(c), conn[c])
        /\ Accepted(c).server = "open" /\ Accepted(c).taken = conn[c].taken
        /\ Accepted(c).reply = conn[c].reply
        /\ Accepted(c).server_error = conn[c].server_error
    BY <2>2, AcceptedIs, SockTypes
  <2>5. /\ conn' \in [Conns -> ConnRecords] /\ conn'[c] = Accepted(c)
        /\ \A d \in Conns : d # c => conn'[d] = conn[d]
    BY <2>1, <2>2, <2>4, CallIs
  <2>6. FilesOk(t)' /\ CutOk(t)' /\ AtWork(t)'
    BY <1>2, <2>3 DEF FilesOk, CutOk, AtWork
  <2>7. Own(t)'
    BY <1>2, <2>2, <2>3, <2>6, WorkOwn
  <2>8. thread[t].sock = NoConn
    BY <2>1, <2>2 DEF OldInv, Own, StepOk
  <2>9. Frame(t)
    BY <1>1, <1>2, <2>3, <2>5 DEF TypeInv, Frame
  <2>10. Accepts(t, c)
    BY <1>2, <2>2, <2>3, <2>4, <2>5, <2>7, <2>8, <2>9 DEF Accepts
  <2> QED
    BY <2>2, <2>10 DEF Shaped
<1> QED
  BY <1>3, <1>4

\* v2/server.c:97-113.
LEMMA V2ReadShape ==
    ASSUME OldInv, version = "v2", UNCHANGED <<head, tail, next, pool_size>>,
           NEW t \in Threads, V2Read(t)
    PROVE  Shaped
<1>1. Step(t, "read", "compile_task") /\ UNCHANGED <<version, client, program, shell, errors>>
  BY DEF V2Read, v2Unchanged
<1>2. AtWork(t)
  BY <1>1 DEF Step, AtWork
<1>3. t \in AllThreads /\ t # Main /\ thread[t].sock \in Conns /\ TypeInv
  BY <1>2, AtWorkOwns DEF OldInv
<1>4. PICK c \in Conns : c = thread[t].sock
  BY <1>3
<1>5. /\ thread' \in [AllThreads -> ThreadRecords]
      /\ \A u \in AllThreads : u # t => thread'[u] = thread[u]
      /\ thread[t].at = "read" /\ thread'[t].at = "compile_task"
      /\ thread'[t].sock = thread[t].sock
  BY <1>1, <1>3, StepIs DEF Steps
<1>6. conn[c] \in ConnRecords /\ conn[c].taken = 0
  BY <1>4, <1>5, <1>3, SockTypes, NoConnIsNone DEF OldInv, HoldInv, Unread
<1>7. PICK n \in {0, 1}, r \in {Taken(c, 0), Taken(c, 1), Failed(c)} :
         /\ r = Taken(c, n) \/ (n = 0 /\ r = Failed(c))
         /\ conn' = [conn EXCEPT ![c] = r]
         /\ file' = [file EXCEPT ![FileOf(t)].source = [by |-> c, units |-> n]]
  BY <1>4 DEF V2Read, Sock, HasFailed
<1>8. /\ SameEnds(r, conn[c]) /\ r.server = conn[c].server /\ r.reply = conn[c].reply
      /\ r.taken = n
  BY <1>6, <1>7, TakenIs, FailedIs
<1>9. /\ conn'[c] = r
  BY <1>7, <1>8, CallIs
<1>10. FilesOf(t) /\ file'[t].source = [by |-> c, units |-> n]
  <2>1. [by |-> c, units |-> n] \in [by : Sides, units : Nat]
    BY DEF Sides
  <2> QED
    BY <1>3, <1>7, <2>1, SourceIs
<1>11. Whole(c)' => n = Units[c[1]]
  BY <1>1, <1>8, <1>9, ConnParts DEF Whole, Stream
<1>12. FilesOk(t)' /\ CutOk(t)' /\ AtWork(t)'
  BY <1>1, <1>4, <1>5, <1>10, <1>11 DEF FilesOk, CutOk, AtWork
<1> QED
  BY <1>1, <1>2, <1>4, <1>5, <1>7, <1>8, <1>10, <1>12, GoesOnShape

LEMMA V2Shape ==
    ASSUME OldInv, V2Next
    PROVE  Shaped
<1>1. version = "v2" /\ UNCHANGED <<head, tail, next, pool_size>>
  BY DEF V2Next, V2Main, V2Thread, poolVars, linkedQueueVars
<1>2. CASE V2Main
  BY <1>1, <1>2, V2MainShape DEF V2Main
<1>3. ASSUME NEW t \in Threads, V2Thread(t) PROVE Shaped
  <2>1. CASE V2Read(t)
    BY <1>1, <2>1, V2ReadShape
  <2>2. CASE V2Compile(t)
    <3>1. PICK nature \in Natures :
             /\ thread[t].at = "compile_task"
             /\ Gcc(t, nature)
             /\ IF nature = "broken"
                THEN V2Answer(t, "COMPILE_ERROR")
                ELSE Step(t, "compile_task", "run_task") /\ UNCHANGED <<v2Unchanged, up, conn>>
      BY <2>2 DEF V2Compile
    <3> QED
      BY <1>1, <3>1, CompileShape DEF V2Answer, v2Unchanged
  <2>3. CASE V2Run(t)
    BY <1>1, <2>3, RunShape DEF V2Run, V2Answer, v2Unchanged
  <2>4. CASE V2Diff(t)
    BY <1>1, <2>4, DiffShape DEF V2Diff, V2Answer, v2Unchanged
  <2> QED
    BY <1>3, <2>1, <2>2, <2>3, <2>4 DEF V2Thread, HandleClientV2
<1> QED
  BY <1>2, <1>3 DEF V2Next

-----------------------------------------------------------------------------
(* Version 3                                                               *)

LEMMA V3AcceptShape ==
    ASSUME OldInv, version = "v3", V3Accept \/ V3Exit
    PROVE  Shaped
<1>1. Main \in AllThreads /\ TypeInv
  BY DEF AllThreads, OldInv
<1>2. UNCHANGED <<version, client, program, shell, errors, file, head, tail, next, pool_size>>
  BY DEF V3Accept, V3Exit, v3Unchanged, poolVars, linkedQueueVars
<1>3. CASE V3Exit
  <2>1. FilesOf(Main) /\ ServerEnds /\ thread' = thread
    BY <1>1, <1>2, <1>3 DEF TypeInv, FilesOf, V3Exit
  <2>2. Stops(Main)
    BY <1>1, <1>2, <2>1, EndsIs
  <2> QED
    BY <1>1, <2>2 DEF Shaped
<1>4. CASE V3Accept
  <2>1. PICK c \in Waiting :
           /\ thread[Main].at = "accept"
           /\ thread' = [thread EXCEPT ![Main].at = "enqueue", ![Main].sock = c]
           /\ conn' = [conn EXCEPT ![c] = Accepted(c)]
    BY <1>4 DEF V3Accept
  <2>2. c \in Conns /\ conn[c].server = "waiting" /\ c # NoConn
    BY NoConnIsNone DEF Waiting
  <2>3. /\ thread' \in [AllThreads -> ThreadRecords]
        /\ \A u \in AllThreads : u # Main => thread'[u] = thread[u]
        /\ thread'[Main].at = "enqueue" /\ thread'[Main].sock = c
    BY <1>1, <2>1, <2>2, TakesIs DEF Steps
  <2>4. /\ SameEnds(Accepted(c), conn[c])
        /\ Accepted(c).server = "open" /\ Accepted(c).taken = conn[c].taken
        /\ Accepted(c).reply = conn[c].reply
        /\ Accepted(c).server_error = conn[c].server_error
    BY <2>2, AcceptedIs, SockTypes
  <2>5. /\ conn' \in [Conns -> ConnRecords] /\ conn'[c] = Accepted(c)
        /\ \A d \in Conns : d # c => conn'[d] = conn[d]
    BY <2>1, <2>2, <2>4, CallIs
  <2>6. FilesOk(Main)' /\ CutOk(Main)' /\ TextsOk(Main)'
    BY <2>3 DEF FilesOk, CutOk, TextsOk
  <2>7. Own(Main)'
    BY <1>2, <2>2, <2>3, <2>6 DEF Own, StepOk
  <2>8. thread[Main].sock = NoConn
    BY <1>1, <2>1 DEF OldInv, Own, StepOk
  <2>9. Frame(Main)
    BY <1>1, <1>2, <2>3, <2>5 DEF TypeInv, Frame
  <2>10. Accepts(Main, c)
    BY <1>2, <2>2, <2>3, <2>4, <2>5, <2>7, <2>8, <2>9 DEF Accepts
  <2> QED
    BY <1>1, <2>2, <2>10 DEF Shaped
<1> QED
  BY <1>3, <1>4

\* v3/server.c:190-195.
LEMMA V3EnqueueShape ==
    ASSUME OldInv, version = "v3", V3Enqueue
    PROVE  Shaped
<1>1. /\ Main \in AllThreads /\ Main \notin Threads /\ TypeInv
      /\ \A u \in AllThreads : u = Main \/ u \in Threads
  BY JudgingAssumption DEF AllThreads, OldInv
<1>2. /\ UNCHANGED <<version, client, program, shell, errors, file, conn>>
      /\ thread[Main].at = "enqueue" /\ pool_size' = pool_size + 1
  BY DEF V3Enqueue, v3Unchanged
<1>3. PICK d : d = thread[Main].sock
  OBVIOUS
<1>4. d \in Conns /\ Enqueue(d)
  <2>1. d \in Conns \cup {NoConn} /\ Own(Main)
    BY <1>1, <1>3, SockTypes DEF OldInv
  <2> QED
    BY <1>2, <1>3, <2>1 DEF Own, StepOk, V3Enqueue, Sock
<1>5. PICK m : m = [thread[Main] EXCEPT !.at = "accept", !.sock = NoConn]
  OBVIOUS
<1>6. m \in ThreadRecords /\ m.at = "accept" /\ m.sock = NoConn
  BY <1>1, <1>5 DEF TypeInv, ThreadRecords, Steps, Sides
<1>7. PICK accepts : accepts = [thread EXCEPT ![Main] = m]
  OBVIOUS
<1>8. /\ accepts \in [AllThreads -> ThreadRecords] /\ accepts[Main] = m
      /\ \A u \in Threads : accepts[u] = thread[u]
  BY <1>1, <1>6, <1>7 DEF TypeInv, AllThreads
<1>9. thread' = accepts \/ \E t \in Asleep : thread' = [accepts EXCEPT ![t].at = "lock"]
  <2>1. accepts = [thread EXCEPT ![Main] = [@ EXCEPT !.at = "accept", !.sock = NoConn]]
    BY <1>1, <1>5, <1>7 DEF TypeInv
  <2> QED
    BY <2>1 DEF V3Enqueue
<1>10. /\ thread' \in [AllThreads -> ThreadRecords] /\ thread'[Main] = m
       /\ \A u \in Threads :
             \/ thread'[u] = thread[u]
             \/ /\ thread[u].at = "asleep"
                /\ thread'[u].at = "lock" /\ thread'[u].sock = NoConn
  <2>1. CASE thread' = accepts
    BY <1>8, <2>1
  <2>2. ASSUME NEW t \in Asleep, thread' = [accepts EXCEPT ![t].at = "lock"]
        PROVE  /\ thread' \in [AllThreads -> ThreadRecords] /\ thread'[Main] = m
               /\ \A u \in Threads :
                     \/ thread'[u] = thread[u]
                     \/ /\ thread[u].at = "asleep"
                        /\ thread'[u].at = "lock" /\ thread'[u].sock = NoConn
    <3>1. t \in Threads /\ t # Main /\ t \in AllThreads /\ thread[t].at = "asleep"
      BY <1>1 DEF Asleep, AllThreads
    <3>2. thread[t] \in ThreadRecords /\ thread[t].sock = NoConn
      BY <1>1, <3>1 DEF TypeInv, OldInv, Own, StepOk
    <3>3. PICK r : r = [thread[t] EXCEPT !.at = "lock"]
      OBVIOUS
    <3>4. r \in ThreadRecords /\ r.at = "lock" /\ r.sock = NoConn
      BY <3>2, <3>3 DEF ThreadRecords, Steps
    <3>5. thread' = [accepts EXCEPT ![t] = r]
      BY <1>8, <2>2, <3>1, <3>3
    <3> QED
      BY <1>1, <1>8, <3>1, <3>4, <3>5
  <2> QED
    BY <1>9, <2>1, <2>2
<1>11. Frame(Main)
  BY <1>1, <1>2, <1>10, SockTypes DEF TypeInv, Frame
<1>12. ASSUME NEW u \in AllThreads PROVE Own(u)'
  <2>1. ASSUME u # Main, thread'[u] = thread[u] PROVE Own(u)'
    BY <1>1, <1>2, <1>11, <2>1, OthersOwn
  <2>2. ASSUME thread'[u].sock = NoConn,
               thread'[u].at = IF u = Main THEN "accept" ELSE "lock"
        PROVE  Own(u)'
    <3>1. StepOk(u)'
      BY <1>2, <2>2 DEF StepOk
    <3>2. FilesOk(u)' /\ CutOk(u)' /\ TextsOk(u)'
      BY <2>2 DEF FilesOk, CutOk, TextsOk
    <3> QED
      BY <3>1, <3>2 DEF Own
  <2> QED
    BY <1>1, <1>6, <1>10, <2>1, <2>2
<1>13. Enqueues
  BY <1>2, <1>3, <1>4, <1>6, <1>10, <1>11, <1>12 DEF Enqueues
<1> QED
  BY <1>13 DEF Shaped

\* v3/server.c:129-136.
LEMMA V3WorkerShape ==
    ASSUME OldInv, version = "v3", NEW t \in Threads, WorkerFunction(t) \/ SpuriousWakeup(t)
    PROVE  Shaped
<1>1. t \in AllThreads /\ t # Main /\ TypeInv /\ Own(t)
  BY JudgingAssumption DEF AllThreads, OldInv
<1>2. UNCHANGED <<version, client, program, shell, errors, file, conn>>
  BY DEF WorkerFunction, SpuriousWakeup, v3Unchanged
<1>3. ASSUME NEW from \in {"lock", "asleep"}, NEW to \in {"lock", "asleep"},
             Step(t, from, to), UNCHANGED <<head, tail, next, pool_size>>
      PROVE  Shaped
  <2>1. /\ thread' \in [AllThreads -> ThreadRecords]
        /\ \A u \in AllThreads : u # t => thread'[u] = thread[u]
        /\ thread[t].at = from /\ thread'[t].at = to /\ thread'[t].sock = thread[t].sock
    <3>1. to \in Steps
      BY DEF Steps
    <3> QED
      BY <1>1, <1>3, <3>1, StepIs
  <2>2. thread[t].sock = NoConn
    BY <1>1, <2>1 DEF Own, StepOk
  <2>3. StepOk(t)'
    BY <1>1, <1>2, <2>1, <2>2 DEF StepOk
  <2>4. FilesOk(t)' /\ CutOk(t)' /\ TextsOk(t)'
    BY <2>1 DEF FilesOk, CutOk, TextsOk
  <2>5. Frame(t)
    BY <1>1, <1>2, <2>1, SockTypes DEF TypeInv, Frame
  <2>6. Moves(t)
    BY <1>2, <1>3, <2>1, <2>3, <2>4, <2>5, SockTypes DEF Moves, Own
  <2> QED
    BY <1>1, <2>6 DEF Shaped
<1>4. ASSUME NEW d \in Conns, thread[t].at = "lock", Dequeue(d),
             pool_size # 0, pool_size' = pool_size - 1,
             thread' = [thread EXCEPT ![t].at = "recv_size", ![t].sock = d]
      PROVE  Shaped
  <2>1. /\ thread' \in [AllThreads -> ThreadRecords]
        /\ \A u \in AllThreads : u # t => thread'[u] = thread[u]
        /\ thread'[t].at = "recv_size" /\ thread'[t].sock = d
    BY <1>1, <1>4, TakesIs DEF Steps
  <2>2. thread[t].sock = NoConn /\ d # NoConn
    BY <1>1, <1>4, NoConnIsNone DEF Own, StepOk
  <2>3. FilesOk(t)' /\ CutOk(t)' /\ AtWork(t)'
    BY <1>2, <2>1 DEF FilesOk, CutOk, AtWork
  <2>4. Own(t)'
    BY <1>1, <1>2, <2>1, <2>2, <2>3, WorkOwn
  <2>5. Frame(t)
    BY <1>1, <1>2, <2>1, SockTypes DEF TypeInv, Frame
  <2>6. Dequeues(t)
    BY <1>2, <1>4, <2>1, <2>2, <2>4, <2>5 DEF Dequeues
  <2> QED
    BY <1>1, <2>6 DEF Shaped
<1>5. CASE SpuriousWakeup(t)
  BY <1>3, <1>5 DEF SpuriousWakeup, poolVars, linkedQueueVars
<1>6. CASE WorkerFunction(t)
  BY <1>3, <1>4, <1>6 DEF WorkerFunction, linkedQueueVars
<1> QED
  BY <1>5, <1>6

\* A step of recv_file, of which r is what is left of the connection.
LEMMA RecvShape ==
    ASSUME OldInv, version = "v3", NEW t \in Threads, NEW c \in Conns, c = thread[t].sock,
           thread[t].at \in {"recv_size", "recv_file"}, FilesOf(t),
           UNCHANGED <<version, client, program, shell, errors, head, tail, next, pool_size>>,
           NEW from, NEW to \in {"recv_file", "compile_task"}, Step(t, from, to),
           NEW r, conn' = [conn EXCEPT ![c] = r],
           SameEnds(r, conn[c]), r.server = conn[c].server, r.reply = conn[c].reply,
           file'[t].source.by = c,
           to = "recv_file" => r.taken = file'[t].source.units + 1,
           to = "compile_task" =>
              IF r.taken = Units[c[1]] + 1 THEN file'[t].source.units = Units[c[1]]
              ELSE conn[c].client = "closed" \/ r.server_error = "seen"
    PROVE  Shaped
<1>1. AtWork(t)
  BY DEF AtWork
<1>2. t \in AllThreads /\ t # Main /\ TypeInv
  BY <1>1, AtWorkOwns DEF OldInv
<1>3. /\ thread' \in [AllThreads -> ThreadRecords]
      /\ \A u \in AllThreads : u # t => thread'[u] = thread[u]
      /\ thread'[t].at = to /\ thread'[t].sock = c
  <2>1. to \in Steps
    BY DEF Steps
  <2> QED
    BY <1>2, <2>1, StepIs
<1>4. conn'[c] = r
  BY CallIs
<1>5. Whole(c)' <=> r.taken = Units[c[1]] + 1
  BY <1>4 DEF Whole, Stream
<1>6. FilesOk(t)'
  BY <1>3, <1>4, <1>5 DEF FilesOk
<1>7. CutOk(t)'
  BY <1>3, <1>4, <1>5 DEF CutOk, SameEnds
<1>8. AtWork(t)'
  BY <1>3 DEF AtWork
<1> QED
  BY <1>1, <1>3, <1>6, <1>7, <1>8, GoesOnShape

\* v3/common/common.c:53-85.
LEMMA V3RecvShape ==
    ASSUME OldInv, version = "v3", NEW t \in Threads, RecvFileV3(t)
    PROVE  Shaped
<1>1. UNCHANGED <<version, client, program, shell, errors, head, tail, next, pool_size>>
  BY DEF RecvFileV3, V3RecvSize, V3RecvData, V3RecvEnds, V3RecvCrashes, v3Unchanged,
     poolVars, linkedQueueVars
<1>2. thread[t].at \in {"recv_size", "recv_file"}
  BY DEF RecvFileV3, V3RecvSize, V3RecvData, V3RecvEnds, V3RecvCrashes
<1>3. AtWork(t)
  BY <1>2 DEF AtWork
<1>4. t \in AllThreads /\ Own(t) /\ thread[t].sock \in Conns /\ TypeInv
  BY <1>3, AtWorkOwns DEF OldInv
<1>5. PICK c \in Conns : c = thread[t].sock
  BY <1>4
<1>6. /\ conn[c] \in ConnRecords /\ SameEnds(conn[c], conn[c]) /\ conn[c].taken \in Nat
      /\ Units[c[1]] \in Nat \ {0} /\ Stream(c[1]) = Units[c[1]] + 1
      /\ conn = [conn EXCEPT ![c] = conn[c]]
  BY SockTypes, ConnParts DEF OldInv, TypeInv, ConnRecords, Stream
<1>7. /\ SameEnds(Taken(c, 1), conn[c]) /\ Taken(c, 1).server = conn[c].server
      /\ Taken(c, 1).reply = conn[c].reply /\ Taken(c, 1).taken = conn[c].taken + 1
      /\ SameEnds(Failed(c), conn[c]) /\ Failed(c).server = conn[c].server
      /\ Failed(c).reply = conn[c].reply /\ Failed(c).taken = conn[c].taken
      /\ Failed(c).server_error = "seen"
  BY <1>6, TakenIs, FailedIs
<1>8. CASE V3RecvSize(t)
  <2>1. thread[t].at = "recv_size" /\ conn[c].taken = 0
    BY <1>4, <1>5, <1>8, NoConnIsNone DEF V3RecvSize, OldInv, HoldInv, Unread
  <2>2. /\ FilesOf(t) /\ file'[t].source.by = c /\ file'[t].source.units = 0
    <3>1. PICK s : s = [by |-> c, units |-> 0]
      OBVIOUS
    <3>2. s \in [by : Sides, units : Nat] /\ s.by = c /\ s.units = 0
      BY <3>1 DEF Sides
    <3>3. file' = [file EXCEPT ![FileOf(t)].source = s]
      BY <1>5, <1>8, <3>1 DEF V3RecvSize, Sock
    <3> QED
      BY <1>4, <3>2, <3>3, SourceIs
  <2>3. PICK to \in {"recv_file", "compile_task"}, r \in {Taken(c, 1), conn[c], Failed(c)} :
           /\ Step(t, "recv_size", to)
           /\ conn' = [conn EXCEPT ![c] = r]
           /\ \/ to = "recv_file" /\ r = Taken(c, 1)
              \/ to = "compile_task" /\ r = conn[c] /\ HasEnded(c)
              \/ to = "compile_task" /\ r = Failed(c)
    BY <1>5, <1>6, <1>8 DEF V3RecvSize, Sock
  <2>4. /\ SameEnds(r, conn[c]) /\ r.server = conn[c].server /\ r.reply = conn[c].reply
        /\ to = "recv_file" => r.taken = file'[t].source.units + 1
        /\ to = "compile_task" =>
              IF r.taken = Units[c[1]] + 1 THEN file'[t].source.units = Units[c[1]]
              ELSE conn[c].client = "closed" \/ r.server_error = "seen"
    BY <1>6, <1>7, <2>1, <2>2, <2>3 DEF HasEnded
  <2> QED
    BY <1>1, <1>2, <1>5, <2>2, <2>3, <2>4, RecvShape
<1>9. ASSUME thread[t].at = "recv_file"
      PROVE  /\ file[t].source.by = c /\ file[t].source.units \in Nat
             /\ conn[c].taken = file[t].source.units + 1
  BY <1>4, <1>5, <1>9 DEF Own, FilesOk, TypeInv, FileRecords
<1>10. CASE V3RecvData(t)
  <2>1. thread[t].at = "recv_file"
    BY <1>10 DEF V3RecvData
  <2>2. PICK n : n = file[t].source.units + 1
    OBVIOUS
  <2>3. /\ FilesOf(t) /\ file'[t].source.by = c /\ file'[t].source.units = n
    <3>1. PICK s : s = [file[t].source EXCEPT !.units = n]
      OBVIOUS
    <3>2. file[t].source \in [by : Sides, units : Nat] /\ n \in Nat
      BY <1>4, <1>9, <2>1, <2>2 DEF TypeInv, FileRecords
    <3>3. s \in [by : Sides, units : Nat] /\ s.by = c /\ s.units = n
      BY <1>9, <2>1, <3>1, <3>2
    <3>4. file' = [file EXCEPT ![FileOf(t)].source = s]
      BY <1>4, <1>10, <2>2, <3>1 DEF V3RecvData, FileOf, TypeInv
    <3> QED
      BY <1>4, <3>3, <3>4, SourceIs
  <2>4. PICK to \in {"recv_file", "compile_task"} :
           /\ to = IF conn[c].taken + 1 = Stream(c[1]) THEN "compile_task" ELSE "recv_file"
           /\ Step(t, "recv_file", to)
    BY <1>5, <1>10 DEF V3RecvData, Sock
  <2>5. conn' = [conn EXCEPT ![c] = Taken(c, 1)]
    BY <1>5, <1>10 DEF V3RecvData, Sock
  <2>6. /\ to = "recv_file" => Taken(c, 1).taken = file'[t].source.units + 1
        /\ to = "compile_task" => /\ Taken(c, 1).taken = Units[c[1]] + 1
                                  /\ file'[t].source.units = Units[c[1]]
    BY <1>6, <1>7, <1>9, <2>1, <2>2, <2>3, <2>4
  <2> QED
    BY <1>1, <1>2, <1>5, <1>7, <2>3, <2>4, <2>5, <2>6, RecvShape
<1>11. CASE V3RecvEnds(t)
  <2>1. thread[t].at = "recv_file" /\ file' = file /\ Step(t, "recv_file", "compile_task")
    BY <1>11 DEF V3RecvEnds
  <2>2. PICK r \in {conn[c], Failed(c)} :
           /\ conn' = [conn EXCEPT ![c] = r]
           /\ r = Failed(c) \/ HasEnded(c)
    BY <1>5, <1>6, <1>11 DEF V3RecvEnds, Sock
  <2>3. /\ SameEnds(r, conn[c]) /\ r.server = conn[c].server /\ r.reply = conn[c].reply
        /\ r.taken = conn[c].taken
        /\ conn[c].client = "closed" \/ r.server_error = "seen"
    BY <1>6, <1>7, <2>2 DEF HasEnded
  <2>4. /\ FilesOf(t) /\ file'[t].source.by = c
        /\ r.taken = Units[c[1]] + 1 => file'[t].source.units = Units[c[1]]
    BY <1>4, <1>6, <1>9, <2>1, <2>3 DEF TypeInv, FilesOf
  <2> QED
    BY <1>1, <1>2, <1>5, <2>1, <2>2, <2>3, <2>4, RecvShape
<1>12. CASE V3RecvCrashes(t)
  <2>1. FilesOf(t) /\ ServerEnds /\ thread' = thread /\ file' = file
    BY <1>4, <1>12 DEF V3RecvCrashes, TypeInv, FilesOf
  <2>2. Stops(t)
    BY <1>1, <1>4, <2>1, EndsIs
  <2> QED
    BY <1>4, <2>2 DEF Shaped
<1> QED
  BY <1>8, <1>10, <1>11, <1>12 DEF RecvFileV3

LEMMA V3TasksShape ==
    ASSUME OldInv, version = "v3", NEW t \in Threads,
           V3Compile(t) \/ V3Run(t) \/ V3RunDash(t) \/ V3Diff(t)
    PROVE  Shaped
<1>1. CASE V3Compile(t)
  <2>1. PICK nature \in Natures :
           /\ thread[t].at = "compile_task"
           /\ Gcc(t, nature)
           /\ IF nature = "broken" THEN V3Answer(t, "COMPILE_ERROR", FALSE)
                                   ELSE Goes(t, "compile_task", "run_task")
    BY <1>1 DEF V3Compile
  <2> QED
    BY <2>1, CompileShape DEF V3Answer, Goes, v3Unchanged, poolVars, linkedQueueVars
<1>2. CASE V3Run(t)
  BY <1>2, RunShape DEF V3Run, V3Answer, Goes, v3Unchanged, poolVars, linkedQueueVars
<1>3. CASE V3RunDash(t)
  <2>1. /\ shell = "dash" /\ Step(t, "run_task", "diff_task")
        /\ UNCHANGED <<version, client, program, shell, errors, head, tail, next, pool_size, conn>>
    BY <1>3 DEF V3RunDash, Goes, v3Unchanged, poolVars, linkedQueueVars
  <2>2. t \in AllThreads /\ TypeInv
    BY DEF AllThreads, OldInv
  <2>3. file[t].binary.by \in Sides
    BY <2>2 DEF TypeInv, FileRecords
  <2>4. PICK o : o = [by |-> file[t].binary.by, expected |-> FALSE]
    OBVIOUS
  <2>5. o \in [by : Sides, expected : BOOLEAN]
    BY <2>3, <2>4
  <2>6. file' = [file EXCEPT ![FileOf(t)].output = o]
    BY <1>3, <2>4 DEF V3RunDash, Binary, FileOf
  <2>7. FilesOf(t)
    BY <2>2, <2>5, <2>6, OutputIs
  <2> QED
    BY <2>1, <2>7, NextTaskShape
<1>4. CASE V3Diff(t)
  BY <1>4, DiffShape DEF V3Diff, V3Answer, v3Unchanged, poolVars, linkedQueueVars
<1> QED
  BY <1>1, <1>2, <1>3, <1>4

LEMMA V3Shape ==
    ASSUME OldInv, V3Next
    PROVE  Shaped
BY V3AcceptShape, V3EnqueueShape, V3WorkerShape, V3RecvShape, V3TasksShape
   DEF V3Next, V3Main, V3Thread, V3Wakes, HandleClientV3

-----------------------------------------------------------------------------
(* The theorems                                                            *)

LEMMA OldInitInv ==
    ASSUME OldInit
    PROVE  OldInv
<1>1. /\ version \in {"v1", "v2", "v3"} /\ program \in [Clients -> Natures]
      /\ errors = <<>> /\ head = NULL /\ tail = NULL /\ next = [n \in Conns |-> NULL]
      /\ NULL = NoConn
  BY ClientAssumption, JudgingAssumption, NoConnIsNone
     DEF OldInit, JudgingInit, ClientsInit, PoolInit, LinkedQueueInit
<1>2. client \in [Clients -> ClientRecords]
  BY DEF OldInit, JudgingInit, ClientsInit, ClientRecords
<1>3. /\ conn \in [Conns -> ConnRecords]
      /\ \A c \in Conns : /\ conn[c].server = "none" /\ conn[c].taken = 0
                          /\ conn[c].reply = NoReply /\ conn[c].server_error = "none"
  BY DEF OldInit, JudgingInit, ClientsInit, ConnRecords
<1>4. thread = [t \in AllThreads |->
                   [at |-> IF t = Main THEN "accept" ELSE IF version = "v3" THEN "lock" ELSE "free",
                    sock |-> NoConn, verdict |-> "none"]]
  BY DEF OldInit, JudgingInit
<1>5. /\ thread \in [AllThreads -> ThreadRecords]
      /\ \A t \in AllThreads :
            /\ thread[t].sock = NoConn
            /\ thread[t].at = IF t = Main THEN "accept"
                              ELSE IF version = "v3" THEN "lock" ELSE "free"
  BY <1>4 DEF ThreadRecords, Steps, Sides
<1>6. file \in [AllThreads -> FileRecords]
  BY DEF OldInit, JudgingInit, FileRecords, NoSource, NoBinary, NoOutput, Sides, Natures
<1>7. TypeInv
  BY <1>1, <1>2, <1>3, <1>5, <1>6 DEF TypeInv, Sides
<1>8. AheadInv /\ HoldInv
  BY <1>3, <1>5 DEF AheadInv, HoldInv, Unread
<1>9. ListInv
  BY <1>1, NoConnIsNone DEF ListInv, Linked, Listed
<1>10. ASSUME NEW t \in AllThreads PROVE Own(t)
  <2>1. StepOk(t)
    BY <1>1, <1>5 DEF StepOk
  <2>2. FilesOk(t) /\ CutOk(t) /\ TextsOk(t)
    BY <1>5 DEF FilesOk, CutOk, TextsOk
  <2> QED
    BY <2>1, <2>2 DEF Own
<1> QED
  BY <1>3, <1>7, <1>8, <1>9, <1>10 DEF OldInv

(***************************************************************************)
(* The invariant of versions 1, 2 and 3: whose connection each thread and  *)
(* each node of v3/myqueue.c has, what the files of a thread hold at each  *)
(* of its steps, and what its answer says of them (v1/server.c:44-153,     *)
(* v2/server.c:97-137, v3/server.c:83-142).                                *)
(***************************************************************************)
THEOREM OldGradersInvariant == OldSpec => []OldInv
<1>1. OldInit => OldInv
  BY OldInitInv
<1>2. OldInv /\ [OldNext]_oldVars => OldInv'
  <2> SUFFICES ASSUME OldInv, [OldNext]_oldVars PROVE OldInv'
    OBVIOUS
  <2>1. CASE OldNext
    BY <2>1, ClientsInv, ShapedInv, V1Shape, V2Shape, V3Shape DEF OldNext
  <2>2. CASE UNCHANGED oldVars
    <3>1. UNCHANGED <<version, client, conn, program, shell, thread, file, errors, head,
                      tail, next>>
      BY <2>2 DEF oldVars, poolVars, linkedQueueVars
    <3>2. TypeInv' /\ AheadInv' /\ HoldInv' /\ ListInv'
      BY <3>1
         DEF OldInv, TypeInv, AheadInv, Ahead, HoldInv, ListInv, Linked, Listed, Unread,
             Outside
    <3>3. \A t \in AllThreads : Own(t)'
      BY <3>1, OwnRests DEF OldInv
    <3>4. \A c \in Conns : conn'[c].reply # NoReply => AnswerOk(c)'
      BY <3>1, AnswerRests DEF OldInv
    <3> QED
      BY <3>2, <3>3, <3>4 DEF OldInv
  <2> QED
    BY <2>1, <2>2
<1> QED
  BY <1>1, <1>2, PTL DEF OldSpec

(***************************************************************************)
(* However many clients submit at the same time, a file of version 2 or 3  *)
(* that was received whole gets the verdict of its own program             *)
(* (v2/server.c:104, v3/server.c:91: files named by thread).               *)
(***************************************************************************)
THEOREM OwnVerdicts23 == OldSpec => []VerdictsAreOwn
<1>1. OldInv => VerdictsAreOwn
  BY DEF OldInv, AnswerOk, VerdictsAreOwn
<1> QED
  BY <1>1, OldGradersInvariant, PTL

(***************************************************************************)
(* Version 1's PASS and OUTPUT ERROR show the output of the client's own   *)
(* program, and its COMPILATION ERROR begins with the client's own errors, *)
(* whatever error_output.txt held before.  RUNTIME ERROR is left out: it   *)
(* may hold nothing but others' errors (v1/server.c:65, 91-147).           *)
(***************************************************************************)
THEOREM OwnTexts1 == OldSpec => []TextsAreOwn
<1>1. OldInv => TextsAreOwn
  BY DEF OldInv, AnswerOk, TextsAreOwn
<1> QED
  BY <1>1, OldGradersInvariant, PTL

(***************************************************************************)
(* The loop of recv_file ends with the last byte, however the file is cut  *)
(* into packets, or the client is gone (v3/common/common.c:70-82).         *)
(***************************************************************************)
THEOREM WholeFiles3 == OldSpec => []WholeFilesJudged
<1>1. OldInv => WholeFilesJudged
  BY DEF OldInv, AnswerOk, WholeFilesJudged
<1> QED
  BY <1>1, OldGradersInvariant, PTL

=============================================================================
