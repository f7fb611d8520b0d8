------------------------- MODULE GraderVerdictProofs -------------------------
(***************************************************************************)
(* Proofs about the grading server, from a submission's id to its verdict: *)
(* that an id is issued only when its submission is safe, that a verdict   *)
(* is never overwritten, and that a client that asks after a verdict has   *)
(* been told is told the same.                                             *)
(***************************************************************************)
EXTENDS GraderServerProofs

\* The tasks the queue has known since it was empty, and has not lost.
Taken == InPool \cup finished

\* A handler between gen_uuid and the reply has a source file of its own, and
\* its id is known to the queue only when it is about to send it.
SubmitOk(w) ==
    Submitting(w) =>
        /\ Request(w).kind \in {"submit", "cut", "reset", "vanish"}
        /\ source[req_id[w]] # "absent"
        /\ at[w] # "recv_file" /\ Request(w).kind \in {"submit", "cut"}
             => source[req_id[w]] = "whole"
        /\ at[w] \in {"fclose_status", "add_task", "write_id"}
             => status[req_id[w]] # "absent"
        /\ at[w] = "write_id" <=> req_id[w] \in Taken
        /\ req_id[w] \notin lost

SubmitInv == \A w \in Workers : SubmitOk(w)

\* No two handlers submit under one id.
OwnerInv ==
    \A v, w \in Workers :
        Submitting(v) /\ Submitting(w) /\ req_id[v] = req_id[w] => v = w

\* gen_uuid returns no id that is in use.
FreshInv ==
    \A i \in Ids : i \in Taken \cup lost => source[i] # "absent"

\* A verdict is in the file exactly when its task has finished.
VerdictInv ==
    \A i \in Ids : status[i] \in Verdicts <=> i \in finished

\* An id that a client was sent is that of a whole submission.
IssuedInv ==
    \A i \in Issued :
        source[i] = "whole" /\ status[i] # "absent" /\ (i \in Taken \/ i \in lost)

\* A handler that reads a status file has opened the one it was asked for, and
\* after RECEIVED no verdict had been told when it was asked.
CheckOk(w) ==
    Reading(w) =>
        /\ Request(w).kind \in Checks \cup {"noid", "vanish"}
        /\ Request(w).kind \in Checks => req_id[w] = Request(w).id
        /\ Request(w).kind \in Checks /\ at[w] = "read_on" => Request(w).told = {}

CheckInv == \A w \in Workers : CheckOk(w)

\* A verdict that has been told is the one in the file, and whoever asked when
\* it had been told is told it.
ToldOk(c) ==
    /\ socket[c] = "none" => reply[c] = "none" /\ wants[c].kind = "none"
    /\ wants[c].kind \in Checks /\ reply[c] \in Verdicts
         => wants[c].id \in Ids /\ reply[c] = status[wants[c].id]
    /\ wants[c].told # {}
         => /\ wants[c].id \in Ids
            /\ status[wants[c].id] \in Verdicts
            /\ wants[c].told = {status[wants[c].id]}
    /\ wants[c].kind = "check" /\ reply[c] # "none" /\ wants[c].told # {}
         => reply[c] \in wants[c].told

ToldInv == \A c \in Conns : ToldOk(c)

GradeInv ==
    /\ BaseInv
    /\ SubmitInv /\ OwnerInv /\ FreshInv /\ VerdictInv /\ IssuedInv
    /\ CheckInv /\ ToldInv

-----------------------------------------------------------------------------
(* What the steps do to the queue and to the requests                      *)

\* An id enters the queue through AddWorkerTask only, and was not known before.
LEMMA TakenByWorker ==
    ASSUME BaseInv, NEW w \in Workers, WorkerStep(w), NEW i \in Ids
    PROVE  /\ i \in Taken' <=> i \in Taken \/ (AddWorkerTask(w) /\ i = req_id[w])
           /\ AddWorkerTask(w) => req_id[w] \in Ids /\ req_id[w] \notin Taken
<1> USE DEF Taken, BaseInv
<1>1. CASE AddWorkerTask(w)
  <2>1. Add(req_id[w]) /\ req_id[w] \in Ids
    BY <1>1 DEF AddWorkerTask, Step, LocalInv, Submitting
  <2>2. /\ InPool' = InPool \cup {req_id[w]} /\ finished' = finished
        /\ req_id[w] \notin InPool \cup finished
    BY <2>1, TaskKinds, AddEffect
  <2> QED
    BY <1>1, <2>1, <2>2
<1>2. CASE BeginTask(w) /\ Begin(w) /\ ~ AddWorkerTask(w)
  <2>1. InPool' = InPool /\ finished' = finished
    BY <1>2, BeginEffect
  <2> QED
    BY <1>2, <2>1
<1>3. CASE Finish(w) /\ ~ AddWorkerTask(w)
  <2>1. /\ InPool' = InPool \ {running[w]} /\ finished' = finished \cup {running[w]}
        /\ running[w] \in InPool
    BY <1>3, FinishEffect
  <2> QED
    BY <1>3, <2>1
<1>4. CASE UNCHANGED queueVars /\ ~ AddWorkerTask(w)
  <2>1. InPool' = InPool /\ finished' = finished
    BY <1>4, UnchangedPool
  <2> QED
    BY <1>4, <2>1
<1> QED
  BY <1>1, <1>2, <1>3, <1>4, PoolSteps

\* The other steps: main's queue no id, and the end of the process forgets what
\* had not finished.
LEMMA TakenByMain ==
    ASSUME BaseInv, NEW i \in Ids
    PROVE  /\ Accept \/ AddRequest \/ Restart \/ UNCHANGED serverVars
                => (i \in Taken' <=> i \in Taken)
           /\ Ends => (i \in Taken' <=> i \in finished)
<1> USE DEF Taken, BaseInv
<1>1. ASSUME AddRequest PROVE i \in Taken' <=> i \in Taken
  <2>1. main \in Conns /\ Add(main)
    BY <1>1 DEF AddRequest, DataInv
  <2>2. InPool' = InPool \cup {main} /\ finished' = finished
    BY <2>1, TaskKinds, AddEffect
  <2> QED
    BY <2>1, <2>2, TaskKinds
<1>2. ASSUME Ends PROVE i \in Taken' <=> i \in finished
  BY <1>2, EndsEmpty
<1>3. ASSUME Accept \/ Restart \/ UNCHANGED serverVars PROVE i \in Taken' <=> i \in Taken
  <2>1. UNCHANGED queueVars
    BY <1>3 DEF Accept, Restart, serverVars
  <2> QED
    BY <2>1, UnchangedPool
<1> QED
  BY <1>1, <1>2, <1>3

\* A worker's socket is open.
LEMMA WorkerSocket ==
    ASSUME BaseInv, NEW w \in Workers, running[w] \in Conns
    PROVE  socket[running[w]] = "open"
<1>1. running[w] \in InPool
  BY TaskKinds DEF BaseInv, PoolInv, QueueTypeOK, InPool, Range
<1> QED
  BY <1>1 DEF BaseInv, SocketInv

\* A request is settled when its connection is accepted.
LEMMA RequestKept ==
    ASSUME BaseInv, [ServerNext]_serverVars, NEW c \in Conns, socket[c] # "none"
    PROVE  wants'[c] = wants[c] /\ socket'[c] # "none"
<1> USE DEF BaseInv, DataInv, clients
<1>1. CASE Accept
  BY <1>1 DEF Accept
<1>2. CASE AddRequest \/ Restart
  BY <1>2 DEF AddRequest, Restart
<1>3. CASE UNCHANGED serverVars
  BY <1>3 DEF serverVars
<1>4. CASE Ends
  BY <1>4 DEF Ends
<1>5. ASSUME NEW w \in Workers,
             \/ BeginTask(w) \/ InvalidAction(w) \/ CheckFails(w)
             \/ NewSubmission(w) \/ RecvWhole(w)
             \/ RecvFails(w) \/ RecvFailsOnSize(w) \/ RecvMisses(w)
             \/ OpenReceived(w) \/ WriteReceived(w) \/ AddWorkerTask(w)
      PROVE  UNCHANGED <<wants, socket>>
  BY <1>5 DEF BeginTask, InvalidAction, CheckFails, NewSubmission, RecvWhole, RecvFails,
     RecvFailsOnSize, RecvMisses, OpenReceived, WriteReceived, AddWorkerTask
<1>6. ASSUME NEW w \in Workers,
             \/ ReplyId(w) \/ StatusOfNoFile(w) \/ OpenStatus(w) \/ ReadStatus(w)
             \/ ReadReceived(w) \/ ReadOn(w) \/ OpenStatusForGrading(w)
             \/ Compile(w) \/ Run(w) \/ Diff(w) \/ CloseStatus(w)
      PROVE  UNCHANGED <<wants, socket>>
  BY <1>6 DEF ReplyId, StatusOfNoFile, OpenStatus, ReadStatus, ReadReceived, ReadOn,
     Answer, OpenStatusForGrading, Compile, Run, Diff, Fprintf, CloseStatus
<1>7. ASSUME NEW w \in Workers, CloseSocket(w)
      PROVE  wants'[c] = wants[c] /\ socket'[c] # "none"
  BY <1>7 DEF CloseSocket
<1> QED
  BY <1>1, <1>2, <1>3, <1>4, <1>5, <1>6, <1>7 DEF ServerNext, KillServer, Crash,
     WorkerStep, WorkerTask

-----------------------------------------------------------------------------
(* Verdicts                                                                *)

\* An id is finished by the worker that closes its status file.
LEMMA FinishedIds ==
    ASSUME BaseInv, NEW i \in Ids
    PROVE  /\ \A w \in Workers :
                 /\ CloseStatus(w) => (i \in finished' <=> i \in finished \/ i = running[w])
                 /\ WorkerStep(w) /\ ~ CloseStatus(w)
                      => (i \in finished' <=> i \in finished)
           /\ Accept \/ AddRequest \/ Ends \/ Restart \/ UNCHANGED serverVars
                => (i \in finished' <=> i \in finished)
<1> USE DEF BaseInv
<1>1. ASSUME NEW w \in Workers, CloseStatus(w)
      PROVE  i \in finished' <=> i \in finished \/ i = running[w]
  BY <1>1, FinishEffect DEF CloseStatus
<1>2. ASSUME NEW w \in Workers, WorkerStep(w), ~ CloseStatus(w)
      PROVE  i \in finished' <=> i \in finished
  <2>1. CASE Begin(w)
    BY <2>1, BeginEffect
  <2>2. CASE CloseSocket(w) /\ Finish(w)
    <3>1. running[w] \in Conns /\ finished' = finished \cup {running[w]}
      BY <2>2, FinishEffect DEF CloseSocket, Step, PlaceInv, Handling
    <3> QED
      BY <3>1, TaskKinds
  <2>3. CASE Add(req_id[w]) /\ req_id[w] \in Tasks
    BY <2>3, AddEffect
  <2>4. CASE UNCHANGED queueVars
    BY <2>4, UnchangedPool
  <2> QED
    BY <1>2, <2>1, <2>2, <2>3, <2>4, PoolSteps
<1>3. ASSUME Accept \/ Restart \/ UNCHANGED serverVars
      PROVE  i \in finished' <=> i \in finished
  <2>1. UNCHANGED queueVars
    BY <1>3 DEF Accept, Restart, serverVars
  <2> QED
    BY <2>1, UnchangedPool
<1>4. ASSUME AddRequest PROVE i \in finished' <=> i \in finished
  BY <1>4 DEF AddRequest, Add
<1>5. ASSUME Ends PROVE i \in finished' <=> i \in finished
  BY <1>5 DEF Ends
<1> QED
  BY <1>1, <1>2, <1>3, <1>4, <1>5

\* The id a worker grades has not finished.
LEMMA GradedIsUnfinished ==
    ASSUME BaseInv, NEW w \in Workers, at[w] \in Grading
    PROVE  running[w] \in Ids /\ running[w] \in InPool /\ running[w] \notin finished
<1>1. running[w] \in Ids
  BY DEF BaseInv, PlaceInv
<1>2. running[w] \in Range(running)
  BY DEF BaseInv, PoolInv, QueueTypeOK, Range
<1> QED
  BY <1>1, <1>2, TaskKinds DEF BaseInv, PoolInv, ExactlyOnce, InPool

\* The status file of an id keeps its verdict, and gets it with the end of its task.
LEMMA VerdictStep ==
    ASSUME BaseInv, SubmitInv, VerdictInv, [ServerNext]_serverVars, NEW i \in Ids
    PROVE  /\ status[i] \in Verdicts => status'[i] = status[i]
           /\ status'[i] \in Verdicts <=> i \in finished'
<1> DEFINE Goal == /\ status[i] \in Verdicts => status'[i] = status[i]
                   /\ status'[i] \in Verdicts <=> i \in finished'
<1> SUFFICES Goal
  OBVIOUS
<1>1. status \in [Ids -> Texts \cup {"absent"}]
  BY DEF BaseInv, DataInv
<1>2. ASSUME status'[i] = status[i], i \in finished' <=> i \in finished
      PROVE  Goal
  BY <1>2 DEF VerdictInv
<1>3. ASSUME NEW w \in Workers, OpenReceived(w) \/ WriteReceived(w)
      PROVE  Goal
  <2>1. i \in finished' <=> i \in finished
    <3>1. WorkerStep(w) /\ ~ CloseStatus(w)
      BY <1>3 DEF WorkerStep, WorkerTask, OpenReceived, WriteReceived, CloseStatus, Step
    <3> QED
      BY <3>1, FinishedIds
  <2>2. Submitting(w) /\ at[w] # "write_id"
    BY <1>3 DEF OpenReceived, WriteReceived, Step, Submitting
  <2>3. req_id[w] \in Ids /\ req_id[w] \notin finished
    BY <2>2 DEF SubmitInv, SubmitOk, BaseInv, LocalInv, Taken
  <2>4. PICK text \in {"empty", "RECEIVED"} :
            status' = [status EXCEPT ![req_id[w]] = text]
    BY <1>3 DEF OpenReceived, WriteReceived
  <2> QED
    BY <1>1, <2>1, <2>3, <2>4 DEF VerdictInv, Verdicts
<1>4. ASSUME NEW w \in Workers, OpenStatusForGrading(w)
      PROVE  Goal
  <2>1. i \in finished' <=> i \in finished
    <3>1. WorkerStep(w) /\ ~ CloseStatus(w)
      BY <1>4 DEF WorkerStep, WorkerTask, OpenStatusForGrading, CloseStatus, Step
    <3> QED
      BY <3>1, FinishedIds
  <2>2. running[w] \in Ids /\ running[w] \notin finished
    BY <1>4, GradedIsUnfinished DEF OpenStatusForGrading, Step, Grading
  <2>3. status' = [status EXCEPT ![running[w]] = "empty"]
    BY <1>4 DEF OpenStatusForGrading
  <2> QED
    BY <1>1, <2>1, <2>2, <2>3 DEF VerdictInv, Verdicts
<1>5. ASSUME NEW w \in Workers, CloseStatus(w)
      PROVE  Goal
  <2>1. running[w] \in Ids /\ running[w] \notin finished
    BY <1>5, GradedIsUnfinished DEF CloseStatus, Step, Grading
  <2>2. i \in finished' <=> i \in finished \/ i = running[w]
    BY <1>5, FinishedIds
  <2>3. /\ status' = [status EXCEPT ![running[w]] = printed[w]]
        /\ printed[w] \in Verdicts
    BY <1>5 DEF CloseStatus, Step, BaseInv, LocalInv
  <2> QED
    BY <1>1, <2>1, <2>2, <2>3 DEF VerdictInv
<1>6. ASSUME NEW w \in Workers,
             \/ BeginTask(w) \/ InvalidAction(w) \/ CheckFails(w)
             \/ CloseSocket(w) \/ NewSubmission(w)
             \/ RecvWhole(w) \/ RecvFails(w) \/ RecvFailsOnSize(w) \/ RecvMisses(w)
             \/ AddWorkerTask(w) \/ ReplyId(w)
      PROVE  status' = status /\ at[w] # "fclose"
  BY <1>6 DEF BeginTask, InvalidAction, CheckFails, CloseSocket, NewSubmission,
     RecvWhole,
     RecvFails, RecvFailsOnSize, RecvMisses, AddWorkerTask, ReplyId, files, Step
<1>7. ASSUME NEW w \in Workers,
             \/ StatusOfNoFile(w) \/ OpenStatus(w) \/ ReadStatus(w) \/ ReadReceived(w)
             \/ ReadOn(w) \/ Compile(w) \/ Run(w) \/ Diff(w)
      PROVE  status' = status /\ at[w] # "fclose"
  BY <1>7 DEF StatusOfNoFile, OpenStatus, ReadStatus, ReadReceived, ReadOn, Answer,
     Compile, Run, Diff, Fprintf, files, Step
<1>8. ASSUME NEW w \in Workers, WorkerStep(w), status' = status, at[w] # "fclose"
      PROVE  Goal
  <2>1. ~ CloseStatus(w)
    BY <1>8 DEF CloseStatus, Step
  <2> QED
    BY <1>2, <1>8, <2>1, FinishedIds
<1>9. ASSUME NEW w \in Workers, WorkerStep(w) PROVE Goal
  <2> HIDE DEF Goal
  <2> QED
    BY <1>3, <1>4, <1>5, <1>6, <1>7, <1>8, <1>9 DEF WorkerStep, WorkerTask
<1>10. CASE Accept \/ AddRequest \/ Ends \/ Restart
  <2>1. status' = status
    BY <1>10 DEF Accept, AddRequest, Ends, Restart, files
  <2> QED
    BY <1>2, <1>10, <2>1, FinishedIds
<1>11. CASE UNCHANGED serverVars
  <2>1. status' = status
    BY <1>11 DEF serverVars, files
  <2> QED
    BY <1>2, <1>11, <2>1, FinishedIds
<1> HIDE DEF Goal
<1> QED
  BY <1>9, <1>10, <1>11 DEF ServerNext, KillServer, Crash

-----------------------------------------------------------------------------
(* Submissions                                                             *)

\* Only the end of the process loses ids.
LEMMA LostKept ==
    ASSUME NEW w \in Workers, WorkerStep(w)
    PROVE  lost' = lost
<1>1. CASE \/ BeginTask(w) \/ InvalidAction(w) \/ CheckFails(w) \/ CloseSocket(w)
           \/ NewSubmission(w)
           \/ RecvWhole(w) \/ RecvFails(w) \/ RecvFailsOnSize(w) \/ RecvMisses(w)
           \/ OpenReceived(w) \/ WriteReceived(w) \/ AddWorkerTask(w)
  BY <1>1 DEF BeginTask, InvalidAction, CheckFails, CloseSocket, NewSubmission,
     RecvWhole,
     RecvFails, RecvFailsOnSize, RecvMisses, OpenReceived, WriteReceived,
     AddWorkerTask, process
<1>2. CASE \/ ReplyId(w) \/ StatusOfNoFile(w) \/ OpenStatus(w) \/ ReadStatus(w)
           \/ ReadReceived(w) \/ ReadOn(w) \/ OpenStatusForGrading(w)
           \/ Compile(w) \/ Run(w) \/ Diff(w) \/ CloseStatus(w)
  BY <1>2 DEF ReplyId, StatusOfNoFile, OpenStatus, ReadStatus, ReadReceived, ReadOn,
     Answer, OpenStatusForGrading, Compile, Run, Diff, Fprintf, CloseStatus, process
<1> QED
  BY <1>1, <1>2 DEF WorkerStep, WorkerTask

\* The request of a worker with a connection is not changed.
LEMMA WorkerRequest ==
    ASSUME BaseInv, [ServerNext]_serverVars, NEW w \in Workers, at[w] \in Handling
    PROVE  running[w] \in Conns /\ wants'[running[w]] = wants[running[w]]
<1>1. running[w] \in Conns
  BY DEF BaseInv, PlaceInv
<1>2. socket[running[w]] # "none"
  BY <1>1, WorkerSocket
<1> QED
  BY <1>1, <1>2, RequestKept

\* A step of another thread.
LEMMA SubmitRests ==
    ASSUME BaseInv, SubmitInv, [ServerNext]_serverVars, NEW v \in Workers,
           at'[v] = at[v], req_id'[v] = req_id[v], running'[v] = running[v],
           Submitting(v) => (req_id[v] \in Taken' <=> req_id[v] \in Taken),
           lost' = lost
    PROVE  SubmitOk(v)'
<1> SUFFICES ASSUME Submitting(v) PROVE SubmitOk(v)'
  BY DEF SubmitOk, Submitting
<1>1. SubmitOk(v) /\ req_id[v] \in Ids
  BY DEF SubmitInv, BaseInv, LocalInv
<1>2. wants'[running[v]] = wants[running[v]]
  BY WorkerRequest DEF Submitting, Handling
<1>3. /\ source[req_id[v]] # "absent" => source'[req_id[v]] # "absent"
      /\ source[req_id[v]] = "whole" => source'[req_id[v]] = "whole"
      /\ status[req_id[v]] # "absent" => status'[req_id[v]] # "absent"
  BY <1>1, FilesGrow
<1> QED
  BY <1>1, <1>2, <1>3 DEF SubmitOk, Submitting, Request

\* The handler itself.
LEMMA SubmitActs ==
    ASSUME BaseInv, SubmitInv, FreshInv, NEW w \in Workers, WorkerStep(w), up,
           [ServerNext]_serverVars
    PROVE  SubmitOk(w)'
<1> USE DEF Step
<1>1. \A i \in Ids : i \in Taken' <=> i \in Taken \/ (AddWorkerTask(w) /\ i = req_id[w])
  BY TakenByWorker
<1>2. SubmitOk(w) /\ (Submitting(w) => req_id[w] \in Ids)
  BY DEF SubmitInv, BaseInv, LocalInv
<1>3. /\ at \in [Workers -> Handling \cup Grading \cup {"idle"}]
      /\ source \in [Ids -> {"absent", "part", "whole"}]
      /\ status \in [Ids -> Texts \cup {"absent"}]
      /\ req_id \in [Workers -> Ids \cup {NoId}]
  BY DEF BaseInv, PlaceInv, DataInv
<1>4. at[w] \in Handling => running[w] \in Conns /\ wants'[running[w]] = wants[running[w]]
  BY WorkerRequest
<1>11. lost' = lost
  BY LostKept
<1>5. CASE \/ BeginTask(w) \/ InvalidAction(w) \/ CheckFails(w) \/ CloseSocket(w)
           \/ RecvFails(w)
           \/ RecvFailsOnSize(w) \/ ReplyId(w)
  BY <1>3, <1>5 DEF BeginTask, InvalidAction, CheckFails, CloseSocket, RecvFails,
     RecvFailsOnSize,
     ReplyId, SubmitOk, Submitting
<1>6. CASE \/ StatusOfNoFile(w) \/ OpenStatus(w) \/ ReadStatus(w) \/ ReadReceived(w)
           \/ ReadOn(w)
  BY <1>3, <1>6 DEF StatusOfNoFile, OpenStatus, ReadStatus, ReadReceived, ReadOn,
     Answer, SubmitOk, Submitting
<1>7. CASE \/ OpenStatusForGrading(w) \/ Compile(w) \/ Run(w) \/ Diff(w) \/ CloseStatus(w)
  BY <1>3, <1>7 DEF OpenStatusForGrading, Compile, Run, Diff, CloseStatus, SubmitOk,
     Submitting
<1>8. CASE NewSubmission(w)
  <2>1. PICK i \in Ids : /\ at[w] = "read_action" /\ at' = [at EXCEPT ![w] = "recv_file"]
                         /\ Request(w).kind \in {"submit", "cut", "reset", "vanish"}
                         /\ source[i] = "absent"
                         /\ source' = [source EXCEPT ![i] = "part"]
                         /\ req_id' = [req_id EXCEPT ![w] = i]
                         /\ running' = running
    BY <1>8 DEF NewSubmission, queueVars
  <2>2. i \notin Taken /\ i \notin lost /\ ~ AddWorkerTask(w)
    BY <2>1 DEF FreshInv, AddWorkerTask
  <2>3. i \notin Taken'
    BY <1>1, <2>2
  <2>4. wants'[running[w]] = wants[running[w]]
    BY <1>4, <2>1 DEF Handling
  <2>5. at'[w] = "recv_file" /\ req_id'[w] = i /\ source'[i] = "part"
    BY <1>3, <2>1
  <2> QED
    BY <1>11, <2>1, <2>2, <2>3, <2>4, <2>5 DEF SubmitOk, Submitting, Request
<1>9. CASE RecvWhole(w) \/ RecvMisses(w) \/ OpenReceived(w) \/ WriteReceived(w)
  <2>1. /\ req_id' = req_id /\ running' = running
        /\ Submitting(w) /\ at[w] \in Handling /\ at[w] # "write_id" /\ ~ AddWorkerTask(w)
    BY <1>9 DEF RecvWhole, RecvMisses, OpenReceived, WriteReceived, Submitting,
       Handling, AddWorkerTask, queueVars
  <2>2. req_id[w] \in Ids /\ req_id[w] \notin Taken' /\ req_id[w] \notin lost'
    BY <1>1, <1>2, <1>11, <2>1 DEF SubmitOk
  <2>3. wants'[running[w]] = wants[running[w]]
    BY <1>4, <2>1
  <2>4. CASE RecvWhole(w)
    BY <1>2, <1>3, <2>1, <2>2, <2>3, <2>4 DEF RecvWhole, SubmitOk, Submitting, Request
  <2>5. CASE RecvMisses(w)
    BY <1>2, <1>3, <2>1, <2>2, <2>3, <2>5 DEF RecvMisses, SubmitOk, Submitting, Request,
       files
  <2>6. CASE OpenReceived(w) \/ WriteReceived(w)
    BY <1>2, <1>3, <2>1, <2>2, <2>3, <2>6 DEF OpenReceived, WriteReceived, SubmitOk,
       Submitting, Request
  <2> QED
    BY <1>9, <2>4, <2>5, <2>6
<1>10. CASE AddWorkerTask(w)
  <2>1. /\ at[w] = "add_task" /\ at'[w] = "write_id" /\ req_id' = req_id
        /\ running' = running /\ source' = source /\ status' = status
    BY <1>3, <1>10 DEF AddWorkerTask, Add, files, locals
  <2>2. Submitting(w) /\ req_id[w] \in Ids /\ req_id[w] \in Taken'
    BY <1>1, <1>2, <1>10, <2>1 DEF Submitting
  <2>3. wants'[running[w]] = wants[running[w]]
    BY <1>4, <2>1 DEF Handling
  <2> QED
    BY <1>2, <1>11, <2>1, <2>2, <2>3 DEF SubmitOk, Submitting, Request
<1> QED
  BY <1>5, <1>6, <1>7, <1>8, <1>9, <1>10 DEF WorkerStep, WorkerTask

LEMMA SubmitStep == GradeInv /\ [ServerNext]_serverVars => SubmitInv'
<1> SUFFICES ASSUME GradeInv, [ServerNext]_serverVars, NEW v \in Workers
             PROVE  SubmitOk(v)'
  BY DEF SubmitInv
<1> USE DEF GradeInv
<1>1. ASSUME NEW w \in Workers, WorkerStep(w), up PROVE SubmitOk(v)'
  <2>1. CASE v = w
    BY <1>1, <2>1, SubmitActs
  <2>2. CASE v # w
    <3>1. at'[v] = at[v] /\ req_id'[v] = req_id[v] /\ running'[v] = running[v]
      BY <1>1, <2>2, OthersKept
    <3>2. ASSUME Submitting(v) PROVE req_id[v] \in Taken' <=> req_id[v] \in Taken
      <4>1. req_id[v] \in Ids
        BY <3>2 DEF BaseInv, LocalInv
      <4>2. AddWorkerTask(w) => req_id[v] # req_id[w]
        BY <2>2, <3>2 DEF OwnerInv, AddWorkerTask, Step, Submitting
      <4> QED
        BY <1>1, <4>1, <4>2, TakenByWorker
    <3> QED
      BY <1>1, <3>1, <3>2, LostKept, SubmitRests
  <2> QED
    BY <2>1, <2>2
<1>2. CASE Accept \/ AddRequest \/ Restart \/ UNCHANGED serverVars
  <2>1. at' = at /\ req_id' = req_id /\ running' = running
    BY <1>2 DEF Accept, AddRequest, Add, Restart, serverVars, queueVars, locals
  <2>2. Submitting(v) => (req_id[v] \in Taken' <=> req_id[v] \in Taken)
    BY <1>2, TakenByMain DEF BaseInv, LocalInv
  <2>3. lost' = lost
    BY <1>2 DEF Accept, AddRequest, Restart, serverVars, process
  <2> QED
    BY <2>1, <2>2, <2>3, SubmitRests
<1>3. CASE Ends
  BY <1>3 DEF Ends, SubmitOk, Submitting
<1> QED
  BY <1>1, <1>2, <1>3 DEF ServerNext, KillServer, Crash

\* A handler that has an id has it from gen_uuid, or had it before.
LEMMA SubmitFrom ==
    ASSUME BaseInv, NEW w \in Workers, WorkerStep(w), Submitting(w)'
    PROVE  \/ Submitting(w) /\ req_id'[w] = req_id[w]
           \/ source[req_id'[w]] = "absent"
<1> USE DEF Step, Submitting
<1>1. at \in [Workers -> Handling \cup Grading \cup {"idle"}]
      /\ req_id \in [Workers -> Ids \cup {NoId}]
  BY DEF BaseInv, PlaceInv, DataInv
<1>2. CASE \/ BeginTask(w) \/ InvalidAction(w) \/ CheckFails(w) \/ CloseSocket(w)
           \/ RecvFails(w)
           \/ RecvFailsOnSize(w) \/ ReplyId(w)
  BY <1>1, <1>2 DEF BeginTask, InvalidAction, CheckFails, CloseSocket, RecvFails,
     RecvFailsOnSize,
     ReplyId
<1>3. CASE \/ StatusOfNoFile(w) \/ OpenStatus(w) \/ ReadStatus(w) \/ ReadReceived(w)
           \/ ReadOn(w)
  BY <1>1, <1>3 DEF StatusOfNoFile, OpenStatus, ReadStatus, ReadReceived, ReadOn, Answer
<1>4. CASE \/ OpenStatusForGrading(w) \/ Compile(w) \/ Run(w) \/ Diff(w) \/ CloseStatus(w)
  BY <1>1, <1>4 DEF OpenStatusForGrading, Compile, Run, Diff, CloseStatus
<1>5. CASE NewSubmission(w)
  BY <1>1, <1>5 DEF NewSubmission
<1>6. CASE RecvWhole(w) \/ RecvMisses(w) \/ OpenReceived(w) \/ WriteReceived(w)
           \/ AddWorkerTask(w)
  BY <1>6 DEF RecvWhole, RecvMisses, OpenReceived, WriteReceived, AddWorkerTask, locals
<1> QED
  BY <1>2, <1>3, <1>4, <1>5, <1>6 DEF WorkerStep, WorkerTask

LEMMA OwnerStep == GradeInv /\ [ServerNext]_serverVars => OwnerInv'
<1> SUFFICES ASSUME GradeInv, [ServerNext]_serverVars PROVE OwnerInv'
  OBVIOUS
<1> USE DEF GradeInv
<1>1. ASSUME NEW w \in Workers, WorkerStep(w) PROVE OwnerInv'
  <2>1. \A v \in Workers \ {w} : at'[v] = at[v] /\ req_id'[v] = req_id[v]
    BY <1>1, OthersKept
  <2>2. \A v \in Workers \ {w} : Submitting(v)' <=> Submitting(v)
    BY <2>1 DEF Submitting
  <2>3. \A v \in Workers : Submitting(v) => source[req_id[v]] # "absent"
    BY DEF SubmitInv, SubmitOk
  <2>4. ASSUME NEW v \in Workers \ {w}, Submitting(v)', Submitting(w)',
               req_id'[v] = req_id'[w]
        PROVE  FALSE
    <3>1. Submitting(v) /\ req_id'[v] = req_id[v] /\ source[req_id[v]] # "absent"
      BY <2>1, <2>2, <2>3, <2>4
    <3>2. Submitting(w) /\ req_id'[w] = req_id[w]
      BY <1>1, <2>4, <3>1, SubmitFrom
    <3> QED
      BY <2>4, <3>1, <3>2 DEF OwnerInv
  <2>5. ASSUME NEW u \in Workers, NEW v \in Workers, u # v,
               Submitting(u)', Submitting(v)', req_id'[u] = req_id'[v]
        PROVE  FALSE
    <3>1. CASE u = w \/ v = w
      BY <2>4, <2>5, <3>1
    <3>2. CASE u # w /\ v # w
      BY <2>1, <2>2, <2>5, <3>2 DEF OwnerInv
    <3> QED
      BY <3>1, <3>2
  <2> QED
    BY <2>5 DEF OwnerInv, Submitting
<1>2. CASE Accept \/ AddRequest \/ Restart \/ UNCHANGED serverVars
  <2>1. at' = at /\ req_id' = req_id
    BY <1>2 DEF Accept, AddRequest, Restart, serverVars, locals
  <2> QED
    BY <2>1 DEF OwnerInv, Submitting
<1>3. CASE Ends
  BY <1>3 DEF Ends, OwnerInv, Submitting
<1> QED
  BY <1>1, <1>2, <1>3 DEF ServerNext, KillServer, Crash

LEMMA FreshStep == GradeInv /\ [ServerNext]_serverVars => FreshInv'
<1> SUFFICES ASSUME GradeInv, [ServerNext]_serverVars, NEW i \in Ids,
                    i \in Taken' \cup lost'
             PROVE  source'[i] # "absent"
  BY DEF FreshInv
<1> USE DEF GradeInv
<1>1. ASSUME source[i] # "absent" PROVE source'[i] # "absent"
  BY <1>1, FilesGrow
<1>2. CASE i \in Taken \cup lost
  BY <1>1, <1>2 DEF FreshInv
<1>3. CASE \E w \in Workers : AddWorkerTask(w) /\ i = req_id[w]
  <2>1. PICK w \in Workers : Submitting(w) /\ i = req_id[w]
    BY <1>3 DEF AddWorkerTask, Step, Submitting
  <2> QED
    BY <1>1, <2>1 DEF SubmitInv, SubmitOk
<1>4. i \in Taken \cup lost \/ \E w \in Workers : AddWorkerTask(w) /\ i = req_id[w]
  <2>1. CASE \E w \in Workers : WorkerStep(w)
    BY <2>1, TakenByWorker, LostKept
  <2>2. CASE Accept \/ AddRequest \/ Restart \/ UNCHANGED serverVars
    <3>1. lost' = lost
      BY <2>2 DEF Accept, AddRequest, Restart, serverVars, process
    <3> QED
      BY <2>2, <3>1, TakenByMain
  <2>3. CASE Ends
    <3>1. lost' = lost \cup (Ids \cap (Range(pending) \cup Range(running)))
      BY <2>3 DEF Ends
    <3>2. i # NoTask /\ (i \in Taken' <=> i \in finished)
      BY <2>3, TaskKinds, TakenByMain
    <3>3. i \in Taken' \/ i \in lost \/ i \in InPool
      BY <3>1, <3>2 DEF InPool
    <3> QED
      BY <3>2, <3>3 DEF Taken
  <2> QED
    BY <2>1, <2>2, <2>3 DEF ServerNext, KillServer, Crash
<1> QED
  BY <1>2, <1>3, <1>4

-----------------------------------------------------------------------------
(* Ids issued                                                              *)

\* An id the queue knew is known or lost.
LEMMA NotForgotten ==
    ASSUME BaseInv, [ServerNext]_serverVars, NEW i \in Ids, i \in Taken \cup lost
    PROVE  i \in Taken' \cup lost'
<1>1. CASE \E w \in Workers : WorkerStep(w)
  <2>1. PICK w \in Workers : WorkerStep(w)
    BY <1>1
  <2>2. lost' = lost
    BY <2>1, LostKept
  <2> QED
    BY <2>1, <2>2, TakenByWorker
<1>2. CASE Accept \/ AddRequest \/ Restart \/ UNCHANGED serverVars
  <2>1. lost' = lost
    BY <1>2 DEF Accept, AddRequest, Restart, serverVars, process
  <2> QED
    BY <1>2, <2>1, TakenByMain
<1>3. CASE Ends
  <2>1. lost' = lost \cup (Ids \cap (Range(pending) \cup Range(running)))
    BY <1>3 DEF Ends
  <2>2. i \in Taken' <=> i \in finished
    BY <1>3, TakenByMain
  <2> QED
    BY <2>1, <2>2 DEF Taken, InPool
<1> QED
  BY <1>1, <1>2, <1>3 DEF ServerNext, KillServer, Crash

\* The kinds of request that are sent an id.
Asked == {"submit", "cut"}

\* The only step that issues an id is the reply of the handler that submits it.
LEMMA IssuedBy ==
    ASSUME GradeInv, [ServerNext]_serverVars, NEW i \in Issued', i \notin Issued
    PROVE  \E w \in Workers : ReplyId(w) /\ i = req_id[w] /\ Request(w).kind \in Asked
<1> USE DEF GradeInv, BaseInv, DataInv, Issued, Asked, clients
<1>1. PICK c \in Conns : wants'[c].kind \in Asked /\ reply'[c] = i /\ i \in Ids
  OBVIOUS
<1>2. ~ (wants[c].kind \in Asked /\ reply[c] = i)
  BY <1>1
<1>3. CASE Accept
  <2>1. PICK d \in Conns : /\ socket[d] = "none" /\ reply' = reply
                           /\ \A e \in Conns \ {d} : wants'[e] = wants[e]
    BY <1>3 DEF Accept
  <2>2. reply[d] = "none"
    BY <2>1 DEF ToldInv, ToldOk
  <2> QED
    BY <1>1, <1>2, <2>1, <2>2, ServerAssumption
<1>4. CASE AddRequest \/ Restart \/ Ends
  BY <1>1, <1>2, <1>4 DEF AddRequest, Restart, Ends
<1>5. CASE UNCHANGED serverVars
  BY <1>1, <1>2, <1>5 DEF serverVars
<1>6. ASSUME NEW w \in Workers, ReplyId(w)
      PROVE  i = req_id[w] /\ Request(w).kind \in Asked
  <2>1. /\ wants' = wants
        /\ reply' \in {reply, [reply EXCEPT ![running[w]] = req_id[w]]}
    BY <1>6 DEF ReplyId, Write
  <2>2. c = running[w] /\ i = req_id[w]
    BY <1>1, <1>2, <2>1
  <2> QED
    BY <1>1, <2>1, <2>2 DEF Request
<1>7. ASSUME NEW w \in Workers, NEW from, NEW text, Answer(w, from, text),
             Request(w).kind \notin Asked
      PROVE  FALSE
  <2>1. wants' = wants /\ reply' \in {reply, [reply EXCEPT ![running[w]] = text]}
    BY <1>7 DEF Answer, Write
  <2>2. c = running[w]
    BY <1>1, <1>2, <2>1
  <2> QED
    BY <1>1, <1>7, <2>1, <2>2 DEF Request
<1>8. ASSUME NEW w \in Workers, StatusOfNoFile(w) \/ ReadStatus(w) \/ ReadOn(w)
      PROVE  FALSE
  <2>1. Request(w).kind \notin Asked
    <3>1. CASE StatusOfNoFile(w)
      BY <3>1 DEF StatusOfNoFile, CheckedIds, Checks
    <3>2. CASE ReadStatus(w) \/ ReadOn(w)
      <4>1. Reading(w)
        BY <3>2 DEF ReadStatus, ReadOn, Reading
      <4> QED
        BY <4>1 DEF CheckInv, CheckOk, Checks
    <3> QED
      BY <1>8, <3>1, <3>2
  <2> QED
    BY <1>7, <1>8, <2>1 DEF StatusOfNoFile, ReadStatus, ReadOn
<1>9. ASSUME NEW w \in Workers,
             \/ BeginTask(w) \/ InvalidAction(w) \/ CheckFails(w)
             \/ CloseSocket(w) \/ NewSubmission(w)
             \/ RecvWhole(w) \/ RecvFails(w) \/ RecvFailsOnSize(w) \/ RecvMisses(w)
             \/ OpenReceived(w) \/ WriteReceived(w) \/ AddWorkerTask(w)
             \/ OpenStatus(w) \/ ReadReceived(w) \/ OpenStatusForGrading(w)
             \/ Compile(w) \/ Run(w) \/ Diff(w) \/ CloseStatus(w)
      PROVE  FALSE
  <2>1. UNCHANGED <<wants, reply>>
    BY <1>9 DEF BeginTask, InvalidAction, CheckFails, CloseSocket, NewSubmission,
       RecvWhole,
       RecvFails, RecvFailsOnSize, RecvMisses, OpenReceived, WriteReceived,
       AddWorkerTask, OpenStatus, ReadReceived, OpenStatusForGrading, Compile, Run,
       Diff, Fprintf, CloseStatus
  <2> QED
    BY <1>1, <1>2, <2>1
<1> QED
  BY <1>3, <1>4, <1>5, <1>6, <1>8, <1>9 DEF ServerNext, KillServer, Crash, WorkerStep,
       WorkerTask

LEMMA IssuedStep == GradeInv /\ [ServerNext]_serverVars => IssuedInv'
<1> SUFFICES ASSUME GradeInv, [ServerNext]_serverVars, NEW i \in Issued'
             PROVE  /\ source'[i] = "whole" /\ status'[i] # "absent"
                    /\ i \in Taken' \/ i \in lost'
  BY DEF IssuedInv
<1> USE DEF GradeInv
<1>1. i \in Ids
  BY DEF Issued
<1>2. source[i] = "whole" /\ status[i] # "absent" /\ i \in Taken \cup lost
  <2>1. CASE i \in Issued
    BY <2>1 DEF IssuedInv
  <2>2. CASE i \notin Issued
    <3>1. PICK w \in Workers : ReplyId(w) /\ i = req_id[w] /\ Request(w).kind \in Asked
      BY <2>2, IssuedBy
    <3>2. at[w] = "write_id" /\ SubmitOk(w)
      BY <3>1 DEF ReplyId, Step, SubmitInv
    <3> QED
      BY <3>1, <3>2 DEF SubmitOk, Submitting, Asked
  <2> QED
    BY <2>1, <2>2
<1> QED
  BY <1>1, <1>2, FilesGrow, NotForgotten

-----------------------------------------------------------------------------
(* Status checks                                                           *)

\* A step of another thread.
LEMMA CheckRests ==
    ASSUME BaseInv, CheckInv, [ServerNext]_serverVars, NEW v \in Workers,
           at'[v] = at[v], req_id'[v] = req_id[v], running'[v] = running[v]
    PROVE  CheckOk(v)'
<1> SUFFICES ASSUME Reading(v) PROVE CheckOk(v)'
  BY DEF CheckOk, Reading
<1>1. CheckOk(v)
  BY DEF CheckInv
<1>2. wants'[running[v]] = wants[running[v]]
  BY WorkerRequest DEF Reading, Handling
<1> QED
  BY <1>1, <1>2 DEF CheckOk, Reading, Request

\* The handler itself.
LEMMA CheckActs ==
    ASSUME BaseInv, CheckInv, ToldInv, NEW w \in Workers, WorkerStep(w),
           [ServerNext]_serverVars
    PROVE  CheckOk(w)'
<1> USE DEF Step
<1>1. at \in [Workers -> Handling \cup Grading \cup {"idle"}]
      /\ req_id \in [Workers -> Ids \cup {NoId}]
  BY DEF BaseInv, PlaceInv, DataInv
<1>2. at[w] \in Handling => running[w] \in Conns /\ wants'[running[w]] = wants[running[w]]
  BY WorkerRequest
<1>3. CASE \/ BeginTask(w) \/ InvalidAction(w) \/ CheckFails(w) \/ CloseSocket(w)
           \/ NewSubmission(w)
           \/ RecvWhole(w) \/ RecvFails(w) \/ RecvFailsOnSize(w) \/ RecvMisses(w)
           \/ OpenReceived(w) \/ WriteReceived(w) \/ AddWorkerTask(w) \/ ReplyId(w)
  BY <1>1, <1>3 DEF BeginTask, InvalidAction, CheckFails, CloseSocket, NewSubmission,
     RecvWhole,
     RecvFails, RecvFailsOnSize, RecvMisses, OpenReceived, WriteReceived, AddWorkerTask,
     ReplyId, CheckOk, Reading
<1>4. CASE \/ StatusOfNoFile(w) \/ ReadStatus(w) \/ ReadOn(w)
  BY <1>1, <1>4 DEF StatusOfNoFile, ReadStatus, ReadOn, Answer, CheckOk, Reading
<1>5. CASE \/ OpenStatusForGrading(w) \/ Compile(w) \/ Run(w) \/ Diff(w) \/ CloseStatus(w)
  BY <1>1, <1>5 DEF OpenStatusForGrading, Compile, Run, Diff, CloseStatus, CheckOk,
     Reading
<1>6. CASE OpenStatus(w)
  <2>1. PICK i \in CheckedIds(w) : i \in Ids /\ req_id' = [req_id EXCEPT ![w] = i]
    BY <1>6 DEF OpenStatus, HasStatus
  <2>2. /\ at[w] \in Handling /\ at'[w] = "read_status" /\ running' = running
        /\ req_id'[w] = i
    BY <1>1, <1>6, <2>1 DEF OpenStatus, queueVars, Handling
  <2>3. /\ Request(w).kind \in Checks \cup {"noid", "vanish"}
        /\ Request(w).kind \in Checks => i = Request(w).id
    BY <2>1, ServerAssumption DEF CheckedIds, Checks
  <2> QED
    BY <1>2, <2>2, <2>3 DEF CheckOk, Reading, Request
<1>7. CASE ReadReceived(w)
  <2>1. /\ at[w] \in Handling /\ Reading(w) /\ at'[w] = "read_on" /\ running' = running
        /\ req_id' = req_id /\ status[req_id[w]] = "RECEIVED"
    BY <1>1, <1>7 DEF ReadReceived, queueVars, locals, Handling, Reading
  <2>2. CheckOk(w)
    BY DEF CheckInv
  <2>3. Request(w).kind \in Checks => Request(w).told = {}
    <3>1. Request(w).told # {} => status[Request(w).id] \in Verdicts
      BY <1>2, <2>1 DEF ToldInv, ToldOk, Request
    <3> QED
      BY <2>1, <2>2, <3>1 DEF CheckOk, Verdicts
  <2> QED
    BY <1>2, <2>1, <2>2, <2>3 DEF CheckOk, Reading, Request
<1> QED
  BY <1>3, <1>4, <1>5, <1>6, <1>7 DEF WorkerStep, WorkerTask

LEMMA CheckStep == GradeInv /\ [ServerNext]_serverVars => CheckInv'
<1> SUFFICES ASSUME GradeInv, [ServerNext]_serverVars, NEW v \in Workers
             PROVE  CheckOk(v)'
  BY DEF CheckInv
<1> USE DEF GradeInv
<1>1. ASSUME NEW w \in Workers, WorkerStep(w) PROVE CheckOk(v)'
  <2>1. CASE v = w
    BY <1>1, <2>1, CheckActs
  <2>2. CASE v # w
    BY <1>1, <2>2, OthersKept, CheckRests
  <2> QED
    BY <2>1, <2>2
<1>2. CASE Accept \/ AddRequest \/ Restart \/ UNCHANGED serverVars
  <2>1. at' = at /\ req_id' = req_id /\ running' = running
    BY <1>2 DEF Accept, AddRequest, Add, Restart, serverVars, queueVars, locals
  <2> QED
    BY <2>1, CheckRests
<1>3. CASE Ends
  BY <1>3 DEF Ends, CheckOk, Reading
<1> QED
  BY <1>1, <1>2, <1>3 DEF ServerNext, KillServer, Crash

-----------------------------------------------------------------------------
(* Verdicts told                                                           *)

\* A connection nothing is written to.
LEMMA ToldRests ==
    ASSUME GradeInv, [ServerNext]_serverVars, NEW c \in Conns,
           wants'[c] = wants[c], reply'[c] = reply[c],
           socket'[c] = "none" => socket[c] = "none"
    PROVE  ToldOk(c)'
<1>1. ToldOk(c)
  BY DEF GradeInv, ToldInv
<1>2. wants[c].id \in Ids /\ status[wants[c].id] \in Verdicts
        => status'[wants[c].id] = status[wants[c].id]
  BY VerdictStep DEF GradeInv
<1> QED
  BY <1>1, <1>2 DEF ToldOk

\* A new request knows what has been told of its id: nothing, or the verdict.
LEMMA ToldAccept ==
    ASSUME GradeInv, NEW c \in Conns, NEW kind \in Kinds, NEW i \in Ids \cup {NoId},
           socket[c] = "none", reply' = reply, status' = status,
           socket'[c] = "open",
           wants'[c] = [kind |-> kind, id |-> i, told |-> Told(i)]
    PROVE  ToldOk(c)'
<1>1. \A d \in Opened(i) : reply[d] \in Verdicts => i \in Ids /\ reply[d] = status[i]
  BY DEF Opened, GradeInv, ToldInv, ToldOk
<1>2. Told(i) # {} => i \in Ids /\ status[i] \in Verdicts /\ Told(i) = {status[i]}
  <2> SUFFICES ASSUME NEW verdict \in Told(i)
               PROVE  i \in Ids /\ status[i] \in Verdicts /\ Told(i) = {status[i]}
    OBVIOUS
  <2>1. PICK d \in Opened(i) : reply[d] = verdict /\ verdict \in Verdicts
    BY DEF Told
  <2>2. i \in Ids /\ verdict = status[i]
    BY <1>1, <2>1
  <2>3. \A other \in Told(i) : other = status[i]
    BY <1>1 DEF Told
  <2> QED
    BY <2>1, <2>2, <2>3
<1>3. reply'[c] = "none"
  BY DEF GradeInv, ToldInv, ToldOk
<1> DEFINE told == Told(i)
<1>4. /\ wants'[c].kind = kind /\ wants'[c].id = i /\ wants'[c].told = told
      /\ told # {} => i \in Ids /\ status'[i] \in Verdicts /\ told = {status'[i]}
  BY <1>2
<1> HIDE DEF told
<1> QED
  BY <1>3, <1>4 DEF ToldOk, Verdicts

\* The reply to a submission is none to a check.
LEMMA ToldReplyId ==
    ASSUME GradeInv, NEW w \in Workers, ReplyId(w), NEW c \in Conns, c = running[w]
    PROVE  ToldOk(c)'
<1>1. wants' = wants /\ socket' = socket /\ status' = status
  BY DEF ReplyId, files
<1>2. wants[c].kind \notin Checks
  <2>1. SubmitOk(w) /\ Submitting(w)
    BY DEF GradeInv, SubmitInv, ReplyId, Step, Submitting
  <2> QED
    BY <2>1 DEF SubmitOk, Request, Checks
<1>3. socket[c] = "open"
  BY WorkerSocket DEF GradeInv
<1>4. ToldOk(c)
  BY DEF GradeInv, ToldInv
<1> QED
  BY <1>1, <1>2, <1>3, <1>4 DEF ToldOk, Checks

\* An answer that is no verdict goes to a check that no verdict was told before,
\* or to none.
LEMMA ToldOther ==
    ASSUME GradeInv, NEW w \in Workers, NEW from, NEW text, Answer(w, from, text),
           NEW c \in Conns, c = running[w], text \notin Verdicts,
           wants[c].kind = "check" => wants[c].told = {}
    PROVE  ToldOk(c)'
<1>1. /\ wants' = wants /\ socket' = socket /\ status' = status
      /\ reply'[c] \in {reply[c], text}
  BY DEF Answer, Write, files, GradeInv, BaseInv, DataInv
<1>2. socket[c] = "open"
  BY WorkerSocket DEF GradeInv
<1>3. ToldOk(c)
  BY DEF GradeInv, ToldInv
<1> QED
  BY <1>1, <1>2, <1>3 DEF ToldOk

\* A verdict is answered as it is in the file of the id asked for.
LEMMA ToldVerdict ==
    ASSUME GradeInv, NEW w \in Workers, NEW from, Answer(w, from, status[req_id[w]]),
           Reading(w), NEW c \in Conns, c = running[w], status[req_id[w]] \in Verdicts
    PROVE  ToldOk(c)'
<1>1. /\ wants' = wants /\ socket' = socket /\ status' = status
      /\ reply'[c] \in {reply[c], status[req_id[w]]}
  BY DEF Answer, Write, files, GradeInv, BaseInv, DataInv
<1>2. socket[c] = "open"
  BY WorkerSocket DEF GradeInv
<1>3. /\ req_id[w] \in Ids
      /\ wants[c].kind \in Checks => req_id[w] = wants[c].id
  BY DEF GradeInv, CheckInv, CheckOk, BaseInv, LocalInv, Request
<1>4. ToldOk(c)
  BY DEF GradeInv, ToldInv
<1> QED
  BY <1>1, <1>2, <1>3, <1>4 DEF ToldOk, Checks

LEMMA ToldActs ==
    ASSUME GradeInv, NEW w \in Workers, StatusOfNoFile(w) \/ ReadStatus(w) \/ ReadOn(w),
           NEW c \in Conns, c = running[w]
    PROVE  ToldOk(c)'
<1> USE DEF Request
<1>1. CASE StatusOfNoFile(w)
  <2>1. PICK i \in CheckedIds(w) : ~ HasStatus(i)
    BY <1>1 DEF StatusOfNoFile
  <2>2. wants[c].kind = "check" => wants[c].told = {}
    <3>1. wants[c].kind = "check" => i = wants[c].id
      BY <2>1 DEF CheckedIds
    <3>2. wants[c].told # {} => wants[c].id \in Ids /\ status[wants[c].id] \in Verdicts
      BY DEF GradeInv, ToldInv, ToldOk
    <3> QED
      BY <2>1, <3>1, <3>2 DEF HasStatus, Verdicts
  <2>3. Answer(w, "read_action", "WRONG ID") /\ "WRONG ID" \notin Verdicts
    BY <1>1 DEF StatusOfNoFile, Verdicts
  <2> QED
    BY <2>2, <2>3, ToldOther
<1>2. ASSUME Reading(w), status[req_id[w]] \notin Verdicts
      PROVE  wants[c].kind = "check" => wants[c].told = {}
  <2>1. wants[c].kind = "check" => req_id[w] = wants[c].id
    BY <1>2 DEF GradeInv, CheckInv, CheckOk, Checks
  <2>2. wants[c].told # {} => status[wants[c].id] \in Verdicts
    BY DEF GradeInv, ToldInv, ToldOk
  <2> QED
    BY <1>2, <2>1, <2>2
<1>3. CASE ReadStatus(w)
  <2>1. Reading(w)
    BY <1>3 DEF ReadStatus, Reading
  <2>2. CASE status[req_id[w]] \in Verdicts
    <3>1. Answer(w, "read_status", status[req_id[w]])
      BY <1>3, <2>2 DEF ReadStatus, Verdicts
    <3> QED
      BY <2>1, <2>2, <3>1, ToldVerdict
  <2>3. CASE status[req_id[w]] \notin Verdicts
    <3> DEFINE text == IF status[req_id[w]] = "empty" THEN "WRONG ID"
                                                      ELSE status[req_id[w]]
    <3>1. Answer(w, "read_status", text) /\ text \notin Verdicts
      BY <1>3, <2>3 DEF ReadStatus, Verdicts
    <3> HIDE DEF text
    <3> QED
      BY <1>2, <2>1, <2>3, <3>1, ToldOther
  <2> QED
    BY <2>2, <2>3
<1>4. CASE ReadOn(w)
  <2>1. Reading(w) /\ at[w] = "read_on"
    BY <1>4 DEF ReadOn, Reading
  <2>2. wants[c].kind = "check" => wants[c].told = {}
    BY <2>1 DEF GradeInv, CheckInv, CheckOk, Checks
  <2> DEFINE text == CASE status[req_id[w]] \in {"RECEIVED", "empty"} -> "RECEIVED"
                       [] status[req_id[w]] = "COMPILE_ERROR" -> "RECEIVEDERROR"
                       [] OTHER -> status[req_id[w]]
  <2>3. Answer(w, "read_on", text)
    BY <1>4 DEF ReadOn
  <2>4. text \in Verdicts => text = status[req_id[w]]
    BY DEF Verdicts
  <2> HIDE DEF text
  <2>5. CASE text \in Verdicts
    BY <2>1, <2>3, <2>4, <2>5, ToldVerdict
  <2>6. CASE text \notin Verdicts
    BY <2>2, <2>3, <2>6, ToldOther
  <2> QED
    BY <2>5, <2>6
<1> QED
  BY <1>1, <1>3, <1>4

LEMMA ToldStep == GradeInv /\ [ServerNext]_serverVars => ToldInv'
<1> SUFFICES ASSUME GradeInv, [ServerNext]_serverVars, NEW c \in Conns
             PROVE  ToldOk(c)'
  BY DEF ToldInv
<1> USE DEF clients
<1>1. socket'[c] = "none" => socket[c] = "none"
  BY RequestKept DEF GradeInv
<1>2. ASSUME wants'[c] = wants[c], reply'[c] = reply[c] PROVE ToldOk(c)'
  BY <1>1, <1>2, ToldRests
<1>3. CASE Accept
  <2>1. PICK d \in Conns, kind \in Kinds, i \in Issued \cup {NoId} :
           /\ socket[d] = "none"
           /\ socket' = [socket EXCEPT ![d] = "open"]
           /\ wants' = [wants EXCEPT ![d] = [kind |-> kind, id |-> i, told |-> Told(i)]]
           /\ reply' = reply /\ status' = status
    BY <1>3 DEF Accept, files
  <2>2. i \in Ids \cup {NoId}
    BY DEF Issued
  <2>3. CASE c = d
    <3>1. /\ socket'[c] = "open"
          /\ wants'[c] = [kind |-> kind, id |-> i, told |-> Told(i)]
      BY <2>1, <2>3 DEF GradeInv, BaseInv, DataInv
    <3> QED
      BY <2>1, <2>2, <2>3, <3>1, ToldAccept
  <2>4. CASE c # d
    BY <1>2, <2>1, <2>4
  <2> QED
    BY <2>3, <2>4
<1>4. CASE AddRequest \/ Restart \/ Ends
  BY <1>2, <1>4 DEF AddRequest, Restart, Ends
<1>5. CASE UNCHANGED serverVars
  BY <1>2, <1>5 DEF serverVars
<1>6. ASSUME NEW w \in Workers,
             \/ ReplyId(w) \/ StatusOfNoFile(w) \/ ReadStatus(w) \/ ReadOn(w)
      PROVE  ToldOk(c)'
  <2>1. CASE c = running[w]
    BY <1>6, <2>1, ToldReplyId, ToldActs
  <2>2. CASE c # running[w]
    <3>1. wants'[c] = wants[c] /\ reply'[c] = reply[c]
      BY <1>6, <2>2 DEF ReplyId, StatusOfNoFile, ReadStatus, ReadOn, Answer, Write,
         GradeInv, BaseInv, DataInv
    <3> QED
      BY <1>2, <3>1
  <2> QED
    BY <2>1, <2>2
<1>7. ASSUME NEW w \in Workers,
             \/ BeginTask(w) \/ InvalidAction(w) \/ CheckFails(w)
             \/ CloseSocket(w) \/ NewSubmission(w)
             \/ RecvWhole(w) \/ RecvFails(w) \/ RecvFailsOnSize(w) \/ RecvMisses(w)
             \/ OpenReceived(w) \/ WriteReceived(w) \/ AddWorkerTask(w)
             \/ OpenStatus(w) \/ ReadReceived(w) \/ OpenStatusForGrading(w)
             \/ Compile(w) \/ Run(w) \/ Diff(w) \/ CloseStatus(w)
      PROVE  ToldOk(c)'
  <2>1. UNCHANGED <<wants, reply>>
    BY <1>7 DEF BeginTask, InvalidAction, CheckFails, CloseSocket, NewSubmission,
       RecvWhole,
       RecvFails, RecvFailsOnSize, RecvMisses, OpenReceived, WriteReceived,
       AddWorkerTask, OpenStatus, ReadReceived, OpenStatusForGrading, Compile, Run,
       Diff, Fprintf, CloseStatus
  <2> QED
    BY <1>2, <2>1
<1> QED
  BY <1>3, <1>4, <1>5, <1>6, <1>7 DEF ServerNext, KillServer, Crash, WorkerStep,
       WorkerTask

-----------------------------------------------------------------------------
(* The invariant, and what follows from it                                 *)

LEMMA GradeStep == GradeInv /\ [ServerNext]_serverVars => GradeInv'
<1> SUFFICES ASSUME GradeInv, [ServerNext]_serverVars PROVE GradeInv'
  OBVIOUS
<1>1. BaseInv'
  BY PoolStep, PlaceStep, DataStep, LocalStep, SocketStep DEF GradeInv, BaseInv
<1>2. VerdictInv'
  BY VerdictStep DEF GradeInv, VerdictInv
<1> QED
  BY <1>1, <1>2, SubmitStep, OwnerStep, FreshStep, IssuedStep, CheckStep, ToldStep
  DEF GradeInv

LEMMA GradeInitInv == ServerInit => GradeInv
<1> SUFFICES ASSUME ServerInit PROVE GradeInv
  OBVIOUS
<1>1. BaseInv
  BY ServerInitInv
<1>2. Taken = {} /\ finished = {}
  BY QueueInitInv DEF ServerInit, QueueInit, Taken
<1>3. \A w \in Workers : ~ Submitting(w) /\ ~ Reading(w)
  BY DEF ServerInit, Submitting, Reading
<1>4. SubmitInv /\ OwnerInv /\ CheckInv
  BY <1>3 DEF SubmitInv, SubmitOk, OwnerInv, CheckInv, CheckOk
<1>5. FreshInv /\ VerdictInv
  BY <1>2 DEF ServerInit, FreshInv, VerdictInv, Verdicts
<1>6. \A c \in Conns : wants[c] = NoRequest /\ reply[c] = "none"
  BY DEF ServerInit
<1>7. IssuedInv
  BY <1>6 DEF IssuedInv, Issued, NoRequest
<1>8. ToldInv
  BY <1>6 DEF ToldInv, ToldOk, NoRequest, Checks
<1> QED
  BY <1>1, <1>4, <1>5, <1>7, <1>8 DEF GradeInv

\* The parts of GradeInv together are inductive.
THEOREM GradeInvariant == ServerSpec => []GradeInv
<1>1. ServerInit => GradeInv
  BY GradeInitInv
<1>2. GradeInv /\ [ServerNext]_serverVars => GradeInv'
  BY GradeStep
<1> QED
  BY <1>1, <1>2, PTL DEF ServerSpec

(***************************************************************************)
(* An id is sent to the client only when its submission is received whole, *)
(* has a status file, and is queued, running or graded.  Whatever other    *)
(* clients do it stays so; only the end of the process loses it, and then  *)
(* it never gets a verdict (req_handler_threads.c:51-70,                   *)
(* worker_threads.c:74-98).                                                *)
(***************************************************************************)
THEOREM IdsAreKept == ServerSpec => []IssuedIsKept
<1>1. GradeInv => IssuedIsKept
  <2> SUFFICES ASSUME GradeInv, NEW i \in Issued
               PROVE  /\ source[i] = "whole" /\ status[i] # "absent"
                      /\ i \in finished => status[i] \in Verdicts
                      /\ ~ Known(i) => i \in lost /\ status[i] \notin Verdicts
    BY DEF IssuedIsKept
  <2>1. i \in Ids /\ i \in Tasks
    BY TaskKinds DEF Issued
  <2>2. Known(i) <=> i \in Taken
    BY <2>1, KnownTasks DEF Taken
  <2> QED
    BY <2>1, <2>2 DEF GradeInv, IssuedInv, VerdictInv, Taken
<1> QED
  BY <1>1, GradeInvariant, PTL

(***************************************************************************)
(* Neither a connection nor an id is given to the pool twice: not by two   *)
(* handlers, not by main and a handler, and an id that was queued before a *)
(* restart is not queued again (server.c:62-69,                            *)
(* req_handler_threads.c:44-67).                                           *)
(***************************************************************************)
THEOREM NoSubmissionTwice == ServerSpec => []NothingIsAddedTwice
<1>1. GradeInv => NothingIsAddedTwice
  <2> SUFFICES ASSUME GradeInv PROVE NothingIsAddedTwice
    OBVIOUS
  <2>1. main # NoTask => ~ Known(main)
    <3>1. main # NoTask => main \in Tasks /\ main \notin InPool \cup finished
      BY TaskKinds DEF GradeInv, BaseInv, DataInv, SocketInv
    <3> QED
      BY <3>1, KnownTasks
  <2>2. ASSUME NEW w \in Workers, at[w] = "add_task"
        PROVE  /\ ~ Known(req_id[w]) /\ req_id[w] \notin lost
               /\ \A v \in Workers \ {w} : at[v] = "add_task" => req_id[v] # req_id[w]
    <3>1. Submitting(w) /\ req_id[w] \in Ids /\ SubmitOk(w)
      BY <2>2 DEF GradeInv, BaseInv, LocalInv, SubmitInv, Submitting
    <3>2. req_id[w] \in Tasks /\ req_id[w] \notin Taken
      BY <2>2, <3>1, TaskKinds DEF SubmitOk
    <3>3. ~ Known(req_id[w]) /\ req_id[w] \notin lost
      BY <3>1, <3>2, KnownTasks DEF SubmitOk, Taken
    <3>4. \A v \in Workers \ {w} : at[v] = "add_task" => req_id[v] # req_id[w]
      BY <3>1 DEF GradeInv, OwnerInv, Submitting
    <3> QED
      BY <3>3, <3>4
  <2> QED
    BY <2>1, <2>2 DEF NothingIsAddedTwice
<1> QED
  BY <1>1, GradeInvariant, PTL

(***************************************************************************)
(* A verdict in a status file is never overwritten, neither by the handler *)
(* that writes RECEIVED to the same file nor by a worker that grades, and  *)
(* not after a restart either (req_handler_threads.c:60-67,                *)
(* worker_threads.c:74).                                                   *)
(***************************************************************************)
THEOREM VerdictsStay == ServerSpec => VerdictsAreFinal
<1>1. GradeInv /\ [ServerNext]_serverVars
        => [\A i \in Ids : status[i] \in Verdicts => status'[i] = status[i]]_serverVars
  BY VerdictStep DEF GradeInv
<1> QED
  BY <1>1, GradeInvariant, PTL DEF ServerSpec, VerdictsAreFinal

(***************************************************************************)
(* A verdict that one client has been told is what every later check of    *)
(* that id, sent whole, is answered with; two different verdicts of an id  *)
(* are never told (req_handler_threads.c:73-111).                          *)
(***************************************************************************)
THEOREM VerdictsAgree == ServerSpec => []VerdictOnceTold
<1>1. GradeInv => VerdictOnceTold
  <2> SUFFICES ASSUME GradeInv, NEW c \in Conns
               PROVE  /\ Cardinality(wants[c].told) <= 1
                      /\ wants[c].kind = "check" /\ reply[c] # "none"
                           /\ wants[c].told # {} => reply[c] \in wants[c].told
    BY DEF VerdictOnceTold
  <2>1. ToldOk(c)
    BY DEF GradeInv, ToldInv
  <2>2. CASE wants[c].told = {}
    BY <2>2, FS_EmptySet
  <2>3. CASE wants[c].told # {}
    <3>1. PICK verdict : wants[c].told = {verdict}
      BY <2>1, <2>3 DEF ToldOk
    <3>2. Cardinality(wants[c].told) = 1
      BY <3>1, FS_Singleton
    <3> QED
      BY <2>1, <3>2 DEF ToldOk
  <2> QED
    BY <2>2, <2>3
<1> QED
  BY <1>1, GradeInvariant, PTL

=============================================================================
