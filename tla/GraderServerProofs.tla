-------------------------- MODULE GraderServerProofs --------------------------
(***************************************************************************)
(* Proofs about the grading server, for any number of workers, connections *)
(* and ids, any capacity of the queue, any requests and restarts: its type *)
(* invariant, and that every open socket is in the hands of main, of the   *)
(* queue or of one worker, which bounds the descriptors in use.            *)
(***************************************************************************)
EXTENDS GraderServer, TaskQueueProofs, FiniteSetTheorems

Handling == {"read_action", "recv_file", "fopen_status", "fclose_status", "add_task",
             "write_id", "read_status", "read_on", "close"}
Grading == {"open_status", "compile", "run", "diff", "fclose"}

\* A handler between gen_uuid and the reply, and one that reads a status file.
Submitting(w) ==
    at[w] \in {"recv_file", "fopen_status", "fclose_status", "add_task", "write_id"}
Reading(w) == at[w] \in {"read_status", "read_on"}

\* A worker is where its task can be.
PlaceInv ==
    /\ at \in [Workers -> Handling \cup Grading \cup {"idle"}]
    /\ \A w \in Workers : /\ at[w] \in Handling <=> running[w] \in Conns
                          /\ at[w] \in Grading <=> running[w] \in Ids

\* The variables that no step relates to others.
DataInv ==
    /\ main \in Conns \cup {NoTask}
    /\ socket \in [Conns -> {"none", "open", "closed"}]
    /\ wants \in [Conns -> [kind : Kinds \cup {"none"}, id : Ids \cup {NoId},
                           told : SUBSET Verdicts]]
    /\ reply \in [Conns -> Replies]
    /\ req_id \in [Workers -> Ids \cup {NoId}]
    /\ printed \in [Workers -> Texts \cup {"COMPILED", "EXECUTED"}]
    /\ source \in [Ids -> {"absent", "part", "whole"}]
    /\ status \in [Ids -> Texts \cup {"absent"}]
    /\ leaked \in Nat
    /\ up \in BOOLEAN
    /\ restarts \in 0..MaxRestarts
    /\ lost \subseteq Ids

\* What a worker is about to send or to write to a file is a reply or a text.
LocalInv ==
    \A w \in Workers :
        /\ Submitting(w) => req_id[w] \in Ids
        /\ Reading(w) => req_id[w] \in Ids /\ status[req_id[w]] # "absent"
        /\ at[w] = "fclose" => printed[w] \in Verdicts

\* A socket main has accepted is in nobody else's hands, and one whose task has
\* finished is closed.
SocketInv ==
    /\ \A c \in Conns : socket[c] = "open" <=> c = main \/ c \in InPool
    /\ main \notin InPool
    /\ \A c \in Conns : c \in finished => socket[c] = "closed"

BaseInv == PoolInv /\ PlaceInv /\ DataInv /\ LocalInv /\ SocketInv

-----------------------------------------------------------------------------
(* The queue                                                               *)

LEMMA TaskKinds ==
    /\ Conns \subseteq Tasks /\ Ids \subseteq Tasks /\ Tasks \subseteq Conns \cup Ids
    /\ Conns \cap Ids = {}
    /\ NoTask \notin Conns /\ NoTask \notin Ids
BY ServerAssumption, QueueAssumption

\* A worker has something to do exactly when it runs a task.
LEMMA WorkerPlaces ==
    ASSUME BaseInv
    PROVE  /\ running \in [Workers -> Conns \cup Ids \cup {NoTask}]
           /\ \A w \in Workers : at[w] = "idle" <=> running[w] = NoTask
<1>1. running \in [Workers -> Conns \cup Ids \cup {NoTask}]
  BY TaskKinds DEF BaseInv, PoolInv, QueueTypeOK
<1> QED
  BY <1>1, TaskKinds DEF BaseInv, PlaceInv, Handling, Grading

\* The process ends with an empty pool.
LEMMA EndsEmpty ==
    ASSUME PoolInv, Ends
    PROVE  PoolInv' /\ InPool' = {} /\ finished' = finished
<1>1. /\ pending' = <<>> /\ running' = [w \in Workers |-> NoTask]
      /\ finished' = finished
  BY DEF Ends
<1>2. Range(pending') = {} /\ Range(running') \subseteq {NoTask} /\ DOMAIN pending' = {}
      /\ \A w \in Workers : running'[w] = NoTask
  BY <1>1 DEF Range
<1>3. QueueTypeOK'
  BY <1>1, QueueAssumption DEF PoolInv, QueueTypeOK
<1>4. ExactlyOnce'
  <2>1. finished \subseteq Tasks
    BY DEF PoolInv, QueueTypeOK
  <2> QED
    BY <2>1, <1>1, <1>2, QueueAssumption DEF ExactlyOnce
<1> QED
  BY <1>1, <1>2, <1>3, <1>4 DEF PoolInv, InPool

\* Which step does what to the queue.
LEMMA PoolSteps ==
    ASSUME BaseInv, NEW w \in Workers, WorkerStep(w)
    PROVE  \/ BeginTask(w) /\ Begin(w)
           \/ (CloseSocket(w) \/ CloseStatus(w)) /\ Finish(w)
           \/ AddWorkerTask(w) /\ Add(req_id[w]) /\ req_id[w] \in Tasks
           \/ UNCHANGED queueVars
<1>1. CASE BeginTask(w)
  BY <1>1 DEF BeginTask
<1>2. CASE CloseSocket(w) \/ CloseStatus(w)
  BY <1>2 DEF CloseSocket, CloseStatus
<1>3. CASE AddWorkerTask(w)
  <2>1. at[w] = "add_task" /\ Add(req_id[w])
    BY <1>3 DEF AddWorkerTask, Step
  <2>2. req_id[w] \in Ids
    BY <2>1 DEF BaseInv, LocalInv, Submitting
  <2> QED
    BY <1>3, <2>1, <2>2, TaskKinds
<1>4. CASE \/ InvalidAction(w) \/ CheckFails(w) \/ NewSubmission(w)
           \/ RecvWhole(w) \/ RecvFails(w)
           \/ RecvFailsOnSize(w) \/ RecvMisses(w) \/ OpenReceived(w)
           \/ WriteReceived(w) \/ ReplyId(w)
  BY <1>4 DEF InvalidAction, CheckFails, NewSubmission, RecvWhole, RecvFails,
     RecvFailsOnSize,
     RecvMisses, OpenReceived, WriteReceived, ReplyId
<1>5. CASE \/ StatusOfNoFile(w) \/ OpenStatus(w) \/ ReadStatus(w) \/ ReadReceived(w)
           \/ ReadOn(w)
  BY <1>5 DEF StatusOfNoFile, OpenStatus, ReadStatus, ReadReceived, ReadOn, Answer
<1>6. CASE OpenStatusForGrading(w) \/ Compile(w) \/ Run(w) \/ Diff(w)
  BY <1>6 DEF OpenStatusForGrading, Compile, Run, Diff, Fprintf
<1> QED
  BY <1>1, <1>2, <1>3, <1>4, <1>5, <1>6 DEF WorkerStep, WorkerTask

LEMMA UnchangedPool ==
    ASSUME PoolInv, UNCHANGED queueVars
    PROVE  PoolInv' /\ InPool' = InPool /\ finished' = finished /\ running' = running
BY DEF queueVars, PoolInv, QueueTypeOK, ExactlyOnce, InPool

LEMMA PoolStep == BaseInv /\ [ServerNext]_serverVars => PoolInv'
<1> SUFFICES ASSUME BaseInv, [ServerNext]_serverVars PROVE PoolInv'
  OBVIOUS
<1> USE DEF BaseInv
<1>1. CASE Accept
  BY <1>1, UnchangedPool DEF Accept
<1>2. CASE AddRequest
  <2>1. main \in Tasks /\ Add(main)
    BY <1>2, TaskKinds DEF AddRequest, DataInv
  <2> QED
    BY <2>1, AddEffect
<1>3. ASSUME NEW w \in Workers, WorkerStep(w) PROVE PoolInv'
  BY <1>3, PoolSteps, BeginEffect, FinishEffect, AddEffect, UnchangedPool
<1>4. CASE Ends
  BY <1>4, EndsEmpty
<1>5. CASE Restart \/ UNCHANGED serverVars
  BY <1>5, UnchangedPool DEF Restart, serverVars, queueVars
<1> QED
  BY <1>1, <1>2, <1>3, <1>4, <1>5 DEF ServerNext, KillServer, Crash

-----------------------------------------------------------------------------
(* Where the workers are                                                   *)

LEMMA PlaceStep == BaseInv /\ [ServerNext]_serverVars => PlaceInv'
<1> SUFFICES ASSUME BaseInv, [ServerNext]_serverVars PROVE PlaceInv'
  OBVIOUS
<1> USE TaskKinds, WorkerPlaces DEF PlaceInv, Handling, Grading
<1>1. CASE Accept \/ AddRequest \/ Restart \/ UNCHANGED serverVars
  BY <1>1 DEF Accept, AddRequest, Add, Restart, serverVars, queueVars, locals, BaseInv
<1>2. ASSUME NEW w \in Workers, BeginTask(w) PROVE PlaceInv'
  <2>1. /\ at[w] = "idle"
        /\ at' = [at EXCEPT ![w] = IF Head(pending) \in Conns THEN "read_action"
                                                              ELSE "open_status"]
        /\ running' = [running EXCEPT ![w] = Head(pending)]
    BY <1>2 DEF BeginTask, Begin, Step
  <2>2. Head(pending) \in Conns \cup Ids
    BY <1>2, BeginEffect DEF BeginTask, BaseInv
  <2> QED
    BY <2>1, <2>2 DEF BaseInv
<1>3. ASSUME NEW w \in Workers, CloseSocket(w) \/ CloseStatus(w) PROVE PlaceInv'
  BY <1>3 DEF CloseSocket, CloseStatus, Step, Finish, BaseInv
<1>4. ASSUME NEW w \in Workers, NEW to \in Handling, at[w] \in Handling,
             at' = [at EXCEPT ![w] = to], running' = running
      PROVE  PlaceInv'
  BY <1>4 DEF BaseInv
<1>5. ASSUME NEW w \in Workers, NEW to \in Grading, at[w] \in Grading,
             at' = [at EXCEPT ![w] = to], running' = running
      PROVE  PlaceInv'
  BY <1>5 DEF BaseInv
<1>6. ASSUME NEW w \in Workers,
             \/ InvalidAction(w) \/ CheckFails(w) \/ NewSubmission(w)
             \/ RecvWhole(w) \/ RecvFails(w)
             \/ RecvFailsOnSize(w) \/ RecvMisses(w) \/ OpenReceived(w)
             \/ WriteReceived(w) \/ ReplyId(w)
      PROVE  PlaceInv'
  BY <1>6, <1>4 DEF InvalidAction, CheckFails, NewSubmission, RecvWhole, RecvFails,
     RecvFailsOnSize,
     RecvMisses, OpenReceived, WriteReceived, ReplyId, Step, queueVars
<1>7. ASSUME NEW w \in Workers,
             \/ AddWorkerTask(w) \/ StatusOfNoFile(w) \/ OpenStatus(w) \/ ReadStatus(w)
             \/ ReadReceived(w) \/ ReadOn(w)
      PROVE  PlaceInv'
  BY <1>7, <1>4 DEF AddWorkerTask, Add, StatusOfNoFile, OpenStatus, ReadStatus,
     ReadReceived, ReadOn, Answer, Step, queueVars
<1>8. ASSUME NEW w \in Workers,
             OpenStatusForGrading(w) \/ Compile(w) \/ Run(w) \/ Diff(w)
      PROVE  PlaceInv'
  BY <1>8, <1>5 DEF OpenStatusForGrading, Compile, Run, Diff, Fprintf, Step, queueVars
<1>9. CASE Ends
  BY <1>9 DEF Ends
<1> QED
  BY <1>1, <1>2, <1>3, <1>6, <1>7, <1>8, <1>9 DEF ServerNext, KillServer, Crash,
     WorkerStep, WorkerTask

-----------------------------------------------------------------------------
(* The types of the other variables                                        *)

LEMMA DataStep == BaseInv /\ [ServerNext]_serverVars => DataInv'
<1> SUFFICES ASSUME BaseInv, [ServerNext]_serverVars PROVE DataInv'
  OBVIOUS
<1> USE DEF DataInv, BaseInv, clients, locals, files, process
<1>1. CASE Accept
  <2>1. PICK c \in Conns, kind \in Kinds, i \in Issued \cup {NoId} :
           /\ main' = c
           /\ socket' = [socket EXCEPT ![c] = "open"]
           /\ wants' = [wants EXCEPT ![c] = [kind |-> kind, id |-> i, told |-> Told(i)]]
           /\ UNCHANGED <<reply, locals, files, process>>
    BY <1>1 DEF Accept
  <2>2. i \in Ids \cup {NoId} /\ Told(i) \in SUBSET Verdicts
    BY DEF Issued, Told
  <2> QED
    BY <2>1, <2>2
<1>2. CASE AddRequest \/ Restart \/ UNCHANGED serverVars
  <2>1. CASE AddRequest
    BY <2>1 DEF AddRequest
  <2>2. CASE Restart
    BY <2>2, ServerAssumption DEF Restart
  <2>3. CASE UNCHANGED serverVars
    BY <2>3 DEF serverVars
  <2> QED
    BY <1>2, <2>1, <2>2, <2>3
<1>3. CASE Ends
  BY <1>3 DEF Ends, Texts
<1>4. ASSUME NEW w \in Workers,
             \/ BeginTask(w) \/ InvalidAction(w) \/ CheckFails(w)
             \/ CloseSocket(w) \/ RecvFails(w)
             \/ RecvFailsOnSize(w) \/ RecvMisses(w) \/ AddWorkerTask(w)
      PROVE  DataInv'
  BY <1>4 DEF BeginTask, InvalidAction, CheckFails, CloseSocket, RecvFails,
     RecvFailsOnSize,
     RecvMisses, AddWorkerTask
<1>5. ASSUME NEW w \in Workers,
             NewSubmission(w) \/ RecvWhole(w) \/ OpenReceived(w) \/ WriteReceived(w)
      PROVE  DataInv'
  BY <1>5 DEF NewSubmission, RecvWhole, OpenReceived, WriteReceived, Texts
<1>6. ASSUME NEW w \in Workers, ReplyId(w) PROVE DataInv'
  <2>1. req_id[w] \in Ids
    BY <1>6 DEF ReplyId, Step, LocalInv, Submitting
  <2> QED
    BY <1>6, <2>1 DEF ReplyId, Write, Replies
<1>7. ASSUME NEW w \in Workers, NEW from, NEW text \in Replies, Answer(w, from, text)
      PROVE  DataInv'
  BY <1>7 DEF Answer, Write
<1>8. ASSUME NEW w \in Workers,
             StatusOfNoFile(w) \/ ReadStatus(w) \/ ReadOn(w)
      PROVE  DataInv'
  <2>1. CASE StatusOfNoFile(w)
    BY <2>1, <1>7 DEF StatusOfNoFile, Replies
  <2>2. CASE ReadStatus(w)
    <3>1. req_id[w] \in Ids /\ status[req_id[w]] \in Texts \ {"RECEIVED"}
      BY <2>2 DEF ReadStatus, LocalInv, Reading
    <3> DEFINE text == IF status[req_id[w]] = "empty" THEN "WRONG ID"
                                                      ELSE status[req_id[w]]
    <3>2. text \in Replies
      BY <3>1 DEF Texts, Replies
    <3>3. Answer(w, "read_status", text)
      BY <2>2 DEF ReadStatus
    <3> HIDE DEF text
    <3> QED
      BY <3>2, <3>3, <1>7
  <2>3. CASE ReadOn(w)
    <3>1. req_id[w] \in Ids /\ status[req_id[w]] \in Texts
      BY <2>3 DEF ReadOn, LocalInv, Reading
    <3> DEFINE text == CASE status[req_id[w]] \in {"RECEIVED", "empty"} -> "RECEIVED"
                         [] status[req_id[w]] = "COMPILE_ERROR" -> "RECEIVEDERROR"
                         [] OTHER -> status[req_id[w]]
    <3>2. text \in Replies
      BY <3>1 DEF Texts, Replies
    <3>3. Answer(w, "read_on", text)
      BY <2>3 DEF ReadOn
    <3> HIDE DEF text
    <3> QED
      BY <3>2, <3>3, <1>7
  <2> QED
    BY <1>8, <2>1, <2>2, <2>3
<1>9. ASSUME NEW w \in Workers, OpenStatus(w) \/ ReadReceived(w) PROVE DataInv'
  BY <1>9 DEF OpenStatus, ReadReceived, HasStatus
<1>10. ASSUME NEW w \in Workers,
              OpenStatusForGrading(w) \/ Compile(w) \/ Run(w) \/ Diff(w)
       PROVE  DataInv'
  BY <1>10 DEF OpenStatusForGrading, Compile, Run, Diff, Fprintf, Texts, Verdicts
<1>11. ASSUME NEW w \in Workers, CloseStatus(w) PROVE DataInv'
  <2>1. printed[w] \in Texts
    BY <1>11 DEF CloseStatus, Step, LocalInv, Texts
  <2> QED
    BY <1>11, <2>1 DEF CloseStatus
<1> QED
  BY <1>1, <1>2, <1>3, <1>4, <1>5, <1>6, <1>8, <1>9, <1>10, <1>11 DEF ServerNext,
     KillServer, Crash, WorkerStep, WorkerTask

-----------------------------------------------------------------------------
(* What a worker's step leaves alone                                       *)

\* Nothing of the other workers.
LEMMA OthersKept ==
    ASSUME BaseInv, NEW w \in Workers, WorkerStep(w), NEW v \in Workers, v # w
    PROVE  /\ at'[v] = at[v] /\ req_id'[v] = req_id[v]
           /\ printed'[v] = printed[v] /\ running'[v] = running[v]
<1> USE DEF Step, locals, queueVars
<1>1. /\ at = [u \in Workers |-> at[u]] /\ req_id = [u \in Workers |-> req_id[u]]
      /\ printed = [u \in Workers |-> printed[u]]
      /\ running = [u \in Workers |-> running[u]]
  BY DEF BaseInv, PoolInv, QueueTypeOK, PlaceInv, DataInv
<1>2. CASE BeginTask(w) \/ CloseSocket(w) \/ CloseStatus(w)
  BY <1>1, <1>2 DEF BeginTask, CloseSocket, CloseStatus, Begin, Finish
<1>3. CASE \/ InvalidAction(w) \/ CheckFails(w) \/ NewSubmission(w)
           \/ RecvWhole(w) \/ RecvFails(w)
           \/ RecvFailsOnSize(w) \/ RecvMisses(w)
  BY <1>1, <1>3 DEF InvalidAction, CheckFails, NewSubmission, RecvWhole, RecvFails,
     RecvFailsOnSize, RecvMisses
<1>4. CASE OpenReceived(w) \/ WriteReceived(w) \/ AddWorkerTask(w) \/ ReplyId(w)
  BY <1>1, <1>4 DEF OpenReceived, WriteReceived, AddWorkerTask, Add, ReplyId
<1>5. CASE \/ StatusOfNoFile(w) \/ OpenStatus(w) \/ ReadStatus(w) \/ ReadReceived(w)
           \/ ReadOn(w)
  <2>1. ASSUME NEW from, NEW text, Answer(w, from, text)
        PROVE  /\ at' = [at EXCEPT ![w] = "close"]
               /\ UNCHANGED <<req_id, printed, running>>
    BY <2>1 DEF Answer
  <2>2. CASE StatusOfNoFile(w) \/ ReadStatus(w) \/ ReadOn(w)
    BY <1>1, <2>1, <2>2 DEF StatusOfNoFile, ReadStatus, ReadOn
  <2>3. CASE OpenStatus(w) \/ ReadReceived(w)
    BY <1>1, <2>3 DEF OpenStatus, ReadReceived
  <2> QED
    BY <1>5, <2>2, <2>3
<1>6. CASE OpenStatusForGrading(w) \/ Compile(w) \/ Run(w) \/ Diff(w)
  BY <1>1, <1>6 DEF OpenStatusForGrading, Compile, Run, Diff, Fprintf
<1> QED
  BY <1>2, <1>3, <1>4, <1>5, <1>6 DEF WorkerStep, WorkerTask

\* No file is removed, and no source that is whole is written to.
LEMMA FilesGrow ==
    ASSUME BaseInv, [ServerNext]_serverVars, NEW i \in Ids
    PROVE  /\ source[i] # "absent" => source'[i] # "absent"
           /\ source[i] = "whole" => source'[i] = "whole"
           /\ status[i] # "absent" => status'[i] # "absent"
<1> USE DEF BaseInv, DataInv, files
<1>1. CASE Accept \/ AddRequest \/ Ends \/ Restart
  BY <1>1 DEF Accept, AddRequest, Ends, Restart
<1>2. CASE UNCHANGED serverVars
  BY <1>2 DEF serverVars
<1>3. ASSUME NEW w \in Workers, NewSubmission(w) \/ RecvWhole(w)
      PROVE  /\ source[i] # "absent" => source'[i] # "absent"
             /\ source[i] = "whole" => source'[i] = "whole"
             /\ status'[i] = status[i]
  BY <1>3 DEF NewSubmission, RecvWhole
<1>4. ASSUME NEW w \in Workers, \/ OpenReceived(w) \/ WriteReceived(w)
                                \/ OpenStatusForGrading(w)
      PROVE  source'[i] = source[i] /\ (status[i] # "absent" => status'[i] # "absent")
  BY <1>4 DEF OpenReceived, WriteReceived, OpenStatusForGrading
<1>5. ASSUME NEW w \in Workers, CloseStatus(w)
      PROVE  source'[i] = source[i] /\ (status[i] # "absent" => status'[i] # "absent")
  <2>1. printed[w] # "absent"
    BY <1>5 DEF CloseStatus, Step, LocalInv, Verdicts
  <2> QED
    BY <1>5, <2>1 DEF CloseStatus
<1>6. ASSUME NEW w \in Workers,
             \/ BeginTask(w) \/ InvalidAction(w) \/ CheckFails(w)
             \/ CloseSocket(w) \/ RecvFails(w)
             \/ RecvFailsOnSize(w) \/ RecvMisses(w) \/ AddWorkerTask(w) \/ ReplyId(w)
      PROVE  source'[i] = source[i] /\ status'[i] = status[i]
  BY <1>6 DEF BeginTask, InvalidAction, CheckFails, CloseSocket, RecvFails,
     RecvFailsOnSize,
     RecvMisses, AddWorkerTask, ReplyId
<1>7. ASSUME NEW w \in Workers,
             \/ StatusOfNoFile(w) \/ OpenStatus(w) \/ ReadStatus(w) \/ ReadReceived(w)
             \/ ReadOn(w) \/ Compile(w) \/ Run(w) \/ Diff(w)
      PROVE  source'[i] = source[i] /\ status'[i] = status[i]
  BY <1>7 DEF StatusOfNoFile, OpenStatus, ReadStatus, ReadReceived, ReadOn, Answer,
     Compile, Run, Diff, Fprintf
<1> QED
  BY <1>1, <1>2, <1>3, <1>4, <1>5, <1>6, <1>7 DEF ServerNext, KillServer, Crash,
     WorkerStep, WorkerTask

-----------------------------------------------------------------------------
(* What a worker is about to send or to write                              *)

\* LocalInv, of one worker.
Local(w) ==
    /\ Submitting(w) => req_id[w] \in Ids
    /\ Reading(w) => req_id[w] \in Ids /\ status[req_id[w]] # "absent"
    /\ at[w] = "fclose" => printed[w] \in Verdicts

LEMMA LocalStep == BaseInv /\ [ServerNext]_serverVars => LocalInv'
<1> SUFFICES ASSUME BaseInv, [ServerNext]_serverVars PROVE LocalInv'
  OBVIOUS
<1>1. LocalInv <=> \A w \in Workers : Local(w)
  BY DEF LocalInv, Local
<1>2. LocalInv' <=> \A w \in Workers : Local(w)'
  BY DEF LocalInv, Local, Submitting, Reading
<1>3. ASSUME NEW v \in Workers, at'[v] = at[v], req_id'[v] = req_id[v],
             printed'[v] = printed[v]
      PROVE  Local(v)'
  <2>1. Local(v)
    BY <1>1 DEF BaseInv
  <2>2. Reading(v) => status'[req_id[v]] # "absent"
    BY <2>1, FilesGrow DEF Local
  <2> QED
    BY <1>3, <2>1, <2>2 DEF Local, Submitting, Reading
<1>4. ASSUME NEW w \in Workers, WorkerStep(w) PROVE Local(w)'
  <2> USE DEF BaseInv, PlaceInv, DataInv, Step, Local, Submitting, Reading, locals
  <2>1. Local(w)
    BY <1>1
  <2>2. CASE BeginTask(w)
    BY <2>2 DEF BeginTask
  <2>3. CASE CloseSocket(w) \/ CloseStatus(w)
    BY <2>3 DEF CloseSocket, CloseStatus
  <2>4. CASE \/ InvalidAction(w) \/ CheckFails(w) \/ RecvFails(w)
             \/ RecvFailsOnSize(w) \/ ReplyId(w)
    BY <2>4 DEF InvalidAction, CheckFails, RecvFails, RecvFailsOnSize, ReplyId
  <2>5. CASE NewSubmission(w) \/ RecvWhole(w) \/ RecvMisses(w)
    BY <2>1, <2>5 DEF NewSubmission, RecvWhole, RecvMisses
  <2>6. CASE OpenReceived(w) \/ WriteReceived(w) \/ AddWorkerTask(w)
    BY <2>1, <2>6 DEF OpenReceived, WriteReceived, AddWorkerTask
  <2>7. CASE StatusOfNoFile(w) \/ ReadStatus(w) \/ ReadOn(w)
    BY <2>7 DEF StatusOfNoFile, ReadStatus, ReadOn, Answer
  <2>8. CASE OpenStatus(w)
    BY <2>8 DEF OpenStatus, HasStatus, files
  <2>9. CASE ReadReceived(w)
    BY <2>1, <2>9 DEF ReadReceived, files
  <2>10. CASE OpenStatusForGrading(w) \/ Compile(w) \/ Run(w) \/ Diff(w)
    BY <2>10 DEF OpenStatusForGrading, Compile, Run, Diff, Fprintf, Verdicts
  <2> QED
    BY <1>4, <2>2, <2>3, <2>4, <2>5, <2>6, <2>7, <2>8, <2>9, <2>10 DEF WorkerStep,
         WorkerTask
<1>5. ASSUME NEW w \in Workers, WorkerStep(w) PROVE LocalInv'
  BY <1>2, <1>3, <1>4, <1>5, OthersKept
<1>6. CASE Accept \/ AddRequest \/ Restart \/ UNCHANGED serverVars
  BY <1>2, <1>3, <1>6 DEF Accept, AddRequest, Restart, serverVars, locals
<1>7. CASE Ends
  BY <1>2, <1>7 DEF Ends, Local, Submitting, Reading
<1> QED
  BY <1>5, <1>6, <1>7 DEF ServerNext, KillServer, Crash

-----------------------------------------------------------------------------
(* The sockets                                                             *)

LEMMA SocketStep == BaseInv /\ [ServerNext]_serverVars => SocketInv'
<1> SUFFICES ASSUME BaseInv, [ServerNext]_serverVars PROVE SocketInv'
  OBVIOUS
<1> USE TaskKinds DEF BaseInv, SocketInv, DataInv, clients
<1>1. CASE Accept
  <2>1. InPool' = InPool /\ finished' = finished
    BY <1>1, UnchangedPool DEF Accept
  <2>2. PICK c \in Conns : /\ main = NoTask /\ socket[c] = "none"
                           /\ main' = c /\ socket' = [socket EXCEPT ![c] = "open"]
    BY <1>1 DEF Accept
  <2> QED
    BY <2>1, <2>2
<1>2. CASE AddRequest
  <2>1. main \in Conns /\ main' = NoTask /\ socket' = socket
    BY <1>2 DEF AddRequest
  <2>2. InPool' = InPool \cup {main} /\ finished' = finished
    BY <1>2, <2>1, AddEffect DEF AddRequest
  <2>3. NoTask \notin InPool'
    BY <2>1, <2>2, PoolTasks, QueueAssumption
  <2> QED
    BY <2>1, <2>2, <2>3
<1>3. ASSUME NEW w \in Workers, BeginTask(w) PROVE SocketInv'
  <2>1. InPool' = InPool /\ finished' = finished
    BY <1>3, BeginEffect DEF BeginTask
  <2> QED
    BY <1>3, <2>1 DEF BeginTask
<1>4. ASSUME NEW w \in Workers, AddWorkerTask(w) PROVE SocketInv'
  <2>1. Add(req_id[w]) /\ main' = main /\ socket' = socket
    BY <1>4 DEF AddWorkerTask
  <2>2. req_id[w] \in Ids
    BY <1>4 DEF AddWorkerTask, Step, LocalInv, Submitting
  <2>3. InPool' = InPool \cup {req_id[w]} /\ finished' = finished
    BY <2>1, <2>2, AddEffect
  <2> QED
    BY <2>1, <2>2, <2>3
<1>5. ASSUME NEW w \in Workers, CloseSocket(w) PROVE SocketInv'
  <2>1. /\ InPool' = InPool \ {running[w]} /\ finished' = finished \cup {running[w]}
        /\ running[w] \in InPool
    BY <1>5, FinishEffect DEF CloseSocket
  <2>2. running[w] \in Conns
    BY <1>5 DEF CloseSocket, Step, PlaceInv, Handling
  <2>3. main' = main /\ socket' = [socket EXCEPT ![running[w]] = "closed"]
    BY <1>5 DEF CloseSocket
  <2> QED
    BY <2>1, <2>2, <2>3
<1>6. ASSUME NEW w \in Workers, CloseStatus(w) PROVE SocketInv'
  <2>1. InPool' = InPool \ {running[w]} /\ finished' = finished \cup {running[w]}
    BY <1>6, FinishEffect DEF CloseStatus
  <2>2. running[w] \in Ids
    BY <1>6 DEF CloseStatus, Step, PlaceInv, Grading
  <2>3. main' = main /\ socket' = socket
    BY <1>6 DEF CloseStatus
  <2> QED
    BY <2>1, <2>2, <2>3
<1>7. ASSUME UNCHANGED <<queueVars, main, socket>> PROVE SocketInv'
  BY <1>7, UnchangedPool
<1>8. ASSUME NEW w \in Workers,
             \/ InvalidAction(w) \/ CheckFails(w) \/ NewSubmission(w)
             \/ RecvWhole(w) \/ RecvFails(w)
             \/ RecvFailsOnSize(w) \/ RecvMisses(w) \/ OpenReceived(w)
             \/ WriteReceived(w) \/ ReplyId(w)
      PROVE  SocketInv'
  BY <1>7, <1>8 DEF InvalidAction, CheckFails, NewSubmission, RecvWhole, RecvFails,
     RecvFailsOnSize, RecvMisses, OpenReceived, WriteReceived, ReplyId
<1>9. ASSUME NEW w \in Workers,
             \/ StatusOfNoFile(w) \/ OpenStatus(w) \/ ReadStatus(w) \/ ReadReceived(w)
             \/ ReadOn(w)
      PROVE  SocketInv'
  BY <1>7, <1>9 DEF StatusOfNoFile, OpenStatus, ReadStatus, ReadReceived, ReadOn,
     Answer
<1>10. ASSUME NEW w \in Workers,
              OpenStatusForGrading(w) \/ Compile(w) \/ Run(w) \/ Diff(w)
       PROVE  SocketInv'
  BY <1>7, <1>10 DEF OpenStatusForGrading, Compile, Run, Diff, Fprintf
<1>11. CASE Ends
  <2>1. InPool' = {} /\ finished' = finished
    BY <1>11, EndsEmpty
  <2> QED
    BY <1>11, <2>1 DEF Ends
<1>12. CASE Restart \/ UNCHANGED serverVars
  BY <1>7, <1>12 DEF Restart, serverVars
<1> QED
  BY <1>1, <1>2, <1>3, <1>4, <1>5, <1>6, <1>8, <1>9, <1>10, <1>11, <1>12
  DEF ServerNext, KillServer, Crash, WorkerStep, WorkerTask

-----------------------------------------------------------------------------
(* The invariant, and what follows from it                                 *)

LEMMA ServerInitInv == ServerInit => BaseInv
<1> SUFFICES ASSUME ServerInit PROVE BaseInv
  OBVIOUS
<1>1. PoolInv /\ InPool = {}
  BY QueueInitInv DEF ServerInit
<1>2. /\ running = [w \in Workers |-> NoTask] /\ finished = {}
      /\ at = [w \in Workers |-> "idle"]
  BY DEF ServerInit, QueueInit
<1>3. PlaceInv
  BY <1>2, TaskKinds DEF PlaceInv, Handling, Grading
<1>4. DataInv
  BY ServerAssumption DEF ServerInit, DataInv, NoRequest, Replies, Texts
<1>5. LocalInv
  BY <1>2 DEF LocalInv, Submitting, Reading
<1>6. SocketInv
  BY <1>1, <1>2, TaskKinds DEF ServerInit, SocketInv
<1> QED
  BY <1>1, <1>3, <1>4, <1>5, <1>6 DEF BaseInv

\* PoolInv, PlaceInv, DataInv, LocalInv and SocketInv together are inductive.
THEOREM BaseInvariant == ServerSpec => []BaseInv
<1>1. ServerInit => BaseInv
  BY ServerInitInv
<1>2. BaseInv /\ [ServerNext]_serverVars => BaseInv'
  BY PoolStep, PlaceStep, DataStep, LocalStep, SocketStep DEF BaseInv
<1> QED
  BY <1>1, <1>2, PTL DEF ServerSpec

(***************************************************************************)
(* Every variable keeps its type; a worker with a connection is in a       *)
(* handler, one with an id is grading it, and one with no task is idle     *)
(* (req_handler_threads.c:14-111, worker_threads.c:69-101).                *)
(***************************************************************************)
THEOREM ServerTypes == ServerSpec => []ServerTypeOK
<1>1. BaseInv => ServerTypeOK
  <2> SUFFICES ASSUME BaseInv PROVE ServerTypeOK
    OBVIOUS
  <2>1. \A w \in Workers :
           at[w] \in IF running[w] \in Ids THEN Grading
                     ELSE IF running[w] \in Conns THEN Handling ELSE {"idle"}
    BY WorkerPlaces, TaskKinds DEF BaseInv, PlaceInv
  <2> QED
    BY <2>1 DEF BaseInv, PoolInv, DataInv, ServerTypeOK, Handling, Grading
<1> QED
  BY <1>1, BaseInvariant, PTL

(***************************************************************************)
(* A socket is open exactly while main, the queue or a worker has it:      *)
(* whatever path a request takes none leaks, and none is closed under a    *)
(* handler's feet (server.c:62-69, req_handler_threads.c:39).              *)
(***************************************************************************)
LEMMA OpenIsOwned == BaseInv => SocketsAreOwned
<1> SUFFICES ASSUME BaseInv PROVE SocketsAreOwned
  OBVIOUS
<1> QED
  BY TaskKinds DEF BaseInv, SocketInv, InPool, SocketsAreOwned

THEOREM SocketsOwned == ServerSpec => []SocketsAreOwned
BY OpenIsOwned, BaseInvariant, PTL

\* A function has no more values than arguments.
LEMMA RangeIsNotLarger ==
    ASSUME NEW S, IsFiniteSet(S), NEW T, NEW f \in [S -> T]
    PROVE  /\ IsFiniteSet(Range(f))
           /\ Cardinality(Range(f)) \in Nat
           /\ Cardinality(Range(f)) <= Cardinality(S)
<1>1. f \in Surjection(S, Range(f))
  BY DEF Surjection, Range
<1>2. IsFiniteSet(Range(f)) /\ Cardinality(Range(f)) <= Cardinality(S)
  BY <1>1, FS_Surjection
<1> QED
  BY <1>2, FS_CardinalityType

LEMMA IntervalSize ==
    ASSUME NEW n \in Nat
    PROVE  IsFiniteSet(1..n) /\ Cardinality(1..n) = n
<1>1. /\ IsFiniteSet(1..n)
      /\ Cardinality(1..n) = IF 1 > n THEN 0 ELSE n - 1 + 1
  BY FS_Interval
<1> QED
  BY <1>1

\* A set of no more than the elements of three has no more than these together.
LEMMA SmallUnion ==
    ASSUME NEW A, IsFiniteSet(A), NEW B, IsFiniteSet(B), NEW x,
           NEW T \in SUBSET ({x} \cup A \cup B)
    PROVE  /\ Cardinality(T) \in Nat
           /\ Cardinality(T) <= 1 + Cardinality(A) + Cardinality(B)
<1>1. /\ IsFiniteSet(A \cup B) /\ Cardinality(A \cup B) \in Nat
      /\ Cardinality(A \cup B) <= Cardinality(A) + Cardinality(B)
  <2>1. /\ IsFiniteSet(A \cup B)
        /\ Cardinality(A \cup B)
             = Cardinality(A) + Cardinality(B) - Cardinality(A \cap B)
    BY FS_Union
  <2>2. IsFiniteSet(A \cap B)
    <3>1. A \cap B \in SUBSET A
      OBVIOUS
    <3> QED
      BY <3>1, FS_Subset
  <2>3. /\ Cardinality(A) \in Nat /\ Cardinality(B) \in Nat
        /\ Cardinality(A \cap B) \in Nat /\ Cardinality(A \cup B) \in Nat
    BY <2>1, <2>2, FS_CardinalityType
  <2> QED
    BY <2>1, <2>3
<1> DEFINE U == (A \cup B) \cup {x}
<1>2. IsFiniteSet(U) /\ Cardinality(U) <= Cardinality(A \cup B) + 1
  <2> DEFINE V == A \cup B
  <2>1. IsFiniteSet(V) /\ Cardinality(V) \in Nat
    BY <1>1
  <2> HIDE DEF V
  <2>2. /\ IsFiniteSet(V \cup {x})
        /\ Cardinality(V \cup {x})
             = IF x \in V THEN Cardinality(V) ELSE Cardinality(V) + 1
    BY <2>1, FS_AddElement
  <2>3. IsFiniteSet(V \cup {x}) /\ Cardinality(V \cup {x}) <= Cardinality(V) + 1
    BY <2>1, <2>2
  <2> QED
    BY <2>3 DEF V
<1>3. T \in SUBSET U
  OBVIOUS
<1> HIDE DEF U
<1>4. IsFiniteSet(T) /\ Cardinality(T) <= Cardinality(U)
  BY <1>2, <1>3, FS_Subset
<1>5. /\ Cardinality(T) \in Nat /\ Cardinality(U) \in Nat
      /\ Cardinality(A) \in Nat /\ Cardinality(B) \in Nat
  BY <1>2, <1>4, FS_CardinalityType
<1> QED
  BY <1>1, <1>2, <1>4, <1>5

(***************************************************************************)
(* As long as recv_file leaves no file open, the server needs no more than *)
(* one descriptor for each place in the queue, one for main and two for    *)
(* each worker, whatever clients send (server.c:66-67, common.c:63-77).    *)
(* The pool has a number of threads, so that Workers is finite.            *)
(***************************************************************************)
THEOREM DescriptorsBounded ==
    ASSUME IsFiniteSet(Workers)
    PROVE  ServerSpec => []DescriptorsAreBounded
<1>1. BaseInv => DescriptorsAreBounded
  <2> SUFFICES ASSUME BaseInv, leaked = 0
               PROVE  Descriptors <= Capacity + 1 + 2 * Cardinality(Workers)
    BY DEF DescriptorsAreBounded
  <2> DEFINE open == {c \in Conns : socket[c] = "open"}
             busy == {w \in Workers : HoldsFile(w)}
             queue == Range(pending)
             taken == Range(running)
  <2>1. /\ IsFiniteSet(queue) /\ Cardinality(queue) \in Nat
        /\ Cardinality(queue) <= Capacity
    <3>1. /\ pending \in [1..Len(pending) -> Tasks]
          /\ Len(pending) \in Nat /\ Len(pending) <= Capacity
      BY LenProperties DEF BaseInv, PoolInv, QueueTypeOK
    <3>2. IsFiniteSet(1..Len(pending)) /\ Cardinality(1..Len(pending)) = Len(pending)
      BY <3>1, IntervalSize
    <3>3. /\ IsFiniteSet(queue) /\ Cardinality(queue) \in Nat
          /\ Cardinality(queue) <= Cardinality(1..Len(pending))
      BY <3>1, <3>2, RangeIsNotLarger
    <3> QED
      BY <3>1, <3>2, <3>3, QueueAssumption
  <2>2. /\ IsFiniteSet(taken) /\ Cardinality(taken) \in Nat
        /\ Cardinality(taken) <= Cardinality(Workers)
    BY RangeIsNotLarger DEF BaseInv, PoolInv, QueueTypeOK
  <2>3. /\ Cardinality(open) \in Nat
        /\ Cardinality(open) <= 1 + Cardinality(queue) + Cardinality(taken)
    <3>1. open \in SUBSET ({main} \cup queue \cup taken)
      BY OpenIsOwned DEF SocketsAreOwned
    <3> HIDE DEF open, queue, taken
    <3> QED
      BY <2>1, <2>2, <3>1, SmallUnion
  <2>4. Cardinality(busy) \in Nat /\ Cardinality(busy) <= Cardinality(Workers)
    <3>1. busy \in SUBSET Workers
      OBVIOUS
    <3> HIDE DEF busy
    <3> QED
      BY <3>1, FS_Subset, FS_CardinalityType
  <2>5. Cardinality(Workers) \in Nat
    BY FS_CardinalityType
  <2>6. Descriptors = Cardinality(open) + Cardinality(busy) + 0
    BY DEF Descriptors
  <2> HIDE DEF open, busy, queue, taken
  <2> QED
    BY <2>1, <2>2, <2>3, <2>4, <2>5, <2>6, QueueAssumption
<1> QED
  BY <1>1, BaseInvariant, PTL

=============================================================================
