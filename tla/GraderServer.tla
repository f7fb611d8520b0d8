---------------------------- MODULE GraderServer ----------------------------
(***************************************************************************)
(* The asynchronous grading server of version 4: the acceptor loop of      *)
(* v4/server/server.c, the request handlers of req_handler_threads.c and   *)
(* the grading task of worker_threads.c, all run by one thread pool.  The  *)
(* pool is taken at its interface, the bounded FIFO queue of TaskQueue,    *)
(* which ThreadPool is shown to implement.                                 *)
(*                                                                         *)
(* A task of the pool is either a connection (req_handler with its socket) *)
(* or a submission id (worker_task with its uuid).  The handlers share     *)
(* nothing in memory, but all work on the same two folders: the submitted  *)
(* sources and the status files.  Every access to a file another thread    *)
(* may be using is an action of its own.                                   *)
(*                                                                         *)
(* The contents of a status file are determined by its last line, which    *)
(* stands for them: "empty", "RECEIVED" (the one text with no newline), or *)
(* a verdict.  stdio writes to the file when it is closed: all the texts   *)
(* printed to it together are far shorter than its buffer.                 *)
(***************************************************************************)
EXTENDS TaskQueue, FiniteSets

CONSTANTS
    Conns,      \* the connections clients make
    Ids,        \* the uuids gen_uuid can return
    Requests,   \* Requests[c]: the kinds of request that c's client may make
    Endless,    \* the ids whose program never ends
    MaxRestarts,  \* bound of the model: how often the server is started again
    NoId        \* an id that is not in use

Kinds ==
    {"submit",      \* a submission, sent whole
     "cut",         \* a submission whose client closes within the file
     "reset",       \* a submission whose connection fails
     "check",       \* a status check
     "check36",     \* a status check that leaves out the id's final NUL
     "checkreset",  \* a status check whose connection fails
     "noid",        \* a status check with an empty id, closed by the client
     "invalid",     \* a number that is no action
     "vanish",      \* nothing, or no more than the action: the client closes
     "stall"}       \* nothing: the client waits

Checks == {"check", "check36", "checkreset"}
Broken == {"reset", "checkreset"}

Verdicts == {"COMPILE_ERROR", "RUNTIME_ERROR", "WRONG_ANSWER", "SUCCESS"}

ASSUME ServerAssumption ==
    /\ Tasks = Conns \cup Ids
    /\ Conns \cap Ids = {}
    /\ NoId \notin Ids /\ "none" \notin Ids
    /\ Requests \in [Conns -> SUBSET Kinds]
    /\ Endless \subseteq Ids
    /\ MaxRestarts \in Nat

VARIABLES
    main,       \* the socket main has accepted and not yet queued, or NoTask
    socket,     \* each connection: not made, open, or closed by the server
    wants,      \* what its client sends; for a check, also the verdicts that
                \* clients had been told of that id when the server accepted it
    reply,      \* what the server has written to it
    at,         \* the next thing each worker does
    req_id,     \* each worker's local uuid or req_id
    printed,    \* the last line in the stdio buffer of each worker's status_fd
    leaked,     \* the number of files recv_file has left open
    source,     \* the submitted file of each id: absent, part or whole
    status,     \* the status file of each id
    up,         \* the server process runs
    restarts,   \* how often it was started again
    lost        \* the ids that were queued or running when it ended

clients == <<socket, wants, reply>>
locals == <<at, req_id, printed>>
files == <<source, status, leaked>>
process == <<up, restarts, lost>>
serverVars == <<queueVars, main, clients, locals, files, process>>

NoRequest == [kind |-> "none", id |-> NoId, told |-> {}]

ServerInit ==
    /\ QueueInit
    /\ main = NoTask
    /\ socket = [c \in Conns |-> "none"]
    /\ wants = [c \in Conns |-> NoRequest]
    /\ reply = [c \in Conns |-> "none"]
    /\ at = [w \in Workers |-> "idle"]
    /\ req_id = [w \in Workers |-> NoId]
    /\ printed = [w \in Workers |-> "empty"]
    /\ leaked = 0
    /\ source = [i \in Ids |-> "absent"]
    /\ status = [i \in Ids |-> "absent"]
    /\ up = TRUE /\ restarts = 0 /\ lost = {}

-----------------------------------------------------------------------------
(* main                                                                    *)

Opened(i) == {c \in Conns : wants[c].kind \in Checks /\ wants[c].id = i}
Told(i) == {reply[c] : c \in Opened(i)} \cap Verdicts

\* The ids the server has sent to a client that began to send its file.
Issued == {reply[c] : c \in {d \in Conns : wants[d].kind \in {"submit", "cut"}}} \cap Ids

\* Lines 62-63: the client's request is settled before the server reads it.
Accept ==
    \E c \in Conns, kind \in Kinds, i \in Issued \cup {NoId} :
        /\ main = NoTask
        /\ socket[c] = "none"
        /\ kind \in Requests[c]
        /\ kind \notin Checks => i = NoId
        /\ main' = c
        /\ socket' = [socket EXCEPT ![c] = "open"]
        /\ wants' = [wants EXCEPT ![c] = [kind |-> kind, id |-> i, told |-> Told(i)]]
        /\ UNCHANGED <<queueVars, reply, locals, files, process>>

\* Line 69.
AddRequest ==
    /\ main # NoTask
    /\ Add(main)
    /\ main' = NoTask
    /\ UNCHANGED <<clients, locals, files, process>>

-----------------------------------------------------------------------------
(* The worker that runs a task: running[w] is its socket or its id.        *)

Step(w, from, to) ==
    /\ at[w] = from
    /\ at' = [at EXCEPT ![w] = to]

Request(w) == wants[running[w]]

\* write to the client, which fails on a connection that has failed.
Write(w, text) ==
    reply' = IF Request(w).kind \in Broken THEN reply
                                           ELSE [reply EXCEPT ![running[w]] = text]

\* Mutant: every task is queued with req_handler as its function.
BeginRequest(w) ==
    /\ Begin(w)
    /\ Step(w, "idle", "read_action")
    /\ UNCHANGED <<main, clients, req_id, printed, files, process>>

BeginTask(w) ==
    /\ Begin(w)
    /\ Step(w, "idle", IF Head(pending) \in Conns THEN "read_action" ELSE "open_status")
    /\ UNCHANGED <<main, clients, req_id, printed, files, process>>

\* Mutant: the default case returns without closing the socket.
InvalidActionReturns(w) ==
    /\ Step(w, "read_action", "idle")
    /\ Request(w).kind \in {"invalid", "vanish"}
    /\ Finish(w)
    /\ UNCHANGED <<main, clients, req_id, printed, files, process>>

\* req_handler, line 37: an action that is none of ACTIONS, or, when recv
\* returned 0, an uninitialised one.
InvalidAction(w) ==
    /\ Step(w, "read_action", "close")
    /\ Request(w).kind \in {"invalid", "vanish"}
    /\ UNCHANGED <<queueVars, main, clients, req_id, printed, files, process>>

\* close(sockfd), line 39, and the return from req_handler.
CloseSocket(w) ==
    /\ Step(w, "close", "idle")
    /\ socket' = [socket EXCEPT ![running[w]] = "closed"]
    /\ req_id' = [req_id EXCEPT ![w] = NoId]
    /\ Finish(w)
    /\ UNCHANGED <<main, wants, reply, printed, files, process>>

-----------------------------------------------------------------------------
(* new_submission                                                          *)

\* Mutant: gen_uuid can return an id once more.
NewSubmissionAgain(w) ==
    \E i \in Ids :
        /\ Step(w, "read_action", "recv_file")
        /\ Request(w).kind \in {"submit", "cut", "reset", "vanish"}
        /\ source' = [source EXCEPT ![i] = "part"]
        /\ req_id' = [req_id EXCEPT ![w] = i]
        /\ UNCHANGED <<queueVars, main, clients, printed, status, leaked, process>>

\* Line 44, where gen_uuid returns an id that no folder holds, and the fopen of
\* recv_file.
NewSubmission(w) ==
    \E i \in Ids :
        /\ Step(w, "read_action", "recv_file")
        /\ Request(w).kind \in {"submit", "cut", "reset", "vanish"}
        /\ source[i] = "absent"
        /\ source' = [source EXCEPT ![i] = "part"]
        /\ req_id' = [req_id EXCEPT ![w] = i]
        /\ UNCHANGED <<queueVars, main, clients, printed, status, leaked, process>>

\* Mutant: the worker task is queued before the status file is written.
RecvWholeAndAdd(w) ==
    /\ Step(w, "recv_file", "fopen_status")
    /\ Request(w).kind = "submit"
    /\ source' = [source EXCEPT ![req_id[w]] = "whole"]
    /\ Add(req_id[w])
    /\ UNCHANGED <<main, clients, req_id, printed, status, leaked, process>>

RecvWhole(w) ==
    /\ Step(w, "recv_file", "fopen_status")
    /\ Request(w).kind \in {"submit", "reset"}
    /\ source' = [source EXCEPT ![req_id[w]] = "whole"]
    /\ UNCHANGED <<queueVars, main, clients, req_id, printed, status, leaked, process>>

\* recv_file returns -1 (common.c:74-77) and new_submission gives up (line 54).
RecvFails(w) ==
    /\ Step(w, "recv_file", "close")
    /\ Request(w).kind \in {"cut", "reset", "vanish"}
    /\ UNCHANGED <<queueVars, main, clients, req_id, printed, files, process>>

\* The same with the file left open: the size was not received, or is an
\* uninitialised -1 (common.c:63-67).
RecvFailsOnSize(w) ==
    /\ Step(w, "recv_file", "close")
    /\ Request(w).kind \in {"reset", "vanish"}
    /\ leaked' = leaked + 1
    /\ UNCHANGED <<queueVars, main, clients, req_id, printed, source, status, process>>

\* recv_file returns 0 all the same: recv returned -1, which no unsigned
\* number is below (lines 69-78), or the size is an uninitialised 0.
RecvMisses(w) ==
    /\ Step(w, "recv_file", "fopen_status")
    /\ Request(w).kind \in {"reset", "vanish"}
    /\ UNCHANGED <<queueVars, main, clients, req_id, printed, files, process>>

\* Line 60.
OpenReceived(w) ==
    /\ Step(w, "fopen_status", "fclose_status")
    /\ status' = [status EXCEPT ![req_id[w]] = "empty"]
    /\ UNCHANGED <<queueVars, main, clients, req_id, printed, source, leaked, process>>

\* Mutant: the id is sent before the worker task is queued.
WriteReceivedThenReply(w) ==
    /\ Step(w, "fclose_status", "write_id")
    /\ status' = [status EXCEPT ![req_id[w]] = "RECEIVED"]
    /\ UNCHANGED <<queueVars, main, clients, req_id, printed, source, leaked, process>>

\* Lines 61-62.
WriteReceived(w) ==
    /\ Step(w, "fclose_status", "add_task")
    /\ status' = [status EXCEPT ![req_id[w]] = "RECEIVED"]
    /\ UNCHANGED <<queueVars, main, clients, req_id, printed, source, leaked, process>>

\* Line 67.
AddWorkerTask(w) ==
    /\ Step(w, "add_task", "write_id")
    /\ Add(req_id[w])
    /\ UNCHANGED <<main, clients, req_id, printed, files, process>>

\* Line 70.
ReplyId(w) ==
    /\ Step(w, "write_id", "close")
    /\ Write(w, req_id[w])
    /\ UNCHANGED <<queueVars, main, socket, wants, req_id, printed, files, process>>

-----------------------------------------------------------------------------
(* status_check                                                            *)

\* Lines 76-78: recv returned -1.
CheckFails(w) ==
    /\ Step(w, "read_action", "close")
    /\ Request(w).kind = "checkreset"
    /\ UNCHANGED <<queueVars, main, clients, req_id, printed, files, process>>

Answer(w, from, text) ==
    /\ Step(w, from, "close")
    /\ Write(w, text)
    /\ UNCHANGED <<queueVars, main, socket, wants, req_id, printed, files, process>>

\* Mutant: status_check does not take the NUL of any id.
CheckedIdsCut(w) ==
    CASE Request(w).kind \in Checks -> {Request(w).id, NoId}
      [] OTHER                      -> {}

\* The id in req_id (lines 75-81).  Without its NUL the path ends in an
\* uninitialised byte and names the file or none; with nothing received the
\* whole id is what the stack held.
CheckedIds(w) ==
    CASE Request(w).kind \in {"check", "checkreset"} -> {Request(w).id}
      [] Request(w).kind = "check36" -> {Request(w).id, NoId}
      [] Request(w).kind \in {"noid", "vanish"} -> Ids \cup {NoId}
      [] OTHER                       -> {}

HasStatus(i) == i \in Ids /\ status[i] # "absent"

\* Lines 85-92.
StatusOfNoFile(w) ==
    /\ at[w] = "read_action"
    /\ \E i \in CheckedIds(w) : ~ HasStatus(i)
    /\ Answer(w, "read_action", "WRONG ID")

\* Mutant: all threads receive the id in one buffer.
OpenStatusOfAny(w) ==
    /\ Step(w, "read_action", "read_status")
    /\ CheckedIds(w) # {}
    /\ \E i \in Issued : HasStatus(i) /\ req_id' = [req_id EXCEPT ![w] = i]
    /\ UNCHANGED <<queueVars, main, clients, printed, files, process>>

\* Line 83.
OpenStatus(w) ==
    /\ Step(w, "read_action", "read_status")
    /\ \E i \in CheckedIds(w) : HasStatus(i) /\ req_id' = [req_id EXCEPT ![w] = i]
    /\ UNCHANGED <<queueVars, main, clients, printed, files, process>>

\* The first read(2) of fgets (line 97) gets the whole file.  A file without a
\* line is answered as if there were none (lines 104-108).
ReadStatus(w) ==
    /\ at[w] = "read_status"
    /\ status[req_id[w]] # "RECEIVED"
    /\ Answer(w, "read_status",
              IF status[req_id[w]] = "empty" THEN "WRONG ID" ELSE status[req_id[w]])

\* RECEIVED has no newline, so fgets reads again.
ReadReceived(w) ==
    /\ Step(w, "read_status", "read_on")
    /\ status[req_id[w]] = "RECEIVED"
    /\ UNCHANGED <<queueVars, main, clients, req_id, printed, files, process>>

\* The second read starts behind those eight bytes.  In a file rewritten in
\* between, COMPILED ends there, and COMPILE_ERROR is cut in two.
ReadOn(w) ==
    /\ at[w] = "read_on"
    /\ Answer(w, "read_on",
              CASE status[req_id[w]] \in {"RECEIVED", "empty"} -> "RECEIVED"
                [] status[req_id[w]] = "COMPILE_ERROR" -> "RECEIVEDERROR"
                [] OTHER -> status[req_id[w]])

-----------------------------------------------------------------------------
(* worker_task: running[w] is the id                                       *)

\* Line 74.
OpenStatusForGrading(w) ==
    /\ Step(w, "open_status", "compile")
    /\ status' = [status EXCEPT ![running[w]] = "empty"]
    /\ printed' = [printed EXCEPT ![w] = "empty"]
    /\ UNCHANGED <<queueVars, main, clients, req_id, source, leaked, process>>

\* fprintf to status_fd: the line stays in the buffer.
Fprintf(w, line) ==
    /\ printed' = [printed EXCEPT ![w] = line]
    /\ UNCHANGED <<queueVars, main, clients, req_id, files, process>>

\* Mutant: a compile error returns without closing the status file.
CompileReturns(w) ==
    \/ Step(w, "compile", "run") /\ Fprintf(w, "COMPILED")
    \/ /\ Step(w, "compile", "idle")
       /\ Finish(w)
       /\ UNCHANGED <<main, clients, req_id, printed, files, process>>

\* Lines 76-82.
Compile(w) ==
    \/ Step(w, "compile", "run") /\ Fprintf(w, "COMPILED")
    \/ Step(w, "compile", "fclose") /\ Fprintf(w, "COMPILE_ERROR")

\* Lines 84-90: run_task waits for the program, however long it runs.
Run(w) ==
    /\ running[w] \notin Endless
    /\ \/ Step(w, "run", "diff") /\ Fprintf(w, "EXECUTED")
       \/ Step(w, "run", "fclose") /\ Fprintf(w, "RUNTIME_ERROR")

\* Lines 92-96.
Diff(w) ==
    \E verdict \in {"WRONG_ANSWER", "SUCCESS"} :
        Step(w, "diff", "fclose") /\ Fprintf(w, verdict)

\* Lines 79, 87 and 98: the buffer reaches the file, and the task returns.
CloseStatus(w) ==
    /\ Step(w, "fclose", "idle")
    /\ status' = [status EXCEPT ![running[w]] = printed[w]]
    /\ Finish(w)
    /\ UNCHANGED <<main, clients, req_id, printed, source, leaked, process>>

WorkerTask(w) ==
    OpenStatusForGrading(w) \/ Compile(w) \/ Run(w) \/ Diff(w) \/ CloseStatus(w)

-----------------------------------------------------------------------------
(* The end of the process, and a new start.  Nothing of the old one's work *)
(* is taken up again: the queue was in memory, and so were the lines in    *)
(* the stdio buffers.  The folders stay.                                   *)

Ends ==
    /\ up' = FALSE
    /\ lost' = lost \cup (Ids \cap (Range(pending) \cup Range(running)))
    /\ pending' = <<>> /\ running' = [w \in Workers |-> NoTask]
    /\ main' = NoTask
    /\ socket' = [c \in Conns |-> IF socket[c] = "open" THEN "closed" ELSE socket[c]]
    /\ at' = [w \in Workers |-> "idle"] /\ req_id' = [w \in Workers |-> NoId]
    /\ printed' = [w \in Workers |-> "empty"]
    /\ leaked' = 0
    /\ UNCHANGED <<finished, wants, reply, source, status, restarts>>

\* A write to a connection that failed can raise SIGPIPE, which nobody handles
\* (lines 70, 90, 106 and 109); the fwrite of (size_t)-1 bytes reads past the end
\* of the stack (common.c:80); and the copies of an id without its NUL can write
\* past the path (lines 79-81).
MayCrash(w) ==
    \/ at[w] \in {"recv_file", "write_id"} /\ Request(w).kind = "reset"
    \/ at[w] \in {"read_action", "read_status", "read_on"} /\ Request(w).kind = "checkreset"
    \/ at[w] = "read_action" /\ Request(w).kind \in {"check36", "noid", "vanish"}

Crash(w) == MayCrash(w) /\ Ends

\* kill -9, in run_all_cases.sh.
KillServer == restarts < MaxRestarts /\ Ends

\* A new server in the same folders, started by hand: runtime_manager.sh makes
\* those that are missing and empties them only when it is told to clear.
Restart ==
    /\ ~ up /\ restarts < MaxRestarts
    /\ up' = TRUE /\ restarts' = restarts + 1
    /\ UNCHANGED <<queueVars, main, clients, locals, files, lost>>

-----------------------------------------------------------------------------

WorkerStep(w) ==
    \/ BeginTask(w) \/ InvalidAction(w) \/ CloseSocket(w)
    \/ NewSubmission(w) \/ RecvWhole(w) \/ RecvFails(w) \/ RecvFailsOnSize(w)
    \/ RecvMisses(w) \/ OpenReceived(w) \/ WriteReceived(w) \/ AddWorkerTask(w)
    \/ ReplyId(w)
    \/ CheckFails(w) \/ StatusOfNoFile(w) \/ OpenStatus(w) \/ ReadStatus(w) \/ ReadReceived(w)
    \/ ReadOn(w)
    \/ WorkerTask(w)

ServerNext ==
    \/ /\ up
       /\ \/ Accept \/ AddRequest \/ KillServer
          \/ \E w \in Workers : WorkerStep(w) \/ Crash(w)
    \/ Restart

ServerSpec == ServerInit /\ [][ServerNext]_serverVars

(***************************************************************************)
(* Threads that can run do.  Clients need not come, and the programs of    *)
(* ids in Endless and clients that stall hold their worker for ever.  The  *)
(* queue's own progress is that of the pool as long as it is not full.     *)
(***************************************************************************)
ServerFairness ==
    /\ WF_serverVars(up /\ AddRequest)
    /\ \A w \in Workers : WF_serverVars(up /\ WorkerStep(w))

FairServerSpec == ServerSpec /\ ServerFairness

-----------------------------------------------------------------------------
(* Properties                                                              *)

Texts == Verdicts \cup {"empty", "RECEIVED"}

Replies == Ids \cup Verdicts \cup {"none", "RECEIVED", "WRONG ID", "RECEIVEDERROR"}

ServerTypeOK ==
    /\ QueueTypeOK
    /\ main \in Conns \cup {NoTask}
    /\ socket \in [Conns -> {"none", "open", "closed"}]
    /\ wants \in [Conns -> [kind : Kinds \cup {"none"}, id : Ids \cup {NoId},
                           told : SUBSET Verdicts]]
    /\ reply \in [Conns -> Replies]
    /\ \A w \in Workers :
          at[w] \in IF running[w] \in Ids
                    THEN {"open_status", "compile", "run", "diff", "fclose"}
                    ELSE IF running[w] \in Conns
                    THEN {"read_action", "recv_file", "fopen_status", "fclose_status",
                          "add_task", "write_id", "read_status", "read_on", "close"}
                    ELSE {"idle"}
    /\ req_id \in [Workers -> Ids \cup {NoId}]
    /\ printed \in [Workers -> Texts \cup {"COMPILED", "EXECUTED"}]
    /\ source \in [Ids -> {"absent", "part", "whole"}]
    /\ status \in [Ids -> Texts \cup {"absent"}]
    /\ leaked \in Nat
    /\ up \in BOOLEAN
    /\ restarts \in 0..MaxRestarts
    /\ lost \subseteq Ids

(***************************************************************************)
(* An id is sent to the client only when its submission is safe: received  *)
(* whole, with a status file, and queued, running or graded; and a graded  *)
(* one has its verdict in the file.  Only if the process ends before the   *)
(* verdict is written is it lost, and then no verdict is ever in its file  *)
(* (req_handler_threads.c:51-70, worker_threads.c:74-98).                  *)
(***************************************************************************)
IssuedIsKept ==
    \A i \in Issued :
        /\ source[i] = "whole"
        /\ status[i] # "absent"
        /\ i \in finished => status[i] \in Verdicts
        /\ ~ Known(i) => i \in lost /\ status[i] \notin Verdicts

(***************************************************************************)
(* What main and the handlers are about to give to the pool has not been   *)
(* given to it before, by another handler or before a restart: a second    *)
(* task would close a socket that is another client's by then, or grade    *)
(* one id with two workers (server.c:62-69, req_handler_threads.c:44-67).  *)
(***************************************************************************)
NothingIsAddedTwice ==
    /\ main # NoTask => ~ Known(main)
    /\ \A w \in Workers : at[w] = "add_task" =>
          /\ ~ Known(req_id[w]) /\ req_id[w] \notin lost
          /\ \A v \in Workers \ {w} : at[v] = "add_task" => req_id[v] # req_id[w]

(***************************************************************************)
(* The handler that writes RECEIVED and the worker that grades open the    *)
(* same file for writing.  Their order, through the queue, keeps a verdict *)
(* from being overwritten (req_handler_threads.c:60-67, worker_threads.c:74). *)
(***************************************************************************)
VerdictsAreFinal ==
    [][\A i \in Ids : status[i] \in Verdicts => status'[i] = status[i]]_serverVars

(***************************************************************************)
(* Once a client has been told a verdict, every later status check of that *)
(* id by any client, which sends it whole, is answered with that verdict   *)
(* (req_handler_threads.c:73-111).                                         *)
(***************************************************************************)
VerdictOnceTold ==
    \A c \in Conns :
        /\ Cardinality(wants[c].told) <= 1
        /\ wants[c].kind = "check" /\ reply[c] # "none" /\ wants[c].told # {}
             => reply[c] \in wants[c].told

(***************************************************************************)
(* Whatever path a request takes, its socket stays open as long as main,   *)
(* the queue or a worker has it, and no longer: none leaks, and none is    *)
(* closed under a handler's feet (server.c:62-69, req_handler_threads.c:39). *)
(***************************************************************************)
SocketsAreOwned ==
    \A c \in Conns :
        socket[c] = "open" <=> c = main \/ c \in Range(pending) \cup Range(running)

\* The descriptors the server holds: sockets, files in use, files lost.
HoldsFile(w) ==
    at[w] \in {"recv_file", "fclose_status", "read_status", "read_on",
              "compile", "run", "diff", "fclose"}

Descriptors ==
    Cardinality({c \in Conns : socket[c] = "open"})
        + Cardinality({w \in Workers : HoldsFile(w)}) + leaked

(***************************************************************************)
(* As long as recv_file leaks nothing the server needs a bounded number of *)
(* descriptors, whatever it is sent: the queue's, main's, and two for each *)
(* worker.  With more, accept fails and main exits (server.c:66-67).       *)
(***************************************************************************)
DescriptorsAreBounded ==
    leaked = 0 => Descriptors <= Capacity + 1 + 2 * Cardinality(Workers)

(***************************************************************************)
(* The one pool both accepts requests and runs the submitted programs.     *)
(* While endless programs and stalled clients leave it a worker, and the   *)
(* queue does not fill, every other connection main accepts is closed, and *)
(* every other id a client is given gets its verdict (thread_pool.c:9-29,  *)
(* worker_threads.c:84).                                                   *)
(***************************************************************************)
EveryRequestEnds ==
    \A c \in Conns :
        socket[c] = "open" ~> socket[c] = "closed" \/ wants[c].kind = "stall"

\* The second half: grading ends with a verdict in the status file, through
\* every path of worker_task (worker_threads.c:69-101).
EveryIssuedIdIsGraded ==
    \A i \in Ids \ Endless : i \in Issued ~> status[i] \in Verdicts

\* req_handler_threads.c:89, "WRONG ID": an id that the server has issued, sent
\* back whole, is not answered as wrong.
IssuedIdIsNotWrong ==
    \A c \in Conns :
        wants[c].kind = "check" /\ wants[c].id # NoId => reply[c] # "WRONG ID"

\* req_handler_threads.c:94, "get last line of status_file": an answer is a line
\* that was in the file.
AnswersAreLines ==
    \A c \in Conns : wants[c].kind = "check" => reply[c] # "RECEIVEDERROR"

=============================================================================
