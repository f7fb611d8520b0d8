# A verification of the DECS autograder server

TLA+ models of the autograder in this repository, checked with TLC and, in part,
proved with TLAPS. The repository holds four generations of a server that
compiles, runs and judges C programs sent by clients. All four are modelled,
with their clients; version 4, the asynchronous one, in the most detail.

## 1. The system

| Part | Source | State it keeps | Operations | What makes it correct |
|---|---|---|---|---|
| Thread pool | `v4/thread_pool` | ring buffer, front, rear, shutdown, mutex, condition variable | Init, worker loop, AddTask, Wait, Cleanup | bounded FIFO, each task run once, no lost wakeup |
| Acceptor | `v4/server/server.c` | the accepted socket | accept, AddTask | every socket gets a task; descriptors do not run out |
| Request handlers | `v4/server/req_handler_threads.c` | the socket; files on disk | new_submission, status_check | an issued id is kept and graded; answers agree with the files; sockets are closed |
| Grading task | `v4/server/worker_threads.c` | the status file | compile, run, diff, verdict | a verdict is written once and stays |
| Transfer | `v4/common/common.c` | file, counters | send_file, recv_file, sock_read_int, sock_write_int | what is stored is what was sent; the receiver stops where the file ends |
| Ids | `v4/common/gen_uuid*.c` | none, or the generator's seed | gen_uuid | ids are distinct |
| Client | `v4/client/client.c` | request id, counters | submit, poll, timeout | asks for its own ids, ends, counts what happened |
| Logger | `v4/logger` | file, mutex | log_message | nothing depends on it |
| v3 server | `v3/server.c`, `v3/myqueue.c` | linked queue, size, mutex, condition | enqueue, dequeue, handle_client | FIFO, what it leaks, only whole files graded |
| v2, v1 servers | `v2/server.c`, `v1/server.c` | files, sockets | a thread per connection; one loop | an answer belongs to its request; one client does not end the server |
| v1, v2, v3 clients | `v1/client.c`, `v2/client.c`, `v3/client.c` | socket, counters | connect, send, read, count | a round is counted once, a success was answered |
| Load testing | `loadtesting/` | process ids | scripts | their kills are actions of the models; the rest builds and measures |

How the parts of version 4 interact. `main` accepts a connection and hands its
socket to the pool as a task (`req_handler`). A worker reads the action. A
submission is received into a file, its status file is set to `RECEIVED`, a second
task (`worker_task`) is handed **to the same pool by the worker itself**, and
the id is sent back. A status check opens the status file and answers with its
last line. The grading task truncates the status file, compiles, runs and
compares, and closes the file with its verdict. Apart from the pool the handlers
share no memory, only the files, with no lock.

What is hard here: one condition variable with two meanings; a pool that adds tasks
to itself; threads that read and write the same files with stdio buffers in
between; programs that may not end in the threads that also serve requests;
clients that stop half way; descriptors as a finite resource; a queue in memory beside
files that stay when the process is killed. In the older versions: one read for a
file of any length, files shared by all requests or named by a thread, results of
`recv_file` nobody looks at, sockets nobody closes, and errors of one connection
that end the process.
`PROJECT.json` lists each of these at its line.

## 2. The modules

| Module | Models |
|---|---|
| `TaskQueue` | the pool's promise: a bounded FIFO of tasks, each begun once and finished once |
| `ThreadPool` | `thread_pool.c`: threads, mutex, condition variable, ring buffer, shutdown |
| `GraderServer` | acceptor, request handlers and grading task on top of `TaskQueue` |
| `GraderClient` | the clients of version 4, composed with `GraderServer`, which may be killed and started again |
| `Transfer` | one `send_file` and the `recv_file` that answers it, byte by byte, with the integers' widths |
| `OneShotClients` | the clients of versions 1, 2 and 3, their connections, and what a server's calls on a connection do |
| `Judging` | threads, files and commands: what the servers of versions 1, 2 and 3 have in common |
| `SequentialServer` | `v1/server.c` |
| `ThreadServer` | `v2/server.c` |
| `LinkedQueue` | `v3/myqueue.c`, whose statements are also those of `v4/common/myqueue.c` |
| `PoolServer` | `v3/server.c` on `LinkedQueue`, with its `recv_file` |
| `OldGraders` | the three servers with their clients; a behaviour runs one version |
| `MC...` | the instances TLC checks |
| `TaskQueueProofs` | the inductive invariant of `TaskQueue`, and what each of its actions does to the tasks in it |
| `ThreadPoolProofs` | the inductive invariant of `ThreadPool`, the theorems, and the proof that it implements `TaskQueue` |
| `GraderServerProofs` | types, the queue, sockets and descriptors of `GraderServer` |
| `GraderVerdictProofs` | ids, status files and verdicts of `GraderServer` |
| `GraderClientProofs` | the clients of version 4: whose ids they ask for, what they count |
| `TransferProofs` | the inductive invariant of `Transfer` and its theorems |
| `OldGradersProofs` | versions 1, 2 and 3 with their clients: whose verdicts and texts are answered, and on how much of the file |
| `OldCountsProofs` | what these versions count: rounds, successes, open sockets, descriptors, threads, and version 3's list, which implements `TaskQueue` |

**ThreadPool.** The state is the struct of `thread_pool.h` plus, for each thread, a
control point (`pc`), the arguments of its `ThreadPoolAddTask` call (`adding`) and
its local `task` (`hand`); `submitted` and `done` are history. A critical section is
one action, since the queue is touched under the mutex only. The exception is
a worker's test and its `pthread_cond_wait`: `ThreadPoolCleanup` writes
`shutdown` without the mutex, so they are two. A signal wakes any sleeper, and
sleepers may wake for no reason. A task may add one further task (`Spawns`) while it
runs, and may never return (`Endless`).

**GraderServer** extends `TaskQueue` and uses its actions `Add`, `Begin` and
`Finish` where the code calls the pool. A task is a connection or an id. Each worker
has a control point (`at`), its local id and the line in its stdio buffer.
The contents of a status file are represented by the last line, which determines them.
The file changes when it is truncated by `fopen` and when it is written by
`fclose`, never in between, because what is printed fits the stdio buffer. A
status check reads once if the file has a complete line, and twice if it
holds `RECEIVED`, which has no newline. The outcomes of compiling, running and
comparing are free choices. How a client behaves is one of ten kinds of request;
where the code then uses an uninitialised value (`sock_read_int` and `status_check` after
`recv` returned 0, the last byte of an id sent without its NUL), copies such an id behind the end of its path,
or calls `fwrite` with a length of `(size_t)-1`, the model has each outcome, a crash of the server
among them. A connection may fail under a submission (`reset`) or under a check (`checkreset`): a check whose
`recv` fails returns at once (`CheckFails`), and an answer to a connection that failed may raise SIGPIPE (lines 70, 90,
106 and 109 of `req_handler_threads.c`; `Write` is the answer that does not). What may end the process at a worker's step
is `MayCrash`; `kill -9` (`run_all_cases.sh`) ends it at any. What ends with it is one action, `Ends`: the queue, the
workers' locals, the stdio buffers and all sockets; `lost` keeps the ids that were queued
or running. `Restart` starts a server on the same folders, at most `MaxRestarts` times. This is an assumption on the
environment: no script restarts a server (`run_all_cases.sh` starts each in a folder of its own), but one started by hand finds the folders
as they were, which `runtime_manager.sh create` keeps.

**GraderClient.** `client` is the loop of `client.c`'s `main`: its step, its round, `req_id`,
`status_check_counter` and `successfulRes`; `request` is what was sent on each
connection. A connection is a client, a round and a number, 0 for the submission. The server takes
from a connection what was sent on it (`AsSent`), in any order of connections; a handler that was
sent no id, or only part of a file on a connection that stays open, does not go on before the client closes
(`WaitsForClient`). The sending of the file is a step of its own (`SendFile`), since only `SO_RCVTIMEO` is set: a file that does not fit into
the socket (`Fits`) needs a handler that receives it. A second send to a connection that was reset ends the client (`BrokenPipe`). `Decode` is the row of
`strcmp` of `check_func`, which returns at the first name that *differs*. A read ends in an
answer, the end of the stream, an error or a timeout, in any combination the connection allows;
after an error `req_id` keeps what it held, which is uninitialised in the first round.

**Transfer.** The sender's state is the file's size and how much was sent; the receiver's the
locals of `recv_file` and the file. `ToInt` and `ToSize` are the conversions of C for an int of
`2 * (MaxInt + 1)` values and a size_t of `SizeModulus`. `sending = "reply"` is the client waiting for the
answer. The connection may be closed or fail at any time, then with any part of what is
on its way lost. An int arrives whole, and a `send` takes all it is given (it blocks). `sock_write_int` has no `return` behind
a successful send (`common.c:18-23`), so what `send_file` compares with -1 is undefined: it goes on, or gives up behind the size with
the connection open (`SendSize`, `GaveUp`). The clients of versions 3 (`GivesUp`) and 4 ("cut") have both outcomes too.

**OneShotClients** and **Judging.** What is sent comes in units, a client's writes of at most 1024
bytes, and in version 3 the size first; a unit arrives whole, so version 1 and 2 take exactly the
first. A failed connection reports its error once at each end (`client_error`, `server_error`:
"pending"), and after that a read returns 0 and a write raises SIGPIPE ("seen"). A program is told
by what gcc, the shell and diff say of it (`Natures`); what is left when a file was cut is any program of
`CutPrograms`. `file` holds source, binary and output of each thread's name, each with whose it is; gcc
leaves the old binary when it fails, and threads keep their files from one
request to the next. Version 1 has one set of files and `errors`, the texts in `error_output.txt`, which
the next request's stderr overwrites from the beginning. Its answer is made by emptying and rewriting a file through the
number of a descriptor that was closed before; the model has the effect. That version 1 takes an exit status
of 0 for a runtime error (`v1/server.c:85`, against its comment) is modelled as it is. Answers longer than
1024 bytes, which version 1 cuts, are not distinguished.

**ThreadServer**, **PoolServer.** One action for each read, command and answer; a thread keeps its step, its socket and
nothing else that matters. Version 3's critical sections are one action each; a signal wakes one sleeper. Its
`recv_file` has the outcomes of `Transfer`. `/bin/sh` is bash, or dash, for which `&>` means
two commands.

Refinement: `ThreadPool!ImplementsTaskQueue` maps `pending` to the slots from front
to rear, `running` to `hand` and `finished` to `done`, with a capacity of
`QueueSize - 1`. `OldGraders!PoolIsTaskQueue` maps `pending` to the nodes from `head` on, `running`
to the threads' sockets, and `finished` to the connections no thread has any more.

## 3. What TLC checks

| Run | Instance | Shows |
|---|---|---|
| `PoolServes` | 2 workers, main, 5 tasks of which 2 are added by tasks and one never returns, queue of 2, Wait and Cleanup at any time | `TypeOK`, `NoTaskStranded`, `ImplementsTaskQueue`, `EveryTaskRuns` |
| `PoolSpaceLost` | 1 worker, 2 tasks, queue of 1 | `AddTaskReturns` is **violated** |
| `ServerGrades` | 2 workers, 2 submissions, one of which may break off, 2 checks, 1 kill and restart | `ServerTypeOK`, `IssuedIsKept`, `VerdictOnceTold`, `NothingIsAddedTwice`, `VerdictsAreFinal` |
| `ServerClients` | 2 workers, queue of 1, 5 connections that end in every way | `SocketsAreOwned`, `DescriptorsAreBounded` |
| `ServerLive` | 3 workers, 1 endless program, 1 stalled client | `EveryRequestEnds`, `EveryIssuedIdIsGraded` |
| `ServerWrongId` | 1 submission, 1 check | `IssuedIdIsNotWrong` is **violated** |
| `ServerTornAnswer` | 1 submission, 1 check | `AnswersAreLines` is **violated** |
| `ClientsAsk` | 1 client of two rounds, 1 worker, an endless program, a file that does not fit the socket, 1 kill and restart | `OwnVerdicts`, `OneCheckARound`, `EveryClientEnds` |
| `TransferFiles` | files of 0 to 8 bytes, buffers of 2, ints of -4 to 3, a size_t of 0 to 15 | `TransferTypeOK`, `StoredGoesOn`, `AcceptedIsWhole`, `FramedFileIsReceived` |
| `OldServersGrade` | each version, 2 clients with 3 connections and files of 1 and 2 units, 2 threads, 3 descriptors | `OldTypeOK`, `VerdictsAreOwn`, `TextsAreOwn`, `WholeFilesJudged`, `ServerSurvives`, `SocketsAreAccounted`, `SuccessesWereAnswered`, `PoolIsTaskQueue` |
| `OldServersAnswer` | each version, 2 clients, one program endless, both shells | `ConnectedAreAnswered` |
| `OldFailuresCounted` | versions 2 and 3, 1 client whose program does not compile | `SuccessesPassed` is **violated** |

Bounds. Two workers and one outside thread give every pairing of thread roles on
the condition variable, and a ring of three slots wraps and fills with five tasks.
The queue fills and empties again: `EveryTaskRuns` is about every behaviour in which no call of `ThreadPoolAddTask` waits
for ever, not only those in which none waits.
Two submissions with two checks let a check overlap any phase of either grading and follow
another check of the same id, also with one submission that broke off. `ServerClients` has a connection more than main, the
queue and the workers can hold, so the acceptor blocks. There, and in `PoolSpaceLost`,
workers can block on the full queue for ever; these are safety or violation runs. Ids are taken as
many as submissions. Deadlock is not checked where the system comes to rest: the
server when no client comes any more, the pool after a teardown. Elsewhere in the pool runs a spurious
wakeup is always possible, so deadlocks show as failed liveness.

A client of two rounds has four connections, of which the server can have all at once, because the
client goes on when it times out; in the second round it can have the id of the first.
`MaxChecks` is 1 there: `OneCheckARound` is the invariant that says a client never
asks for more. Its file does not fit, so it can be stuck in `send`, which is the one case `EveryClientEnds` exempts. In `TransferFiles` sizes are announced as themselves, as negative ones, as -1 and as 0,
and every file needs an empty, a full or a cut last buffer. In `OldServersGrade` the three connections
use up the descriptors and, in version 2, the threads, so `accept` and `pthread_create` fail; one client's
connections may break and the client may be killed at any step, while the other's are healthy.

Symmetry (workers, ids, threads) is used in safety runs only.

Fairness. Every thread that can run does (weak fairness of each thread's steps), and
a thread that waits for the mutex gets it if it is free again and again
(strong fairness of the acquiring steps; pthreads queues waiters). Nothing makes a client connect, a
stalled client send, a program in `Endless` end, or a spurious wakeup happen. In
`GraderServer` the pool's own progress is assumed, which `EveryTaskRuns` justifies
where no call waits for ever for space, and `ServerLive` has room for every task. `EveryClientEnds` needs the fairness of the clients' steps only: every
read has a timeout, and nothing is assumed of the server. A send has none: a client whose file does not fit may wait in it for as
long as the server lives. `ConnectedAreAnswered` assumes that
clients and threads go on, not that anybody is killed, that a connection fails or that a
thread wakes for no reason.

### What the runs say of the older versions and of the clients

The properties state what holds, which is not always what one would wish.

* Version 1 answers from a file that carries the errors of earlier requests behind the client's own; only the
  beginning is its own (`TextsAreOwn`). One failed read ends it.
  What follows RUNTIME ERROR may be nothing but other clients' errors, and of these answers the property says nothing.
* Versions 2 and 3 end by SIGPIPE when a connection that a thread has failed, and when the open sockets and the files
  `recv_file` lost are as many as the descriptors; version 2 also when every thread has a connection and one more
  comes. `MayEnd` lists these reasons as they are at that moment, and `ServerSurvives` says that there is no other; which sockets can be
  open is `SocketsAreAccounted`.
* Versions 1 and 2 judge what their one read has got; version 3 judges part of a file only for a client
  that is gone (`WholeFilesJudged`).
* The older clients count a success when the server closes without an answer after an error they did not look at
  (`SuccessesWereAnswered`, which is about any answer; that a success was a pass, as a comment has it, is false, see below). The version 4 client checks once in a round whatever it is told, since its
  comparisons are inverted, and counts every round (`OneCheckARound`).
* Even so, no client is given another's verdict, in any version (`VerdictsAreOwn`, `OwnVerdicts`).

### Where the code and its comments differ

* `thread_pool.c:67`, "Wait for space in the task queue": the wait need not end. A worker that takes
  a task signals nobody, so an adder asleep on the full queue may sleep on next
  to an empty one (`AddTaskReturns`, for calls from outside the pool). The calls that tasks make need not return either:
  `new_submission` runs on the pool and adds to it, so with a full queue all workers can be waiting for space. The model has these
  behaviours, and `EveryTaskRuns` excepts them.
* `req_handler_threads.c:74`, "read appropriate status file a return": while the
  worker grades, the file is empty, and a valid id is answered `WRONG ID`. The lines
  `COMPILED` and `EXECUTED` are never seen as the last ones.
* `req_handler_threads.c:94`, "get last line of status_file": a check that begins
  before the grading and ends after it can answer `RECEIVEDERROR`, the
  first eight bytes of one version of the file and the rest of another.
* `v3/client.c:117` and `v2/client.c:119`, "If the response contains "PASS", consider it a successful": the code
  counts whatever it reads, `COMPILE_ERROR` included, and 0 bytes from a server that ended without an answer. No answer of version 3
  contains the word: a right program is `ACCEPTED` (`SuccessesPassed`).

The properties of the runs exempt these disagreements, which the models also have:

* `v4/common/common.c:74-77`, "Error receiving file data": recv's -1 is stored in a `size_t`, so the branch is never
  taken and `recv_file` may return 0 for a file that did not arrive (`Spoiled`, in `AcceptedIsWhole`).
* `req_handler_threads.c:43`, "save payload file to appropriate location": a file whose size is a multiple of 2^32 announces 0 and
  is accepted with nothing saved (`size <= MaxInt`, in `AcceptedIsWhole`).
* `v1/server.c:85`, "If there are no runtime errors", and line 120: the test of the status is inverted, and a program that ends with status 0 is
  answered `RUNTIME ERROR` (left out of `TextsAreOwn`).

`ThreadPoolWait` ("Wait for all tasks to complete", line 79) joins threads that do
not end when the tasks do, and `ThreadPoolCleanup` can be missed by a worker
between its test and its wait. The model has both behaviours; no run
reports them, because `main` never reaches the two calls.

## 4. What is proved

About the thread pool, from `PoolAssumption` alone: any finite or infinite sets of
workers, submitters and tasks, any queue size.

* `TypeCorrect` (in `ThreadPoolProofs`, as the next two): `Spec => []TypeOK`.
* `NoTaskIsStranded`: `Spec => []NoTaskStranded`.
* `PoolIsAQueue`: `Spec => ImplementsTaskQueue`.

`NoTaskStranded` is not inductive by itself. A worker falls asleep in good order only if
the queue is empty at that moment, not just when it was tested. `WaitInv` says so, and
needs `LockInv`: the mutex belongs to exactly the thread between the lock and the
unlock, so nobody adds in between. A signal reaches a sleeper that is either a worker or an
adder inside its wait (`SleepInv`), and either one keeps the
property. For the types, `done` stays within `submitted` only if what is in the live
part of the ring has been submitted (`TaskInv`, where `Live` is the part from front to rear). The conjunction
`IInv` is inductive: `InitInv`, and one lemma per conjunct with one step per action.

The refinement needs more: that `Add` is given a new task means that a task is in one
place only. `PlaceInv` says that tasks being added, queued, run and done are all different
(`AddingInv`, `QueuedInv`, `RunningInv`), which in turn needs that a worker's hand
is full exactly between taking a task and its return (`HandInv`) and that a
task added by another is submitted by that one only (`SpawnInv`; here `PoolAssumption`, that no task is
added by two others, is used). Only five actions move a task; the rest are `Quiet`.
`PutAppends` and `TakeIsTail` then turn the arithmetic of the ring buffer into `Append`
and `Tail` of the sequence of queued tasks.

About the queue that the server stands on, from `QueueAssumption` (in `TaskQueueProofs`):

* `TasksRunOnce`: `QueueSpec => []ExactlyOnce`.

`PoolInv` adds to `ExactlyOnce` the types. The effect of `Add`, `Begin` and `Finish` on the set
of tasks in the pool and on the finished ones is stated once each (`AddEffect`, `BeginEffect`, `FinishEffect`), and
the server's proofs use nothing else of the queue.

About the server of version 4, from `ServerAssumption`: any sets of workers, connections and ids, any
requests, any number of restarts. `NoId` and "none" are no ids, since libuuid writes 36 characters. In `GraderServerProofs`:

* `ServerTypes`: `ServerSpec => []ServerTypeOK`.
* `SocketsOwned`: `ServerSpec => []SocketsAreOwned`.
* `DescriptorsBounded`: `ServerSpec => []DescriptorsAreBounded`, where `Workers` is finite.

These follow from `BaseInv`. `PlaceInv` says which tasks a worker can have at which step: a
connection in the steps of a handler, an id in those of the grading. `LocalInv` says that a handler's local id is one from where it is set, with a status file where it reads one,
and `SocketInv` that a socket is open exactly while the acceptor, the queue or a worker has it, and one of these only.
The bound on descriptors counts: the open sockets are covered by the acceptor's, the queue's positions and the
workers, and a cover is not smaller than what it covers (`RangeIsNotLarger`, `SmallUnion`).

In `GraderVerdictProofs`:

* `IdsAreKept`: `ServerSpec => []IssuedIsKept`.
* `VerdictsStay`: `ServerSpec => VerdictsAreFinal`.
* `VerdictsAgree`: `ServerSpec => []VerdictOnceTold`.
* `NoSubmissionTwice`: `ServerSpec => []NothingIsAddedTwice`.

The question behind all four is why the handler that writes `RECEIVED` cannot hit a file with a verdict.
`SubmitInv` says that the id a handler submits under is not taken before it adds the task, and taken after;
this survives the steps of others only if no two handlers have one id (`OwnerInv`), and at the start
only if `gen_uuid` returns none that is taken (`FreshInv`, since it returns one with no source file, and the file is there from the step that
drew it, also for a process that starts later). With `main`'s socket, which a connection leaves once, this is `NothingIsAddedTwice`.
Then a file with a verdict is exactly that of a finished task (`VerdictInv`), and an id leaves the queue and
the workers only by being finished, or into `lost` (`IssuedInv`). For what is told, `CheckInv` follows a status
check between its two reads: one that goes on reading was begun when nothing had been told, or it would have seen
the verdict at the first. So what is told of an id is what is in its file (`ToldInv`).

About the clients of version 4 with that server, from `GraderClientAssumption` besides: any set of
clients, any number of rounds (in `GraderClientProofs`).

* `ClientsUseTheServer`: `GraderSpec => ServerSpec`, so that every theorem above holds with these clients.
* `OwnVerdictsOnly`: `GraderSpec => []OwnVerdicts`.
* `ChecksOnceARound`: `GraderSpec => []OneCheckARound`.

`OneCheckARound` rests on `DecodeIsZero`: the comparisons are inverted, so `check_func` makes 0 of every text.
`CountInv` says so of the counters. An answer is only worth something if it belongs to the connection it came on.
`AnswerInv` says that a connection which was answered is about to be closed, so no second answer overwrites an id the
client may have read, and that a submission is answered with an id. `SentInv` says that what the server has taken from a
connection is what was sent on it; it needs to know that a client sends once on a connection, hence
which ones it has still to make (`Ahead`). With these, `OwnIdInv`, that a client's `req_id` and its checks hold
ids of its own submissions, nothing, or what was never set, is kept by every step; and by `ToldInv` the
verdict it is told is that in the file.

About a transfer, from `TransferAssumption`: any file, buffer and ints, and a size_t
with more values than the longest file has bytes and than there are non-negative ints
(in `TransferProofs`).

* `TransferTypes`: `TransferSpec => []TransferTypeOK`.
* `NothingIsOutOfPlace`: `TransferSpec => []StoredGoesOn`.
* `AcceptedFilesAreWhole`: `TransferSpec => []AcceptedIsWhole`.

`FlowInv` says byte by byte where what is stored ends and what is on its way begins, and that the two
do not exceed what was sent. `CountInv` links the total to the length of what is stored, which holds only while
no remainder by `SizeModulus` is taken in earnest, and `file_size` to the size of the file, which
needs `ToIntOfInt`: a size that has an int comes through both conversions unchanged. A result of 0 leaves the loop with
nothing more to receive, so the file is at least, and by `FlowInv` at most, as long as it should be. There is one lemma
per action; the three ways to come to a size share `TakeSizeInv`,
the two returns behind the loop `ReturnsInv`.

About versions 1, 2 and 3 with their clients, from `ClientAssumption`, `JudgingAssumption`, `LinkedQueueAssumption`
and `OldGradersAssumption`: any sets of clients, rounds, threads and file lengths, any programs, connections
that fail and clients that are killed at any step (in `OldGradersProofs`).

* `OwnVerdicts23`: `OldSpec => []VerdictsAreOwn`.
* `OwnTexts1`: `OldSpec => []TextsAreOwn`.
* `WholeFiles3`: `OldSpec => []WholeFilesJudged`.

All three are parts of what `AnswerOk` says of a connection that was answered, and `OldInv` is inductive. `HoldInv` says
that a connection is accepted by one thread and has one only, and that nobody has read from one before its thread does.
In version 3 a connection goes from thread to thread through the list, so `ListInv` has to say that no thread has what is
listed; it needs the shape of the list (`Linked`: one predecessor each, none for the first) because `dequeue` makes
the first node's successor the first. `AheadInv` says that the connections of later rounds are not made yet, or `connect` would overwrite one in use.
`Own` says for each step of a thread what its files hold: the source is its connection's and as long as what was taken
(`FilesOk`), the binary is that of the program if the file is whole (gcc leaves the old one when it fails, so it
matters that a failed compilation never gets to `run_task`), the output that of the binary; in version 1 whose texts
they are (`TextsOk`), `error_output.txt` included. `CutOk` says that what version 3 goes on with
after `recv_file` failed is of a client that is gone, or will not be answered: the write raises SIGPIPE.
The proof has few shapes of steps: a thread goes on with its connection (`Moves`), answers (`Answers`), accepts
(`Accepts`), or takes from and gives to the list (`Dequeues`, `Enqueues`), or the server ends (`Stops`). Each keeps
`OldInv` (`MovesInv`, ...), and each action of the three servers is shown to be one of them; versions 2 and 3
share `CompileInv`, `RunInv` and `DiffInv`.

About what the same three versions count, from the same assumptions (in `OldCountsProofs`). `ClientAssumption` has
the set of clients finite, which `loadtest.sh` makes it, because the properties speak of cardinalities; rounds,
threads, files and descriptors are any number.

* `Survives`: `OldSpec => ServerSurvives`.
* `SocketsAccounted`: `OldSpec => []SocketsAreAccounted`.
* `SuccessesAnswered`: `OldSpec => []SuccessesWereAnswered`.
* `OldTypes`: `OldSpec => []OldTypeOK`.
* `QueueRefined`: `OldSpec => PoolIsTaskQueue`.

They follow from `OldInv` together with `CountInv` (`OldCountsInvariant`), which TLC agrees with on the instance of
`OldServersGrade`. A server's step is one call on each connection (`CallOf`), or it ends and has a `Reason`
(`ServerDoes`, shown for each action of the three servers); most of the proof needs no more of a step than this.

* Why a server ends (`EndsForReason`): `ErrorInv` says that a failed connection has failed at both ends and is one that may fail, so a
  SIGPIPE or a failed read is the doing of the client whose connection the thread has. Descriptors are those of connections open at that moment, plus
  `leaked`, and `accept` fails when these are `FdLimit`. In version 2 no thread is free when each has a connection.
* Which sockets are open (`SocketStep`): a step opens a socket for the thread that accepts, moves it between a thread and the list, or lets go of it
  behind an answer, which closes it unless the path is one of `NotClosed`. An answer whose write fails is not written, but its path goes on (`Left`). `SocketsAreAccounted`
  is inductive beside `OldInv`, since a connection is in one place only.
* A round that is over was counted once (`RoundInv`); what was counted as a success belongs to a connection of a round that is over
  and was answered or has failed under the client (`SuccessInv`). For the step that counts, `StreamInv` says that the
  client has sent its whole file, and `ClosedInv` that a server that lives closes nothing it has not answered.
* A file is left open at most once for a connection: `LeakInv` counts them against the connections whose thread has
  begun to receive, and that grows by one when `leaked` does.
* The list: `Chain(q)` says that `q` are the nodes from `head` to `tail`, all different, and that every other
  link is empty; `QueueInv` that this is so of `Contents` and that `pool_size` is its length. `enqueue` then appends (`EnqueueChain`)
  and `dequeue` takes the first (`DequeueChain`), which needs that a connection is not `Listed` when it is
  queued (`ListInv`), or the list would close to a ring.

`Contents` is the recursive function `From` over the links, and what such a definition yields along a list of any length is an
induction. It is done without the library's induction theorems: `FollowsList` takes the least position from the
end where the function and the list differ (`LeastNatural`, from the well-foundedness of strict inclusion between finite sets), and derives a contradiction from
one step of the definition. What the threads do then maps to `TaskQueue` by shape: `Dequeues` is `Begin`, `Enqueues`
is `Add`, `Answers` is `Finish`, and `QueueRests` covers every step that leaves the list, the threads' sockets and the
answers alone.

Only model-checked: liveness, which is out of reach of TLAPS (`EveryTaskRuns`, `EveryRequestEnds`, `EveryIssuedIdIsGraded`,
`EveryClientEnds`, `FramedFileIsReceived`, `ConnectedAreAnswered`), and the four runs that show a violation. Every
invariant and action property and both refinements are proved.

## 5. What is not modelled, and the plan

* Failures of allocation, of `pthread_create` in the pools, of start-up (socket, bind, a port that is not a number) and of
  opening local files; log texts; clock readings and sleeps, which the models leave open anyway.
* The loss of segments below TCP, an int or an id that arrives in two segments, and a `send` cut short by a signal.
* Children of `system()` that inherit sockets: a connection a server has closed counts as closed, while its client would
  see the end only when those programs have ended.
* The logger. Its unlocked initialisation is safe because `main` logs first, and nothing reads what it writes.
* `gen_uuid fallback.c`, which is not built. Seeded with the second, it would give two submissions of one second
  the same id; the models take ids to be new, as libuuid's are.
* The parts of the scripts that build, measure and plot, and recorded results.
* The pool size and port as `atoi` of arguments.

Next: the loss of single segments below an int or an id, and sockets that children of `system()` keep open.

To run: `tlc -config PoolServes.cfg MCThreadPool`, and so on; `tlapm --threads 2` on each of the `...Proofs` modules.
