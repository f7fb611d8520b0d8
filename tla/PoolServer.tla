------------------------------ MODULE PoolServer ------------------------------
(***************************************************************************)
(* Version 3 (v3/server.c): Main accepts connections and queues them; the  *)
(* threads of a pool take them, receive the file with recv_file, compile,  *)
(* run, compare and answer.  The queue and its length are used under one   *)
(* mutex with one condition variable: a critical section is one action.    *)
(***************************************************************************)
EXTENDS Judging, LinkedQueue

VARIABLES
    pool_size,  \* the length of the queue
    leaked      \* the number of files recv_file has left open

poolVars == <<linkedQueueVars, pool_size, leaked>>
v3Unchanged == <<version, client, program, shell, errors>>

PoolInit == LinkedQueueInit /\ pool_size = 0 /\ leaked = 0

\* Lines 182-185.
V3Accept ==
    /\ Descriptors + leaked < FdLimit
    /\ \E c \in Waiting :
          /\ thread[Main].at = "accept"
          /\ thread' = [thread EXCEPT ![Main].at = "enqueue", ![Main].sock = c]
          /\ conn' = [conn EXCEPT ![c] = Accepted(c)]
    /\ UNCHANGED <<v3Unchanged, poolVars, up, file>>

\* Lines 187-188.
V3Exit ==
    /\ thread[Main].at = "accept"
    /\ Descriptors + leaked >= FdLimit
    /\ ServerEnds
    /\ UNCHANGED <<v3Unchanged, poolVars, thread, file>>

\* Mutant: no thread is signalled.
V3EnqueueOnly ==
    /\ thread[Main].at = "enqueue"
    /\ Enqueue(Sock(Main))
    /\ pool_size' = pool_size + 1
    /\ thread' = [thread EXCEPT ![Main] = [@ EXCEPT !.at = "accept", !.sock = NoConn]]
    /\ UNCHANGED <<v3Unchanged, leaked, up, conn, file>>

Asleep == {t \in Threads : thread[t].at = "asleep"}

\* Lines 190-195; the signal wakes one of the threads that wait.
V3Enqueue ==
    /\ thread[Main].at = "enqueue"
    /\ Enqueue(Sock(Main))
    /\ pool_size' = pool_size + 1
    /\ LET accepts == [thread EXCEPT ![Main] = [@ EXCEPT !.at = "accept", !.sock = NoConn]] IN
           IF Asleep = {} THEN thread' = accepts
           ELSE \E t \in Asleep : thread' = [accepts EXCEPT ![t].at = "lock"]
    /\ UNCHANGED <<v3Unchanged, leaked, up, conn, file>>

\* worker_function, lines 129-136.
WorkerFunction(t) ==
    /\ IF pool_size = 0
       THEN Step(t, "lock", "asleep") /\ UNCHANGED <<linkedQueueVars, pool_size>>
       ELSE /\ thread[t].at = "lock"
            /\ \E c \in Conns :
                  /\ Dequeue(c)
                  /\ thread' = [thread EXCEPT ![t].at = "recv_size", ![t].sock = c]
            /\ pool_size' = pool_size - 1
    /\ UNCHANGED <<v3Unchanged, leaked, up, conn, file>>

\* pthread_cond_wait may return for no reason.
SpuriousWakeup(t) ==
    /\ Step(t, "asleep", "lock")
    /\ UNCHANGED <<v3Unchanged, poolVars, up, conn, file>>

-----------------------------------------------------------------------------
(* recv_file; handle_client does not look at its result                    *)

\* The size.  Without it the file is left empty, and open when sock_read_int
\* returned -1, which its uninitialised val can be too.
V3RecvSize(t) ==
    LET c == Sock(t) IN
    /\ thread[t].at = "recv_size"
    /\ file' = [file EXCEPT ![FileOf(t)].source = [by |-> c, units |-> 0]]
    /\ \/ /\ HasUnit(c)
          /\ conn' = [conn EXCEPT ![c] = Taken(c, 1)]
          /\ Step(t, "recv_size", "recv_file") /\ UNCHANGED leaked
       \/ /\ HasEnded(c)
          /\ leaked' \in {leaked, leaked + 1}
          /\ Step(t, "recv_size", "compile_task") /\ UNCHANGED conn
       \/ /\ HasFailed(c)
          /\ conn' = [conn EXCEPT ![c] = Failed(c)]
          /\ leaked' = leaked + 1
          /\ Step(t, "recv_size", "compile_task")
    /\ UNCHANGED <<v3Unchanged, linkedQueueVars, pool_size, up>>

\* Mutant: one recv for the whole file.
V3RecvOnce(t) ==
    LET c == Sock(t) IN
    /\ thread[t].at = "recv_file" /\ HasUnit(c)
    /\ conn' = [conn EXCEPT ![c] = Taken(c, 1)]
    /\ file' = [file EXCEPT ![FileOf(t)].source.units = @ + 1]
    /\ Step(t, "recv_file", "compile_task")
    /\ UNCHANGED <<v3Unchanged, poolVars, up>>

\* The data: the loop ends with the last byte announced by the size.
V3RecvData(t) ==
    LET c == Sock(t) IN
    /\ thread[t].at = "recv_file" /\ HasUnit(c)
    /\ conn' = [conn EXCEPT ![c] = Taken(c, 1)]
    /\ file' = [file EXCEPT ![FileOf(t)].source.units = @ + 1]
    /\ Step(t, "recv_file",
            IF conn[c].taken + 1 = Stream(c[1]) THEN "compile_task" ELSE "recv_file")
    /\ UNCHANGED <<v3Unchanged, poolVars, up>>

\* The stream ends early, or fails, with the error taken for data first.
V3RecvEnds(t) ==
    LET c == Sock(t) IN
    /\ thread[t].at = "recv_file"
    /\ HasEnded(c) \/ HasFailed(c)
    /\ conn' = [conn EXCEPT ![c] = IF HasFailed(c) THEN Failed(c) ELSE @]
    /\ Step(t, "recv_file", "compile_task")
    /\ UNCHANGED <<v3Unchanged, poolVars, up, file>>

\* fwrite of (size_t)-1 bytes.
V3RecvCrashes(t) ==
    /\ thread[t].at = "recv_file" /\ HasFailed(Sock(t))
    /\ ServerEnds
    /\ UNCHANGED <<v3Unchanged, poolVars, thread, file>>

RecvFileV3(t) == V3RecvSize(t) \/ V3RecvData(t) \/ V3RecvEnds(t) \/ V3RecvCrashes(t)

-----------------------------------------------------------------------------
(* The rest of handle_client                                               *)

V3Answer(t, verdict, close) ==
    /\ Answer(t, [verdict |-> verdict, text |-> <<>>], close, "lock")
    /\ UNCHANGED <<v3Unchanged, poolVars>>

Goes(t, from, to) == Step(t, from, to) /\ UNCHANGED <<v3Unchanged, poolVars, up, conn>>

\* compile_task and its caller, lines 35-44 and 98-102.
V3Compile(t) ==
    \E nature \in Natures :
        /\ thread[t].at = "compile_task"
        /\ Gcc(t, nature)
        /\ IF nature = "broken" THEN V3Answer(t, "COMPILE_ERROR", FALSE)
                                ELSE Goes(t, "compile_task", "run_task")

\* run_task and its caller, lines 47-63 and 103-107.
V3Run(t) ==
    /\ thread[t].at = "run_task" /\ shell = "bash"
    /\ Ends(t)
    /\ Prints(t)
    /\ IF StatusZero(t) THEN Goes(t, "run_task", "diff_task")
                        ELSE V3Answer(t, "RUNTIME_ERROR", FALSE)

\* A shell that knows no &> runs the program in the background, makes an empty
\* output file, and returns 0 at once.
V3RunDash(t) ==
    /\ shell = "dash"
    /\ Goes(t, "run_task", "diff_task")
    /\ file' = [file EXCEPT ![FileOf(t)].output = [by |-> Binary(t).by, expected |-> FALSE]]

\* Mutant: no path closes the socket.
V3DiffLeavesOpen(t) ==
    /\ thread[t].at = "diff_task"
    /\ V3Answer(t, IF Output(t).expected THEN "ACCEPTED" ELSE "WRONG_ANSWER", FALSE)
    /\ UNCHANGED file

\* diff_task and its caller, lines 66-81 and 109-124.
V3Diff(t) ==
    /\ thread[t].at = "diff_task"
    /\ V3Answer(t, IF Output(t).expected THEN "ACCEPTED" ELSE "WRONG_ANSWER", TRUE)
    /\ UNCHANGED file

HandleClientV3(t) ==
    RecvFileV3(t) \/ V3Compile(t) \/ V3Run(t) \/ V3RunDash(t) \/ V3Diff(t)

V3Thread(t) == version = "v3" /\ up /\ (WorkerFunction(t) \/ HandleClientV3(t))

V3Wakes(t) == version = "v3" /\ up /\ SpuriousWakeup(t)

V3Main == version = "v3" /\ up /\ (V3Accept \/ V3Exit \/ V3Enqueue)

=============================================================================
