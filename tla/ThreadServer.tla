----------------------------- MODULE ThreadServer -----------------------------
(***************************************************************************)
(* Version 2 (v2/server.c): a detached thread for each connection, which   *)
(* reads once, compiles, runs, compares and answers with a verdict, and    *)
(* never closes its socket.                                                *)
(***************************************************************************)
EXTENDS Judging

v2Unchanged == <<version, client, program, shell, errors>>

\* Lines 166-180.
V2Accept ==
    /\ Descriptors < FdLimit
    /\ \E c \in Waiting, t \in Threads :
          /\ thread[t].at = "free"
          /\ thread' = [thread EXCEPT ![t].at = "read", ![t].sock = c]
          /\ conn' = [conn EXCEPT ![c] = Accepted(c)]
    /\ UNCHANGED <<v2Unchanged, up, file>>

\* Lines 170-177: accept or pthread_create fails.
V2Exit ==
    /\ \/ Descriptors >= FdLimit
       \/ Waiting # {} /\ \A t \in Threads : thread[t].at # "free"
    /\ ServerEnds
    /\ UNCHANGED <<v2Unchanged, thread, file>>

\* Lines 97-113: one read, the failure of which leaves an empty file.
V2Read(t) ==
    LET c == Sock(t) IN
    /\ Step(t, "read", "compile_task")
    /\ HasUnit(c) \/ HasEnded(c) \/ HasFailed(c)
    /\ conn' = [conn EXCEPT ![c] = IF HasFailed(c) THEN Failed(c)
                                   ELSE Taken(c, IF HasUnit(c) THEN 1 ELSE 0)]
    /\ file' = [file EXCEPT ![FileOf(t)].source =
                   [by |-> c, units |-> IF HasUnit(c) THEN 1 ELSE 0]]
    /\ UNCHANGED <<v2Unchanged, up>>

V2Answer(t, verdict) ==
    /\ Answer(t, [verdict |-> verdict, text |-> <<>>], FALSE, "free")
    /\ UNCHANGED v2Unchanged

\* compile_task and its caller, lines 59-70 and 115-119.
V2Compile(t) ==
    \E nature \in Natures :
        /\ thread[t].at = "compile_task"
        /\ Gcc(t, nature)
        /\ IF nature = "broken"
           THEN V2Answer(t, "COMPILE_ERROR")
           ELSE Step(t, "compile_task", "run_task") /\ UNCHANGED <<v2Unchanged, up, conn>>

\* run_task and its caller, lines 73-80 and 121-125.
V2Run(t) ==
    /\ thread[t].at = "run_task"
    /\ Ends(t)
    /\ Prints(t)
    /\ IF StatusZero(t)
       THEN Step(t, "run_task", "diff_task") /\ UNCHANGED <<v2Unchanged, up, conn>>
       ELSE V2Answer(t, "RUNTIME_ERROR")

\* diff_task and its caller, lines 83-94 and 127-133.
V2Diff(t) ==
    /\ thread[t].at = "diff_task"
    /\ V2Answer(t, IF Output(t).expected THEN "ACCEPTED" ELSE "WRONG_ANSWER")
    /\ UNCHANGED file

HandleClientV2(t) == V2Read(t) \/ V2Compile(t) \/ V2Run(t) \/ V2Diff(t)

V2Thread(t) == version = "v2" /\ up /\ HandleClientV2(t)

V2Main == version = "v2" /\ up /\ (V2Accept \/ V2Exit)

=============================================================================
