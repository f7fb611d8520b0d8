-------------------------- MODULE SequentialServer --------------------------
(***************************************************************************)
(* Version 1 (v1/server.c): one loop that accepts a connection, reads once,*)
(* compiles, runs, compares, answers with the contents of a file, and      *)
(* closes.  All requests share the files, and stderr is redirected to      *)
(* error_output.txt, which is opened without O_TRUNC for each request.     *)
(*                                                                         *)
(* fileDescriptor is closed, but its number is that of the file opened     *)
(* next: the lseek and ftruncate before each answer empty that file, and   *)
(* the answer is a headline and what the file held.                        *)
(***************************************************************************)
EXTENDS Judging

v1Unchanged == <<version, client, program, shell>>

\* Lines 48-56.
V1Accept ==
    /\ \E c \in Waiting :
          /\ thread[Main].at = "accept"
          /\ thread' = [thread EXCEPT ![Main].at = "read", ![Main].sock = c]
          /\ conn' = [conn EXCEPT ![c] = Accepted(c)]
    /\ UNCHANGED <<v1Unchanged, up, file, errors>>

\* Lines 58-74: one read, whatever the length of the file.
V1Read ==
    LET c == Sock(Main) IN
    /\ Step(Main, "read", "compile")
    /\ HasUnit(c) \/ HasEnded(c)
    /\ LET n == IF HasUnit(c) THEN 1 ELSE 0 IN
          /\ conn' = [conn EXCEPT ![c] = Taken(c, n)]
          /\ file' = [file EXCEPT ![FileOf(Main)].source = [by |-> c, units |-> n]]
    /\ UNCHANGED <<v1Unchanged, up, errors>>

\* Mutant: the end of the stream is an error too.
V1ReadFailsOrEnds ==
    /\ thread[Main].at = "read" /\ (HasFailed(Sock(Main)) \/ HasEnded(Sock(Main)))
    /\ ServerEnds
    /\ UNCHANGED <<v1Unchanged, thread, file, errors>>

\* Lines 76-77: error() ends the server.
V1ReadFails ==
    /\ thread[Main].at = "read" /\ HasFailed(Sock(Main))
    /\ ServerEnds
    /\ UNCHANGED <<v1Unchanged, thread, file, errors>>

\* Mutant: error_output.txt is appended to.
WriteErrorsBehind(c) == errors' = SelectSeq(errors, LAMBDA d : d # c) \o <<c>>

\* c's child writes to stderr, over the beginning of what the file holds.
WriteErrors(c) ==
    LET rest == IF errors # <<>> /\ Head(errors) = c THEN Tail(errors) ELSE errors IN
    \E i \in 1 .. Len(rest) + 1 : errors' = <<c>> \o SubSeq(rest, i, Len(rest))

Judged(from, verdict) ==
    /\ thread[Main].at = from
    /\ thread' = [thread EXCEPT ![Main].at = "answer", ![Main].verdict = verdict]

\* Lines 79-81; a compiler that succeeds may still warn.
V1Compile ==
    /\ \E nature \in Natures :
          /\ Gcc(Main, nature)
          /\ IF nature = "broken"
             THEN Judged("compile", "COMPILATION ERROR") /\ WriteErrors(Sock(Main))
             ELSE /\ Step(Main, "compile", "run")
                  /\ WriteErrors(Sock(Main)) \/ UNCHANGED errors
    /\ UNCHANGED <<v1Unchanged, up, conn>>

\* Lines 82-85 and 120: a status of 0 is the runtime error.
V1Run ==
    /\ Ends(Main)
    /\ IF StatusZero(Main) THEN Judged("run", "RUNTIME ERROR") ELSE Step(Main, "run", "diff")
    /\ Prints(Main)
    /\ WriteErrors(Sock(Main)) \/ UNCHANGED errors
    /\ UNCHANGED <<v1Unchanged, up, conn>>

\* Lines 86-91.
V1Diff ==
    /\ Judged("diff", IF Output(Main).expected THEN "PASS" ELSE "OUTPUT ERROR")
    /\ UNCHANGED <<v1Unchanged, up, conn, file, errors>>

\* Whose texts an answer holds: out_gen.txt or diff_out.txt, which the shell
\* empties, or error_output.txt.
V1Text ==
    IF thread[Main].verdict \in {"PASS", "OUTPUT ERROR"} THEN <<Output(Main).by>> ELSE errors

\* Lines 91-149: the file is read, rewritten behind a headline, read again and
\* written to the client.
V1Answer ==
    /\ thread[Main].at = "answer"
    /\ Answer(Main, [verdict |-> thread[Main].verdict, text |-> V1Text], TRUE, "accept")
    /\ UNCHANGED <<v1Unchanged, file, errors>>

V1Server ==
    /\ version = "v1" /\ up
    /\ V1Accept \/ V1Read \/ V1ReadFails \/ V1Compile \/ V1Run \/ V1Diff \/ V1Answer

=============================================================================
