------------------------------- MODULE Judging -------------------------------
(***************************************************************************)
(* What the servers of versions 1, 2 and 3 have in common behind their     *)
(* connections: threads, and the files in which a submission is received,  *)
(* compiled, run and compared.  Version 1 has the one thread Main and one  *)
(* set of files; in versions 2 and 3 Main accepts connections and every    *)
(* other thread has files named by pthread_self().                         *)
(*                                                                         *)
(* A program is told by what gcc, the shell and diff say of it.  The       *)
(* commands are the external part; their outcomes are those of the program *)
(* in the file; a file that was cut may hold any program.                  *)
(***************************************************************************)
EXTENDS OneShotClients

CONSTANTS
    Threads,    \* the threads there can be at once, besides Main
    Main,
    Programs,   \* the assignments of programs to clients that are considered
    CutPrograms,  \* what a file that was cut may turn out to be
    Shells,     \* what /bin/sh can be: "bash", "dash"
    FdLimit,    \* the descriptors the server may have for clients
    NoConn

Natures ==
    {"broken",      \* does not compile
     "endless",     \* never ends
     "crashes",     \* ends with another status than 0
     "returns",     \* does so too, having printed what is expected (v3/test.c)
     "wrong",       \* ends with 0, having printed something else
     "right"}       \* ends with 0, having printed what is expected

ASSUME JudgingAssumption ==
    /\ Main \notin Threads
    /\ Programs \subseteq [Clients -> Natures]
    /\ CutPrograms \subseteq Natures
    /\ Shells \subseteq {"bash", "dash"}
    /\ FdLimit \in Nat

VARIABLES
    program,    \* what each client's file is
    shell,      \* what /bin/sh is
    thread,     \* each thread's next step, its socket and its verdict
    file,       \* the files of each thread's name: source, binary, output
    errors      \* v1's error_output.txt: whose texts it holds, in order

AllThreads == Threads \cup {Main}

NoSource == [by |-> NoConn, units |-> 0]
NoBinary == [by |-> NoConn, nature |-> "broken"]
NoOutput == [by |-> NoConn, expected |-> FALSE]

JudgingInit ==
    /\ ClientsInit
    /\ program \in Programs
    /\ shell \in (IF version = "v3" THEN Shells ELSE {"bash"})
    /\ thread = [t \in AllThreads |->
                    [at |-> IF t = Main THEN "accept" ELSE IF version = "v3" THEN "lock" ELSE "free",
                     sock |-> NoConn, verdict |-> "none"]]
    /\ file = [t \in AllThreads |->
                  [source |-> NoSource, binary |-> NoBinary, output |-> NoOutput]]
    /\ errors = <<>>

\* Mutant: all threads work on files of one name.
OneName(t) == Main

FileOf(t) == t

Sock(t) == thread[t].sock
Step(t, from, to) == thread[t].at = from /\ thread' = [thread EXCEPT ![t].at = to]

\* The one write of an answer by thread t, and its close where there is one.
Answer(t, reply, close, to) ==
    IF Raises(Sock(t))
    THEN ServerEnds /\ UNCHANGED thread
    ELSE /\ LET r == Written(Sock(t), reply) IN
                conn' = [conn EXCEPT ![Sock(t)] = IF close THEN Closed(r) ELSE r]
         /\ thread' = [thread EXCEPT ![t] = [at |-> to, sock |-> NoConn, verdict |-> "none"]]
         /\ UNCHANGED up

-----------------------------------------------------------------------------
(* The commands                                                            *)

Source(t) == file[FileOf(t)].source
Binary(t) == file[FileOf(t)].binary
Output(t) == file[FileOf(t)].output

\* What a source file can turn out to be.
NaturesOf(source) ==
    CASE source.units = 0                   -> {"broken"}
      [] source.units = Units[source.by[1]] -> {program[source.by[1]]}
      [] OTHER                              -> CutPrograms

\* gcc leaves the old binary when it fails.
Gcc(t, nature) ==
    /\ nature \in NaturesOf(Source(t))
    /\ file' = IF nature = "broken" THEN file
               ELSE [file EXCEPT ![FileOf(t)].binary = [by |-> Source(t).by, nature |-> nature]]

Ends(t) == Binary(t).nature # "endless"
StatusZero(t) == Binary(t).nature \in {"right", "wrong"}
Prints(t) ==
    file' = [file EXCEPT ![FileOf(t)].output =
                [by |-> Binary(t).by, expected |-> Binary(t).nature \in {"right", "returns"}]]

Descriptors == Cardinality({c \in Conns : conn[c].server = "open"})

=============================================================================
