----------------------------- MODULE GraderClient -----------------------------
(***************************************************************************)
(* The clients of version 4 (v4/client/client.c), composed with the server *)
(* they submit to.  A client goes round a loop: it submits its file on one *)
(* connection, takes what it reads for its id, and asks for the status on  *)
(* further ones as long as that is 4.  Every read has a timeout, but no    *)
(* send has.  A client closes its submissions when it exits, and not       *)
(* before.                                                                 *)
(*                                                                         *)
(* GraderServer lets a connection ask for anything; here it asks for what  *)
(* the client has sent.  An id is sent without its NUL.                    *)
(***************************************************************************)
EXTENDS GraderServer

CONSTANTS
    Clients,
    Fits,       \* the clients whose file fits into the buffers of a socket
    Rounds,     \* the argument loop
    MaxChecks   \* bound of the model: the status checks in a round, at most 11

SubmitOrCheck ==
    [c \in Conns |-> IF c[3] = 0 THEN {"submit", "cut"} ELSE {"check36", "noid"}]

ASSUME GraderClientAssumption ==
    /\ Rounds \in Nat /\ MaxChecks \in Nat /\ Fits \subseteq Clients
    /\ Conns = Clients \X (1..Rounds) \X (0..MaxChecks)
    /\ Requests = SubmitOrCheck

VARIABLES
    client,     \* each client: its next step, round, locals and counters
    request     \* what is sent on each connection; "reset": it was refused since

graderVars == <<serverVars, client, request>>

NotMade == [kind |-> "none", id |-> NoId]

GraderInit ==
    /\ ServerInit
    /\ client = [k \in Clients |->
                    [step |-> "submit", round |-> 1, req_id |-> "unset",
                     status_check_counter |-> 0, successfulRes |-> 0]]
    /\ request = [c \in Conns |-> NotMade]

\* The connection a client uses.
Awaited(k) ==
    <<k, client[k].round, IF client[k].step \in {"send_file", "await_id"}
                          THEN 0 ELSE client[k].status_check_counter>>

Awaits(k) == client[k].step \in {"await_id", "await_status"}

HasReply(k) == reply[Awaited(k)] # "none"

\* The server has closed the connection, or refused it.
Ended(k) ==
    /\ ~ HasReply(k)
    /\ socket[Awaited(k)] = "closed" \/ request[Awaited(k)].kind = "reset"

-----------------------------------------------------------------------------
(* A client                                                                *)

\* Lines 159-163 and 65.  The value that send_file compares with -1 is undefined
\* when the size has been sent (common.c:18-23, 100): it may give up there.
Submit(k) ==
    /\ client[k].step = "submit" /\ client[k].round <= Rounds
    /\ up
    /\ client' = [client EXCEPT ![k].step = "send_file"]
    /\ \E kind \in {"submit", "cut"} :
          request' = [request EXCEPT
              ![<<k, client[k].round, 0>>] = [kind |-> kind, id |-> NoId]]

\* Lines 123-124, of either connection.
ConnectFails(k) ==
    /\ \/ client[k].step = "submit" /\ client[k].round <= Rounds
       \/ client[k].step = "check"
    /\ ~ up
    /\ client' = [client EXCEPT ![k].step = "gone"]
    /\ UNCHANGED request

Returns(k) ==
    /\ client[k].step = "submit" /\ client[k].round > Rounds
    /\ client' = [client EXCEPT ![k].step = "gone"]
    /\ UNCHANGED request

\* Line 66: a file that does not fit needs a handler that receives it; what does
\* not succeed is not looked at.
SendFile(k) ==
    /\ client[k].step = "send_file"
    /\ \/ k \in Fits \/ request[Awaited(k)].kind = "cut" \/ Ended(k)
       \/ \E w \in Workers : at[w] = "recv_file" /\ running[w] = Awaited(k)
    /\ client' = [client EXCEPT ![k].step = "await_id"]
    /\ UNCHANGED request

\* The second send to a connection that was reset raises SIGPIPE (lines 65-66
\* and common.c:109, lines 30-31).
BrokenPipe(k) ==
    /\ client[k].step \in {"send_file", "await_status"}
    /\ Ended(k)
    /\ client' = [client EXCEPT ![k].step = "gone"]
    /\ UNCHANGED request

\* Lines 89-92, and the start of the loop that checks: an empty text when the
\* server closed the connection or the timeout came, with no test of either.
TakeId(k, text) ==
    /\ client[k].step = "await_id"
    /\ client' = [client EXCEPT ![k].step = "check", ![k].req_id = text,
                                ![k].status_check_counter = 1]
    /\ UNCHANGED request

IdArrives(k) ==
    /\ Awaits(k)
    /\ \/ HasReply(k) /\ TakeId(k, reply[Awaited(k)])
       \/ Ended(k) /\ TakeId(k, NoId)

IdTimesOut(k) == Awaits(k) /\ ~ HasReply(k) /\ ~ Ended(k) /\ TakeId(k, NoId)

\* Lines 84-85: the caller does not look at the result, and req_id stays.
IdFails(k) ==
    /\ client[k].step = "await_id"
    /\ Ended(k)
    /\ client' = [client EXCEPT ![k].step = "check", ![k].status_check_counter = 1]
    /\ UNCHANGED request

\* Lines 172 and 30-31; nothing is sent for an empty id.  An id that was never
\* set is whatever the stack holds.
Check(k) ==
    /\ client[k].step = "check" /\ up
    /\ client[k].status_check_counter <= MaxChecks
    /\ client' = [client EXCEPT ![k].step = "await_status"]
    /\ \E kind \in CASE client[k].req_id = NoId    -> {"noid"}
                     [] client[k].req_id = "unset" -> {"noid", "check36"}
                     [] OTHER                      -> {"check36"} :
          request' = [request EXCEPT
              ![<<k, client[k].round, client[k].status_check_counter>>] =
                  [kind |-> kind,
                   id |-> IF client[k].req_id = "unset" THEN NoId ELSE client[k].req_id]]

\* strcmp of an answer with a name: a verdict has the newline of its line.
Strcmp(text, name) == text # name \/ text \in Verdicts

\* Mutant: the comparisons are not inverted.
DecodeRepaired(text) ==
    CASE text = "SUCCESS"       -> 0
      [] text = "COMPILE_ERROR" -> 1
      [] text = "RUNTIME_ERROR" -> 2
      [] text = "WRONG_ANSWER"  -> 3
      [] text = "RECEIVED"      -> 4
      [] OTHER                  -> 5

\* Lines 49-60: a text that differs from a name returns at once.
Decode(text) ==
    LET names == <<"SUCCESS", "COMPILE_ERROR", "RUNTIME_ERROR", "WRONG_ANSWER", "RECEIVED">>
        differs == {n \in 1..5 : Strcmp(text, names[n])}
    IN  IF differs = {} THEN 5 ELSE (CHOOSE n \in differs : \A m \in differs : n <= m) - 1

\* Lines 170-186 behind a check: once more, as long as the status is 4, or the
\* end of the round.
Loop(me, code) ==
    IF code = 4 /\ me.status_check_counter <= 10
    THEN [me EXCEPT !.step = "check", !.status_check_counter = @ + 1]
    ELSE [me EXCEPT !.step = "submit", !.round = @ + 1,
                    !.successfulRes =
                        IF code # 5 /\ me.status_check_counter <= 10 THEN @ + 1 ELSE @]

Answers(k, code) ==
    /\ client[k].step = "await_status"
    /\ client' = [client EXCEPT ![k] = Loop(@, code)]
    /\ UNCHANGED request

StatusArrives(k) ==
    /\ Awaits(k)
    /\ \/ HasReply(k) /\ Answers(k, Decode(reply[Awaited(k)]))
       \/ Ended(k) /\ Answers(k, Decode("none"))

\* Mutant: a check waits without a timeout.
StatusTimesOutNever(k) == FALSE

StatusTimesOut(k) ==
    /\ Awaits(k) /\ ~ HasReply(k) /\ ~ Ended(k)
    /\ Answers(k, Decode("none"))

\* Lines 42-43.
StatusFails(k) == Awaits(k) /\ Ended(k) /\ Answers(k, -1)

Client(k) ==
    \/ Submit(k) \/ ConnectFails(k) \/ Returns(k)
    \/ SendFile(k) \/ BrokenPipe(k)
    \/ IdArrives(k) \/ IdTimesOut(k) \/ IdFails(k)
    \/ Check(k) \/ StatusArrives(k) \/ StatusTimesOut(k) \/ StatusFails(k)

-----------------------------------------------------------------------------
(* The composition                                                         *)

\* The server takes what was sent.
AsSent ==
    \A c \in Conns :
        wants'[c] # wants[c] =>
            request[c].kind = wants'[c].kind /\ request[c].id = wants'[c].id

\* recv waits for what its client has not sent: the rest of the file, an id where
\* there is none, and otherwise the end of the stream, when the client has closed
\* the connection or is gone.
WaitsForClient(w) ==
    LET c == running[w]
        k == c[1]
    IN  \/ /\ at[w] = "recv_file" /\ Request(w).kind = "submit"
           /\ client[k].step = "send_file" /\ Awaited(k) = c
        \/ /\ at[w] = "recv_file" /\ Request(w).kind = "cut"
           /\ client[k].step # "gone"
        \/ /\ at[w] = "read_action" /\ Request(w).kind = "noid"
           /\ Awaits(k) /\ Awaited(k) = c

ClientStep(k) == Client(k) /\ UNCHANGED serverVars

AcceptSent == up /\ Accept /\ AsSent /\ UNCHANGED <<client, request>>

MainStep == up /\ AddRequest /\ UNCHANGED <<client, request>>

HandlerStep(w) ==
    up /\ ~ WaitsForClient(w) /\ WorkerStep(w) /\ UNCHANGED <<client, request>>

\* Connections that were not accepted are reset.
ProcessEnds ==
    /\ up
    /\ KillServer \/ \E w \in Workers : ~ WaitsForClient(w) /\ Crash(w)
    /\ request' = [c \in Conns |-> IF request[c].kind # "none" /\ socket[c] = "none"
                                   THEN [kind |-> "reset", id |-> NoId] ELSE request[c]]
    /\ UNCHANGED client

ProcessStarts == Restart /\ UNCHANGED <<client, request>>

GraderNext ==
    \/ \E k \in Clients : ClientStep(k)
    \/ AcceptSent \/ MainStep
    \/ \E w \in Workers : HandlerStep(w)
    \/ ProcessEnds \/ ProcessStarts

GraderSpec == GraderInit /\ [][GraderNext]_graderVars

(***************************************************************************)
(* Clients go on.  Nothing is assumed of the server, which may be stuck,   *)
(* slow, killed or gone.                                                   *)
(***************************************************************************)
FairGraderSpec == GraderSpec /\ \A k \in Clients : WF_graderVars(ClientStep(k))

-----------------------------------------------------------------------------
(* Properties                                                              *)

IdsOf(k) == {reply[<<k, r, 0>>] : r \in 1..Rounds} \cap Ids

(***************************************************************************)
(* Whatever was late, lost or reset, and across a restart of the server, a *)
(* client asks for none but its own ids, and a verdict it is told is the   *)
(* one in that id's status file (client.c:92, 163-174,                     *)
(* req_handler_threads.c:73-111).                                          *)
(***************************************************************************)
OwnVerdicts ==
    \A c \in Conns :
        /\ request[c].kind = "check36" => request[c].id \in IdsOf(c[1]) \cup {NoId}
        /\ request[c].kind = "check36" /\ reply[c] \in Verdicts
              => request[c].id # NoId /\ status[request[c].id] = reply[c]

(***************************************************************************)
(* The client's loop asks once in a round, whatever it is told, and every  *)
(* round counts as a success: after a timeout or an error, and for RECEIVED*)
(* and WRONG ID (client.c:49-60, 171, 181).                                *)
(***************************************************************************)
OneCheckARound ==
    \A k \in Clients :
        /\ client[k].status_check_counter <= 1
        /\ client[k].step # "gone" => client[k].successfulRes = client[k].round - 1

(***************************************************************************)
(* Every client ends, although the server may be stuck or gone, and a      *)
(* handler may wait for the client that waits for it; only a client whose  *)
(* file does not fit into its socket can be stuck, in send, which has no   *)
(* timeout, as long as no handler receives it (client.c:66, 113,           *)
(* req_handler_threads.c:76, common.c:71, 109).                            *)
(***************************************************************************)
EveryClientEnds ==
    \A k \in Clients :
        \/ <>(client[k].step = "gone")
        \/ k \notin Fits /\ <>[](client[k].step = "send_file" /\ up)

=============================================================================
