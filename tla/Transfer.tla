------------------------------ MODULE Transfer ------------------------------
(***************************************************************************)
(* One call of send_file at a client and the call of recv_file at the      *)
(* server that answers it (v4/common/common.c, the same text as            *)
(* v3/common/common.c): a size as an int, then the bytes of the file, over *)
(* a connection that the client may close and that may fail.               *)
(*                                                                         *)
(* The file is the bytes 1, 2, ..., size; NoByte stands for a byte that is *)
(* no byte of it.  An int arrives whole.                                   *)
(***************************************************************************)
EXTENDS Integers, Sequences, Functions

CONSTANTS
    MaxSize,        \* bound of the model: the longest file
    BufferSize,     \* BUFFER_SIZE
    MaxInt,         \* the largest int
    SizeModulus     \* one more than the largest size_t

ASSUME TransferAssumption ==
    /\ MaxSize \in Nat /\ MaxInt \in Nat /\ SizeModulus \in Nat
    /\ BufferSize \in Nat \ {0}
    /\ MaxSize < SizeModulus - 1 /\ MaxInt < SizeModulus - 1

VARIABLES
    size,       \* the length of the file
    sending,    \* the next thing send_file does; "reply": it has returned
    sent,       \* how many bytes it has sent
    header,     \* the size on its way to the server, or NoInt
    wire,       \* the bytes on their way to the server
    link,       \* "up", "reset": failed, with recv still to say so, or "ended"
    receiving,  \* the next thing recv_file does
    open,       \* its file is open
    file_size, total_bytes_read,
    guessed,    \* file_size was never received
    stored,     \* the contents of the file
    result      \* of recv_file: "none", "stored" (0), "failed" (-1), "crashed"

sender == <<size, sending, sent>>
receiver == <<receiving, open, file_size, total_bytes_read, guessed, stored, result>>
transferVars == <<sender, header, wire, link, receiver>>

Ints == -(MaxInt + 1) .. MaxInt
NoInt == MaxInt + 1
NoByte == 0

\* n bytes of the file, from the one behind the first k.
Bytes(k, n) == [i \in 1..n |-> k + i]

TransferInit ==
    /\ size \in 0..MaxSize
    /\ sending = "size" /\ sent = 0 /\ header = NoInt /\ wire = <<>> /\ link = "up"
    /\ receiving = "open" /\ open = FALSE
    /\ file_size = 0 /\ total_bytes_read = 0 /\ guessed = FALSE
    /\ stored = <<>> /\ result = "none"

-----------------------------------------------------------------------------
(* send_file and sock_write_int                                            *)

\* Mutant: ftell's long is not narrowed.
ToIntWide(n) == n

\* int file_size = ftell(file), line 97.
ToInt(n) == ((n + MaxInt + 1) % (2 * (MaxInt + 1))) - (MaxInt + 1)

\* sock_write_int returns no value when it has sent the size (lines 18-23): what
\* its caller compares with -1 is undefined, and may make it give up (line 100).
SendSize ==
    /\ sending = "size" /\ link = "up"
    /\ header' = ToInt(size)
    /\ sending' \in {"data", "reply"}
    /\ UNCHANGED <<size, sent, wire, link, receiver>>

Min(a, b) == IF a < b THEN a ELSE b

\* Mutant: the loop counts what it read, and send took less of it.
SendDataShort ==
    LET n == Min(BufferSize, size - sent) IN
    /\ sending = "data" /\ link = "up"
    /\ \E taken \in Min(1, n) .. n : wire' = wire \o Bytes(sent, taken)
    /\ sent' = sent + n
    /\ sending' = IF n < BufferSize THEN "reply" ELSE "data"
    /\ UNCHANGED <<size, header, link, receiver>>

\* One round of the loop; fread meets the end of the file when it returns
\* less than a buffer.
SendData ==
    LET n == Min(BufferSize, size - sent) IN
    /\ sending = "data" /\ link = "up"
    /\ wire' = wire \o Bytes(sent, n)
    /\ sent' = sent + n
    /\ sending' = IF n < BufferSize THEN "reply" ELSE "data"
    /\ UNCHANGED <<size, header, link, receiver>>

SendFails ==
    /\ sending \in {"size", "data"} /\ link # "up"
    /\ sending' = "reply"
    /\ UNCHANGED <<size, sent, header, wire, link, receiver>>

-----------------------------------------------------------------------------
(* The connection: the client closes it, at the end or killed at any time, *)
(* or it fails, with what is on its way lost from some byte on.            *)

Close ==
    /\ link = "up"
    /\ link' = "ended"
    /\ UNCHANGED <<sender, header, wire, receiver>>

Reset ==
    /\ link = "up"
    /\ link' = "reset"
    /\ \E n \in 0..Len(wire) : wire' = SubSeq(wire, 1, n)
    /\ header' \in {header, NoInt}
    /\ header' # header => wire' = <<>>
    /\ UNCHANGED <<sender, receiver>>

-----------------------------------------------------------------------------
(* recv_file and sock_read_int                                             *)

OpenFile ==
    /\ receiving = "open"
    /\ \/ receiving' = "size" /\ open' = TRUE /\ UNCHANGED result
       \/ receiving' = "returned" /\ result' = "failed" /\ UNCHANGED open
    /\ UNCHANGED <<sender, header, wire, link, file_size, total_bytes_read, guessed, stored>>

\* Lines 62-67: -1 is taken for an error, and the file is not closed.
TakeSize(int) ==
    /\ receiving = "size"
    /\ file_size' = int
    /\ IF int = -1 THEN receiving' = "returned" /\ result' = "failed"
                   ELSE receiving' = "data" /\ UNCHANGED result
    /\ UNCHANGED <<sender, wire, open, total_bytes_read, stored>>

RecvSize ==
    /\ header # NoInt
    /\ TakeSize(header)
    /\ header' = NoInt
    /\ UNCHANGED <<link, guessed>>

\* recv returned 0: sock_read_int returns an uninitialised val.
RecvNoSize ==
    /\ header = NoInt /\ link = "ended"
    /\ \E int \in Ints : TakeSize(int)
    /\ guessed' = TRUE
    /\ UNCHANGED <<header, link>>

RecvSizeFails ==
    /\ header = NoInt /\ link = "reset"
    /\ TakeSize(-1)
    /\ link' = "ended"
    /\ UNCHANGED <<header, guessed>>

\* The usual conversion of an int that is compared with a size_t.
ToSize(int) == int % SizeModulus

\* Mutant: the loop is entered once more when all has been received.
MoreThanAll == total_bytes_read <= ToSize(file_size)

More == total_bytes_read < ToSize(file_size)

\* recv takes what has arrived, up to a buffer, and fwrite stores it.
RecvData ==
    /\ receiving = "data" /\ More
    /\ \E n \in 1..Min(BufferSize, Len(wire)) :
          /\ stored' = stored \o SubSeq(wire, 1, n)
          /\ wire' = SubSeq(wire, n + 1, Len(wire))
          /\ total_bytes_read' = (total_bytes_read + n) % SizeModulus
    /\ UNCHANGED <<sender, header, link, receiving, open, file_size, guessed, result>>

Returns(value) ==
    /\ receiving = "data"
    /\ receiving' = "returned"
    /\ open' = FALSE
    /\ result' = value
    /\ UNCHANGED <<sender, header, wire, link, file_size, total_bytes_read, guessed, stored>>

\* Mutant: the end of the stream only ends the loop.
RecvEndsAsStored == More /\ wire = <<>> /\ link = "ended" /\ Returns("stored")

\* recv returned 0.
RecvEnds == More /\ wire = <<>> /\ link = "ended" /\ Returns("failed")

RecvReturns == ~ More /\ Returns("stored")

\* recv returned -1, a size_t that is not <= 0 (lines 71-80): the total goes
\* back by one, and fwrite is given more bytes than there are.
RecvFails ==
    /\ receiving = "data" /\ More /\ wire = <<>> /\ link = "reset"
    /\ link' = "ended"
    /\ total_bytes_read' = (total_bytes_read + (SizeModulus - 1)) % SizeModulus
    /\ stored' = Append(stored, NoByte)
    /\ UNCHANGED <<sender, header, wire, receiving, open, file_size, guessed, result>>

\* The same, with a fwrite that reads past the end of the stack.
RecvCrashes ==
    /\ receiving = "data" /\ More /\ wire = <<>> /\ link = "reset"
    /\ receiving' = "returned"
    /\ result' = "crashed"
    /\ UNCHANGED <<sender, header, wire, link, open, file_size, total_bytes_read,
                   guessed, stored>>

-----------------------------------------------------------------------------

Sends == SendSize \/ SendData \/ SendFails

Receives ==
    \/ OpenFile \/ RecvSize \/ RecvNoSize \/ RecvSizeFails
    \/ RecvData \/ RecvEnds \/ RecvReturns \/ RecvFails \/ RecvCrashes

TransferNext == Sends \/ Receives \/ Close \/ Reset

TransferSpec == TransferInit /\ [][TransferNext]_transferVars

(***************************************************************************)
(* Both calls go on when they can.  The client need not close: it waits    *)
(* for an answer, and the v4 client never closes this connection.          *)
(***************************************************************************)
FairTransferSpec ==
    TransferSpec /\ WF_transferVars(Sends) /\ WF_transferVars(Receives)

-----------------------------------------------------------------------------
(* Properties                                                              *)

TransferTypeOK ==
    /\ size \in 0..MaxSize
    /\ sending \in {"size", "data", "reply"}
    /\ sent \in 0..size
    /\ header \in Ints \cup {NoInt}
    /\ wire \in Seq(1..size)
    /\ link \in {"up", "reset", "ended"}
    /\ receiving \in {"open", "size", "data", "returned"}
    /\ open \in BOOLEAN
    /\ file_size \in Ints
    /\ total_bytes_read \in 0 .. SizeModulus - 1
    /\ guessed \in BOOLEAN
    /\ stored \in Seq(0..size)
    /\ result \in {"none", "stored", "failed", "crashed"}

\* A recv that failed within the data has been taken for data.
Spoiled == NoByte \in Range(stored)

(***************************************************************************)
(* Whatever the pieces in which it is sent and received, and wherever the  *)
(* connection ends, the file holds a prefix of what was sent, and what is  *)
(* on its way goes on from there (common.c:69-82, 106-116).                *)
(***************************************************************************)
StoredGoesOn ==
    ~ Spoiled => stored \o wire = Bytes(0, Len(stored) + Len(wire))

(***************************************************************************)
(* When recv_file returns 0 the whole file is stored: its caller queues it *)
(* for grading.  Unless its size has no int, its size was not received but *)
(* read from an uninitialised variable, or recv failed (common.c:53-85).   *)
(***************************************************************************)
AcceptedIsWhole ==
    result = "stored" /\ ~ guessed /\ ~ Spoiled /\ size <= MaxInt
        => stored = Bytes(0, size)

(***************************************************************************)
(* The size ahead of the data lets recv_file return while the client waits *)
(* for the answer with the connection open; unless send_file gave up behind*)
(* the size, and the connection stays open (common.c:18-23, 62, 70, 100).  *)
(***************************************************************************)
GaveUp == sending = "reply" /\ sent < size /\ link = "up"

FramedFileIsReceived == size <= MaxInt ~> receiving = "returned" \/ GaveUp

=============================================================================
