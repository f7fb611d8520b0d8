----------------------------- MODULE MCTransfer -----------------------------
(* A small instance of Transfer for TLC: ints of three bits, of which the   *)
(* longest file takes all, and a size_t of four.                           *)
EXTENDS Transfer

=============================================================================
