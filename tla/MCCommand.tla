------------------------------ MODULE MCCommand ------------------------------
(* A small instance of Command. *)
EXTENDS Command

\* Commands that write nothing, fill a pipe to the last byte, or write one more.
MCOutputs == [out : {0, 1, 2, 3}, err : {0, 2, 3}]

=============================================================================
