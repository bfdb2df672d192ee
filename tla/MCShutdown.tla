----------------------------- MODULE MCShutdown -----------------------------
(* A small instance of Shutdown. *)
EXTENDS ShutdownProperties

CONSTANTS h1, h2

=============================================================================
