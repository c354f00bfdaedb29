----------------------------- MODULE MCShutdown -----------------------------
(***************************************************************************)
(* A small instance of Shutdown for TLC.  Its two descriptors are above    *)
(* the server's own and its third client waits in the backlog, so that     *)
(* Terminate may leave a connection alone and, in one batch, an accept may *)
(* be given a descriptor that a later event of the batch still names.      *)
(***************************************************************************)
EXTENDS Shutdown

(***************************************************************************)
(* Every client is served after Terminate.  Nothing tells the clients      *)
(* apart, so one of them stands for all.                                   *)
(***************************************************************************)
ServedAfterTerminate == Served(CHOOSE c \in Client : TRUE)
===============================================================================
