---------------------------- MODULE MCWebServer ----------------------------
(***************************************************************************)
(* Small instances of WebServer for TLC.  Clients and contexts are         *)
(* interchangeable: no definition of WebServer orders or names them.       *)
(***************************************************************************)
EXTENDS WebServer, TLC

Symmetry == Permutations(Client) \union Permutations(Context)
===============================================================================
