----------------------------- MODULE MCHttpService -----------------------------
(***************************************************************************)
(* Small instances of HttpService for TLC.  Paths and handlers are         *)
(* interchangeable.                                                        *)
(***************************************************************************)
EXTENDS HttpService

Symmetry == Permutations(Path) \union Permutations(Handler)
===============================================================================
