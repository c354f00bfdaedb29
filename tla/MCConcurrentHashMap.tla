------------------------- MODULE MCConcurrentHashMap -------------------------
(***************************************************************************)
(* Small instances of ConcurrentHashMap for TLC.  Two of the three keys    *)
(* share a bucket.                                                         *)
(***************************************************************************)
EXTENDS ConcurrentHashMap, TLC

CONSTANTS k1, k2, k3

MCKey == {k1, k2, k3}

MCHash == (k1 :> 0) @@ (k2 :> 5) @@ (k3 :> 2)

Symmetry == Permutations(Thread) \union Permutations(Node) \union Permutations(Value)
===============================================================================
