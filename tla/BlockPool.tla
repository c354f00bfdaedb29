------------------------------ MODULE BlockPool ------------------------------
(***************************************************************************)
(* What a user of Abstractions/MemoryPool relies on, and nothing of how    *)
(* the pool keeps its blocks: a block is in the hands of at most one       *)
(* caller, and a limited pool never has more than Limit blocks in use.     *)
(* MemoryPool implements this specification (MemoryPool!ImplementsPool),   *)
(* and so does the way the server uses its pool of connection contexts.    *)
(***************************************************************************)
EXTENDS Naturals, FiniteSets

CONSTANTS
    Block,      \* the blocks the allocator may return
    Limit       \* the largest number of blocks in use, 0 for no limit

VARIABLE held   \* the blocks in the hands of callers

Init == held = {}

(***************************************************************************)
(* A caller gets a block nobody has.                                       *)
(***************************************************************************)
Take(b) ==
    /\ b \in Block \ held
    /\ Limit > 0 => Cardinality(held) < Limit
    /\ held' = held \union {b}

(***************************************************************************)
(* A caller gives back a block it has.                                     *)
(***************************************************************************)
Give(b) ==
    /\ b \in held
    /\ held' = held \ {b}

Next == \E b \in Block : Take(b) \/ Give(b)

Spec == Init /\ [][Next]_held
===============================================================================
