------------------------------ MODULE MemoryPool ------------------------------
(***************************************************************************)
(* Abstractions/src/MemoryPool.cpp: a pool of equal-sized blocks.  Blocks  *)
(* are pre-allocated, handed out last-in first-out, and allocated on       *)
(* demand up to a limit.  Every call runs under the pool's mutex, so a     *)
(* call is one action.  The heap is part of the model: operator new may    *)
(* fail, and a block deleted by the pool may be returned by new again.     *)
(***************************************************************************)
EXTENDS Integers, FiniteSets, SequencesExt

CONSTANTS
    Block,          \* the addresses operator new can return
    PreAlloc,       \* l_pre_alloc
    MaxAlloc,       \* l_max_alloc, 0 for no limit
    BLOCK_RESERVE,  \* the enumerator of that name (128 in the code)
    HeapMayFail,    \* may operator new, or the growth of the vector, throw?
    AllocBound      \* bounds _allocated where MaxAlloc does not

ASSUME PoolAssumption ==
    /\ PreAlloc \in Nat
    /\ MaxAlloc \in Nat
    /\ BLOCK_RESERVE \in Nat
    /\ MaxAlloc = 0 \/ MaxAlloc >= PreAlloc
    /\ HeapMayFail \in BOOLEAN
    /\ AllocBound \in Nat

VARIABLES
    blocks,     \* _blocks, the vector of free blocks
    allocated,  \* _allocated
    held        \* the blocks callers have got and not released

poolVars == <<blocks, allocated, held>>

-----------------------------------------------------------------------------
(***************************************************************************)
(* The capacity the constructor reserves.  push_back cannot throw below    *)
(* it; above it, it has to allocate.                                       *)
(***************************************************************************)
Reserve ==
    LET r == IF PreAlloc > BLOCK_RESERVE THEN PreAlloc ELSE BLOCK_RESERVE
    IN  IF MaxAlloc > 0 /\ MaxAlloc < r THEN MaxAlloc ELSE r

Live == ToSet(blocks) \union held

(***************************************************************************)
(* The blocks operator new may return are those not in use: one fixed      *)
(* address for each pre-allocated block to begin with.                     *)
(***************************************************************************)
Init ==
    /\ blocks \in [1 .. PreAlloc -> Block]
    /\ IsInjective(blocks)
    /\ allocated = PreAlloc
    /\ held = {}

MayAllocateOneMore ==   \* mutant: the limit is compared with <=
    /\ MaxAlloc = 0 \/ allocated <= MaxAlloc
    /\ allocated < AllocBound

MayAllocate ==
    /\ MaxAlloc = 0 \/ allocated < MaxAlloc
    /\ allocated < AllocBound

-----------------------------------------------------------------------------
ReuseInPlace(b) ==      \* mutant: the block is not popped off the vector
    /\ blocks # <<>>
    /\ b = Last(blocks)
    /\ held' = held \union {b}
    /\ UNCHANGED <<blocks, allocated>>

Reuse(b) ==
    /\ blocks # <<>>
    /\ b = Last(blocks)
    /\ blocks' = Front(blocks)
    /\ held' = held \union {b}
    /\ UNCHANGED allocated

GrowUncounted(b) ==     \* mutant: _allocated is not incremented
    /\ blocks = <<>>
    /\ MayAllocate
    /\ b \notin Live
    /\ held' = held \union {b}
    /\ UNCHANGED <<blocks, allocated>>

Grow(b) ==
    /\ blocks = <<>>
    /\ MayAllocate
    /\ b \notin Live
    /\ allocated' = allocated + 1
    /\ held' = held \union {b}
    /\ UNCHANGED blocks

GetMemory(b) == Reuse(b) \/ Grow(b)

(***************************************************************************)
(* _allocated is incremented before new char[] is tried.                   *)
(***************************************************************************)
GetMemoryBadAlloc ==
    /\ HeapMayFail
    /\ blocks = <<>>
    /\ MayAllocate
    /\ allocated' = allocated + 1
    /\ UNCHANGED <<blocks, held>>

Exhausted ==
    /\ blocks = <<>>
    /\ MaxAlloc > 0
    /\ allocated >= MaxAlloc

GetMemoryExhausted == Exhausted /\ UNCHANGED poolVars

(***************************************************************************)
(* The pool does not check that the block is one of its own, or that it is *)
(* out: the caller's discipline is the quantifier in Next.  A push_back    *)
(* that throws deletes the block and leaves _allocated alone.              *)
(***************************************************************************)
KeepPreAllocated(b) ==  \* mutant: only as many blocks as pre-allocated are kept
    blocks' = IF Len(blocks) < PreAlloc THEN Append(blocks, b) ELSE blocks

Keep(b) == blocks' = Append(blocks, b)

Drop == HeapMayFail /\ Len(blocks) >= Reserve /\ UNCHANGED blocks

Release(b) ==
    /\ Keep(b) \/ Drop
    /\ held' = held \ {b}
    /\ UNCHANGED allocated

Next ==
    \/ \E b \in Block : GetMemory(b)
    \/ GetMemoryBadAlloc
    \/ GetMemoryExhausted
    \/ \E b \in held : Release(b)

Spec == Init /\ [][Next]_poolVars

-----------------------------------------------------------------------------
TypeOK ==
    /\ blocks \in Seq(Block)
    /\ allocated \in Nat
    /\ MaxAlloc > 0 => allocated <= MaxAlloc
    /\ held \subseteq Block
    /\ IsFiniteSet(held)

(***************************************************************************)
(* A free block is listed once, and no block is free and with a caller at  *)
(* the same time: GetMemory cannot give one block to two callers.          *)
(***************************************************************************)
NoBlockShared ==
    /\ IsInjective(blocks)
    /\ ToSet(blocks) \cap held = {}

(***************************************************************************)
(* The pool never owns more blocks than it counts, so never more than its  *)
(* limit, although operator new and push_back may fail half way through a  *)
(* call.                                                                   *)
(***************************************************************************)
LimitRespected ==
    /\ Len(blocks) + Cardinality(held) <= allocated
    /\ MaxAlloc > 0 => Cardinality(Live) <= MaxAlloc

(***************************************************************************)
(* MemoryPool.hpp:74, "Returns the number of allocated blocks."            *)
(***************************************************************************)
AllocatedIsExact == allocated = Len(blocks) + Cardinality(held)

(***************************************************************************)
(* MemoryPool.hpp:21, "All allocated blocks are retained for future use."  *)
(* Release may fail to push a block, but never in a pool that owns no more *)
(* blocks than BLOCK_RESERVE, whatever the heap does and whatever its      *)
(* limit.  Both of the server's pools (limit 100, reserve 128) are always  *)
(* of that size.                                                           *)
(***************************************************************************)
AllBlocksRetained ==
    [][Cardinality(Live) <= BLOCK_RESERVE => (Live \subseteq Live')]_poolVars

(***************************************************************************)
(* The pool implements the abstract pool of BlockPool: what the callers    *)
(* hold is all that is visible.                                            *)
(***************************************************************************)
Pool == INSTANCE BlockPool WITH Limit <- MaxAlloc

ImplementsPool == Pool!Spec
===============================================================================
