-------------------------- MODULE MemoryPoolProofs --------------------------
(***************************************************************************)
(* Proofs about MemoryPool, for every set of blocks, every size of the     *)
(* pool and whatever the heap does.                                        *)
(*                                                                         *)
(* PoolInv is inductive.  NoBlockShared needs TypeOK (what is pushed is a  *)
(* block), and LimitRespected needs NoBlockShared (the blocks on the       *)
(* vector and those held are counted one by one, the set Live is not).     *)
(***************************************************************************)
EXTENDS MemoryPool, SequenceLemmas

Counted == Len(blocks) + Cardinality(held) <= allocated

PoolInv == TypeOK /\ NoBlockShared /\ Counted

-----------------------------------------------------------------------------
(***************************************************************************)
(* The vector starts with PreAlloc distinct blocks, none of them handed    *)
(* out.                                                                    *)
(***************************************************************************)
LEMMA PoolInvInit == Init => PoolInv
<1> SUFFICES ASSUME Init PROVE PoolInv
    OBVIOUS
<1>1. PreAlloc \in Nat /\ MaxAlloc \in Nat /\ (MaxAlloc = 0 \/ MaxAlloc >= PreAlloc)
    BY PoolAssumption
<1>2. blocks \in Seq(Block) /\ Len(blocks) = PreAlloc
    BY <1>1 DEF Init
<1>3. TypeOK
    BY <1>1, <1>2, FS_EmptySet DEF Init, TypeOK
<1>4. NoBlockShared
    BY DEF Init, NoBlockShared
<1>5. Counted
    BY <1>1, <1>2, FS_EmptySet DEF Init, Counted
<1> QED BY <1>3, <1>4, <1>5 DEF PoolInv

(***************************************************************************)
(* Every call keeps the invariant, a call of Release provided the caller   *)
(* has the block.                                                          *)
(***************************************************************************)
LEMMA GetMemoryKeepsPoolInv ==
    ASSUME PoolInv, NEW b \in Block, GetMemory(b)
    PROVE  PoolInv' /\ b \notin held /\ held' = held \union {b}
<1> USE DEF PoolInv, TypeOK
<1>1. IsFiniteSet(held \union {b}) /\ Cardinality(held) \in Nat
    BY FS_AddElement, FS_CardinalityType
<1>2. b \notin held => Cardinality(held \union {b}) = Cardinality(held) + 1
    BY FS_AddElement
<1>3. CASE Reuse(b)
  <2>1. /\ b \in ToSet(blocks)
        /\ blocks' \in Seq(Block) /\ Len(blocks') = Len(blocks) - 1
        /\ ToSet(blocks') = ToSet(blocks) \ {b} /\ IsInjective(blocks')
      BY <1>3, PopProperties DEF Reuse, NoBlockShared
  <2>2. b \notin held /\ NoBlockShared'
      BY <1>3, <2>1 DEF Reuse, NoBlockShared
  <2>3. Counted'
      BY <1>1, <1>2, <1>3, <2>1, <2>2 DEF Reuse, Counted
  <2>4. TypeOK'
      BY <1>1, <1>3, <2>1 DEF Reuse
  <2> QED BY <1>3, <2>2, <2>3, <2>4 DEF Reuse
<1>4. CASE Grow(b)
  <2>1. b \notin held /\ b \notin ToSet(blocks)
      BY <1>4 DEF Grow, Live
  <2>2. NoBlockShared'
      BY <1>4, <2>1 DEF Grow, NoBlockShared
  <2>3. Counted'
      BY <1>1, <1>2, <1>4, <2>1 DEF Grow, Counted
  <2>4. TypeOK'
      BY <1>1, <1>4, PoolAssumption DEF Grow, MayAllocate
  <2> QED BY <1>4, <2>1, <2>2, <2>3, <2>4 DEF Grow
<1> QED BY <1>3, <1>4 DEF GetMemory

(* A failed allocation is counted, which only widens the gap in Counted.   *)
LEMMA BadAllocKeepsPoolInv ==
    ASSUME PoolInv, GetMemoryBadAlloc
    PROVE  PoolInv' /\ UNCHANGED held
<1>1. TypeOK'
    BY PoolAssumption DEF PoolInv, TypeOK, GetMemoryBadAlloc, MayAllocate
<1>2. NoBlockShared'
    BY DEF PoolInv, NoBlockShared, GetMemoryBadAlloc
<1>3. Cardinality(held) \in Nat
    BY FS_CardinalityType DEF PoolInv, TypeOK
<1>4. Counted'
    BY <1>3 DEF PoolInv, TypeOK, Counted, GetMemoryBadAlloc
<1> QED BY <1>1, <1>2, <1>4 DEF PoolInv, GetMemoryBadAlloc

(* A released block was with its caller only, so the vector may take it.   *)
LEMMA ReleaseKeepsPoolInv ==
    ASSUME PoolInv, NEW b \in held, Release(b)
    PROVE  PoolInv' /\ held' = held \ {b}
<1> USE DEF PoolInv, TypeOK
<1>1. /\ IsFiniteSet(held \ {b}) /\ Cardinality(held) \in Nat
      /\ Cardinality(held \ {b}) = Cardinality(held) - 1
    BY FS_RemoveElement, FS_CardinalityType
<1>2. b \in Block /\ b \notin ToSet(blocks)
    BY DEF NoBlockShared
<1>3. CASE Keep(b)
  <2>1. /\ blocks' \in Seq(Block) /\ Len(blocks') = Len(blocks) + 1
        /\ ToSet(blocks') = ToSet(blocks) \union {b} /\ IsInjective(blocks')
      BY <1>2, <1>3, PushProperties DEF Keep, NoBlockShared
  <2>2. NoBlockShared'
      BY <2>1 DEF Release, NoBlockShared
  <2>3. Counted'
      BY <1>1, <2>1 DEF Release, Counted
  <2> QED BY <1>1, <2>1, <2>2, <2>3 DEF Release
<1>4. CASE Drop
  <2>1. NoBlockShared'
      BY <1>4 DEF Drop, Release, NoBlockShared
  <2>2. Counted'
      BY <1>1, <1>4 DEF Drop, Release, Counted
  <2> QED BY <1>1, <1>4, <2>1, <2>2 DEF Drop, Release
<1> QED BY <1>3, <1>4 DEF Release

-----------------------------------------------------------------------------
(***************************************************************************)
(* PoolInv holds in every reachable state.                                 *)
(***************************************************************************)
THEOREM PoolInvariance == Spec => []PoolInv
<1>1. PoolInv /\ [Next]_poolVars => PoolInv'
  <2> SUFFICES ASSUME PoolInv, [Next]_poolVars PROVE PoolInv'
      OBVIOUS
  <2>1. CASE \E b \in Block : GetMemory(b)
      BY <2>1, GetMemoryKeepsPoolInv
  <2>2. CASE GetMemoryBadAlloc
      BY <2>2, BadAllocKeepsPoolInv
  <2>3. CASE \E b \in held : Release(b)
      BY <2>3, ReleaseKeepsPoolInv
  <2>4. CASE UNCHANGED poolVars
      BY <2>4 DEF PoolInv, TypeOK, NoBlockShared, Counted, poolVars
  <2> QED BY <2>1, <2>2, <2>3, <2>4 DEF Next, GetMemoryExhausted
<1> QED BY PoolInvInit, <1>1, PTL DEF Spec

(***************************************************************************)
(* The variables keep their types, and the count stays within the limit.   *)
(***************************************************************************)
THEOREM TypeCorrect == Spec => []TypeOK
<1>1. PoolInv => TypeOK
    BY DEF PoolInv
<1> QED BY PoolInvariance, <1>1, PTL

(***************************************************************************)
(* No block is ever with two callers, or with one and on the vector.       *)
(***************************************************************************)
THEOREM NeverShared == Spec => []NoBlockShared
<1>1. PoolInv => NoBlockShared
    BY DEF PoolInv
<1> QED BY PoolInvariance, <1>1, PTL

-----------------------------------------------------------------------------
(* To begin with the pool owns what it has pre-allocated.                  *)
LEMMA InitExact == Init => AllocatedIsExact
<1> SUFFICES ASSUME Init PROVE AllocatedIsExact
    OBVIOUS
<1>1. PreAlloc \in Nat /\ Cardinality(held) = 0
    BY PoolAssumption, FS_EmptySet DEF Init
<1>2. Len(blocks) = PreAlloc
    BY <1>1 DEF Init
<1> QED BY <1>1, <1>2 DEF Init, AllocatedIsExact

(***************************************************************************)
(* Where the heap does not fail, each call keeps _allocated exact.         *)
(***************************************************************************)
LEMMA PoolStepKeepsExact ==
    ASSUME ~HeapMayFail, PoolInv, AllocatedIsExact, [Next]_poolVars
    PROVE  AllocatedIsExact'
<1> USE DEF PoolInv, TypeOK, AllocatedIsExact
<1>1. Len(blocks) \in Nat /\ IsFiniteSet(held) /\ Cardinality(held) \in Nat
    BY FS_CardinalityType
<1>2. CASE \E b \in Block : GetMemory(b)
  <2>1. PICK b \in Block : GetMemory(b)
      BY <1>2
  <2>2. b \notin held /\ held' = held \union {b}
      BY <2>1, GetMemoryKeepsPoolInv
  <2>3. Cardinality(held') = Cardinality(held) + 1
      BY <1>1, <2>2, FS_AddElement
  <2>4. CASE Reuse(b)
    <3>1. Len(blocks') = Len(blocks) - 1 /\ allocated' = allocated
        BY <2>4, PopProperties DEF Reuse, NoBlockShared
    <3> QED BY <1>1, <2>3, <3>1
  <2>5. CASE Grow(b)
      BY <1>1, <2>3, <2>5 DEF Grow
  <2> QED BY <2>1, <2>4, <2>5 DEF GetMemory
<1>3. CASE \E b \in held : Release(b)
  <2>1. PICK b \in held : Release(b)
      BY <1>3
  <2>2. held' = held \ {b} /\ blocks' = Append(blocks, b) /\ allocated' = allocated
      BY <2>1 DEF Release, Keep, Drop
  <2>3. Cardinality(held') = Cardinality(held) - 1
      BY <1>1, <2>2, FS_RemoveElement
  <2>4. b \in Block /\ Len(blocks') = Len(blocks) + 1
      BY <2>2
  <2> QED BY <1>1, <2>2, <2>3, <2>4
<1>4. CASE UNCHANGED poolVars
    BY <1>4 DEF poolVars
<1> QED BY <1>2, <1>3, <1>4 DEF Next, GetMemoryBadAlloc, GetMemoryExhausted

(***************************************************************************)
(* What GetAllocatedBlocks returns is the number of blocks the pool owns,  *)
(* as its comment says, as long as operator new and push_back succeed.     *)
(***************************************************************************)
THEOREM ExactUnlessHeapFails == Spec => [](HeapMayFail \/ AllocatedIsExact)
<1>1. PoolInv /\ [Next]_poolVars /\ (HeapMayFail \/ AllocatedIsExact)
        => (HeapMayFail \/ AllocatedIsExact)'
    BY PoolStepKeepsExact
<1> QED BY InitExact, <1>1, PoolInvariance, PTL DEF Spec

(***************************************************************************)
(* The blocks the pool owns are those on the vector and those held, and no *)
(* block is both.                                                          *)
(***************************************************************************)
LEMMA LiveCardinality ==
    ASSUME PoolInv
    PROVE  /\ Len(blocks) \in Nat /\ Cardinality(held) \in Nat
           /\ Cardinality(Live) = Len(blocks) + Cardinality(held)
<1>1. IsFiniteSet(ToSet(blocks)) /\ Cardinality(ToSet(blocks)) = Len(blocks)
    BY VectorCardinality DEF PoolInv, TypeOK, NoBlockShared
<1>2. IsFiniteSet(held) /\ Cardinality(held) \in Nat /\ Len(blocks) \in Nat
    BY FS_CardinalityType DEF PoolInv, TypeOK
<1>3. Cardinality(ToSet(blocks) \cap held) = 0
    BY FS_EmptySet DEF PoolInv, NoBlockShared
<1>4. Cardinality(ToSet(blocks) \union held)
        = Cardinality(ToSet(blocks)) + Cardinality(held)
            - Cardinality(ToSet(blocks) \cap held)
    BY <1>1, <1>2, FS_Union
<1> QED BY <1>1, <1>2, <1>3, <1>4 DEF Live

(***************************************************************************)
(* The pool never owns more blocks than it counts, or than its limit.      *)
(***************************************************************************)
THEOREM LimitNeverExceeded == Spec => []LimitRespected
<1>1. PoolInv => LimitRespected
    BY LiveCardinality, PoolAssumption
       DEF PoolInv, TypeOK, Counted, LimitRespected
<1> QED BY PoolInvariance, <1>1, PTL

-----------------------------------------------------------------------------
(***************************************************************************)
(* Release fails to push a block only at the reserve.  If that is a limit  *)
(* below BLOCK_RESERVE, the pool would own more than its limit; otherwise  *)
(* it owns more than BLOCK_RESERVE blocks.                                 *)
(***************************************************************************)
LEMMA DropsOnlyBeyondReserve ==
    ASSUME PoolInv, NEW b \in held, Drop
    PROVE  Cardinality(Live) > BLOCK_RESERVE
<1>1. Cardinality(held) # 0
    BY FS_EmptySet DEF PoolInv, TypeOK
<1>2. Cardinality(Live) > Reserve
    BY <1>1, LiveCardinality, PoolAssumption DEF Drop, Reserve
<1>3. MaxAlloc > 0 => Cardinality(Live) <= MaxAlloc
    BY LiveCardinality, PoolAssumption DEF PoolInv, TypeOK, Counted
<1> QED BY <1>2, <1>3, LiveCardinality, PoolAssumption DEF Reserve

(***************************************************************************)
(* A pool that owns no more than BLOCK_RESERVE blocks loses none of them.  *)
(***************************************************************************)
THEOREM BlocksRetained == Spec => AllBlocksRetained
<1> DEFINE Retained == Cardinality(Live) <= BLOCK_RESERVE => (Live \subseteq Live')
<1>1. ASSUME PoolInv, [Next]_poolVars, Cardinality(Live) <= BLOCK_RESERVE
      PROVE  Live \subseteq Live'
  <2>1. CASE \E b \in Block : GetMemory(b)
    <3>1. PICK b \in Block : GetMemory(b)
        BY <2>1
    <3>2. CASE Reuse(b)
      <4>1. blocks # <<>> /\ b = Last(blocks) /\ ToSet(blocks') = ToSet(blocks) \ {b}
          BY <1>1, <3>2, PopProperties DEF Reuse, PoolInv, TypeOK, NoBlockShared
      <4> QED BY <3>2, <4>1 DEF Reuse, Live
    <3>3. CASE Grow(b)
        BY <3>3 DEF Grow, Live
    <3> QED BY <3>1, <3>2, <3>3 DEF GetMemory
  <2>2. CASE GetMemoryBadAlloc
      BY <2>2 DEF GetMemoryBadAlloc, Live
  <2>3. CASE \E b \in held : Release(b)
    <3>1. PICK b \in held : Release(b)
        BY <2>3
    <3>2. Keep(b)
      <4>1. CASE Drop
        <5>1. Cardinality(Live) > BLOCK_RESERVE
            BY <1>1, <4>1, DropsOnlyBeyondReserve
        <5> QED BY <1>1, <5>1, LiveCardinality, PoolAssumption
      <4> QED BY <3>1, <4>1 DEF Release
    <3>3. ToSet(blocks') = ToSet(blocks) \union {b}
        BY <1>1, <3>2, PushProperties DEF Keep, PoolInv, TypeOK
    <3> QED BY <3>1, <3>3 DEF Release, Live
  <2>4. CASE UNCHANGED poolVars
      BY <2>4 DEF poolVars, Live
  <2> QED BY <1>1, <2>1, <2>2, <2>3, <2>4 DEF Next, GetMemoryExhausted
<1>2. PoolInv /\ [Next]_poolVars => [Retained]_poolVars
    BY <1>1
<1>3. [][Retained]_poolVars => AllBlocksRetained
    BY PTL DEF AllBlocksRetained
<1> QED BY PoolInvariance, <1>2, <1>3, PTL DEF Spec

-----------------------------------------------------------------------------
(***************************************************************************)
(* The pool implements the abstract pool.  GetMemory is Take, Release is   *)
(* Give, and a call that fails is a stutter.                               *)
(***************************************************************************)
THEOREM RefinesBlockPool == Spec => ImplementsPool
<1>1. Init => Pool!Init
    BY DEF Init, Pool!Init
<1>2. ASSUME PoolInv, [Next]_poolVars PROVE [Pool!Next]_held
  <2>1. CASE \E b \in Block : GetMemory(b)
    <3>1. PICK b \in Block : GetMemory(b)
        BY <2>1
    <3>2. PoolInv' /\ b \notin held /\ held' = held \union {b}
        BY <1>2, <3>1, GetMemoryKeepsPoolInv
    <3>3. /\ Cardinality(held) \in Nat
          /\ Cardinality(held') = Cardinality(held) + 1
        BY <1>2, <3>2, FS_AddElement, FS_CardinalityType DEF PoolInv, TypeOK
    <3>4. MaxAlloc > 0 => Cardinality(held') <= MaxAlloc
        BY <3>2, <3>3, PoolAssumption DEF PoolInv, TypeOK, Counted
    <3>5. MaxAlloc > 0 => Cardinality(held) < MaxAlloc
        BY <3>3, <3>4, PoolAssumption
    <3>6. Pool!Cardinality(held) = Cardinality(held)
        BY DEF Pool!Cardinality, Cardinality
    <3> QED BY <3>2, <3>5, <3>6 DEF Pool!Next, Pool!Take
  <2>2. CASE GetMemoryBadAlloc
      BY <2>2 DEF GetMemoryBadAlloc
  <2>3. CASE \E b \in held : Release(b)
      BY <1>2, <2>3 DEF Release, Pool!Next, Pool!Give, PoolInv, TypeOK
  <2>4. CASE UNCHANGED poolVars
      BY <2>4 DEF poolVars
  <2> QED BY <1>2, <2>1, <2>2, <2>3, <2>4 DEF Next, GetMemoryExhausted
<1> QED BY PoolInvariance, <1>1, <1>2, PTL DEF Spec, ImplementsPool, Pool!Spec
===============================================================================
