-------------------------- MODULE ConcurrentHashMap --------------------------
(***************************************************************************)
(* Abstractions/ConcurrentHashMap.hpp: an array of buckets, each a linked  *)
(* list of nodes under a mutex that readers share.                         *)
(*                                                                         *)
(* A call is made, waits for the mutex of its bucket, walks the list one   *)
(* node at a time, and finishes and unlocks in one step.  Clear locks the  *)
(* buckets one after the other, not all at once; nobody sees inside the    *)
(* list while it is deleted.  The calls that hold the mutex of a bucket    *)
(* are the ones that walk it.                                              *)
(***************************************************************************)
EXTENDS Integers, FiniteSets

CONSTANTS
    Thread,
    Key,
    Value,
    Absent,     \* not a value
    Node,       \* the addresses operator new can return
    NULL,       \* nullptr
    Free,       \* what is at an address that is not allocated
    HashSize,   \* _hashSize
    Hash        \* _hashFn

ASSUME HashMapAssumption ==
    /\ Absent \notin Value
    /\ NULL \notin Node
    /\ Free \notin [key : Key, value : Value, next : Node \union {NULL}]
    /\ HashSize \in Nat \ {0}
    /\ Hash \in [Key -> Nat]

VARIABLES
    head,       \* _head of each bucket
    heap,       \* the node at each address, or Free
    pc,         \* each thread is idle, calling, walking or clearing
    call,       \* the operation of each thread with its arguments
    prev, node, \* the pointers of its walk
    bucket,     \* the index of its Clear
    answer      \* what its last Find returned

vars == <<head, heap, pc, call, prev, node, bucket, answer>>

Bucket == 0 .. HashSize - 1

BucketOf(k) == Hash[k] % HashSize

Live == {n \in Node : heap[n] # Free}

Idle == [op |-> "none"]

Calls ==
    [op : {"Find", "Erase"}, key : Key]
        \union [op : {"Insert"}, key : Key, value : Value]

Init ==
    /\ head = [b \in Bucket |-> NULL]
    /\ heap = [n \in Node |-> Free]
    /\ pc = [t \in Thread |-> "idle"]
    /\ call = [t \in Thread |-> Idle]
    /\ prev = [t \in Thread |-> NULL]
    /\ node = [t \in Thread |-> NULL]
    /\ bucket = [t \in Thread |-> 0]
    /\ answer = [t \in Thread |-> Absent]

-----------------------------------------------------------------------------
Call(t, c) ==
    /\ pc[t] = "idle"
    /\ pc' = [pc EXCEPT ![t] = "calling"]
    /\ call' = [call EXCEPT ![t] = c]
    /\ UNCHANGED <<head, heap, prev, node, bucket, answer>>

(***************************************************************************)
(* Find takes the mutex of its bucket shared, the others exclusively.      *)
(***************************************************************************)
Walkers(b) == {t \in Thread : pc[t] = "walking" /\ BucketOf(call[t].key) = b}

MayLockAlways(t) == TRUE    \* mutant: the mutex is not taken

MayLock(t) ==
    LET others == Walkers(BucketOf(call[t].key))
    IN  IF call[t].op = "Find"
        THEN \A u \in others : call[u].op = "Find"
        ELSE others = {}

Lock(t) ==
    /\ pc[t] = "calling"
    /\ MayLock(t)
    /\ pc' = [pc EXCEPT ![t] = "walking"]
    /\ prev' = [prev EXCEPT ![t] = NULL]
    /\ node' = [node EXCEPT ![t] = head[BucketOf(call[t].key)]]
    /\ UNCHANGED <<head, heap, call, bucket, answer>>

AtKey(t) == node[t] # NULL /\ heap[node[t]].key = call[t].key

Walk(t) ==
    /\ pc[t] = "walking"
    /\ node[t] # NULL
    /\ ~AtKey(t)
    /\ prev' = [prev EXCEPT ![t] = node[t]]
    /\ node' = [node EXCEPT ![t] = heap[node[t]].next]
    /\ UNCHANGED <<head, heap, pc, call, bucket, answer>>

-----------------------------------------------------------------------------
(***************************************************************************)
(* The end of a walk: the effect of the call, unlock, and return.          *)
(***************************************************************************)
Return(t) ==
    /\ pc' = [pc EXCEPT ![t] = "idle"]
    /\ call' = [call EXCEPT ![t] = Idle]
    /\ prev' = [prev EXCEPT ![t] = NULL]
    /\ node' = [node EXCEPT ![t] = NULL]
    /\ UNCHANGED bucket

AtEnd(t, op) ==
    /\ pc[t] = "walking"
    /\ call[t].op = op
    /\ node[t] = NULL \/ AtKey(t)

Find(t) ==
    /\ AtEnd(t, "Find")
    /\ answer' = [answer EXCEPT ![t] =
                    IF node[t] = NULL THEN Absent ELSE heap[node[t]].value]
    /\ Return(t)
    /\ UNCHANGED <<head, heap>>

(***************************************************************************)
(* prev's next, or the head of the list, becomes n.                        *)
(***************************************************************************)
Linked(t, h, n) ==
    IF prev[t] = NULL
    THEN heap' = h /\ head' = [head EXCEPT ![BucketOf(call[t].key)] = n]
    ELSE heap' = [h EXCEPT ![prev[t]].next = n] /\ UNCHANGED head

InsertAtHead(t) ==      \* mutant: a new node becomes the whole list
    /\ AtEnd(t, "Insert")
    /\ IF node[t] = NULL
       THEN \E n \in Node \ Live :
               /\ heap' = [heap EXCEPT ![n] = [key |-> call[t].key,
                                               value |-> call[t].value, next |-> NULL]]
               /\ head' = [head EXCEPT ![BucketOf(call[t].key)] = n]
       ELSE heap' = [heap EXCEPT ![node[t]].value = call[t].value] /\ UNCHANGED head
    /\ Return(t)
    /\ UNCHANGED answer

Insert(t) ==
    /\ AtEnd(t, "Insert")
    /\ IF node[t] = NULL
       THEN \E n \in Node \ Live :
               Linked(t, [heap EXCEPT ![n] = [key |-> call[t].key,
                                              value |-> call[t].value, next |-> NULL]], n)
       ELSE heap' = [heap EXCEPT ![node[t]].value = call[t].value] /\ UNCHANGED head
    /\ Return(t)
    /\ UNCHANGED answer

(***************************************************************************)
(* A key that is new needs a node, and new may throw: nothing is linked,   *)
(* and the mutex is released as the exception passes.                      *)
(***************************************************************************)
InsertThrows(t) ==
    /\ AtEnd(t, "Insert")
    /\ node[t] = NULL
    /\ Return(t)
    /\ UNCHANGED <<head, heap, answer>>

Erase(t) ==
    /\ AtEnd(t, "Erase")
    /\ IF node[t] = NULL
       THEN UNCHANGED <<head, heap>>
       ELSE Linked(t, [heap EXCEPT ![node[t]] = Free], heap[node[t]].next)
    /\ Return(t)
    /\ UNCHANGED answer

-----------------------------------------------------------------------------
(***************************************************************************)
(* Clear deletes the list of one bucket after the other.  What is on a     *)
(* list is the smallest set with its head and the next of each member.     *)
(***************************************************************************)
IsChain(S, b) ==
    /\ head[b] \in S \union {NULL}
    /\ \A n \in S \intersect Live : heap[n].next \in S \union {NULL}

OnList(b) == {n \in Node : \A S \in SUBSET Node : IsChain(S, b) => n \in S}

CallClear(t) ==
    /\ pc[t] = "idle"
    /\ pc' = [pc EXCEPT ![t] = "clearing"]
    /\ call' = [call EXCEPT ![t] = [op |-> "Clear"]]
    /\ bucket' = [bucket EXCEPT ![t] = 0]
    /\ UNCHANGED <<head, heap, prev, node, answer>>

ClearBucket(t) ==
    /\ pc[t] = "clearing"
    /\ bucket[t] \in Bucket
    /\ Walkers(bucket[t]) = {}
    /\ heap' = [n \in Node |-> IF n \in OnList(bucket[t]) THEN Free ELSE heap[n]]
    /\ head' = [head EXCEPT ![bucket[t]] = NULL]
    /\ bucket' = [bucket EXCEPT ![t] = @ + 1]
    /\ UNCHANGED <<pc, call, prev, node, answer>>

ClearedEarly(t) ==      \* mutant: the last bucket is left out
    /\ pc[t] = "clearing"
    /\ bucket[t] = HashSize - 1
    /\ pc' = [pc EXCEPT ![t] = "idle"]
    /\ call' = [call EXCEPT ![t] = Idle]
    /\ bucket' = [bucket EXCEPT ![t] = 0]
    /\ UNCHANGED <<head, heap, prev, node, answer>>

Cleared(t) ==
    /\ pc[t] = "clearing"
    /\ bucket[t] = HashSize
    /\ pc' = [pc EXCEPT ![t] = "idle"]
    /\ call' = [call EXCEPT ![t] = Idle]
    /\ bucket' = [bucket EXCEPT ![t] = 0]
    /\ UNCHANGED <<head, heap, prev, node, answer>>

-----------------------------------------------------------------------------
Finish(t) == Find(t) \/ Insert(t) \/ InsertThrows(t) \/ Erase(t)

Next ==
    \E t \in Thread :
        \/ \E c \in Calls : Call(t, c)
        \/ Lock(t)
        \/ Walk(t)
        \/ Finish(t)
        \/ CallClear(t)
        \/ ClearBucket(t)
        \/ Cleared(t)

Spec == Init /\ [][Next]_vars

-----------------------------------------------------------------------------
(***************************************************************************)
(* Properties.                                                             *)
(***************************************************************************)
Nodes == [key : Key, value : Value, next : Node \union {NULL}]

TypeOK ==
    /\ head \in [Bucket -> Node \union {NULL}]
    /\ heap \in [Node -> Nodes \union {Free}]
    /\ pc \in [Thread -> {"idle", "calling", "walking", "clearing"}]
    /\ call \in [Thread -> Calls \union {Idle, [op |-> "Clear"]}]
    /\ \A t \in Thread : /\ pc[t] = "idle" <=> call[t] = Idle
                         /\ pc[t] = "clearing" <=> call[t] = [op |-> "Clear"]
    /\ prev \in [Thread -> Node \union {NULL}]
    /\ node \in [Thread -> Node \union {NULL}]
    /\ bucket \in [Thread -> 0 .. HashSize]
    /\ answer \in [Thread -> Value \union {Absent}]

(***************************************************************************)
(* No thread stands on a node that another has deleted, and the node it    *)
(* came from still points to the one it is at.                             *)
(***************************************************************************)
NoDanglingPointer ==
    \A t \in Thread : pc[t] = "walking" =>
        /\ node[t] \in Live \union {NULL}
        /\ prev[t] \in Live \union {NULL}
        /\ node[t] = IF prev[t] = NULL THEN head[BucketOf(call[t].key)]
                                       ELSE heap[prev[t]].next

(***************************************************************************)
(* Every allocated node is on the list of the bucket its key hashes to,    *)
(* nothing else is on a list, every list comes to an end, so that a walk   *)
(* does, and no key is there twice.  The variables keep their types.       *)
(***************************************************************************)
BucketsWellFormed ==
    /\ TypeOK
    /\ \A b \in Bucket :
          /\ OnList(b) = {n \in Live : BucketOf(heap[n].key) = b}
          /\ OnList(b) # {} => \E n \in OnList(b) : heap[n].next = NULL
    /\ \A m, n \in Live : heap[m].key = heap[n].key => m = n

(***************************************************************************)
(* The map implements AtomicMap: a call takes effect as it unlocks.        *)
(***************************************************************************)
NodeOf(k) == {n \in Node : heap[n] # Free /\ heap[n].key = k}

Contents ==
    [k \in Key |-> IF NodeOf(k) = {} THEN Absent
                   ELSE heap[CHOOSE n \in NodeOf(k) : TRUE].value]

ToClear ==
    [t \in Thread |-> IF pc[t] = "clearing"
                      THEN {k \in Key : BucketOf(k) >= bucket[t]} ELSE {}]

TheMap ==
    INSTANCE AtomicMap WITH
        contents <- Contents, pending <- call, toClear <- ToClear, answer <- answer

ImplementsAtomicMap == TheMap!Spec
===============================================================================
