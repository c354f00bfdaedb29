----------------------- MODULE ConcurrentHashMapProofs -----------------------
(***************************************************************************)
(* Proofs about ConcurrentHashMap, for every set of threads, keys, values  *)
(* and addresses, every size of the table and every hash function.         *)
(*                                                                         *)
(* A list is what can be reached from its head.  The lemmas about Reach    *)
(* speak of two heaps, h and g, the one before and the one after a change, *)
(* and of no state; the invariant says that the lists are chained as they  *)
(* should be, that the mutex of a bucket excludes whom it should, and how  *)
(* far a walk has come.                                                    *)
(***************************************************************************)
EXTENDS ConcurrentHashMap, TLAPS

Heaps == [Node -> Nodes \union {Free}]

Chain(S, x, h) ==
    /\ x \in S \union {NULL}
    /\ \A n \in S : h[n] # Free => h[n].next \in S \union {NULL}

Reach(x, h) == {n \in Node : \A S \in SUBSET Node : Chain(S, x, h) => n \in S}

(***************************************************************************)
(* Two heaps with the same links between the nodes of S.                   *)
(***************************************************************************)
SameLinks(S, h, g) ==
    \A n \in S : /\ h[n] # Free <=> g[n] # Free
                 /\ h[n] # Free => h[n].next = g[n].next

-----------------------------------------------------------------------------
(***************************************************************************)
(* What can be reached.                                                    *)
(***************************************************************************)

(* The list of a bucket is what can be reached from its head.              *)
LEMMA OnListIsReach ==
    ASSUME NEW b \in Bucket
    PROVE  OnList(b) = Reach(head[b], heap)
<1>1. ASSUME NEW S \in SUBSET Node
      PROVE  IsChain(S, b) <=> Chain(S, head[b], heap)
    BY DEF IsChain, Chain, Live
<1> QED BY <1>1 DEF OnList, Reach

(* A chain from x holds all that x reaches.                                *)
LEMMA ReachWithin ==
    ASSUME NEW h, NEW x, NEW S \in SUBSET Node, Chain(S, x, h)
    PROVE  Reach(x, h) \subseteq S
BY DEF Reach

(* nullptr reaches nothing.                                                *)
LEMMA ReachNull ==
    ASSUME NEW h
    PROVE  Reach(NULL, h) = {}
<1>1. Chain({}, NULL, h)
    BY DEF Chain
<1> QED BY <1>1, ReachWithin

(* What x reaches is itself a chain from x.                                *)
LEMMA ReachIsChain ==
    ASSUME NEW h, NEW x \in Node \union {NULL}, h \in Heaps
    PROVE  Chain(Reach(x, h), x, h)
<1>1. x \in Reach(x, h) \union {NULL}
    BY DEF Reach, Chain
<1>2. ASSUME NEW n \in Reach(x, h), h[n] # Free, h[n].next # NULL
      PROVE  h[n].next \in Reach(x, h)
  <2>1. n \in Node /\ h[n].next \in Node
      BY <1>2 DEF Reach, Heaps, Nodes
  <2>2. ASSUME NEW S \in SUBSET Node, Chain(S, x, h)
        PROVE  h[n].next \in S
      BY <1>2, <2>2 DEF Reach, Chain
  <2> QED BY <2>1, <2>2 DEF Reach
<1> QED BY <1>1, <1>2 DEF Chain

(* A node reaches itself and what its successor reaches.                   *)
LEMMA ReachNext ==
    ASSUME NEW h \in Heaps, NEW x \in Node, h[x] # Free
    PROVE  Reach(x, h) = {x} \union Reach(h[x].next, h)
<1>0. h[x].next \in Node \union {NULL}
    BY DEF Heaps, Nodes
<1>1. Chain({x} \union Reach(h[x].next, h), x, h)
    BY <1>0, ReachIsChain DEF Chain
<1>2. Reach(x, h) \subseteq {x} \union Reach(h[x].next, h)
    BY <1>1, ReachWithin DEF Reach
<1>3. x \in Reach(x, h) /\ Chain(Reach(x, h), h[x].next, h)
    BY ReachIsChain, HashMapAssumption DEF Chain
<1>4. Reach(h[x].next, h) \subseteq Reach(x, h)
    BY <1>3, ReachWithin DEF Reach
<1> QED BY <1>2, <1>3, <1>4

(* A change of links elsewhere does not change what x reaches.             *)
LEMMA ReachFrame ==
    ASSUME NEW h \in Heaps, NEW g \in Heaps, NEW x \in Node \union {NULL},
           SameLinks(Reach(x, h), h, g)
    PROVE  Reach(x, g) = Reach(x, h)
<1>1. Chain(Reach(x, h), x, g)
    BY ReachIsChain DEF Chain, SameLinks
<1>2. Reach(x, g) \subseteq Reach(x, h)
    BY <1>1, ReachWithin DEF Reach
<1>3. ASSUME NEW S \in SUBSET Node, Chain(S, x, g)
      PROVE  Chain(S \intersect Reach(x, h), x, h)
    BY <1>3, ReachIsChain DEF Chain, SameLinks
<1>4. ASSUME NEW S \in SUBSET Node, Chain(S, x, g)
      PROVE  Reach(x, h) \subseteq S
    BY <1>3, <1>4, ReachWithin
<1>5. Reach(x, h) \subseteq Reach(x, g)
    BY <1>4 DEF Reach
<1> QED BY <1>2, <1>5
-----------------------------------------------------------------------------
(***************************************************************************)
(* Changes to one list.                                                    *)
(***************************************************************************)

(* No two allocated nodes of S share a successor.                          *)
NotShared(S, h) ==
    \A m, n \in S : h[m] # Free /\ h[n] # Free /\ h[m].next = h[n].next
                        => m = n \/ h[m].next = NULL

(* No allocated node of S has x for its successor.                         *)
NotSuccessor(S, x, h) ==
    \A n \in S : h[n] # Free /\ x # NULL => h[n].next # x

(* A node put behind the last one of a list joins the list.                *)
LEMMA AppendedToList ==
    ASSUME NEW h \in Heaps, NEW g \in Heaps, NEW x \in Node,
           NEW p \in Reach(x, h), NEW n \in Node \ Reach(x, h),
           h[p] # Free, h[p].next = NULL,
           g[p] # Free, g[p].next = n, g[n] # Free, g[n].next = NULL,
           SameLinks(Reach(x, h) \ {p}, h, g)
    PROVE  Reach(x, g) = Reach(x, h) \union {n}
<1> DEFINE R == Reach(x, h)
<1>1. R \subseteq Node /\ Chain(R, x, h)
    BY ReachIsChain DEF Reach
<1>2. Chain(R \union {n}, x, g)
    BY <1>1 DEF Chain, SameLinks
<1>3. Reach(x, g) \subseteq R \union {n}
    BY <1>1, <1>2, ReachWithin
<1>4. ASSUME NEW S \in SUBSET Node, Chain(S, x, g)
      PROVE  R \union {n} \subseteq S
  <2>1. Chain(S \intersect R, x, h)
      BY <1>1, <1>4 DEF Chain, SameLinks
  <2>2. R \subseteq S
      BY <2>1, ReachWithin
  <2> QED BY <2>2, <1>4, HashMapAssumption DEF Chain
<1>5. R \union {n} \subseteq Reach(x, g)
    BY <1>1, <1>4 DEF Reach
<1> QED BY <1>3, <1>5

(* No node that a head reaches is its own successor.                       *)
LEMMA NoSelfLoop ==
    ASSUME NEW h \in Heaps, NEW x \in Node, NEW n \in Reach(x, h), h[n] # Free,
           NotShared(Reach(x, h), h), NotSuccessor(Reach(x, h), x, h)
    PROVE  h[n].next # n
<1> SUFFICES ASSUME h[n].next = n PROVE FALSE
    OBVIOUS
<1> DEFINE R == Reach(x, h)
<1>1. R \subseteq Node /\ Chain(R, x, h)
    BY ReachIsChain DEF Reach
<1>2. n # x /\ n # NULL
    BY <1>1, HashMapAssumption DEF NotSuccessor
<1>3. Chain(R \ {n}, x, h)
    BY <1>1, <1>2 DEF Chain, NotShared
<1> QED BY <1>1, <1>3, ReachWithin

(* The first node of a list, deleted, leaves the rest of the list.         *)
LEMMA ErasedFromHead ==
    ASSUME NEW h \in Heaps, NEW g \in Heaps, NEW x \in Node, h[x] # Free,
           SameLinks(Reach(x, h) \ {x}, h, g),
           NotSuccessor(Reach(x, h), x, h)
    PROVE  Reach(h[x].next, g) = Reach(x, h) \ {x}
<1> DEFINE R == Reach(x, h)
           y == h[x].next
<1>1. R \subseteq Node /\ Chain(R, x, h) /\ x \in R /\ x # NULL
    BY ReachIsChain, HashMapAssumption DEF Reach, Chain
<1>2. y \in Node \union {NULL} /\ y # x
    BY <1>1 DEF Heaps, Nodes, NotSuccessor
<1>3. Chain(R \ {x}, y, h)
    BY <1>1, <1>2 DEF Chain, NotSuccessor
<1>4. Reach(y, h) \subseteq R \ {x}
    BY <1>1, <1>3, ReachWithin
<1>5. R = {x} \union Reach(y, h)
    BY ReachNext
<1>6. SameLinks(Reach(y, h), h, g)
    BY <1>4 DEF SameLinks
<1>7. Reach(y, g) = Reach(y, h)
    BY <1>2, <1>6, ReachFrame
<1> QED BY <1>4, <1>5, <1>7

(* A later node of a list, deleted, leaves the list without it.            *)
LEMMA ErasedBehind ==
    ASSUME NEW h \in Heaps, NEW g \in Heaps, NEW x \in Node,
           NEW p \in Reach(x, h), NEW n \in Reach(x, h),
           h[p] # Free, h[n] # Free, h[p].next = n,
           g[p] # Free, g[p].next = h[n].next,
           SameLinks(Reach(x, h) \ {p, n}, h, g),
           NotShared(Reach(x, h), h), NotSuccessor(Reach(x, h), x, h)
    PROVE  Reach(x, g) = Reach(x, h) \ {n}
<1> DEFINE R == Reach(x, h)
<1>1. R \subseteq Node /\ Chain(R, x, h) /\ n # NULL /\ x # NULL
    BY ReachIsChain, HashMapAssumption DEF Reach
<1>2. n # x /\ h[n].next # n /\ p # n
    BY <1>1, NoSelfLoop DEF NotSuccessor
<1>3. Chain(R \ {n}, x, g)
  <2>1. ASSUME NEW m \in R \ {n}, g[m] # Free
        PROVE  g[m].next \in (R \ {n}) \union {NULL}
      BY <1>1, <1>2, <2>1 DEF Chain, SameLinks, NotShared
  <2> QED BY <1>1, <1>2, <2>1 DEF Chain
<1>4. Reach(x, g) \subseteq R \ {n}
    BY <1>1, <1>3, ReachWithin
<1>5. ASSUME NEW S \in SUBSET Node, Chain(S, x, g)
      PROVE  R \ {n} \subseteq S
  <2>1. CASE p \in S
    <3>1. Chain((S \intersect R) \union {n}, x, h)
        BY <1>1, <1>2, <1>5, <2>1 DEF Chain, SameLinks
    <3> QED BY <1>1, <3>1, ReachWithin
  <2>2. CASE p \notin S
    <3>1. Chain((S \intersect R) \ {n}, x, h)
      <4>1. ASSUME NEW m \in (S \intersect R) \ {n}, h[m] # Free
            PROVE  h[m].next \in ((S \intersect R) \ {n}) \union {NULL}
        <5>1. h[m].next = g[m].next /\ g[m] # Free
            BY <2>2, <4>1 DEF SameLinks
        <5>2. h[m].next # n
            BY <1>1, <1>2, <2>2, <4>1 DEF NotShared
        <5> QED BY <1>1, <1>5, <4>1, <5>1, <5>2 DEF Chain
      <4> QED BY <1>1, <1>2, <1>5, <4>1 DEF Chain
    <3> QED BY <1>1, <3>1, ReachWithin
  <2> QED BY <2>1, <2>2
<1>6. R \ {n} \subseteq Reach(x, g)
    BY <1>1, <1>5 DEF Reach
<1> QED BY <1>4, <1>6
-----------------------------------------------------------------------------
(***************************************************************************)
(* The invariant.                                                          *)
(***************************************************************************)

(* Every list holds the allocated nodes of its bucket.                     *)
Owned(hd, h) ==
    \A b \in Bucket :
        Reach(hd[b], h) = {n \in Node : h[n] # Free /\ BucketOf(h[n].key) = b}

(* Every list comes to an end.                                             *)
Ended(hd, h) ==
    \A b \in Bucket : hd[b] # NULL =>
        \E n \in Reach(hd[b], h) : h[n] # Free /\ h[n].next = NULL

(* No key is in the map twice.                                             *)
OneOfAKey(h) ==
    \A m, n \in Node : h[m] # Free /\ h[n] # Free /\ h[m].key = h[n].key => m = n

(* Only one pointer leads to a node.                                       *)
OnePointer(hd, h) ==
    /\ NotShared(Node, h)
    /\ \A b \in Bucket : NotSuccessor(Node, hd[b], h)

Lists(hd, h) ==
    /\ Owned(hd, h)
    /\ Ended(hd, h)
    /\ OneOfAKey(h)
    /\ OnePointer(hd, h)

(* A walk for the key k along the list of x, which has come to n from p:   *)
(* a node of k, if there is one, is still before it.                       *)
Walked(x, h, k, p, n) ==
    /\ n \in Reach(x, h) \union {NULL}
    /\ p \in Reach(x, h) \union {NULL}
    /\ n = IF p = NULL THEN x ELSE h[p].next
    /\ \A m \in Reach(x, h) : h[m].key = k => m \in Reach(n, h)

Walking ==
    \A t \in Thread : pc[t] = "walking" =>
        Walked(head[BucketOf(call[t].key)], heap, call[t].key, prev[t], node[t])

(* Who walks a list with somebody else is reading it.                      *)
Exclusive ==
    \A t, u \in Thread :
        /\ t # u /\ pc[t] = "walking" /\ pc[u] = "walking"
        /\ BucketOf(call[t].key) = BucketOf(call[u].key)
        => call[t].op = "Find"

HashMapInv ==
    /\ TypeOK
    /\ Lists(head, heap)
    /\ Exclusive
    /\ Walking
-----------------------------------------------------------------------------
(***************************************************************************)
(* What the operations do to the lists.                                    *)
(***************************************************************************)

(* The lists of the other buckets are left alone.                          *)
OthersAlone(b, hd, h, kd, g) ==
    \A c \in Bucket \ {b} : /\ kd[c] = hd[c]
                            /\ \A n \in Reach(hd[c], h) : g[n] = h[n]

(* So what is reached in them, and from any node of them, stays.           *)
LEMMA OthersReach ==
    ASSUME NEW h \in Heaps, NEW g \in Heaps, NEW x \in Node \union {NULL},
           \A n \in Reach(x, h) : g[n] = h[n],
           NEW y \in Reach(x, h) \union {NULL}
    PROVE  Reach(y, g) = Reach(y, h)
<1>1. Chain(Reach(x, h), y, h) /\ y \in Node \union {NULL} /\ Reach(x, h) \subseteq Node
    BY ReachIsChain DEF Chain, Reach
<1>2. Reach(y, h) \subseteq Reach(x, h)
    BY <1>1, ReachWithin
<1>3. SameLinks(Reach(y, h), h, g)
    BY <1>2 DEF SameLinks
<1> QED BY <1>1, <1>3, ReachFrame

(* Keys hash to buckets.                                                   *)
LEMMA BucketOfType ==
    ASSUME NEW k \in Key
    PROVE  BucketOf(k) \in Bucket
BY HashMapAssumption DEF BucketOf, Bucket

(* The lists of the other buckets stay as they should be.                  *)
LEMMA OtherLists ==
    ASSUME NEW hd \in [Bucket -> Node \union {NULL}], NEW h \in Heaps, Lists(hd, h),
           NEW kd \in [Bucket -> Node \union {NULL}], NEW g \in Heaps,
           NEW b \in Bucket,
           OthersAlone(b, hd, h, kd, g),
           \A m \in Node : \/ g[m] = h[m]
                          \/ /\ h[m] # Free => BucketOf(h[m].key) = b
                             /\ g[m] # Free => BucketOf(g[m].key) = b,
           NEW c \in Bucket \ {b}
    PROVE  /\ Reach(kd[c], g) = {m \in Node : g[m] # Free /\ BucketOf(g[m].key) = c}
           /\ kd[c] # NULL => \E m \in Reach(kd[c], g) : g[m] # Free /\ g[m].next = NULL
<1>1. kd[c] = hd[c] /\ \A m \in Reach(hd[c], h) : g[m] = h[m]
    BY DEF OthersAlone
<1>2. Reach(kd[c], g) = Reach(hd[c], h)
  <2>1. SameLinks(Reach(hd[c], h), h, g)
      BY <1>1 DEF SameLinks
  <2> QED BY <1>1, <2>1, ReachFrame
<1>3. Reach(hd[c], h) = {m \in Node : h[m] # Free /\ BucketOf(h[m].key) = c}
    BY DEF Lists, Owned
<1>4. {m \in Node : g[m] # Free /\ BucketOf(g[m].key) = c}
        = {m \in Node : h[m] # Free /\ BucketOf(h[m].key) = c}
  <2>1. ASSUME NEW m \in Node
        PROVE  g[m] # Free /\ BucketOf(g[m].key) = c
                 <=> h[m] # Free /\ BucketOf(h[m].key) = c
    <3>1. CASE g[m] = h[m]
        BY <3>1
    <3>2. CASE /\ h[m] # Free => BucketOf(h[m].key) = b
               /\ g[m] # Free => BucketOf(g[m].key) = b
        BY <3>2
    <3> QED BY <3>1, <3>2
  <2> QED BY <2>1
<1>5. hd[c] # NULL => \E m \in Reach(hd[c], h) : h[m] # Free /\ h[m].next = NULL
    BY DEF Lists, Ended
<1> QED BY <1>1, <1>2, <1>3, <1>4, <1>5

(* A value is replaced.                                                    *)
LEMMA ReplacedValue ==
    ASSUME NEW hd \in [Bucket -> Node \union {NULL}], NEW h \in Heaps, Lists(hd, h),
           NEW g \in Heaps, NEW n \in Node, h[n] # Free,
           g[n] # Free, g[n].key = h[n].key, g[n].next = h[n].next,
           \A m \in Node \ {n} : g[m] = h[m]
    PROVE  Lists(hd, g) /\ OthersAlone(BucketOf(h[n].key), hd, h, hd, g)
<1>1. \A m \in Node : /\ h[m] # Free <=> g[m] # Free
                      /\ h[m] # Free => g[m].key = h[m].key /\ g[m].next = h[m].next
    OBVIOUS
<1>2. \A b \in Bucket : Reach(hd[b], g) = Reach(hd[b], h)
  <2> TAKE b \in Bucket
  <2>1. SameLinks(Reach(hd[b], h), h, g)
      BY <1>1 DEF SameLinks, Reach
  <2> QED BY <2>1, ReachFrame
<1>3. Owned(hd, g)
  <2> SUFFICES ASSUME NEW b \in Bucket
               PROVE  Reach(hd[b], g) = {m \in Node : g[m] # Free /\ BucketOf(g[m].key) = b}
      BY DEF Owned
  <2>1. Reach(hd[b], h) = {m \in Node : h[m] # Free /\ BucketOf(h[m].key) = b}
      BY DEF Lists, Owned
  <2>2. {m \in Node : g[m] # Free /\ BucketOf(g[m].key) = b}
          = {m \in Node : h[m] # Free /\ BucketOf(h[m].key) = b}
      BY <1>1
  <2> QED BY <1>2, <2>1, <2>2
<1>4. Ended(hd, g)
    BY <1>1, <1>2 DEF Ended, Lists, Reach
<1>5. OneOfAKey(g)
    BY <1>1 DEF OneOfAKey, Lists
<1>6. OnePointer(hd, g)
    BY <1>1 DEF OnePointer, NotShared, NotSuccessor, Lists
<1>7. OthersAlone(BucketOf(h[n].key), hd, h, hd, g)
    BY DEF OthersAlone, Lists, Owned
<1> QED BY <1>3, <1>4, <1>5, <1>6, <1>7 DEF Lists

(* A new node becomes the only one of its list.                            *)
LEMMA InsertedFirst ==
    ASSUME NEW hd \in [Bucket -> Node \union {NULL}], NEW h \in Heaps, Lists(hd, h),
           NEW kd \in [Bucket -> Node \union {NULL}], NEW g \in Heaps,
           NEW b \in Bucket, NEW n \in Node,
           hd[b] = NULL, h[n] = Free,
           kd[b] = n, \A c \in Bucket \ {b} : kd[c] = hd[c],
           g[n] # Free, BucketOf(g[n].key) = b, g[n].next = NULL,
           \A m \in Node : h[m] # Free => h[m].key # g[n].key,
           \A m \in Node \ {n} : g[m] = h[m]
    PROVE  Lists(kd, g) /\ OthersAlone(b, hd, h, kd, g)
<1>1. \A c \in Bucket : n \notin Reach(hd[c], h)
    BY DEF Lists, Owned
<1>2. OthersAlone(b, hd, h, kd, g)
    BY <1>1 DEF OthersAlone, Reach
<1>3. Reach(n, g) = {n}
  <2>1. Reach(n, g) = {n} \union Reach(NULL, g)
      BY ReachNext
  <2> QED BY <2>1, ReachNull
<1>4. \A m \in Node : h[m] # Free => BucketOf(h[m].key) # b
  <2>1. {m \in Node : h[m] # Free /\ BucketOf(h[m].key) = b} = {}
      BY ReachNull DEF Lists, Owned
  <2> QED BY <2>1
<1>5. ASSUME NEW c \in Bucket \ {b}
      PROVE  /\ Reach(kd[c], g) = {m \in Node : g[m] # Free /\ BucketOf(g[m].key) = c}
             /\ kd[c] # NULL => \E m \in Reach(kd[c], g) : g[m] # Free /\ g[m].next = NULL
  <2>1. \A m \in Node : \/ g[m] = h[m]
                       \/ /\ h[m] # Free => BucketOf(h[m].key) = b
                          /\ g[m] # Free => BucketOf(g[m].key) = b
      OBVIOUS
  <2> QED BY <1>2, <2>1, OtherLists
<1>6. Owned(kd, g)
  <2>1. {m \in Node : g[m] # Free /\ BucketOf(g[m].key) = b} = {n}
      BY <1>4
  <2> QED BY <1>3, <1>5, <2>1 DEF Owned
<1>7. Ended(kd, g)
    BY <1>3, <1>5 DEF Ended
<1>8. OneOfAKey(g)
    BY DEF OneOfAKey, Lists
<1>9. OnePointer(kd, g)
  <2>1. \A m \in Node : h[m] # Free => h[m].next # n
    <3> SUFFICES ASSUME NEW m \in Node, h[m] # Free, h[m].next = n PROVE FALSE
        OBVIOUS
    <3>1. h[m] \in Nodes
        BY DEF Heaps
    <3>2. BucketOf(h[m].key) \in Bucket
        BY <3>1, BucketOfType DEF Nodes
    <3>3. m \in Reach(hd[BucketOf(h[m].key)], h)
        BY <3>2 DEF Lists, Owned
    <3>4. n \in Reach(hd[BucketOf(h[m].key)], h)
        BY <3>2, <3>3, ReachIsChain, HashMapAssumption DEF Chain
    <3> QED BY <1>1, <3>2, <3>4
  <2>2. NotShared(Node, g)
      BY DEF NotShared, Lists, OnePointer
  <2>3. \A c \in Bucket : NotSuccessor(Node, kd[c], g)
      BY <2>1 DEF NotSuccessor, Lists, OnePointer
  <2> QED BY <2>2, <2>3 DEF OnePointer
<1> QED BY <1>2, <1>6, <1>7, <1>8, <1>9 DEF Lists
(* A new node comes behind the last one of its list.                       *)
LEMMA InsertedBehind ==
    ASSUME NEW hd \in [Bucket -> Node \union {NULL}], NEW h \in Heaps, Lists(hd, h),
           NEW g \in Heaps,
           NEW b \in Bucket, NEW p \in Reach(hd[b], h), NEW n \in Node,
           h[p].next = NULL, h[n] = Free,
           g[p] # Free, g[p].key = h[p].key, g[p].next = n,
           g[n] # Free, BucketOf(g[n].key) = b, g[n].next = NULL,
           \A m \in Node : h[m] # Free => h[m].key # g[n].key,
           \A m \in Node \ {n, p} : g[m] = h[m]
    PROVE  Lists(hd, g) /\ OthersAlone(b, hd, h, hd, g)
<1>1. \A c \in Bucket : n \notin Reach(hd[c], h)
    BY DEF Lists, Owned
<1>2. p \in Node /\ h[p] # Free /\ BucketOf(h[p].key) = b /\ hd[b] \in Node
  <2>1. p \in Node /\ h[p] # Free /\ BucketOf(h[p].key) = b
      BY DEF Lists, Owned
  <2>2. hd[b] # NULL
      BY ReachNull
  <2> QED BY <2>1, <2>2
<1>3. OthersAlone(b, hd, h, hd, g)
  <2>1. \A c \in Bucket \ {b} : p \notin Reach(hd[c], h)
      BY <1>2 DEF Lists, Owned
  <2> QED BY <1>1, <2>1 DEF OthersAlone, Reach
<1>4. Reach(hd[b], g) = Reach(hd[b], h) \union {n}
  <2>1. SameLinks(Reach(hd[b], h) \ {p}, h, g)
      BY <1>1 DEF SameLinks, Reach
  <2>2. n \in Node \ Reach(hd[b], h)
      BY <1>1
  <2>3. ASSUME NEW x \in Node, x = hd[b]
        PROVE  Reach(x, g) = Reach(x, h) \union {n}
      BY <1>2, <2>1, <2>2, <2>3, AppendedToList
  <2> QED BY <1>2, <2>3
<1>5. ASSUME NEW c \in Bucket \ {b}
      PROVE  /\ Reach(hd[c], g) = {m \in Node : g[m] # Free /\ BucketOf(g[m].key) = c}
             /\ hd[c] # NULL => \E m \in Reach(hd[c], g) : g[m] # Free /\ g[m].next = NULL
  <2>1. \A m \in Node : \/ g[m] = h[m]
                       \/ /\ h[m] # Free => BucketOf(h[m].key) = b
                          /\ g[m] # Free => BucketOf(g[m].key) = b
      BY <1>2
  <2> QED BY <1>3, <2>1, OtherLists
<1>6. Owned(hd, g)
  <2>1. {m \in Node : g[m] # Free /\ BucketOf(g[m].key) = b}
          = {m \in Node : h[m] # Free /\ BucketOf(h[m].key) = b} \union {n}
    <3>1. ASSUME NEW m \in Node \ {n}
          PROVE  g[m] # Free /\ BucketOf(g[m].key) = b
                   <=> h[m] # Free /\ BucketOf(h[m].key) = b
        BY <1>2
    <3> QED BY <3>1
  <2>2. Reach(hd[b], h) = {m \in Node : h[m] # Free /\ BucketOf(h[m].key) = b}
      BY DEF Lists, Owned
  <2> QED BY <1>4, <1>5, <2>1, <2>2 DEF Owned
<1>7. Ended(hd, g)
    BY <1>4, <1>5 DEF Ended
<1>8. OneOfAKey(g)
    BY <1>2 DEF OneOfAKey, Lists
<1>9. OnePointer(hd, g)
  <2>1. \A m \in Node : h[m] # Free => h[m].next # n
    <3> SUFFICES ASSUME NEW m \in Node, h[m] # Free, h[m].next = n PROVE FALSE
        OBVIOUS
    <3>1. h[m] \in Nodes
        BY DEF Heaps
    <3>2. BucketOf(h[m].key) \in Bucket
        BY <3>1, BucketOfType DEF Nodes
    <3>3. m \in Reach(hd[BucketOf(h[m].key)], h)
        BY <3>2 DEF Lists, Owned
    <3>4. n \in Reach(hd[BucketOf(h[m].key)], h)
        BY <3>2, <3>3, ReachIsChain, HashMapAssumption DEF Chain
    <3> QED BY <1>1, <3>2, <3>4
  <2>2. NotShared(Node, g)
      BY <1>2, <2>1 DEF NotShared, Lists, OnePointer
  <2>3. ASSUME NEW c \in Bucket
        PROVE  NotSuccessor(Node, hd[c], g)
    <3>1. hd[c] # n
        BY <1>1, ReachIsChain, HashMapAssumption DEF Chain
    <3> QED BY <1>2, <3>1, HashMapAssumption DEF NotSuccessor, Lists, OnePointer
  <2> QED BY <2>2, <2>3 DEF OnePointer
<1> QED BY <1>3, <1>6, <1>7, <1>8, <1>9 DEF Lists

(* The first node of a list is deleted.                                    *)
LEMMA ErasedFirst ==
    ASSUME NEW hd \in [Bucket -> Node \union {NULL}], NEW h \in Heaps, Lists(hd, h),
           NEW kd \in [Bucket -> Node \union {NULL}], NEW g \in Heaps,
           NEW b \in Bucket, NEW n \in Node,
           hd[b] = n,
           kd[b] = h[n].next, \A c \in Bucket \ {b} : kd[c] = hd[c],
           g[n] = Free,
           \A m \in Node \ {n} : g[m] = h[m]
    PROVE  Lists(kd, g) /\ OthersAlone(b, hd, h, kd, g)
<1>1. n \in Reach(n, h)
    BY ReachIsChain, HashMapAssumption DEF Chain
<1>2. h[n] # Free /\ BucketOf(h[n].key) = b
    BY <1>1 DEF Lists, Owned
<1>3. OthersAlone(b, hd, h, kd, g)
  <2>1. \A c \in Bucket \ {b} : n \notin Reach(hd[c], h)
      BY <1>2 DEF Lists, Owned
  <2> QED BY <2>1 DEF OthersAlone, Reach
<1>4. Reach(kd[b], g) = Reach(n, h) \ {n}
  <2>1. SameLinks(Reach(n, h) \ {n}, h, g)
      BY DEF SameLinks, Reach
  <2>2. NotSuccessor(Reach(n, h), n, h)
      BY DEF NotSuccessor, Lists, OnePointer, Reach
  <2> QED BY <1>2, <2>1, <2>2, ErasedFromHead
<1>5. ASSUME NEW c \in Bucket \ {b}
      PROVE  /\ Reach(kd[c], g) = {m \in Node : g[m] # Free /\ BucketOf(g[m].key) = c}
             /\ kd[c] # NULL => \E m \in Reach(kd[c], g) : g[m] # Free /\ g[m].next = NULL
  <2>1. \A m \in Node : \/ g[m] = h[m]
                       \/ /\ h[m] # Free => BucketOf(h[m].key) = b
                          /\ g[m] # Free => BucketOf(g[m].key) = b
      BY <1>2
  <2> QED BY <1>3, <2>1, OtherLists
<1>6. Owned(kd, g)
  <2>1. {m \in Node : g[m] # Free /\ BucketOf(g[m].key) = b}
          = {m \in Node : h[m] # Free /\ BucketOf(h[m].key) = b} \ {n}
      OBVIOUS
  <2>2. Reach(n, h) = {m \in Node : h[m] # Free /\ BucketOf(h[m].key) = b}
      BY DEF Lists, Owned
  <2> QED BY <1>4, <1>5, <2>1, <2>2 DEF Owned
<1>7. Ended(kd, g)
  <2>1. ASSUME kd[b] # NULL
        PROVE  \E m \in Reach(kd[b], g) : g[m] # Free /\ g[m].next = NULL
    <3>1. PICK m \in Reach(n, h) : h[m] # Free /\ h[m].next = NULL
        BY HashMapAssumption DEF Lists, Ended
    <3> QED BY <1>4, <2>1, <3>1 DEF Reach
  <2> QED BY <1>5, <2>1 DEF Ended
<1>8. OneOfAKey(g)
    BY DEF OneOfAKey, Lists
<1>9. OnePointer(kd, g)
  <2>1. NotShared(Node, g)
      BY DEF NotShared, Lists, OnePointer
  <2>2. NotSuccessor(Node, kd[b], g)
      BY <1>2 DEF NotShared, NotSuccessor, Lists, OnePointer
  <2>3. ASSUME NEW c \in Bucket \ {b}
        PROVE  NotSuccessor(Node, kd[c], g)
      BY DEF NotSuccessor, Lists, OnePointer
  <2> QED BY <2>1, <2>2, <2>3 DEF OnePointer
<1> QED BY <1>3, <1>6, <1>7, <1>8, <1>9 DEF Lists

(* A later node of a list is deleted.                                      *)
LEMMA ErasedLater ==
    ASSUME NEW hd \in [Bucket -> Node \union {NULL}], NEW h \in Heaps, Lists(hd, h),
           NEW g \in Heaps,
           NEW b \in Bucket, NEW p \in Reach(hd[b], h), NEW n \in Reach(hd[b], h),
           h[p].next = n,
           g[p] # Free, g[p].key = h[p].key, g[p].next = h[n].next,
           g[n] = Free,
           \A m \in Node \ {n, p} : g[m] = h[m]
    PROVE  Lists(hd, g) /\ OthersAlone(b, hd, h, hd, g)
<1>1. /\ p \in Node /\ h[p] # Free /\ BucketOf(h[p].key) = b
      /\ n \in Node /\ h[n] # Free /\ BucketOf(h[n].key) = b
      /\ n # p
    BY DEF Lists, Owned
<1>2. hd[b] \in Node
    BY ReachNull
<1>3. OthersAlone(b, hd, h, hd, g)
  <2>1. \A c \in Bucket \ {b} : n \notin Reach(hd[c], h) /\ p \notin Reach(hd[c], h)
      BY <1>1 DEF Lists, Owned
  <2> QED BY <2>1 DEF OthersAlone, Reach
<1>4. Reach(hd[b], g) = Reach(hd[b], h) \ {n}
  <2>1. SameLinks(Reach(hd[b], h) \ {p, n}, h, g)
      BY DEF SameLinks, Reach
  <2>2. NotSuccessor(Reach(hd[b], h), hd[b], h)
      BY DEF NotSuccessor, Lists, OnePointer, Reach
  <2>3. NotShared(Reach(hd[b], h), h)
      BY DEF NotShared, Lists, OnePointer, Reach
  <2> QED BY <1>1, <1>2, <2>1, <2>2, <2>3, ErasedBehind
<1>5. ASSUME NEW c \in Bucket \ {b}
      PROVE  /\ Reach(hd[c], g) = {m \in Node : g[m] # Free /\ BucketOf(g[m].key) = c}
             /\ hd[c] # NULL => \E m \in Reach(hd[c], g) : g[m] # Free /\ g[m].next = NULL
  <2>1. \A m \in Node : \/ g[m] = h[m]
                       \/ /\ h[m] # Free => BucketOf(h[m].key) = b
                          /\ g[m] # Free => BucketOf(g[m].key) = b
      BY <1>1
  <2> QED BY <1>3, <2>1, OtherLists
<1>6. Owned(hd, g)
  <2>1. {m \in Node : g[m] # Free /\ BucketOf(g[m].key) = b}
          = {m \in Node : h[m] # Free /\ BucketOf(h[m].key) = b} \ {n}
    <3>1. ASSUME NEW m \in Node \ {n}
          PROVE  g[m] # Free /\ BucketOf(g[m].key) = b
                   <=> h[m] # Free /\ BucketOf(h[m].key) = b
        BY <1>1
    <3> QED BY <3>1
  <2>2. Reach(hd[b], h) = {m \in Node : h[m] # Free /\ BucketOf(h[m].key) = b}
      BY DEF Lists, Owned
  <2> QED BY <1>4, <1>5, <2>1, <2>2 DEF Owned
<1>7. Ended(hd, g)
  <2>1. \E m \in Reach(hd[b], g) : g[m] # Free /\ g[m].next = NULL
    <3>1. PICK m \in Reach(hd[b], h) : h[m] # Free /\ h[m].next = NULL
        BY <1>2, HashMapAssumption DEF Lists, Ended
    <3>2. CASE m = n
        BY <1>1, <1>4, <3>1, <3>2
    <3>3. CASE m # n
        BY <1>1, <1>4, <3>1, <3>3, HashMapAssumption DEF Reach
    <3> QED BY <3>2, <3>3
  <2> QED BY <1>5, <2>1 DEF Ended
<1>8. OneOfAKey(g)
    BY <1>1 DEF OneOfAKey, Lists
<1>9. OnePointer(hd, g)
  <2>1. NotShared(Node, g)
      BY <1>1 DEF NotShared, Lists, OnePointer
  <2>2. ASSUME NEW c \in Bucket
        PROVE  NotSuccessor(Node, hd[c], g)
      BY <1>1 DEF NotSuccessor, Lists, OnePointer
  <2> QED BY <2>1, <2>2 DEF OnePointer
<1> QED BY <1>3, <1>6, <1>7, <1>8, <1>9 DEF Lists

(* The nodes of a list are deleted.                                        *)
LEMMA ErasedAll ==
    ASSUME NEW hd \in [Bucket -> Node \union {NULL}], NEW h \in Heaps, Lists(hd, h),
           NEW kd \in [Bucket -> Node \union {NULL}], NEW g \in Heaps,
           NEW b \in Bucket,
           kd[b] = NULL, \A c \in Bucket \ {b} : kd[c] = hd[c],
           \A m \in Node : g[m] = IF m \in Reach(hd[b], h) THEN Free ELSE h[m]
    PROVE  Lists(kd, g) /\ OthersAlone(b, hd, h, kd, g)
<1>1. \A m \in Node : m \in Reach(hd[b], h) <=> h[m] # Free /\ BucketOf(h[m].key) = b
    BY DEF Lists, Owned
<1>2. OthersAlone(b, hd, h, kd, g)
    BY <1>1 DEF OthersAlone, Lists, Owned
<1>3. ASSUME NEW c \in Bucket \ {b}
      PROVE  /\ Reach(kd[c], g) = {m \in Node : g[m] # Free /\ BucketOf(g[m].key) = c}
             /\ kd[c] # NULL => \E m \in Reach(kd[c], g) : g[m] # Free /\ g[m].next = NULL
  <2>1. \A m \in Node : \/ g[m] = h[m]
                       \/ /\ h[m] # Free => BucketOf(h[m].key) = b
                          /\ g[m] # Free => BucketOf(g[m].key) = b
      BY <1>1
  <2> QED BY <1>2, <2>1, OtherLists
<1>4. Owned(kd, g)
  <2>1. {m \in Node : g[m] # Free /\ BucketOf(g[m].key) = b} = {}
      BY <1>1
  <2> QED BY <1>3, <2>1, ReachNull DEF Owned
<1>5. Ended(kd, g)
    BY <1>3 DEF Ended
<1>6. OneOfAKey(g)
    BY DEF OneOfAKey, Lists
<1>7. OnePointer(kd, g)
    BY DEF OnePointer, NotShared, NotSuccessor, Lists
<1> QED BY <1>2, <1>4, <1>5, <1>6, <1>7 DEF Lists
-----------------------------------------------------------------------------
(***************************************************************************)
(* What an operation leaves of the nodes with other keys than its own.     *)
(***************************************************************************)
SameItems(k, h, g) ==
    \A m \in Node :
        /\ h[m] # Free /\ h[m].key # k =>
              g[m] # Free /\ g[m].key = h[m].key /\ g[m].value = h[m].value
        /\ g[m] # Free /\ g[m].key # k => h[m] # Free /\ h[m].key = g[m].key

(* Nodes that are made, and nodes with one field assigned.                 *)
LEMMA NodeValues ==
    /\ \A k \in Key, v \in Value :
          LET r == [key |-> k, value |-> v, next |-> NULL]
          IN  r \in Nodes /\ r # Free /\ r.key = k /\ r.value = v /\ r.next = NULL
    /\ \A q \in Nodes, n \in Node \union {NULL} :
          LET r == [q EXCEPT !.next = n]
          IN  r \in Nodes /\ r # Free /\ r.key = q.key /\ r.value = q.value /\ r.next = n
    /\ \A q \in Nodes, v \in Value :
          LET r == [q EXCEPT !.value = v]
          IN  r \in Nodes /\ r # Free /\ r.key = q.key /\ r.value = v /\ r.next = q.next
BY HashMapAssumption DEF Nodes

(* A thread that waits or walks has a call with arguments.                 *)
LEMMA InCall ==
    ASSUME TypeOK, NEW t \in Thread, pc[t] \in {"calling", "walking"}
    PROVE  /\ call[t] \in Calls
           /\ call[t].key \in Key
           /\ call[t].op \in {"Find", "Erase", "Insert"}
           /\ call[t].op = "Insert" => call[t].value \in Value
           /\ BucketOf(call[t].key) \in Bucket
<1>1. call[t] \in Calls
    BY DEF TypeOK
<1>2. /\ call[t].key \in Key
      /\ call[t].op \in {"Find", "Erase", "Insert"}
      /\ call[t].op = "Insert" => call[t].value \in Value
    BY <1>1 DEF Calls
<1> QED BY <1>1, <1>2, BucketOfType

(* Where a walk is.                                                        *)
LEMMA WalkAt ==
    ASSUME HashMapInv, NEW t \in Thread, pc[t] = "walking",
           NEW b \in Bucket, b = BucketOf(call[t].key)
    PROVE  /\ node[t] # NULL => /\ node[t] \in Reach(head[b], heap)
                                /\ node[t] \in Node /\ heap[node[t]] # Free
           /\ prev[t] # NULL => /\ prev[t] \in Reach(head[b], heap)
                                /\ prev[t] \in Node /\ heap[prev[t]] # Free
           /\ prev[t] = NULL => node[t] = head[b]
           /\ prev[t] # NULL => node[t] = heap[prev[t]].next
           /\ \A m \in Node : heap[m] # Free /\ heap[m].key = call[t].key =>
                 m \in Reach(head[b], heap) /\ m \in Reach(node[t], heap)
<1>1. Walked(head[b], heap, call[t].key, prev[t], node[t])
    BY DEF HashMapInv, Walking
<1>2. \A m \in Node : m \in Reach(head[b], heap) <=>
                          heap[m] # Free /\ BucketOf(heap[m].key) = b
    BY DEF HashMapInv, Lists, Owned
<1> QED BY <1>1, <1>2 DEF Walked, Reach

(* A walk that has come to nullptr has not missed a node of its key.       *)
LEMMA NotThere ==
    ASSUME HashMapInv, NEW t \in Thread, pc[t] = "walking", node[t] = NULL,
           NEW m \in Node, heap[m] # Free
    PROVE  heap[m].key # call[t].key
<1>1. BucketOf(call[t].key) \in Bucket
    BY InCall DEF HashMapInv
<1> QED BY <1>1, WalkAt, ReachNull

(* What Insert does.                                                       *)
LEMMA InsertStep ==
    ASSUME HashMapInv, NEW t \in Thread, Insert(t)
    PROVE  /\ head' \in [Bucket -> Node \union {NULL}] /\ heap' \in Heaps
           /\ Lists(head', heap')
           /\ OthersAlone(BucketOf(call[t].key), head, heap, head', heap')
           /\ SameItems(call[t].key, heap, heap')
           /\ \E n \in Node : /\ heap'[n] # Free
                              /\ heap'[n].key = call[t].key
                              /\ heap'[n].value = call[t].value
<1> DEFINE b == BucketOf(call[t].key)
           k == call[t].key
           v == call[t].value
<1>1. /\ pc[t] = "walking" /\ k \in Key /\ v \in Value /\ b \in Bucket
      /\ head \in [Bucket -> Node \union {NULL}] /\ heap \in Heaps
      /\ Lists(head, heap)
    BY InCall DEF Insert, AtEnd, HashMapInv, TypeOK, Heaps
<1>2. CASE node[t] = NULL
  <2>1. PICK n \in Node \ Live :
            Linked(t, [heap EXCEPT ![n] = [key |-> k, value |-> v, next |-> NULL]], n)
      BY <1>2 DEF Insert
  <2> DEFINE h == [heap EXCEPT ![n] = [key |-> k, value |-> v, next |-> NULL]]
  <2>2. /\ h \in Heaps
        /\ h[n] # Free /\ h[n].key = k /\ h[n].value = v /\ h[n].next = NULL
        /\ \A m \in Node \ {n} : h[m] = heap[m]
    <3> DEFINE r == [key |-> k, value |-> v, next |-> NULL]
    <3>1. r \in Nodes /\ r # Free /\ r.key = k /\ r.value = v /\ r.next = NULL
        BY <1>1, NodeValues
    <3>2. h = [heap EXCEPT ![n] = r]
        OBVIOUS
    <3> HIDE DEF r, h
    <3> QED BY <1>1, <3>1, <3>2 DEF Heaps
  <2>3. Linked(t, h, n)
      BY <2>1
  <2> HIDE DEF h, k, v
  <2>4. n \in Node /\ heap[n] = Free
      BY DEF Live
  <2>5. \A m \in Node : heap[m] # Free => heap[m].key # k
      BY <1>1, <1>2, NotThere DEF k
  <2>6. CASE prev[t] = NULL
    <3>1. heap' = h /\ head' = [head EXCEPT ![b] = n]
        BY <2>3, <2>6 DEF Linked
    <3>2. head[b] = NULL
        BY <1>1, <1>2, <2>6, WalkAt
    <3>3. Lists(head', heap') /\ OthersAlone(b, head, heap, head', heap')
      <4>1. BucketOf(h[n].key) = b
          BY <2>2 DEF k
      <4> HIDE DEF b
      <4>2. /\ head' \in [Bucket -> Node \union {NULL}] /\ head'[b] = n
            /\ \A c \in Bucket \ {b} : head'[c] = head[c]
          BY <1>1, <2>4, <3>1
      <4>3. Lists(head', h) /\ OthersAlone(b, head, heap, head', h)
          BY <1>1, <2>2, <2>4, <2>5, <3>2, <4>1, <4>2, InsertedFirst
      <4> QED BY <3>1, <4>3
    <3>4. SameItems(k, heap, heap')
        BY <2>2, <2>4, <3>1 DEF SameItems
    <3> QED BY <1>1, <2>2, <2>4, <3>1, <3>3, <3>4 DEF k, v
  <2>7. CASE prev[t] # NULL
    <3> DEFINE p == prev[t]
    <3>1. heap' = [h EXCEPT ![p].next = n] /\ head' = head
        BY <2>3, <2>7 DEF Linked
    <3>2. p \in Reach(head[b], heap) /\ p \in Node /\ heap[p] # Free /\ heap[p].next = NULL
        BY <1>1, <1>2, <2>7, WalkAt
    <3>3. p # n /\ h[p] = heap[p]
        BY <2>2, <2>4, <3>2
    <3>4. /\ heap' \in Heaps
          /\ heap'[p] # Free /\ heap'[p].key = heap[p].key /\ heap'[p].value = heap[p].value
          /\ heap'[p].next = n
          /\ \A m \in Node \ {p} : heap'[m] = h[m]
      <4> DEFINE r == [h[p] EXCEPT !.next = n]
      <4>1. h[p] \in Nodes
          BY <2>2, <3>2, <3>3 DEF Heaps
      <4>2. /\ r \in Nodes /\ r # Free /\ r.key = h[p].key
            /\ r.value = h[p].value /\ r.next = n
          BY <2>4, <4>1, NodeValues
      <4>3. heap' = [h EXCEPT ![p] = r]
          BY <3>1
      <4> HIDE DEF r
      <4> QED BY <2>2, <3>2, <3>3, <4>2, <4>3 DEF Heaps
    <3> HIDE DEF p
    <3>5. /\ heap'[n] = h[n]
          /\ \A m \in Node \ {n, p} : heap'[m] = heap[m]
        BY <2>2, <2>4, <3>3, <3>4
    <3>6. Lists(head, heap') /\ OthersAlone(b, head, heap, head, heap')
      <4>1. BucketOf(heap'[n].key) = b
          BY <2>2, <3>5 DEF k
      <4> HIDE DEF b
      <4> QED BY <1>1, <2>2, <2>4, <2>5, <3>2, <3>4, <3>5, <4>1, InsertedBehind
    <3>7. SameItems(k, heap, heap')
        BY <2>2, <2>4, <3>2, <3>4, <3>5 DEF SameItems
    <3> QED BY <1>1, <2>2, <2>4, <3>1, <3>4, <3>5, <3>6, <3>7 DEF k, v
  <2> QED BY <2>6, <2>7
<1>3. CASE node[t] # NULL
  <2> DEFINE n == node[t]
  <2>1. heap' = [heap EXCEPT ![n].value = v] /\ head' = head
      BY <1>3 DEF Insert
  <2>2. n \in Node /\ heap[n] # Free /\ heap[n].key = k
      BY <1>1, <1>3, WalkAt DEF Insert, AtEnd, AtKey
  <2> HIDE DEF n, k, v
  <2>3. /\ heap' \in Heaps
        /\ heap'[n] # Free /\ heap'[n].key = k /\ heap'[n].value = v
        /\ heap'[n].next = heap[n].next
        /\ \A m \in Node \ {n} : heap'[m] = heap[m]
    <3> DEFINE r == [heap[n] EXCEPT !.value = v]
    <3>1. heap[n] \in Nodes
        BY <1>1, <2>2 DEF Heaps
    <3>2. r \in Nodes /\ r # Free /\ r.key = heap[n].key /\ r.value = v /\ r.next = heap[n].next
        BY <1>1, <3>1, NodeValues DEF v
    <3>3. heap' = [heap EXCEPT ![n] = r]
        BY <2>1
    <3> HIDE DEF r
    <3> QED BY <1>1, <2>2, <3>2, <3>3 DEF Heaps
  <2>4. Lists(head, heap') /\ OthersAlone(b, head, heap, head, heap')
    <3>1. BucketOf(heap[n].key) = b
        BY <2>2 DEF k
    <3> HIDE DEF b
    <3> QED BY <1>1, <2>2, <2>3, <3>1, ReplacedValue
  <2>5. SameItems(k, heap, heap')
      BY <2>2, <2>3 DEF SameItems
  <2> QED BY <1>1, <2>1, <2>2, <2>3, <2>4, <2>5 DEF k, v
<1> QED BY <1>2, <1>3
(* What Erase does.                                                        *)
LEMMA EraseStep ==
    ASSUME HashMapInv, NEW t \in Thread, Erase(t)
    PROVE  /\ head' \in [Bucket -> Node \union {NULL}] /\ heap' \in Heaps
           /\ Lists(head', heap')
           /\ OthersAlone(BucketOf(call[t].key), head, heap, head', heap')
           /\ SameItems(call[t].key, heap, heap')
           /\ \A n \in Node : heap'[n] # Free => heap'[n].key # call[t].key
<1> DEFINE b == BucketOf(call[t].key)
           k == call[t].key
<1>1. /\ pc[t] = "walking" /\ k \in Key /\ b \in Bucket
      /\ head \in [Bucket -> Node \union {NULL}] /\ heap \in Heaps
      /\ Lists(head, heap)
    BY InCall DEF Erase, AtEnd, HashMapInv, TypeOK, Heaps
<1>2. CASE node[t] = NULL
  <2>1. heap' = heap /\ head' = head
      BY <1>2 DEF Erase
  <2>2. \A m \in Node : heap[m] # Free => heap[m].key # k
      BY <1>1, <1>2, NotThere
  <2>3. OthersAlone(b, head, heap, head', heap')
      BY <2>1 DEF OthersAlone
  <2>4. SameItems(k, heap, heap')
      BY <2>1 DEF SameItems
  <2> QED BY <1>1, <2>1, <2>2, <2>3, <2>4
<1>3. CASE node[t] # NULL
  <2> DEFINE n == node[t]
             h == [heap EXCEPT ![n] = Free]
  <2>1. Linked(t, h, heap[n].next)
      BY <1>3 DEF Erase
  <2>2. n \in Reach(head[b], heap) /\ n \in Node /\ heap[n] # Free /\ heap[n].key = k
      BY <1>1, <1>3, WalkAt DEF Erase, AtEnd, AtKey
  <2>3. /\ h \in Heaps /\ h[n] = Free
        /\ \A m \in Node \ {n} : h[m] = heap[m]
      BY <1>1, <2>2 DEF Heaps
  <2>4. heap[n].next \in Node \union {NULL}
      BY <1>1, <2>2 DEF Heaps, Nodes
  <2> HIDE DEF h, k
  <2>5. \A m \in Node \ {n} : heap[m] # Free => heap[m].key # k
      BY <1>1, <2>2 DEF Lists, OneOfAKey
  <2>6. CASE prev[t] = NULL
    <3>1. heap' = h /\ head' = [head EXCEPT ![b] = heap[n].next]
        BY <2>1, <2>6 DEF Linked
    <3>2. head[b] = n
        BY <1>1, <2>6, WalkAt
    <3>3. Lists(head', h) /\ OthersAlone(b, head, heap, head', h)
      <4> HIDE DEF b, n
      <4>1. /\ head' \in [Bucket -> Node \union {NULL}] /\ head'[b] = heap[n].next
            /\ \A c \in Bucket \ {b} : head'[c] = head[c]
          BY <1>1, <2>4, <3>1
      <4> QED BY <1>1, <2>2, <2>3, <3>2, <4>1, ErasedFirst
    <3>4. SameItems(k, heap, heap')
        BY <2>2, <2>3, <3>1 DEF SameItems
    <3>5. head' \in [Bucket -> Node \union {NULL}]
        BY <1>1, <2>4, <3>1
    <3>6. \A m \in Node : heap'[m] # Free => heap'[m].key # k
        BY <2>3, <2>5, <3>1
    <3> QED BY <2>3, <3>1, <3>3, <3>4, <3>5, <3>6 DEF k
  <2>7. CASE prev[t] # NULL
    <3> DEFINE p == prev[t]
    <3>1. heap' = [h EXCEPT ![p].next = heap[n].next] /\ head' = head
        BY <2>1, <2>7 DEF Linked
    <3>2. p \in Reach(head[b], heap) /\ p \in Node /\ heap[p] # Free /\ heap[p].next = n
        BY <1>1, <2>7, WalkAt
    <3>3. p # n
      <4>1. head[b] \in Node
          BY <1>1, <3>2, ReachNull
      <4>2. NotShared(Reach(head[b], heap), heap)
          BY <1>1 DEF Lists, OnePointer, NotShared, Reach
      <4>3. NotSuccessor(Reach(head[b], heap), head[b], heap)
          BY <1>1 DEF Lists, OnePointer, NotSuccessor, Reach
      <4> QED BY <1>1, <3>2, <4>1, <4>2, <4>3, NoSelfLoop
    <3>4. h[p] = heap[p]
        BY <2>3, <3>2, <3>3
    <3>5. /\ heap' \in Heaps
          /\ heap'[p] # Free /\ heap'[p].key = heap[p].key /\ heap'[p].value = heap[p].value
          /\ heap'[p].next = heap[n].next
          /\ \A m \in Node \ {p} : heap'[m] = h[m]
      <4> DEFINE r == [h[p] EXCEPT !.next = heap[n].next]
      <4>1. h[p] \in Nodes
          BY <2>3, <3>2, <3>4 DEF Heaps
      <4>2. /\ r \in Nodes /\ r # Free /\ r.key = h[p].key
            /\ r.value = h[p].value /\ r.next = heap[n].next
          BY <2>4, <4>1, NodeValues
      <4>3. heap' = [h EXCEPT ![p] = r]
          BY <3>1
      <4> HIDE DEF r
      <4> QED BY <2>3, <3>2, <3>4, <4>2, <4>3 DEF Heaps
    <3> HIDE DEF p
    <3>6. /\ heap'[n] = Free
          /\ \A m \in Node \ {n, p} : heap'[m] = heap[m]
        BY <2>2, <2>3, <3>3, <3>5
    <3>7. Lists(head, heap') /\ OthersAlone(b, head, heap, head, heap')
      <4> HIDE DEF b, n
      <4> QED BY <1>1, <2>2, <3>2, <3>5, <3>6, ErasedLater
    <3>8. SameItems(k, heap, heap')
        BY <2>2, <3>2, <3>5, <3>6 DEF SameItems
    <3>9. \A m \in Node : heap'[m] # Free => heap'[m].key # k
        BY <2>5, <3>2, <3>3, <3>5, <3>6
    <3> QED BY <1>1, <3>1, <3>5, <3>7, <3>8, <3>9 DEF k
  <2> QED BY <2>6, <2>7
<1> QED BY <1>2, <1>3

(* What Clear does to the bucket it has come to.                           *)
LEMMA ClearStep ==
    ASSUME HashMapInv, NEW t \in Thread, ClearBucket(t)
    PROVE  /\ head' \in [Bucket -> Node \union {NULL}] /\ heap' \in Heaps
           /\ Lists(head', heap')
           /\ OthersAlone(bucket[t], head, heap, head', heap')
           /\ \A n \in Node :
                 heap'[n] = IF heap[n] # Free /\ BucketOf(heap[n].key) = bucket[t]
                            THEN Free ELSE heap[n]
<1> DEFINE b == bucket[t]
<1>1. /\ b \in Bucket
      /\ head \in [Bucket -> Node \union {NULL}] /\ heap \in Heaps
      /\ Lists(head, heap)
      /\ head' = [head EXCEPT ![b] = NULL]
      /\ heap' = [n \in Node |-> IF n \in Reach(head[b], heap) THEN Free ELSE heap[n]]
    BY OnListIsReach DEF ClearBucket, HashMapInv, TypeOK, Heaps
<1> HIDE DEF b
<1>2. /\ head' \in [Bucket -> Node \union {NULL}] /\ head'[b] = NULL
      /\ \A c \in Bucket \ {b} : head'[c] = head[c]
    BY <1>1
<1>3. /\ heap' \in Heaps
      /\ \A n \in Node : heap'[n] = IF n \in Reach(head[b], heap) THEN Free ELSE heap[n]
    BY <1>1 DEF Heaps
<1>4. Lists(head', heap') /\ OthersAlone(b, head, heap, head', heap')
    BY <1>1, <1>2, <1>3, ErasedAll
<1>5. \A n \in Node : n \in Reach(head[b], heap) <=> heap[n] # Free /\ BucketOf(heap[n].key) = b
    BY <1>1 DEF Lists, Owned
<1> QED BY <1>2, <1>3, <1>4, <1>5 DEF b
-----------------------------------------------------------------------------
(***************************************************************************)
(* The invariant is inductive, one part after the other.                   *)
(***************************************************************************)

(* The lists stay as they should be.                                       *)
LEMMA ListsStep ==
    ASSUME HashMapInv, [Next]_vars
    PROVE  /\ head' \in [Bucket -> Node \union {NULL}] /\ heap' \in Heaps
           /\ Lists(head', heap')
<1>1. /\ head \in [Bucket -> Node \union {NULL}] /\ heap \in Heaps
      /\ Lists(head, heap)
    BY DEF HashMapInv, TypeOK, Heaps
<1>2. CASE \E t \in Thread : Insert(t)
    BY <1>2, InsertStep
<1>3. CASE \E t \in Thread : Erase(t)
    BY <1>3, EraseStep
<1>4. CASE \E t \in Thread : ClearBucket(t)
    BY <1>4, ClearStep
<1>5. CASE UNCHANGED <<head, heap>>
    BY <1>1, <1>5
<1>6. \/ \E t \in Thread : Insert(t) \/ Erase(t) \/ ClearBucket(t)
      \/ UNCHANGED <<head, heap>>
    BY DEF Next, Finish, Call, Lock, Walk, Find, InsertThrows, CallClear, Cleared, vars
<1> QED BY <1>2, <1>3, <1>4, <1>5, <1>6

(* The variables of the threads keep their types.                          *)
LEMMA ThreadTypesStep ==
    ASSUME TypeOK, [Next]_vars
    PROVE  /\ pc' \in [Thread -> {"idle", "calling", "walking", "clearing"}]
           /\ call' \in [Thread -> Calls \union {Idle, [op |-> "Clear"]}]
           /\ \A t \in Thread : /\ pc'[t] = "idle" <=> call'[t] = Idle
                                /\ pc'[t] = "clearing" <=> call'[t] = [op |-> "Clear"]
           /\ bucket' \in [Thread -> 0 .. HashSize]
<1> DEFINE P == /\ pc' \in [Thread -> {"idle", "calling", "walking", "clearing"}]
                /\ call' \in [Thread -> Calls \union {Idle, [op |-> "Clear"]}]
                /\ \A t \in Thread :
                      /\ pc'[t] = "idle" <=> call'[t] = Idle
                      /\ pc'[t] = "clearing" <=> call'[t] = [op |-> "Clear"]
           B == bucket' \in [Thread -> 0 .. HashSize]
<1>1. /\ pc \in [Thread -> {"idle", "calling", "walking", "clearing"}]
      /\ call \in [Thread -> Calls \union {Idle, [op |-> "Clear"]}]
      /\ \A t \in Thread : /\ pc[t] = "idle" <=> call[t] = Idle
                           /\ pc[t] = "clearing" <=> call[t] = [op |-> "Clear"]
    BY DEF TypeOK
<1>2. bucket \in [Thread -> 0 .. HashSize] /\ HashSize \in Nat \ {0}
    BY HashMapAssumption DEF TypeOK
<1>3. Idle # [op |-> "Clear"] /\ \A c \in Calls : c # Idle /\ c # [op |-> "Clear"]
  <2>1. Idle # [op |-> "Clear"]
      BY DEF Idle
  <2>2. \A c \in Calls : c.op \in {"Find", "Erase", "Insert"}
      BY DEF Calls
  <2> QED BY <2>1, <2>2 DEF Idle
<1>4. ASSUME UNCHANGED vars
      PROVE  P /\ B
    BY <1>1, <1>2, <1>4 DEF vars
<1>5. ASSUME NEW t \in Thread, NEW c \in Calls, Call(t, c)
      PROVE  P /\ B
  <2>1. P
      BY <1>1, <1>3, <1>5 DEF Call
  <2> QED BY <1>2, <1>5, <2>1 DEF Call
<1>6. ASSUME NEW t \in Thread, Lock(t)
      PROVE  P /\ B
  <2>1. P
      BY <1>1, <1>3, <1>6 DEF Lock
  <2> QED BY <1>2, <1>6, <2>1 DEF Lock
<1>7. ASSUME NEW t \in Thread, Walk(t)
      PROVE  P /\ B
  <2>1. pc' = pc /\ call' = call /\ bucket' = bucket
      BY <1>7 DEF Walk
  <2>2. P
      BY <1>1, <2>1
  <2> QED BY <1>2, <2>1, <2>2
<1>8. ASSUME NEW t \in Thread, Finish(t)
      PROVE  P /\ B
  <2>1. Return(t)
      BY <1>8 DEF Finish, Find, Insert, InsertThrows, Erase
  <2>2. P
      BY <1>1, <1>3, <2>1 DEF Return
  <2> QED BY <1>2, <2>1, <2>2 DEF Return
<1>9. ASSUME NEW t \in Thread, CallClear(t)
      PROVE  P /\ B
  <2>1. P
      BY <1>1, <1>3, <1>9 DEF CallClear
  <2>2. B
      BY <1>2, <1>9 DEF CallClear
  <2> QED BY <2>1, <2>2
<1>10. ASSUME NEW t \in Thread, ClearBucket(t)
       PROVE  P /\ B
  <2>1. P
      BY <1>1, <1>10 DEF ClearBucket
  <2>2. B
      BY <1>2, <1>10 DEF ClearBucket, Bucket
  <2> QED BY <2>1, <2>2
<1>11. ASSUME NEW t \in Thread, Cleared(t)
       PROVE  P /\ B
  <2>1. P
      BY <1>1, <1>3, <1>11 DEF Cleared
  <2>2. B
      BY <1>2, <1>11 DEF Cleared
  <2> QED BY <2>1, <2>2
<1> HIDE DEF P, B
<1>12. P /\ B
    BY <1>4, <1>5, <1>6, <1>7, <1>8, <1>9, <1>10, <1>11 DEF Next
<1> QED BY <1>12 DEF P, B

(* So do the pointers of the walks and the answers.                        *)
LEMMA WalkTypesStep ==
    ASSUME HashMapInv, [Next]_vars
    PROVE  /\ prev' \in [Thread -> Node \union {NULL}]
           /\ node' \in [Thread -> Node \union {NULL}]
           /\ answer' \in [Thread -> Value \union {Absent}]
<1>1. /\ prev \in [Thread -> Node \union {NULL}]
      /\ node \in [Thread -> Node \union {NULL}]
      /\ answer \in [Thread -> Value \union {Absent}]
      /\ head \in [Bucket -> Node \union {NULL}] /\ heap \in Heaps
    BY DEF HashMapInv, TypeOK, Heaps
<1>2. CASE UNCHANGED <<prev, node, answer>>
    BY <1>1, <1>2
<1>3. ASSUME NEW t \in Thread, Lock(t)
      PROVE  /\ prev' \in [Thread -> Node \union {NULL}]
             /\ node' \in [Thread -> Node \union {NULL}]
             /\ answer' = answer
  <2>1. BucketOf(call[t].key) \in Bucket
      BY <1>3, InCall DEF HashMapInv, Lock
  <2> QED BY <1>1, <1>3, <2>1 DEF Lock
<1>4. ASSUME NEW t \in Thread, pc[t] = "walking", node[t] # NULL
      PROVE  heap[node[t]] \in Nodes
  <2>1. BucketOf(call[t].key) \in Bucket
      BY <1>4, InCall DEF HashMapInv
  <2> QED BY <1>1, <1>4, <2>1, WalkAt DEF Heaps
<1>5. ASSUME NEW t \in Thread, Walk(t)
      PROVE  /\ prev' \in [Thread -> Node \union {NULL}]
             /\ node' \in [Thread -> Node \union {NULL}]
             /\ answer' = answer
  <2>1. heap[node[t]].next \in Node \union {NULL} /\ node[t] \in Node
      BY <1>1, <1>4, <1>5 DEF Walk, Nodes
  <2> QED BY <1>1, <1>5, <2>1 DEF Walk
<1>6. ASSUME NEW t \in Thread, Finish(t)
      PROVE  /\ prev' \in [Thread -> Node \union {NULL}]
             /\ node' \in [Thread -> Node \union {NULL}]
  <2>1. Return(t)
      BY <1>6 DEF Finish, Find, Insert, InsertThrows, Erase
  <2> QED BY <1>1, <2>1 DEF Return
<1>7. ASSUME NEW t \in Thread, Finish(t)
      PROVE  answer' \in [Thread -> Value \union {Absent}]
  <2>1. CASE Find(t)
    <3>1. node[t] # NULL => heap[node[t]].value \in Value
        BY <1>4, <2>1 DEF Find, AtEnd, Nodes
    <3> QED BY <1>1, <2>1, <3>1 DEF Find
  <2>2. CASE Insert(t) \/ InsertThrows(t) \/ Erase(t)
      BY <1>1, <2>2 DEF Insert, InsertThrows, Erase
  <2> QED BY <1>7, <2>1, <2>2 DEF Finish
<1>8. \/ UNCHANGED <<prev, node, answer>>
      \/ \E t \in Thread : Lock(t) \/ Walk(t) \/ Finish(t)
    BY DEF Next, Call, CallClear, ClearBucket, Cleared, vars
<1> QED BY <1>1, <1>2, <1>3, <1>5, <1>6, <1>7, <1>8

(* A mutex that is taken keeps out whom it should.                         *)
LEMMA ExclusiveStep ==
    ASSUME HashMapInv, [Next]_vars
    PROVE  Exclusive'
<1>1. Exclusive /\ pc \in [Thread -> {"idle", "calling", "walking", "clearing"}]
    BY DEF HashMapInv, TypeOK
<1>2. ASSUME \A t \in Thread : pc'[t] = "walking" => pc[t] = "walking" /\ call'[t] = call[t]
      PROVE  Exclusive'
    BY <1>1, <1>2 DEF Exclusive, BucketOf
<1>3. ASSUME NEW t \in Thread, Lock(t)
      PROVE  Exclusive'
  <2>1. /\ call' = call /\ pc'[t] = "walking"
        /\ \A u \in Thread \ {t} : pc'[u] = pc[u]
      BY <1>1, <1>3 DEF Lock
  <2>2. \A u \in Thread : pc[u] = "walking" /\ BucketOf(call[u].key) = BucketOf(call[t].key)
            => call[t].op = "Find" /\ call[u].op = "Find"
      BY <1>3 DEF Lock, MayLock, Walkers
  <2> QED BY <1>1, <2>1, <2>2 DEF Exclusive, BucketOf
<1>4. ASSUME NEW t \in Thread,
             \/ \E c \in Calls : Call(t, c)
             \/ Walk(t) \/ Finish(t) \/ CallClear(t) \/ ClearBucket(t) \/ Cleared(t)
      PROVE  \A u \in Thread : pc'[u] = "walking" => pc[u] = "walking" /\ call'[u] = call[u]
  <2>1. call \in [Thread -> Calls \union {Idle, [op |-> "Clear"]}]
      BY DEF HashMapInv, TypeOK
  <2> QED BY <1>1, <1>4, <2>1
          DEF Call, Walk, Finish, Find, Insert, InsertThrows, Erase, Return, CallClear,
              ClearBucket, Cleared
<1>5. CASE UNCHANGED vars
    BY <1>2, <1>5 DEF vars
<1> QED BY <1>2, <1>3, <1>4, <1>5 DEF Next
(* A change to another list does not disturb a walk.                       *)
LEMMA WalkedFrame ==
    ASSUME NEW h \in Heaps, NEW g \in Heaps, NEW x \in Node \union {NULL},
           \A m \in Reach(x, h) : g[m] = h[m],
           NEW k, NEW p, NEW n, Walked(x, h, k, p, n)
    PROVE  Walked(x, g, k, p, n)
<1>1. n \in Reach(x, h) \union {NULL} /\ p \in Reach(x, h) \union {NULL}
    BY DEF Walked
<1>2. Reach(x, g) = Reach(x, h)
  <2>1. SameLinks(Reach(x, h), h, g)
      BY DEF SameLinks
  <2> QED BY <2>1, ReachFrame
<1>3. Reach(n, g) = Reach(n, h)
    BY <1>1, OthersReach
<1>4. p # NULL => g[p] = h[p]
    BY <1>1
<1>5. \A m \in Reach(x, h) : g[m].key = k => m \in Reach(n, h)
    BY DEF Walked
<1> QED BY <1>1, <1>2, <1>3, <1>4, <1>5 DEF Walked

(* So a walk goes on where it was while others change other lists.         *)
LEMMA WalkGoesOn ==
    ASSUME HashMapInv, heap' \in Heaps,
           NEW b, OthersAlone(b, head, heap, head', heap'),
           NEW u \in Thread, pc[u] = "walking", BucketOf(call[u].key) # b
    PROVE  Walked(head'[BucketOf(call[u].key)], heap', call[u].key, prev[u], node[u])
<1> DEFINE c == BucketOf(call[u].key)
<1>1. /\ c \in Bucket
      /\ heap \in Heaps /\ head[c] \in Node \union {NULL}
      /\ Walked(head[c], heap, call[u].key, prev[u], node[u])
    BY InCall DEF HashMapInv, TypeOK, Heaps, Walking
<1>2. head'[c] = head[c] /\ \A m \in Reach(head[c], heap) : heap'[m] = heap[m]
    BY <1>1 DEF OthersAlone
<1> HIDE DEF c
<1>3. Walked(head[c], heap', call[u].key, prev[u], node[u])
    BY <1>1, <1>2, WalkedFrame
<1> QED BY <1>2, <1>3 DEF c

(* A walk begins at the head, with everything before it.                   *)
LEMMA WalkBegins ==
    ASSUME HashMapInv, NEW t \in Thread, Lock(t)
    PROVE  Walked(head[BucketOf(call[t].key)], heap, call[t].key, prev'[t], node'[t])
<1> DEFINE b == BucketOf(call[t].key)
<1>1. head[b] \in Node \union {NULL}
    BY InCall DEF Lock, HashMapInv, TypeOK
<1>2. prev'[t] = NULL /\ node'[t] = head[b]
    BY DEF Lock, HashMapInv, TypeOK
<1>3. heap \in Heaps
    BY DEF HashMapInv, TypeOK, Heaps
<1> HIDE DEF b
<1>4. head[b] \in Reach(head[b], heap) \union {NULL}
    BY <1>1, <1>3, ReachIsChain DEF Chain
<1> QED BY <1>2, <1>4 DEF Walked, b

(* A step of a walk passes a node with another key.                        *)
LEMMA WalkProceeds ==
    ASSUME HashMapInv, NEW t \in Thread, Walk(t)
    PROVE  Walked(head[BucketOf(call[t].key)], heap, call[t].key, prev'[t], node'[t])
<1> DEFINE b == BucketOf(call[t].key)
           n == node[t]
           k == call[t].key
<1>1. /\ b \in Bucket /\ pc[t] = "walking"
      /\ head[b] \in Node \union {NULL} /\ heap \in Heaps
      /\ Walked(head[b], heap, k, prev[t], n)
    BY InCall DEF Walk, HashMapInv, TypeOK, Heaps, Walking
<1>2. prev'[t] = n /\ node'[t] = heap[n].next
    BY DEF Walk, HashMapInv, TypeOK
<1>3. n # NULL /\ n \in Node /\ heap[n] # Free /\ n \in Reach(head[b], heap)
    BY <1>1, WalkAt DEF Walk
<1>4. heap[n].key # k
    BY <1>3 DEF Walk, AtKey
<1> HIDE DEF b, n, k
<1>5. heap[n].next \in Reach(head[b], heap) \union {NULL}
    BY <1>1, <1>3, ReachIsChain DEF Chain
<1>6. Reach(n, heap) = {n} \union Reach(heap[n].next, heap)
    BY <1>1, <1>3, ReachNext
<1>7. \A m \in Reach(head[b], heap) : heap[m].key = k => m \in Reach(heap[n].next, heap)
    BY <1>1, <1>4, <1>6 DEF Walked
<1>8. Walked(head[b], heap, k, n, heap[n].next)
    BY <1>3, <1>5, <1>7 DEF Walked
<1> QED BY <1>2, <1>8 DEF b, n, k

(* Every walk stays on its list, with its key still before it.             *)
LEMMA WalkingStep ==
    ASSUME HashMapInv, [Next]_vars
    PROVE  Walking'
<1>1. /\ Walking /\ Exclusive
      /\ pc \in [Thread -> {"idle", "calling", "walking", "clearing"}]
      /\ prev \in [Thread -> Node \union {NULL}]
      /\ node \in [Thread -> Node \union {NULL}]
      /\ call \in [Thread -> Calls \union {Idle, [op |-> "Clear"]}]
    BY DEF HashMapInv, TypeOK
<1>2. heap' \in Heaps
    BY ListsStep
<1>3. SUFFICES ASSUME NEW u \in Thread, pc'[u] = "walking"
               PROVE  Walked(head'[BucketOf(call'[u].key)], heap', call'[u].key,
                             prev'[u], node'[u])
    BY DEF Walking, BucketOf
<1> DEFINE OnItsWay == /\ pc[u] = "walking" /\ call'[u] = call[u]
                       /\ prev'[u] = prev[u] /\ node'[u] = node[u]
<1>4. ASSUME OnItsWay, UNCHANGED <<head, heap>>
      PROVE  Walked(head'[BucketOf(call'[u].key)], heap', call'[u].key, prev'[u], node'[u])
    BY <1>1, <1>4 DEF Walking
<1>5. ASSUME OnItsWay,
             NEW b, OthersAlone(b, head, heap, head', heap'), BucketOf(call[u].key) # b
      PROVE  Walked(head'[BucketOf(call'[u].key)], heap', call'[u].key, prev'[u], node'[u])
  <2>1. Walked(head'[BucketOf(call[u].key)], heap', call[u].key, prev[u], node[u])
      BY <1>2, <1>5, WalkGoesOn
  <2> QED BY <1>5, <2>1
<1>6. CASE UNCHANGED vars
    BY <1>3, <1>4, <1>6 DEF vars
<1>7. ASSUME NEW t \in Thread,
             \/ \E c \in Calls : Call(t, c)
             \/ CallClear(t) \/ Cleared(t) \/ Find(t) \/ InsertThrows(t)
      PROVE  OnItsWay /\ UNCHANGED <<head, heap>>
    BY <1>1, <1>3, <1>7 DEF Call, CallClear, Cleared, Find, InsertThrows, Return
<1>8. ASSUME NEW t \in Thread, Lock(t)
      PROVE  Walked(head'[BucketOf(call'[u].key)], heap', call'[u].key, prev'[u], node'[u])
  <2>1. call' = call /\ head' = head /\ heap' = heap
      BY <1>8 DEF Lock
  <2>2. CASE u = t
      BY <1>8, <2>1, <2>2, WalkBegins
  <2>3. CASE u # t
    <3>1. OnItsWay
        BY <1>1, <1>3, <1>8, <2>3 DEF Lock
    <3> QED BY <1>4, <2>1, <3>1
  <2> QED BY <2>2, <2>3
<1>9. ASSUME NEW t \in Thread, Walk(t)
      PROVE  Walked(head'[BucketOf(call'[u].key)], heap', call'[u].key, prev'[u], node'[u])
  <2>1. call' = call /\ head' = head /\ heap' = heap
      BY <1>9 DEF Walk
  <2>2. CASE u = t
      BY <1>9, <2>1, <2>2, WalkProceeds
  <2>3. CASE u # t
    <3>1. OnItsWay
        BY <1>1, <1>3, <1>9, <2>3 DEF Walk
    <3> QED BY <1>4, <2>1, <3>1
  <2> QED BY <2>2, <2>3
<1>10. ASSUME NEW t \in Thread, Insert(t) \/ Erase(t)
       PROVE  Walked(head'[BucketOf(call'[u].key)], heap', call'[u].key, prev'[u], node'[u])
  <2>1. /\ Return(t) /\ pc[t] = "walking" /\ call[t].op # "Find"
      BY <1>10 DEF Insert, Erase, AtEnd
  <2>2. u # t /\ OnItsWay
      BY <1>1, <1>3, <2>1 DEF Return
  <2>3. BucketOf(call[u].key) # BucketOf(call[t].key)
      BY <1>1, <2>1, <2>2 DEF Exclusive
  <2>4. OthersAlone(BucketOf(call[t].key), head, heap, head', heap')
      BY <1>10, InsertStep, EraseStep
  <2> HIDE DEF OnItsWay
  <2> QED BY <1>5, <2>2, <2>3, <2>4
<1>11. ASSUME NEW t \in Thread, ClearBucket(t)
       PROVE  Walked(head'[BucketOf(call'[u].key)], heap', call'[u].key, prev'[u], node'[u])
  <2>1. OnItsWay
      BY <1>1, <1>3, <1>11 DEF ClearBucket
  <2>2. BucketOf(call[u].key) # bucket[t]
      BY <1>11, <2>1 DEF ClearBucket, Walkers
  <2>3. OthersAlone(bucket[t], head, heap, head', heap')
      BY <1>11, ClearStep
  <2> HIDE DEF OnItsWay
  <2> QED BY <1>5, <2>1, <2>2, <2>3
<1> HIDE DEF OnItsWay
<1> QED BY <1>4, <1>6, <1>7, <1>8, <1>9, <1>10, <1>11 DEF Next, Finish

(***************************************************************************)
(* The strengthened invariant holds in every reachable state: whatever     *)
(* calls of Find, Insert, Erase and Clear overlap, each bucket's list is   *)
(* one chain, ended, with a node for each of its keys, and a walk is where *)
(* the list leads.                                                         *)
(***************************************************************************)
THEOREM HashMapInvariant == Spec => []HashMapInv
<1>1. Init => HashMapInv
  <2> SUFFICES ASSUME Init PROVE HashMapInv
      OBVIOUS
  <2>1. TypeOK
    <3>1. /\ pc \in [Thread -> {"idle", "calling", "walking", "clearing"}]
          /\ \A t \in Thread : pc[t] = "idle"
        BY DEF Init
    <3>2. /\ call \in [Thread -> Calls \union {Idle, [op |-> "Clear"]}]
          /\ \A t \in Thread : call[t] = Idle /\ call[t] # [op |-> "Clear"]
        BY DEF Init, Idle
    <3>3. /\ head \in [Bucket -> Node \union {NULL}]
          /\ heap \in [Node -> Nodes \union {Free}]
          /\ prev \in [Thread -> Node \union {NULL}]
          /\ node \in [Thread -> Node \union {NULL}]
          /\ answer \in [Thread -> Value \union {Absent}]
        BY DEF Init
    <3>4. bucket \in [Thread -> 0 .. HashSize]
        BY HashMapAssumption DEF Init
    <3> QED BY <3>1, <3>2, <3>3, <3>4 DEF TypeOK
  <2>2. \A b \in Bucket : Reach(head[b], heap) = {} /\ head[b] = NULL
      BY ReachNull DEF Init
  <2>3. \A n \in Node : heap[n] = Free
      BY DEF Init
  <2>4. Lists(head, heap)
      BY <2>2, <2>3 DEF Lists, Owned, Ended, OneOfAKey, OnePointer, NotShared, NotSuccessor
  <2>5. Exclusive /\ Walking
      BY DEF Init, Exclusive, Walking
  <2> QED BY <2>1, <2>4, <2>5 DEF HashMapInv
<1>2. HashMapInv /\ [Next]_vars => HashMapInv'
  <2> SUFFICES ASSUME HashMapInv, [Next]_vars PROVE HashMapInv'
      OBVIOUS
  <2>1. TypeOK'
    <3>1. TypeOK
        BY DEF HashMapInv
    <3>2. head' \in [Bucket -> Node \union {NULL}] /\ heap' \in [Node -> Nodes \union {Free}]
        BY ListsStep DEF Heaps
    <3> QED BY <3>1, <3>2, ThreadTypesStep, WalkTypesStep DEF TypeOK
  <2>2. Lists(head, heap)'
      BY ListsStep DEF Lists, Owned, Ended, OneOfAKey, OnePointer, NotShared, NotSuccessor
  <2> QED BY <2>1, <2>2, ExclusiveStep, WalkingStep DEF HashMapInv
<1> QED BY <1>1, <1>2, PTL DEF Spec

(***************************************************************************)
(* No thread stands on a node that another has deleted: Find, Insert and   *)
(* Erase follow pointers of live nodes only.                               *)
(***************************************************************************)
THEOREM NobodyDangles == Spec => []NoDanglingPointer
<1>1. HashMapInv => NoDanglingPointer
  <2> SUFFICES ASSUME HashMapInv, NEW t \in Thread, pc[t] = "walking"
               PROVE  /\ node[t] \in Live \union {NULL}
                      /\ prev[t] \in Live \union {NULL}
                      /\ node[t] = IF prev[t] = NULL THEN head[BucketOf(call[t].key)]
                                                     ELSE heap[prev[t]].next
      BY DEF NoDanglingPointer
  <2>1. BucketOf(call[t].key) \in Bucket
      BY InCall DEF HashMapInv
  <2> QED BY <2>1, WalkAt DEF Live
<1> QED BY <1>1, HashMapInvariant, PTL

(***************************************************************************)
(* Each bucket's list holds exactly the nodes of its keys, a key has one   *)
(* node, and a list comes to an end; Insert, Erase and Clear of HashBucket.*)
(***************************************************************************)
THEOREM ListsWellFormed == Spec => []BucketsWellFormed
<1>1. HashMapInv => BucketsWellFormed
  <2> SUFFICES ASSUME HashMapInv PROVE BucketsWellFormed
      OBVIOUS
  <2>1. TypeOK /\ Lists(head, heap)
      BY DEF HashMapInv
  <2>2. ASSUME NEW b \in Bucket
        PROVE  /\ OnList(b) = {n \in Live : BucketOf(heap[n].key) = b}
               /\ OnList(b) # {} => \E n \in OnList(b) : heap[n].next = NULL
    <3>1. OnList(b) = Reach(head[b], heap)
        BY OnListIsReach
    <3>2. OnList(b) = {n \in Live : BucketOf(heap[n].key) = b}
        BY <2>1, <3>1 DEF Lists, Owned, Live
    <3>3. OnList(b) # {} => head[b] # NULL
        BY <3>1, ReachNull
    <3> QED BY <2>1, <3>1, <3>2, <3>3 DEF Lists, Ended
  <2>3. \A m, n \in Live : heap[m].key = heap[n].key => m = n
      BY <2>1 DEF Lists, OneOfAKey, Live
  <2> QED BY <2>1, <2>2, <2>3 DEF BucketsWellFormed
<1> QED BY <1>1, HashMapInvariant, PTL
-----------------------------------------------------------------------------
(***************************************************************************)
(* The refinement of AtomicMap.                                            *)
(***************************************************************************)

NodesOf(h, k) == {n \in Node : h[n] # Free /\ h[n].key = k}

ContentsIn(h) ==
    [k \in Key |-> IF NodesOf(h, k) = {} THEN Absent
                   ELSE h[CHOOSE n \in NodesOf(h, k) : TRUE].value]

(* What the refinement calls the contents are the contents of the heap.    *)
LEMMA ContentsAreIn ==
    /\ Contents = ContentsIn(heap)
    /\ Contents' = ContentsIn(heap')
BY DEF Contents, ContentsIn, NodeOf, NodesOf

(* What the map holds for a key: the value of its node, if it has one.     *)
LEMMA ContentsValue ==
    ASSUME NEW h, OneOfAKey(h), NEW k \in Key
    PROVE  /\ \A n \in Node : h[n] # Free /\ h[n].key = k => ContentsIn(h)[k] = h[n].value
           /\ (\A n \in Node : h[n] # Free => h[n].key # k) => ContentsIn(h)[k] = Absent
<1>1. ContentsIn(h)[k] = IF NodesOf(h, k) = {} THEN Absent
                         ELSE h[CHOOSE n \in NodesOf(h, k) : TRUE].value
    BY DEF ContentsIn
<1>2. ASSUME NEW n \in Node, h[n] # Free, h[n].key = k
      PROVE  ContentsIn(h)[k] = h[n].value
  <2>1. n \in NodesOf(h, k)
      BY <1>2 DEF NodesOf
  <2>2. (CHOOSE m \in NodesOf(h, k) : TRUE) \in NodesOf(h, k)
      BY <2>1
  <2>3. (CHOOSE m \in NodesOf(h, k) : TRUE) = n
      BY <1>2, <2>2 DEF NodesOf, OneOfAKey
  <2> QED BY <1>1, <2>1, <2>3
<1>3. ASSUME \A n \in Node : h[n] # Free => h[n].key # k
      PROVE  ContentsIn(h)[k] = Absent
  <2>1. NodesOf(h, k) = {}
      BY <1>3 DEF NodesOf
  <2> QED BY <1>1, <2>1
<1> QED BY <1>2, <1>3

(* An operation on the key k leaves what the map holds for other keys.     *)
LEMMA ContentsSame ==
    ASSUME NEW h, NEW g, OneOfAKey(h), OneOfAKey(g), NEW k,
           SameItems(k, h, g), NEW j \in Key, j # k
    PROVE  ContentsIn(g)[j] = ContentsIn(h)[j]
<1>1. CASE \E n \in Node : h[n] # Free /\ h[n].key = j
  <2>1. PICK n \in Node : h[n] # Free /\ h[n].key = j
      BY <1>1
  <2>2. g[n] # Free /\ g[n].key = j /\ g[n].value = h[n].value
      BY <2>1 DEF SameItems
  <2> QED BY <2>1, <2>2, ContentsValue
<1>2. CASE \A n \in Node : h[n] # Free => h[n].key # j
  <2>1. \A n \in Node : g[n] # Free => g[n].key # j
      BY <1>2 DEF SameItems
  <2> QED BY <1>2, <2>1, ContentsValue
<1> QED BY <1>1, <1>2

(* A walk that came to the end of its list has shown the key to be absent. *)
LEMMA NothingFound ==
    ASSUME HashMapInv, NEW t \in Thread, pc[t] = "walking", node[t] = NULL
    PROVE  Contents[call[t].key] = Absent
<1>1. call[t].key \in Key /\ BucketOf(call[t].key) \in Bucket /\ OneOfAKey(heap)
    BY InCall DEF HashMapInv, Lists
<1> QED BY <1>1, NotThere, ContentsAreIn, ContentsValue

(* Find answers what the map holds for its key.                            *)
LEMMA FindAnswers ==
    ASSUME HashMapInv, NEW t \in Thread, Find(t)
    PROVE  answer' = [answer EXCEPT ![t] = Contents[call[t].key]]
<1>1. pc[t] = "walking" /\ call[t].key \in Key /\ BucketOf(call[t].key) \in Bucket
      /\ OneOfAKey(heap)
    BY InCall DEF Find, AtEnd, HashMapInv, Lists
<1>2. CASE node[t] = NULL
  <2>1. Contents[call[t].key] = Absent
      BY <1>1, <1>2, NothingFound
  <2> QED BY <1>2, <2>1 DEF Find
<1>3. CASE node[t] # NULL
  <2>1. node[t] \in Node /\ heap[node[t]] # Free /\ heap[node[t]].key = call[t].key
      BY <1>1, <1>3, WalkAt DEF Find, AtEnd, AtKey
  <2>2. Contents[call[t].key] = heap[node[t]].value
      BY <1>1, <2>1, ContentsAreIn, ContentsValue
  <2> QED BY <1>3, <2>2 DEF Find
<1> QED BY <1>2, <1>3

(* Insert sets what the map holds for its key, and nothing else.           *)
LEMMA InsertSets ==
    ASSUME HashMapInv, NEW t \in Thread, Insert(t)
    PROVE  Contents' = [Contents EXCEPT ![call[t].key] = call[t].value]
<1> DEFINE k == call[t].key
<1>1. pc[t] = "walking" /\ k \in Key /\ OneOfAKey(heap) /\ OneOfAKey(heap')
      /\ SameItems(k, heap, heap')
    BY InCall, InsertStep DEF Insert, AtEnd, HashMapInv, Lists
<1>2. PICK n \in Node : heap'[n] # Free /\ heap'[n].key = k /\ heap'[n].value = call[t].value
    BY InsertStep
<1>3. ContentsIn(heap')[k] = call[t].value
    BY <1>1, <1>2, ContentsValue
<1>4. \A j \in Key \ {k} : ContentsIn(heap')[j] = ContentsIn(heap)[j]
    BY <1>1, ContentsSame
<1>5. Contents' = ContentsIn(heap')
    BY ContentsAreIn
<1> HIDE DEF k
<1>6. ContentsIn(heap') = [ContentsIn(heap) EXCEPT ![k] = call[t].value]
    BY <1>3, <1>4 DEF ContentsIn
<1> QED BY <1>5, <1>6, ContentsAreIn DEF k

(* Erase leaves nothing for its key, and everything else.                  *)
LEMMA EraseSets ==
    ASSUME HashMapInv, NEW t \in Thread, Erase(t)
    PROVE  Contents' = [Contents EXCEPT ![call[t].key] = Absent]
<1> DEFINE k == call[t].key
<1>1. pc[t] = "walking" /\ k \in Key /\ OneOfAKey(heap) /\ OneOfAKey(heap')
      /\ SameItems(k, heap, heap')
    BY InCall, EraseStep DEF Erase, AtEnd, HashMapInv, Lists
<1>2. \A n \in Node : heap'[n] # Free => heap'[n].key # k
    BY EraseStep
<1>3. ContentsIn(heap')[k] = Absent
    BY <1>1, <1>2, ContentsValue
<1>4. \A j \in Key \ {k} : ContentsIn(heap')[j] = ContentsIn(heap)[j]
    BY <1>1, ContentsSame
<1>5. Contents' = ContentsIn(heap')
    BY ContentsAreIn
<1> HIDE DEF k
<1>6. ContentsIn(heap') = [ContentsIn(heap) EXCEPT ![k] = Absent]
    BY <1>3, <1>4 DEF ContentsIn
<1> QED BY <1>5, <1>6, ContentsAreIn DEF k

(* Clear removes the keys of a bucket, and nothing else.                   *)
LEMMA ClearRemoves ==
    ASSUME HashMapInv, NEW t \in Thread, ClearBucket(t)
    PROVE  Contents' = [k \in Key |-> IF BucketOf(k) = bucket[t] THEN Absent ELSE Contents[k]]
<1>1. OneOfAKey(heap) /\ OneOfAKey(heap')
    BY ClearStep DEF HashMapInv, Lists
<1>2. \A n \in Node : heap'[n] = IF heap[n] # Free /\ BucketOf(heap[n].key) = bucket[t]
                                 THEN Free ELSE heap[n]
    BY ClearStep
<1>3. ASSUME NEW k \in Key
      PROVE  ContentsIn(heap')[k] = IF BucketOf(k) = bucket[t] THEN Absent
                                    ELSE ContentsIn(heap)[k]
  <2>1. CASE BucketOf(k) = bucket[t]
    <3>1. \A n \in Node : heap'[n] # Free => heap'[n].key # k
        BY <1>2, <2>1
    <3> QED BY <1>1, <2>1, <3>1, ContentsValue
  <2>2. CASE BucketOf(k) # bucket[t]
    <3>1. CASE \E n \in Node : heap[n] # Free /\ heap[n].key = k
      <4>1. PICK n \in Node : heap[n] # Free /\ heap[n].key = k
          BY <3>1
      <4>2. heap'[n] = heap[n]
          BY <1>2, <2>2, <4>1
      <4> QED BY <1>1, <2>2, <4>1, <4>2, ContentsValue
    <3>2. CASE \A n \in Node : heap[n] # Free => heap[n].key # k
      <4>1. \A n \in Node : heap'[n] # Free => heap'[n].key # k
          BY <1>2, <3>2
      <4> QED BY <1>1, <2>2, <3>2, <4>1, ContentsValue
    <3> QED BY <3>1, <3>2
  <2> QED BY <2>1, <2>2
<1>4. Contents' = ContentsIn(heap')
    BY ContentsAreIn
<1> QED BY <1>3, <1>4, ContentsAreIn DEF ContentsIn
(* While no thread enters or goes on with Clear, the keys it has still to  *)
(* remove are the same.                                                    *)
LEMMA NothingCleared ==
    ASSUME bucket' = bucket,
           \A t \in Thread : pc'[t] = "clearing" <=> pc[t] = "clearing"
    PROVE  ToClear' = ToClear
BY DEF ToClear, BucketOf

(* Initially the map is empty, and nobody is in a call.                    *)
LEMMA RefinesInit == Init => TheMap!Init
<1> SUFFICES ASSUME Init PROVE TheMap!Init
    OBVIOUS
<1>1. \A k \in Key : NodeOf(k) = {}
    BY DEF Init, NodeOf
<1>2. Contents = [k \in Key |-> Absent]
    BY <1>1 DEF Contents
<1>3. ToClear = [t \in Thread |-> {}]
    BY DEF Init, ToClear
<1> QED BY <1>2, <1>3 DEF Init, TheMap!Init, Idle, TheMap!Idle

(* Every step is one of the abstract map's, or none of its business.       *)
LEMMA RefinesNext ==
    ASSUME HashMapInv, [Next]_vars
    PROVE  [TheMap!Next]_(TheMap!vars)
<1>1. /\ pc \in [Thread -> {"idle", "calling", "walking", "clearing"}]
      /\ call \in [Thread -> Calls \union {Idle, [op |-> "Clear"]}]
      /\ bucket \in [Thread -> 0 .. HashSize]
      /\ \A t \in Thread : /\ pc[t] = "idle" <=> call[t] = Idle
                           /\ pc[t] = "clearing" <=> call[t] = [op |-> "Clear"]
    BY DEF HashMapInv, TypeOK
<1>2. HashSize \in Nat \ {0} /\ \A k \in Key : BucketOf(k) \in 0 .. HashSize - 1
    BY HashMapAssumption, BucketOfType DEF Bucket
<1>3. ASSUME heap' = heap
      PROVE  Contents' = Contents
    BY <1>3 DEF Contents, NodeOf
<1>4. CASE UNCHANGED vars
  <2>1. ToClear' = ToClear
      BY <1>4, NothingCleared DEF vars
  <2> QED BY <1>3, <1>4, <2>1 DEF vars, TheMap!vars
<1>5. ASSUME NEW t \in Thread, NEW c \in Calls, Call(t, c)
      PROVE  TheMap!Next
  <2>1. ToClear' = ToClear
      BY <1>1, <1>5, NothingCleared DEF Call
  <2>2. TheMap!Invoke(t, c)
      BY <1>1, <1>3, <1>5, <2>1 DEF Call, TheMap!Invoke, Idle, TheMap!Idle
  <2> QED BY <2>2 DEF TheMap!Next, Calls, TheMap!Calls
<1>6. ASSUME NEW t \in Thread, Lock(t) \/ Walk(t)
      PROVE  UNCHANGED TheMap!vars
  <2>1. bucket' = bucket /\ \A u \in Thread : pc'[u] = "clearing" <=> pc[u] = "clearing"
      BY <1>1, <1>6 DEF Lock, Walk
  <2>2. ToClear' = ToClear
      BY <2>1, NothingCleared
  <2> QED BY <1>3, <1>6, <2>2 DEF Lock, Walk, TheMap!vars
<1>7. ASSUME NEW t \in Thread, Finish(t)
      PROVE  TheMap!Next
  <2>1. /\ Return(t) /\ pc[t] = "walking"
        /\ call[t].op \in {"Find", "Insert", "Erase"}
      BY <1>7 DEF Finish, Find, Insert, InsertThrows, Erase, AtEnd
  <2>2. call' = [call EXCEPT ![t] = Idle]
      BY <2>1 DEF Return
  <2>3. ToClear' = ToClear
    <3>1. bucket' = bucket /\ \A u \in Thread : pc'[u] = "clearing" <=> pc[u] = "clearing"
        BY <1>1, <2>1 DEF Return
    <3> QED BY <3>1, NothingCleared
  <2>4. CASE Find(t)
    <3>1. TheMap!Found(t)
        BY <1>3, <2>2, <2>3, <2>4, FindAnswers
           DEF Find, AtEnd, TheMap!Found, Idle, TheMap!Idle
    <3> QED BY <3>1 DEF TheMap!Next
  <2>5. CASE Insert(t)
    <3>1. TheMap!Inserted(t)
        BY <2>2, <2>3, <2>5, InsertSets
           DEF Insert, AtEnd, TheMap!Inserted, Idle, TheMap!Idle
    <3> QED BY <3>1 DEF TheMap!Next
  <2>6. CASE Erase(t)
    <3>1. TheMap!Erased(t)
        BY <2>2, <2>3, <2>6, EraseSets
           DEF Erase, AtEnd, TheMap!Erased, Idle, TheMap!Idle
    <3> QED BY <3>1 DEF TheMap!Next
  <2>7. CASE InsertThrows(t)
    <3>1. TheMap!InsertFailed(t)
        BY <1>3, <2>2, <2>3, <2>7, NothingFound
           DEF InsertThrows, AtEnd, TheMap!InsertFailed, Idle, TheMap!Idle
    <3> QED BY <3>1 DEF TheMap!Next
  <2> QED BY <1>7, <2>4, <2>5, <2>6, <2>7 DEF Finish
<1>8. ASSUME NEW t \in Thread, CallClear(t)
      PROVE  TheMap!Next
  <2>1. ToClear' = [ToClear EXCEPT ![t] = Key]
    <3>1. pc'[t] = "clearing" /\ bucket'[t] = 0
        BY <1>1, <1>8 DEF CallClear
    <3>2. \A u \in Thread \ {t} : pc'[u] = pc[u] /\ bucket'[u] = bucket[u]
        BY <1>1, <1>8 DEF CallClear
    <3>3. {k \in Key : BucketOf(k) >= 0} = Key
        BY <1>2
    <3>4. ToClear'[t] = Key
        BY <3>1, <3>3 DEF ToClear, BucketOf
    <3>5. \A u \in Thread \ {t} : ToClear'[u] = ToClear[u]
        BY <3>2 DEF ToClear, BucketOf
    <3> QED BY <3>4, <3>5 DEF ToClear
  <2>2. TheMap!InvokeClear(t)
      BY <1>1, <1>3, <1>8, <2>1 DEF CallClear, TheMap!InvokeClear, Idle, TheMap!Idle
  <2> QED BY <2>2 DEF TheMap!Next
<1>9. ASSUME NEW t \in Thread, ClearBucket(t)
      PROVE  TheMap!Next
  <2> DEFINE K == {k \in Key : BucketOf(k) = bucket[t]}
  <2>1. pc[t] = "clearing" /\ pc' = pc /\ bucket[t] \in 0 .. HashSize - 1
      BY <1>9 DEF ClearBucket, Bucket
  <2>2. bucket'[t] = bucket[t] + 1 /\ \A u \in Thread \ {t} : bucket'[u] = bucket[u]
      BY <1>1, <1>9 DEF ClearBucket
  <2>3. ToClear[t] = {k \in Key : BucketOf(k) >= bucket[t]}
      BY <2>1 DEF ToClear
  <2>4. ToClear'[t] = {k \in Key : BucketOf(k) >= bucket[t] + 1}
      BY <2>1, <2>2 DEF ToClear, BucketOf
  <2>5. K \in SUBSET ToClear[t]
      BY <1>2, <2>1, <2>3
  <2>6. ToClear'[t] = ToClear[t] \ K
      BY <1>2, <2>1, <2>3, <2>4
  <2>7. \A u \in Thread \ {t} : ToClear'[u] = ToClear[u]
      BY <2>1, <2>2 DEF ToClear, BucketOf
  <2>8. ToClear' = [ToClear EXCEPT ![t] = @ \ K]
      BY <2>6, <2>7 DEF ToClear
  <2>9. Contents' = [k \in Key |-> IF k \in K THEN Absent ELSE Contents[k]]
      BY <1>9, ClearRemoves
  <2>10. call' = call /\ answer' = answer
      BY <1>9 DEF ClearBucket
  <2> HIDE DEF K
  <2>11. TheMap!ClearSome(t)
      BY <2>5, <2>8, <2>9, <2>10 DEF TheMap!ClearSome
  <2> QED BY <2>11 DEF TheMap!Next
<1>10. ASSUME NEW t \in Thread, Cleared(t)
       PROVE  TheMap!Next
  <2>1. pc[t] = "clearing" /\ bucket[t] = HashSize
      BY <1>10 DEF Cleared
  <2>2. pc'[t] = "idle" /\ \A u \in Thread \ {t} : pc'[u] = pc[u] /\ bucket'[u] = bucket[u]
      BY <1>1, <1>10 DEF Cleared
  <2>3. {k \in Key : BucketOf(k) >= HashSize} = {}
      BY <1>2
  <2>4. ToClear[t] = {}
      BY <2>1, <2>3 DEF ToClear
  <2>5. ToClear'[t] = {}
      BY <2>2 DEF ToClear
  <2>6. \A u \in Thread \ {t} : ToClear'[u] = ToClear[u]
      BY <2>2 DEF ToClear, BucketOf
  <2>7. ToClear' = ToClear
      BY <2>4, <2>5, <2>6 DEF ToClear
  <2>8. call[t].op = "Clear"
      BY <1>1, <2>1
  <2>9. TheMap!Cleared(t)
      BY <1>3, <1>10, <2>4, <2>7, <2>8 DEF Cleared, TheMap!Cleared, Idle, TheMap!Idle
  <2> QED BY <2>9 DEF TheMap!Next
<1> QED BY <1>4, <1>5, <1>6, <1>7, <1>8, <1>9, <1>10 DEF Next

(***************************************************************************)
(* The map of linked nodes under a mutex for each bucket implements one    *)
(* whose Find, Insert and Erase are atomic and whose Clear removes the     *)
(* keys in turn.                                                           *)
(***************************************************************************)
THEOREM MapIsAtomic == Spec => ImplementsAtomicMap
<1>1. HashMapInv /\ [Next]_vars => [TheMap!Next]_(TheMap!vars)
    BY RefinesNext
<1>2. Spec => TheMap!Spec
    BY <1>1, RefinesInit, HashMapInvariant, PTL DEF Spec, TheMap!Spec
<1> QED BY <1>2 DEF ImplementsAtomicMap
===============================================================================
