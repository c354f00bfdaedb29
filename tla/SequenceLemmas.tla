--------------------------- MODULE SequenceLemmas ---------------------------
(***************************************************************************)
(* Facts about sequences without duplicates, used as stacks (the vector of *)
(* MemoryPool) and as queues (the tasks of ThreadPool, the backlog of      *)
(* Shutdown); about FlattenSeq, which Channels uses for a stream that came *)
(* in pieces; and the principles of the least and of the greatest number,  *)
(* which stand in for induction, first of all in proofs about recursive    *)
(* functions.                                                              *)
(***************************************************************************)
EXTENDS Integers, FiniteSets, SequencesExt, FiniteSetTheorems, SequenceTheorems, TLAPS

(* Pushing an element that is not on the vector keeps it free of           *)
(* duplicates, and adds just that element.                                 *)
LEMMA PushProperties ==
    ASSUME NEW S, NEW s \in Seq(S), NEW e \in S
    PROVE  /\ Append(s, e) \in Seq(S)
           /\ Len(Append(s, e)) = Len(s) + 1
           /\ ToSet(Append(s, e)) = ToSet(s) \union {e}
           /\ IsInjective(s) /\ e \notin ToSet(s) => IsInjective(Append(s, e))
<1>1. Append(s, e) \in Seq(S) /\ Len(Append(s, e)) = Len(s) + 1
    OBVIOUS
<1>2. ToSet(Append(s, e)) = ToSet(s) \union {e}
  <2>1. /\ DOMAIN s = 1 .. Len(s) /\ Len(s) \in Nat
        /\ DOMAIN Append(s, e) = 1 .. Len(s) + 1
        /\ \A i \in 1 .. Len(s) : Append(s, e)[i] = s[i]
        /\ Append(s, e)[Len(s) + 1] = e
      OBVIOUS
  <2>2. 1 .. Len(s) + 1 = (1 .. Len(s)) \union {Len(s) + 1}
      BY <2>1
  <2>3. ToSet(Append(s, e)) = {Append(s, e)[i] : i \in 1 .. Len(s) + 1}
      BY <2>1 DEF ToSet
  <2>4. ToSet(s) = {s[i] : i \in 1 .. Len(s)}
      BY <2>1 DEF ToSet
  <2> QED BY ONLY <2>1, <2>2, <2>3, <2>4
<1>3. ASSUME IsInjective(s), e \notin ToSet(s)
      PROVE  IsInjective(Append(s, e))
    BY <1>3 DEF IsInjective, ToSet
<1> QED BY <1>1, <1>2, <1>3

(* Popping the last element of a vector without duplicates removes just    *)
(* that element.                                                           *)
LEMMA PopProperties ==
    ASSUME NEW S, NEW s \in Seq(S), s # <<>>, IsInjective(s)
    PROVE  /\ Last(s) \in S
           /\ Last(s) \in ToSet(s)
           /\ Front(s) \in Seq(S)
           /\ Len(Front(s)) = Len(s) - 1
           /\ ToSet(Front(s)) = ToSet(s) \ {Last(s)}
           /\ IsInjective(Front(s))
<1>1. Len(s) \in Nat \ {0} /\ Len(s) \in DOMAIN s
    OBVIOUS
<1>2. Last(s) \in S /\ Last(s) \in ToSet(s)
    BY <1>1 DEF Last, ToSet
<1>3. /\ Front(s) \in Seq(S)
      /\ Len(Front(s)) = Len(s) - 1
      /\ \A i \in 1 .. Len(s) - 1 : Front(s)[i] = s[i]
  <2> DEFINE n == Len(s) - 1
  <2>1. n \in Nat /\ \A i \in 1 .. n : s[i] \in S
      BY <1>1
  <2> HIDE DEF n
  <2>2. /\ SubSeq(s, 1, n) \in Seq(S)
        /\ Len(SubSeq(s, 1, n)) = IF 1 <= n THEN n - 1 + 1 ELSE 0
        /\ \A i \in 1 .. n - 1 + 1 : SubSeq(s, 1, n)[i] = s[1 + i - 1]
      BY <2>1, SubSeqProperties
  <2>3. Len(SubSeq(s, 1, n)) = n
      BY <2>1, <2>2
  <2>4. ASSUME NEW i \in 1 .. n PROVE SubSeq(s, 1, n)[i] = s[i]
    <3>1. i \in 1 .. n - 1 + 1 /\ 1 + i - 1 = i
        BY <2>1
    <3> QED BY <2>2, <3>1
  <2> QED BY <2>2, <2>3, <2>4 DEF Front, n
<1>4. ToSet(Front(s)) = ToSet(s) \ {Last(s)}
    BY <1>1, <1>3 DEF ToSet, IsInjective, Last
<1>5. IsInjective(Front(s))
    BY <1>3 DEF IsInjective
<1> QED BY <1>2, <1>3, <1>4, <1>5

(* Taking the first element of a queue without duplicates removes just     *)
(* that element.                                                           *)
LEMMA DequeueProperties ==
    ASSUME NEW S, NEW s \in Seq(S), s # <<>>, IsInjective(s)
    PROVE  /\ Head(s) \in S
           /\ Head(s) \in ToSet(s)
           /\ Tail(s) \in Seq(S)
           /\ Len(Tail(s)) = Len(s) - 1
           /\ ToSet(Tail(s)) = ToSet(s) \ {Head(s)}
           /\ IsInjective(Tail(s))
<1>1. /\ Len(s) \in Nat \ {0} /\ DOMAIN s = 1 .. Len(s)
      /\ Head(s) = s[1]
    OBVIOUS
<1>2. Head(s) \in S /\ Head(s) \in ToSet(s)
    BY <1>1 DEF ToSet
<1>3. /\ Tail(s) \in Seq(S) /\ Len(Tail(s)) = Len(s) - 1
      /\ \A i \in 1 .. Len(s) - 1 : Tail(s)[i] = s[i + 1]
    BY HeadTailProperties
<1>4. ToSet(Tail(s)) = ToSet(s) \ {Head(s)}
  <2>1. ASSUME NEW e \in ToSet(s) \ {Head(s)} PROVE e \in ToSet(Tail(s))
    <3>1. PICK i \in 1 .. Len(s) : s[i] = e
        BY <1>1, <2>1 DEF ToSet
    <3>2. i - 1 \in 1 .. Len(s) - 1 /\ Tail(s)[i - 1] = e
        BY <1>1, <1>3, <2>1, <3>1
    <3>3. DOMAIN Tail(s) = 1 .. Len(s) - 1
        BY <1>3
    <3> QED BY <3>2, <3>3 DEF ToSet
  <2>2. ASSUME NEW e \in ToSet(Tail(s)) PROVE e \in ToSet(s) \ {Head(s)}
    <3>1. PICK i \in 1 .. Len(s) - 1 : Tail(s)[i] = e
        BY <1>3, <2>2 DEF ToSet
    <3>2. i + 1 \in 1 .. Len(s) /\ s[i + 1] = e /\ i + 1 # 1
        BY <1>1, <1>3, <3>1
    <3> QED BY <1>1, <3>2 DEF ToSet, IsInjective
  <2> QED BY <2>1, <2>2
<1>5. IsInjective(Tail(s))
  <2> SUFFICES ASSUME NEW i \in 1 .. Len(s) - 1, NEW j \in 1 .. Len(s) - 1,
                      Tail(s)[i] = Tail(s)[j]
               PROVE  i = j
      BY <1>3 DEF IsInjective
  <2>1. /\ i + 1 \in DOMAIN s /\ j + 1 \in DOMAIN s /\ s[i + 1] = s[j + 1]
      BY <1>1, <1>3
  <2> QED BY <2>1 DEF IsInjective
<1> QED BY <1>2, <1>3, <1>4, <1>5

(***************************************************************************)
(* A vector without duplicates has as many elements as positions.          *)
(***************************************************************************)
LEMMA VectorCardinality ==
    ASSUME NEW S, NEW s \in Seq(S), IsInjective(s)
    PROVE  IsFiniteSet(ToSet(s)) /\ Cardinality(ToSet(s)) = Len(s)
<1>1. Len(s) \in Nat /\ DOMAIN s = 1 .. Len(s)
    OBVIOUS
<1>2. s \in Bijection(1 .. Len(s), ToSet(s))
    BY <1>1 DEF Bijection, Injection, Surjection, IsInjective, ToSet
<1>3. IsFiniteSet(1 .. Len(s)) /\ Cardinality(1 .. Len(s)) = Len(s)
    BY <1>1, FS_Interval
<1>4. ExistsBijection(1 .. Len(s), ToSet(s))
    BY <1>2 DEF ExistsBijection
<1> QED BY <1>3, <1>4, FS_Bijection

(***************************************************************************)
(* A set of natural numbers has a least element: a statement that fails    *)
(* for some number fails for a least one, and holds for the one before.    *)
(***************************************************************************)
LEMMA LeastNumber ==
    ASSUME NEW S \in SUBSET Nat, S # {}
    PROVE  \E n \in S : \A m \in S : n <= m
<1> DEFINE R == OpToRel(<, Nat)
<1>1. IsWellFoundedOn(R, Nat)
    BY NatLessThanWellFounded
<1>2. \A x, y \in Nat : x < y => <<x, y>> \in R
    BY DEF OpToRel
<1> HIDE DEF R
<1>3. \E n \in S : \A m \in S : <<m, n>> \notin R
    BY <1>1, WFMin
<1>4. PICK n \in S : \A m \in S : <<m, n>> \notin R
    BY <1>3
<1>5. ASSUME NEW m \in S PROVE n <= m
  <2>1. ~ (m < n)
      BY <1>2, <1>4
  <2> QED BY <2>1
<1> QED BY <1>5
(* One queue after another, with no element in both.                        *)
LEMMA JoinProperties ==
    ASSUME NEW S, NEW s \in Seq(S), NEW t \in Seq(S), IsInjective(s), IsInjective(t),
           ToSet(s) \cap ToSet(t) = {}
    PROVE  /\ s \o t \in Seq(S)
           /\ ToSet(s \o t) = ToSet(s) \union ToSet(t)
           /\ IsInjective(s \o t)
<1> DEFINE m == Len(s)
           n == Len(t)
           j == s \o t
<1>1. m \in Nat /\ n \in Nat /\ DOMAIN s = 1 .. m /\ DOMAIN t = 1 .. n
    OBVIOUS
<1>2. j \in Seq(S) /\ DOMAIN j = 1 .. m + n
    OBVIOUS
<1>3. \A i \in 1 .. m : j[i] = s[i]
    OBVIOUS
<1>4. \A i \in m + 1 .. m + n : j[i] = t[i - m] /\ i - m \in 1 .. n
    OBVIOUS
<1>5. \A i \in 1 .. n : j[i + m] = t[i] /\ i + m \in m + 1 .. m + n
  <2> TAKE i \in 1 .. n
  <2>1. i + m \in m + 1 .. m + n /\ (i + m) - m = i
      BY <1>1
  <2> QED BY <1>4, <2>1
<1> HIDE DEF m, n, j
<1>6. ASSUME NEW e \in ToSet(j) PROVE e \in ToSet(s) \union ToSet(t)
  <2>1. PICK i \in 1 .. m + n : j[i] = e
      BY <1>2, <1>6 DEF ToSet
  <2>2. CASE i \in 1 .. m
      BY <1>1, <1>3, <2>1, <2>2 DEF ToSet
  <2>3. CASE i \in m + 1 .. m + n
      BY <1>1, <1>4, <2>1, <2>3 DEF ToSet
  <2> QED BY <1>1, <2>1, <2>2, <2>3
<1>7. ASSUME NEW e \in ToSet(s) PROVE e \in ToSet(j)
  <2>1. PICK i \in 1 .. m : s[i] = e
      BY <1>1, <1>7 DEF ToSet
  <2>2. i \in 1 .. m + n
      BY <1>1
  <2> QED BY <1>2, <1>3, <2>1, <2>2 DEF ToSet
<1>8. ASSUME NEW e \in ToSet(t) PROVE e \in ToSet(j)
  <2>1. PICK i \in 1 .. n : t[i] = e
      BY <1>1, <1>8 DEF ToSet
  <2>2. i + m \in 1 .. m + n
      BY <1>1
  <2> QED BY <1>2, <1>5, <2>1, <2>2 DEF ToSet
<1>9. ASSUME NEW a \in 1 .. m + n, NEW b \in 1 .. m + n, j[a] = j[b]
      PROVE  a = b
  <2>1. /\ \A i \in 1 .. m : s[i] \in ToSet(s)
        /\ \A i \in 1 .. n : t[i] \in ToSet(t)
      BY <1>1 DEF ToSet
  <2>2. CASE a \in 1 .. m /\ b \in 1 .. m
      BY <1>1, <1>3, <1>9, <2>2 DEF IsInjective
  <2>3. CASE a \in m + 1 .. m + n /\ b \in m + 1 .. m + n
    <3>1. a - m \in 1 .. n /\ b - m \in 1 .. n /\ t[a - m] = t[b - m]
        BY <1>4, <1>9, <2>3
    <3>2. a - m = b - m
        BY <1>1, <3>1 DEF IsInjective
    <3> QED BY <1>1, <3>2
  <2>4. CASE a \in 1 .. m /\ b \in m + 1 .. m + n
      BY <1>3, <1>4, <1>9, <2>1, <2>4
  <2>5. CASE a \in m + 1 .. m + n /\ b \in 1 .. m
      BY <1>3, <1>4, <1>9, <2>1, <2>5
  <2>6. \A i \in 1 .. m + n : i \in 1 .. m \/ i \in m + 1 .. m + n
      BY <1>1
  <2> QED BY <2>2, <2>3, <2>4, <2>5, <2>6
<1>10. IsInjective(j)
    BY <1>2, <1>9 DEF IsInjective
<1>11. ToSet(j) = ToSet(s) \union ToSet(t)
    BY <1>6, <1>7, <1>8
<1> QED BY <1>2, <1>10, <1>11 DEF j

(* SetToSeq lists each element of a finite set once.                        *)
LEMMA SetToSeqProperties ==
    ASSUME NEW S, IsFiniteSet(S)
    PROVE  /\ SetToSeq(S) \in Seq(S)
           /\ ToSet(SetToSeq(S)) = S
           /\ IsInjective(SetToSeq(S))
<1> DEFINE n == Cardinality(S)
           f == SetToSeq(S)
<1>1. n \in Nat /\ ExistsBijection(1 .. n, S)
    BY FS_CardinalityType
<1>2. PICK g \in [1 .. n -> S] : IsInjective(g)
    BY <1>1 DEF ExistsBijection, Bijection, Injection, IsInjective
<1>3. f \in [1 .. n -> S] /\ IsInjective(f)
    BY <1>2 DEF SetToSeq
<1>4. f \in Seq(S) /\ DOMAIN f = 1 .. n
    BY <1>1, <1>3
<1>5. f \in Injection(1 .. n, S)
    BY <1>3 DEF Injection, IsInjective
<1>6. IsFiniteSet(1 .. n) /\ Cardinality(1 .. n) = n
    BY <1>1, FS_Interval
<1>7. f \in Surjection(1 .. n, S)
    BY <1>5, <1>6, FS_Injection
<1>8. ToSet(f) = S
    BY <1>4, <1>7 DEF ToSet, Surjection
<1> QED BY <1>3, <1>4, <1>8

(***************************************************************************)
(* A finite set of integers that is not empty has a greatest element.      *)
(***************************************************************************)
LEMMA GreatestNumber ==
    ASSUME NEW S \in SUBSET Int, IsFiniteSet(S), S # {}
    PROVE  \E x \in S : \A y \in S : y <= x
<1> DEFINE Unbounded(T) == T # {} /\ IsFiniteSet(T) /\ ~ \E x \in T : \A y \in T : y <= x
           Bad == {n \in Nat : \E T \in SUBSET Int : Unbounded(T) /\ Cardinality(T) = n}
<1> SUFFICES ASSUME Unbounded(S) PROVE FALSE
    OBVIOUS
<1>1. Cardinality(S) \in Bad
    BY FS_CardinalityType
<1>2. PICK n \in Bad : \A m \in Bad : n <= m
    BY <1>1, LeastNumber
<1>3. PICK T \in SUBSET Int : Unbounded(T) /\ Cardinality(T) = n
    BY <1>2
<1>4. PICK e \in T : TRUE
    BY <1>3
<1>5. IsFiniteSet(T \ {e}) /\ Cardinality(T \ {e}) = n - 1
    BY <1>3, <1>4, FS_RemoveElement
<1>6. ~Unbounded(T \ {e})
  <2>1. n - 1 \notin Bad
      BY <1>2
  <2>2. Cardinality(T \ {e}) \in Nat
      BY <1>5, FS_CardinalityType
  <2> QED BY <1>5, <2>1, <2>2
<1>7. CASE T \ {e} = {}
    BY <1>3, <1>7
<1>8. CASE T \ {e} # {}
  <2>1. PICK x \in T \ {e} : \A y \in T \ {e} : y <= x
      BY <1>5, <1>6, <1>8
  <2>2. \E z \in {x, e} : \A y \in T : y <= z
      BY <2>1
  <2> QED BY <1>3, <1>4, <2>1, <2>2
<1> QED BY <1>7, <1>8
-----------------------------------------------------------------------------
(***************************************************************************)
(* FlattenSeq, by its recursion: the concatenation of the first sequences  *)
(* is that of all before the last of them, and the last.                   *)
(***************************************************************************)
IsFlat(f, s, n) == f = [i \in 1 .. n |-> IF i = 1 THEN s[i] ELSE f[i - 1] \o s[i]]

Flat(s) == CHOOSE f : IsFlat(f, s, Len(s))

(* FlattenSeq is the last value of that function.                           *)
LEMMA FlattenIsFlat ==
    ASSUME NEW s
    PROVE  FlattenSeq(s) = IF Len(s) = 0 THEN s ELSE Flat(s)[Len(s)]
BY DEF FlattenSeq, Flat, IsFlat

(* The recursion defines a function.                                        *)
LEMMA FlatExists ==
    ASSUME NEW s, NEW l \in Nat
    PROVE  \E f : IsFlat(f, s, l)
<1> DEFINE Bad == {n \in Nat : ~ \E f : IsFlat(f, s, n)}
<1>1. SUFFICES ASSUME Bad # {} PROVE FALSE
    OBVIOUS
<1>2. PICK n \in Bad : \A k \in Bad : n <= k
    BY <1>1, LeastNumber
<1>3. n # 0
  <2> DEFINE f == [i \in 1 .. 0 |-> <<>>]
  <2>1. IsFlat(f, s, 0)
      BY DEF IsFlat
  <2> QED BY <2>1
<1>4. n \in Nat /\ n - 1 \in Nat /\ n - 1 \notin Bad
    BY <1>2, <1>3
<1>5. PICK f : IsFlat(f, s, n - 1)
    BY <1>4
<1> DEFINE g == [i \in 1 .. n |-> IF i < n THEN f[i]
                                  ELSE IF n = 1 THEN s[n] ELSE f[n - 1] \o s[n]]
           h == [i \in 1 .. n |-> IF i = 1 THEN s[i] ELSE g[i - 1] \o s[i]]
<1>6. ASSUME NEW i \in 1 .. n PROVE g[i] = h[i]
  <2>1. CASE i = n
    <3>1. n # 1 => g[i - 1] = f[n - 1]
        BY <1>4, <2>1
    <3> QED BY <2>1, <3>1
  <2>2. CASE i < n
    <3>1. i \in 1 .. n - 1 /\ g[i] = f[i]
        BY <1>4, <2>2
    <3>2. f[i] = IF i = 1 THEN s[i] ELSE f[i - 1] \o s[i]
        BY <1>5, <3>1 DEF IsFlat
    <3>3. i # 1 => g[i - 1] = f[i - 1]
        BY <1>4, <3>1
    <3> QED BY <3>1, <3>2, <3>3
  <2> QED BY <1>4, <2>1, <2>2
<1>7. g = h
    BY <1>6
<1>8. IsFlat(g, s, n)
    BY <1>7 DEF IsFlat
<1> QED BY <1>2, <1>8

(* It has the values the recursion says,                                    *)
LEMMA FlatStep ==
    ASSUME NEW S, NEW s \in Seq(S)
    PROVE  \A i \in 1 .. Len(s) : Flat(s)[i] = IF i = 1 THEN s[i] ELSE Flat(s)[i - 1] \o s[i]
<1>1. Len(s) \in Nat
    OBVIOUS
<1>2. IsFlat(Flat(s), s, Len(s))
    BY <1>1, FlatExists DEF Flat
<1> DEFINE f == Flat(s)
<1> HIDE DEF f
<1>3. f = [i \in 1 .. Len(s) |-> IF i = 1 THEN s[i] ELSE f[i - 1] \o s[i]]
    BY <1>2 DEF IsFlat, f
<1> SUFFICES ASSUME NEW i \in 1 .. Len(s)
             PROVE  f[i] = IF i = 1 THEN s[i] ELSE f[i - 1] \o s[i]
    BY DEF f
<1> QED BY <1>3

(* which are sequences.                                                     *)
LEMMA FlatType ==
    ASSUME NEW S, NEW s \in Seq(Seq(S)), NEW n \in 1 .. Len(s)
    PROVE  Flat(s)[n] \in Seq(S)
<1> DEFINE Bad == {k \in Nat : k \in 1 .. Len(s) /\ Flat(s)[k] \notin Seq(S)}
<1>1. SUFFICES ASSUME Bad # {} PROVE FALSE
    OBVIOUS
<1>2. PICK k \in Bad : \A j \in Bad : k <= j
    BY <1>1, LeastNumber
<1>3. k \in 1 .. Len(s) /\ s[k] \in Seq(S)
    BY <1>2
<1>4. Flat(s)[k] = IF k = 1 THEN s[k] ELSE Flat(s)[k - 1] \o s[k]
    BY <1>3, FlatStep
<1>5. k # 1 => Flat(s)[k - 1] \in Seq(S)
    BY <1>2, <1>3
<1>6. Flat(s)[k] \in Seq(S)
  <2>1. CASE k = 1
      BY <1>3, <1>4, <2>1
  <2>2. CASE k # 1
      BY <1>3, <1>4, <1>5, <2>2, ConcatProperties
  <2> QED BY <2>1, <2>2
<1> QED BY <1>2, <1>6

(* The values for the first sequences do not depend on those that follow.   *)
LEMMA FlatOfFirst ==
    ASSUME NEW S, NEW s \in Seq(S), NEW t \in Seq(S), Len(s) <= Len(t),
           \A i \in 1 .. Len(s) : s[i] = t[i]
    PROVE  \A n \in 1 .. Len(s) : Flat(t)[n] = Flat(s)[n]
<1> DEFINE Bad == {k \in Nat : k \in 1 .. Len(s) /\ Flat(t)[k] # Flat(s)[k]}
<1>1. SUFFICES ASSUME Bad # {} PROVE FALSE
    OBVIOUS
<1>2. PICK k \in Bad : \A j \in Bad : k <= j
    BY <1>1, LeastNumber
<1>3. k \in 1 .. Len(s) /\ k \in 1 .. Len(t) /\ s[k] = t[k]
    BY <1>2
<1>4. Flat(s)[k] = IF k = 1 THEN s[k] ELSE Flat(s)[k - 1] \o s[k]
    BY <1>3, FlatStep
<1>5. Flat(t)[k] = IF k = 1 THEN t[k] ELSE Flat(t)[k - 1] \o t[k]
    BY <1>3, FlatStep
<1>6. k # 1 => Flat(t)[k - 1] = Flat(s)[k - 1]
    BY <1>2, <1>3
<1> QED BY <1>2, <1>3, <1>4, <1>5, <1>6

(* Nothing, one sequence, and one more.                                     *)
LEMMA FlattenProperties ==
    ASSUME NEW S, NEW s \in Seq(Seq(S)), NEW x \in Seq(S)
    PROVE  /\ FlattenSeq(<<>>) = <<>>
           /\ FlattenSeq(<<x>>) = x
           /\ FlattenSeq(s) \in Seq(S)
           /\ FlattenSeq(Append(s, x)) = FlattenSeq(s) \o x
<1>1. FlattenSeq(<<>>) = <<>>
  <2>1. Len(<<>>) = 0
      BY EmptySeq
  <2> QED BY <2>1, FlattenIsFlat
<1>2. FlattenSeq(<<x>>) = x
  <2> DEFINE t == <<x>>
  <2>1. t \in Seq(Seq(S)) /\ Len(t) = 1 /\ t[1] = x
      OBVIOUS
  <2> HIDE DEF t
  <2>2. 1 \in 1 .. Len(t)
      BY <2>1
  <2>3. Flat(t)[1] = x
      BY <2>1, <2>2, FlatStep
  <2>4. Len(t) # 0
      BY <2>1
  <2>5. FlattenSeq(t) = Flat(t)[Len(t)]
      BY <2>4, FlattenIsFlat
  <2>6. FlattenSeq(t) = x
      BY <2>1, <2>3, <2>5
  <2> QED BY <2>6 DEF t
<1>3. FlattenSeq(s) \in Seq(S)
  <2>1. CASE Len(s) = 0
    <3>1. s = <<>> /\ <<>> \in Seq(S)
        BY <2>1, EmptySeq
    <3> QED BY <1>1, <3>1
  <2>2. CASE Len(s) # 0
    <3>1. Len(s) \in 1 .. Len(s)
        BY <2>2
    <3> QED BY <2>2, <3>1, FlatType, FlattenIsFlat
  <2> QED BY <2>1, <2>2
<1>4. FlattenSeq(Append(s, x)) = FlattenSeq(s) \o x
  <2> DEFINE t == Append(s, x)
             n == Len(s)
  <2>1. /\ t \in Seq(Seq(S)) /\ Len(t) = n + 1 /\ n \in Nat /\ t[n + 1] = x
        /\ \A i \in 1 .. n : t[i] = s[i]
      OBVIOUS
  <2> HIDE DEF t, n
  <2>2. FlattenSeq(t) = Flat(t)[n + 1]
      BY <2>1, FlattenIsFlat
  <2>3. Flat(t)[n + 1] = IF n = 0 THEN x ELSE Flat(t)[n] \o x
    <3>1. n + 1 \in 1 .. Len(t) /\ (n + 1 = 1 <=> n = 0) /\ (n + 1) - 1 = n
        BY <2>1
    <3> QED BY <2>1, <3>1, FlatStep
  <2>4. CASE n = 0
    <3>1. s = <<>> /\ <<>> \o x = x
        BY <2>4, EmptySeq, ConcatEmptySeq DEF n
    <3> QED BY <1>1, <2>2, <2>3, <2>4, <3>1 DEF t
  <2>5. CASE n # 0
    <3>1. Flat(t)[n] = Flat(s)[n]
      <4>1. n \in 1 .. Len(s) /\ Len(s) <= Len(t) /\ \A i \in 1 .. Len(s) : s[i] = t[i]
          BY <2>1, <2>5 DEF n
      <4> QED BY <2>1, <4>1, FlatOfFirst
    <3>2. FlattenSeq(s) = Flat(s)[n]
        BY <2>5, FlattenIsFlat DEF n
    <3> QED BY <2>2, <2>3, <2>5, <3>1, <3>2 DEF t
  <2> QED BY <2>4, <2>5
<1> QED BY <1>1, <1>2, <1>3, <1>4

(* The first sequence, and the rest.                                        *)
LEMMA FlattenHead ==
    ASSUME NEW S, NEW s \in Seq(Seq(S)), s # <<>>
    PROVE  FlattenSeq(s) = Head(s) \o FlattenSeq(Tail(s))
<1> DEFINE t == Tail(s)
           l == Len(s)
<1>1. /\ l \in Nat /\ l > 0 /\ t \in Seq(Seq(S)) /\ Len(t) = l - 1 /\ Head(s) = s[1]
      /\ \A i \in 1 .. l - 1 : t[i] = s[i + 1]
      /\ s[1] \in Seq(S)
  <2>1. l \in Nat /\ l > 0
      BY EmptySeq
  <2>2. t \in Seq(Seq(S)) /\ Len(t) = l - 1 /\ \A i \in 1 .. l - 1 : t[i] = s[i + 1]
      BY HeadTailProperties
  <2>3. Head(s) = s[1] /\ s[1] \in Seq(S)
      BY <2>1
  <2> QED BY <2>1, <2>2, <2>3
<1> HIDE DEF t, l
<1> DEFINE Bad == {k \in Nat : k \in 1 .. l - 1 /\ Flat(s)[k + 1] # s[1] \o Flat(t)[k]}
<1>2. Bad = {}
  <2>1. SUFFICES ASSUME Bad # {} PROVE FALSE
      OBVIOUS
  <2>2. PICK k \in Bad : \A j \in Bad : k <= j
      BY <2>1, LeastNumber
  <2>3. k \in 1 .. l - 1 /\ k + 1 \in 1 .. l /\ t[k] = s[k + 1] /\ k + 1 # 1 /\ (k + 1) - 1 = k
      BY <1>1, <2>2
  <2>4. Flat(s)[k + 1] = Flat(s)[k] \o s[k + 1]
      BY <2>3, FlatStep DEF l
  <2>5. Flat(t)[k] = IF k = 1 THEN t[k] ELSE Flat(t)[k - 1] \o t[k]
      BY <1>1, <2>3, FlatStep
  <2>6. CASE k = 1
    <3>1. 1 \in 1 .. l
        BY <1>1
    <3>2. Flat(s)[1] = s[1]
        BY <3>1, FlatStep DEF l
    <3> QED BY <2>2, <2>3, <2>4, <2>5, <2>6, <3>2
  <2>7. CASE k # 1
    <3>1. k - 1 \in Nat /\ k - 1 \in 1 .. l - 1 /\ (k - 1) + 1 = k
        BY <1>1, <2>3, <2>7
    <3>5. k - 1 \notin Bad
      <4> HIDE DEF Bad
      <4> QED BY <1>1, <2>2, <2>3
    <3>2. Flat(s)[k] = s[1] \o Flat(t)[k - 1]
        BY <3>1, <3>5
    <3>3. Flat(t)[k - 1] \in Seq(S) /\ t[k] \in Seq(S)
      <4>1. k - 1 \in 1 .. Len(t) /\ k \in 1 .. Len(t)
          BY <1>1, <2>3, <3>1
      <4> QED BY <1>1, <4>1, FlatType
    <3>4. (s[1] \o Flat(t)[k - 1]) \o t[k] = s[1] \o (Flat(t)[k - 1] \o t[k])
      <4> DEFINE u == s[1]
                 v == Flat(t)[k - 1]
                 w == t[k]
      <4>1. u \in Seq(S) /\ v \in Seq(S) /\ w \in Seq(S)
          BY <1>1, <3>3
      <4> HIDE DEF u, v, w, Bad
      <4>2. (u \o v) \o w = u \o (v \o w)
          BY <4>1
      <4> QED BY <4>2 DEF u, v, w
    <3> QED BY <2>2, <2>3, <2>4, <2>5, <2>7, <3>2, <3>4
  <2> QED BY <2>6, <2>7
<1>3. FlattenSeq(s) = Flat(s)[l]
    BY <1>1, FlattenIsFlat DEF l
<1>4. CASE l = 1
  <2>1. Flat(s)[1] = s[1]
    <3>1. 1 \in 1 .. l
        BY <1>1
    <3> QED BY <3>1, FlatStep DEF l
  <2>2. t = <<>> /\ FlattenSeq(t) = <<>>
    <3>1. t = <<>>
        BY <1>1, <1>4, EmptySeq
    <3>2. FlattenSeq(<<>>) = <<>>
        BY <1>1, FlattenProperties
    <3> QED BY <3>1, <3>2
  <2>3. s[1] \o <<>> = s[1]
      BY <1>1, ConcatEmptySeq
  <2> QED BY <1>1, <1>3, <1>4, <2>1, <2>2, <2>3 DEF t
<1>5. CASE l # 1
  <2>1. l - 1 \in 1 .. l - 1 /\ (l - 1) + 1 = l /\ l - 1 \in Nat /\ l - 1 # 0
      BY <1>1, <1>5
  <2>2. Flat(s)[l] = s[1] \o Flat(t)[l - 1]
      BY <1>2, <2>1
  <2>3. FlattenSeq(t) = Flat(t)[l - 1]
      BY <1>1, <2>1, FlattenIsFlat
  <2> QED BY <1>1, <1>3, <2>2, <2>3 DEF t
<1> QED BY <1>4, <1>5
===============================================================================
