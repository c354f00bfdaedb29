--------------------------- MODULE HttpServiceProofs ---------------------------
(***************************************************************************)
(* Proofs about HttpService, for every set of paths, methods, handlers and *)
(* lines, and for requests and histories of every length.                  *)
(*                                                                         *)
(* _routes is a map that is assigned to and looked up in, and looking up   *)
(* assigns.  What RightHandler says of it is about the whole history of a  *)
(* path; the invariant that carries it, RoutesFollowLog, says exactly what *)
(* the code makes of every such history, disputed or not.  That the        *)
(* handler sees what its client sent rests on what split does to the lines *)
(* of a request, and HeaderOf to a header.                                 *)
(***************************************************************************)
EXTENDS HttpService, SequenceLemmas

(***************************************************************************)
(* What the code makes of the history of a path.  If a route for one       *)
(* method was ever added, the last such addition is all there is.          *)
(* Otherwise the first thing that happened to the path counts: an addition *)
(* for all methods lasts, and a request leaves the path without handlers   *)
(* for ever.                                                               *)
(***************************************************************************)
Registered(past, p, m) ==
    {past[i].handler : i \in
       {j \in Of(past, p, "one") :
          past[j].method = m /\ \A k \in Of(past, p, "one") : k <= j}}
    \union
    {past[i].handler : i \in
       {j \in Of(past, p, "all") :
          m \in AllMethods /\ Of(past, p, "one") = {}
            /\ \A k \in DOMAIN past : past[k].path = p => j <= k}}

HandlerFor(p, m) ==
    IF p \in DOMAIN routes /\ m \in DOMAIN routes[p] THEN routes[p][m] ELSE NoHandler

Right(past, p, m) ==
    IF Registered(past, p, m) = {} THEN {NoHandler} ELSE Registered(past, p, m)

RoutesFollowLog ==
    /\ \A p \in Path : p \in DOMAIN routes <=> \E i \in DOMAIN log : log[i].path = p
    /\ \A p \in Path, m \in Method : HandlerFor(p, m) \in Right(log, p, m)

IsLastLookup(past, i) ==
    /\ i \in DOMAIN past
    /\ past[i].type = "lookup"
    /\ \A j \in DOMAIN past : past[j].type = "lookup" => j <= i

Answering ==
    phase = "handling" =>
        /\ \E i \in DOMAIN log : IsLastLookup(log, i)
        /\ handler \in Right(Past, request.path, request.method)

-----------------------------------------------------------------------------
(***************************************************************************)
(* How one more entry of the history changes what it calls for.            *)
(***************************************************************************)
LEMMA OneMore ==
    ASSUME NEW past \in Seq(Entries), NEW e \in Entries
    PROVE  /\ Append(past, e) \in Seq(Entries)
           /\ DOMAIN past = 1 .. Len(past) /\ Len(past) \in Nat
           /\ DOMAIN Append(past, e) = 1 .. Len(past) + 1
           /\ \A i \in DOMAIN past : i \in DOMAIN Append(past, e) /\ Append(past, e)[i] = past[i]
           /\ Append(past, e)[Len(past) + 1] = e
           /\ \A i \in DOMAIN Append(past, e) : i \in DOMAIN past \/ i = Len(past) + 1
OBVIOUS

(* An entry of another path, a lookup, or an addition for all methods to a *)
(* path that is known changes nothing.                                     *)
LEMMA NothingNew ==
    ASSUME NEW past \in Seq(Entries), NEW e \in Entries, NEW p \in Path, NEW m \in Method,
           \/ e.path # p
           \/ e.type = "lookup"
           \/ e.type = "all" /\ \E i \in DOMAIN past : past[i].path = p
    PROVE  Registered(Append(past, e), p, m) = Registered(past, p, m)
<1> DEFINE q == Append(past, e)
           n == Len(past) + 1
<1>1. /\ DOMAIN past = 1 .. Len(past) /\ Len(past) \in Nat /\ DOMAIN q = 1 .. n
      /\ \A i \in DOMAIN past : i \in DOMAIN q /\ q[i] = past[i]
      /\ q[n] = e
      /\ \A i \in DOMAIN q : i \in DOMAIN past \/ i = n
    BY OneMore
<1> HIDE DEF q, n
<1>2. e.path # p \/ e.type # "one"
    OBVIOUS
<1>3. Of(q, p, "one") = Of(past, p, "one")
    BY <1>1, <1>2 DEF Of
<1>4. \A j : /\ j \in Of(q, p, "all")
             /\ \A k \in DOMAIN q : q[k].path = p => j <= k
         <=> /\ j \in Of(past, p, "all")
             /\ \A k \in DOMAIN past : past[k].path = p => j <= k
  <2>1. ASSUME NEW j \in Of(past, p, "all"),
               \A k \in DOMAIN past : past[k].path = p => j <= k
        PROVE  j \in Of(q, p, "all") /\ \A k \in DOMAIN q : q[k].path = p => j <= k
      BY <1>1, <2>1, n = Len(past) + 1 DEF Of, n
  <2>2. ASSUME NEW j \in Of(q, p, "all"),
               \A k \in DOMAIN q : q[k].path = p => j <= k
        PROVE  j \in Of(past, p, "all") /\ \A k \in DOMAIN past : past[k].path = p => j <= k
    <3>1. j \in DOMAIN past
      <4>1. CASE e.type = "lookup" \/ e.path # p
          BY <1>1, <2>2, <4>1 DEF Of
      <4>2. CASE e.type = "all" /\ \E i \in DOMAIN past : past[i].path = p
        <5>1. PICK i \in DOMAIN past : past[i].path = p
            BY <4>2
        <5>2. j <= i
            BY <1>1, <2>2, <5>1
        <5>3. j # n
            BY <1>1, <5>1, <5>2 DEF n
        <5> QED BY <1>1, <2>2, <5>3 DEF Of
      <4> QED BY <4>1, <4>2
    <3> QED BY <1>1, <2>2, <3>1 DEF Of
  <2> QED BY <2>1, <2>2
<1>5. {q[i].handler : i \in {j \in Of(q, p, "one") : q[j].method = m /\ \A k \in Of(q, p, "one") : k <= j}}
      = {past[i].handler : i \in {j \in Of(past, p, "one") :
                                     past[j].method = m /\ \A k \in Of(past, p, "one") : k <= j}}
    BY <1>1, <1>3 DEF Of
<1>6. {q[i].handler : i \in {j \in Of(q, p, "all") :
          m \in AllMethods /\ Of(q, p, "one") = {} /\ \A k \in DOMAIN q : q[k].path = p => j <= k}}
      = {past[i].handler : i \in {j \in Of(past, p, "all") :
          m \in AllMethods /\ Of(past, p, "one") = {} /\ \A k \in DOMAIN past : past[k].path = p => j <= k}}
    BY <1>1, <1>3, <1>4 DEF Of
<1>7. Registered(q, p, m) = Registered(past, p, m)
    BY <1>5, <1>6 DEF Registered
<1> QED BY <1>7 DEF q

(* The first entry of a path, if it adds a handler for all methods.        *)
LEMMA FirstAll ==
    ASSUME NEW past \in Seq(Entries), NEW e \in Entries, NEW m \in Method,
           e.type = "all", ~ \E i \in DOMAIN past : past[i].path = e.path
    PROVE  Registered(Append(past, e), e.path, m) = IF m \in AllMethods THEN {e.handler} ELSE {}
<1> DEFINE q == Append(past, e)
           n == Len(past) + 1
           p == e.path
<1>1. /\ DOMAIN past = 1 .. Len(past) /\ Len(past) \in Nat /\ DOMAIN q = 1 .. n
      /\ \A i \in DOMAIN past : i \in DOMAIN q /\ q[i] = past[i]
      /\ q[n] = e
      /\ \A i \in DOMAIN q : i \in DOMAIN past \/ i = n
      /\ n \in DOMAIN q
    BY OneMore
<1> HIDE DEF q, n
<1>2. Of(q, p, "one") = {} /\ Of(q, p, "all") = {n}
    BY <1>1 DEF Of
<1>3. \A k \in DOMAIN q : q[k].path = p => n <= k
    BY <1>1
<1>4. Registered(q, p, m) = IF m \in AllMethods THEN {e.handler} ELSE {}
    BY <1>1, <1>2, <1>3 DEF Registered
<1> QED BY <1>4 DEF q

(* An addition for one method is all there is from then on.                *)
LEMMA LastOne ==
    ASSUME NEW past \in Seq(Entries), NEW e \in Entries, NEW m \in Method, e.type = "one"
    PROVE  Registered(Append(past, e), e.path, m) = IF m = e.method THEN {e.handler} ELSE {}
<1> DEFINE q == Append(past, e)
           n == Len(past) + 1
           p == e.path
<1>1. /\ DOMAIN past = 1 .. Len(past) /\ Len(past) \in Nat /\ DOMAIN q = 1 .. n
      /\ \A i \in DOMAIN past : i \in DOMAIN q /\ q[i] = past[i]
      /\ q[n] = e
      /\ \A i \in DOMAIN q : i \in DOMAIN past \/ i = n
      /\ n \in DOMAIN q /\ n \in Nat /\ \A i \in DOMAIN q : i \in Int /\ i <= n
    BY OneMore
<1> HIDE DEF q, n
<1>2. n \in Of(q, p, "one") /\ \A k \in Of(q, p, "one") : k \in DOMAIN q
    BY <1>1 DEF Of
<1>3. {j \in Of(q, p, "one") : \A k \in Of(q, p, "one") : k <= j} = {n}
    BY <1>1, <1>2
<1>4. {j \in Of(q, p, "one") : q[j].method = m /\ \A k \in Of(q, p, "one") : k <= j}
      = IF m = e.method THEN {n} ELSE {}
    BY <1>1, <1>3
<1>5. Registered(q, p, m) = IF m = e.method THEN {e.handler} ELSE {}
    BY <1>1, <1>2, <1>4 DEF Registered
<1> QED BY <1>5 DEF q
-----------------------------------------------------------------------------
(***************************************************************************)
(* split.                                                                  *)
(***************************************************************************)
IsTokens(f, s, n) ==
    f = [i \in 0 .. n |-> IF i = 0 THEN <<>>
                          ELSE IF s[i] = Blank THEN f[i - 1]
                          ELSE Append(f[i - 1], s[i])]

Tokens(s) == CHOOSE f : IsTokens(f, s, Len(s))

LEMMA SplitIsTokens ==
    ASSUME NEW s
    PROVE  split(s) = Tokens(s)[Len(s)]
BY DEF split, Tokens, IsTokens

(* The recursion defines a function: the tokens of one more line are those *)
(* of the lines before and perhaps the line.                               *)
LEMMA TokensExist ==
    ASSUME NEW s, NEW l \in Nat
    PROVE  \E f : IsTokens(f, s, l)
<1> DEFINE Bad == {n \in Nat : ~ \E f : IsTokens(f, s, n)}
<1>1. SUFFICES ASSUME Bad # {} PROVE FALSE
    OBVIOUS
<1>2. PICK n \in Bad : \A k \in Bad : n <= k
    BY <1>1, LeastNumber
<1>3. n # 0
  <2> DEFINE f == [i \in 0 .. 0 |-> <<>>]
  <2>1. IsTokens(f, s, 0)
      BY DEF IsTokens
  <2> QED BY <2>1
<1>4. n \in Nat /\ n - 1 \in Nat /\ n - 1 \notin Bad
    BY <1>2, <1>3
<1>5. PICK f : IsTokens(f, s, n - 1)
    BY <1>4
<1> DEFINE g == [i \in 0 .. n |-> IF i < n THEN f[i]
                                  ELSE IF s[n] = Blank THEN f[n - 1]
                                  ELSE Append(f[n - 1], s[n])]
           h == [i \in 0 .. n |-> IF i = 0 THEN <<>>
                                  ELSE IF s[i] = Blank THEN g[i - 1]
                                  ELSE Append(g[i - 1], s[i])]
<1>6. ASSUME NEW i \in 0 .. n PROVE g[i] = h[i]
  <2>1. CASE i = n
    <3>1. g[i - 1] = f[n - 1]
        BY <1>4, <2>1
    <3> QED BY <1>3, <2>1, <3>1
  <2>2. CASE i < n
    <3>1. i \in 0 .. n - 1 /\ g[i] = f[i]
        BY <1>4, <2>2
    <3>2. f[i] = IF i = 0 THEN <<>> ELSE IF s[i] = Blank THEN f[i - 1] ELSE Append(f[i - 1], s[i])
        BY <1>5, <3>1 DEF IsTokens
    <3>3. i # 0 => g[i - 1] = f[i - 1]
        BY <1>4, <3>1
    <3> QED BY <3>1, <3>2, <3>3
  <2> QED BY <1>4, <2>1, <2>2
<1>7. g = h
    BY <1>6
<1>8. IsTokens(g, s, n)
    BY <1>7 DEF IsTokens
<1> QED BY <1>2, <1>8

LEMMA TokensStep ==
    ASSUME NEW S, NEW s \in Seq(S)
    PROVE  /\ Tokens(s)[0] = <<>>
           /\ \A i \in 1 .. Len(s) :
                 Tokens(s)[i] = IF s[i] = Blank THEN Tokens(s)[i - 1]
                                ELSE Append(Tokens(s)[i - 1], s[i])
<1>1. Len(s) \in Nat
    OBVIOUS
<1>2. IsTokens(Tokens(s), s, Len(s))
    BY <1>1, TokensExist DEF Tokens
<1> DEFINE f == Tokens(s)
<1> HIDE DEF f
<1>3. f = [i \in 0 .. Len(s) |-> IF i = 0 THEN <<>>
                                  ELSE IF s[i] = Blank THEN f[i - 1]
                                  ELSE Append(f[i - 1], s[i])]
    BY <1>2 DEF IsTokens, f
<1>4. f[0] = <<>>
    BY <1>1, <1>3
<1>5. ASSUME NEW i \in 1 .. Len(s)
      PROVE  f[i] = IF s[i] = Blank THEN f[i - 1] ELSE Append(f[i - 1], s[i])
  <2>1. i \in 0 .. Len(s) /\ i # 0
      BY <1>1
  <2> QED BY <1>3, <2>1
<1> QED BY <1>4, <1>5 DEF f

(* The tokens are lines of the request, but for the blank ones.            *)
LEMMA TokensType ==
    ASSUME NEW S, NEW s \in Seq(S), NEW n \in 0 .. Len(s)
    PROVE  Tokens(s)[n] \in Seq(S \ {Blank}) /\ Len(Tokens(s)[n]) <= n
<1> DEFINE Good(k) == Tokens(s)[k] \in Seq(S \ {Blank}) /\ Len(Tokens(s)[k]) <= k
           Bad == {k \in Nat : k <= Len(s) /\ ~Good(k)}
<1>1. SUFFICES ASSUME Bad # {} PROVE FALSE
    OBVIOUS
<1>2. PICK k \in Bad : \A j \in Bad : k <= j
    BY <1>1, LeastNumber
<1>3. k # 0
  <2>1. Tokens(s)[0] = <<>>
      BY TokensStep
  <2>2. Good(0)
      BY <2>1, EmptySeq
  <2> QED BY <1>2, <2>2
<1>4. k \in 1 .. Len(s) /\ Good(k - 1)
    BY <1>2, <1>3
<1>5. s[k] \in S
    BY <1>4
<1>6. Good(k)
  <2> DEFINE t == Tokens(s)[k - 1]
  <2>1. Tokens(s)[k] = t \/ (s[k] # Blank /\ Tokens(s)[k] = Append(t, s[k]))
      BY <1>4, TokensStep
  <2>2. t \in Seq(S \ {Blank}) /\ Len(t) <= k - 1
      BY <1>4
  <2> HIDE DEF t
  <2>3. /\ s[k] # Blank => Append(t, s[k]) \in Seq(S \ {Blank})
        /\ Len(Append(t, s[k])) = Len(t) + 1 /\ Len(t) \in Nat
      BY <1>5, <2>2
  <2>4. Tokens(s)[k] \in Seq(S \ {Blank})
      BY <2>1, <2>2, <2>3
  <2>5. Len(Tokens(s)[k]) <= k
      BY <1>4, <2>1, <2>2, <2>3
  <2> QED BY <2>4, <2>5
<1> QED BY <1>2, <1>6

(* Up to the first blank line the tokens are the lines.                    *)
LEMMA TokensBeforeBlank ==
    ASSUME NEW S, NEW s \in Seq(S), NEW n \in 0 .. Len(s), \A i \in 1 .. n : s[i] # Blank
    PROVE  Tokens(s)[n] = SubSeq(s, 1, n)
<1> DEFINE Good(k) == Tokens(s)[k] = SubSeq(s, 1, k)
           Bad == {k \in Nat : k <= n /\ ~Good(k)}
<1>1. SUFFICES ASSUME Bad # {} PROVE FALSE
    OBVIOUS
<1>2. PICK k \in Bad : \A j \in Bad : k <= j
    BY <1>1, LeastNumber
<1>3. k # 0
  <2>1. Tokens(s)[0] = <<>>
      BY TokensStep
  <2>2. SubSeq(s, 1, 0) = <<>>
      BY SubSeqEmpty
  <2>3. Good(0)
      BY <2>1, <2>2
  <2> QED BY <1>2, <2>3
<1>4. k \in 1 .. n /\ k \in 1 .. Len(s) /\ Good(k - 1)
    BY <1>2, <1>3
<1>5. Tokens(s)[k] = Append(SubSeq(s, 1, k - 1), s[k])
    BY <1>4, TokensStep
<1>6. Append(SubSeq(s, 1, k - 1), s[k]) = SubSeq(s, 1, k)
  <2> DEFINE a == SubSeq(s, 1, k - 1)
             b == SubSeq(s, 1, k)
  <2>1. /\ a \in Seq(S) /\ Len(a) = k - 1 /\ \A i \in 1 .. k - 1 : a[i] = s[i]
        /\ b \in Seq(S) /\ Len(b) = k /\ \A i \in 1 .. k : b[i] = s[i]
      BY <1>4, SubSeqProperties
  <2>2. s[k] \in S
      BY <1>4
  <2> HIDE DEF a, b
  <2>3. Append(a, s[k]) \in Seq(S) /\ Len(Append(a, s[k])) = Len(b)
      BY <1>4, <2>1, <2>2
  <2>4. \A i \in 1 .. Len(b) : Append(a, s[k])[i] = b[i]
      BY <1>4, <2>1, <2>2
  <2>5. Append(a, s[k]) = b
      BY <2>1, <2>3, <2>4, SeqEqual
  <2> QED BY <2>5 DEF a, b
<1> QED BY <1>2, <1>5, <1>6
LEMMA SplitType ==
    ASSUME NEW S, NEW s \in Seq(S)
    PROVE  split(s) \in Seq(S \ {Blank}) /\ Len(split(s)) <= Len(s)
<1>1. Len(s) \in 0 .. Len(s)
    OBVIOUS
<1> QED BY <1>1, SplitIsTokens, TokensType

(* Of a request without a body only the blank line goes.                   *)
LEMMA SplitHeaders ==
    ASSUME NEW S, Blank \in S, NEW h \in Seq(S), \A i \in 1 .. Len(h) : h[i] # Blank
    PROVE  split(h \o <<Blank>> \o <<>>) = h
<1> DEFINE s == h \o <<Blank>> \o <<>>
           n == Len(h)
<1>1. /\ s \in Seq(S) /\ Len(s) = n + 1 /\ n \in Nat
      /\ s[n + 1] = Blank /\ \A i \in 1 .. n : s[i] = h[i]
    OBVIOUS
<1> HIDE DEF s
<1>2. SubSeq(s, 1, n) = h
  <2>1. /\ SubSeq(s, 1, n) \in Seq(S) /\ Len(SubSeq(s, 1, n)) = n
        /\ \A i \in 1 .. n : SubSeq(s, 1, n)[i] = h[i]
      BY <1>1, SubSeqProperties
  <2> QED BY <2>1, SeqEqual
<1>3. Tokens(s)[n] = h
  <2>1. n \in 0 .. Len(s) /\ \A i \in 1 .. n : s[i] # Blank
      BY <1>1
  <2>2. Tokens(s)[n] = SubSeq(s, 1, n)
      BY <1>1, <2>1, TokensBeforeBlank
  <2> QED BY <1>2, <2>2
<1>4. Tokens(s)[n + 1] = h
  <2>1. n + 1 \in 1 .. Len(s) /\ (n + 1) - 1 = n
      BY <1>1
  <2>2. Tokens(s)[n + 1] = Tokens(s)[(n + 1) - 1]
      BY <1>1, <2>1, TokensStep
  <2> QED BY <1>3, <2>1, <2>2
<1>5. split(s) = h
    BY <1>1, <1>4, SplitIsTokens
<1> QED BY <1>5 DEF s

(* Of a request with a body of one line, too.                              *)
LEMMA SplitBody ==
    ASSUME NEW S, Blank \in S, NEW h \in Seq(S), \A i \in 1 .. Len(h) : h[i] # Blank,
           NEW x \in S, x # Blank
    PROVE  split(h \o <<Blank>> \o <<x>>) = Append(h, x)
<1> DEFINE s == h \o <<Blank>> \o <<x>>
           n == Len(h)
<1>1. /\ s \in Seq(S) /\ Len(s) = n + 2 /\ n \in Nat
      /\ s[n + 1] = Blank /\ s[n + 2] = x /\ \A i \in 1 .. n : s[i] = h[i]
    OBVIOUS
<1> HIDE DEF s
<1>2. SubSeq(s, 1, n) = h
  <2>1. /\ SubSeq(s, 1, n) \in Seq(S) /\ Len(SubSeq(s, 1, n)) = n
        /\ \A i \in 1 .. n : SubSeq(s, 1, n)[i] = h[i]
      BY <1>1, SubSeqProperties
  <2> QED BY <2>1, SeqEqual
<1>3. Tokens(s)[n] = h
  <2>1. n \in 0 .. Len(s) /\ \A i \in 1 .. n : s[i] # Blank
      BY <1>1
  <2>2. Tokens(s)[n] = SubSeq(s, 1, n)
      BY <1>1, <2>1, TokensBeforeBlank
  <2> QED BY <1>2, <2>2
<1>4. Tokens(s)[n + 1] = h
  <2>1. n + 1 \in 1 .. Len(s) /\ (n + 1) - 1 = n
      BY <1>1
  <2>2. Tokens(s)[n + 1] = Tokens(s)[(n + 1) - 1]
      BY <1>1, <2>1, TokensStep
  <2> QED BY <1>3, <2>1, <2>2
<1>5. Tokens(s)[n + 2] = Append(h, x)
  <2>1. n + 2 \in 1 .. Len(s) /\ (n + 2) - 1 = n + 1
      BY <1>1
  <2>2. Tokens(s)[n + 2] = Append(Tokens(s)[(n + 2) - 1], x)
      BY <1>1, <2>1, TokensStep
  <2> QED BY <1>4, <2>1, <2>2
<1>6. split(s) = Append(h, x)
    BY <1>1, <1>5, SplitIsTokens
<1> QED BY <1>6 DEF s

-----------------------------------------------------------------------------
(***************************************************************************)
(* RequestFromBuffer.                                                      *)
(***************************************************************************)
Lines == Header \union [text : Text \union {""}]

LEMMA SentTypes ==
    ASSUME NEW r \in Sendable
    PROVE  /\ r.path \in Path /\ r.method \in Method \union {UnknownMethod}
           /\ r.headers \in Seq(Header) /\ r.body \in Seq(Text)
           /\ methodMapping(r.method) \in Method
<1>1. \A S : \A n \in Nat : \A s \in BoundedSeq(S, n) : s \in Seq(S)
    BY DEF BoundedSeq, SeqOf
<1> QED BY <1>1, HttpServiceAssumption DEF Sendable, methodMapping

LEMMA LineKinds ==
    /\ \A l \in Header : l # Blank /\ "text" \notin DOMAIN l
    /\ \A l \in [text : Text] : "text" \in DOMAIN l
    /\ Blank \in Lines /\ Header \subseteq Lines
    /\ Lines \ {Blank} \subseteq Line
<1>1. ASSUME NEW l \in Header PROVE l # Blank /\ "text" \notin DOMAIN l
  <2>1. DOMAIN l = {"key", "value", "gap"}
      BY DEF Header
  <2>2. DOMAIN Blank = {"text"}
      BY DEF Blank
  <2> QED BY <2>1, <2>2
<1>2. \A l \in [text : Text] : "text" \in DOMAIN l
    OBVIOUS
<1>3. Blank \in Lines /\ Header \subseteq Lines
    BY DEF Blank, Lines
<1>4. ASSUME NEW l \in [text : Text \union {""}], l # Blank
      PROVE  l \in [text : Text]
  <2>1. l = [text |-> l.text] /\ l.text \in Text \union {""}
      OBVIOUS
  <2>2. l.text # ""
      BY <1>4, <2>1 DEF Blank
  <2> QED BY <2>1, <2>2
<1>5. Lines \ {Blank} \subseteq Line
    BY <1>4 DEF Lines, Line
<1> QED BY <1>1, <1>2, <1>3, <1>5

(* What is read of a header, and of another line.                          *)
LEMMA HeaderIsRead ==
    /\ \A l \in Header :
          /\ HeaderOf(l) \in HeaderRead
          /\ HeaderOf(l).key = l.key
          /\ l.gap = "one" => HeaderOf(l).value = l.value /\ HeaderOf(l).left = "whole"
    /\ \A l \in [text : Text] : HeaderOf(l) \in HeaderRead
<1>1. ASSUME NEW l \in Header
      PROVE  /\ HeaderOf(l) \in HeaderRead
             /\ HeaderOf(l).key = l.key
             /\ l.gap = "one" => HeaderOf(l).value = l.value /\ HeaderOf(l).left = "whole"
  <2>1. l.key \in Key /\ l.value \in Value \union {NoValue} /\ l.gap \in {"none", "one", "more"}
      BY DEF Header
  <2>2. "text" \notin DOMAIN l
      BY LineKinds
  <2>3. PICK left \in {"whole", "cut", "spaced"} :
          /\ HeaderOf(l) = [key |-> l.key, value |-> l.value, left |-> left]
          /\ l.gap = "one" => left = "whole"
      BY <2>1, <2>2 DEF HeaderOf
  <2> QED BY <2>1, <2>3 DEF HeaderRead
<1>2. ASSUME NEW l \in [text : Text]
      PROVE  HeaderOf(l) \in HeaderRead
  <2>1. HeaderOf(l) = [key |-> l.text, value |-> l.text, left |-> "cut"]
      BY LineKinds DEF HeaderOf
  <2> QED BY <2>1 DEF HeaderRead
<1> QED BY <1>1, <1>2

LEMMA BufferType ==
    ASSUME NEW r \in Sendable
    PROVE  Buffer(r) \in Seq(Lines)
<1>1. r.headers \in Seq(Lines) /\ <<Blank>> \in Seq(Lines)
    BY SentTypes, LineKinds
<1>2. [i \in DOMAIN r.body |-> [text |-> r.body[i]]] \in Seq(Lines)
  <2>1. Len(r.body) \in Nat /\ DOMAIN r.body = 1 .. Len(r.body)
        /\ \A i \in 1 .. Len(r.body) : r.body[i] \in Text
      BY SentTypes
  <2>2. [i \in 1 .. Len(r.body) |-> [text |-> r.body[i]]] \in [1 .. Len(r.body) -> Lines]
      BY <2>1 DEF Lines
  <2> QED BY <2>1, <2>2, SeqDef
<1> QED BY <1>1, <1>2, ConcatProperties DEF Buffer

(* What the parser makes of a request has the right types, if it does make *)
(* something of it.                                                        *)
LEMMA RequestType ==
    ASSUME NEW r \in Sendable, ~ParserUndefined(r)
    PROVE  RequestFromBuffer(r) \in Requests
<1> DEFINE lines == split(Buffer(r))
           m == methodMapping(r.method)
           n == TotalHeaders(lines, m)
           hs == [i \in 1 .. n |-> HeaderOf(lines[i])]
           b == IF n = Len(lines) THEN NoBody ELSE lines[n + 1]
<1>1. lines \in Seq(Line) /\ Len(lines) \in Nat
  <2>1. lines \in Seq(Lines \ {Blank})
      BY BufferType, SplitType
  <2> QED BY <2>1, LineKinds, SeqMonotonic
<1>2. n \in Nat /\ n <= Len(lines)
    BY <1>1, EmptySeq DEF TotalHeaders, ParserUndefined
<1>3. RequestFromBuffer(r) = [path |-> r.path, method |-> m, headers |-> hs, body |-> b]
    BY DEF RequestFromBuffer
<1>4. r.path \in Path /\ m \in Method
    BY SentTypes
<1> HIDE DEF lines, m, n
<1>5. ASSUME NEW i \in 1 .. n
      PROVE  HeaderOf(lines[i]) \in HeaderRead
  <2>1. lines[i] \in Line
      BY <1>1, <1>2
  <2> QED BY <2>1, HeaderIsRead DEF Line
<1>6. hs \in Seq(HeaderRead)
    BY <1>2, <1>5, SeqDef
<1>7. b \in Line \union {NoBody}
    BY <1>1, <1>2
<1> QED BY <1>3, <1>4, <1>6, <1>7 DEF Requests
LEMMA BodyOfOne ==
    ASSUME NEW line, NEW b, b = <<line>>
    PROVE  /\ [i \in DOMAIN b |-> [text |-> b[i]]] = <<[text |-> line]>>
           /\ b # <<>> /\ b[1] = line
<1>1. DOMAIN b = 1 .. 1 /\ b[1] = line /\ b # <<>>
    OBVIOUS
<1> DEFINE f == [i \in DOMAIN b |-> [text |-> b[i]]]
           g == <<[text |-> line]>>
<1>2. f \in [1 .. 1 -> {[text |-> line]}]
    BY <1>1
<1>3. f \in Seq({[text |-> line]}) /\ Len(f) = 1
  <2>1. f \in Seq({[text |-> line]})
      BY <1>2, SeqDef
  <2> QED BY <1>2, <2>1
<1>4. g \in Seq({[text |-> line]}) /\ Len(g) = 1 /\ g[1] = [text |-> line]
    OBVIOUS
<1>5. f[1] = [text |-> line]
    BY <1>2
<1>6. f = g
    BY <1>3, <1>4, <1>5, SeqEqual
<1> QED BY <1>1, <1>6

HeadersRead(h) == [i \in 1 .. Len(h) |-> HeaderOf(h[i])]

(* The last line is the body, if the method has one.                       *)
LEMMA LastLineIsBody ==
    ASSUME NEW r, NEW h \in Seq(Header), NEW x \in Lines,
           split(Buffer(r)) = Append(h, x), RequestHasBody(methodMapping(r.method))
    PROVE  RequestFromBuffer(r) = [path |-> r.path, method |-> methodMapping(r.method),
                                   headers |-> HeadersRead(h), body |-> x]
<1>1. h \in Seq(Lines)
    BY LineKinds, SeqMonotonic
<1>2. /\ Len(h) \in Nat /\ Len(Append(h, x)) = Len(h) + 1
      /\ Append(h, x)[Len(h) + 1] = x
      /\ \A i \in 1 .. Len(h) : Append(h, x)[i] = h[i]
    BY <1>1
<1>3. TotalHeaders(Append(h, x), methodMapping(r.method)) = Len(h)
    BY <1>2 DEF TotalHeaders
<1>4. [i \in 1 .. Len(h) |-> HeaderOf(Append(h, x)[i])] = HeadersRead(h)
    BY <1>2 DEF HeadersRead
<1>5. Len(h) # Len(Append(h, x))
    BY <1>2
<1> QED BY <1>2, <1>3, <1>4, <1>5 DEF RequestFromBuffer

LEMMA AllLinesAreHeaders ==
    ASSUME NEW r, NEW h \in Seq(Header),
           split(Buffer(r)) = h, ~RequestHasBody(methodMapping(r.method))
    PROVE  RequestFromBuffer(r) = [path |-> r.path, method |-> methodMapping(r.method),
                                   headers |-> HeadersRead(h), body |-> NoBody]
<1>1. TotalHeaders(h, methodMapping(r.method)) = Len(h)
  <2>1. Len(h) \in Nat
      OBVIOUS
  <2> QED BY <2>1 DEF TotalHeaders
<1> QED BY <1>1 DEF RequestFromBuffer, HeadersRead

(* A request with the body its method calls for is understood as meant.    *)
LEMMA AsMeant ==
    ASSUME NEW r \in Sendable, Conventional(r)
    PROVE  /\ RequestFromBuffer(r).path = r.path
           /\ r.method \in Method => RequestFromBuffer(r).method = r.method
           /\ RequestFromBuffer(r).headers = HeadersRead(r.headers)
           /\ RequestFromBuffer(r).body =
                 IF r.body = <<>> THEN NoBody ELSE [text |-> r.body[1]]
<1>1. /\ r.headers \in Seq(Header)
      /\ \A i \in 1 .. Len(r.headers) : r.headers[i] # Blank
    BY SentTypes, LineKinds
<1>2. r.headers \in Seq(Lines)
    BY <1>1, LineKinds, SeqMonotonic
<1>3. r.method \in Method => methodMapping(r.method) = r.method
    BY DEF methodMapping
<1>4. CASE RequestHasBody(methodMapping(r.method))
  <2>1. PICK line : line \in Text /\ line # "" /\ r.body = <<line>>
      BY <1>4 DEF Conventional
  <2>2. [text |-> line] \in Lines /\ [text |-> line] # Blank
    <3>1. [text |-> line].text # "" /\ Blank.text = ""
        BY <2>1 DEF Blank
    <3> QED BY <2>1, <3>1 DEF Lines
  <2>3. /\ [i \in DOMAIN r.body |-> [text |-> r.body[i]]] = <<[text |-> line]>>
        /\ r.body # <<>> /\ r.body[1] = line
      BY <2>1, BodyOfOne
  <2>4. Buffer(r) = r.headers \o <<Blank>> \o <<[text |-> line]>>
      BY <2>3 DEF Buffer
  <2>5. split(Buffer(r)) = Append(r.headers, [text |-> line])
      BY <1>1, <1>2, <2>2, <2>4, LineKinds, SplitBody
  <2>6. RequestFromBuffer(r) = [path |-> r.path, method |-> methodMapping(r.method),
                                headers |-> HeadersRead(r.headers), body |-> [text |-> line]]
      BY <1>1, <1>4, <2>2, <2>5, LastLineIsBody
  <2>7. RequestFromBuffer(r).body = IF r.body = <<>> THEN NoBody ELSE [text |-> r.body[1]]
      BY <2>3, <2>6
  <2>8. /\ RequestFromBuffer(r).path = r.path
        /\ RequestFromBuffer(r).method = methodMapping(r.method)
        /\ RequestFromBuffer(r).headers = HeadersRead(r.headers)
      BY <2>6
  <2> QED BY <1>3, <2>7, <2>8
<1>5. CASE ~RequestHasBody(methodMapping(r.method))
  <2>1. r.body = <<>>
      BY <1>5 DEF Conventional
  <2>2. [i \in DOMAIN r.body |-> [text |-> r.body[i]]] = <<>>
      BY <2>1
  <2>3. Buffer(r) = r.headers \o <<Blank>> \o <<>>
      BY <2>2 DEF Buffer
  <2>4. split(Buffer(r)) = r.headers
      BY <1>1, <1>2, <2>3, LineKinds, SplitHeaders
  <2>5. RequestFromBuffer(r) = [path |-> r.path, method |-> methodMapping(r.method),
                                headers |-> HeadersRead(r.headers), body |-> NoBody]
      BY <1>1, <1>5, <2>4, AllLinesAreHeaders
  <2> QED BY <1>3, <2>1, <2>5
<1> QED BY <1>4, <1>5

-----------------------------------------------------------------------------
(***************************************************************************)
(* The invariants.                                                         *)
(***************************************************************************)
Parsed ==
    phase = "handling" =>
        /\ sent \in Sendable
        /\ ~ParserUndefined(sent) /\ ~ParserThrows(sent)
        /\ request = RequestFromBuffer(sent)

(* What is not a lookup changes nothing of what went before the last one.  *)
LEMMA PastStays ==
    ASSUME NEW e \in Entries, log \in Seq(Entries), log' = Append(log, e),
           e.type # "lookup", \E i \in DOMAIN log : IsLastLookup(log, i)
    PROVE  /\ Past' = Past
           /\ \E i \in DOMAIN log' : IsLastLookup(log', i)
<1>1. PICK i \in DOMAIN log : IsLastLookup(log, i)
    OBVIOUS
<1>2. /\ log' \in Seq(Entries)
      /\ DOMAIN log = 1 .. Len(log) /\ Len(log) \in Nat
      /\ \A j \in DOMAIN log : j \in DOMAIN log' /\ log'[j] = log[j]
      /\ \A j \in DOMAIN log' : j \in DOMAIN log \/ j = Len(log) + 1
      /\ log'[Len(log) + 1] = e
    BY OneMore
<1>3. i \in DOMAIN log' /\ IsLastLookup(log', i)
    BY <1>1, <1>2 DEF IsLastLookup
<1>4. (CHOOSE j \in DOMAIN log : /\ log[j].type = "lookup"
                                 /\ \A k \in DOMAIN log : log[k].type = "lookup" => k <= j) = i
    BY <1>1, <1>2 DEF IsLastLookup
<1>5. (CHOOSE j \in DOMAIN log' : /\ log'[j].type = "lookup"
                                  /\ \A k \in DOMAIN log' : log'[k].type = "lookup" => k <= j) = i
    BY <1>1, <1>2, <1>3 DEF IsLastLookup
<1>6. SubSeq(log', 1, i) = SubSeq(log, 1, i)
  <2>1. \A j \in 1 .. i : j \in DOMAIN log /\ log'[j] = log[j] /\ log[j] \in Entries
      BY <1>2
  <2>2. /\ SubSeq(log, 1, i) \in Seq(Entries) /\ Len(SubSeq(log, 1, i)) = i
        /\ \A j \in 1 .. i : SubSeq(log, 1, i)[j] = log[j]
      BY <1>2, <2>1, SubSeqProperties
  <2>3. /\ SubSeq(log', 1, i) \in Seq(Entries) /\ Len(SubSeq(log', 1, i)) = i
        /\ \A j \in 1 .. i : SubSeq(log', 1, i)[j] = log'[j]
      BY <1>2, <2>1, SubSeqProperties
  <2> QED BY <2>1, <2>2, <2>3, SeqEqual
<1> QED BY <1>3, <1>4, <1>5, <1>6 DEF Past

(* What went before the last lookup, and the lookup, is a history.         *)
LEMMA PastTyped ==
    ASSUME log \in Seq(Entries), NEW i \in DOMAIN log, IsLastLookup(log, i)
    PROVE  Past \in Seq(Entries)
<1>1. DOMAIN log = 1 .. Len(log) /\ Len(log) \in Nat
    OBVIOUS
<1>2. (CHOOSE j \in DOMAIN log : /\ log[j].type = "lookup"
                                 /\ \A k \in DOMAIN log : log[k].type = "lookup" => k <= j) = i
    BY <1>1 DEF IsLastLookup
<1>3. SubSeq(log, 1, i) \in Seq(Entries)
    BY <1>1, SubSeqProperties
<1> QED BY <1>2, <1>3 DEF Past

(* A lookup is the last of the history it ends.                            *)
LEMMA PastNow ==
    ASSUME NEW e \in Entries, log \in Seq(Entries), log' = Append(log, e), e.type = "lookup"
    PROVE  /\ Past' = log'
           /\ \E i \in DOMAIN log' : IsLastLookup(log', i)
<1> DEFINE n == Len(log) + 1
<1>1. /\ log' \in Seq(Entries) /\ Len(log) \in Nat /\ Len(log') = n
      /\ DOMAIN log' = 1 .. n /\ log'[n] = e /\ n \in DOMAIN log'
      /\ \A j \in DOMAIN log' : j \in Int /\ j <= n
    BY OneMore
<1> HIDE DEF n
<1>2. IsLastLookup(log', n)
    BY <1>1 DEF IsLastLookup
<1>3. (CHOOSE j \in DOMAIN log' : /\ log'[j].type = "lookup"
                                  /\ \A k \in DOMAIN log' : log'[k].type = "lookup" => k <= j) = n
    BY <1>1, <1>2 DEF IsLastLookup
<1>4. SubSeq(log', 1, n) = log'
    BY <1>1, SubSeqFull
<1> QED BY <1>1, <1>2, <1>3, <1>4 DEF Past
(***************************************************************************)
(* The router keeps to the history.                                        *)
(***************************************************************************)
RoutesTyped(rs) ==
    /\ DOMAIN rs \subseteq Path
    /\ \A p \in DOMAIN rs :
          /\ DOMAIN rs[p] \subseteq Method
          /\ \A m \in DOMAIN rs[p] : rs[p][m] \in Handler \union {NoHandler}

RouterInv ==
    /\ RoutesTyped(routes)
    /\ log \in Seq(Entries)
    /\ RoutesFollowLog

(* One more entry makes just its own path known.                           *)
LEMMA KnownPaths ==
    ASSUME NEW e \in Entries, log \in Seq(Entries), log' = Append(log, e), NEW p \in Path
    PROVE  (\E i \in DOMAIN log' : log'[i].path = p)
              <=> (e.path = p \/ \E i \in DOMAIN log : log[i].path = p)
BY OneMore

LEMMA AddRouteKeeps ==
    ASSUME RouterInv, NEW p \in Path, NEW h \in Handler,
           AddRoute(p, h), Logged([type |-> "all", path |-> p, handler |-> h])
    PROVE  RouterInv'
<1> DEFINE e == [type |-> "all", path |-> p, handler |-> h]
<1>1. /\ e \in Entries /\ e.type = "all" /\ e.path = p /\ e.handler = h
      /\ log \in Seq(Entries) /\ log' = Append(log, e)
    BY DEF Entries, RouterInv, Logged
<1> HIDE DEF e
<1>2. log' \in Seq(Entries)
    BY <1>1
<1>3. CASE p \in DOMAIN routes
  <2>1. routes' = routes /\ \E i \in DOMAIN log : log[i].path = p
      BY <1>3 DEF AddRoute, RouterInv, RoutesFollowLog
  <2>2. \A q \in Path, m \in Method : Registered(log', q, m) = Registered(log, q, m)
      BY <1>1, <2>1, NothingNew
  <2>3. \A q \in Path : q \in DOMAIN routes' <=> \E i \in DOMAIN log' : log'[i].path = q
      BY <1>1, <2>1, KnownPaths DEF RouterInv, RoutesFollowLog
  <2>4. \A q \in Path, m \in Method : HandlerFor(q, m)' \in Right(log', q, m)
      BY <2>1, <2>2 DEF RouterInv, RoutesFollowLog, HandlerFor, Right
  <2> QED BY <1>2, <2>1, <2>3, <2>4 DEF RouterInv, RoutesFollowLog, RoutesTyped
<1>4. CASE p \notin DOMAIN routes
  <2>1. /\ routes' = [x \in DOMAIN routes \union {p} |->
                         IF x = p THEN [m \in AllMethods |-> h] ELSE routes[x]]
        /\ ~ \E i \in DOMAIN log : log[i].path = p
      BY <1>4 DEF AddRoute, Assigned, RouterInv, RoutesFollowLog
  <2>2. /\ DOMAIN routes' = DOMAIN routes \union {p}
        /\ routes'[p] = [m \in AllMethods |-> h]
        /\ \A q \in DOMAIN routes : routes'[q] = routes[q]
      BY <1>4, <2>1
  <2>3. RoutesTyped(routes')
      BY <2>2, HttpServiceAssumption DEF RoutesTyped, RouterInv, AllMethods
  <2>4. \A q \in Path : q \in DOMAIN routes' <=> \E i \in DOMAIN log' : log'[i].path = q
      BY <1>1, <2>2, KnownPaths DEF RouterInv, RoutesFollowLog
  <2>5. ASSUME NEW q \in Path, NEW m \in Method
        PROVE  HandlerFor(q, m)' \in Right(log', q, m)
    <3>1. CASE q = p
      <4>1. Registered(log', p, m) = IF m \in AllMethods THEN {h} ELSE {}
          BY <1>1, <2>1, FirstAll
      <4>2. HandlerFor(p, m)' = IF m \in AllMethods THEN h ELSE NoHandler
          BY <2>2 DEF HandlerFor
      <4> QED BY <3>1, <4>1, <4>2 DEF Right
    <3>2. CASE q # p
      <4>1. Registered(log', q, m) = Registered(log, q, m)
          BY <1>1, <3>2, NothingNew
      <4>2. HandlerFor(q, m)' = HandlerFor(q, m)
          BY <2>2, <3>2 DEF HandlerFor
      <4> QED BY <4>1, <4>2 DEF Right, RouterInv, RoutesFollowLog
    <3> QED BY <3>1, <3>2
  <2> QED BY <1>2, <2>3, <2>4, <2>5 DEF RouterInv, RoutesFollowLog
<1> QED BY <1>3, <1>4

LEMMA AddRouteMethodKeeps ==
    ASSUME RouterInv, NEW p \in Path, NEW h \in Handler, NEW n \in Method,
           AddRouteMethod(p, n, h),
           Logged([type |-> "one", path |-> p, method |-> n, handler |-> h])
    PROVE  RouterInv'
<1> DEFINE e == [type |-> "one", path |-> p, method |-> n, handler |-> h]
<1>1. /\ e \in Entries /\ e.type = "one" /\ e.path = p /\ e.handler = h /\ e.method = n
      /\ log \in Seq(Entries) /\ log' = Append(log, e)
    BY DEF Entries, RouterInv, Logged
<1> HIDE DEF e
<1>2. log' \in Seq(Entries)
    BY <1>1
<1>3. /\ DOMAIN routes' = DOMAIN routes \union {p}
      /\ routes'[p] = [m \in {n} |-> h]
      /\ \A q \in DOMAIN routes : q # p => routes'[q] = routes[q]
    BY DEF AddRouteMethod, Assigned
<1>4. RoutesTyped(routes')
    BY <1>3 DEF RoutesTyped, RouterInv
<1>5. \A q \in Path : q \in DOMAIN routes' <=> \E i \in DOMAIN log' : log'[i].path = q
    BY <1>1, <1>3, KnownPaths DEF RouterInv, RoutesFollowLog
<1>6. ASSUME NEW q \in Path, NEW m \in Method
      PROVE  HandlerFor(q, m)' \in Right(log', q, m)
  <2>1. CASE q = p
    <3>1. Registered(log', p, m) = IF m = n THEN {h} ELSE {}
        BY <1>1, LastOne
    <3>2. HandlerFor(p, m)' = IF m = n THEN h ELSE NoHandler
        BY <1>3 DEF HandlerFor
    <3> QED BY <2>1, <3>1, <3>2 DEF Right
  <2>2. CASE q # p
    <3>1. Registered(log', q, m) = Registered(log, q, m)
        BY <1>1, <2>2, NothingNew
    <3>2. HandlerFor(q, m)' = HandlerFor(q, m)
        BY <1>3, <2>2 DEF HandlerFor
    <3> QED BY <3>1, <3>2 DEF Right, RouterInv, RoutesFollowLog
  <2> QED BY <2>1, <2>2
<1> QED BY <1>2, <1>4, <1>5, <1>6 DEF RouterInv, RoutesFollowLog

(* A lookup inserts what is missing, and finds what the history calls for. *)
LEMMA GetHandlerKeeps ==
    ASSUME RouterInv, NEW p \in Path, NEW n \in Method,
           GetHandler(p, n), Logged([type |-> "lookup", path |-> p])
    PROVE  /\ RouterInv'
           /\ handler' \in Handler \union {NoHandler}
           /\ handler' \in Right(log', p, n)
<1> DEFINE e == [type |-> "lookup", path |-> p]
           looked == Subscripted(routes, p, <<>>)
           route == Subscripted(looked[p], n, NoHandler)
<1>1. /\ e \in Entries /\ e.type = "lookup" /\ e.path = p
      /\ log \in Seq(Entries) /\ log' = Append(log, e)
    BY DEF Entries, RouterInv, Logged
<1> HIDE DEF e
<1>2. log' \in Seq(Entries)
    BY <1>1
<1>3. /\ DOMAIN looked = DOMAIN routes \union {p}
      /\ \A q \in DOMAIN routes : looked[q] = routes[q]
      /\ p \notin DOMAIN routes => looked[p] = <<>>
    BY DEF Subscripted
<1>4. DOMAIN <<>> = {}
    OBVIOUS
<1>5. /\ DOMAIN route = DOMAIN looked[p] \union {n}
      /\ \A m \in DOMAIN looked[p] : route[m] = looked[p][m]
      /\ n \notin DOMAIN looked[p] => route[n] = NoHandler
    BY DEF Subscripted
<1>6. handler' = route[n] /\ routes' = [looked EXCEPT ![p] = route]
    BY DEF GetHandler
<1> HIDE DEF looked, route
<1>7. /\ DOMAIN routes' = DOMAIN routes \union {p}
      /\ routes'[p] = route
      /\ \A q \in DOMAIN routes : q # p => routes'[q] = routes[q]
    BY <1>3, <1>6
<1>8. \A m \in Method : m \in DOMAIN looked[p] => looked[p][m] = HandlerFor(p, m)
    BY <1>3, <1>4 DEF HandlerFor
<1>9. \A m \in Method : m \notin DOMAIN looked[p] => HandlerFor(p, m) = NoHandler
    BY <1>3 DEF HandlerFor
<1>10. \A m \in Method : HandlerFor(p, m)' = HandlerFor(p, m)
    BY <1>5, <1>7, <1>8, <1>9 DEF HandlerFor
<1>11. DOMAIN looked[p] \subseteq Method
       /\ \A m \in DOMAIN looked[p] : looked[p][m] \in Handler \union {NoHandler}
    BY <1>3, <1>4 DEF RouterInv, RoutesTyped
<1>12. DOMAIN route \subseteq Method
       /\ \A m \in DOMAIN route : route[m] \in Handler \union {NoHandler}
    BY <1>5, <1>11
<1>13. RoutesTyped(routes')
    BY <1>7, <1>12 DEF RoutesTyped, RouterInv
<1>14. \A q \in Path : q \in DOMAIN routes' <=> \E i \in DOMAIN log' : log'[i].path = q
    BY <1>1, <1>7, KnownPaths DEF RouterInv, RoutesFollowLog
<1>15. ASSUME NEW q \in Path, NEW m \in Method
       PROVE  HandlerFor(q, m)' \in Right(log', q, m)
  <2>1. Registered(log', q, m) = Registered(log, q, m)
      BY <1>1, NothingNew
  <2>2. HandlerFor(q, m)' = HandlerFor(q, m)
    <3>1. CASE q = p
        BY <1>10, <3>1
    <3>2. CASE q # p
        BY <1>7, <3>2 DEF HandlerFor
    <3> QED BY <3>1, <3>2
  <2> QED BY <2>1, <2>2 DEF Right, RouterInv, RoutesFollowLog
<1>16. handler' = HandlerFor(p, n)'
    BY <1>5, <1>6, <1>7 DEF HandlerFor
<1> QED BY <1>2, <1>5, <1>6, <1>12, <1>13, <1>14, <1>15, <1>16 DEF RouterInv, RoutesFollowLog
-----------------------------------------------------------------------------
(***************************************************************************)
(* The service.                                                            *)
(***************************************************************************)
RequestTyped ==
    /\ phase \in {"setup", "idle", "handling", "undefined"}
    /\ sent \in Sendable \union {<<>>}
    /\ request \in Requests \union {<<>>}
    /\ phase = "handling" => request \in Requests
    /\ handler \in Handler \union {NoHandler}
    /\ status \in {"none", "OK", "NOT_FOUND", "INTERNAL_SERVER_ERROR"}

ServiceInv ==
    /\ RequestTyped
    /\ RouterInv
    /\ Parsed
    /\ Answering
    /\ status = "OK" => handler # NoHandler

LEMMA InitEstablishes == Init => ServiceInv
<1> SUFFICES ASSUME Init PROVE ServiceInv
    OBVIOUS
<1>1. RequestTyped /\ Parsed /\ Answering /\ (status = "OK" => handler # NoHandler)
    BY DEF Init, RequestTyped, Parsed, Answering
<1>2. DOMAIN routes = {} /\ log \in Seq(Entries) /\ DOMAIN log = {}
    BY DEF Init
<1>3. RoutesTyped(routes)
    BY <1>2 DEF RoutesTyped
<1>4. ASSUME NEW p \in Path, NEW m \in Method
      PROVE  HandlerFor(p, m) \in Right(log, p, m)
  <2>1. Registered(log, p, m) = {}
      BY <1>2 DEF Registered, Of
  <2> QED BY <1>2, <2>1 DEF HandlerFor, Right
<1>5. RoutesFollowLog
    BY <1>2, <1>4 DEF RoutesFollowLog
<1> QED BY <1>1, <1>2, <1>3, <1>5 DEF ServiceInv, RouterInv

LEMMA HandleKeeps ==
    ASSUME ServiceInv, Handle
    PROVE  ServiceInv'
<1>1. PICK p \in Path, h \in Handler :
         \/ AddRoute(p, h) /\ Logged([type |-> "all", path |-> p, handler |-> h])
         \/ \E m \in Method :
               /\ AddRouteMethod(p, m, h)
               /\ Logged([type |-> "one", path |-> p, method |-> m, handler |-> h])
    BY DEF Handle
<1>2. RouterInv /\ RouterInv'
    BY <1>1, AddRouteKeeps, AddRouteMethodKeeps DEF ServiceInv
<1>3. UNCHANGED <<phase, sent, request, handler, status>>
      /\ (phase = "setup" \/ phase = "handling")
    BY DEF Handle
<1>4. PICK e \in Entries : e.type # "lookup" /\ log' = Append(log, e)
  <2>1. [type |-> "all", path |-> p, handler |-> h] \in Entries
      BY DEF Entries
  <2>2. \A m \in Method : [type |-> "one", path |-> p, method |-> m, handler |-> h] \in Entries
      BY DEF Entries
  <2>3. CASE Logged([type |-> "all", path |-> p, handler |-> h])
      BY <2>1, <2>3 DEF Logged
  <2>4. CASE \E m \in Method : Logged([type |-> "one", path |-> p, method |-> m, handler |-> h])
      BY <2>2, <2>4 DEF Logged
  <2> QED BY <1>1, <2>3, <2>4
<1>5. Answering'
  <2>1. CASE phase = "handling"
    <3>1. /\ \E i \in DOMAIN log : IsLastLookup(log, i)
          /\ handler \in Right(Past, request.path, request.method)
        BY <2>1 DEF ServiceInv, Answering
    <3>2. /\ Past' = Past
          /\ \E i \in DOMAIN log' : IsLastLookup(log', i)
        BY <1>2, <1>4, <3>1, PastStays DEF RouterInv
    <3>3. handler' \in Right(Past', request'.path, request'.method)
        BY <1>3, <3>1, <3>2
    <3> QED BY <3>2, <3>3 DEF Answering
  <2>2. CASE phase # "handling"
      BY <1>3, <2>2 DEF Answering
  <2> QED BY <2>1, <2>2
<1>6. RequestTyped' /\ (status' = "OK" => handler' # NoHandler)
    BY <1>3 DEF ServiceInv, RequestTyped
<1>7. Parsed'
    BY <1>3 DEF ServiceInv, Parsed
<1> QED BY <1>2, <1>5, <1>6, <1>7 DEF ServiceInv

LEMMA OnClientMessageKeeps ==
    ASSUME ServiceInv, OnClientMessage
    PROVE  ServiceInv'
<1>1. PICK r \in Sendable :
         \/ /\ ParserUndefined(r)
            /\ phase' = "undefined"
            /\ UNCHANGED <<routes, log, sent, request, handler>>
         \/ /\ ~ParserUndefined(r)
            /\ \/ /\ ParserThrows(r)
                  /\ UNCHANGED <<phase, routes, log, sent, request, handler>>
               \/ /\ ~ParserThrows(r)
                  /\ sent' = r
                  /\ request' = RequestFromBuffer(r)
                  /\ GetHandler(r.path, request'.method)
                  /\ Logged([type |-> "lookup", path |-> r.path])
                  /\ phase' = "handling"
    BY DEF OnClientMessage
<1>2. phase = "idle" /\ status' = "none"
    BY DEF OnClientMessage
<1>3. CASE phase' \in {"undefined", "idle"} /\ UNCHANGED <<routes, log, sent, request, handler>>
  <2>1. RouterInv'
      BY <1>3 DEF ServiceInv, RouterInv, RoutesTyped, RoutesFollowLog, HandlerFor, Right
  <2>2. RequestTyped'
      BY <1>2, <1>3 DEF ServiceInv, RequestTyped
  <2>3. Parsed' /\ Answering' /\ (status' = "OK" => handler' # NoHandler)
      BY <1>2, <1>3 DEF Parsed, Answering
  <2> QED BY <2>1, <2>2, <2>3 DEF ServiceInv
<1>4. CASE /\ ~ParserUndefined(r) /\ ~ParserThrows(r)
           /\ sent' = r
           /\ request' = RequestFromBuffer(r)
           /\ GetHandler(r.path, request'.method)
           /\ Logged([type |-> "lookup", path |-> r.path])
           /\ phase' = "handling"
  <2>1. request' \in Requests /\ request'.path = r.path
        /\ request'.method \in Method /\ r.path \in Path
      BY <1>4, RequestType, SentTypes DEF RequestFromBuffer
  <2>2. /\ RouterInv'
        /\ handler' \in Handler \union {NoHandler}
        /\ handler' \in Right(log', r.path, request'.method)
      BY <1>4, <2>1, GetHandlerKeeps DEF ServiceInv
  <2>3. /\ [type |-> "lookup", path |-> r.path] \in Entries
        /\ log \in Seq(Entries)
      BY <2>1 DEF Entries, ServiceInv, RouterInv
  <2>4. /\ Past' = log'
        /\ \E i \in DOMAIN log' : IsLastLookup(log', i)
      BY <1>4, <2>3, PastNow DEF Logged
  <2>5. Answering'
    <3>1. handler' \in Right(Past', request'.path, request'.method)
        BY <2>1, <2>2, <2>4
    <3> QED BY <2>4, <3>1 DEF Answering
  <2>6. RequestTyped'
      BY <1>2, <1>4, <2>1, <2>2 DEF RequestTyped
  <2>7. Parsed'
      BY <1>4 DEF Parsed
  <2> QED BY <1>2, <1>4, <2>2, <2>5, <2>6, <2>7 DEF ServiceInv
<1> QED BY <1>1, <1>2, <1>3, <1>4

(* Boot, and the end of a request.                                         *)
LEMMA EndsKeep ==
    ASSUME ServiceInv, Boot \/ HandlerEnds \/ NotFoundException
    PROVE  ServiceInv'
<1>1. UNCHANGED <<routes, log, handler>> /\ phase' = "idle"
    BY DEF Boot, HandlerEnds, NotFoundException
<1>2. status' \in {"none", "OK", "NOT_FOUND", "INTERNAL_SERVER_ERROR"}
    BY DEF Boot, HandlerEnds, NotFoundException, WriteResponse, Readable, Code,
           ServiceInv, RequestTyped
<1>3. \/ sent' = sent /\ request' = request
      \/ sent' = <<>> /\ request' = <<>>
    BY DEF Boot, HandlerEnds, NotFoundException
<1>4. status' = "OK" => handler' # NoHandler
  <2>1. CASE Boot
      BY <2>1 DEF Boot, ServiceInv
  <2>2. CASE HandlerEnds
      BY <2>2 DEF HandlerEnds
  <2>3. CASE NotFoundException
      BY <2>3 DEF NotFoundException, WriteResponse, Readable
  <2> QED BY <2>1, <2>2, <2>3
<1>5. RouterInv'
    BY <1>1 DEF ServiceInv, RouterInv, RoutesTyped, RoutesFollowLog, HandlerFor, Right
<1>6. RequestTyped'
    BY <1>1, <1>2, <1>3 DEF ServiceInv, RequestTyped
<1>7. Parsed' /\ Answering'
    BY <1>1 DEF Parsed, Answering
<1> QED BY <1>4, <1>5, <1>6, <1>7 DEF ServiceInv

(***************************************************************************)
(* The strengthened invariant holds in every reachable state: the routes   *)
(* are what the history of each path calls for, and so is the handler of   *)
(* the request being answered; HttpRouter and HttpServer::OnClientMessage. *)
(***************************************************************************)
THEOREM ServiceInvariant == Spec => []ServiceInv
<1>1. ServiceInv /\ UNCHANGED vars => ServiceInv'
  <2> SUFFICES ASSUME ServiceInv, UNCHANGED vars PROVE ServiceInv'
      OBVIOUS
  <2>1. RouterInv'
      BY DEF vars, ServiceInv, RouterInv, RoutesTyped, RoutesFollowLog, HandlerFor, Right
  <2>2. RequestTyped' /\ Parsed'
      BY DEF vars, ServiceInv, RequestTyped, Parsed
  <2>3. Answering'
      BY DEF vars, ServiceInv, Answering, Past
  <2> QED BY <2>1, <2>2, <2>3 DEF ServiceInv, vars
<1>2. ServiceInv /\ [Next]_vars => ServiceInv'
    BY <1>1, HandleKeeps, OnClientMessageKeeps, EndsKeep DEF Next
<1> QED BY <1>2, InitEstablishes, PTL DEF Spec

(***************************************************************************)
(* Whatever a client sends with the body its method calls for, the handler *)
(* is given, header for header, although RequestFromBuffer splits lines    *)
(* without looking for the blank one; a value that follows its colon and   *)
(* one space is given as it is, and of the other values nothing is said,   *)
(* since get_right_of_delim skips one character whatever it is.            *)
(***************************************************************************)
THEOREM SeesRequest == Spec => []HandlerSeesRequest
<1>1. ServiceInv => HandlerSeesRequest
  <2> SUFFICES ASSUME ServiceInv PROVE HandlerSeesRequest
      OBVIOUS
  <2>1. TypeOK
      BY DEF ServiceInv, RequestTyped, RouterInv, RoutesTyped, TypeOK
  <2>2. ASSUME phase = "handling", Conventional(sent)
        PROVE  /\ request.path = sent.path
               /\ sent.method \in Method => request.method = sent.method
               /\ Len(request.headers) = Len(sent.headers)
               /\ \A i \in DOMAIN sent.headers :
                     /\ request.headers[i].key = sent.headers[i].key
                     /\ sent.headers[i].gap = "one" =>
                           /\ request.headers[i].value = sent.headers[i].value
                           /\ request.headers[i].left = "whole"
               /\ request.body = IF sent.body = <<>> THEN NoBody ELSE [text |-> sent.body[1]]
    <3>1. sent \in Sendable /\ request = RequestFromBuffer(sent)
        BY <2>2 DEF ServiceInv, Parsed
    <3>2. /\ request.path = sent.path
          /\ sent.method \in Method => request.method = sent.method
          /\ request.headers = HeadersRead(sent.headers)
          /\ request.body = IF sent.body = <<>> THEN NoBody ELSE [text |-> sent.body[1]]
        BY <2>2, <3>1, AsMeant
    <3>3. /\ Len(sent.headers) \in Nat /\ DOMAIN sent.headers = 1 .. Len(sent.headers)
          /\ \A i \in 1 .. Len(sent.headers) : sent.headers[i] \in Header
        BY <3>1, SentTypes
    <3>4. /\ Len(request.headers) = Len(sent.headers)
          /\ \A i \in 1 .. Len(sent.headers) : request.headers[i] = HeaderOf(sent.headers[i])
        BY <3>2, <3>3 DEF HeadersRead
    <3>5. ASSUME NEW i \in DOMAIN sent.headers
          PROVE  /\ request.headers[i].key = sent.headers[i].key
                 /\ sent.headers[i].gap = "one" =>
                       /\ request.headers[i].value = sent.headers[i].value
                       /\ request.headers[i].left = "whole"
        BY <3>3, <3>4, HeaderIsRead
    <3> QED BY <3>2, <3>4, <3>5
  <2> QED BY <2>1, <2>2 DEF HandlerSeesRequest
<1> QED BY <1>1, ServiceInvariant, PTL

(* What the code makes of a history was added for the path and the method  *)
(* or all, and is the undisputed route if there is one.                    *)
LEMMA RightIsAdded ==
    ASSUME NEW past, NEW p, NEW m, NEW h \in Right(past, p, m)
    PROVE  h \in Added(past, p, m) \union {NoHandler}
BY DEF Right, Registered, Added

LEMMA RightIsUndisputed ==
    ASSUME NEW past \in Seq(Entries), NEW p, NEW m, NEW h \in Right(past, p, m)
    PROVE  Undisputed(past, p, m) \subseteq {h}
<1> SUFFICES ASSUME NEW u \in Undisputed(past, p, m) PROVE u = h
    OBVIOUS
<1> DEFINE One == Of(past, p, "one")
           All == Of(past, p, "all")
           LastForIt == {j \in One : past[j].method = m /\ \A k \in One : k <= j}
           FirstOfPath == {j \in All : /\ m \in AllMethods /\ One = {}
                                      /\ \A k \in DOMAIN past : past[k].path = p => j <= k}
<1>1. /\ One \subseteq DOMAIN past /\ All \subseteq DOMAIN past
      /\ \A k \in All : past[k].path = p
      /\ \A k \in DOMAIN past : k \in Int
    BY DEF Of
<1>2. Registered(past, p, m) = {past[i].handler : i \in LastForIt}
                                  \union {past[i].handler : i \in FirstOfPath}
    BY DEF Registered
<1>3. PICK i \in LastForIt \union FirstOfPath : u = past[i].handler
  <2>1. CASE \E i \in One : /\ past[i].method = m /\ u = past[i].handler
                            /\ \A k \in One \ {i} : k < i
      BY <1>1, <2>1
  <2>2. CASE \E i \in FirstOfPath : u = past[i].handler
      BY <2>2
  <2>3. "GET" \in AllMethods
      BY DEF AllMethods
  <2> QED BY <2>1, <2>2, <2>3 DEF Undisputed
<1>4. u \in Registered(past, p, m)
    BY <1>2, <1>3
<1>5. PICK j \in LastForIt \union FirstOfPath : h = past[j].handler
    BY <1>2, <1>4 DEF Right
<1>6. i = j
  <2>1. CASE i \in LastForIt
    <3>1. j \in LastForIt
        BY <1>5, <2>1
    <3> QED BY <1>1, <2>1, <3>1
  <2>2. CASE i \in FirstOfPath
    <3>1. j \in FirstOfPath
        BY <1>5, <2>2
    <3> QED BY <1>1, <2>2, <3>1
  <2> QED BY <1>3, <2>1, <2>2
<1> QED BY <1>3, <1>5, <1>6

(***************************************************************************)
(* The handler of a request was added for its path and its method, or for  *)
(* all methods, and an undisputed route is found, although AddRoute        *)
(* overwrites a path for one method and keeps it for all, and GetHandler   *)
(* inserts what it does not find.                                          *)
(***************************************************************************)
THEOREM FindsRightHandler == Spec => []RightHandler
<1>1. ServiceInv => RightHandler
  <2> SUFFICES ASSUME ServiceInv PROVE RightHandler
      OBVIOUS
  <2>1. ASSUME phase = "handling"
        PROVE  /\ handler \in Added(Past, request.path, request.method) \union {NoHandler}
               /\ Undisputed(Past, request.path, request.method) \subseteq {handler}
    <3>1. PICK i \in DOMAIN log : IsLastLookup(log, i)
        BY <2>1 DEF ServiceInv, Answering
    <3>2. handler \in Right(Past, request.path, request.method)
        BY <2>1 DEF ServiceInv, Answering
    <3>3. Past \in Seq(Entries)
        BY <3>1, PastTyped DEF ServiceInv, RouterInv
    <3> QED BY <3>2, <3>3, RightIsAdded, RightIsUndisputed
  <2> QED BY <2>1 DEF RightHandler, ServiceInv
<1> QED BY <1>1, ServiceInvariant, PTL
===============================================================================
