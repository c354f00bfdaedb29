---------------------------- MODULE ChannelsProofs ----------------------------
(***************************************************************************)
(* Proofs about Channels, for every size of the block, of segments, of     *)
(* responses and of the socket, and any number of bytes and of NULs among  *)
(* them, over TCP and over TLS.                                            *)
(*                                                                         *)
(* ChannelsInv is inductive.  Flow says which byte is at each place of the *)
(* socket and of the TLS object, so that it is known what a read returns;  *)
(* TextOfPass says what the block, used as a C string, makes of it.        *)
(* Polite is about clients that wait for their answers: they are never     *)
(* more than one request ahead.                                            *)
(***************************************************************************)
EXTENDS Channels, SequenceLemmas, FiniteSetTheorems, SequenceTheorems, TLAPS

Bytes == Junk .. MaxSent

(* The byte the client sends as its b-th.                                   *)
Byte(b) == IF b \in nuls THEN NUL ELSE b

(* The socket and the TLS object hold the stream from where it was read.    *)
Flow ==
    /\ socket \in Seq(Seq(Bytes) \ {<<>>})
    /\ pending \in Seq(Bytes)
    /\ consumed \in Nat
    /\ \A i \in 1 .. Len(pending) : pending[i] = Byte(consumed + i)
    /\ \A i \in 1 .. Len(FlattenSeq(socket)) :
          FlattenSeq(socket)[i] = Byte(consumed + Len(pending) + i)

(* The block has nothing of an earlier pass.                                *)
Cleared ==
    /\ \A i \in 1 .. BLOCK_SIZE : block[i] \in {Junk, NUL}
    /\ consumed > 0 => \A i \in 1 .. BLOCK_SIZE : block[i] = NUL

(* What the delegate has, and is about to have, was read.                   *)
Handed ==
    /\ delivered \in Seq(Bytes)
    /\ message \in Seq(Bytes)
    /\ \A i \in 1 .. Len(Given) : Given[i] = Junk \/ Given[i] \in (1 .. consumed) \ nuls

InOrder ==
    \A i, j \in 1 .. Len(Given) :
        i < j /\ Given[i] # Junk /\ Given[j] # Junk => Given[i] < Given[j]

InTurn ==
    /\ loop = "idle" => message = <<>>
    /\ loop = "read" /\ secure => socket # <<>>

AllRead == socket = <<>> /\ pending = <<>>

(* A client that waits has at most one request without an answer, begins    *)
(* the next when all is read, and has read its answers by then.             *)
OneAtATime ==
    /\ answers <= Cardinality(ends) /\ Cardinality(ends) <= answers + 1
    /\ AllRead /\ loop = "idle" => BetweenRequests
    /\ loop = "message" => sent \in ends /\ AllRead
    /\ ~AllRead \/ loop # "idle" =>
          unread = 0 /\ (sent \in ends <=> Cardinality(ends) > answers)

(* Without NULs every read of such a client has something to deliver.       *)
NothingHidden ==
    nuls = {} =>
        /\ loop = "read" => message # <<>> \/ ~AllRead
        /\ loop = "message" => message # <<>>
        /\ loop = "idle" => answers = Cardinality(ends \intersect (1 .. consumed))

Polite == patient /\ ~torn => OneAtATime /\ NothingHidden /\ (~oversize => ~cut)

ChannelsInv ==
    /\ TypeOK
    /\ Flow
    /\ Cleared
    /\ Handed
    /\ InOrder
    /\ LostOnlyBehindNul
    /\ InTurn
    /\ Polite

-----------------------------------------------------------------------------
(***************************************************************************)
(* What one read takes, and what it leaves.                                *)
(***************************************************************************)
LEMMA FrontAndRest ==
    ASSUME NEW S, NEW s \in Seq(S), s # <<>>, NEW n, n = Least(BLOCK_SIZE, Len(s))
    PROVE  /\ n \in 1 .. BLOCK_SIZE /\ n <= Len(s)
           /\ SubSeq(s, 1, n) \in Seq(S) /\ Len(SubSeq(s, 1, n)) = n
           /\ \A i \in 1 .. n : SubSeq(s, 1, n)[i] = s[i]
           /\ SubSeq(s, n + 1, Len(s)) \in Seq(S)
           /\ Len(SubSeq(s, n + 1, Len(s))) = Len(s) - n
           /\ \A i \in 1 .. Len(s) - n : SubSeq(s, n + 1, Len(s))[i] = s[n + i]
           /\ SubSeq(s, n + 1, Len(s)) # <<>> => n = BLOCK_SIZE
<1>1. BLOCK_SIZE \in Nat /\ BLOCK_SIZE > 0
    BY ChannelsAssumption DEF ChannelsAssumption
<1>2. Len(s) \in Nat /\ Len(s) > 0
    BY EmptySeq
<1>3. n \in 1 .. BLOCK_SIZE /\ n <= Len(s) /\ (n = BLOCK_SIZE \/ n = Len(s))
    BY <1>1, <1>2 DEF Least
<1>4. /\ SubSeq(s, 1, n) \in Seq(S) /\ Len(SubSeq(s, 1, n)) = n
      /\ \A i \in 1 .. n : SubSeq(s, 1, n)[i] = s[i]
    BY <1>1, <1>2, <1>3
<1> DEFINE rest == SubSeq(s, n + 1, Len(s))
<1>5. rest \in Seq(S) /\ Len(rest) = Len(s) - n
    BY <1>1, <1>2, <1>3
<1>6. \A i \in 1 .. Len(s) - n : rest[i] = s[n + i]
    BY <1>1, <1>2, <1>3
<1>7. rest # <<>> => n = BLOCK_SIZE
    BY <1>2, <1>3, <1>5, EmptySeq
<1> QED BY <1>3, <1>4, <1>5, <1>6, <1>7

(***************************************************************************)
(* The text a pass appends: bytes of the stream in their places, up to the *)
(* first NUL, and memory that nobody has written only behind them, if the  *)
(* block was full or not yet cleared.                                      *)
(***************************************************************************)
InPlace(text, n) ==
    \A i \in 1 .. Len(text) :
        \/ text[i] = Junk
        \/ i <= n /\ text[i] = consumed + i /\ consumed + i \notin nuls

UpToNul(text, n) ==
    \A i \in 1 .. n :
        \/ consumed + i \in nuls
        \/ i <= Len(text) /\ text[i] = consumed + i
        \/ \E j \in 1 .. i - 1 : consumed + j \in nuls

LEMMA TextOfPass ==
    ASSUME block \in [1 .. BLOCK_SIZE -> Bytes], Cleared, consumed \in Nat,
           NEW data \in Seq(Bytes), NEW n \in 1 .. BLOCK_SIZE, Len(data) = n,
           \A i \in 1 .. n : data[i] = Byte(consumed + i),
           NEW text \in CString(Overlaid(data))
    PROVE  /\ text \in Seq(Bytes)
           /\ InPlace(text, n)
           /\ UpToNul(text, n)
           /\ consumed > 0 /\ n < BLOCK_SIZE => \A i \in 1 .. Len(text) : text[i] # Junk
<1>1. BLOCK_SIZE \in Nat /\ BLOCK_SIZE > 0 /\ MaxSent \in Nat
    BY ChannelsAssumption DEF ChannelsAssumption
<1> DEFINE cells == Overlaid(data)
           stops == {i \in 1 .. BLOCK_SIZE : cells[i] = NUL}
<1>2. cells \in [1 .. BLOCK_SIZE -> Bytes]
    BY <1>1 DEF Overlaid
<1>3. \A i \in 1 .. BLOCK_SIZE : cells[i] = IF i <= n THEN Byte(consumed + i) ELSE block[i]
    BY <1>1 DEF Overlaid
<1>4. /\ cells \in Seq(Bytes) /\ Len(cells) = BLOCK_SIZE
    BY <1>1, <1>2
<1>5. ASSUME NEW i \in 1 .. BLOCK_SIZE, cells[i] # NUL
      PROVE  \/ cells[i] = Junk
             \/ i <= n /\ cells[i] = consumed + i /\ consumed + i \notin nuls
    BY <1>3, <1>5 DEF Cleared, Byte
<1>6. ASSUME NEW i \in 1 .. n, cells[i] = NUL
      PROVE  consumed + i \in nuls
    BY <1>1, <1>3, <1>6 DEF Byte, NUL
<1>7. ASSUME NEW i \in 1 .. n, cells[i] # NUL
      PROVE  cells[i] = consumed + i
    BY <1>1, <1>3, <1>7 DEF Byte
<1>8. ASSUME NEW i \in 1 .. n
      PROVE  cells[i] # Junk
    BY <1>1, <1>3 DEF Byte, NUL, Junk
<1>9. consumed > 0 /\ n < BLOCK_SIZE => n + 1 \in stops
    BY <1>1, <1>3 DEF Cleared
<1> HIDE DEF cells
<1>10. CASE stops = {}
  <2>1. text = cells \/ text = Append(cells, Junk)
      BY <1>10 DEF CString, cells
  <2>2. text \in Seq(Bytes) /\ Len(text) >= BLOCK_SIZE /\ Len(text) \in Nat
    <3>1. Junk \in Bytes
        BY <1>1 DEF Bytes, Junk
    <3> QED BY <1>1, <1>4, <2>1, <3>1
  <2>3. \A i \in 1 .. BLOCK_SIZE : text[i] = cells[i] /\ cells[i] # NUL
      BY <1>4, <1>10, <2>1
  <2>4. \A i \in 1 .. Len(text) : i \notin 1 .. BLOCK_SIZE => text[i] = Junk
      BY <1>1, <1>4, <2>1
  <2>5. InPlace(text, n)
      BY <1>5, <2>3, <2>4 DEF InPlace
  <2>6. UpToNul(text, n)
      BY <1>1, <1>7, <2>2, <2>3 DEF UpToNul
  <2> QED BY <1>9, <1>10, <2>2, <2>5, <2>6
<1>11. CASE stops # {}
  <2>1. PICK z \in stops : text = SubSeq(cells, 1, z - 1) /\ \A j \in stops : z <= j
      BY <1>11 DEF CString, cells
  <2>2. z \in 1 .. BLOCK_SIZE /\ cells[z] = NUL
      BY <2>1
  <2>3. text \in Seq(Bytes) /\ Len(text) = z - 1
      BY <1>1, <1>4, <2>1, <2>2
  <2>4. \A i \in 1 .. z - 1 : text[i] = cells[i]
      BY <1>1, <1>4, <2>1, <2>2
  <2>5. \A i \in 1 .. z - 1 : i \in 1 .. BLOCK_SIZE /\ cells[i] # NUL
    <3>1. ASSUME NEW i \in 1 .. z - 1, cells[i] = NUL PROVE FALSE
      <4>1. i \in stops
          BY <1>1, <2>2, <3>1
      <4> QED BY <1>1, <2>1, <2>2, <4>1
    <3> QED BY <1>1, <2>2, <3>1
  <2>6. InPlace(text, n)
      BY <1>5, <2>3, <2>4, <2>5 DEF InPlace
  <2>7. UpToNul(text, n)
    <3> SUFFICES ASSUME NEW i \in 1 .. n
                 PROVE  \/ consumed + i \in nuls
                        \/ i <= Len(text) /\ text[i] = consumed + i
                        \/ \E j \in 1 .. i - 1 : consumed + j \in nuls
        BY DEF UpToNul
    <3>1. CASE i < z
        BY <1>1, <1>7, <2>2, <2>3, <2>4, <2>5, <3>1
    <3>2. CASE i = z
        BY <1>6, <2>2, <3>2
    <3>3. CASE i > z
      <4>1. z \in 1 .. n /\ z \in 1 .. i - 1
          BY <1>1, <2>2, <3>3
      <4> QED BY <1>6, <2>2, <4>1
    <3> QED BY <1>1, <2>2, <3>1, <3>2, <3>3
  <2>8. ASSUME consumed > 0, n < BLOCK_SIZE, NEW i \in 1 .. Len(text)
        PROVE  text[i] # Junk
    <3>1. z <= n + 1
        BY <1>9, <2>1, <2>8
    <3>2. i \in 1 .. n /\ i \in 1 .. z - 1
        BY <1>1, <2>2, <2>3, <3>1
    <3> QED BY <1>8, <2>4, <3>2
  <2> QED BY <2>3, <2>6, <2>7, <2>8
<1> QED BY <1>10, <1>11
-----------------------------------------------------------------------------
(***************************************************************************)
(* A pass over the next bytes of the stream.                               *)
(***************************************************************************)
LEMMA PassKeeps ==
    ASSUME ChannelsInv,
           NEW data \in Seq(Bytes), NEW n \in 1 .. BLOCK_SIZE, Len(data) = n, consumed + n <= sent,
           \A i \in 1 .. n : data[i] = Byte(consumed + i),
           Pass(data), UNCHANGED <<clientVars, delivered>>
    PROVE  /\ block' \in [1 .. BLOCK_SIZE -> Bytes]
           /\ consumed' = consumed + n
           /\ Cleared' /\ Handed' /\ InOrder' /\ LostOnlyBehindNul'
           /\ nuls = {} => message' # <<>>
           /\ consumed > 0 /\ n < BLOCK_SIZE =>
                Junk \notin ToSet(SubSeq(message', Len(message) + 1, Len(message')))
<1>1. BLOCK_SIZE \in Nat /\ BLOCK_SIZE > 0 /\ MaxSent \in Nat
    BY ChannelsAssumption DEF ChannelsAssumption
<1>2. /\ block \in [1 .. BLOCK_SIZE -> Bytes]
      /\ Cleared /\ Handed /\ InOrder /\ LostOnlyBehindNul
      /\ nuls \subseteq 1 .. sent /\ sent \in Nat
    BY <1>1 DEF ChannelsInv, TypeOK, Bytes
<1>3. consumed \in Nat
    BY DEF ChannelsInv, Flow
<1>4. PICK text \in CString(Overlaid(data)) : message' = message \o text
    BY DEF Pass
<1>5. consumed' = consumed + n /\ block' = [i \in 1 .. BLOCK_SIZE |-> NUL]
    BY DEF Pass
<1>6. nuls' = nuls /\ delivered' = delivered /\ sent' = sent
    BY DEF clientVars
<1>7. /\ text \in Seq(Bytes)
      /\ InPlace(text, n)
      /\ UpToNul(text, n)
      /\ consumed > 0 /\ n < BLOCK_SIZE => \A i \in 1 .. Len(text) : text[i] # Junk
    BY <1>2, <1>3, TextOfPass
<1>8. message \in Seq(Bytes) /\ delivered \in Seq(Bytes) /\ message' \in Seq(Bytes)
    BY <1>2, <1>4, <1>7, ConcatProperties DEF Handed
<1> DEFINE g == Given
           h == delivered \o message'
           m == Len(g)
<1>9. /\ g \in Seq(Bytes) /\ h \in Seq(Bytes) /\ m \in Nat
      /\ h = g \o text
  <2>1. (delivered \o message) \o text = delivered \o (message \o text)
      BY <1>7, <1>8, ConcatAssociative
  <2>2. g \in Seq(Bytes) /\ h \in Seq(Bytes)
      BY <1>8 DEF Given
  <2>3. h = g \o text
      BY <1>4, <2>1 DEF Given
  <2>4. m \in Nat
      BY <2>2
  <2> QED BY <2>2, <2>3, <2>4
<1>10. Given' = h /\ Given = g
    BY <1>6 DEF Given
<1> HIDE DEF g, h, m
<1>11. /\ Len(text) \in Nat /\ Len(h) = m + Len(text)
       /\ \A i \in 1 .. m : h[i] = g[i]
       /\ \A i \in 1 .. Len(text) : h[m + i] = text[i]
    BY <1>7, <1>9 DEF m
<1>12. block' \in [1 .. BLOCK_SIZE -> Bytes]
  <2>1. NUL \in Bytes
      BY <1>1 DEF NUL, Junk, Bytes
  <2> QED BY <1>5, <2>1
<1>13. Cleared'
    BY <1>5 DEF Cleared
<1>14. \A i \in 1 .. m : g[i] = Junk \/ g[i] \in (1 .. consumed) \ nuls
    BY <1>2, <1>10 DEF Handed, m
<1>15. \A i \in 1 .. Len(text) :
          text[i] = Junk \/ text[i] \in (consumed + 1 .. consumed + n) \ nuls
    BY <1>3, <1>7 DEF InPlace
<1>16. \A k \in 1 .. Len(h) : \/ k \in 1 .. m
                              \/ k - m \in 1 .. Len(text) /\ h[k] = text[k - m]
  <2> SUFFICES ASSUME NEW k \in 1 .. Len(h), k \notin 1 .. m
               PROVE  k - m \in 1 .. Len(text) /\ h[k] = text[k - m]
      OBVIOUS
  <2>1. k - m \in 1 .. Len(text) /\ m + (k - m) = k
      BY <1>9, <1>11
  <2>2. h[m + (k - m)] = text[k - m]
      BY <1>11, <2>1
  <2> QED BY <2>1, <2>2
<1>17. Handed'
  <2>1. ASSUME NEW k \in 1 .. Len(h)
        PROVE  h[k] = Junk \/ h[k] \in (1 .. consumed + n) \ nuls
    <3>1. CASE k \in 1 .. m
      <4>1. h[k] = g[k]
          BY <1>11, <3>1
      <4> QED BY <1>3, <1>14, <3>1, <4>1
    <3>2. CASE k - m \in 1 .. Len(text) /\ h[k] = text[k - m]
      <4>1. text[k - m] = Junk \/ text[k - m] \in (consumed + 1 .. consumed + n) \ nuls
          BY <1>15, <3>2
      <4> QED BY <1>3, <3>2, <4>1
    <3> QED BY <1>16, <3>1, <3>2
  <2> QED BY <1>5, <1>6, <1>8, <1>10, <2>1 DEF Handed
<1>18. InOrder'
  <2>1. ASSUME NEW i \in 1 .. Len(h), NEW j \in 1 .. Len(h), i < j, h[i] # Junk, h[j] # Junk
        PROVE  h[i] < h[j]
    <3>1. CASE j \in 1 .. m
      <4>1. i \in 1 .. m /\ j \in 1 .. m /\ h[i] = g[i] /\ h[j] = g[j]
          BY <1>9, <1>11, <2>1, <3>1
      <4> QED BY <1>2, <1>10, <2>1, <4>1 DEF InOrder, m
    <3>2. CASE j - m \in 1 .. Len(text) /\ h[j] = text[j - m]
      <4>1. j - m <= n /\ h[j] = consumed + (j - m)
          BY <1>7, <2>1, <3>2 DEF InPlace
      <4>2. CASE i \in 1 .. m
        <5>1. h[i] = g[i] /\ g[i] \in 1 .. consumed
            BY <1>11, <1>14, <2>1, <4>2
        <5> QED BY <1>3, <1>9, <3>2, <4>1, <5>1
      <4>3. CASE i - m \in 1 .. Len(text) /\ h[i] = text[i - m]
        <5>1. h[i] = consumed + (i - m)
            BY <1>7, <2>1, <4>3 DEF InPlace
        <5> QED BY <1>3, <1>9, <2>1, <4>1, <5>1
      <4> QED BY <1>16, <4>2, <4>3
    <3> QED BY <1>16, <3>1, <3>2
  <2> QED BY <1>10, <2>1 DEF InOrder
<1>19. LostOnlyBehindNul'
  <2> DEFINE seen == ToSet(g)
             all == ToSet(h)
  <2>1. \A k \in 1 .. Len(h) : h[k] \in all
    <3>1. DOMAIN h = 1 .. Len(h)
        BY <1>9
    <3> QED BY <3>1 DEF ToSet
  <2>2. seen \subseteq all
    <3>1. \A x \in seen : \E k \in 1 .. m : x = g[k]
        BY <1>9 DEF ToSet, m
    <3> QED BY <1>9, <1>11, <2>1, <3>1
  <2> HIDE DEF seen, all
  <2>3. ASSUME NEW b \in 1 .. consumed + n, b \notin nuls, b \notin all
        PROVE  \E z \in nuls : b - BLOCK_SIZE < z /\ z < b
    <3>1. CASE b <= consumed
      <4>1. b \in (1 .. consumed) \ (nuls \union seen)
          BY <1>3, <2>2, <2>3, <3>1
      <4> QED BY <1>2, <1>10, <4>1 DEF LostOnlyBehindNul, seen
    <3>2. CASE b > consumed
      <4>1. b - consumed \in 1 .. n /\ consumed + (b - consumed) = b
          BY <1>3, <3>2
      <4>2. \/ consumed + (b - consumed) \in nuls
            \/ b - consumed <= Len(text) /\ text[b - consumed] = consumed + (b - consumed)
            \/ \E j \in 1 .. (b - consumed) - 1 : consumed + j \in nuls
          BY <1>7, <4>1 DEF UpToNul
      <4>3. ~(b - consumed <= Len(text) /\ text[b - consumed] = b)
        <5> SUFFICES ASSUME b - consumed <= Len(text), text[b - consumed] = b PROVE FALSE
            OBVIOUS
        <5>1. b - consumed \in 1 .. Len(text) /\ m + (b - consumed) \in 1 .. Len(h)
            BY <1>9, <1>11, <4>1
        <5> QED BY <1>11, <2>1, <2>3, <5>1
      <4>4. PICK j \in 1 .. (b - consumed) - 1 : consumed + j \in nuls
          BY <2>3, <4>1, <4>2, <4>3
      <4>5. b - BLOCK_SIZE < consumed + j /\ consumed + j < b
          BY <1>1, <1>3, <4>1
      <4> QED BY <4>4, <4>5
    <3> QED BY <1>3, <3>1, <3>2
  <2> QED BY <1>5, <1>6, <1>10, <2>3 DEF LostOnlyBehindNul, all
<1>20. nuls = {} => message' # <<>>
  <2> SUFFICES ASSUME nuls = {} PROVE message' # <<>>
      OBVIOUS
  <2>1. Len(text) >= 1
    <3>1. 1 \in 1 .. n
        OBVIOUS
    <3> QED BY <1>7, <1>11, <3>1 DEF UpToNul
  <2>2. Len(message') = Len(message) + Len(text)
      BY <1>4, <1>7, <1>8
  <2> QED BY <1>8, <2>1, <2>2, EmptySeq
<1>21. ASSUME consumed > 0, n < BLOCK_SIZE
       PROVE  Junk \notin ToSet(SubSeq(message', Len(message) + 1, Len(message')))
  <2>1. SubSeq(message', Len(message) + 1, Len(message')) = text
      BY <1>4, <1>7, <1>8
  <2>2. \A i \in 1 .. Len(text) : text[i] # Junk
      BY <1>7, <1>21
  <2>3. Junk \notin ToSet(text)
      BY <1>7, <2>2 DEF ToSet
  <2> QED BY <2>1, <2>3
<1> QED BY <1>5, <1>12, <1>13, <1>17, <1>18, <1>19, <1>20, <1>21
-----------------------------------------------------------------------------
(***************************************************************************)
(* The client's steps.                                                     *)
(***************************************************************************)
(* The stream has the length TypeOK says, in numbers.                       *)
LEMMA StreamFacts ==
    ASSUME TypeOK, Flow
    PROVE  /\ socket \in Seq(Seq(Bytes))
           /\ FlattenSeq(socket) \in Seq(Bytes) /\ Len(FlattenSeq(socket)) \in Nat
           /\ Len(pending) \in Nat
           /\ consumed \in 0 .. sent /\ sent \in Nat /\ sent <= MaxSent
           /\ AllRead => consumed = sent
<1>1. MaxSent \in Nat
    BY ChannelsAssumption DEF ChannelsAssumption
<1>2. socket \in Seq(Seq(Bytes))
    BY DEF Flow
<1>3. FlattenSeq(socket) \in Seq(Bytes)
  <2>1. <<>> \in Seq(Bytes)
      OBVIOUS
  <2> QED BY <1>2, <2>1, FlattenProperties
<1>4. Len(FlattenSeq(socket)) \in Nat /\ Len(pending) \in Nat /\ consumed \in Nat
    BY <1>3 DEF Flow
<1>5. /\ sent \in Nat /\ sent <= MaxSent
      /\ consumed + Len(pending) + Len(FlattenSeq(socket)) = sent
    BY <1>1 DEF TypeOK
<1>6. consumed \in 0 .. sent
    BY <1>4, <1>5
<1>7. AllRead => consumed = sent
  <2>1. FlattenSeq(<<>>) = <<>> /\ Len(<<>>) = 0
    <3>1. <<>> \in Seq(Bytes)
        OBVIOUS
    <3> QED BY <1>2, <3>1, FlattenProperties, EmptySeq
  <2> QED BY <1>4, <1>5, <2>1 DEF AllRead
<1> QED BY <1>2, <1>3, <1>4, <1>5, <1>6, <1>7

(* The requests are finitely many, and counted.                             *)
LEMMA EndsFacts ==
    ASSUME TypeOK, Flow
    PROVE  /\ IsFiniteSet(ends) /\ Cardinality(ends) \in Nat
           /\ \A x \in Nat : x \notin ends =>
                 Cardinality(ends \union {x}) = Cardinality(ends) + 1
<1>1. sent \in Nat /\ ends \subseteq 1 .. sent
    BY StreamFacts DEF TypeOK
<1>2. IsFiniteSet(1 .. sent)
    BY <1>1, FS_Interval
<1>3. IsFiniteSet(ends)
    BY <1>1, <1>2, FS_Subset
<1>4. Cardinality(ends) \in Nat
    BY <1>3, FS_CardinalityType
<1>5. \A x \in Nat : x \notin ends => Cardinality(ends \union {x}) = Cardinality(ends) + 1
    BY <1>3, FS_AddElement
<1> QED BY <1>3, <1>4, <1>5

LEMMA InitKeeps ==
    Init => ChannelsInv
<1> SUFFICES ASSUME Init PROVE ChannelsInv
    OBVIOUS
<1>1. /\ BLOCK_SIZE \in Nat /\ MaxSent \in Nat /\ SendBuffer \in Nat
    BY ChannelsAssumption DEF ChannelsAssumption
<1>2. FlattenSeq(<<>>) = <<>> /\ Len(<<>>) = 0
  <2>1. <<>> \in Seq(Bytes) /\ <<>> \in Seq(Seq(Bytes))
      OBVIOUS
  <2> QED BY <2>1, FlattenProperties, EmptySeq
<1>3. /\ sent = 0 /\ nuls = {} /\ ends = {} /\ socket = <<>> /\ pending = <<>> /\ loop = "idle"
      /\ message = <<>> /\ consumed = 0 /\ delivered = <<>> /\ answers = 0 /\ unread = 0
      /\ cut = FALSE
    BY DEF Init
<1>4. /\ block \in [1 .. BLOCK_SIZE -> Bytes]
      /\ \A i \in 1 .. BLOCK_SIZE : block[i] \in {Junk, NUL}
  <2>1. PICK k \in 1 .. BLOCK_SIZE + 1 :
            block = [i \in 1 .. BLOCK_SIZE |-> IF i < k THEN Junk ELSE NUL]
      BY DEF Init
  <2>2. Junk \in Bytes /\ NUL \in Bytes
      BY <1>1 DEF Bytes, Junk, NUL
  <2> QED BY <2>1, <2>2
<1>5. TypeOK
    BY <1>1, <1>2, <1>3, <1>4 DEF TypeOK, Bytes
<1>6. Flow
  <2>1. <<>> \in Seq(Seq(Bytes) \ {<<>>}) /\ <<>> \in Seq(Bytes)
      OBVIOUS
  <2> QED BY <1>2, <1>3, <2>1 DEF Flow
<1>7. Cleared
    BY <1>3, <1>4 DEF Cleared
<1>8. Given = <<>> /\ <<>> \in Seq(Bytes)
  <2>1. <<>> \in Seq(Bytes)
      OBVIOUS
  <2> QED BY <1>3, <2>1, ConcatEmptySeq DEF Given
<1>9. Handed /\ InOrder
    BY <1>2, <1>3, <1>8 DEF Handed, InOrder
<1>10. LostOnlyBehindNul
    BY <1>3 DEF LostOnlyBehindNul
<1>11. InTurn
    BY <1>3 DEF InTurn
<1>12. Polite
  <2>1. Cardinality({}) = 0 /\ ends \intersect (1 .. consumed) = {}
      BY <1>3, FS_EmptySet
  <2>2. OneAtATime
      BY <1>3, <2>1 DEF OneAtATime, AllRead, BetweenRequests
  <2>3. NothingHidden
      BY <1>3, <2>1 DEF NothingHidden
  <2> QED BY <1>3, <2>2, <2>3 DEF Polite
<1> QED BY <1>5, <1>6, <1>7, <1>9, <1>10, <1>11, <1>12 DEF ChannelsInv

LEMMA ReceiveKeeps ==
    ASSUME ChannelsInv, Receive
    PROVE  ChannelsInv'
<1>1. SendBuffer \in Nat
    BY ChannelsAssumption DEF ChannelsAssumption
<1>2. /\ UNCHANGED <<secure, patient, sent, nuls, ends, socket, pending, block, consumed, filled,
                     loop, message, delivered, torn, answers, cut, oversize>>
      /\ unread > 0 /\ unread' = 0
    BY DEF Receive, clientVars, readVars
<1>3. TypeOK'
    BY <1>1, <1>2 DEF ChannelsInv, TypeOK
<1>4. Flow'
    BY <1>2 DEF ChannelsInv, Flow, Byte
<1>5. Cleared' /\ InTurn'
    BY <1>2 DEF ChannelsInv, Cleared, InTurn
<1>6. Given' = Given
    BY <1>2 DEF Given
<1>7. Handed' /\ InOrder' /\ LostOnlyBehindNul'
    BY <1>2, <1>6 DEF ChannelsInv, Handed, InOrder, LostOnlyBehindNul
<1>8. Polite'
  <2> SUFFICES ASSUME patient, ~torn
               PROVE  OneAtATime' /\ NothingHidden' /\ (~oversize => ~cut)'
      BY <1>2 DEF Polite
  <2>1. OneAtATime /\ NothingHidden /\ (~oversize => ~cut)
      BY DEF ChannelsInv, Polite
  <2>2. OneAtATime'
      BY <1>2, <2>1 DEF OneAtATime, AllRead, BetweenRequests
  <2>3. NothingHidden'
      BY <1>2, <2>1 DEF NothingHidden, AllRead
  <2> QED BY <1>2, <2>1, <2>2, <2>3
<1> QED BY <1>3, <1>4, <1>5, <1>7, <1>8 DEF ChannelsInv

LEMMA SendKeeps ==
    ASSUME ChannelsInv, NEW n \in 1 .. MaxSegment, NEW zeros \in SUBSET (sent + 1 .. sent + n),
           NEW last \in BOOLEAN, Send(n, zeros, last)
    PROVE  ChannelsInv'
<1>1. MaxSent \in Nat /\ MaxSegment \in Nat
    BY ChannelsAssumption DEF ChannelsAssumption
<1>2. TypeOK /\ Flow
    BY DEF ChannelsInv
<1>3. /\ socket \in Seq(Seq(Bytes))
      /\ FlattenSeq(socket) \in Seq(Bytes) /\ Len(FlattenSeq(socket)) \in Nat
      /\ Len(pending) \in Nat
      /\ consumed \in 0 .. sent /\ sent \in Nat /\ sent <= MaxSent
    BY <1>2, StreamFacts
<1>4. /\ UNCHANGED <<secure, patient, pending, block, consumed, filled, loop, message, delivered,
                     torn, answers, unread, cut, oversize>>
      /\ sent + n <= MaxSent
      /\ sent' = sent + n
      /\ nuls' = nuls \union zeros
      /\ ends' = IF last THEN ends \union {sent + n} ELSE ends
    BY DEF Send, writeVars
<1> DEFINE x == [i \in 1 .. n |-> IF sent + i \in zeros THEN NUL ELSE sent + i]
<1>5. socket' = Append(socket, x)
    BY DEF Send
<1>6. /\ x \in Seq(Bytes) /\ Len(x) = n /\ x # <<>>
      /\ \A i \in 1 .. n : x[i] = IF sent + i \in nuls' THEN NUL ELSE sent + i
  <2>1. n \in Nat /\ n > 0
      BY <1>1
  <2>2. \A i \in 1 .. n : (IF sent + i \in zeros THEN NUL ELSE sent + i) \in Bytes
      BY <1>1, <1>3, <1>4 DEF Bytes, NUL, Junk
  <2>3. x \in [1 .. n -> Bytes]
      BY <2>2
  <2>4. x \in Seq(Bytes) /\ Len(x) = n
      BY <2>1, <2>3
  <2>5. x # <<>>
      BY <2>1, <2>4, EmptySeq
  <2>6. \A i \in 1 .. n : x[i] = IF sent + i \in nuls' THEN NUL ELSE sent + i
    <3> SUFFICES ASSUME NEW i \in 1 .. n
                 PROVE  x[i] = IF sent + i \in nuls' THEN NUL ELSE sent + i
        OBVIOUS
    <3>1. sent + i \notin nuls
        BY <1>2, <1>3 DEF TypeOK
    <3>2. sent + i \in nuls' <=> sent + i \in zeros
        BY <1>4, <3>1
    <3> QED BY <3>2
  <2> QED BY <2>4, <2>5, <2>6
<1> HIDE DEF x
<1> DEFINE old == FlattenSeq(socket)
           l == Len(old)
<1>7. /\ FlattenSeq(socket') = old \o x
      /\ FlattenSeq(socket') \in Seq(Bytes) /\ Len(FlattenSeq(socket')) = l + n
      /\ \A i \in 1 .. l : FlattenSeq(socket')[i] = old[i]
      /\ \A i \in 1 .. n : FlattenSeq(socket')[l + i] = x[i]
  <2>1. FlattenSeq(socket') = old \o x
      BY <1>3, <1>5, <1>6, FlattenProperties
  <2> HIDE DEF old
  <2>2. old \in Seq(Bytes) /\ n \in Nat
      BY <1>1, <1>3 DEF old
  <2> DEFINE new == FlattenSeq(socket')
  <2>3. new = old \o x
      BY <2>1
  <2> HIDE DEF new
  <2>4. new \in Seq(Bytes) /\ Len(new) = l + n
    <3>1. x \in Seq(Bytes) /\ Len(x) = n
        BY <1>6
    <3> QED BY <2>2, <2>3, <3>1, ConcatProperties
  <2>5. \A i \in 1 .. l : new[i] = old[i]
      BY <1>6, <2>2, <2>3
  <2>6. \A i \in 1 .. n : new[l + i] = x[i]
      BY <1>6, <2>2, <2>3
  <2> QED BY <2>3, <2>4, <2>5, <2>6 DEF new
<1>17. l \in Nat /\ consumed + Len(pending) + l = sent
    BY <1>2, <1>3 DEF TypeOK
<1> HIDE DEF l
<1>8. \A b \in 1 .. sent : b \in nuls' <=> b \in nuls
    BY <1>3, <1>4
<1>9. TypeOK'
  <2>1. sent' \in 0 .. MaxSent
      BY <1>1, <1>3, <1>4
  <2>2. nuls' \subseteq 1 .. sent' /\ ends' \subseteq 1 .. sent'
      BY <1>1, <1>2, <1>3, <1>4 DEF TypeOK
  <2>3. consumed' + Len(pending') + Len(FlattenSeq(socket')) = sent'
    <3>1. consumed' = consumed /\ Len(pending') = Len(pending) /\ sent' = sent + n
        BY <1>4
    <3>2. Len(FlattenSeq(socket')) = l + n
        BY <1>7
    <3>3. consumed \in Nat /\ Len(pending) \in Nat /\ sent \in Nat /\ n \in Nat
        BY <1>1, <1>3
    <3> QED BY <1>17, <3>1, <3>2, <3>3
  <2>4. /\ block' \in [1 .. BLOCK_SIZE -> Junk .. MaxSent] /\ loop' \in {"idle", "read", "message"}
        /\ unread' \in 0 .. SendBuffer /\ answers' \in Nat /\ (pending # <<>> => secure /\ filled)'
      BY <1>2, <1>4 DEF TypeOK
  <2> QED BY <2>1, <2>2, <2>3, <2>4 DEF TypeOK
<1>10. Flow'
  <2>1. socket' \in Seq(Seq(Bytes) \ {<<>>})
      BY <1>2, <1>5, <1>6, AppendProperties DEF Flow
  <2>2. pending' \in Seq(Bytes) /\ consumed' \in Nat
      BY <1>2, <1>4 DEF Flow
  <2>3. l \in Nat /\ consumed + Len(pending) + l = sent
      BY <1>17
  <2>4. ASSUME NEW i \in 1 .. Len(pending) PROVE pending[i] = Byte(consumed + i)'
    <3>1. pending[i] = Byte(consumed + i)
        BY <1>2 DEF Flow
    <3>2. consumed + i \in 1 .. sent
        BY <1>3, <2>3
    <3> QED BY <1>4, <1>8, <3>1, <3>2 DEF Byte
  <2>5. ASSUME NEW i \in 1 .. l + n
        PROVE  FlattenSeq(socket')[i] = Byte(consumed + Len(pending) + i)'
    <3>1. CASE i \in 1 .. l
      <4>1. old[i] = Byte(consumed + Len(pending) + i)
          BY <1>2, <3>1 DEF Flow, l
      <4>2. consumed + Len(pending) + i \in 1 .. sent
          BY <1>3, <2>3, <3>1
      <4> QED BY <1>4, <1>7, <1>8, <3>1, <4>1, <4>2 DEF Byte
    <3>2. CASE i \notin 1 .. l
      <4>1. i - l \in 1 .. n /\ l + (i - l) = i /\ consumed + Len(pending) + i = sent + (i - l)
        <5>1. consumed \in Nat /\ Len(pending) \in Nat /\ sent \in Nat /\ i \in Nat /\ n \in Nat
            BY <1>1, <1>3, <2>3
        <5> QED BY <2>3, <3>2, <5>1
      <4>2. FlattenSeq(socket')[l + (i - l)] = x[i - l]
          BY <1>7, <4>1
      <4>3. x[i - l] = IF sent + (i - l) \in nuls' THEN NUL ELSE sent + (i - l)
          BY <1>6, <4>1
      <4> QED BY <1>4, <4>1, <4>2, <4>3 DEF Byte
    <3> QED BY <3>1, <3>2
  <2> QED BY <1>4, <1>7, <2>1, <2>2, <2>4, <2>5 DEF Flow
<1>11. Cleared' /\ InTurn'
  <2>1. socket' # <<>>
    <3>1. Len(socket') = Len(socket) + 1 /\ Len(socket) \in Nat
        BY <1>3, <1>5, <1>6, AppendProperties
    <3> QED BY <3>1, EmptySeq
  <2> QED BY <1>4, <2>1 DEF ChannelsInv, Cleared, InTurn
<1>12. Given' = Given
    BY <1>4 DEF Given
<1>13. Handed'
  <2>1. \A i \in 1 .. Len(Given) : Given[i] = Junk \/ Given[i] \in (1 .. consumed) \ nuls
      BY DEF ChannelsInv, Handed
  <2>2. \A b \in 1 .. consumed : b \in nuls' <=> b \in nuls
      BY <1>3, <1>8
  <2> QED BY <1>4, <1>12, <2>1, <2>2 DEF ChannelsInv, Handed
<1>14. InOrder'
    BY <1>12 DEF ChannelsInv, InOrder
<1>15. LostOnlyBehindNul'
    BY <1>4, <1>12 DEF ChannelsInv, LostOnlyBehindNul
<1>16. Polite'
  <2> SUFFICES ASSUME patient, ~torn
               PROVE  OneAtATime' /\ NothingHidden' /\ (~oversize => ~cut)'
      BY <1>4 DEF Polite
  <2>1. OneAtATime /\ NothingHidden /\ (~oversize => ~cut)
      BY DEF ChannelsInv, Polite
  <2>2. Cardinality(ends) \in Nat /\ answers \in Nat
      BY <1>2, EndsFacts DEF TypeOK
  <2>3. unread = 0 /\ Cardinality(ends) = answers
    <3>1. CASE BetweenRequests
      <4>1. Cardinality(ends) <= answers /\ unread = 0
          BY <3>1 DEF Send, Answered
      <4> QED BY <2>1, <2>2, <4>1 DEF OneAtATime
    <3>2. CASE ~BetweenRequests
      <4>1. ~AllRead \/ loop # "idle"
          BY <2>1, <3>2 DEF OneAtATime
      <4>2. sent \notin ends
          BY <3>2 DEF BetweenRequests
      <4> QED BY <2>1, <2>2, <4>1, <4>2 DEF OneAtATime
    <3> QED BY <3>1, <3>2
  <2>4. loop # "message"
    <3> SUFFICES ASSUME loop = "message" PROVE FALSE
        OBVIOUS
    <3>1. sent \in ends /\ Cardinality(ends) > answers
        BY <2>1 DEF OneAtATime
    <3> QED BY <2>2, <2>3, <3>1
  <2>5. sent + n \notin ends /\ sent + n \in Nat /\ sent + n \notin 1 .. consumed
      BY <1>1, <1>2, <1>3 DEF TypeOK
  <2>6. Cardinality(ends') = IF last THEN answers + 1 ELSE answers
      BY <1>2, <1>4, <2>3, <2>5, EndsFacts
  <2>7. sent' \in ends' <=> last
      BY <1>4, <2>5
  <2>8. ~AllRead'
    <3>1. Len(socket') = Len(socket) + 1 /\ Len(socket) \in Nat
        BY <1>3, <1>5, <1>6, AppendProperties
    <3> QED BY <3>1, EmptySeq DEF AllRead
  <2>9. OneAtATime'
      BY <1>4, <2>2, <2>3, <2>4, <2>6, <2>7, <2>8 DEF OneAtATime
  <2>10. NothingHidden'
    <3>1. ends' \intersect (1 .. consumed) = ends \intersect (1 .. consumed)
        BY <1>4, <2>5
    <3>2. nuls' = {} => nuls = {}
        BY <1>4
    <3> QED BY <1>4, <2>1, <2>4, <2>8, <3>1, <3>2 DEF NothingHidden
  <2> QED BY <1>4, <2>1, <2>9, <2>10
<1> QED BY <1>9, <1>10, <1>11, <1>13, <1>14, <1>15, <1>16 DEF ChannelsInv
-----------------------------------------------------------------------------
(***************************************************************************)
(* The loop's steps.                                                       *)
(***************************************************************************)
(* What a step appends to the message.                                      *)
NoJunkUnlessFull ==
    consumed > 0 /\ consumed' - consumed < BLOCK_SIZE =>
        Junk \notin ToSet(SubSeq(message', Len(message) + 1, Len(message')))

(* A step that appends nothing appends no junk.                             *)
LEMMA NothingAppended ==
    ASSUME Handed, message' = message \/ message' = <<>>
    PROVE  NoJunkUnlessFull
<1>1. message \in Seq(Bytes) /\ Len(message) \in Nat
    BY DEF Handed
<1>2. SubSeq(message', Len(message) + 1, Len(message')) = <<>>
  <2>1. CASE message' = message
      BY <1>1, <2>1
  <2>2. CASE message' = <<>>
    <3>1. message' \in Seq(Bytes) /\ Len(message') = 0
        BY <2>2, EmptySeq
    <3> QED BY <1>1, <3>1
  <2> QED BY <2>1, <2>2
<1>3. ToSet(<<>>) = {}
    BY DEF ToSet
<1> QED BY <1>2, <1>3 DEF NoJunkUnlessFull

LEMMA HandleMessageEventKeeps ==
    ASSUME ChannelsInv, HandleMessageEvent
    PROVE  ChannelsInv'
<1>1. /\ UNCHANGED <<secure, patient, sent, nuls, ends, socket, pending, block, consumed, filled,
                     delivered, torn, answers, unread, cut, oversize>>
      /\ loop = "idle" /\ loop' = "read" /\ message' = <<>> /\ socket # <<>>
    BY DEF HandleMessageEvent, clientVars, readVars, writeVars
<1>2. message = <<>>
    BY <1>1 DEF ChannelsInv, InTurn
<1>3. TypeOK'
    BY <1>1 DEF ChannelsInv, TypeOK
<1>4. Flow'
    BY <1>1 DEF ChannelsInv, Flow, Byte
<1>5. Cleared' /\ InTurn'
    BY <1>1 DEF ChannelsInv, Cleared, InTurn
<1>6. Given' = Given
    BY <1>1, <1>2 DEF Given
<1>7. Handed' /\ InOrder' /\ LostOnlyBehindNul'
    BY <1>1, <1>2, <1>6 DEF ChannelsInv, Handed, InOrder, LostOnlyBehindNul
<1>8. Polite'
  <2> SUFFICES ASSUME patient, ~torn
               PROVE  OneAtATime' /\ NothingHidden' /\ (~oversize => ~cut)'
      BY <1>1 DEF Polite
  <2>1. OneAtATime /\ (~oversize => ~cut)
      BY DEF ChannelsInv, Polite
  <2>2. ~AllRead /\ ~AllRead'
      BY <1>1 DEF AllRead
  <2>3. OneAtATime'
      BY <1>1, <2>1, <2>2 DEF OneAtATime
  <2>4. NothingHidden'
      BY <1>1, <2>2 DEF NothingHidden
  <2> QED BY <1>1, <2>1, <2>3, <2>4
<1> QED BY <1>3, <1>4, <1>5, <1>7, <1>8 DEF ChannelsInv

LEMMA NormalReadKeeps ==
    ASSUME ChannelsInv, Read, ~secure
    PROVE  ChannelsInv' /\ NoJunkUnlessFull
<1> DEFINE stream == FlattenSeq(socket)
           n == Least(BLOCK_SIZE, Len(stream))
           rest == SubSeq(stream, n + 1, Len(stream))
<1>1. /\ TypeOK /\ Flow
      /\ socket \in Seq(Seq(Bytes))
      /\ stream \in Seq(Bytes) /\ Len(stream) \in Nat
      /\ sent \in Nat /\ consumed \in Nat
    BY StreamFacts DEF ChannelsInv
<1>2. /\ UNCHANGED <<secure, patient, sent, nuls, ends, delivered, answers, unread, cut, oversize>>
      /\ loop = "read" /\ pending' = pending
      /\ socket' = IF rest = <<>> THEN <<>> ELSE <<rest>>
    BY DEF Read, NormalRead, clientVars, writeVars
<1>3. pending = <<>> /\ Len(pending) = 0
    BY <1>1, EmptySeq DEF TypeOK
<1>4. consumed + Len(stream) = sent
    BY <1>1, <1>3 DEF TypeOK
<1>5. \A i \in 1 .. Len(stream) : stream[i] = Byte(consumed + i)
    BY <1>1, <1>3 DEF Flow
<1>6. <<>> \in Seq(Bytes)
    OBVIOUS
<1>7. ASSUME NEW r \in Seq(Bytes), socket' = IF r = <<>> THEN <<>> ELSE <<r>>
      PROVE  FlattenSeq(socket') = r /\ socket' \in Seq(Seq(Bytes) \ {<<>>})
  <2>1. CASE r = <<>>
    <3>1. FlattenSeq(<<>>) = <<>>
        BY <1>1, <1>6, FlattenProperties
    <3>2. <<>> \in Seq(Seq(Bytes) \ {<<>>})
        OBVIOUS
    <3> QED BY <1>7, <2>1, <3>1, <3>2
  <2>2. CASE r # <<>>
    <3>1. FlattenSeq(<<r>>) = r
        BY <1>1, <1>7, FlattenProperties
    <3>2. <<r>> \in Seq(Seq(Bytes) \ {<<>>})
        BY <1>7, <2>2
    <3> QED BY <1>7, <2>2, <3>1, <3>2
  <2> QED BY <2>1, <2>2
<1>8. CASE stream # <<>>
  <2> DEFINE data == SubSeq(stream, 1, n)
  <2>1. Pass(data) /\ loop' = loop /\ torn' = torn
      BY <1>8 DEF Read, NormalRead
  <2>2. /\ n \in 1 .. BLOCK_SIZE /\ n <= Len(stream)
        /\ data \in Seq(Bytes) /\ Len(data) = n
        /\ \A i \in 1 .. n : data[i] = stream[i]
        /\ rest \in Seq(Bytes) /\ Len(rest) = Len(stream) - n
        /\ \A i \in 1 .. Len(stream) - n : rest[i] = stream[n + i]
      BY <1>1, <1>8, FrontAndRest
  <2> HIDE DEF stream, n, data, rest
  <2>3. consumed + n <= sent /\ n \in Nat
      BY <1>1, <1>4, <2>2
  <2>4. \A i \in 1 .. n : data[i] = Byte(consumed + i)
      BY <1>1, <1>5, <2>2
  <2>5. UNCHANGED <<clientVars, delivered>>
      BY <1>2 DEF clientVars
  <2>6. /\ block' \in [1 .. BLOCK_SIZE -> Bytes]
        /\ consumed' = consumed + n
        /\ Cleared' /\ Handed' /\ InOrder' /\ LostOnlyBehindNul'
        /\ nuls = {} => message' # <<>>
        /\ consumed > 0 /\ n < BLOCK_SIZE =>
             Junk \notin ToSet(SubSeq(message', Len(message) + 1, Len(message')))
      BY <2>1, <2>2, <2>3, <2>4, <2>5, PassKeeps
  <2>7. FlattenSeq(socket') = rest /\ socket' \in Seq(Seq(Bytes) \ {<<>>})
      BY <1>2, <1>7, <2>2
  <2>8. consumed' + Len(pending') + Len(FlattenSeq(socket')) = sent'
    <3>1. consumed' = consumed + n /\ Len(pending') = 0 /\ sent' = sent
        BY <1>2, <1>3, <2>6
    <3>2. Len(FlattenSeq(socket')) = Len(stream) - n
        BY <2>2, <2>7
    <3>3. n \in Nat /\ Len(stream) \in Nat /\ consumed \in Nat /\ sent \in Nat
        BY <1>1, <2>3
    <3>4. (consumed + n) + 0 + (Len(stream) - n) = sent
        BY <1>4, <3>3
    <3> QED BY <3>1, <3>2, <3>4
  <2>9. TypeOK'
      BY <1>1, <1>2, <1>3, <2>1, <2>6, <2>8 DEF TypeOK, Bytes
  <2>10. Flow'
    <3>1. ASSUME NEW i \in 1 .. Len(rest) PROVE rest[i] = Byte(consumed + n + i)
      <4>1. i \in 1 .. Len(stream) - n /\ n + i \in 1 .. Len(stream)
          BY <1>1, <2>2
      <4>2. rest[i] = stream[n + i] /\ consumed + (n + i) = consumed + n + i
          BY <1>1, <2>2, <2>3, <4>1
      <4> QED BY <1>5, <4>1, <4>2
    <3>2. \A b : Byte(b)' = Byte(b')
        BY <1>2 DEF Byte
    <3>3. consumed' + Len(pending') = consumed + n /\ consumed' \in Nat
        BY <1>1, <1>2, <1>3, <2>3, <2>6
    <3> QED BY <1>2, <1>3, <1>6, <2>7, <3>1, <3>3 DEF Flow, Byte
  <2>11. InTurn'
      BY <1>2, <2>1 DEF InTurn
  <2>12. Polite'
    <3> SUFFICES ASSUME patient, ~torn
                 PROVE  OneAtATime' /\ NothingHidden' /\ (~oversize => ~cut)'
        BY <1>2, <2>1 DEF Polite
    <3>1. OneAtATime /\ (~oversize => ~cut)
        BY DEF ChannelsInv, Polite
    <3>2. OneAtATime'
        BY <1>2, <2>1, <3>1 DEF OneAtATime
    <3>3. NothingHidden'
        BY <1>2, <2>1, <2>6 DEF NothingHidden
    <3> QED BY <1>2, <3>1, <3>2, <3>3
  <2>13. NoJunkUnlessFull
    <3>1. consumed' - consumed = n
        BY <1>1, <2>3, <2>6
    <3> QED BY <2>6, <3>1 DEF NoJunkUnlessFull
  <2> QED BY <2>6, <2>9, <2>10, <2>11, <2>12, <2>13 DEF ChannelsInv
<1>9. CASE stream = <<>>
  <2>1. /\ block' = [i \in 1 .. BLOCK_SIZE |-> NUL]
        /\ message' = message /\ consumed' = consumed /\ filled' = filled
        /\ loop' = "message" /\ torn' = (torn \/ sent \notin ends)
      BY <1>2, <1>9 DEF Read, NormalRead, ReadEnds
  <2>2. socket = <<>> /\ socket' = <<>>
    <3>1. rest = <<>>
      <4>1. rest \in Seq(Bytes) /\ Len(rest) = 0
        <5>1. Len(stream) = 0
            BY <1>9, EmptySeq
        <5>2. n = 0
            BY <5>1, ChannelsAssumption DEF Least, ChannelsAssumption
        <5> QED BY <1>1, <5>1, <5>2
      <4> QED BY <4>1, EmptySeq
    <3>2. ASSUME socket # <<>> PROVE FALSE
      <4>1. Head(socket) \in Seq(Bytes) /\ Head(socket) # <<>> /\ Tail(socket) \in Seq(Seq(Bytes))
          BY <1>1, <3>2 DEF Flow
      <4>2. FlattenSeq(Tail(socket)) \in Seq(Bytes)
          BY <4>1, <1>6, FlattenProperties
      <4>3. stream = Head(socket) \o FlattenSeq(Tail(socket))
          BY <1>1, <3>2, FlattenHead
      <4> HIDE DEF stream
      <4>4. Len(stream) = Len(Head(socket)) + Len(FlattenSeq(Tail(socket)))
          BY <4>1, <4>2, <4>3, ConcatProperties
      <4>5. Len(Head(socket)) > 0 /\ Len(Head(socket)) \in Nat
          BY <4>1, EmptySeq
      <4>6. Len(FlattenSeq(Tail(socket))) \in Nat
          BY <4>2
      <4>7. Len(stream) = 0
          BY <1>9, EmptySeq
      <4>8. \A a, b \in Nat : a > 0 => a + b # 0
          OBVIOUS
      <4> QED BY <4>4, <4>5, <4>6, <4>7, <4>8
    <3> QED BY <1>2, <3>1, <3>2
  <2>3. TypeOK'
    <3>1. NUL \in Junk .. MaxSent
        BY ChannelsAssumption DEF ChannelsAssumption, NUL, Junk
    <3>2. block' \in [1 .. BLOCK_SIZE -> Junk .. MaxSent]
        BY <2>1, <3>1
    <3>3. FlattenSeq(socket') = FlattenSeq(socket)
        BY <2>2
    <3> HIDE DEF stream, n, rest
    <3> QED BY <1>1, <1>2, <2>1, <3>2, <3>3 DEF TypeOK
  <2>4. Flow'
      BY <1>1, <1>2, <2>1, <2>2 DEF Flow, Byte
  <2>5. Cleared' /\ InTurn'
      BY <1>2, <2>1 DEF Cleared, InTurn
  <2>6. Given' = Given
      BY <1>2, <2>1 DEF Given
  <2>7. Handed' /\ InOrder' /\ LostOnlyBehindNul'
      BY <1>2, <2>1, <2>6 DEF ChannelsInv, Handed, InOrder, LostOnlyBehindNul
  <2>8. Polite'
    <3> SUFFICES ASSUME patient, ~torn, sent \in ends
                 PROVE  OneAtATime' /\ NothingHidden' /\ (~oversize => ~cut)'
        BY <1>2, <2>1 DEF Polite
    <3>1. OneAtATime /\ NothingHidden /\ (~oversize => ~cut)
        BY DEF ChannelsInv, Polite
    <3>2. AllRead /\ AllRead'
        BY <1>2, <1>3, <2>2 DEF AllRead
    <3>3. OneAtATime'
        BY <1>2, <2>1, <3>1, <3>2 DEF OneAtATime
    <3>4. NothingHidden'
        BY <1>2, <2>1, <3>1, <3>2 DEF NothingHidden
    <3> QED BY <1>2, <3>1, <3>3, <3>4
  <2>9. NoJunkUnlessFull
      BY <2>1, NothingAppended DEF ChannelsInv
  <2> QED BY <2>3, <2>4, <2>5, <2>7, <2>8, <2>9 DEF ChannelsInv
<1> QED BY <1>8, <1>9
LEMMA SecureReadKeeps ==
    ASSUME ChannelsInv, Read, secure
    PROVE  ChannelsInv' /\ NoJunkUnlessFull
<1> DEFINE record == IF pending # <<>> THEN pending ELSE Head(socket)
           n == Least(BLOCK_SIZE, Len(record))
           data == SubSeq(record, 1, n)
           rest == SubSeq(record, n + 1, Len(record))
<1>1. /\ TypeOK /\ Flow /\ InTurn
      /\ socket \in Seq(Seq(Bytes))
      /\ FlattenSeq(socket) \in Seq(Bytes) /\ Len(FlattenSeq(socket)) \in Nat
      /\ Len(pending) \in Nat
      /\ sent \in Nat /\ consumed \in Nat
    BY StreamFacts DEF ChannelsInv
<1>2. /\ UNCHANGED <<secure, patient, sent, nuls, ends, delivered, answers, unread, cut, oversize>>
      /\ loop = "read" /\ loop' = "message"
      /\ torn' = (torn \/ sent \notin ends \/ socket' \o pending' # <<>>)
      /\ Pass(data)
      /\ pending' = rest
      /\ socket' = IF pending # <<>> THEN socket ELSE Tail(socket)
    BY DEF Read, SecureRead, ReadEnds, clientVars, writeVars
<1>3. socket # <<>>
    BY <1>1, <1>2 DEF InTurn
<1> DEFINE behind == FlattenSeq(socket')
<1>4. /\ record \in Seq(Bytes) /\ record # <<>>
      /\ \A i \in 1 .. Len(record) : record[i] = Byte(consumed + i)
      /\ socket' \in Seq(Seq(Bytes) \ {<<>>})
      /\ behind \in Seq(Bytes)
      /\ consumed + Len(record) + Len(behind) = sent
      /\ \A i \in 1 .. Len(behind) : behind[i] = Byte(consumed + Len(record) + i)
  <2>1. CASE pending # <<>>
    <3>1. record = pending /\ behind = FlattenSeq(socket) /\ socket' = socket
        BY <1>2, <2>1
    <3> HIDE DEF record, behind
    <3> QED BY <1>1, <2>1, <3>1 DEF Flow, TypeOK
  <2>2. CASE pending = <<>>
    <3>1. record = Head(socket) /\ socket' = Tail(socket)
        BY <1>2, <2>2
    <3>2. Head(socket) \in Seq(Bytes) \ {<<>>} /\ Tail(socket) \in Seq(Seq(Bytes) \ {<<>>})
        BY <1>1, <1>3 DEF Flow
    <3>3. <<>> \in Seq(Bytes) /\ Tail(socket) \in Seq(Seq(Bytes))
        BY <1>1, <1>3
    <3>4. behind \in Seq(Bytes)
        BY <3>1, <3>3, FlattenProperties
    <3> DEFINE stream == FlattenSeq(socket)
    <3>5. stream = record \o behind
      <4>1. FlattenSeq(socket) = Head(socket) \o FlattenSeq(Tail(socket))
          BY <1>1, <1>3, FlattenHead
      <4>2. behind = FlattenSeq(Tail(socket))
          BY <3>1
      <4> HIDE DEF record, behind
      <4> QED BY <3>1, <4>1, <4>2
    <3> DEFINE r == record
               b == behind
    <3>6. stream = r \o b /\ r \in Seq(Bytes) /\ b \in Seq(Bytes)
        BY <3>1, <3>2, <3>4, <3>5
    <3>7. /\ consumed + Len(stream) = sent
          /\ \A i \in 1 .. Len(stream) : stream[i] = Byte(consumed + i)
      <4>1. Len(pending) = 0
          BY <2>2, EmptySeq
      <4> QED BY <1>1, <4>1 DEF TypeOK, Flow
    <3> HIDE DEF stream, record, behind, r, b
    <3>8. /\ Len(r) \in Nat /\ Len(b) \in Nat /\ Len(stream) = Len(r) + Len(b)
          /\ \A i \in 1 .. Len(r) : stream[i] = r[i]
          /\ \A i \in 1 .. Len(b) : stream[Len(r) + i] = b[i]
        BY <3>6
    <3>9. \A i \in 1 .. Len(r) : r[i] = Byte(consumed + i)
      <4> SUFFICES ASSUME NEW i \in 1 .. Len(r) PROVE r[i] = Byte(consumed + i)
          OBVIOUS
      <4>1. i \in 1 .. Len(stream)
          BY <3>8
      <4> QED BY <3>7, <3>8, <4>1
    <3>10. \A i \in 1 .. Len(b) : b[i] = Byte(consumed + Len(r) + i)
      <4> SUFFICES ASSUME NEW i \in 1 .. Len(b) PROVE b[i] = Byte(consumed + Len(r) + i)
          OBVIOUS
      <4>1. Len(r) + i \in 1 .. Len(stream) /\ consumed + (Len(r) + i) = consumed + Len(r) + i
          BY <1>1, <3>8
      <4> QED BY <3>7, <3>8, <4>1
    <3>11. consumed + Len(r) + Len(b) = sent
        BY <1>1, <3>7, <3>8
    <3>12. r = record /\ b = behind
        BY DEF r, b
    <3> QED BY <3>1, <3>2, <3>6, <3>9, <3>10, <3>11, <3>12
  <2> QED BY <2>1, <2>2
<1>5. /\ n \in 1 .. BLOCK_SIZE /\ n <= Len(record)
      /\ data \in Seq(Bytes) /\ Len(data) = n
      /\ \A i \in 1 .. n : data[i] = record[i]
      /\ rest \in Seq(Bytes) /\ Len(rest) = Len(record) - n
      /\ \A i \in 1 .. Len(record) - n : rest[i] = record[n + i]
      /\ rest # <<>> => n = BLOCK_SIZE
  <2> HIDE DEF record
  <2> QED BY <1>4, FrontAndRest
<1> HIDE DEF record, n, data, rest, behind
<1>6. n \in Nat /\ Len(record) \in Nat /\ Len(behind) \in Nat
    BY <1>4, <1>5
<1>7. consumed + n <= sent
    BY <1>1, <1>4, <1>5, <1>6
<1>8. \A i \in 1 .. n : data[i] = Byte(consumed + i)
  <2> SUFFICES ASSUME NEW i \in 1 .. n PROVE data[i] = Byte(consumed + i)
      OBVIOUS
  <2>1. i \in 1 .. Len(record)
      BY <1>5, <1>6
  <2> QED BY <1>4, <1>5, <2>1
<1>9. UNCHANGED <<clientVars, delivered>>
    BY <1>2 DEF clientVars
<1>10. /\ block' \in [1 .. BLOCK_SIZE -> Bytes]
       /\ consumed' = consumed + n
       /\ Cleared' /\ Handed' /\ InOrder' /\ LostOnlyBehindNul'
       /\ nuls = {} => message' # <<>>
       /\ consumed > 0 /\ n < BLOCK_SIZE =>
            Junk \notin ToSet(SubSeq(message', Len(message) + 1, Len(message')))
    BY <1>2, <1>5, <1>7, <1>8, <1>9, PassKeeps
<1>11. TypeOK'
  <2>1. consumed' + Len(pending') + Len(FlattenSeq(socket')) = sent'
    <3>1. (consumed + n) + (Len(record) - n) + Len(behind) = sent
      <4>1. consumed + Len(record) + Len(behind) = sent /\ consumed \in Nat /\ sent \in Nat
          BY <1>1, <1>4
      <4> QED BY <1>6, <4>1
    <3> QED BY <1>2, <1>5, <1>10, <3>1 DEF behind
  <2>2. (pending # <<>> => secure /\ filled)'
    <3>1. filled' = (filled \/ n = BLOCK_SIZE)
        BY <1>2, <1>5 DEF Pass
    <3> QED BY <1>2, <1>5, <3>1
  <2> QED BY <1>1, <1>2, <1>10, <2>1, <2>2 DEF TypeOK, Bytes
<1>12. Flow'
  <2>1. ASSUME NEW i \in 1 .. Len(rest) PROVE rest[i] = Byte(consumed + n + i)
    <3>1. i \in 1 .. Len(record) - n /\ n + i \in 1 .. Len(record)
          /\ consumed + (n + i) = consumed + n + i
        BY <1>1, <1>5, <1>6
    <3>2. rest[i] = record[n + i]
        BY <1>5, <3>1
    <3> QED BY <1>4, <3>1, <3>2
  <2>2. consumed' + Len(pending') = consumed + Len(record) /\ consumed' \in Nat
    <3>1. consumed' = consumed + n /\ Len(pending') = Len(record) - n /\ consumed \in Nat
        BY <1>1, <1>2, <1>5, <1>10
    <3> QED BY <1>6, <3>1
  <2>3. ASSUME NEW i \in 1 .. Len(behind)
        PROVE  behind[i] = Byte(consumed' + Len(pending') + i)
      BY <1>4, <2>2
  <2> QED BY <1>2, <1>4, <1>5, <1>10, <2>1, <2>2, <2>3 DEF Flow, Byte, behind
<1>13. InTurn'
    BY <1>2 DEF InTurn
<1>14. Polite'
  <2> SUFFICES ASSUME patient, ~torn, sent \in ends, socket' \o pending' = <<>>
               PROVE  OneAtATime' /\ NothingHidden' /\ (~oversize => ~cut)'
      BY <1>2 DEF Polite
  <2>1. OneAtATime /\ (~oversize => ~cut)
      BY <1>2 DEF ChannelsInv, Polite
  <2>2. socket' = <<>> /\ pending' = <<>>
    <3> DEFINE S == Seq(Bytes) \union Bytes
               s == socket'
               p == pending'
    <3>1. s \in Seq(S) /\ p \in Seq(S) /\ s \o p = <<>>
        BY <1>2, <1>4, <1>5
    <3> HIDE DEF S, s, p
    <3>2. Len(s) \in Nat /\ Len(p) \in Nat /\ Len(s) + Len(p) = 0
        BY <3>1, ConcatProperties, EmptySeq
    <3>3. s = <<>> /\ p = <<>>
        BY <3>1, <3>2, EmptySeq
    <3> QED BY <3>3 DEF s, p
  <2>3. OneAtATime'
      BY <1>2, <2>1, <2>2 DEF OneAtATime, AllRead
  <2>4. NothingHidden'
      BY <1>2, <1>10 DEF NothingHidden
  <2> QED BY <1>2, <2>1, <2>3, <2>4
<1>15. NoJunkUnlessFull
  <2>1. consumed' - consumed = n
      BY <1>1, <1>6, <1>10
  <2> QED BY <1>10, <2>1 DEF NoJunkUnlessFull
<1> QED BY <1>10, <1>11, <1>12, <1>13, <1>14, <1>15 DEF ChannelsInv
(* A response that is short enough is taken whole when the socket is empty, *)
(* and never more than there is room for.                                   *)
LEMMA WhatIsTaken ==
    ASSUME unread \in 0 .. SendBuffer, NEW size \in 1 .. MaxResponse,
           NEW taken \in Taken(BufferFromResponse(size))
    PROVE  /\ unread + taken \in 0 .. SendBuffer
           /\ unread = 0 /\ size <= LongestWhole => taken = size
<1>1. /\ SendBuffer \in Nat /\ MaxSegment \in Nat /\ MaxResponse \in Nat
      /\ SizeWrap \in Nat /\ SizeWrap > 0
    BY ChannelsAssumption DEF ChannelsAssumption
<1> DEFINE kept == size % SizeWrap
<1>2. kept \in Nat /\ (size < SizeWrap => kept = size)
    BY <1>1
<1> HIDE DEF kept
<1>3. Taken(kept) = IF ~secure
                    THEN {Least(kept, Room)}
                    ELSE IF kept <= Room /\ kept <= MaxSegment
                         THEN {kept}
                         ELSE 0 .. Least(Room, MaxSegment)
    BY DEF Taken
<1>4. taken \in Taken(kept)
    BY DEF BufferFromResponse, kept
<1>5. Room \in Nat /\ Room = SendBuffer - unread
    BY <1>1 DEF Room
<1>6. taken \in 0 .. Room
    BY <1>1, <1>2, <1>3, <1>4, <1>5 DEF Least
<1>7. ASSUME unread = 0, size <= LongestWhole PROVE taken = size
  <2>1. size < SizeWrap /\ size <= SendBuffer /\ (secure => size <= MaxSegment)
      BY <1>1, <1>7 DEF LongestWhole, Least
  <2>2. kept = size /\ kept <= Room
      BY <1>1, <1>2, <1>5, <1>7, <2>1
  <2> QED BY <1>3, <1>4, <1>5, <2>1, <2>2 DEF Least
<1> QED BY <1>1, <1>5, <1>6, <1>7

LEMMA OnMessageKeeps ==
    ASSUME ChannelsInv, OnMessage
    PROVE  ChannelsInv'
<1>1. /\ UNCHANGED <<secure, patient, sent, nuls, ends, socket, pending, block, consumed, filled,
                     torn>>
      /\ loop = "message" /\ loop' = "idle"
      /\ delivered' = delivered \o message /\ message' = <<>>
    BY DEF OnMessage, clientVars, readVars
<1>2. /\ TypeOK /\ Flow /\ Handed
      /\ unread \in 0 .. SendBuffer /\ answers \in Nat /\ sent \in Nat
    BY StreamFacts DEF ChannelsInv, TypeOK
<1>3. \/ message = <<>> /\ answers' = answers /\ unread' = unread /\ cut' = cut
         /\ oversize' = oversize
      \/ /\ message # <<>> /\ answers' = answers + 1
         /\ \E size \in 1 .. MaxResponse : Write(size)
    BY DEF OnMessage, writeVars
<1>4. unread' \in 0 .. SendBuffer
  <2>1. CASE \E size \in 1 .. MaxResponse : Write(size)
    <3>1. PICK size \in 1 .. MaxResponse : Write(size)
        BY <2>1
    <3>2. PICK taken \in Taken(BufferFromResponse(size)) : unread' = unread + taken
        BY <3>1 DEF Write
    <3> QED BY <1>2, <3>2, WhatIsTaken
  <2> QED BY <1>2, <1>3, <2>1
<1>5. TypeOK'
    BY <1>1, <1>2, <1>3, <1>4 DEF TypeOK
<1>6. Flow'
    BY <1>1, <1>2 DEF Flow, Byte
<1>7. Cleared' /\ InTurn'
    BY <1>1 DEF ChannelsInv, Cleared, InTurn
<1>8. /\ delivered \in Seq(Bytes) /\ message \in Seq(Bytes) /\ delivered' \in Seq(Bytes)
      /\ message' \in Seq(Bytes)
  <2>1. delivered \in Seq(Bytes) /\ message \in Seq(Bytes)
      BY <1>2 DEF Handed
  <2>2. delivered' \in Seq(Bytes)
      BY <1>1, <2>1, ConcatProperties
  <2> QED BY <1>1, <2>1, <2>2
<1>9. Given' = Given
  <2>1. delivered' \o <<>> = delivered'
      BY <1>8, ConcatEmptySeq
  <2> QED BY <1>1, <2>1 DEF Given
<1>10. Handed' /\ InOrder' /\ LostOnlyBehindNul'
    BY <1>1, <1>8, <1>9 DEF ChannelsInv, Handed, InOrder, LostOnlyBehindNul
<1>11. Polite'
  <2> SUFFICES ASSUME patient, ~torn
               PROVE  OneAtATime' /\ NothingHidden' /\ (~oversize => ~cut)'
      BY <1>1 DEF Polite
  <2>1. OneAtATime /\ NothingHidden /\ (~oversize => ~cut)
      BY DEF ChannelsInv, Polite
  <2>2. /\ AllRead /\ AllRead' /\ sent \in ends /\ unread = 0
        /\ Cardinality(ends) = answers + 1
    <3>1. AllRead /\ sent \in ends /\ unread = 0 /\ Cardinality(ends) > answers
        BY <1>1, <2>1 DEF OneAtATime
    <3>2. Cardinality(ends) \in Nat /\ Cardinality(ends) <= answers + 1
        BY <1>2, <2>1, EndsFacts DEF OneAtATime
    <3> QED BY <1>1, <1>2, <3>1, <3>2 DEF AllRead
  <2>3. OneAtATime'
      BY <1>1, <1>2, <1>3, <2>2 DEF OneAtATime, BetweenRequests
  <2>4. NothingHidden'
    <3> SUFFICES ASSUME nuls = {}
                 PROVE  answers' = Cardinality(ends \intersect (1 .. consumed))
        BY <1>1 DEF NothingHidden
    <3>1. answers' = answers + 1
        BY <1>1, <1>3, <2>1 DEF NothingHidden
    <3>2. ends \intersect (1 .. consumed) = ends
      <4>1. consumed = sent
          BY <1>2, <2>2, StreamFacts
      <4> QED BY <1>2, <4>1 DEF TypeOK
    <3> QED BY <2>2, <3>1, <3>2
  <2>5. ASSUME ~oversize' PROVE ~cut'
    <3>1. CASE \E size \in 1 .. MaxResponse : Write(size)
      <4>1. PICK size \in 1 .. MaxResponse : Write(size)
          BY <3>1
      <4>2. PICK taken \in Taken(BufferFromResponse(size)) : cut' = (cut \/ taken < size)
          BY <4>1 DEF Write
      <4>3. ~oversize /\ ~(size > LongestWhole)
          BY <2>5, <4>1 DEF Write
      <4>4. size <= LongestWhole
          BY <4>3, ChannelsAssumption DEF ChannelsAssumption, LongestWhole, Least
      <4>5. taken = size /\ ~(size < size)
          BY <1>2, <2>2, <4>2, <4>4, WhatIsTaken, ChannelsAssumption DEF ChannelsAssumption
      <4> QED BY <2>1, <4>2, <4>3, <4>5
    <3>2. CASE cut' = cut /\ oversize' = oversize
        BY <2>1, <2>5, <3>2
    <3> QED BY <1>3, <3>1, <3>2
  <2> QED BY <2>3, <2>4, <2>5
<1> QED BY <1>5, <1>6, <1>7, <1>10, <1>11 DEF ChannelsInv

-----------------------------------------------------------------------------
LEMMA StepKeeps ==
    ChannelsInv /\ [Next]_vars => ChannelsInv'
<1> SUFFICES ASSUME ChannelsInv, [Next]_vars PROVE ChannelsInv'
    OBVIOUS
<1>1. CASE HandleMessageEvent
    BY <1>1, HandleMessageEventKeeps
<1>2. CASE Read
    BY <1>2, NormalReadKeeps, SecureReadKeeps
<1>3. CASE OnMessage
    BY <1>3, OnMessageKeeps
<1>4. CASE ClientNext
  <2>1. CASE Receive
      BY <2>1, ReceiveKeeps
  <2>2. ASSUME NEW n \in 1 .. MaxSegment, NEW zeros \in SUBSET (sent + 1 .. sent + n),
               NEW last \in BOOLEAN, Send(n, zeros, last)
        PROVE  ChannelsInv'
      BY <2>2, SendKeeps
  <2> QED BY <1>4, <2>1, <2>2 DEF ClientNext
<1>5. CASE UNCHANGED vars
  <2>1. UNCHANGED <<secure, patient, sent, nuls, ends, socket, pending, block, consumed, filled,
                    loop, message, delivered, torn, answers, unread, cut, oversize>>
      BY <1>5 DEF vars, clientVars, readVars, writeVars
  <2>2. TypeOK' /\ Flow' /\ Cleared' /\ InTurn'
      BY <2>1 DEF ChannelsInv, TypeOK, Flow, Byte, Cleared, InTurn
  <2>3. Given' = Given
      BY <2>1 DEF Given
  <2>4. Handed' /\ InOrder' /\ LostOnlyBehindNul'
      BY <2>1, <2>3 DEF ChannelsInv, Handed, InOrder, LostOnlyBehindNul
  <2>5. Polite'
      BY <2>1 DEF ChannelsInv, Polite, OneAtATime, NothingHidden, AllRead, BetweenRequests
  <2> QED BY <2>2, <2>4, <2>5 DEF ChannelsInv
<1> QED BY <1>1, <1>2, <1>3, <1>4, <1>5 DEF Next, HandleConnections

(* ChannelsInv holds in every reachable state.                              *)
THEOREM ChannelsInvariance == Spec => []ChannelsInv
<1>1. Init => ChannelsInv
    BY InitKeeps
<1>2. ChannelsInv /\ [Next]_vars => ChannelsInv'
    BY StepKeeps
<1> QED BY <1>1, <1>2, PTL DEF Spec

(* The delegate is given the bytes of the stream in their order, each at    *)
(* most once, however it was cut into segments, records and blocks.         *)
THEOREM AlwaysInOrderOnce == Spec => []InOrderOnce
<1>1. ChannelsInv => InOrderOnce
  <2> SUFFICES ASSUME ChannelsInv PROVE InOrderOnce
      OBVIOUS
  <2>1. DOMAIN Given = 1 .. Len(Given)
    <3>1. Given \in Seq(Bytes)
        BY ConcatProperties DEF ChannelsInv, Handed, Given
    <3> QED BY <3>1
  <2> QED BY <2>1 DEF ChannelsInv, InOrder, InOrderOnce
<1> QED BY <1>1, ChannelsInvariance, PTL

(* A byte that was read is lost only behind a NUL of the same pass.         *)
THEOREM AlwaysLostOnlyBehindNul == Spec => []LostOnlyBehindNul
<1>1. ChannelsInv => LostOnlyBehindNul
    BY DEF ChannelsInv
<1> QED BY <1>1, ChannelsInvariance, PTL

(* A client that waits gets one answer for each request.                    *)
THEOREM AlwaysOneAnswerEach == Spec => []OneAnswerEach
<1>1. ChannelsInv => OneAnswerEach
    BY DEF ChannelsInv, Polite, NothingHidden, OneAnswerEach
<1> QED BY <1>1, ChannelsInvariance, PTL

(* And gets it whole, if it is not longer than one Write may be.            *)
THEOREM AlwaysAnswersWhole == Spec => []AnswersWhole
<1>1. ChannelsInv => AnswersWhole
    BY DEF ChannelsInv, Polite, AnswersWhole
<1> QED BY <1>1, ChannelsInvariance, PTL

(* Once the block was cleared, memory that nobody has written gets into a   *)
(* message only when a read fills the block.                                *)
THEOREM JunkAlwaysOnlyWhenFull == Spec => JunkOnlyWhenFull
<1>1. ChannelsInv /\ [Next]_vars => NoJunkUnlessFull
  <2> SUFFICES ASSUME ChannelsInv, [Next]_vars PROVE NoJunkUnlessFull
      OBVIOUS
  <2>1. Handed
      BY DEF ChannelsInv
  <2>2. CASE Read
      BY <2>2, NormalReadKeeps, SecureReadKeeps
  <2>3. CASE HandleMessageEvent \/ OnMessage
    <3>1. message' = <<>>
        BY <2>3 DEF HandleMessageEvent, OnMessage
    <3> QED BY <2>1, <3>1, NothingAppended
  <2>4. CASE ClientNext \/ UNCHANGED vars
    <3>1. message' = message
        BY <2>4 DEF ClientNext, Send, Receive, vars
    <3> QED BY <2>1, <3>1, NothingAppended
  <2> QED BY <2>2, <2>3, <2>4 DEF Next, HandleConnections
<1>2. ChannelsInv /\ [Next]_vars =>
          [consumed > 0 /\ consumed' - consumed < BLOCK_SIZE =>
              Junk \notin ToSet(SubSeq(message', Len(message) + 1, Len(message')))]_vars
    BY <1>1 DEF NoJunkUnlessFull
<1> QED BY <1>2, ChannelsInvariance, PTL DEF Spec, JunkOnlyWhenFull
===============================================================================
