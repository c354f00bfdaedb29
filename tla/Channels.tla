------------------------------- MODULE Channels -------------------------------
(***************************************************************************)
(* One connection and the two channels it may be served through, byte by   *)
(* byte: what NormalChannel::Read and SecureChannel::Read make of the      *)
(* stream with their fixed block, and what Write makes of a response when  *)
(* the client reads slowly.  WebServer takes for granted what is shown     *)
(* here: a segment shorter than the block is delivered as it was sent.     *)
(*                                                                         *)
(* The bytes of the stream are 1, 2, 3 ... in the order the client sends   *)
(* them, except for those that are NUL.  A segment is a TLS record or a    *)
(* piece of a TCP stream; it arrives whole.                                *)
(***************************************************************************)
EXTENDS Integers, SequencesExt

CONSTANTS
    BLOCK_SIZE,         \* BlockSize() of the channel's pool
    MaxSegment,         \* the longest segment
    MaxSent,            \* bounds the bytes the client sends
    MaxNuls,            \* bounds the NULs among them
    SendBuffer,         \* what the socket holds for the client
    SizeWrap,           \* 2^16, where Buffer::Size wraps around
    MaxResponse         \* the longest response

ASSUME ChannelsAssumption ==
    /\ {BLOCK_SIZE, MaxSegment, SendBuffer, SizeWrap} \subseteq Nat \ {0}
    /\ {MaxSent, MaxNuls, MaxResponse} \subseteq Nat

VARIABLES
    secure,         \* is the channel a SecureChannel?
    patient,        \* does the client wait for an answer to each request?
    sent,           \* how many bytes the client has sent
    nuls,           \* which of them are NUL
    ends,           \* which of them are the last of a request
    socket,         \* the segments in the socket
    pending,        \* the rest of a record, inside the TLS object
    block,          \* readStream, kept when it is back in its pool
    loop,           \* idle, read or message
    message,        \* fullBufferedRequest
    consumed,       \* how many bytes recv or tls_read have returned
    delivered,      \* history: what the delegate was given, all in one
    answers,        \* how many responses were written
    unread,         \* the bytes of them the client has not read
    cut,            \* history: a response was cut short
    filled,         \* history: a read has filled the block
    torn,           \* history: a read ended when not all of a request was there
                    \* or, over TLS, when there was more to read
    oversize        \* history: a response was too long for one Write

clientVars == <<secure, patient, sent, nuls, ends>>
readVars == <<socket, pending, block, consumed, filled>>
writeVars == <<answers, unread, cut, oversize>>
vars == <<clientVars, readVars, loop, message, delivered, torn, writeVars>>

NUL == 0
Junk == -1          \* a byte of memory nobody has written

Least(a, b) == IF a < b THEN a ELSE b

Init ==
    /\ secure \in BOOLEAN
    /\ patient \in BOOLEAN
    /\ sent = 0 /\ nuls = {} /\ ends = {}
    /\ socket = <<>> /\ pending = <<>>
    /\ block \in {[i \in 1 .. BLOCK_SIZE |-> IF i < k THEN Junk ELSE NUL] :
                     k \in 1 .. BLOCK_SIZE + 1}
    /\ loop = "idle"
    /\ message = <<>>
    /\ consumed = 0
    /\ delivered = <<>>
    /\ answers = 0 /\ unread = 0
    /\ cut = FALSE /\ filled = FALSE /\ torn = FALSE /\ oversize = FALSE

-----------------------------------------------------------------------------
(***************************************************************************)
(* The client.  A patient one begins a request when it has an answer to    *)
(* each of those before, and has read them.                                *)
(***************************************************************************)
BetweenRequests == sent = 0 \/ sent \in ends

Answered == Cardinality(ends) <= answers /\ unread = 0

Send(n, zeros, last) ==
    /\ sent + n <= MaxSent
    /\ Cardinality(nuls \union zeros) <= MaxNuls
    /\ patient /\ BetweenRequests => Answered
    /\ sent' = sent + n
    /\ nuls' = nuls \union zeros
    /\ ends' = IF last THEN ends \union {sent + n} ELSE ends
    /\ socket' = Append(socket, [i \in 1 .. n |-> IF sent + i \in zeros THEN NUL ELSE sent + i])
    /\ UNCHANGED <<secure, patient, pending, block, consumed, filled, loop, message, delivered,
                   torn, writeVars>>

Receive ==
    /\ unread > 0
    /\ unread' = 0
    /\ UNCHANGED <<clientVars, readVars, loop, message, delivered, torn, answers, cut, oversize>>

-----------------------------------------------------------------------------
(***************************************************************************)
(* The loop hears of the connection while there is something in its        *)
(* socket; kqueue knows nothing of the TLS object.                         *)
(***************************************************************************)
HandleMessageEvent ==
    /\ loop = "idle"
    /\ socket # <<>>
    /\ loop' = "read"
    /\ message' = <<>>
    /\ UNCHANGED <<clientVars, readVars, delivered, torn, writeVars>>

(***************************************************************************)
(* recv or tls_read puts data at the beginning of the block, append takes  *)
(* the block as a C string, and memset clears it.  Without a NUL in the    *)
(* block the string goes on behind it.                                     *)
(***************************************************************************)
Overlaid(data) ==
    [i \in 1 .. BLOCK_SIZE |-> IF i <= Len(data) THEN data[i] ELSE block[i]]

CString(cells) ==
    LET stops == {i \in 1 .. BLOCK_SIZE : cells[i] = NUL}
    IN  IF stops = {}
        THEN {cells, Append(cells, Junk)}
        ELSE {SubSeq(cells, 1, i - 1) : i \in {i \in stops : \A j \in stops : i <= j}}

PassUncleared(data) ==      \* mutant: the block is not cleared
    /\ \E text \in CString(Overlaid(data)) : message' = message \o text
    /\ block' = Overlaid(data)
    /\ consumed' = consumed + Len(data)
    /\ filled' = (filled \/ Len(data) = BLOCK_SIZE)

PassReplaces(data) ==       \* mutant: the string is assigned, not appended
    /\ message' \in CString(Overlaid(data))
    /\ block' = [i \in 1 .. BLOCK_SIZE |-> NUL]
    /\ consumed' = consumed + Len(data)
    /\ filled' = (filled \/ Len(data) = BLOCK_SIZE)

PassFreed(data) ==          \* mutant: each pass has a block of its own
    /\ \E text \in CString(Overlaid(data)) : message' = message \o text
    /\ block' = [i \in 1 .. BLOCK_SIZE |-> Junk]
    /\ consumed' = consumed + Len(data)
    /\ filled' = (filled \/ Len(data) = BLOCK_SIZE)

Pass(data) ==
    /\ \E text \in CString(Overlaid(data)) : message' = message \o text
    /\ block' = [i \in 1 .. BLOCK_SIZE |-> NUL]
    /\ consumed' = consumed + Len(data)
    /\ filled' = (filled \/ Len(data) = BLOCK_SIZE)

ReadEnds ==
    /\ loop' = "message"
    /\ torn' = (torn \/ sent \notin ends \/ (secure /\ socket' \o pending' # <<>>))

(***************************************************************************)
(* Over TCP every pass takes what is there and fits, whatever pieces it    *)
(* came in, until nothing is there.                                        *)
(***************************************************************************)
NormalReadOnce ==           \* mutant: one recv, however much there is
    LET stream == FlattenSeq(socket)
        n == Least(BLOCK_SIZE, Len(stream))
        rest == SubSeq(stream, n + 1, Len(stream))
    IN  /\ socket' = IF rest = <<>> THEN <<>> ELSE <<rest>>
        /\ UNCHANGED pending
        /\ Pass(SubSeq(stream, 1, n))
        /\ ReadEnds

NormalRead ==
    LET stream == FlattenSeq(socket)
        n == Least(BLOCK_SIZE, Len(stream))
        rest == SubSeq(stream, n + 1, Len(stream))
    IN  /\ socket' = IF rest = <<>> THEN <<>> ELSE <<rest>>
        /\ UNCHANGED pending
        /\ IF stream # <<>>
           THEN Pass(SubSeq(stream, 1, n)) /\ UNCHANGED <<loop, torn>>
           ELSE /\ block' = [i \in 1 .. BLOCK_SIZE |-> NUL]
                /\ ReadEnds
                /\ UNCHANGED <<message, consumed, filled>>

(***************************************************************************)
(* Over TLS one tls_read is made, from what is left of the last record or  *)
(* else from the next.                                                     *)
(***************************************************************************)
SecureReadSkips ==          \* mutant: a read begins with the next record
    LET record == Head(socket)
        n == Least(BLOCK_SIZE, Len(record))
    IN  /\ Pass(SubSeq(record, 1, n))
        /\ pending' = SubSeq(record, n + 1, Len(record))
        /\ socket' = Tail(socket)
        /\ ReadEnds

SecureRead ==
    LET record == IF pending # <<>> THEN pending ELSE Head(socket)
        n == Least(BLOCK_SIZE, Len(record))
    IN  /\ Pass(SubSeq(record, 1, n))
        /\ pending' = SubSeq(record, n + 1, Len(record))
        /\ socket' = IF pending # <<>> THEN socket ELSE Tail(socket)
        /\ ReadEnds

Read ==
    /\ loop = "read"
    /\ IF secure THEN SecureRead ELSE NormalRead
    /\ UNCHANGED <<clientVars, delivered, writeVars>>

-----------------------------------------------------------------------------
(***************************************************************************)
(* BufferFromResponse keeps the size of the response in sixteen bits.      *)
(***************************************************************************)
BufferFromResponseNarrow(size) == size % (SizeWrap - 1)  \* mutant: in fewer bits

BufferFromResponse(size) == size % SizeWrap

(***************************************************************************)
(* send takes what there is room for, tls_write one record if there is     *)
(* room for it.  Neither channel looks at how much was taken, and both     *)
(* free the whole buffer.                                                  *)
(***************************************************************************)
Room == SendBuffer - unread

Taken(size) ==
    IF ~secure
    THEN {Least(size, Room)}
    ELSE IF size <= Room /\ size <= MaxSegment
         THEN {size}
         ELSE 0 .. Least(Room, MaxSegment)

LongestWhole ==
    LET buffer == Least(SendBuffer, SizeWrap - 1)
    IN  IF secure THEN Least(buffer, MaxSegment) ELSE buffer

Write(size) ==
    /\ \E n \in Taken(BufferFromResponse(size)) :
          /\ unread' = unread + n
          /\ cut' = (cut \/ n < size)
    /\ oversize' = (oversize \/ size > LongestWhole)

(***************************************************************************)
(* The message is given to the delegate, which answers it as one request,  *)
(* unless there is none.                                                   *)
(***************************************************************************)
OnMessage ==
    /\ loop = "message"
    /\ loop' = "idle"
    /\ delivered' = delivered \o message
    /\ message' = <<>>
    /\ IF message = <<>>
       THEN UNCHANGED writeVars
       ELSE /\ \E size \in 1 .. MaxResponse : Write(size)
            /\ answers' = answers + 1
    /\ UNCHANGED <<clientVars, readVars, torn>>

HandleConnections == HandleMessageEvent \/ Read \/ OnMessage

ClientNext ==
    \/ \E n \in 1 .. MaxSegment : \E zeros \in SUBSET (sent + 1 .. sent + n) :
          \E last \in BOOLEAN : Send(n, zeros, last)
    \/ Receive

Next == HandleConnections \/ ClientNext

(***************************************************************************)
(* The operating system runs the thread of the event loop.  Nothing is     *)
(* assumed of the client.                                                  *)
(***************************************************************************)
Spec == Init /\ [][Next]_vars /\ WF_vars(HandleConnections)

-----------------------------------------------------------------------------
(***************************************************************************)
(* The variables keep their ranges, and every byte the client has sent is  *)
(* in the socket, in the TLS object or consumed.                           *)
(***************************************************************************)
TypeOK ==
    /\ sent \in 0 .. MaxSent
    /\ nuls \subseteq 1 .. sent /\ ends \subseteq 1 .. sent
    /\ block \in [1 .. BLOCK_SIZE -> Junk .. MaxSent]
    /\ loop \in {"idle", "read", "message"}
    /\ unread \in 0 .. SendBuffer
    /\ answers \in Nat
    /\ consumed + Len(pending) + Len(FlattenSeq(socket)) = sent
    /\ pending # <<>> => secure /\ filled

(***************************************************************************)
(* Whatever passes, segments and records the stream went through, the      *)
(* delegate is given its bytes in their order, each at most once; those    *)
(* it has not been given are accounted for by TypeOK.                      *)
(***************************************************************************)
Given == delivered \o message

InOrderOnce ==
    /\ TypeOK
    /\ \A i, j \in DOMAIN Given :
          i < j /\ Junk \notin {Given[i], Given[j]} => Given[i] < Given[j]

(***************************************************************************)
(* A byte that was read is not given to the delegate only when a NUL came  *)
(* before it in the same pass, which ends the C string there.              *)
(***************************************************************************)
LostOnlyBehindNul ==
    \A b \in (1 .. consumed) \ (nuls \union ToSet(Given)) :
        \E z \in nuls : b - BLOCK_SIZE < z /\ z < b

(***************************************************************************)
(* Once the block has been cleared for the first time, memory that nobody  *)
(* has written gets into a message only when a read fills the block.       *)
(***************************************************************************)
JunkOnlyWhenFull ==
    [][consumed > 0 /\ consumed' - consumed < BLOCK_SIZE =>
            Junk \notin ToSet(SubSeq(message', Len(message) + 1, Len(message')))]_vars

(***************************************************************************)
(* A client that waits for each answer gets one for each request, unless   *)
(* a request was not read in one go, or a NUL has hidden one.              *)
(***************************************************************************)
OneAnswerEach ==
    loop = "idle" /\ patient /\ ~torn /\ nuls = {} =>
        answers = Cardinality(ends \intersect (1 .. consumed))

(***************************************************************************)
(* And gets it whole, if it is not longer than a Buffer, a TLS record and  *)
(* the socket allow; Write does not look at what was taken, so what a      *)
(* client that does not wait gets is cut when it reads slowly.             *)
(***************************************************************************)
AnswersWhole == patient /\ ~torn /\ ~oversize => ~cut

(***************************************************************************)
(* Every byte sent is read, in the end, except for the rest of a record    *)
(* longer than the block: kqueue does not report what the TLS object       *)
(* holds, and it stays there until the client sends again.                 *)
(***************************************************************************)
LeftBehind == secure /\ filled /\ pending # <<>> /\ socket = <<>>

EverythingRead == \A n \in 1 .. MaxSent : sent >= n ~> consumed >= n \/ LeftBehind
===============================================================================
