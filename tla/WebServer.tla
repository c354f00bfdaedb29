------------------------------ MODULE WebServer ------------------------------
(***************************************************************************)
(* The running server: SocketServer's event loop (Server::Handle...), the  *)
(* two channels it reads and writes through, and HttpServer, whose         *)
(* callbacks keep the registry of connections and answer requests.         *)
(* Everything here runs on the one thread inside Server::Boot; clients,    *)
(* the network and the kernel take their steps between the server's.       *)
(*                                                                         *)
(* A segment is what one recv or tls_read returns, told apart by what the  *)
(* server makes of it:                                                     *)
(*   "keep"     a request with a Connection header other than "close"      *)
(*   "close"    a request with "Connection: close", with one space, since  *)
(*              the parser makes "lose" of "Connection:close"              *)
(*   "plain"    a request without a Connection header                      *)
(*   "fault"    a request that RequestFromBuffer throws on                 *)
(*   "partial"  over TLS, the beginning of a record or of the handshake,   *)
(*              which the next segment completes; over TCP the same as     *)
(*              "plain", since any bytes are parsed as a whole request     *)
(* A segment is shorter than the channel's buffer.                         *)
(***************************************************************************)
EXTENDS EventEngine, SequencesExt

CONSTANTS
    Client,             \* the peers, each connects once
    NoClient,
    SSLEnabled,         \* SecureChannel or NormalChannel
    Segment,            \* the kinds of segments clients send
    MaxSegments,        \* bounds the segments of one client
    Pipelining,         \* do clients send before they are answered?
    ClientsFinish,      \* may clients shut down their sending side?
    MaxAcceptFailures,  \* bounds the failures of accept other than EMFILE
    PreAlloc,           \* the size of connectionsMemPool to begin with
    MaxAlloc            \* and its limit

ASSUME ServerAssumption ==
    /\ NoClient \notin Client
    /\ SSLEnabled \in BOOLEAN
    /\ Segment \subseteq {"keep", "close", "plain", "fault", "partial"}
    /\ MaxSegments \in Nat
    /\ Pipelining \in BOOLEAN
    /\ ClientsFinish \in BOOLEAN
    /\ MaxAcceptFailures \in Nat
    /\ PreAlloc \in Nat
    /\ MaxAlloc \in Nat \ {0}
    /\ MaxAlloc >= PreAlloc

VARIABLES
    phase,          \* of each client: idle, queued (in the backlog), open, gone
    inbox,          \* what each client sent and the server has not read
    sent,           \* how many segments each client sent
    finished,       \* has the client shut down its sending side?
    answered,       \* how many responses were written to each client
    peer,           \* the client behind each open descriptor
    blocks, allocated, held,    \* connectionsMemPool
    ctx,            \* the memory of each SocketContext, kept when it is free
    connections,    \* HttpServer::_connections
    loop,           \* where the event loop is: idle, read, message, close, died
    events,         \* the notifications of the batch still to be handled
    current,        \* the context whose event is being handled
    message,        \* fullBufferedRequest
    bufferDirty     \* has the read buffer never been written?

clientVars == <<phase, inbox, sent, finished, answered>>
poolVars   == <<blocks, allocated, held>>
loopVars   == <<loop, events, current, message, bufferDirty>>
vars == <<clientVars, peer, knote, poolVars, ctx, connections, loopVars>>

connectionsMemPool ==
    INSTANCE MemoryPool WITH Block <- Context, BLOCK_RESERVE <- 128,
                             HeapMayFail <- FALSE, AllocBound <- MaxAlloc

BadHandle == -1     \* accept has failed

(***************************************************************************)
(* The server has been constructed and set up, with its pool of contexts,  *)
(* its channel and the listening socket, and HttpServer with an empty      *)
(* registry; Boot has registered the listening socket and is in            *)
(* HandleConnections.                                                      *)
(***************************************************************************)
ClientsInit ==
    /\ phase = [c \in Client |-> "idle"]
    /\ inbox = [c \in Client |-> <<>>]
    /\ sent = [c \in Client |-> 0]
    /\ finished = [c \in Client |-> FALSE]
    /\ answered = [c \in Client |-> 0]

ServerInit ==
    /\ peer = [h \in Handle |-> NoClient]
    /\ knote = [h \in Handle |-> NoContext]
    /\ connectionsMemPool!Init
    /\ ctx = [x \in Context |-> [Handle |-> BadHandle, TLS |-> FALSE]]
    /\ bufferDirty = TRUE

HttpServerInit == connections = [h \in Handle \union {BadHandle} |-> NoContext]

LoopInit ==
    /\ loop = "idle"
    /\ events = <<>>
    /\ current = NoContext
    /\ message = <<>>

Init == ClientsInit /\ ServerInit /\ HttpServerInit /\ LoopInit

-----------------------------------------------------------------------------
(***************************************************************************)
(* The clients.                                                            *)
(***************************************************************************)
Connect(c) ==
    /\ phase[c] = "idle"
    /\ phase' = [phase EXCEPT ![c] = "queued"]
    /\ UNCHANGED <<inbox, sent, finished, answered, peer, knote, poolVars, ctx,
                   connections, loopVars>>

Send(c) ==
    /\ phase[c] \in {"queued", "open"}
    /\ ~finished[c]
    /\ sent[c] < MaxSegments
    /\ Pipelining \/ sent[c] = answered[c]
    /\ \E s \in Segment : inbox' = [inbox EXCEPT ![c] = Append(@, s)]
    /\ sent' = [sent EXCEPT ![c] = @ + 1]
    /\ UNCHANGED <<phase, finished, answered, peer, knote, poolVars, ctx,
                   connections, loopVars>>

Finish(c) ==
    /\ ClientsFinish
    /\ phase[c] \in {"queued", "open"}
    /\ ~finished[c]
    /\ finished' = [finished EXCEPT ![c] = TRUE]
    /\ UNCHANGED <<phase, inbox, sent, answered, peer, knote, poolVars, ctx,
                   connections, loopVars>>

-----------------------------------------------------------------------------
(***************************************************************************)
(* kevent: the listening socket is ready while the backlog is not empty, a *)
(* connection while it has bytes or the end of the stream to read.         *)
(***************************************************************************)
Queued == {c \in Client : phase[c] = "queued"}

Readable(c) == inbox[c] # <<>> \/ finished[c]

Ready ==
    {h \in Handle : knote[h] # NoContext /\ peer[h] \in Client /\ Readable(peer[h])}
        \union {h \in {ServerHandle} : Queued # {}}

GetFiredNotifications ==
    /\ loop = "idle"
    /\ events = <<>>
    /\ Ready # {}
    /\ \E order \in Batches(Ready) :
         events' = [i \in DOMAIN order |->
                      Notification(order[i], order[i] \in Handle /\ finished[peer[order[i]]])]
    /\ UNCHANGED <<clientVars, peer, knote, poolVars, ctx, connections, loop,
                   current, message, bufferDirty>>

-----------------------------------------------------------------------------
(***************************************************************************)
(* The channel's AcceptConnection.  accept gives the lowest free           *)
(* descriptor; when it fails the code goes on with -1.  The TLS object is  *)
(* created either way.                                                     *)
(***************************************************************************)
FreeHandles == {h \in Handle : peer[h] = NoClient}

Phantoms == {x \in held : ctx[x].Handle = BadHandle}

AcceptSucceeds(x, c, h) ==
    /\ c \in Queued
    /\ h \in FreeHandles
    /\ \A k \in FreeHandles : h <= k
    /\ phase' = [phase EXCEPT ![c] = "open"]
    /\ peer' = [peer EXCEPT ![h] = c]
    /\ ctx' = [ctx EXCEPT ![x] = [Handle |-> h, TLS |-> SSLEnabled]]

AcceptFails(x) ==
    /\ \/ FreeHandles = {}
       \/ Cardinality(Phantoms) < MaxAcceptFailures
    /\ ctx' = [ctx EXCEPT ![x] = [Handle |-> BadHandle, TLS |-> SSLEnabled]]
    /\ UNCHANGED <<phase, peer>>

(***************************************************************************)
(* HttpServer's callbacks.                                                 *)
(***************************************************************************)
OnClientConnected(x, h) == connections' = [connections EXCEPT ![h] = x]

OnClientDisconnectedForgets(x) ==       \* mutant: the registry is not updated
    UNCHANGED connections

OnClientDisconnected(x) ==
    connections' = [connections EXCEPT ![ctx[x].Handle] = NoContext]

(***************************************************************************)
(* Allocate, accept, tell HttpServer, register.  A failure to allocate is  *)
(* an exception that nothing in HandleConnections catches.                 *)
(***************************************************************************)
HandleNewConnectionEvent ==
    \/ /\ \E x \in Context : \E h \in Handle \union {BadHandle} :
            /\ connectionsMemPool!GetMemory(x)
            /\ \/ \E c \in Client : AcceptSucceeds(x, c, h)
               \/ h = BadHandle /\ AcceptFails(x)
            /\ OnClientConnected(x, h)
            /\ RegisterEvent(h, "Add", x)
       /\ UNCHANGED loop
    \/ /\ connectionsMemPool!GetMemoryExhausted
       /\ loop' = "died"
       /\ UNCHANGED <<phase, peer, ctx, connections, knote>>

(***************************************************************************)
(* The channel's DisposeConnection: the descriptor is closed and, over     *)
(* TLS, the TLS object freed.  What the client sent is lost.               *)
(***************************************************************************)
DisposeConnectionLeaks(x) ==            \* mutant: the TLS object is not freed
    LET h == ctx[x].Handle
        c == peer[h]
    IN  /\ peer' = [peer EXCEPT ![h] = NoClient]
        /\ phase' = [phase EXCEPT ![c] = "gone"]
        /\ inbox' = [inbox EXCEPT ![c] = <<>>]
        /\ UNCHANGED ctx

DisposeConnection(x) ==
    LET h == ctx[x].Handle
        c == peer[h]
    IN  /\ peer' = [peer EXCEPT ![h] = NoClient]
        /\ phase' = [phase EXCEPT ![c] = "gone"]
        /\ inbox' = [inbox EXCEPT ![c] = <<>>]
        /\ ctx' = [ctx EXCEPT ![x].TLS = FALSE]

HandleDisconnectionEventKeeps(x) ==     \* mutant: the context is not released
    /\ DeleteEvent(ctx[x].Handle, Ready)
    /\ DisposeConnection(x)
    /\ OnClientDisconnected(x)
    /\ UNCHANGED poolVars

HandleDisconnectionEventTwice(x) ==     \* mutant: the context is released twice
    /\ DeleteEvent(ctx[x].Handle, Ready)
    /\ DisposeConnection(x)
    /\ OnClientDisconnected(x)
    /\ blocks' = blocks \o <<x, x>>
    /\ held' = held \ {x}
    /\ UNCHANGED allocated

HandleDisconnectionEventLast(x) ==      \* mutant: the highest descriptor is closed
    \E h \in Handle \ FreeHandles :
        /\ \A k \in Handle \ FreeHandles : k <= h
        /\ DeleteEvent(h, Ready)
        /\ DisposeConnection(knote[h])
        /\ OnClientDisconnected(knote[h])
        /\ connectionsMemPool!Release(knote[h])

HandleDisconnectionEvent(x) ==
    /\ DeleteEvent(ctx[x].Handle, Ready)
    /\ DisposeConnection(x)
    /\ OnClientDisconnected(x)
    /\ connectionsMemPool!Release(x)

connectionVars == <<phase, inbox, peer, knote, poolVars, ctx, connections>>

-----------------------------------------------------------------------------
(***************************************************************************)
(* HandleConnections takes the events of the batch one by one.             *)
(***************************************************************************)
HandleFirstEvent ==     \* mutant: the rest of the batch is dropped
    /\ loop = "idle"
    /\ events # <<>>
    /\ events' = <<>>

HandleEvent ==
    /\ loop = "idle"
    /\ events # <<>>
    /\ events' = Tail(events)

HandleServerEvent ==
    /\ HandleEvent
    /\ DigestEvent(Head(events)).Context = NoContext
    /\ HandleNewConnectionEvent
    /\ UNCHANGED <<inbox, sent, finished, answered, current, message, bufferDirty>>

HandleConnectionEvent ==
    LET result == DigestEvent(Head(events))
    IN  /\ HandleEvent
        /\ result.Context # NoContext
        /\ IF result.Type = "Read"
           THEN /\ loop' = "read"
                /\ current' = result.Context
                /\ message' = <<>>
           ELSE UNCHANGED <<loop, current, message>>
        /\ IF result.Type = "Disconnect"
           THEN HandleDisconnectionEvent(result.Context)
           ELSE UNCHANGED connectionVars
        /\ UNCHANGED <<sent, finished, answered, bufferDirty>>

-----------------------------------------------------------------------------
(***************************************************************************)
(* The channel's Read, one pass of its loop at a time.  The buffer comes   *)
(* from the channel's own pool, always the same block because only one     *)
(* Read runs at a time; it is cleared after every pass but not before the  *)
(* first one ever, and is appended as a C string.  So the first pass of    *)
(* all appends whatever the fresh block holds.                             *)
(***************************************************************************)
Residue == IF bufferDirty
           THEN {<<>>, <<"keep">>, <<"close">>, <<"plain">>, <<"fault">>}
           ELSE {<<>>}

Received(data) == \E r \in Residue : message' = message \o data \o r

(***************************************************************************)
(* Over TCP the loop ends when recv returns -1.  At the end of the stream  *)
(* recv returns 0, for ever.                                               *)
(***************************************************************************)
NormalRead(c) ==
    /\ IF inbox[c] # <<>>
       THEN /\ Received(<<Head(inbox[c])>>)
            /\ inbox' = [inbox EXCEPT ![c] = Tail(@)]
            /\ UNCHANGED loop
       ELSE /\ IF finished[c]
               THEN Received(<<>>) /\ UNCHANGED loop
               ELSE loop' = "message" /\ UNCHANGED message
            /\ UNCHANGED inbox

(***************************************************************************)
(* Over TLS the loop ends with the first record, or with the end of the    *)
(* stream; until one of them is there it calls tls_read again.             *)
(***************************************************************************)
Records(c) == {i \in DOMAIN inbox[c] : inbox[c][i] # "partial"}

SecureReadDry(c) ==     \* mutant: every record is read, and the first returned
    IF Records(c) # {}
    THEN \E i \in Records(c) :
            /\ \A j \in Records(c) : i <= j
            /\ Received(<<inbox[c][i]>>)
            /\ inbox' = [inbox EXCEPT ![c] = <<>>]
            /\ loop' = "message"
    ELSE /\ Received(<<>>)
         /\ loop' = IF finished[c] THEN "message" ELSE loop
         /\ UNCHANGED inbox

SecureRead(c) ==
    IF Records(c) # {}
    THEN \E i \in Records(c) :
            /\ \A j \in Records(c) : i <= j
            /\ Received(<<inbox[c][i]>>)
            /\ inbox' = [inbox EXCEPT ![c] = SubSeq(@, i + 1, Len(@))]
            /\ loop' = "message"
    ELSE /\ Received(<<>>)
         /\ loop' = IF finished[c] THEN "message" ELSE loop
         /\ UNCHANGED inbox

Read ==
    /\ loop = "read"
    /\ LET c == peer[ctx[current].Handle]
       IN  IF SSLEnabled THEN SecureRead(c) ELSE NormalRead(c)
    /\ bufferDirty' = FALSE
    /\ UNCHANGED <<phase, sent, finished, answered, peer, knote, poolVars, ctx,
                   connections, events, current>>

-----------------------------------------------------------------------------
(***************************************************************************)
(* HttpServer::OnClientMessage parses what was read as one request: the    *)
(* segments are its lines, one after the other.  It answers once, and then *)
(* looks at the first Connection header; without one GetHeader throws,     *)
(* after the answer.  Whatever is thrown, HandleConnections swallows.      *)
(***************************************************************************)
ParserThrows == "fault" \in ToSet(message)

HasConnection(segment) == segment \in {"keep", "close"}

GetHeaderConnection == SelectSeq(message, HasConnection)

SaysClose ==
    GetHeaderConnection # <<>> /\ Head(GetHeaderConnection) = "close"

(***************************************************************************)
(* The channel's Write, of a response that fits into the socket's buffer.  *)
(***************************************************************************)
Write(x) ==
    answered' = [answered EXCEPT ![peer[ctx[x].Handle]] = @ + 1]

WriteResponse(x) == Write(x)

Handled == loop' = "idle" /\ current' = NoContext /\ message' = <<>>

OnClientMessageKeepAlive(x) ==      \* mutant: the Connection header is ignored
    /\ IF ParserThrows THEN UNCHANGED answered ELSE WriteResponse(x)
    /\ Handled

OnClientMessage(x) ==
    /\ IF ParserThrows THEN UNCHANGED answered ELSE WriteResponse(x)
    /\ IF ~ParserThrows /\ SaysClose
       THEN loop' = "close" /\ UNCHANGED <<current, message>>
       ELSE Handled

HandleMessageEventLingers ==        \* mutant: the handled context stays current
    /\ loop = "message"
    /\ IF message = <<>> THEN UNCHANGED answered ELSE WriteResponse(current)
    /\ loop' = "idle"
    /\ message' = <<>>
    /\ UNCHANGED <<connectionVars, sent, finished, events, current, bufferDirty>>

HandleMessageEvent ==
    /\ loop = "message"
    /\ IF message = <<>>
       THEN UNCHANGED answered /\ Handled
       ELSE OnClientMessage(current)
    /\ UNCHANGED <<connectionVars, sent, finished, events, bufferDirty>>

(***************************************************************************)
(* The end of OnClientMessage, for a request that asks for it.  The client *)
(* has its response before the server waits to delete the registration.    *)
(***************************************************************************)
CloseOnRequest ==
    /\ loop = "close"
    /\ HandleDisconnectionEvent(current)
    /\ Handled
    /\ UNCHANGED <<sent, finished, answered, events, bufferDirty>>

-----------------------------------------------------------------------------
HandleConnections ==
    \/ GetFiredNotifications
    \/ HandleServerEvent
    \/ HandleConnectionEvent
    \/ Read
    \/ HandleMessageEvent
    \/ CloseOnRequest

Environment == \E c \in Client : Connect(c) \/ Send(c) \/ Finish(c)

Next == HandleConnections \/ Environment

Spec == Init /\ [][Next]_vars

(***************************************************************************)
(* The operating system keeps running the thread of the event loop.        *)
(* Nothing is assumed of the clients.                                      *)
(***************************************************************************)
FairSpec == Spec /\ WF_vars(HandleConnections)

-----------------------------------------------------------------------------
(***************************************************************************)
(* Properties.                                                             *)
(***************************************************************************)
Notifications ==
    [ident : Handle \union {ServerHandle}, filter : {"EVFILT_READ"},
     eof : BOOLEAN, udata : Context \union {NoContext}]

ClientTypeOK ==
    /\ phase \in [Client -> {"idle", "queued", "open", "gone"}]
    /\ inbox \in [Client -> Seq(Segment)]
    /\ sent \in [Client -> 0 .. MaxSegments]
    /\ finished \in [Client -> BOOLEAN]
    /\ answered \in [Client -> Nat]

ConnectionTypeOK ==
    /\ peer \in [Handle -> Client \union {NoClient}]
    /\ knote \in [Handle -> Context \union {NoContext}]
    /\ ctx \in [Context -> [Handle : Handle \union {BadHandle}, TLS : BOOLEAN]]
    /\ connections \in [Handle \union {BadHandle} -> Context \union {NoContext}]
    /\ connectionsMemPool!TypeOK

LoopTypeOK ==
    /\ loop \in {"idle", "read", "message", "close", "died"}
    /\ events \in Seq(Notifications)
    /\ current \in Context \union {NoContext}
    /\ current = NoContext <=> loop \in {"idle", "died"}
    /\ message \in Seq(Segment \union {"keep", "close", "plain", "fault"})
    /\ bufferDirty \in BOOLEAN

TypeOK == ClientTypeOK /\ ConnectionTypeOK /\ LoopTypeOK

(***************************************************************************)
(* The registry, the kernel's registrations and the open descriptors say   *)
(* the same: each open connection, and nothing else, is registered with    *)
(* kqueue and in _connections, under its own descriptor and with the       *)
(* context that names it.                                                  *)
(***************************************************************************)
RegistryMatchesKernel ==
    \A h \in Handle :
        /\ connections[h] = knote[h]
        /\ peer[h] = NoClient <=> knote[h] = NoContext
        /\ knote[h] # NoContext => knote[h] \in held /\ ctx[knote[h]].Handle = h

(***************************************************************************)
(* The pointers the loop still has to follow are good.  The rest of the    *)
(* batch was collected before connections were closed, descriptors reused  *)
(* and contexts released by the handlers of its first part.                *)
(***************************************************************************)
StillRegistered(event) ==
    event.ident # ServerHandle =>
        event.udata # NoContext /\ knote[event.ident] = event.udata

EventsFresh ==
    /\ \A i \in DOMAIN events : StillRegistered(events[i])
    /\ \A i, j \in DOMAIN events : events[i].ident = events[j].ident => i = j

CurrentInUse ==
    current # NoContext =>
        /\ current \in held
        /\ ctx[current].Handle \in Handle
        /\ knote[ctx[current].Handle] = current
        /\ \A i \in DOMAIN events : events[i].ident # ctx[current].Handle

NoStaleEvent == EventsFresh /\ CurrentInUse

(***************************************************************************)
(* Every context that is out of the pool belongs to an open connection or  *)
(* to an accept that failed, and a TLS object exists for these and for no  *)
(* others.                                                                 *)
(***************************************************************************)
TLSMatchesContext == \A x \in Context : ctx[x].TLS <=> x \in held /\ SSLEnabled

NoContextLeak ==
    /\ held = {knote[h] : h \in Handle \ FreeHandles} \union Phantoms
    /\ TLSMatchesContext

(***************************************************************************)
(* The event loop is left only when MaxAlloc connections and failed        *)
(* accepts are there at once: those that came and went cost nothing.       *)
(***************************************************************************)
DiesOnlyAtLimit ==
    loop = "died" =>
        Cardinality({c \in Client : phase[c] = "open"}) + Cardinality(Phantoms) = MaxAlloc

(***************************************************************************)
(* The server keeps its side of the pool's contract: whatever way a        *)
(* handler takes, its step is one call MemoryPool specifies, or none, so   *)
(* that a context is given back once, and only while it is out.            *)
(***************************************************************************)
PoolDiscipline == connectionsMemPool!Spec

(***************************************************************************)
(* Every connection in the backlog is accepted.                            *)
(***************************************************************************)
EveryConnectionAccepted ==
    \A c \in Client : phase[c] = "queued" ~> phase[c] # "queued"

(***************************************************************************)
(* Over TLS every request that can be parsed is answered, one response     *)
(* each, whatever was sent before it and by others, unless the connection  *)
(* is being closed before.  Only what the very first read returns may be   *)
(* spoilt by the uninitialised buffer.                                     *)
(***************************************************************************)
Closing(c) == loop = "close" /\ peer[ctx[current].Handle] = c

Answerable(c) == SelectSeq(inbox[c], LAMBDA s : s # "fault")

EveryRequestAnswered ==
    \A c \in Client : \A n \in 1 .. MaxSegments :
        ~bufferDirty /\ answered[c] + Len(Answerable(c)) = n
            ~> answered[c] >= n \/ Closing(c) \/ phase[c] = "gone"

(***************************************************************************)
(* Over TLS a client that asks for its connection to be closed has it      *)
(* closed, though other requests of its make the parser throw; or else the *)
(* server never hears from anybody else again: it waits in the kevent that *)
(* has deleted the registration, and the connection stays open.            *)
(***************************************************************************)
WaitsForOthers(c) == Closing(c) /\ Ready \ {ctx[current].Handle} = {}

CloseHonoured ==
    \A c \in Client :
        ~bufferDirty /\ "close" \in ToSet(inbox[c])
            ~> phase[c] = "gone" \/ []WaitsForOthers(c)

(***************************************************************************)
(* README.md:58, "Non-blocking I/O operations": a client whose record has  *)
(* arrived is read, whatever the other clients have sent so far.           *)
(***************************************************************************)
ReadsDoNotBlock ==
    \A c \in Client : phase[c] = "open" /\ Records(c) # {} ~> Records(c) = {}

(***************************************************************************)
(* main.cpp:25: "For close events, remove the file descriptor from the     *)
(* epoll instance".                                                        *)
(***************************************************************************)
FinishedConnectionClosed ==
    \A c \in Client : finished[c] ~> phase[c] = "gone"
===============================================================================
