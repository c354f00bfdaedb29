------------------------------- MODULE Shutdown -------------------------------
(***************************************************************************)
(* HttpServer::Terminate, called where it does not run beside the event    *)
(* loop: by the handler of a route, in the middle of OnClientMessage, or   *)
(* by the caller of Boot after an exception has ended the loop.  It closes *)
(* connections one by one while clients go on, and the loop, which it does *)
(* not stop, finds in the rest of its batch what has been closed.          *)
(***************************************************************************)
EXTENDS WebServer

VARIABLES
    lastConnection,     \* _lastConnection
    backlog,            \* the clients to be accepted, in the kernel's order
    walk,               \* the index of Terminate's loop; Off, or Done
    outcome             \* "fine", or how the server ended up otherwise

shutdownVars == <<lastConnection, walk, outcome>>
allVars == <<vars, shutdownVars, backlog>>

Off  == -1      \* Terminate has not been called
Done == -2      \* and has returned

(***************************************************************************)
(* A descriptor as the map's key, a U32: -1 is the largest of all.  No     *)
(* number between Top and the descriptors is a key.                        *)
(***************************************************************************)
Top == Max(Handle \union {ServerHandle}) + 1

U32(h) == IF h = BadHandle THEN Top ELSE h

Found(index) ==
    IF index = Top THEN connections[BadHandle]
    ELSE IF index \in Handle THEN connections[index] ELSE NoContext

ShutdownInit ==
    /\ Init
    /\ lastConnection = NoContext
    /\ backlog = <<>>
    /\ walk = Off
    /\ outcome = "fine"

-----------------------------------------------------------------------------
(***************************************************************************)
(* The calls.  After Boot has thrown nothing else runs.                    *)
(***************************************************************************)
MayTerminate ==
    \/ loop = "message" /\ message # <<>> /\ ~ParserThrows
    \/ loop = "died"

TerminateAfterLast ==   \* mutant: the last connection itself is left out
    /\ outcome = "fine"
    /\ walk = Off
    /\ MayTerminate
    /\ walk' = U32(ctx[lastConnection].Handle) - 1
    /\ UNCHANGED <<vars, lastConnection, outcome>>

Terminate ==
    /\ outcome = "fine"
    /\ walk = Off
    /\ MayTerminate
    /\ walk' = U32(ctx[lastConnection].Handle)
    /\ UNCHANGED <<vars, lastConnection, outcome>>

(***************************************************************************)
(* The connection whose accept failed has no descriptor to close.          *)
(***************************************************************************)
DisposePhantom(x) ==
    /\ ctx' = [ctx EXCEPT ![x].TLS = FALSE]
    /\ OnClientDisconnected(x)
    /\ connectionsMemPool!Release(x)
    /\ UNCHANGED <<phase, inbox, peer, knote>>

TerminateNextForgets ==     \* mutant: the registration is not deleted
    /\ walk > ServerHandle
    /\ walk' = walk - 1
    /\ LET x == Found(walk)
       IN  IF x = NoContext THEN UNCHANGED connectionVars
           ELSE IF walk = Top THEN DisposePhantom(x)
           ELSE /\ DisposeConnection(x)
                /\ OnClientDisconnected(x)
                /\ connectionsMemPool!Release(x)
                /\ UNCHANGED knote
    /\ UNCHANGED <<sent, finished, answered, loopVars, lastConnection, outcome>>

TerminateNext ==
    /\ walk > ServerHandle
    /\ walk' = walk - 1
    /\ LET x == Found(walk)
       IN  IF x = NoContext THEN UNCHANGED connectionVars
           ELSE IF walk = Top THEN DisposePhantom(x)
           ELSE HandleDisconnectionEvent(x)
    /\ UNCHANGED <<sent, finished, answered, loopVars, lastConnection, outcome>>

TerminateReturns ==
    /\ walk \notin {Off, Done}
    /\ walk <= ServerHandle
    /\ walk' = Done
    /\ UNCHANGED <<vars, lastConnection, outcome>>

-----------------------------------------------------------------------------
(***************************************************************************)
(* The event loop.                                                         *)
(***************************************************************************)
AcceptAndRemember ==
    /\ HandleServerEvent
    /\ lastConnection' = IF held' = held THEN lastConnection
                         ELSE CHOOSE x \in held' : x \notin held

(***************************************************************************)
(* A notification collected before Terminate closed its connection names a *)
(* context that was released, or is used again.  recv fails on a           *)
(* descriptor that is closed, which is a read of nothing.  On one that an  *)
(* accept of the same batch was given it reads what the new client sent.   *)
(* tls_read is given a null pointer unless the context is used again.      *)
(***************************************************************************)
Closed(h) == IF h \in Handle THEN peer[h] = NoClient ELSE TRUE

TLSGone == SSLEnabled /\ ~ctx[current].TLS

ReadClosedAgain ==      \* mutant: a recv that fails is tried again
    /\ loop = "read"
    /\ Closed(ctx[current].Handle)
    /\ bufferDirty' = FALSE
    /\ UNCHANGED <<clientVars, peer, knote, poolVars, ctx, connections, loop, events,
                   current, message, shutdownVars>>

ReadClosed ==
    /\ loop = "read"
    /\ Closed(ctx[current].Handle) \/ TLSGone
    /\ IF TLSGone
       THEN outcome' = "crashed" /\ UNCHANGED <<loop, bufferDirty>>
       ELSE loop' = "message" /\ bufferDirty' = FALSE /\ UNCHANGED outcome
    /\ UNCHANGED <<clientVars, peer, knote, poolVars, ctx, connections, events,
                   current, message, lastConnection, walk>>

(***************************************************************************)
(* OnClientMessage with a context that was released: of the connection     *)
(* whose handler called Terminate, or of one that the rest of the batch    *)
(* still named.  Over TLS the response is written to a null pointer.  Over *)
(* TCP it goes to whoever has the descriptor, or nowhere.                  *)
(***************************************************************************)
RespondReleasedAlways ==    \* mutant: whatever the request asks for
    /\ IF ParserThrows \/ SSLEnabled \/ Closed(ctx[current].Handle)
       THEN UNCHANGED answered
       ELSE WriteResponse(current)
    /\ loop' = "close"
    /\ UNCHANGED <<connectionVars, sent, finished, events, current, message, bufferDirty,
                   outcome>>

RespondReleased ==
    /\ IF ParserThrows \/ SSLEnabled \/ Closed(ctx[current].Handle)
       THEN UNCHANGED answered
       ELSE WriteResponse(current)
    /\ IF ~ParserThrows /\ ~SSLEnabled /\ SaysClose
       THEN loop' = "close" /\ UNCHANGED <<current, message, outcome>>
       ELSE Handled /\ outcome' = IF ~ParserThrows /\ SSLEnabled THEN "crashed" ELSE outcome
    /\ UNCHANGED <<connectionVars, sent, finished, events, bufferDirty>>

Respond ==
    /\ loop = "message"
    /\ IF message = <<>> \/ current \in held
       THEN HandleMessageEvent /\ UNCHANGED outcome
       ELSE RespondReleased

(***************************************************************************)
(* Such a request that asks for the connection to be closed has the        *)
(* descriptor closed under whoever has it and the context released a       *)
(* second time: the pool then lists it twice, and what follows is not      *)
(* modelled.                                                               *)
(***************************************************************************)
DisposeTwice ==
    /\ outcome' = "spoilt"
    /\ IF Closed(ctx[current].Handle)
       THEN /\ connectionsMemPool!Release(current)
            /\ UNCHANGED <<phase, inbox, peer, knote, ctx, connections>>
       ELSE HandleDisconnectionEvent(current)

CloseAsked ==
    \/ current \in held /\ CloseOnRequest /\ UNCHANGED outcome
    \/ /\ loop = "close"
       /\ current \notin held
       /\ DisposeTwice
       /\ Handled
       /\ UNCHANGED <<sent, finished, answered, events, bufferDirty>>

RespondAfterTerminate ==
    /\ walk = Done
    /\ walk' = Off
    /\ Respond
    /\ UNCHANGED lastConnection

LoopStep ==
    \/ /\ \/ GetFiredNotifications
          \/ HandleConnectionEvent
          \/ loop = "read" /\ ~Closed(ctx[current].Handle) /\ ~TLSGone /\ Read
       /\ UNCHANGED shutdownVars
    \/ AcceptAndRemember /\ UNCHANGED <<walk, outcome>>
    \/ ReadClosed
    \/ (Respond \/ CloseAsked) /\ UNCHANGED <<lastConnection, walk>>

(***************************************************************************)
(* A client whose connection was closed may come back.                     *)
(***************************************************************************)
Reconnect(c) ==
    /\ phase[c] = "gone"
    /\ phase' = [phase EXCEPT ![c] = "queued"]
    /\ sent' = [sent EXCEPT ![c] = 0]
    /\ finished' = [finished EXCEPT ![c] = FALSE]
    /\ answered' = [answered EXCEPT ![c] = 0]
    /\ UNCHANGED <<inbox, peer, knote, poolVars, ctx, connections, loopVars>>

ServerStep ==
    \/ /\ outcome = "fine"
       /\ \/ walk = Off /\ LoopStep
          \/ RespondAfterTerminate
    \/ Terminate
    \/ TerminateNext
    \/ TerminateReturns

Clients ==
    /\ Environment \/ \E c \in Client : Reconnect(c)
    /\ UNCHANGED shutdownVars

(***************************************************************************)
(* Connections are accepted in the order in which they were made, which    *)
(* matters as soon as clients come back.                                   *)
(***************************************************************************)
InOrder ==
    /\ \A c \in Queued : phase'[c] # "queued" => c = Head(backlog)
    /\ backlog' = (IF backlog # <<>> /\ phase'[Head(backlog)] # "queued"
                    THEN Tail(backlog) ELSE backlog) \o SetToSeq(Queued' \ Queued)

ShutdownNext == (ServerStep \/ Clients) /\ InOrder

ShutdownSpec == ShutdownInit /\ [][ShutdownNext]_allVars /\ WF_allVars(ServerStep /\ InOrder)

-----------------------------------------------------------------------------
ShutdownTypeOK ==
    /\ TypeOK
    /\ lastConnection \in Context \union {NoContext}
    /\ lastConnection = NoContext => held = {}
    /\ backlog \in Seq(Queued) /\ Len(backlog) = Cardinality(Queued)
    /\ walk \in {Off, Done} \union 0 .. Top
    /\ outcome \in {"fine", "spoilt", "crashed"}

(***************************************************************************)
(* Whenever Terminate is called and however far it has come, kqueue's      *)
(* registrations, the open descriptors and _connections agree, and a       *)
(* connection to start from is known as soon as there is any.              *)
(***************************************************************************)
TablesAgree == ShutdownTypeOK /\ RegistryMatchesKernel

(***************************************************************************)
(* HttpServer.cpp:76, "just abruptly close the connections": after         *)
(* Terminate the only connections left are those whose descriptor is above *)
(* that of the connection accepted last, or below the server's own.  None  *)
(* above is left when the last accept has failed.                          *)
(***************************************************************************)
TerminateClosesUpToLast ==
    walk = Done =>
        \A h \in Handle : peer[h] # NoClient =>
            h > U32(ctx[lastConnection].Handle) \/ h < ServerHandle

(***************************************************************************)
(* Terminate and the loop together give each context back once, with one   *)
(* exception: a request with "Connection: close" for which the loop has a  *)
(* context that Terminate has given back, because its handler called       *)
(* Terminate or because the rest of the batch named it and an accept of    *)
(* the same batch was given its descriptor.                                *)
(***************************************************************************)
ReleasedOnce ==
    [][connectionsMemPool!Next \/ (SaysClose /\ current \notin held)]_poolVars

(***************************************************************************)
(* The kevent that deletes a registration, in Terminate or for a request   *)
(* that asks for it, does not return before another socket is ready.       *)
(***************************************************************************)
NothingBut(h) == peer[h] # NoClient /\ Ready \ {h} = {}

WaitsInDelete ==
    \/ loop = "close" /\ ~Closed(ctx[current].Handle) /\ NothingBut(ctx[current].Handle)
    \/ walk \in Handle /\ walk > ServerHandle /\ NothingBut(walk)

(***************************************************************************)
(* Terminate does not stop the server: over TCP, where no client finishes, *)
(* a connection that it has not closed is answered and closed on request   *)
(* as before, one that is accepted later included, unless the server waits *)
(* in the deletion of a registration and never hears from anybody else.    *)
(***************************************************************************)
BufferClean == ~bufferDirty /\ (loop = "read" => message = <<>>)

Excused(c) == phase[c] = "gone" \/ outcome # "fine" \/ loop = "died"

Served(c) ==
    /\ \A n \in 1 .. MaxSegments :
          BufferClean /\ answered[c] + Len(inbox[c]) = n
              ~> answered[c] >= n \/ Excused(c) \/ []WaitsInDelete
    /\ BufferClean /\ "close" \in ToSet(inbox[c]) ~> Excused(c) \/ []WaitsInDelete
===============================================================================
