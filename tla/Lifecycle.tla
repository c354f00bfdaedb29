------------------------------ MODULE Lifecycle ------------------------------
(***************************************************************************)
(* The life of a Server: a SocketOptionBuilder makes its configuration,    *)
(* Setup its socket and its channel, Boot binds, listens and runs the      *)
(* event loop, and Terminate, called by another thread or by a delegate of *)
(* the loop itself, ends it.  Every system call may fail, the process has  *)
(* other threads that open and close descriptors, and a descriptor that is *)
(* closed is the next to be given out.                                     *)
(*                                                                         *)
(* Here the loop only accepts connections and reads from them; what it     *)
(* does for them is WebServer's subject.                                   *)
(***************************************************************************)
EXTENDS Integers, FiniteSets, SequencesExt

CONSTANTS
    Client,         \* the peers, each connects once
    Descriptor,     \* the numbers the process can use
    Option,         \* socket options
    Port,
    MaxOptions,     \* bounds the options of a configuration
    MaxForeign      \* bounds the descriptors other threads have open at once

ASSUME LifecycleAssumption ==
    /\ Descriptor \subseteq Nat
    /\ {80, 443} \subseteq Port
    /\ MaxOptions \in Nat
    /\ MaxForeign \in Nat
    /\ Client \cap {"free", "server", "file", "socket"} = {}

VARIABLES
    config,         \* the builder, and then the configuration it has built
    pc,             \* where the thread is that sets up and boots the server
    todo,           \* the options still to be set
    serverSocket,   \* Server::serverSocket
    file,           \* what is behind each descriptor
    sock,           \* the socket behind serverSocket
    registered,     \* is it registered with kqueue?
    channel,        \* none, open or closed
    running,        \* Server::running
    batch,          \* the notifications of the batch still to be handled
    phase,          \* of each client: idle, queued, open, or lost
    ready,          \* the connections with something to read
    term,           \* where Terminate is
    byLoop,         \* is it the loop's own thread that is in Terminate?
    refused,        \* history: an option could not be set
    early,          \* history: Terminate was called before the loop ran
    foreign         \* history: another thread's descriptor was closed

setupVars == <<config, todo>>
socketVars == <<serverSocket, file, sock, registered>>
clientVars == <<phase, ready>>
termVars == <<term, byLoop, early>>
vars == <<config, pc, todo, serverSocket, file, sock, registered, channel, running,
          batch, phase, ready, term, byLoop, refused, early, foreign>>

NoSocket == -1
Unbound == 0

Fresh == [options |-> {}, port |-> Unbound, listening |-> FALSE]

Init ==
    /\ config = [options |-> <<>>, port |-> 80, ssl |-> FALSE]
    /\ pc = "build"
    /\ todo = <<>>
    /\ serverSocket = NoSocket
    /\ file = [d \in Descriptor |-> "free"]
    /\ sock = Fresh
    /\ registered = FALSE
    /\ channel = "none"
    /\ running = FALSE
    /\ batch = <<>>
    /\ phase = [c \in Client |-> "idle"]
    /\ ready = {}
    /\ term = "not called"
    /\ byLoop = FALSE
    /\ refused = FALSE
    /\ early = FALSE
    /\ foreign = FALSE

Lowest(d) ==
    /\ file[d] = "free"
    /\ \A e \in Descriptor : file[e] = "free" => d <= e

Behind(d) == IF d = NoSocket THEN "free" ELSE file[d]

(***************************************************************************)
(* close(d).  With the listening socket the kernel drops its registration  *)
(* and the connections that nobody has accepted.                           *)
(***************************************************************************)
Close(d) ==
    /\ file' = [e \in Descriptor |-> IF e = d THEN "free" ELSE file[e]]
    /\ registered' = (registered /\ d # serverSocket)
    /\ phase' = [c \in Client |->
                    IF Behind(d) = c \/ (phase[c] = "queued" /\ d = serverSocket)
                    THEN "lost" ELSE phase[c]]
    /\ ready' = {c \in ready : phase'[c] = "open"}

(***************************************************************************)
(* The server closes its number, whatever is behind it.                    *)
(***************************************************************************)
CloseServerSocket ==
    /\ Close(serverSocket)
    /\ foreign' = (foreign \/ Behind(serverSocket) \notin {"free", "server"})

(***************************************************************************)
(* What kevent reports: the connections with something to read, and the    *)
(* listening socket while a client waits to be accepted.                   *)
(***************************************************************************)
Queued == {c \in Client : phase[c] = "queued"}

Fired == ready \union IF registered /\ Queued # {} THEN {"server"} ELSE {}

IsSocket == Behind(serverSocket) \in {"server", "socket"}

-----------------------------------------------------------------------------
(***************************************************************************)
(* SocketOptionBuilder.                                                    *)
(***************************************************************************)
Configure(c) ==
    /\ pc = "build"
    /\ config' = c
    /\ UNCHANGED <<pc, todo, socketVars, channel, running, batch, clientVars, termVars,
                   refused, foreign>>

WithSocketOptions(o) ==
    /\ Len(config.options) < MaxOptions
    /\ Configure([config EXCEPT !.options = Append(@, o)])

WithServerPort(p) == Configure([config EXCEPT !.port = p])

WithSSL(enabled) == Configure([config EXCEPT !.ssl = enabled])

Build ==
    /\ pc = "build"
    /\ pc' = "setup"
    /\ UNCHANGED <<setupVars, socketVars, channel, running, batch, clientVars, termVars,
                   refused, foreign>>

-----------------------------------------------------------------------------
(***************************************************************************)
(* Setup.  That socket() failed is not noticed.                            *)
(***************************************************************************)
CreateSocket ==
    /\ pc = "setup"
    /\ \/ \E d \in Descriptor :
             /\ Lowest(d)
             /\ serverSocket' = d
             /\ file' = [file EXCEPT ![d] = "server"]
       \/ UNCHANGED <<serverSocket, file>>
    /\ todo' = config.options
    /\ pc' = "options"
    /\ UNCHANGED <<config, sock, registered, channel, running, batch, clientVars, termVars,
                   refused, foreign>>

(***************************************************************************)
(* A failure closes the socket; it is reported as a success, and Setup     *)
(* goes on with the descriptor.                                            *)
(***************************************************************************)
SetSocketOptionDoes(o) ==
    \/ /\ IsSocket
       /\ sock' = [sock EXCEPT !.options = @ \union {o}]
       /\ UNCHANGED <<file, registered, clientVars, refused, foreign>>
    \/ /\ CloseServerSocket
       /\ refused' = TRUE
       /\ UNCHANGED sock

SetSocketOption ==
    /\ pc = "options"
    /\ todo # <<>>
    /\ SetSocketOptionDoes(Head(todo))
    /\ todo' = Tail(todo)
    /\ UNCHANGED <<config, pc, serverSocket, channel, running, batch, termVars>>

(***************************************************************************)
(* SecureChannel's constructor throws when a file is missing, and exits    *)
(* when the TLS library refuses what they hold.                            *)
(***************************************************************************)
CreateChannel ==
    /\ pc = "options"
    /\ todo = <<>>
    /\ \/ pc' = "bind" /\ channel' = "open"
       \/ config.ssl /\ pc' \in {"threw", "exited"} /\ UNCHANGED channel
    /\ UNCHANGED <<setupVars, socketVars, running, batch, clientVars, termVars, refused, foreign>>

-----------------------------------------------------------------------------
(***************************************************************************)
(* Boot, up to the loop.                                                   *)
(***************************************************************************)
ThrowUnclosed ==    \* mutant: the socket is left open
    /\ pc' = "threw"
    /\ UNCHANGED <<file, foreign, registered, clientVars>>

Throw ==
    /\ pc' = "threw"
    /\ CloseServerSocket

BindUnchecked ==        \* mutant: that bind() failed is not noticed
    /\ pc = "bind"
    /\ sock' \in {sock} \union {s \in {[sock EXCEPT !.port = config.port]} : IsSocket}
    /\ pc' = "listen"
    /\ UNCHANGED <<setupVars, serverSocket, file, registered, channel, running, batch, clientVars,
                   termVars, refused, foreign>>

Bind ==
    /\ pc = "bind"
    /\ \/ /\ IsSocket
          /\ sock' = [sock EXCEPT !.port = config.port]
          /\ pc' = "listen"
          /\ UNCHANGED <<file, foreign, registered, clientVars>>
       \/ Throw /\ UNCHANGED sock
    /\ UNCHANGED <<setupVars, serverSocket, channel, running, batch, termVars, refused>>

Listen ==
    /\ pc = "listen"
    /\ \/ /\ IsSocket
          /\ sock' = [sock EXCEPT !.listening = TRUE]
          /\ pc' = "register"
          /\ UNCHANGED <<file, foreign, registered, clientVars>>
       \/ Throw /\ UNCHANGED sock
    /\ UNCHANGED <<setupVars, serverSocket, channel, running, batch, termVars, refused>>

(***************************************************************************)
(* The overload of RegisterEvent for a descriptor without a context has    *)
(* room for one event and no timeout: kevent makes the change and then     *)
(* waits for something to happen, here for the first client.  The event is *)
(* dropped and reported again.  A change that fails returns at once.       *)
(***************************************************************************)
Register ==
    /\ pc = "register"
    /\ registered' = (Behind(serverSocket) # "free")
    /\ pc' = IF registered' THEN "registering" ELSE "run"
    /\ UNCHANGED <<setupVars, serverSocket, file, sock, channel, running, batch, clientVars,
                   termVars, refused, foreign>>

RegisterReturns ==
    /\ pc = "registering"
    /\ Fired # {}
    /\ pc' = "run"
    /\ UNCHANGED <<setupVars, socketVars, channel, running, batch, clientVars, termVars, refused,
                   foreign>>

Run ==
    /\ pc = "run"
    /\ running' = TRUE
    /\ pc' = "check"
    /\ UNCHANGED <<setupVars, socketVars, channel, batch, clientVars, termVars, refused, foreign>>

-----------------------------------------------------------------------------
(***************************************************************************)
(* HandleConnections.                                                      *)
(***************************************************************************)
CheckOnce ==            \* mutant: running is not read again
    /\ pc = "check"
    /\ pc' = "wait"
    /\ UNCHANGED <<setupVars, socketVars, channel, running, batch, clientVars, termVars,
                   refused, foreign>>

CheckRunning ==
    /\ pc = "check"
    /\ pc' = IF running THEN "wait" ELSE "left"
    /\ UNCHANGED <<setupVars, socketVars, channel, running, batch, clientVars, termVars,
                   refused, foreign>>

GetFiredNotifications ==
    /\ pc = "wait"
    /\ Fired # {}
    /\ batch' \in SetToSeqs(Fired)
    /\ pc' = "handle"
    /\ UNCHANGED <<setupVars, socketVars, channel, running, clientVars, termVars, refused, foreign>>

BatchDone ==
    /\ pc = "handle"
    /\ batch = <<>>
    /\ pc' = "check"
    /\ UNCHANGED <<setupVars, socketVars, channel, running, batch, clientVars, termVars,
                   refused, foreign>>

(***************************************************************************)
(* accept on the descriptor, which may fail, and does unless it is still a *)
(* socket with a connection to accept and there is a number to give it;    *)
(* over TLS the new socket is then given to the channel's server object, a *)
(* null pointer once Terminate has freed it.                               *)
(***************************************************************************)
HandleNewConnection ==
    /\ pc = "handle"
    /\ batch # <<>> /\ Head(batch) = "server"
    /\ IF config.ssl /\ channel = "closed"
       THEN pc' = "crashed" /\ UNCHANGED <<file, phase, batch>>
       ELSE /\ \/ /\ IsSocket
                  /\ \E c \in Queued : \E d \in Descriptor :
                        /\ Lowest(d)
                        /\ file' = [file EXCEPT ![d] = c]
                        /\ phase' = [phase EXCEPT ![c] = "open"]
               \/ UNCHANGED <<file, phase>>
            /\ batch' = Tail(batch)
            /\ UNCHANGED pc
    /\ UNCHANGED <<setupVars, serverSocket, sock, registered, channel, running, ready, termVars,
                   refused, foreign>>

HandleMessageLeaves ==  \* mutant: running is checked after each message
    /\ pc = "handle"
    /\ batch # <<>> /\ Head(batch) # "server"
    /\ batch' = Tail(batch)
    /\ ready' = ready \ {Head(batch)}
    /\ pc' = "check"
    /\ UNCHANGED <<setupVars, socketVars, channel, running, phase, termVars, refused, foreign>>

(***************************************************************************)
(* A message is read and given to the delegate, which may call Terminate.  *)
(***************************************************************************)
HandleMessage ==
    /\ pc = "handle"
    /\ batch # <<>> /\ Head(batch) # "server"
    /\ batch' = Tail(batch)
    /\ ready' = ready \ {Head(batch)}
    /\ \/ UNCHANGED <<term, byLoop>>
       \/ term = "not called" /\ term' = "called" /\ byLoop' = TRUE
    /\ UNCHANGED <<setupVars, pc, socketVars, channel, running, phase, early, refused, foreign>>

Main ==
    /\ byLoop => term = "returned"
    /\ \/ CreateSocket \/ SetSocketOption \/ CreateChannel
       \/ Bind \/ Listen \/ Register \/ RegisterReturns \/ Run
       \/ CheckRunning \/ GetFiredNotifications \/ BatchDone
       \/ HandleNewConnection \/ HandleMessage

-----------------------------------------------------------------------------
(***************************************************************************)
(* Terminate.  Another thread may call it as soon as Setup has returned.   *)
(***************************************************************************)
CallTerminate ==
    /\ term = "not called"
    /\ channel = "open"
    /\ term' = "called"
    /\ UNCHANGED <<setupVars, pc, socketVars, channel, running, batch, clientVars, byLoop,
                   refused, early, foreign>>

StopLoop ==
    /\ term = "called"
    /\ term' = "stopped"
    /\ running' = FALSE
    /\ early' = ~running
    /\ UNCHANGED <<setupVars, pc, socketVars, channel, batch, clientVars, byLoop, refused, foreign>>

UnregisterNothing ==    \* mutant: the registration is not deleted
    /\ term = "stopped"
    /\ term' = "unregistered"
    /\ UNCHANGED <<setupVars, pc, socketVars, channel, running, batch, clientVars, byLoop, early,
                   refused, foreign>>

(***************************************************************************)
(* The deletion waits in the same way, until a connection has something to *)
(* read.                                                                   *)
(***************************************************************************)
Unregister ==
    /\ term = "stopped"
    /\ term' = IF registered THEN "unregistering" ELSE "unregistered"
    /\ registered' = FALSE
    /\ UNCHANGED <<setupVars, pc, serverSocket, file, sock, channel, running, batch, clientVars,
                   byLoop, early, refused, foreign>>

UnregisterReturns ==
    /\ term = "unregistering"
    /\ Fired # {}
    /\ term' = "unregistered"
    /\ UNCHANGED <<setupVars, pc, socketVars, channel, running, batch, clientVars, byLoop, early,
                   refused, foreign>>

CloseChannelAndSocket ==    \* mutant: the channel closes the socket, too
    /\ term = "unregistered"
    /\ term' = "channel closed"
    /\ channel' = "closed"
    /\ CloseServerSocket
    /\ UNCHANGED <<setupVars, pc, serverSocket, sock, running, batch, byLoop, early, refused>>

CloseChannel ==
    /\ term = "unregistered"
    /\ term' = "channel closed"
    /\ channel' = "closed"
    /\ UNCHANGED <<setupVars, pc, socketVars, running, batch, clientVars, byLoop, early, refused,
                   foreign>>

CloseSocket ==
    /\ term = "channel closed"
    /\ term' = "returned"
    /\ CloseServerSocket
    /\ UNCHANGED <<setupVars, pc, serverSocket, sock, channel, running, batch, byLoop, early,
                   refused>>

Terminate ==
    /\ pc # "crashed"
    /\ StopLoop \/ Unregister \/ UnregisterReturns \/ CloseChannel \/ CloseSocket

-----------------------------------------------------------------------------
(***************************************************************************)
(* The other threads of the process, and the clients.                      *)
(***************************************************************************)
OthersOpen(kind) ==
    /\ pc # "build"
    /\ Cardinality({d \in Descriptor : file[d] \in {"file", "socket"}}) < MaxForeign
    /\ \E d \in Descriptor :
          /\ Lowest(d)
          /\ file' = [file EXCEPT ![d] = kind]
          /\ sock' = IF d = serverSocket THEN Fresh ELSE sock
    /\ UNCHANGED <<setupVars, pc, serverSocket, registered, channel, running, batch, clientVars,
                   termVars, refused, foreign>>

OthersClose(d) ==
    /\ file[d] \in {"file", "socket"}
    /\ Close(d)
    /\ UNCHANGED <<setupVars, pc, serverSocket, sock, channel, running, batch, termVars, refused,
                   foreign>>

Connect(c) ==
    /\ phase[c] = "idle"
    /\ sock.listening /\ IsSocket
    /\ phase' = [phase EXCEPT ![c] = "queued"]
    /\ UNCHANGED <<setupVars, pc, socketVars, channel, running, batch, ready, termVars, refused,
                   foreign>>

Send(c) ==
    /\ phase[c] = "open"
    /\ ready' = ready \union {c}
    /\ UNCHANGED <<setupVars, pc, socketVars, channel, running, batch, phase, termVars, refused,
                   foreign>>

Builder ==
    \/ \E o \in Option : WithSocketOptions(o)
    \/ \E p \in Port : WithServerPort(p)
    \/ \E enabled \in BOOLEAN : WithSSL(enabled)
    \/ Build

Environment ==
    /\ pc \notin {"exited", "crashed"}
    /\ \/ \E kind \in {"file", "socket"} : OthersOpen(kind)
       \/ \E d \in Descriptor : OthersClose(d)
       \/ \E c \in Client : Connect(c) \/ Send(c)

Next == Builder \/ Main \/ CallTerminate \/ Terminate \/ Environment

(***************************************************************************)
(* The operating system runs both threads.  Nobody has to call Terminate.  *)
(***************************************************************************)
Spec == Init /\ [][Next]_vars /\ WF_vars(Main) /\ WF_vars(Terminate)

-----------------------------------------------------------------------------
(***************************************************************************)
(* The variables keep their ranges, and what depends on a descriptor is    *)
(* there only while the descriptor is: a connection that is open has one,  *)
(* nobody waits on a closed socket, the server has no channel before its   *)
(* socket and no registration without one.                                 *)
(***************************************************************************)
TypeOK ==
    /\ config \in [options : Seq(Option), port : Port, ssl : BOOLEAN]
    /\ pc \in {"build", "setup", "options", "bind", "listen", "register", "registering", "run",
              "check", "wait", "handle", "left", "threw", "exited", "crashed"}
    /\ serverSocket \in Descriptor \union {NoSocket}
    /\ file \in [Descriptor -> Client \union {"free", "server", "file", "socket"}]
    /\ sock.options \subseteq Option /\ sock.port \in Port \union {Unbound}
    /\ channel \in {"none", "open", "closed"}
    /\ phase \in [Client -> {"idle", "queued", "open", "lost"}]
    /\ term \in {"not called", "called", "stopped", "unregistering", "unregistered",
                "channel closed", "returned"}
    /\ \A c \in Client : phase[c] = "open" <=> \E d \in Descriptor : file[d] = c
    /\ ready \subseteq {c \in Client : phase[c] = "open"}
    /\ Queued # {} => IsSocket /\ sock.listening
    /\ registered => Behind(serverSocket) # "free"
    /\ batch # <<>> => pc \in {"handle", "crashed"}

(***************************************************************************)
(* While the loop runs the server listens, on the port and with all the    *)
(* options it was configured with, until Terminate closes its socket.      *)
(* SetSocketOption reports a failure as a success, after it has closed the *)
(* socket, so nothing is said once an option has been refused.             *)
(***************************************************************************)
ListensAsConfigured ==
    pc \in {"check", "wait", "handle"} /\ ~refused /\ ~early /\ term # "returned" =>
        /\ file[serverSocket] = "server"
        /\ sock = [options |-> ToSet(config.options), port |-> config.port, listening |-> TRUE]

(***************************************************************************)
(* The server closes a descriptor of another thread in two cases only: an  *)
(* option was refused, which closes the socket in SetSocketOption and      *)
(* again in Boot or Terminate, or Terminate was called when the loop did   *)
(* not run, as after a Boot that threw.                                    *)
(***************************************************************************)
ClosesOnlyItsOwn == foreign => refused \/ early

(***************************************************************************)
(* A Setup that threw leaves the socket open, and Terminate cannot be      *)
(* called to close it; a Boot that threw has closed it.                    *)
(***************************************************************************)
FailedBootReleases ==
    pc = "threw" /\ channel # "none" => \A d \in Descriptor : file[d] # "server"

(***************************************************************************)
(* Terminate deletes the registration of the server's socket before it     *)
(* closes the channel: a connection whose acceptance would use the freed   *)
(* TLS object was notified before, in the batch that is being handled.     *)
(***************************************************************************)
CollectedWhileOpen ==
    [][batch = <<>> /\ batch' # <<>> /\ "server" \in ToSet(batch') =>
            channel = "open" \/ early]_vars

(***************************************************************************)
(* Terminate stops the loop, whichever thread has called it, if after it   *)
(* has cleared running some connection has something to read.  With every  *)
(* connection silent the loop stays in kevent, from which Terminate has    *)
(* taken the notification of new connections; or, when its own delegate    *)
(* called Terminate, in the kevent that deletes the registration.          *)
(***************************************************************************)
LoopStops ==
    term \notin {"not called", "called"} /\ ~early /\ ready # {}
        ~> pc \in {"left", "crashed"}
===============================================================================
