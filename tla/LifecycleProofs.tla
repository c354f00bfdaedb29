--------------------------- MODULE LifecycleProofs ---------------------------
(***************************************************************************)
(* Proofs about Lifecycle, for every number of clients and descriptors and *)
(* every configuration.                                                    *)
(*                                                                         *)
(* LifecycleInv is inductive.  The properties speak of single states of    *)
(* the two threads; what carries them is that the server's number stays    *)
(* the server's while no option was refused and Terminate has not closed   *)
(* it (KeepsItsSocket), whoever opens and closes descriptors meanwhile,    *)
(* and that Terminate, unless early, finds Boot behind it (InOrder).       *)
(* Attached, inductive beside it, is about connections and waiting         *)
(* clients.                                                                *)
(***************************************************************************)
EXTENDS Lifecycle, SequenceTheorems, TLAPS

Booting == {"options", "bind", "listen", "register", "registering", "run"}

Looping == {"check", "wait", "handle", "left", "crashed"}

DataTypes ==
    /\ config \in [options : Seq(Option), port : Port, ssl : BOOLEAN]
    /\ todo \in Seq(Option)
    /\ serverSocket \in Descriptor \union {NoSocket}
    /\ file \in [Descriptor -> Client \union {"free", "server", "file", "socket"}]
    /\ sock \in [options : SUBSET Option, port : Port \union {Unbound}, listening : BOOLEAN]

ControlTypes ==
    /\ pc \in {"build", "setup", "threw", "exited"} \union Booting \union Looping
    /\ channel \in {"none", "open", "closed"}
    /\ term \in {"not called", "called", "stopped", "unregistering", "unregistered",
                "channel closed", "returned"}
    /\ running \in BOOLEAN /\ refused \in BOOLEAN /\ early \in BOOLEAN /\ foreign \in BOOLEAN

InOrder ==
    /\ pc \in {"build", "setup"} => serverSocket = NoSocket /\ sock = Fresh
    /\ pc \in {"build", "setup", "options", "exited"} => channel = "none"
    /\ channel = "none" => term = "not called"
    /\ early => term \notin {"not called", "called"}
    /\ pc \in Looping => channel # "none"
    /\ running => pc \in Looping
    /\ pc \in Booting \union {"threw"} => term \in {"not called", "called"} \/ early
    /\ pc \in Booting \ {"options"} => channel # "none"
    /\ pc \in {"listen", "register", "registering", "run"} \union Looping => serverSocket # NoSocket

(***************************************************************************)
(* The states in which the server still has the socket that Setup made.    *)
(***************************************************************************)
Undisturbed ==
    /\ ~refused /\ ~early
    /\ pc \in Booting \union Looping
    /\ term # "returned"
    /\ serverSocket # NoSocket

KeepsItsSocket ==
    /\ Undisturbed => file[serverSocket] = "server"
    /\ \A d \in Descriptor : file[d] = "server" => d = serverSocket

ConfiguredSoFar ==
    /\ pc = "options" /\ ~refused =>
          ToSet(config.options) = sock.options \union ToSet(todo)
    /\ pc \notin {"build", "setup", "options"} => todo = <<>>
    /\ Undisturbed /\ pc # "options" => sock.options = ToSet(config.options)
    /\ Undisturbed /\ pc \in {"listen", "register", "registering", "run"} \union Looping =>
          sock.port = config.port
    /\ Undisturbed /\ pc \in {"register", "registering", "run"} \union Looping => sock.listening = TRUE

LifecycleInv ==
    /\ DataTypes
    /\ ControlTypes
    /\ InOrder
    /\ KeepsItsSocket
    /\ ConfiguredSoFar
    /\ ClosesOnlyItsOwn
    /\ FailedBootReleases

-----------------------------------------------------------------------------
LEMMA NoOption == ToSet(<<>>) = {}
BY DEF ToSet

(***************************************************************************)
(* The options to be set are the next one and those that remain.           *)
(***************************************************************************)
LEMMA NextOption ==
    ASSUME NEW S, NEW s \in Seq(S), s # <<>>
    PROVE  /\ Head(s) \in S
           /\ Tail(s) \in Seq(S)
           /\ ToSet(s) = {Head(s)} \union ToSet(Tail(s))
<1>1. /\ Len(s) \in Nat \ {0} /\ Head(s) = s[1] /\ Head(s) \in S
      /\ Tail(s) \in Seq(S) /\ Len(Tail(s)) = Len(s) - 1
      /\ \A i \in 1 .. Len(Tail(s)) : Tail(s)[i] = s[i + 1]
    BY HeadTailProperties, EmptySeq
<1>2. DOMAIN s = 1 .. Len(s) /\ DOMAIN Tail(s) = 1 .. Len(Tail(s))
    BY <1>1
<1>3. ASSUME NEW x \in ToSet(s), x # Head(s) PROVE x \in ToSet(Tail(s))
  <2>1. PICK i \in 1 .. Len(s) : x = s[i]
      BY <1>2 DEF ToSet
  <2>2. i - 1 \in 1 .. Len(Tail(s)) /\ Tail(s)[i - 1] = x
      BY <1>1, <1>3, <2>1
  <2> QED BY <1>2, <2>2 DEF ToSet
<1>4. ASSUME NEW x \in ToSet(Tail(s)) PROVE x \in ToSet(s)
  <2>1. PICK i \in 1 .. Len(Tail(s)) : x = Tail(s)[i]
      BY <1>2, <1>4 DEF ToSet
  <2>2. i + 1 \in 1 .. Len(s) /\ s[i + 1] = x
      BY <1>1, <2>1
  <2> QED BY <1>2, <2>2 DEF ToSet
<1>5. Head(s) \in ToSet(s)
    BY <1>1, <1>2 DEF ToSet
<1> QED BY <1>1, <1>3, <1>4, <1>5

-----------------------------------------------------------------------------
LEMMA InitEstablishes == Init => LifecycleInv
<1> SUFFICES ASSUME Init PROVE LifecycleInv
    OBVIOUS
<1>1. <<>> \in Seq(Option)
    OBVIOUS
<1> QED BY <1>1, LifecycleAssumption
        DEF Init, LifecycleInv, DataTypes, ControlTypes, InOrder, KeepsItsSocket, ConfiguredSoFar,
            ClosesOnlyItsOwn, FailedBootReleases, Booting, Looping, Fresh, Unbound, Undisturbed,
            NoSocket

(***************************************************************************)
(* The builder changes the configuration only.                             *)
(***************************************************************************)
LEMMA BuilderKeeps ==
    ASSUME LifecycleInv, Builder
    PROVE  LifecycleInv'
<1> USE LifecycleAssumption
    DEF LifecycleInv, Booting, Looping, setupVars, socketVars, clientVars, termVars
<1>1. ASSUME NEW c \in [options : Seq(Option), port : Port, ssl : BOOLEAN], Configure(c)
      PROVE  LifecycleInv'
  <2>1. DataTypes'
      BY <1>1 DEF DataTypes, Configure
  <2>2. ControlTypes'
      BY <1>1 DEF ControlTypes, Configure
  <2>3. InOrder'
      BY <1>1 DEF DataTypes, ControlTypes, InOrder, Configure
  <2>4. KeepsItsSocket'
      BY <1>1 DEF InOrder, KeepsItsSocket, Undisturbed, Configure
  <2>5. ConfiguredSoFar'
      BY <1>1 DEF InOrder, ConfiguredSoFar, Undisturbed, Configure
  <2>6. ClosesOnlyItsOwn' /\ FailedBootReleases'
      BY <1>1 DEF InOrder, KeepsItsSocket, ClosesOnlyItsOwn, FailedBootReleases, Configure
  <2> QED BY <2>1, <2>2, <2>3, <2>4, <2>5, <2>6
<1>2. ASSUME NEW o \in Option, WithSocketOptions(o)
      PROVE  LifecycleInv'
  <2>1. Append(config.options, o) \in Seq(Option)
      BY AppendProperties DEF DataTypes, ControlTypes
  <2>2. [config EXCEPT !.options = Append(@, o)]
          \in [options : Seq(Option), port : Port, ssl : BOOLEAN]
      BY <2>1 DEF DataTypes, ControlTypes
  <2> QED BY <1>1, <1>2, <2>2 DEF WithSocketOptions
<1>3. ASSUME NEW p \in Port, WithServerPort(p)
      PROVE  LifecycleInv'
  <2>1. [config EXCEPT !.port = p] \in [options : Seq(Option), port : Port, ssl : BOOLEAN]
      BY DEF DataTypes, ControlTypes
  <2> QED BY <1>1, <1>3, <2>1 DEF WithServerPort
<1>4. ASSUME NEW enabled \in BOOLEAN, WithSSL(enabled)
      PROVE  LifecycleInv'
  <2>1. [config EXCEPT !.ssl = enabled] \in [options : Seq(Option), port : Port, ssl : BOOLEAN]
      BY DEF DataTypes, ControlTypes
  <2> QED BY <1>1, <1>4, <2>1 DEF WithSSL
<1>5. CASE Build
  <2>1. DataTypes'
      BY <1>5 DEF DataTypes, Build
  <2>2. ControlTypes'
      BY <1>5 DEF ControlTypes, Build
  <2>3. InOrder'
      BY <1>5 DEF DataTypes, ControlTypes, InOrder, Build
  <2>4. KeepsItsSocket'
      BY <1>5 DEF InOrder, KeepsItsSocket, Undisturbed, Build
  <2>5. ConfiguredSoFar'
      BY <1>5 DEF InOrder, ConfiguredSoFar, Undisturbed, Build
  <2>6. ClosesOnlyItsOwn' /\ FailedBootReleases'
      BY <1>5 DEF InOrder, KeepsItsSocket, ClosesOnlyItsOwn, FailedBootReleases, Build
  <2> QED BY <2>1, <2>2, <2>3, <2>4, <2>5, <2>6
<1> QED BY <1>2, <1>3, <1>4, <1>5 DEF Builder

(***************************************************************************)
(* Setup.  A failure to set an option closes the server's own socket,      *)
(* unless one was refused before.                                          *)
(***************************************************************************)
LEMMA SetupKeeps ==
    ASSUME LifecycleInv, CreateSocket \/ SetSocketOption \/ CreateChannel
    PROVE  LifecycleInv'
<1> USE LifecycleAssumption
    DEF LifecycleInv, Booting, Looping, setupVars, socketVars, clientVars, termVars
<1>1. CASE CreateSocket
  <2>1. /\ pc = "setup" /\ pc' = "options" /\ todo' = config.options
        /\ UNCHANGED <<config, sock, channel, running, term, early, refused, foreign>>
        /\ sock = Fresh /\ serverSocket = NoSocket /\ channel = "none"
      BY <1>1 DEF CreateSocket, InOrder
  <2>2. \A d \in Descriptor : file[d] # "server"
      BY <2>1 DEF KeepsItsSocket, NoSocket
  <2>3. \/ UNCHANGED <<serverSocket, file>>
        \/ serverSocket' \in Descriptor /\ file' = [file EXCEPT ![serverSocket'] = "server"]
      BY <1>1 DEF CreateSocket
  <2>4. sock.options = {}
      BY <2>1 DEF Fresh
  <2>5. DataTypes'
      BY <2>1, <2>3 DEF DataTypes
  <2>6. ControlTypes'
      BY <2>1, <2>3 DEF ControlTypes
  <2>7. InOrder'
      BY <2>1, <2>3 DEF DataTypes, ControlTypes, InOrder
  <2>8. KeepsItsSocket'
      BY <2>1, <2>3, <2>2 DEF KeepsItsSocket, Undisturbed, DataTypes
  <2>9. ConfiguredSoFar'
      BY <2>1, <2>4 DEF ConfiguredSoFar, Undisturbed
  <2>10. ClosesOnlyItsOwn' /\ FailedBootReleases'
      BY <2>1, <2>3 DEF InOrder, KeepsItsSocket, ClosesOnlyItsOwn, FailedBootReleases
  <2> QED BY <2>5, <2>6, <2>7, <2>8, <2>9, <2>10
<1>2. CASE SetSocketOption
  <2> DEFINE o == Head(todo)
  <2>1. /\ o \in Option /\ todo' = Tail(todo) /\ Tail(todo) \in Seq(Option)
        /\ ToSet(todo) = {o} \union ToSet(todo')
        /\ pc = "options" /\ term = "not called" /\ channel = "none" /\ ~early
        /\ UNCHANGED <<config, pc, serverSocket, channel, running, batch, termVars>>
      BY <1>2, NextOption DEF SetSocketOption, DataTypes, ControlTypes, InOrder
  <2>2. SetSocketOptionDoes(o)
      BY <1>2 DEF SetSocketOption
  <2> HIDE DEF o
  <2>3. CASE sock' = [sock EXCEPT !.options = @ \union {o}]
             /\ UNCHANGED <<file, registered, clientVars, refused, foreign>>
    <3>1. /\ sock' \in [options : SUBSET Option, port : Port \union {Unbound}, listening : BOOLEAN]
          /\ sock'.options = sock.options \union {o}
        BY <2>1, <2>3 DEF DataTypes, ControlTypes
    <3>2. DataTypes'
        BY <2>1, <2>3, <3>1 DEF DataTypes
    <3>3. ControlTypes'
        BY <2>1, <2>3, <3>1 DEF ControlTypes
    <3>4. InOrder'
        BY <2>1, <2>3, <3>1 DEF DataTypes, ControlTypes, InOrder
    <3>5. KeepsItsSocket'
        BY <2>1, <2>3, <3>1 DEF InOrder, KeepsItsSocket, Undisturbed
    <3>6. ConfiguredSoFar'
        BY <2>1, <2>3, <3>1 DEF InOrder, ConfiguredSoFar, Undisturbed
    <3>7. ClosesOnlyItsOwn' /\ FailedBootReleases'
        BY <2>1, <2>3, <3>1 DEF InOrder, KeepsItsSocket, ClosesOnlyItsOwn, FailedBootReleases
    <3> QED BY <3>2, <3>3, <3>4, <3>5, <3>6, <3>7
  <2>4. CASE CloseServerSocket /\ refused' = TRUE /\ UNCHANGED sock
    <3>1. DataTypes'
        BY <2>1, <2>4 DEF DataTypes, CloseServerSocket, Close, Behind
    <3>2. ControlTypes'
        BY <2>1, <2>4 DEF ControlTypes, CloseServerSocket, Close, Behind
    <3>3. InOrder'
        BY <2>1, <2>4 DEF DataTypes, ControlTypes, InOrder, CloseServerSocket, Close, Behind
    <3>4. KeepsItsSocket'
        BY <2>1, <2>4 DEF InOrder, KeepsItsSocket, Undisturbed, CloseServerSocket, Close, Behind
    <3>5. ConfiguredSoFar'
        BY <2>1, <2>4 DEF InOrder, ConfiguredSoFar, Undisturbed, CloseServerSocket, Close, Behind
    <3>6. ClosesOnlyItsOwn' /\ FailedBootReleases'
        BY <2>1, <2>4 DEF InOrder, KeepsItsSocket, ClosesOnlyItsOwn, FailedBootReleases,
               CloseServerSocket, Close, Behind
    <3> QED BY <3>1, <3>2, <3>3, <3>4, <3>5, <3>6
  <2> QED BY <2>2, <2>3, <2>4 DEF SetSocketOptionDoes
<1>3. CASE CreateChannel
  <2>1. DataTypes'
      BY <1>3 DEF DataTypes, CreateChannel
  <2>2. ControlTypes'
      BY <1>3 DEF ControlTypes, CreateChannel
  <2>3. InOrder'
      BY <1>3 DEF DataTypes, ControlTypes, InOrder, CreateChannel
  <2>4. KeepsItsSocket'
      BY <1>3 DEF InOrder, KeepsItsSocket, Undisturbed, CreateChannel
  <2>5. ConfiguredSoFar'
      BY <1>3, NoOption DEF InOrder, ConfiguredSoFar, Undisturbed, CreateChannel
  <2>6. ClosesOnlyItsOwn' /\ FailedBootReleases'
      BY <1>3 DEF InOrder, KeepsItsSocket, ClosesOnlyItsOwn, FailedBootReleases, CreateChannel
  <2> QED BY <2>1, <2>2, <2>3, <2>4, <2>5, <2>6
<1> QED BY <1>1, <1>2, <1>3

-----------------------------------------------------------------------------
(***************************************************************************)
(* Boot, up to the loop: while Terminate has not stopped the server, which *)
(* would be early, a failure closes the server's own socket.               *)
(***************************************************************************)
LEMMA BootKeeps ==
    ASSUME LifecycleInv, Bind \/ Listen \/ Register \/ RegisterReturns \/ Run
    PROVE  LifecycleInv'
<1> USE LifecycleAssumption
    DEF LifecycleInv, Booting, Looping, setupVars, socketVars, clientVars, termVars
<1>1. ASSUME Throw, pc \in {"bind", "listen"},
             UNCHANGED <<setupVars, serverSocket, sock, channel, running, batch, termVars, refused>>
      PROVE  LifecycleInv'
  <2>1. serverSocket = NoSocket \/ file[serverSocket] = "server" \/ refused \/ early
      BY <1>1 DEF InOrder, KeepsItsSocket, Undisturbed
  <2>2. file' = [e \in Descriptor |-> IF e = serverSocket THEN "free" ELSE file[e]]
        /\ foreign' \in BOOLEAN /\ pc' = "threw"
      BY <1>1 DEF Throw, CloseServerSocket, Close, DataTypes, ControlTypes
  <2>3. DataTypes'
      BY <1>1, <2>2 DEF DataTypes
  <2>4. ControlTypes'
      BY <1>1, <2>2 DEF ControlTypes
  <2>5. InOrder'
      BY <1>1, <2>2 DEF DataTypes, ControlTypes, InOrder
  <2>6. KeepsItsSocket'
      BY <1>1, <2>2 DEF InOrder, KeepsItsSocket, Undisturbed
  <2>7. ConfiguredSoFar'
      BY <1>1, <2>2 DEF InOrder, ConfiguredSoFar, Undisturbed
  <2>8. ClosesOnlyItsOwn'
      BY <1>1, <2>1 DEF ClosesOnlyItsOwn, Throw, CloseServerSocket, Behind
  <2>9. FailedBootReleases'
      BY <1>1, <2>2 DEF InOrder, FailedBootReleases, KeepsItsSocket
  <2> QED BY <2>3, <2>4, <2>5, <2>6, <2>7, <2>8, <2>9
<1>2. CASE Bind
  <2>1. CASE /\ IsSocket
             /\ sock' = [sock EXCEPT !.port = config.port]
             /\ pc = "bind" /\ pc' = "listen"
             /\ UNCHANGED <<setupVars, serverSocket, file, foreign, channel, running, termVars, refused>>
    <3>1. DataTypes'
        BY <2>1 DEF DataTypes
    <3>2. ControlTypes'
        BY <2>1 DEF ControlTypes
    <3>3. InOrder'
        BY <2>1 DEF DataTypes, ControlTypes, InOrder, IsSocket, Behind
    <3>4. KeepsItsSocket'
        BY <2>1 DEF InOrder, KeepsItsSocket, Undisturbed
    <3>5. ConfiguredSoFar'
        BY <2>1 DEF DataTypes, ControlTypes, InOrder, ConfiguredSoFar, Undisturbed
    <3>6. ClosesOnlyItsOwn' /\ FailedBootReleases'
        BY <2>1 DEF InOrder, KeepsItsSocket, ClosesOnlyItsOwn, FailedBootReleases
    <3> QED BY <3>1, <3>2, <3>3, <3>4, <3>5, <3>6
  <2> QED BY <1>1, <1>2, <2>1 DEF Bind
<1>3. CASE Listen
  <2>1. CASE /\ IsSocket
             /\ sock' = [sock EXCEPT !.listening = TRUE]
             /\ pc = "listen" /\ pc' = "register"
             /\ UNCHANGED <<setupVars, serverSocket, file, foreign, channel, running, termVars, refused>>
    <3>1. DataTypes'
        BY <2>1 DEF DataTypes
    <3>2. ControlTypes'
        BY <2>1 DEF ControlTypes
    <3>3. InOrder'
        BY <2>1 DEF DataTypes, ControlTypes, InOrder, IsSocket, Behind
    <3>4. KeepsItsSocket'
        BY <2>1 DEF InOrder, KeepsItsSocket, Undisturbed
    <3>5. ConfiguredSoFar'
        BY <2>1 DEF DataTypes, ControlTypes, InOrder, ConfiguredSoFar, Undisturbed
    <3>6. ClosesOnlyItsOwn' /\ FailedBootReleases'
        BY <2>1 DEF InOrder, KeepsItsSocket, ClosesOnlyItsOwn, FailedBootReleases
    <3> QED BY <3>1, <3>2, <3>3, <3>4, <3>5, <3>6
  <2> QED BY <1>1, <1>3, <2>1 DEF Listen
<1>4. CASE Register
  <2>1. DataTypes'
      BY <1>4 DEF DataTypes, Register
  <2>2. ControlTypes'
      BY <1>4 DEF ControlTypes, Register
  <2>3. InOrder'
      BY <1>4 DEF DataTypes, ControlTypes, InOrder, Register
  <2>4. KeepsItsSocket'
      BY <1>4 DEF InOrder, KeepsItsSocket, Undisturbed, Register
  <2>5. ConfiguredSoFar'
      BY <1>4 DEF InOrder, ConfiguredSoFar, Undisturbed, Register
  <2>6. ClosesOnlyItsOwn' /\ FailedBootReleases'
      BY <1>4 DEF InOrder, KeepsItsSocket, ClosesOnlyItsOwn, FailedBootReleases, Register
  <2> QED BY <2>1, <2>2, <2>3, <2>4, <2>5, <2>6
<1>5. CASE Run
  <2>1. DataTypes'
      BY <1>5 DEF DataTypes, Run
  <2>2. ControlTypes'
      BY <1>5 DEF ControlTypes, Run
  <2>3. InOrder'
      BY <1>5 DEF DataTypes, ControlTypes, InOrder, Run
  <2>4. KeepsItsSocket'
      BY <1>5 DEF InOrder, KeepsItsSocket, Undisturbed, Run
  <2>5. ConfiguredSoFar'
      BY <1>5 DEF InOrder, ConfiguredSoFar, Undisturbed, Run
  <2>6. ClosesOnlyItsOwn' /\ FailedBootReleases'
      BY <1>5 DEF InOrder, KeepsItsSocket, ClosesOnlyItsOwn, FailedBootReleases, Run
  <2> QED BY <2>1, <2>2, <2>3, <2>4, <2>5, <2>6
<1>6. CASE RegisterReturns
  <2>1. DataTypes'
      BY <1>6 DEF DataTypes, RegisterReturns
  <2>2. ControlTypes'
      BY <1>6 DEF ControlTypes, RegisterReturns
  <2>3. InOrder'
      BY <1>6 DEF DataTypes, ControlTypes, InOrder, RegisterReturns
  <2>4. KeepsItsSocket'
      BY <1>6 DEF InOrder, KeepsItsSocket, Undisturbed, RegisterReturns
  <2>5. ConfiguredSoFar'
      BY <1>6 DEF InOrder, ConfiguredSoFar, Undisturbed, RegisterReturns
  <2>6. ClosesOnlyItsOwn' /\ FailedBootReleases'
      BY <1>6 DEF InOrder, KeepsItsSocket, ClosesOnlyItsOwn, FailedBootReleases, RegisterReturns
  <2> QED BY <2>1, <2>2, <2>3, <2>4, <2>5, <2>6
<1> QED BY <1>2, <1>3, <1>4, <1>5, <1>6

(***************************************************************************)
(* The loop.                                                               *)
(***************************************************************************)
LEMMA LoopKeeps ==
    ASSUME LifecycleInv,
           CheckRunning \/ GetFiredNotifications \/ BatchDone \/ HandleNewConnection \/ HandleMessage
    PROVE  LifecycleInv'
<1> USE LifecycleAssumption
    DEF LifecycleInv, Booting, Looping, setupVars, socketVars, clientVars, termVars
<1>1. CASE CheckRunning
  <2>1. DataTypes'
      BY <1>1 DEF DataTypes, CheckRunning
  <2>2. ControlTypes'
      BY <1>1 DEF ControlTypes, CheckRunning
  <2>3. InOrder'
      BY <1>1 DEF DataTypes, ControlTypes, InOrder, CheckRunning
  <2>4. KeepsItsSocket'
      BY <1>1 DEF InOrder, KeepsItsSocket, Undisturbed, CheckRunning
  <2>5. ConfiguredSoFar'
      BY <1>1 DEF InOrder, ConfiguredSoFar, Undisturbed, CheckRunning
  <2>6. ClosesOnlyItsOwn' /\ FailedBootReleases'
      BY <1>1 DEF InOrder, KeepsItsSocket, ClosesOnlyItsOwn, FailedBootReleases, CheckRunning
  <2> QED BY <2>1, <2>2, <2>3, <2>4, <2>5, <2>6
<1>2. CASE GetFiredNotifications
  <2>1. DataTypes'
      BY <1>2 DEF DataTypes, GetFiredNotifications
  <2>2. ControlTypes'
      BY <1>2 DEF ControlTypes, GetFiredNotifications
  <2>3. InOrder'
      BY <1>2 DEF DataTypes, ControlTypes, InOrder, GetFiredNotifications
  <2>4. KeepsItsSocket'
      BY <1>2 DEF InOrder, KeepsItsSocket, Undisturbed, GetFiredNotifications
  <2>5. ConfiguredSoFar'
      BY <1>2 DEF InOrder, ConfiguredSoFar, Undisturbed, GetFiredNotifications
  <2>6. ClosesOnlyItsOwn' /\ FailedBootReleases'
      BY <1>2 DEF InOrder, KeepsItsSocket, ClosesOnlyItsOwn, FailedBootReleases, GetFiredNotifications
  <2> QED BY <2>1, <2>2, <2>3, <2>4, <2>5, <2>6
<1>3. CASE BatchDone
  <2>1. DataTypes'
      BY <1>3 DEF DataTypes, BatchDone
  <2>2. ControlTypes'
      BY <1>3 DEF ControlTypes, BatchDone
  <2>3. InOrder'
      BY <1>3 DEF DataTypes, ControlTypes, InOrder, BatchDone
  <2>4. KeepsItsSocket'
      BY <1>3 DEF InOrder, KeepsItsSocket, Undisturbed, BatchDone
  <2>5. ConfiguredSoFar'
      BY <1>3 DEF InOrder, ConfiguredSoFar, Undisturbed, BatchDone
  <2>6. ClosesOnlyItsOwn' /\ FailedBootReleases'
      BY <1>3 DEF InOrder, KeepsItsSocket, ClosesOnlyItsOwn, FailedBootReleases, BatchDone
  <2> QED BY <2>1, <2>2, <2>3, <2>4, <2>5, <2>6
<1>4. CASE HandleNewConnection
  <2>1. /\ UNCHANGED <<setupVars, serverSocket, sock, channel, running, termVars, refused, foreign>>
        /\ pc' \in {"handle", "crashed"} /\ pc = "handle"
      BY <1>4 DEF HandleNewConnection
  <2>2. \/ file' = file
        \/ \E c \in Client, d \in Descriptor : file[d] = "free" /\ file' = [file EXCEPT ![d] = c]
      BY <1>4 DEF HandleNewConnection, Queued, Lowest
  <2>3. \A d \in Descriptor : file'[d] = "server" <=> file[d] = "server"
      BY <2>2 DEF DataTypes
  <2>4. DataTypes'
      BY <2>1, <2>2 DEF DataTypes
  <2>5. ControlTypes'
      BY <2>1, <2>2 DEF ControlTypes
  <2>6. InOrder'
      BY <2>1, <2>2 DEF DataTypes, ControlTypes, InOrder
  <2>7. KeepsItsSocket'
      BY <2>1, <2>3 DEF KeepsItsSocket, Undisturbed, DataTypes
  <2>8. ConfiguredSoFar'
      BY <2>1, <2>2 DEF InOrder, ConfiguredSoFar, Undisturbed
  <2>9. ClosesOnlyItsOwn' /\ FailedBootReleases'
      BY <2>1, <2>2 DEF InOrder, KeepsItsSocket, ClosesOnlyItsOwn, FailedBootReleases
  <2> QED BY <2>4, <2>5, <2>6, <2>7, <2>8, <2>9
<1>5. CASE HandleMessage
  <2>1. DataTypes'
      BY <1>5 DEF DataTypes, HandleMessage
  <2>2. ControlTypes'
      BY <1>5 DEF ControlTypes, HandleMessage
  <2>3. InOrder'
      BY <1>5 DEF DataTypes, ControlTypes, InOrder, HandleMessage
  <2>4. KeepsItsSocket'
      BY <1>5 DEF InOrder, KeepsItsSocket, Undisturbed, HandleMessage
  <2>5. ConfiguredSoFar'
      BY <1>5 DEF InOrder, ConfiguredSoFar, Undisturbed, HandleMessage
  <2>6. ClosesOnlyItsOwn' /\ FailedBootReleases'
      BY <1>5 DEF InOrder, KeepsItsSocket, ClosesOnlyItsOwn, FailedBootReleases, HandleMessage
  <2> QED BY <2>1, <2>2, <2>3, <2>4, <2>5, <2>6
<1> QED BY <1>1, <1>2, <1>3, <1>4, <1>5

(***************************************************************************)
(* Terminate.  Only CloseSocket closes, and if it is not early it finds    *)
(* the loop running, or left, and the socket still the server's.           *)
(***************************************************************************)
LEMMA TerminateKeeps ==
    ASSUME LifecycleInv, CallTerminate \/ Terminate
    PROVE  LifecycleInv'
<1> USE LifecycleAssumption
    DEF LifecycleInv, Booting, Looping, setupVars, socketVars, clientVars, termVars
<1>1. CASE CallTerminate
  <2>1. DataTypes'
      BY <1>1 DEF DataTypes, CallTerminate
  <2>2. ControlTypes'
      BY <1>1 DEF ControlTypes, CallTerminate
  <2>3. InOrder'
      BY <1>1 DEF DataTypes, ControlTypes, InOrder, CallTerminate
  <2>4. KeepsItsSocket'
      BY <1>1 DEF InOrder, KeepsItsSocket, Undisturbed, CallTerminate
  <2>5. ConfiguredSoFar'
      BY <1>1 DEF InOrder, ConfiguredSoFar, Undisturbed, CallTerminate
  <2>6. ClosesOnlyItsOwn'
      BY <1>1 DEF InOrder, ClosesOnlyItsOwn, CallTerminate
  <2>7. FailedBootReleases'
      BY <1>1 DEF InOrder, FailedBootReleases, KeepsItsSocket, CallTerminate
  <2> QED BY <2>1, <2>2, <2>3, <2>4, <2>5, <2>6, <2>7
<1>2. CASE StopLoop
  <2>1. DataTypes'
      BY <1>2 DEF DataTypes, StopLoop
  <2>2. ControlTypes'
      BY <1>2 DEF ControlTypes, StopLoop
  <2>3. InOrder'
      BY <1>2 DEF DataTypes, ControlTypes, InOrder, StopLoop
  <2>4. KeepsItsSocket'
      BY <1>2 DEF InOrder, KeepsItsSocket, Undisturbed, StopLoop
  <2>5. ConfiguredSoFar'
      BY <1>2 DEF InOrder, ConfiguredSoFar, Undisturbed, StopLoop
  <2>6. ClosesOnlyItsOwn'
      BY <1>2 DEF InOrder, ClosesOnlyItsOwn, StopLoop
  <2>7. FailedBootReleases'
      BY <1>2 DEF InOrder, FailedBootReleases, KeepsItsSocket, StopLoop
  <2> QED BY <2>1, <2>2, <2>3, <2>4, <2>5, <2>6, <2>7
<1>3. CASE Unregister
  <2>1. DataTypes'
      BY <1>3 DEF DataTypes, Unregister
  <2>2. ControlTypes'
      BY <1>3 DEF ControlTypes, Unregister
  <2>3. InOrder'
      BY <1>3 DEF DataTypes, ControlTypes, InOrder, Unregister
  <2>4. KeepsItsSocket'
      BY <1>3 DEF InOrder, KeepsItsSocket, Undisturbed, Unregister
  <2>5. ConfiguredSoFar'
      BY <1>3 DEF InOrder, ConfiguredSoFar, Undisturbed, Unregister
  <2>6. ClosesOnlyItsOwn'
      BY <1>3 DEF InOrder, ClosesOnlyItsOwn, Unregister
  <2>7. FailedBootReleases'
      BY <1>3 DEF InOrder, FailedBootReleases, KeepsItsSocket, Unregister
  <2> QED BY <2>1, <2>2, <2>3, <2>4, <2>5, <2>6, <2>7
<1>4. CASE CloseChannel
  <2>1. DataTypes'
      BY <1>4 DEF DataTypes, CloseChannel
  <2>2. ControlTypes'
      BY <1>4 DEF ControlTypes, CloseChannel
  <2>3. InOrder'
      BY <1>4 DEF DataTypes, ControlTypes, InOrder, CloseChannel
  <2>4. KeepsItsSocket'
      BY <1>4 DEF InOrder, KeepsItsSocket, Undisturbed, CloseChannel
  <2>5. ConfiguredSoFar'
      BY <1>4 DEF InOrder, ConfiguredSoFar, Undisturbed, CloseChannel
  <2>6. ClosesOnlyItsOwn'
      BY <1>4 DEF InOrder, ClosesOnlyItsOwn, CloseChannel
  <2>7. FailedBootReleases'
      BY <1>4 DEF InOrder, FailedBootReleases, KeepsItsSocket, CloseChannel
  <2> QED BY <2>1, <2>2, <2>3, <2>4, <2>5, <2>6, <2>7
<1>5. CASE CloseSocket
  <2>1. serverSocket = NoSocket \/ file[serverSocket] = "server" \/ refused \/ early
      BY <1>5 DEF CloseSocket, DataTypes, ControlTypes, InOrder, KeepsItsSocket, Undisturbed
  <2>2. /\ file' = [e \in Descriptor |-> IF e = serverSocket THEN "free" ELSE file[e]]
        /\ foreign' \in BOOLEAN /\ term' = "returned" /\ term = "channel closed"
        /\ UNCHANGED <<setupVars, pc, serverSocket, sock, channel, running, early, refused>>
      BY <1>5 DEF CloseSocket, CloseServerSocket, Close, DataTypes, ControlTypes
  <2>3. DataTypes'
      BY <2>2 DEF DataTypes
  <2>4. ControlTypes'
      BY <2>2 DEF ControlTypes
  <2>5. InOrder'
      BY <2>2 DEF DataTypes, ControlTypes, InOrder
  <2>6. KeepsItsSocket'
      BY <2>2 DEF InOrder, KeepsItsSocket, Undisturbed
  <2>7. ConfiguredSoFar'
      BY <2>2 DEF InOrder, ConfiguredSoFar, Undisturbed
  <2>8. ClosesOnlyItsOwn'
      BY <1>5, <2>1 DEF ClosesOnlyItsOwn, CloseSocket, CloseServerSocket, Behind
  <2>9. FailedBootReleases'
      BY <2>2 DEF InOrder, FailedBootReleases, KeepsItsSocket
  <2> QED BY <2>3, <2>4, <2>5, <2>6, <2>7, <2>8, <2>9
<1>6. CASE UnregisterReturns
  <2>1. DataTypes'
      BY <1>6 DEF DataTypes, UnregisterReturns
  <2>2. ControlTypes'
      BY <1>6 DEF ControlTypes, UnregisterReturns
  <2>3. InOrder'
      BY <1>6 DEF DataTypes, ControlTypes, InOrder, UnregisterReturns
  <2>4. KeepsItsSocket'
      BY <1>6 DEF InOrder, KeepsItsSocket, Undisturbed, UnregisterReturns
  <2>5. ConfiguredSoFar'
      BY <1>6 DEF InOrder, ConfiguredSoFar, Undisturbed, UnregisterReturns
  <2>6. ClosesOnlyItsOwn'
      BY <1>6 DEF InOrder, ClosesOnlyItsOwn, UnregisterReturns
  <2>7. FailedBootReleases'
      BY <1>6 DEF InOrder, FailedBootReleases, KeepsItsSocket, UnregisterReturns
  <2> QED BY <2>1, <2>2, <2>3, <2>4, <2>5, <2>6, <2>7
<1> QED BY <1>1, <1>2, <1>3, <1>4, <1>5, <1>6 DEF Terminate

(***************************************************************************)
(* The other threads take free numbers only and close their own, and       *)
(* clients change no descriptor.                                           *)
(***************************************************************************)
LEMMA EnvironmentKeeps ==
    ASSUME LifecycleInv, Environment
    PROVE  LifecycleInv'
<1> USE LifecycleAssumption
    DEF LifecycleInv, Booting, Looping, setupVars, socketVars, clientVars, termVars
<1>1. ASSUME NEW kind \in {"file", "socket"}, OthersOpen(kind)
      PROVE  LifecycleInv'
  <2> PICK d \in Descriptor : /\ file[d] = "free"
                              /\ file' = [file EXCEPT ![d] = kind]
                              /\ sock' = IF d = serverSocket THEN Fresh ELSE sock
      BY <1>1 DEF OthersOpen, Lowest
  <2>1. /\ UNCHANGED <<config, todo, pc, serverSocket, channel, running, term, early, refused, foreign>>
        /\ d # NoSocket
      BY <1>1 DEF OthersOpen, NoSocket
  <2>2. /\ Fresh \in [options : SUBSET Option, port : Port \union {Unbound}, listening : BOOLEAN]
        /\ pc \in {"build", "setup"} => sock' = Fresh
      BY DEF Fresh, InOrder
  <2>3. (pc = "options" /\ ~refused) \/ Undisturbed => sock' = sock
      BY <2>1 DEF DataTypes, ControlTypes, InOrder, KeepsItsSocket, Undisturbed
  <2>4. \A e \in Descriptor : file'[e] = "server" <=> file[e] = "server"
      BY DEF DataTypes
  <2>5. DataTypes'
      BY <2>1, <2>2, <2>3 DEF DataTypes
  <2>6. ControlTypes'
      BY <2>1, <2>2, <2>3 DEF ControlTypes
  <2>7. InOrder'
      BY <2>1, <2>2, <2>3 DEF DataTypes, ControlTypes, InOrder
  <2>8. KeepsItsSocket'
      BY <2>1, <2>4 DEF KeepsItsSocket, DataTypes, Undisturbed
  <2>9. ConfiguredSoFar'
      BY <2>1, <2>2, <2>3 DEF InOrder, ConfiguredSoFar, Undisturbed
  <2>10. ClosesOnlyItsOwn'
      BY <2>1, <2>2, <2>3 DEF ClosesOnlyItsOwn
  <2>11. FailedBootReleases'
      BY <2>1, <2>4 DEF FailedBootReleases
  <2> QED BY <2>5, <2>6, <2>7, <2>8, <2>9, <2>10, <2>11
<1>2. ASSUME NEW d \in Descriptor, OthersClose(d)
      PROVE  LifecycleInv'
  <2>1. /\ UNCHANGED <<config, todo, pc, serverSocket, sock, channel, running, term, early, refused, foreign>>
        /\ file[d] \in {"file", "socket"}
        /\ file' = [e \in Descriptor |-> IF e = d THEN "free" ELSE file[e]]
      BY <1>2 DEF OthersClose, Close
  <2>2. DataTypes'
      BY <2>1 DEF DataTypes
  <2>3. ControlTypes'
      BY <2>1 DEF ControlTypes
  <2>4. InOrder'
      BY <2>1 DEF DataTypes, ControlTypes, InOrder
  <2>5. KeepsItsSocket'
      BY <2>1 DEF InOrder, KeepsItsSocket, DataTypes, ControlTypes, Undisturbed
  <2>6. ConfiguredSoFar'
      BY <2>1 DEF InOrder, ConfiguredSoFar, Undisturbed
  <2>7. ClosesOnlyItsOwn' /\ FailedBootReleases'
      BY <2>1 DEF InOrder, KeepsItsSocket, ClosesOnlyItsOwn, FailedBootReleases
  <2> QED BY <2>2, <2>3, <2>4, <2>5, <2>6, <2>7
<1>3. ASSUME NEW c \in Client, Connect(c) \/ Send(c)
      PROVE  LifecycleInv'
  <2>1. UNCHANGED <<config, todo, pc, serverSocket, file, sock, channel, running, term, early, refused,
                   foreign>>
      BY <1>3 DEF Connect, Send
  <2>2. DataTypes'
      BY <2>1 DEF DataTypes
  <2>3. ControlTypes'
      BY <2>1 DEF ControlTypes
  <2>4. InOrder'
      BY <2>1 DEF DataTypes, ControlTypes, InOrder
  <2>5. KeepsItsSocket'
      BY <2>1 DEF InOrder, KeepsItsSocket, Undisturbed
  <2>6. ConfiguredSoFar'
      BY <2>1 DEF InOrder, ConfiguredSoFar, Undisturbed
  <2>7. ClosesOnlyItsOwn' /\ FailedBootReleases'
      BY <2>1 DEF InOrder, KeepsItsSocket, ClosesOnlyItsOwn, FailedBootReleases
  <2> QED BY <2>2, <2>3, <2>4, <2>5, <2>6, <2>7
<1> QED BY <1>1, <1>2, <1>3 DEF Environment

LEMMA StutterKeeps ==
    ASSUME LifecycleInv, UNCHANGED vars
    PROVE  LifecycleInv'
<1> USE LifecycleAssumption
    DEF LifecycleInv, Booting, Looping, setupVars, socketVars, clientVars, termVars
<1>1. DataTypes'
    BY DEF DataTypes, vars
<1>2. ControlTypes'
    BY DEF ControlTypes, vars
<1>3. InOrder'
    BY DEF DataTypes, ControlTypes, InOrder, vars
<1>4. KeepsItsSocket'
    BY DEF InOrder, KeepsItsSocket, Undisturbed, vars
<1>5. ConfiguredSoFar'
    BY DEF InOrder, ConfiguredSoFar, Undisturbed, vars
<1>6. ClosesOnlyItsOwn' /\ FailedBootReleases'
    BY DEF InOrder, KeepsItsSocket, ClosesOnlyItsOwn, FailedBootReleases, vars
<1> QED BY <1>1, <1>2, <1>3, <1>4, <1>5, <1>6

-----------------------------------------------------------------------------
(***************************************************************************)
(* What depends on a descriptor goes with it.  A connection has one only,  *)
(* so that closing it leaves the client none.                              *)
(***************************************************************************)
OpenIffDescriptor ==
    /\ phase \in [Client -> {"idle", "queued", "open", "lost"}]
    /\ \A c \in Client : phase[c] = "open" <=> \E d \in Descriptor : file[d] = c
    /\ \A d, e \in Descriptor : file[d] \in Client /\ file[d] = file[e] => d = e
    /\ ready \subseteq {c \in Client : phase[c] = "open"}

WaitsOnSocket ==
    /\ (\E c \in Client : phase[c] = "queued") => IsSocket /\ sock.listening
    /\ registered => Behind(serverSocket) # "free"

Batched == batch # <<>> => pc \in {"handle", "crashed"}

Attached == OpenIffDescriptor /\ WaitsOnSocket /\ Batched

(***************************************************************************)
(* close(), whoever calls it, takes all of that away with the number.      *)
(***************************************************************************)
LEMMA CloseDetaches ==
    ASSUME DataTypes, OpenIffDescriptor, WaitsOnSocket,
           NEW d \in Descriptor \union {NoSocket}, Close(d),
           UNCHANGED <<serverSocket, sock>>
    PROVE  OpenIffDescriptor' /\ WaitsOnSocket'
<1> USE LifecycleAssumption
<1>1. /\ file' = [e \in Descriptor |-> IF e = d THEN "free" ELSE file[e]]
      /\ registered' = (registered /\ d # serverSocket)
      /\ phase' = [c \in Client |->
                      IF Behind(d) = c \/ (phase[c] = "queued" /\ d = serverSocket)
                      THEN "lost" ELSE phase[c]]
      /\ ready' = {c \in ready : phase'[c] = "open"}
    BY DEF Close
<1>2. /\ "free" \notin Client /\ NoSocket \notin Descriptor
      /\ file \in [Descriptor -> Client \union {"free", "server", "file", "socket"}]
      /\ serverSocket \in Descriptor \union {NoSocket}
    BY DEF DataTypes, NoSocket
<1>3. \A c \in Client : Behind(d) = c <=> d \in Descriptor /\ file[d] = c
    BY <1>2 DEF Behind
<1>4. ASSUME NEW c \in Client
      PROVE  phase'[c] = "open" <=> \E e \in Descriptor : file'[e] = c
  <2>1. CASE d \in Descriptor /\ file[d] = c
    <3>1. phase'[c] = "lost"
        BY <1>1, <1>3, <2>1
    <3>2. \A e \in Descriptor : file'[e] # c
        BY <1>1, <1>2, <2>1 DEF OpenIffDescriptor
    <3> QED BY <3>1, <3>2
  <2>2. CASE ~(d \in Descriptor /\ file[d] = c)
    <3>1. phase'[c] = "open" <=> phase[c] = "open"
        BY <1>1, <1>3, <2>2
    <3>2. (\E e \in Descriptor : file'[e] = c) <=> \E e \in Descriptor : file[e] = c
        BY <1>1, <1>2, <2>2
    <3> QED BY <3>1, <3>2 DEF OpenIffDescriptor
  <2> QED BY <2>1, <2>2
<1>5. OpenIffDescriptor'
  <2>1. phase' \in [Client -> {"idle", "queued", "open", "lost"}]
      BY <1>1 DEF OpenIffDescriptor
  <2>2. \A e, f \in Descriptor : file'[e] \in Client /\ file'[e] = file'[f] => e = f
      BY <1>1, <1>2 DEF OpenIffDescriptor
  <2>3. ready' \subseteq {c \in Client : phase'[c] = "open"}
      BY <1>1 DEF OpenIffDescriptor
  <2> QED BY <1>4, <2>1, <2>2, <2>3 DEF OpenIffDescriptor
<1>6. WaitsOnSocket'
  <2>1. CASE d = serverSocket
    <3>1. ~registered' /\ \A c \in Client : phase'[c] # "queued"
        BY <1>1, <2>1 DEF OpenIffDescriptor
    <3> QED BY <3>1 DEF WaitsOnSocket
  <2>2. CASE d # serverSocket
    <3>1. Behind(serverSocket)' = Behind(serverSocket)
        BY <1>1, <1>2, <2>2 DEF Behind
    <3>2. \A c \in Client : phase'[c] = "queued" => phase[c] = "queued"
        BY <1>1
    <3> QED BY <1>1, <3>1, <3>2 DEF WaitsOnSocket, IsSocket
  <2> QED BY <2>1, <2>2
<1> QED BY <1>5, <1>6

(***************************************************************************)
(* A free number is given to something that is not a client, or to a       *)
(* client that had none.                                                   *)
(***************************************************************************)
LEMMA NumberGiven ==
    ASSUME DataTypes, OpenIffDescriptor, WaitsOnSocket,
           NEW d \in Descriptor, file[d] = "free",
           NEW k \in {"server", "file", "socket"}, file' = [file EXCEPT ![d] = k],
           UNCHANGED <<phase, ready>>
    PROVE  OpenIffDescriptor'
<1>1. k \notin Client /\ "free" \notin Client
    BY LifecycleAssumption
<1>2. \A e \in Descriptor : e # d => file'[e] = file[e]
    BY DEF DataTypes
<1>3. file'[d] = k
    BY DEF DataTypes
<1>4. \A c \in Client : (\E e \in Descriptor : file'[e] = c) <=> \E e \in Descriptor : file[e] = c
    BY <1>1, <1>2, <1>3
<1> QED BY <1>1, <1>2, <1>3, <1>4 DEF OpenIffDescriptor

LEMMA AttachedKept ==
    ASSUME LifecycleInv, Attached, [Next]_vars
    PROVE  Attached'
<1> USE LifecycleAssumption DEF Attached, setupVars, socketVars, clientVars, termVars
<1>1. DataTypes /\ NoSocket \notin Descriptor
    BY DEF LifecycleInv, NoSocket
<1>2. ASSUME UNCHANGED <<serverSocket, file, sock, registered, phase, ready>>
      PROVE  OpenIffDescriptor' /\ WaitsOnSocket'
    BY <1>2 DEF OpenIffDescriptor, WaitsOnSocket, IsSocket, Behind
<1>3. ASSUME CloseServerSocket, UNCHANGED <<serverSocket, sock>>
      PROVE  OpenIffDescriptor' /\ WaitsOnSocket'
    BY <1>1, <1>3, CloseDetaches DEF CloseServerSocket, DataTypes
<1>4. CASE Builder
  <2>1. UNCHANGED <<socketVars, clientVars, batch>> /\ (pc = "build")
      BY <1>4 DEF Builder, WithSocketOptions, WithServerPort, WithSSL, Configure, Build
  <2> QED BY <1>2, <2>1 DEF Batched
<1>5. CASE CreateSocket
  <2>1. /\ pc = "setup" /\ UNCHANGED <<sock, registered, phase, ready, batch>>
        /\ \/ UNCHANGED <<serverSocket, file>>
           \/ \E d \in Descriptor : /\ file[d] = "free"
                                    /\ serverSocket' = d
                                    /\ file' = [file EXCEPT ![d] = "server"]
      BY <1>5 DEF CreateSocket, Lowest
  <2>2. OpenIffDescriptor'
      BY <1>1, <2>1, NumberGiven DEF OpenIffDescriptor
  <2>3. ~registered /\ \A c \in Client : phase[c] # "queued"
      BY <2>1 DEF LifecycleInv, InOrder, WaitsOnSocket, IsSocket, Behind
  <2> QED BY <2>1, <2>2, <2>3 DEF WaitsOnSocket, Batched
<1>6. CASE SetSocketOption
  <2>1. SetSocketOptionDoes(Head(todo)) /\ UNCHANGED <<pc, serverSocket, batch>>
      BY <1>6 DEF SetSocketOption
  <2>2. CASE CloseServerSocket /\ UNCHANGED sock
      BY <1>3, <2>1, <2>2 DEF Batched
  <2>3. CASE /\ sock' = [sock EXCEPT !.options = @ \union {Head(todo)}]
             /\ UNCHANGED <<file, registered, phase, ready>>
    <3>1. sock'.listening = sock.listening
        BY <1>1, <2>3 DEF DataTypes
    <3> QED BY <2>1, <2>3, <3>1 DEF OpenIffDescriptor, WaitsOnSocket, IsSocket, Behind, Batched
  <2> QED BY <2>1, <2>2, <2>3 DEF SetSocketOptionDoes
<1>7. CASE CreateChannel
    BY <1>2, <1>7 DEF CreateChannel, Batched
<1>8. CASE Bind \/ Listen
  <2>1. UNCHANGED <<serverSocket, batch>> /\ pc \in {"bind", "listen"}
      BY <1>8 DEF Bind, Listen
  <2>2. CASE Throw /\ UNCHANGED sock
      BY <1>3, <2>1, <2>2 DEF Throw, Batched
  <2>3. CASE /\ sock' \in {[sock EXCEPT !.port = config.port], [sock EXCEPT !.listening = TRUE]}
             /\ UNCHANGED <<file, registered, phase, ready>>
    <3>1. sock.listening => sock'.listening
        BY <1>1, <2>3 DEF DataTypes
    <3> QED BY <2>1, <2>3, <3>1 DEF OpenIffDescriptor, WaitsOnSocket, IsSocket, Behind, Batched
  <2> QED BY <1>8, <2>2, <2>3 DEF Bind, Listen
<1>9. CASE Register
    BY <1>9 DEF Register, OpenIffDescriptor, WaitsOnSocket, IsSocket, Behind, Batched
<1>10. CASE RegisterReturns \/ Run \/ CheckRunning \/ GetFiredNotifications \/ BatchDone
    BY <1>2, <1>10 DEF RegisterReturns, Run, CheckRunning, GetFiredNotifications, BatchDone, Batched
<1>11. CASE HandleNewConnection
  <2>1. UNCHANGED <<serverSocket, sock, registered, ready>> /\ pc = "handle" /\ pc' \in {"handle", "crashed"}
      BY <1>11 DEF HandleNewConnection
  <2>2. CASE UNCHANGED <<file, phase>>
      BY <1>2, <2>1, <2>2 DEF Batched
  <2>3. CASE ~UNCHANGED <<file, phase>>
    <3>1. PICK c \in Queued, d \in Descriptor :
                  /\ file[d] = "free"
                  /\ file' = [file EXCEPT ![d] = c]
                  /\ phase' = [phase EXCEPT ![c] = "open"]
        BY <1>11, <2>3 DEF HandleNewConnection, Lowest
    <3>2. c \in Client /\ phase[c] = "queued" /\ IsSocket /\ sock.listening
        BY <3>1 DEF Queued, WaitsOnSocket
    <3>3. \A e \in Descriptor : file[e] # c /\ (e # d => file'[e] = file[e])
        BY <1>1, <3>1, <3>2 DEF OpenIffDescriptor, DataTypes
    <3>4. /\ file'[d] = c /\ phase'[c] = "open"
          /\ \A x \in Client : x # c => phase'[x] = phase[x]
        BY <1>1, <3>1, <3>2 DEF OpenIffDescriptor, DataTypes
    <3>5. phase' \in [Client -> {"idle", "queued", "open", "lost"}]
        BY <3>1, <3>2 DEF OpenIffDescriptor
    <3>6. \A x \in Client : phase'[x] = "open" <=> \E e \in Descriptor : file'[e] = x
        BY <3>1, <3>2, <3>3, <3>4 DEF OpenIffDescriptor
    <3>7. \A e, f \in Descriptor : file'[e] \in Client /\ file'[e] = file'[f] => e = f
        BY <3>1, <3>2, <3>3, <3>4 DEF OpenIffDescriptor
    <3>8. ready' \subseteq {x \in Client : phase'[x] = "open"}
        BY <2>1, <3>4 DEF OpenIffDescriptor
    <3>9. serverSocket \in Descriptor /\ file'[serverSocket] = file[serverSocket]
        BY <1>1, <3>1, <3>2, <3>3 DEF IsSocket, Behind, DataTypes
    <3>10. WaitsOnSocket'
        BY <1>1, <2>1, <3>2, <3>9 DEF WaitsOnSocket, IsSocket, Behind
    <3> QED BY <2>1, <3>5, <3>6, <3>7, <3>8, <3>10 DEF OpenIffDescriptor, Batched
  <2> QED BY <2>2, <2>3
<1>12. CASE HandleMessage
  <2>1. /\ UNCHANGED <<serverSocket, file, sock, registered, phase, pc>> /\ ready' \subseteq ready
        /\ pc = "handle"
      BY <1>12 DEF HandleMessage
  <2> QED BY <2>1 DEF OpenIffDescriptor, WaitsOnSocket, IsSocket, Behind, Batched
<1>13. CASE CallTerminate \/ StopLoop \/ UnregisterReturns \/ CloseChannel
    BY <1>2, <1>13 DEF CallTerminate, StopLoop, UnregisterReturns, CloseChannel, Batched
<1>14. CASE Unregister
    BY <1>14 DEF Unregister, OpenIffDescriptor, WaitsOnSocket, IsSocket, Behind, Batched
<1>15. CASE CloseSocket
    BY <1>3, <1>15 DEF CloseSocket, Batched
<1>16. ASSUME NEW k \in {"file", "socket"}, OthersOpen(k)
       PROVE  Attached'
  <2>1. PICK d \in Descriptor : /\ file[d] = "free"
                                /\ file' = [file EXCEPT ![d] = k]
                                /\ sock' = IF d = serverSocket THEN Fresh ELSE sock
      BY <1>16 DEF OthersOpen, Lowest
  <2>2. UNCHANGED <<pc, serverSocket, registered, phase, ready, batch>>
      BY <1>16 DEF OthersOpen
  <2>3. OpenIffDescriptor'
      BY <1>1, <2>1, <2>2, NumberGiven
  <2>4. WaitsOnSocket'
    <3>1. CASE d = serverSocket
      <4>1. ~registered /\ \A c \in Client : phase[c] # "queued"
          BY <1>1, <2>1, <3>1 DEF WaitsOnSocket, IsSocket, Behind
      <4> QED BY <2>2, <4>1 DEF WaitsOnSocket
    <3>2. CASE d # serverSocket
      <4>1. sock' = sock /\ Behind(serverSocket)' = Behind(serverSocket)
          BY <1>1, <2>1, <2>2, <3>2 DEF Behind, DataTypes
      <4> QED BY <2>2, <4>1 DEF WaitsOnSocket, IsSocket
    <3> QED BY <3>1, <3>2
  <2> QED BY <2>2, <2>3, <2>4 DEF Batched
<1>17. ASSUME NEW d \in Descriptor, OthersClose(d)
       PROVE  Attached'
    BY <1>1, <1>17, CloseDetaches DEF OthersClose, Batched
<1>18. ASSUME NEW c \in Client, Connect(c)
       PROVE  Attached'
  <2>1. /\ phase[c] = "idle" /\ sock.listening /\ IsSocket
        /\ phase' = [phase EXCEPT ![c] = "queued"]
        /\ UNCHANGED <<pc, serverSocket, file, sock, registered, ready, batch>>
      BY <1>18 DEF Connect
  <2>2. \A x \in Client : phase'[x] = "open" <=> phase[x] = "open"
      BY <2>1 DEF OpenIffDescriptor
  <2> QED BY <2>1, <2>2 DEF OpenIffDescriptor, WaitsOnSocket, IsSocket, Behind, Batched
<1>19. ASSUME NEW c \in Client, Send(c)
       PROVE  Attached'
    BY <1>19 DEF Send, OpenIffDescriptor, WaitsOnSocket, IsSocket, Behind, Batched
<1>20. CASE UNCHANGED vars
    BY <1>2, <1>20 DEF vars, Batched
<1> QED BY <1>4, <1>5, <1>6, <1>7, <1>8, <1>9, <1>10, <1>11, <1>12, <1>13, <1>14, <1>15, <1>16,
           <1>17, <1>18, <1>19, <1>20
        DEF Next, Main, Terminate, Environment

-----------------------------------------------------------------------------
(***************************************************************************)
(* Once Terminate has deleted the registration there is none, unless it    *)
(* was early, when Boot may register afterwards; and the channel is closed *)
(* later.                                                                  *)
(***************************************************************************)
Deregistered ==
    /\ term \in {"unregistering", "unregistered", "channel closed", "returned"} /\ ~early =>
          ~registered
    /\ channel = "closed" => term \in {"channel closed", "returned"}

LEMMA DeregisteredKept ==
    ASSUME LifecycleInv, Deregistered, [Next]_vars
    PROVE  Deregistered'
<1> USE DEF Deregistered, LifecycleInv, InOrder, ControlTypes, Booting,
            setupVars, socketVars, clientVars, termVars
<1>1. CASE Builder
    BY <1>1 DEF Builder, WithSocketOptions, WithServerPort, WithSSL, Configure, Build
<1>2. CASE CreateSocket \/ SetSocketOption \/ CreateChannel
    BY <1>2 DEF CreateSocket, SetSocketOption, SetSocketOptionDoes, CloseServerSocket, Close,
                CreateChannel
<1>3. CASE Bind \/ Listen \/ Register \/ RegisterReturns \/ Run
    BY <1>3 DEF Bind, Listen, Throw, CloseServerSocket, Close, Register, RegisterReturns, Run
<1>4. CASE CheckRunning \/ GetFiredNotifications \/ BatchDone
  <2>1. UNCHANGED <<term, early, registered, channel>>
      BY <1>4 DEF CheckRunning, GetFiredNotifications, BatchDone
  <2> QED BY <2>1
<1>5. CASE HandleNewConnection
  <2>1. UNCHANGED <<term, early, registered, channel>>
      BY <1>5 DEF HandleNewConnection
  <2> QED BY <2>1
<1>6. CASE HandleMessage
  <2>1. UNCHANGED <<early, registered, channel>>
      BY <1>6 DEF HandleMessage
  <2>2. term' = term \/ (term = "not called" /\ term' = "called")
      BY <1>6 DEF HandleMessage
  <2> QED BY <2>1, <2>2
<1>7. CASE CallTerminate \/ StopLoop
    BY <1>7 DEF CallTerminate, StopLoop
<1>8. CASE Unregister
  <2>1. term = "stopped" /\ term' # "stopped" /\ ~registered' /\ channel' = channel
      BY <1>8 DEF Unregister
  <2> QED BY <2>1
<1>9. CASE UnregisterReturns
  <2>1. /\ term = "unregistering" /\ term' = "unregistered"
        /\ UNCHANGED <<registered, channel, early>>
      BY <1>9 DEF UnregisterReturns
  <2> QED BY <2>1
<1>10. CASE CloseChannel
    BY <1>10 DEF CloseChannel
<1>11. CASE CloseSocket
  <2>1. term = "channel closed" /\ term' = "returned" /\ UNCHANGED <<early, channel>>
      BY <1>11 DEF CloseSocket
  <2>2. registered' => registered
      BY <1>11 DEF CloseSocket, CloseServerSocket, Close
  <2> QED BY <2>1, <2>2
<1>12. CASE Environment
  <2>1. UNCHANGED <<term, early, channel>>
      BY <1>12 DEF Environment, OthersOpen, OthersClose, Connect, Send
  <2>2. registered' => registered
      BY <1>12 DEF Environment, OthersOpen, OthersClose, Close, Connect, Send
  <2> QED BY <2>1, <2>2
<1>13. CASE UNCHANGED vars
    BY <1>13 DEF vars
<1> QED BY <1>1, <1>2, <1>3, <1>4, <1>5, <1>6, <1>7, <1>8, <1>9, <1>10, <1>11, <1>12, <1>13
        DEF Next, Main, Terminate

LEMMA Arrangements ==
    ASSUME NEW S, NEW s \in SetToSeqs(S), NEW x \in ToSet(s)
    PROVE  x \in S
BY DEF SetToSeqs, ToSet

(***************************************************************************)
(* Only kevent fills a batch.                                              *)
(***************************************************************************)
LEMMA CollectedStep ==
    ASSUME LifecycleInv, Attached, Deregistered, [Next]_vars,
           batch = <<>>, batch' # <<>>, "server" \in ToSet(batch')
    PROVE  channel = "open" \/ early
<1>1. GetFiredNotifications
  <2> USE DEF setupVars, socketVars, clientVars, termVars
  <2>1. ~Builder /\ ~(CreateSocket \/ SetSocketOption \/ CreateChannel)
      BY DEF Builder, WithSocketOptions, WithServerPort, WithSSL, Configure, Build,
             CreateSocket, SetSocketOption, CreateChannel
  <2>2. ~(Bind \/ Listen \/ Register \/ RegisterReturns \/ Run)
      BY DEF Bind, Listen, Register, RegisterReturns, Run
  <2>3. ~(CheckRunning \/ BatchDone \/ HandleNewConnection \/ HandleMessage)
      BY DEF CheckRunning, BatchDone, HandleNewConnection, HandleMessage
  <2>4. ~CallTerminate /\ ~Terminate
      BY DEF CallTerminate, Terminate, StopLoop, Unregister, UnregisterReturns, CloseChannel,
             CloseSocket
  <2>5. ~Environment /\ ~UNCHANGED vars
      BY DEF Environment, OthersOpen, OthersClose, Connect, Send, vars
  <2> QED BY <2>1, <2>2, <2>3, <2>4, <2>5 DEF Next, Main
<1>2. pc = "wait" /\ batch' \in SetToSeqs(Fired)
    BY <1>1 DEF GetFiredNotifications
<1>3. "server" \in Fired
    BY <1>2, Arrangements
<1>4. registered
  <2>1. ready \subseteq Client /\ "server" \notin Client
      BY LifecycleAssumption DEF Attached, OpenIffDescriptor
  <2> QED BY <1>3, <2>1 DEF Fired
<1> QED BY <1>2, <1>4 DEF LifecycleInv, InOrder, ControlTypes, Deregistered, Looping

(***************************************************************************)
(* The strengthened invariant holds in every reachable state.              *)
(***************************************************************************)
THEOREM LifecycleInvariant == Spec => []LifecycleInv
<1>1. LifecycleInv /\ [Next]_vars => LifecycleInv'
  <2> SUFFICES ASSUME LifecycleInv, [Next]_vars PROVE LifecycleInv'
      OBVIOUS
  <2> QED BY BuilderKeeps, SetupKeeps, BootKeeps, LoopKeeps, TerminateKeeps,
            EnvironmentKeeps, StutterKeeps
          DEF Next, Main
<1> QED BY <1>1, InitEstablishes, PTL DEF Spec

(***************************************************************************)
(* What depends on a descriptor is there only while the descriptor is.     *)
(***************************************************************************)
THEOREM AttachedInvariant == Spec => []Attached
<1>1. Init => Attached
    BY LifecycleAssumption
       DEF Init, Attached, OpenIffDescriptor, WaitsOnSocket, Batched
<1> QED BY <1>1, AttachedKept, LifecycleInvariant, PTL DEF Spec

(***************************************************************************)
(* Once the loop runs the server listens as it was configured, until       *)
(* Terminate closes its socket, unless an option was refused or Terminate  *)
(* was early; SetSocketOption, Boot and Terminate of Server.cpp.           *)
(***************************************************************************)
THEOREM AlwaysListens == Spec => []ListensAsConfigured
<1>1. LifecycleInv => ListensAsConfigured
  <2> SUFFICES ASSUME LifecycleInv,
                      pc \in {"check", "wait", "handle"}, ~refused, ~early, term # "returned"
               PROVE  /\ file[serverSocket] = "server"
                      /\ sock = [options |-> ToSet(config.options), port |-> config.port,
                                 listening |-> TRUE]
      BY DEF ListensAsConfigured
  <2>1. Undisturbed
      BY DEF LifecycleInv, InOrder, Undisturbed, Looping
  <2> QED BY <2>1 DEF LifecycleInv, DataTypes, ControlTypes, KeepsItsSocket, ConfiguredSoFar, Looping
<1> QED BY <1>1, LifecycleInvariant, PTL

(***************************************************************************)
(* However other threads use descriptors, the server closes one of theirs  *)
(* only after SetSocketOption closed its socket or in an early Terminate.  *)
(***************************************************************************)
THEOREM NeverClosesOthers == Spec => []ClosesOnlyItsOwn
<1>1. LifecycleInv => ClosesOnlyItsOwn
    BY DEF LifecycleInv
<1> QED BY <1>1, LifecycleInvariant, PTL

(***************************************************************************)
(* A Boot that throws has closed the socket Setup made.                    *)
(***************************************************************************)
THEOREM FailedBootAlwaysReleases == Spec => []FailedBootReleases
<1>1. LifecycleInv => FailedBootReleases
    BY DEF LifecycleInv
<1> QED BY <1>1, LifecycleInvariant, PTL

(***************************************************************************)
(* Terminate deletes the registration before it closes the channel: a      *)
(* batch that holds the server's socket is collected while the channel is  *)
(* open, unless Terminate was early.                                       *)
(***************************************************************************)
THEOREM CollectedOnlyWhileOpen == Spec => CollectedWhileOpen
<1>1. Init => Deregistered
    BY DEF Init, Deregistered
<1>2. Spec => []Deregistered
    BY <1>1, DeregisteredKept, LifecycleInvariant, PTL DEF Spec
<1>3. LifecycleInv /\ Attached /\ Deregistered /\ [Next]_vars =>
         [batch = <<>> /\ batch' # <<>> /\ "server" \in ToSet(batch') =>
            channel = "open" \/ early]_vars
    BY CollectedStep
<1> QED BY <1>2, <1>3, LifecycleInvariant, AttachedInvariant, PTL DEF Spec, CollectedWhileOpen

(***************************************************************************)
(* The variables keep their ranges, and connections, waiting clients, the  *)
(* registration and the batch go with the descriptor they depend on,       *)
(* whoever opens and closes descriptors beside Server.cpp.                 *)
(***************************************************************************)
THEOREM TypeCorrect == Spec => []TypeOK
<1>1. LifecycleInv /\ Attached => TypeOK
  <2> SUFFICES ASSUME LifecycleInv, Attached PROVE TypeOK
      OBVIOUS
  <2>1. sock.options \subseteq Option /\ sock.port \in Port \union {Unbound}
      BY DEF LifecycleInv, DataTypes
  <2>2. Queued # {} => IsSocket /\ sock.listening
      BY DEF Attached, WaitsOnSocket, Queued
  <2>3. pc \in {"build", "setup", "options", "bind", "listen", "register", "registering", "run",
                "check", "wait", "handle", "left", "threw", "exited", "crashed"}
      BY DEF LifecycleInv, ControlTypes, Booting, Looping
  <2> QED BY <2>1, <2>2, <2>3
          DEF TypeOK, LifecycleInv, DataTypes, ControlTypes, Attached, OpenIffDescriptor,
              WaitsOnSocket, Batched
<1> QED BY <1>1, LifecycleInvariant, AttachedInvariant, PTL
===============================================================================
