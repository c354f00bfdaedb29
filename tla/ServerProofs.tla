----------------------------- MODULE ServerProofs -----------------------------
(***************************************************************************)
(* Proofs about WebServer and about Shutdown, for every number of clients, *)
(* descriptors and contexts, every limit of the pool, over TCP and over    *)
(* TLS.                                                                    *)
(*                                                                         *)
(* First WebServer.  ServerInv is inductive.  Beside the three properties  *)
(* it establishes it has the invariant of the pool, from which an          *)
(* allocated context is not one that is registered, and Owned, the half of *)
(* NoContextLeak that does not follow from RegistryMatchesKernel.          *)
(* LimitInv, which needs it, counts the pool exactly: when the loop is     *)
(* left, every context is out, and each is that of an open connection or   *)
(* of a failed accept.                                                     *)
(***************************************************************************)
EXTENDS Shutdown, SequenceLemmas, FiniteSetTheorems, SequenceTheorems, TLAPS

ThePool ==
    INSTANCE MemoryPoolProofs WITH Block <- Context, BLOCK_RESERVE <- 128,
                                   HeapMayFail <- FALSE, AllocBound <- MaxAlloc

Owned == \A x \in held : ctx[x].Handle # BadHandle => knote[ctx[x].Handle] = x

Connections == RegistryMatchesKernel /\ Owned /\ TLSMatchesContext

ServerInv ==
    /\ TypeOK
    /\ ThePool!PoolInv
    /\ Connections
    /\ NoStaleEvent

-----------------------------------------------------------------------------
(***************************************************************************)
(* The pool, as WebServer and as MemoryPoolProofs instantiate it.          *)
(***************************************************************************)
(* The constants of the server are within the assumptions of the pool.      *)
LEMMA PoolAssumed == ThePool!PoolAssumption
BY ServerAssumption DEF ThePool!PoolAssumption

(* The two instances agree on the types,                                    *)
LEMMA SameTypeOK == connectionsMemPool!TypeOK <=> ThePool!TypeOK
BY DEF connectionsMemPool!TypeOK, ThePool!TypeOK, connectionsMemPool!IsFiniteSet,
       ThePool!IsFiniteSet

(* on the initial states,                                                   *)
LEMMA SameInit == connectionsMemPool!Init <=> ThePool!Init
BY DEF connectionsMemPool!Init, ThePool!Init, connectionsMemPool!IsInjective,
       ThePool!IsInjective

(* on what GetMemory does,                                                  *)
LEMMA SameGetMemory ==
    ASSUME NEW x
    PROVE  connectionsMemPool!GetMemory(x) <=> ThePool!GetMemory(x)
BY DEF connectionsMemPool!GetMemory, ThePool!GetMemory,
       connectionsMemPool!Reuse, ThePool!Reuse,
       connectionsMemPool!Grow, ThePool!Grow,
       connectionsMemPool!MayAllocate, ThePool!MayAllocate,
       connectionsMemPool!Live, ThePool!Live,
       connectionsMemPool!ToSet, ThePool!ToSet,
       connectionsMemPool!Last, ThePool!Last,
       connectionsMemPool!Front, ThePool!Front

(* and on what Release does.                                                *)
LEMMA SameRelease ==
    ASSUME NEW x
    PROVE  connectionsMemPool!Release(x) <=> ThePool!Release(x)
BY DEF connectionsMemPool!Release, ThePool!Release,
       connectionsMemPool!Keep, ThePool!Keep,
       connectionsMemPool!Drop, ThePool!Drop

(* What a context is allocated for, and given back from, is all the rest   *)
(* of the proof needs of the pool.                                         *)
LEMMA GetMemoryEffect ==
    ASSUME ThePool!PoolInv, NEW x \in Context, connectionsMemPool!GetMemory(x)
    PROVE  ThePool!PoolInv' /\ x \notin held /\ held' = held \union {x}
BY PoolAssumed, SameGetMemory, ThePool!GetMemoryKeepsPoolInv

(* Giving back a context leaves all the others where they are.              *)
LEMMA ReleaseEffect ==
    ASSUME ThePool!PoolInv, NEW x \in held, connectionsMemPool!Release(x)
    PROVE  ThePool!PoolInv' /\ held' = held \ {x}
BY PoolAssumed, SameRelease, ThePool!ReleaseKeepsPoolInv

(* Steps that make no call keep the invariant of the pool.                  *)
LEMMA PoolUnchanged ==
    ASSUME ThePool!PoolInv, UNCHANGED poolVars
    PROVE  ThePool!PoolInv'
BY DEF poolVars, ThePool!PoolInv, ThePool!TypeOK, ThePool!NoBlockShared, ThePool!Counted

(* What the rest of the proof uses of the pool's types, in a state,         *)
LEMMA PoolTypes ==
    ASSUME ThePool!PoolInv
    PROVE  connectionsMemPool!TypeOK /\ held \subseteq Context
BY SameTypeOK DEF ThePool!PoolInv, ThePool!TypeOK

(* and in the next one.                                                     *)
LEMMA PoolTypesNext ==
    ASSUME ThePool!PoolInv'
    PROVE  connectionsMemPool!TypeOK' /\ held' \subseteq Context
BY DEF ThePool!PoolInv, ThePool!TypeOK, connectionsMemPool!TypeOK,
       connectionsMemPool!IsFiniteSet, ThePool!IsFiniteSet

-----------------------------------------------------------------------------
(***************************************************************************)
(* Accepting: a fresh context is given to a free descriptor, or to none.   *)
(* No other connection, and no pointer in use, is touched.                 *)
(***************************************************************************)
Accepted(x, h) ==
    \/ \E c \in Client : AcceptSucceeds(x, c, h)
    \/ h = BadHandle /\ AcceptFails(x)

(* -1 and the listening socket are not descriptors of connections.          *)
LEMMA BadHandleIsNone == BadHandle \notin Handle /\ ServerHandle \notin Handle
BY EngineAssumption DEF BadHandle

(* Accepting, well or badly, and registering keep the tables in agreement.  *)
LEMMA AcceptKeepsConnections ==
    ASSUME ClientTypeOK, ConnectionTypeOK, ThePool!PoolInv, Connections,
           NEW x \in Context, NEW h \in Handle \union {BadHandle},
           connectionsMemPool!GetMemory(x), Accepted(x, h),
           OnClientConnected(x, h), RegisterEvent(h, "Add", x)
    PROVE  /\ phase' \in [Client -> {"idle", "queued", "open", "gone"}]
           /\ ConnectionTypeOK' /\ ThePool!PoolInv' /\ Connections'
           /\ held \subseteq held'
           /\ \A y \in held : ctx'[y] = ctx[y]
           /\ \A k \in Handle : knote[k] # NoContext => knote'[k] = knote[k]
<1> USE BadHandleIsNone
<1>1. ThePool!PoolInv' /\ x \notin held /\ held' = held \union {x}
    BY GetMemoryEffect
<1>2. connectionsMemPool!TypeOK' /\ held \subseteq Context /\ held' \subseteq Context
    BY <1>1, PoolTypes, PoolTypesNext
<1>3. x # NoContext /\ NoClient \notin Client
    BY EngineAssumption, ServerAssumption
<1>4. h \in Handle => knote[h] = NoContext
    BY <1>3 DEF Accepted, AcceptSucceeds, FreeHandles, Connections, RegistryMatchesKernel
<1>5. /\ ctx' = [ctx EXCEPT ![x] = [Handle |-> h, TLS |-> SSLEnabled]]
      /\ peer' \in [Handle -> Client \union {NoClient}]
      /\ \A k \in Handle : k # h => peer'[k] = peer[k]
      /\ h \in Handle => peer'[h] \in Client
      /\ phase' \in [Client -> {"idle", "queued", "open", "gone"}]
  <2>1. CASE \E c \in Client : AcceptSucceeds(x, c, h)
      BY <2>1 DEF AcceptSucceeds, FreeHandles, ClientTypeOK, ConnectionTypeOK
  <2>2. CASE h = BadHandle /\ AcceptFails(x)
      BY <2>2 DEF AcceptFails, ClientTypeOK, ConnectionTypeOK
  <2> QED BY <2>1, <2>2 DEF Accepted
<1>6. /\ knote' \in [Handle -> Context \union {NoContext}]
      /\ \A k \in Handle : knote'[k] = IF k = h THEN x ELSE knote[k]
    BY DEF RegisterEvent, ConnectionTypeOK
<1>7. /\ connections' \in [Handle \union {BadHandle} -> Context \union {NoContext}]
      /\ \A k \in Handle : connections'[k] = IF k = h THEN x ELSE connections[k]
    BY DEF OnClientConnected, ConnectionTypeOK
<1>8. /\ ctx' \in [Context -> [Handle : Handle \union {BadHandle}, TLS : BOOLEAN]]
      /\ ctx'[x].Handle = h /\ ctx'[x].TLS = SSLEnabled
      /\ \A y \in Context : y # x => ctx'[y] = ctx[y]
    BY <1>5, ServerAssumption DEF ConnectionTypeOK
<1>9. ConnectionTypeOK'
    BY <1>2, <1>5, <1>6, <1>7, <1>8 DEF ConnectionTypeOK
<1>10. RegistryMatchesKernel'
    BY <1>1, <1>2, <1>3, <1>5, <1>6, <1>7, <1>8
       DEF Connections, RegistryMatchesKernel, ConnectionTypeOK
<1>11. Owned'
  <2> SUFFICES ASSUME NEW y \in held', ctx'[y].Handle # BadHandle
               PROVE  knote'[ctx'[y].Handle] = y
      BY DEF Owned
  <2>1. CASE y = x
      BY <1>6, <1>8, <2>1
  <2>2. CASE y # x
    <3>1. y \in held /\ ctx'[y] = ctx[y]
        BY <1>1, <1>2, <1>8, <2>2
    <3>2. /\ ctx[y].Handle \in Handle /\ knote[ctx[y].Handle] = y
          /\ y # NoContext
        BY <1>2, <3>1, EngineAssumption DEF Connections, Owned, ConnectionTypeOK
    <3> QED BY <1>4, <1>6, <3>1, <3>2
  <2> QED BY <2>1, <2>2
<1>12. TLSMatchesContext'
    BY <1>1, <1>8, ServerAssumption DEF Connections, TLSMatchesContext
<1> QED BY <1>1, <1>2, <1>4, <1>5, <1>6, <1>8, <1>9, <1>10, <1>11, <1>12 DEF Connections

(***************************************************************************)
(* Disconnecting a registered context takes exactly its own descriptor out *)
(* of the kernel's and the server's tables.                                *)
(***************************************************************************)
LEMMA DisconnectKeepsConnections ==
    ASSUME ClientTypeOK, ConnectionTypeOK, ThePool!PoolInv, Connections,
           NEW x \in held, ctx[x].Handle \in Handle, knote[ctx[x].Handle] = x,
           HandleDisconnectionEvent(x)
    PROVE  /\ phase' \in [Client -> {"idle", "queued", "open", "gone"}]
           /\ inbox' \in [Client -> Seq(Segment)]
           /\ ConnectionTypeOK' /\ ThePool!PoolInv' /\ Connections'
           /\ \A k \in Handle : k # ctx[x].Handle => knote'[k] = knote[k]
<1> DEFINE h == ctx[x].Handle
<1> USE BadHandleIsNone
<1>1. ThePool!PoolInv' /\ held' = held \ {x}
    BY ReleaseEffect DEF HandleDisconnectionEvent
<1>2. connectionsMemPool!TypeOK' /\ held \subseteq Context /\ held' \subseteq Context
    BY <1>1, PoolTypes, PoolTypesNext
<1>3. x \in Context /\ x # NoContext /\ h \in Handle
    BY <1>2, EngineAssumption
<1>4. /\ peer' \in [Handle -> Client \union {NoClient}]
      /\ \A k \in Handle : peer'[k] = IF k = h THEN NoClient ELSE peer[k]
      /\ phase' \in [Client -> {"idle", "queued", "open", "gone"}]
    BY <1>3 DEF HandleDisconnectionEvent, DisposeConnection, ClientTypeOK, ConnectionTypeOK
<1>5. inbox' \in [Client -> Seq(Segment)]
  <2>1. <<>> \in Seq(Segment) /\ inbox \in [Client -> Seq(Segment)]
      BY EmptySeq DEF ClientTypeOK
  <2>2. \E c : inbox' = [inbox EXCEPT ![c] = <<>>]
      BY DEF HandleDisconnectionEvent, DisposeConnection
  <2> QED BY <2>1, <2>2
<1>6. /\ knote' \in [Handle -> Context \union {NoContext}]
      /\ \A k \in Handle : knote'[k] = IF k = h THEN NoContext ELSE knote[k]
    BY <1>3 DEF HandleDisconnectionEvent, DeleteEvent, RegisterEvent, ConnectionTypeOK
<1>7. /\ connections' \in [Handle \union {BadHandle} -> Context \union {NoContext}]
      /\ \A k \in Handle : connections'[k] = IF k = h THEN NoContext ELSE connections[k]
    BY <1>3 DEF HandleDisconnectionEvent, OnClientDisconnected, ConnectionTypeOK
<1>8. /\ ctx' \in [Context -> [Handle : Handle \union {BadHandle}, TLS : BOOLEAN]]
      /\ \A y \in Context : y # x => ctx'[y] = ctx[y]
      /\ ctx'[x].TLS = FALSE
    BY <1>3 DEF HandleDisconnectionEvent, DisposeConnection, ConnectionTypeOK
<1>9. ConnectionTypeOK'
    BY <1>2, <1>4, <1>6, <1>7, <1>8 DEF ConnectionTypeOK
<1>10. \A k \in Handle : k # h => knote[k] # x
    BY <1>3 DEF Connections, RegistryMatchesKernel
<1>11. RegistryMatchesKernel'
    BY <1>1, <1>2, <1>3, <1>4, <1>6, <1>7, <1>8, <1>10
       DEF Connections, RegistryMatchesKernel
<1>12. Owned'
  <2> SUFFICES ASSUME NEW y \in held', ctx'[y].Handle # BadHandle
               PROVE  knote'[ctx'[y].Handle] = y
      BY DEF Owned
  <2>1. y \in held /\ y # x /\ ctx'[y] = ctx[y]
      BY <1>1, <1>2, <1>8
  <2>2. ctx[y].Handle \in Handle /\ knote[ctx[y].Handle] = y
      BY <1>2, <2>1 DEF Connections, Owned, ConnectionTypeOK
  <2> QED BY <1>6, <2>1, <2>2
<1>13. TLSMatchesContext'
    BY <1>1, <1>2, <1>8 DEF Connections, TLSMatchesContext
<1> QED BY <1>1, <1>4, <1>5, <1>6, <1>9, <1>11, <1>12, <1>13 DEF Connections

(* The tables agree after a step that does not touch them.                  *)
LEMMA ConnectionsUnchanged ==
    ASSUME ConnectionTypeOK, ThePool!PoolInv, Connections,
           UNCHANGED <<peer, knote, poolVars, ctx, connections>>
    PROVE  ConnectionTypeOK' /\ ThePool!PoolInv' /\ Connections'
<1>1. ThePool!PoolInv'
    BY PoolUnchanged
<1>2. ConnectionTypeOK'
    BY <1>1, PoolTypesNext DEF ConnectionTypeOK
<1>3. held' = held
    BY DEF poolVars
<1>4. RegistryMatchesKernel'
    BY <1>3 DEF Connections, RegistryMatchesKernel
<1>5. Owned' /\ TLSMatchesContext'
    BY <1>3 DEF Connections, Owned, TLSMatchesContext
<1> QED BY <1>1, <1>2, <1>4, <1>5 DEF Connections

-----------------------------------------------------------------------------
(***************************************************************************)
(* The events still to be handled are the rest of a batch.                 *)
(***************************************************************************)
LEMMA RestOfBatch ==
    ASSUME LoopTypeOK, events # <<>>
    PROVE  /\ Head(events) = events[1] /\ 1 \in DOMAIN events
           /\ events[1] \in Notifications
           /\ Tail(events) \in Seq(Notifications)
           /\ DOMAIN Tail(events) \subseteq Nat
           /\ \A i \in DOMAIN Tail(events) :
                 i + 1 \in DOMAIN events /\ i + 1 # 1 /\ Tail(events)[i] = events[i + 1]
<1>1. events \in Seq(Notifications)
    BY DEF LoopTypeOK
<1>2. /\ Len(events) \in Nat \ {0} /\ DOMAIN events = 1 .. Len(events)
      /\ Head(events) = events[1] /\ events[1] \in Notifications
    BY <1>1
<1>3. /\ Tail(events) \in Seq(Notifications) /\ Len(Tail(events)) = Len(events) - 1
      /\ \A i \in 1 .. Len(Tail(events)) : Tail(events)[i] = events[i + 1]
    BY <1>1, HeadTailProperties
<1>4. DOMAIN Tail(events) = 1 .. Len(events) - 1
    BY <1>2, <1>3
<1> QED BY <1>2, <1>3, <1>4

(* Handling an event leaves a batch as fresh as it was, as long as the     *)
(* handler keeps the registrations the rest of it was collected from.      *)
LEMMA RestStaysFresh ==
    ASSUME LoopTypeOK, EventsFresh, HandleEvent,
           \A k \in Handle : knote[k] # NoContext => knote'[k] = knote[k]
    PROVE  EventsFresh'
<1>1. events # <<>> /\ events' = Tail(events)
    BY DEF HandleEvent
<1>2. ASSUME NEW i \in DOMAIN events'
      PROVE  events'[i] = events[i + 1] /\ i + 1 \in DOMAIN events /\ i \in Nat
    BY <1>1, RestOfBatch
<1>3. \A i \in DOMAIN events : events[i] \in Notifications
    BY DEF LoopTypeOK
<1>4. ASSUME NEW i \in DOMAIN events', events'[i].ident # ServerHandle
      PROVE  events'[i].udata # NoContext /\ knote'[events'[i].ident] = events'[i].udata
  <2> DEFINE e == events[i + 1]
  <2>1. events'[i] = e /\ i + 1 \in DOMAIN events
      BY <1>2
  <2>2. e \in Notifications
      BY <1>3, <2>1
  <2>3. e.ident \in Handle
      BY <1>4, <2>1, <2>2 DEF Notifications
  <2>4. e.udata # NoContext /\ knote[e.ident] = e.udata
      BY <1>4, <2>1 DEF EventsFresh, StillRegistered
  <2> QED BY <2>1, <2>3, <2>4
<1>5. ASSUME NEW i \in DOMAIN events', NEW j \in DOMAIN events',
             events'[i].ident = events'[j].ident
      PROVE  i = j
  <2>1. i + 1 = j + 1
      BY <1>2, <1>5 DEF EventsFresh
  <2> QED BY <1>2, <2>1
<1> QED BY <1>4, <1>5 DEF EventsFresh, StillRegistered

-----------------------------------------------------------------------------
(***************************************************************************)
(* One lemma for each action.                                              *)
(***************************************************************************)
(* What clients do keeps the types of what the kernel knows of them.        *)
LEMMA EnvironmentTypes ==
    ASSUME ClientTypeOK, NEW c \in Client, Connect(c) \/ Send(c) \/ Finish(c)
    PROVE  ClientTypeOK'
<1>1. CASE Connect(c)
    BY <1>1 DEF Connect, ClientTypeOK
<1>2. CASE Send(c)
  <2>1. PICK s \in Segment : inbox' = [inbox EXCEPT ![c] = Append(@, s)]
      BY <1>2 DEF Send
  <2>2. inbox[c] \in Seq(Segment) /\ inbox \in [Client -> Seq(Segment)]
      BY DEF ClientTypeOK
  <2>3. Append(inbox[c], s) \in Seq(Segment)
      BY <2>2, AppendProperties
  <2>4. inbox' \in [Client -> Seq(Segment)]
      BY <2>1, <2>2, <2>3
  <2>5. sent' \in [Client -> 0 .. MaxSegments]
      BY <1>2, ServerAssumption DEF Send, ClientTypeOK
  <2> QED BY <1>2, <2>4, <2>5 DEF Send, ClientTypeOK
<1>3. CASE Finish(c)
    BY <1>3 DEF Finish, ClientTypeOK
<1> QED BY <1>1, <1>2, <1>3

(* Nothing of the server's is touched by what clients do.                   *)
LEMMA EnvironmentKeepsInv ==
    ASSUME ServerInv, NEW c \in Client, Connect(c) \/ Send(c) \/ Finish(c)
    PROVE  ServerInv'
<1> USE DEF ServerInv, TypeOK
<1>1. ConnectionTypeOK' /\ ThePool!PoolInv' /\ Connections'
    BY ConnectionsUnchanged DEF Connect, Send, Finish
<1>2. LoopTypeOK'
    BY DEF Connect, Send, Finish, loopVars, LoopTypeOK
<1>3. NoStaleEvent'
    BY DEF Connect, Send, Finish, loopVars, poolVars, NoStaleEvent, EventsFresh,
           StillRegistered, CurrentInUse
<1> QED BY <1>1, <1>2, <1>3, EnvironmentTypes

(* A batch is fresh when it is collected: each socket is in it once.        *)
LEMMA BatchIsFresh ==
    ASSUME ClientTypeOK, ConnectionTypeOK, LoopTypeOK, GetFiredNotifications
    PROVE  ClientTypeOK' /\ LoopTypeOK' /\ EventsFresh'
<1>1. ClientTypeOK'
    BY DEF GetFiredNotifications, clientVars, ClientTypeOK
<1>2. PICK order \in Batches(Ready) :
        events' = [i \in DOMAIN order |->
                     Notification(order[i], order[i] \in Handle /\ finished[peer[order[i]]])]
    BY DEF GetFiredNotifications
<1>3. IsFiniteSet(Ready)
  <2>1. Ready \subseteq Handle \union {ServerHandle}
      BY DEF Ready
  <2> QED BY <2>1, EngineAssumption, FS_Subset, FS_AddElement
<1>4. PICK n \in Nat : order \in [1 .. n -> Ready] /\ IsInjective(order)
    BY <1>3, FS_CardinalityType, EngineAssumption DEF Batches
<1>5. DOMAIN events' = 1 .. n
    BY <1>2, <1>4
<1>6. ASSUME NEW i \in 1 .. n
      PROVE  /\ events'[i] \in Notifications
             /\ events'[i].ident = order[i]
             /\ events'[i].ident # ServerHandle =>
                   events'[i].udata # NoContext /\ knote[events'[i].ident] = events'[i].udata
  <2> DEFINE eof == order[i] \in Handle /\ finished[peer[order[i]]]
  <2>1. events'[i] = Notification(order[i], eof) /\ order[i] \in Ready
      BY <1>2, <1>4
  <2>2. eof \in BOOLEAN
      BY <2>1 DEF Ready, ClientTypeOK
  <2>3. CASE order[i] = ServerHandle
      BY <2>1, <2>2, <2>3 DEF Notification, Notifications
  <2>4. CASE order[i] # ServerHandle
    <3>1. order[i] \in Handle /\ knote[order[i]] # NoContext
        BY <2>1, <2>4 DEF Ready
    <3> QED BY <2>1, <2>2, <2>4, <3>1 DEF Notification, Notifications, ConnectionTypeOK
  <2> QED BY <2>3, <2>4
<1>7. events' \in Seq(Notifications)
  <2>1. events' \in [1 .. n -> Notifications]
      BY <1>2, <1>4, <1>5, <1>6
  <2> QED BY <2>1
<1>8. LoopTypeOK'
    BY <1>7 DEF GetFiredNotifications, LoopTypeOK
<1>9. EventsFresh'
    BY <1>4, <1>5, <1>6 DEF GetFiredNotifications, EventsFresh, StillRegistered, IsInjective
<1> QED BY <1>1, <1>8, <1>9

(* Collecting it changes nothing else.                                      *)
LEMMA GetFiredNotificationsKeepsInv ==
    ASSUME ServerInv, GetFiredNotifications
    PROVE  ServerInv'
<1> USE DEF ServerInv, TypeOK
<1>1. ConnectionTypeOK' /\ ThePool!PoolInv' /\ Connections'
    BY ConnectionsUnchanged DEF GetFiredNotifications
<1>2. CurrentInUse'
    BY DEF GetFiredNotifications, LoopTypeOK, CurrentInUse
<1> QED BY <1>1, <1>2, BatchIsFresh DEF NoStaleEvent

(* A new connection takes a free descriptor, which no event names.          *)
LEMMA HandleServerEventKeepsInv ==
    ASSUME ServerInv, HandleServerEvent
    PROVE  ServerInv'
<1> USE DEF ServerInv, TypeOK
<1>1. HandleEvent /\ loop = "idle" /\ current = NoContext /\ current' = NoContext
    BY DEF HandleServerEvent, HandleEvent, LoopTypeOK
<1>2. events' \in Seq(Notifications)
    BY <1>1, RestOfBatch DEF HandleEvent
<1>3. CurrentInUse'
    BY <1>1 DEF CurrentInUse
<1>4. UNCHANGED <<inbox, sent, finished, answered, current, message, bufferDirty>>
    BY DEF HandleServerEvent
<1>5. CASE \E x \in Context : \E h \in Handle \union {BadHandle} :
             /\ connectionsMemPool!GetMemory(x) /\ Accepted(x, h)
             /\ OnClientConnected(x, h) /\ RegisterEvent(h, "Add", x)
             /\ UNCHANGED loop
  <2>1. /\ phase' \in [Client -> {"idle", "queued", "open", "gone"}]
        /\ ConnectionTypeOK' /\ ThePool!PoolInv' /\ Connections'
        /\ \A k \in Handle : knote[k] # NoContext => knote'[k] = knote[k]
        /\ UNCHANGED loop
      BY <1>5, AcceptKeepsConnections
  <2>2. EventsFresh'
      BY <1>1, <2>1, RestStaysFresh DEF NoStaleEvent
  <2>3. ClientTypeOK' /\ LoopTypeOK'
      BY <1>1, <1>2, <1>4, <2>1 DEF ClientTypeOK, LoopTypeOK
  <2> QED BY <1>3, <2>1, <2>2, <2>3 DEF NoStaleEvent
<1>6. CASE /\ connectionsMemPool!GetMemoryExhausted
           /\ loop' = "died"
           /\ UNCHANGED <<phase, peer, ctx, connections, knote>>
  <2>1. UNCHANGED <<peer, knote, poolVars, ctx, connections>>
      BY <1>6 DEF connectionsMemPool!GetMemoryExhausted, connectionsMemPool!poolVars, poolVars
  <2>2. ConnectionTypeOK' /\ ThePool!PoolInv' /\ Connections'
      BY <2>1, ConnectionsUnchanged
  <2>3. EventsFresh'
      BY <1>1, <2>1, RestStaysFresh DEF NoStaleEvent
  <2>4. ClientTypeOK' /\ LoopTypeOK'
      BY <1>1, <1>2, <1>4, <1>6 DEF ClientTypeOK, LoopTypeOK
  <2> QED BY <1>3, <2>2, <2>3, <2>4 DEF NoStaleEvent
<1> QED BY <1>5, <1>6 DEF HandleServerEvent, HandleNewConnectionEvent, Accepted

(* The context of an event becomes current, and its event leaves the batch. *)
LEMMA HandleConnectionEventKeepsInv ==
    ASSUME ServerInv, HandleConnectionEvent
    PROVE  ServerInv'
<1> USE DEF ServerInv, TypeOK
<1> DEFINE event  == events[1]
           result == DigestEvent(event)
<1>1. HandleEvent /\ loop = "idle" /\ events # <<>> /\ events' = Tail(events)
    BY DEF HandleConnectionEvent, HandleEvent
<1>2. /\ event = Head(events) /\ event \in Notifications /\ 1 \in DOMAIN events
      /\ events' \in Seq(Notifications)
      /\ \A i \in DOMAIN events' :
            i + 1 \in DOMAIN events /\ i + 1 # 1 /\ events'[i] = events[i + 1]
    BY <1>1, RestOfBatch
<1>3. /\ event.ident \in Handle
      /\ result = [Context |-> event.udata, Type |-> "Read"]
    BY <1>2 DEF HandleConnectionEvent, DigestEvent, Notifications
<1>4. /\ UNCHANGED connectionVars /\ UNCHANGED <<sent, finished, answered, bufferDirty>>
      /\ loop' = "read" /\ current' = event.udata /\ message' = <<>>
    BY <1>2, <1>3 DEF HandleConnectionEvent
<1>5. ConnectionTypeOK' /\ ThePool!PoolInv' /\ Connections'
    BY <1>4, ConnectionsUnchanged DEF connectionVars
<1>6. event.udata # NoContext /\ knote[event.ident] = event.udata
    BY <1>2, <1>3, EngineAssumption DEF NoStaleEvent, EventsFresh, StillRegistered
<1>7. /\ event.udata \in held /\ event.udata \in Context
      /\ ctx[event.udata].Handle = event.ident
    BY <1>3, <1>6 DEF Connections, RegistryMatchesKernel, ConnectionTypeOK
<1>8. EventsFresh'
    BY <1>1, <1>4, RestStaysFresh DEF connectionVars, NoStaleEvent
<1>9. CurrentInUse'
  <2>1. \A i \in DOMAIN events' : events'[i].ident # event.ident
      BY <1>2 DEF NoStaleEvent, EventsFresh
  <2> QED BY <1>3, <1>4, <1>6, <1>7, <2>1 DEF connectionVars, poolVars, CurrentInUse
<1>10. LoopTypeOK'
    BY <1>2, <1>4, <1>6, <1>7 DEF LoopTypeOK
<1>11. ClientTypeOK'
    BY <1>4 DEF connectionVars, ClientTypeOK
<1> QED BY <1>5, <1>8, <1>9, <1>10, <1>11 DEF NoStaleEvent

(* The connection whose event is being handled has a client behind it.     *)
LEMMA CurrentHasPeer ==
    ASSUME ServerInv, current # NoContext
    PROVE  /\ current \in held /\ ctx[current].Handle \in Handle
           /\ knote[ctx[current].Handle] = current
           /\ peer[ctx[current].Handle] \in Client
BY DEF ServerInv, TypeOK, NoStaleEvent, CurrentInUse, Connections, RegistryMatchesKernel,
       ConnectionTypeOK

Text == Segment \union {"keep", "close", "plain", "fault"}

(* What is read is text, whatever the buffer held.                          *)
LEMMA ReceivedType ==
    ASSUME message \in Seq(Text), NEW data \in Seq(Text), Received(data)
    PROVE  message' \in Seq(Text)
<1>1. PICK r \in Residue : message' = message \o data \o r
    BY DEF Received
<1>2. r \in Seq(Text)
  <2>1. <<>> \in Seq(Text) /\ \A t \in Text : <<t>> \in Seq(Text)
      BY EmptySeq
  <2>2. r = <<>> \/ \E t \in {"keep", "close", "plain", "fault"} : r = <<t>>
      BY <1>1 DEF Residue
  <2> QED BY <2>1, <2>2 DEF Text
<1>3. message \o data \in Seq(Text)
    BY ConcatProperties
<1> QED BY <1>1, <1>2, <1>3, ConcatProperties

(* Reading a connection with a client behind it.                            *)
LEMMA ReadTypes ==
    ASSUME ClientTypeOK, LoopTypeOK, peer[ctx[current].Handle] \in Client, Read
    PROVE  ClientTypeOK' /\ LoopTypeOK' /\ loop' \in {"read", "message"}
<1> DEFINE c == peer[ctx[current].Handle]
<1>1. loop = "read" /\ current # NoContext
    BY DEF Read, LoopTypeOK
<1>2. c \in Client /\ inbox[c] \in Seq(Segment) /\ inbox \in [Client -> Seq(Segment)]
    BY DEF ClientTypeOK
<1>3. message \in Seq(Text) /\ <<>> \in Seq(Text)
    BY EmptySeq DEF LoopTypeOK, Text
<1> SUFFICES /\ inbox' \in [Client -> Seq(Segment)]
             /\ message' \in Seq(Text)
             /\ loop' \in {"read", "message"}
    BY <1>1 DEF Read, ClientTypeOK, LoopTypeOK, Text
<1>4. CASE SSLEnabled /\ SecureRead(c)
  <2>1. CASE Records(c) # {}
    <3>1. PICK i \in Records(c) :
            /\ Received(<<inbox[c][i]>>)
            /\ inbox' = [inbox EXCEPT ![c] = SubSeq(@, i + 1, Len(@))]
            /\ loop' = "message"
        BY <1>4, <2>1 DEF SecureRead
    <3>2. i \in 1 .. Len(inbox[c]) /\ inbox[c][i] \in Segment
        BY <1>2, <3>1 DEF Records
    <3>3. <<inbox[c][i]>> \in Seq(Text)
        BY <3>2 DEF Text
    <3>4. message' \in Seq(Text)
        BY <1>3, <3>1, <3>3, ReceivedType
    <3>5. SubSeq(inbox[c], i + 1, Len(inbox[c])) \in Seq(Segment)
        BY <1>2, <3>2
    <3> QED BY <1>2, <3>1, <3>4, <3>5
  <2>2. CASE Records(c) = {}
      BY <1>1, <1>2, <1>3, <1>4, <2>2, ReceivedType DEF SecureRead
  <2> QED BY <2>1, <2>2
<1>5. CASE ~SSLEnabled /\ NormalRead(c)
  <2>1. CASE inbox[c] # <<>>
    <3>1. Head(inbox[c]) \in Segment /\ Tail(inbox[c]) \in Seq(Segment)
        BY <1>2, <2>1
    <3>2. <<Head(inbox[c])>> \in Seq(Text)
        BY <3>1 DEF Text
    <3>3. message' \in Seq(Text)
        BY <1>3, <1>5, <2>1, <3>2, ReceivedType DEF NormalRead
    <3> QED BY <1>1, <1>2, <1>5, <2>1, <3>1, <3>3 DEF NormalRead
  <2>2. CASE inbox[c] = <<>>
      BY <1>1, <1>2, <1>3, <1>5, <2>2, ReceivedType DEF NormalRead
  <2> QED BY <2>1, <2>2
<1> QED BY <1>4, <1>5, ServerAssumption DEF Read

(* Reading changes no table.                                                *)
LEMMA ReadKeepsInv ==
    ASSUME ServerInv, Read
    PROVE  ServerInv'
<1> USE DEF ServerInv, TypeOK
<1>1. current # NoContext
    BY DEF Read, LoopTypeOK
<1>2. ConnectionTypeOK' /\ ThePool!PoolInv' /\ Connections'
    BY ConnectionsUnchanged DEF Read
<1>3. NoStaleEvent'
    BY DEF Read, poolVars, NoStaleEvent, EventsFresh, StillRegistered, CurrentInUse
<1> QED BY <1>1, <1>2, <1>3, CurrentHasPeer, ReadTypes

(* An answer touches no table.                                              *)
LEMMA HandleMessageEventEffect ==
    ASSUME HandleMessageEvent
    PROVE  /\ loop = "message"
           /\ UNCHANGED <<connectionVars, sent, finished, events, bufferDirty>>
           /\ UNCHANGED answered \/ WriteResponse(current)
           /\ \/ loop' = "idle" /\ current' = NoContext /\ message' = <<>>
              \/ /\ loop' = "close" /\ UNCHANGED <<current, message>>
                 /\ message # <<>> /\ SaysClose
BY DEF HandleMessageEvent, OnClientMessage, Handled

LEMMA HandleMessageEventKeepsInv ==
    ASSUME ServerInv, HandleMessageEvent
    PROVE  ServerInv'
<1> USE DEF ServerInv, TypeOK
<1>1. /\ loop = "message" /\ current # NoContext
      /\ UNCHANGED connectionVars /\ UNCHANGED <<sent, finished, events, bufferDirty>>
      /\ UNCHANGED answered \/ WriteResponse(current)
      /\ \/ loop' = "idle" /\ current' = NoContext /\ message' = <<>>
         \/ loop' = "close" /\ UNCHANGED <<current, message>>
    BY HandleMessageEventEffect DEF LoopTypeOK
<1>2. ConnectionTypeOK' /\ ThePool!PoolInv' /\ Connections'
    BY <1>1, ConnectionsUnchanged DEF connectionVars
<1>3. LoopTypeOK'
    BY <1>1, EmptySeq DEF LoopTypeOK
<1>4. answered' \in [Client -> Nat]
    BY <1>1 DEF WriteResponse, Write, ClientTypeOK
<1>5. ClientTypeOK'
    BY <1>1, <1>4 DEF connectionVars, ClientTypeOK
<1>6. EventsFresh'
    BY <1>1 DEF connectionVars, NoStaleEvent, EventsFresh, StillRegistered
<1>7. CurrentInUse'
    BY <1>1 DEF connectionVars, poolVars, NoStaleEvent, CurrentInUse
<1> QED BY <1>2, <1>3, <1>5, <1>6, <1>7 DEF NoStaleEvent

(* Closing on request disturbs no other event of the batch.                 *)
LEMMA CloseOnRequestKeepsInv ==
    ASSUME ServerInv, CloseOnRequest
    PROVE  ServerInv'
<1> USE DEF ServerInv, TypeOK
<1> DEFINE h == ctx[current].Handle
<1>1. /\ current # NoContext /\ HandleDisconnectionEvent(current)
      /\ UNCHANGED <<sent, finished, answered, events, bufferDirty>>
      /\ loop' = "idle" /\ current' = NoContext /\ message' = <<>>
    BY DEF CloseOnRequest, Handled, LoopTypeOK
<1>2. /\ current \in held /\ h \in Handle /\ knote[h] = current
      /\ \A i \in DOMAIN events : events[i].ident # h
    BY <1>1, CurrentHasPeer DEF NoStaleEvent, CurrentInUse
<1>3. LoopTypeOK'
    BY <1>1, EmptySeq DEF LoopTypeOK
<1>4. CurrentInUse'
    BY <1>1 DEF CurrentInUse
<1>5. /\ phase' \in [Client -> {"idle", "queued", "open", "gone"}]
      /\ inbox' \in [Client -> Seq(Segment)]
      /\ ConnectionTypeOK' /\ ThePool!PoolInv' /\ Connections'
      /\ \A k \in Handle : k # h => knote'[k] = knote[k]
    BY <1>1, <1>2, DisconnectKeepsConnections
<1>6. ClientTypeOK'
    BY <1>1, <1>5 DEF ClientTypeOK
<1>7. EventsFresh'
  <2>1. ASSUME NEW i \in DOMAIN events, events[i].ident # ServerHandle
        PROVE  knote'[events[i].ident] = knote[events[i].ident]
    <3>1. events[i] \in Notifications
        BY DEF LoopTypeOK
    <3>2. events[i].ident \in Handle
        BY <2>1, <3>1 DEF Notifications
    <3> QED BY <1>2, <1>5, <3>2
  <2> QED BY <1>1, <2>1 DEF NoStaleEvent, EventsFresh, StillRegistered
<1> QED BY <1>3, <1>4, <1>5, <1>6, <1>7 DEF NoStaleEvent

-----------------------------------------------------------------------------
(* Nothing is open, registered or allocated to a client to begin with.      *)
LEMMA InitEstablishesInv == Init => ServerInv
<1> SUFFICES ASSUME Init PROVE ServerInv
    OBVIOUS
<1>1. ThePool!PoolInv
    BY PoolAssumed, SameInit, ThePool!PoolInvInit DEF Init, ServerInit
<1>2. ClientTypeOK
    BY ServerAssumption, EmptySeq DEF Init, ClientsInit, ClientTypeOK
<1>3. ConnectionTypeOK
    BY <1>1, PoolTypes DEF Init, ServerInit, HttpServerInit, ConnectionTypeOK
<1>4. LoopTypeOK
    BY EngineAssumption, EmptySeq DEF Init, ServerInit, LoopInit, LoopTypeOK
<1>5. held = {}
    BY DEF Init, ServerInit, connectionsMemPool!Init
<1>6. Connections
    BY <1>5 DEF Init, ServerInit, HttpServerInit, Connections, RegistryMatchesKernel,
                Owned, TLSMatchesContext
<1>7. NoStaleEvent
    BY DEF Init, LoopInit, NoStaleEvent, EventsFresh, CurrentInUse
<1> QED BY <1>1, <1>2, <1>3, <1>4, <1>6, <1>7 DEF ServerInv, TypeOK

(***************************************************************************)
(* ServerInv holds in every reachable state.                               *)
(***************************************************************************)
THEOREM ServerInvariance == Spec => []ServerInv
<1>1. ASSUME ServerInv, [Next]_vars PROVE ServerInv'
  <2>1. CASE Environment
      BY <1>1, <2>1, EnvironmentKeepsInv DEF Environment
  <2>2. CASE GetFiredNotifications
      BY <1>1, <2>2, GetFiredNotificationsKeepsInv
  <2>3. CASE HandleServerEvent
      BY <1>1, <2>3, HandleServerEventKeepsInv
  <2>4. CASE HandleConnectionEvent
      BY <1>1, <2>4, HandleConnectionEventKeepsInv
  <2>5. CASE Read
      BY <1>1, <2>5, ReadKeepsInv
  <2>6. CASE HandleMessageEvent
      BY <1>1, <2>6, HandleMessageEventKeepsInv
  <2>7. CASE CloseOnRequest
      BY <1>1, <2>7, CloseOnRequestKeepsInv
  <2>8. CASE UNCHANGED vars
    <3>1. ConnectionTypeOK' /\ ThePool!PoolInv' /\ Connections'
        BY <1>1, <2>8, ConnectionsUnchanged DEF vars, ServerInv, TypeOK
    <3>2. ClientTypeOK' /\ LoopTypeOK' /\ NoStaleEvent'
        BY <1>1, <2>8
           DEF vars, clientVars, poolVars, loopVars, ServerInv, TypeOK, ClientTypeOK,
               LoopTypeOK, NoStaleEvent, EventsFresh, StillRegistered, CurrentInUse
    <3> QED BY <3>1, <3>2 DEF ServerInv, TypeOK
  <2> QED BY <1>1, <2>1, <2>2, <2>3, <2>4, <2>5, <2>6, <2>7, <2>8
          DEF Next, HandleConnections
<1> QED BY InitEstablishesInv, <1>1, PTL DEF Spec

(***************************************************************************)
(* The variables keep their types.                                         *)
(***************************************************************************)
THEOREM ServerTypeCorrect == Spec => []TypeOK
<1>1. ServerInv => TypeOK
    BY DEF ServerInv
<1> QED BY ServerInvariance, <1>1, PTL

(***************************************************************************)
(* The registry, the kernel's registrations and the open descriptors       *)
(* always agree.                                                           *)
(***************************************************************************)
THEOREM RegistryAlwaysMatches == Spec => []RegistryMatchesKernel
<1>1. ServerInv => RegistryMatchesKernel
    BY DEF ServerInv, Connections
<1> QED BY ServerInvariance, <1>1, PTL

(***************************************************************************)
(* The event loop never follows a pointer to a released context.           *)
(***************************************************************************)
THEOREM NeverStale == Spec => []NoStaleEvent
<1>1. ServerInv => NoStaleEvent
    BY DEF ServerInv
<1> QED BY ServerInvariance, <1>1, PTL

(***************************************************************************)
(* No context is lost but through a failed accept, and TLS objects live    *)
(* exactly as long as their contexts.                                      *)
(***************************************************************************)
THEOREM NeverLeaks == Spec => []NoContextLeak
<1>1. ASSUME ServerInv PROVE NoContextLeak
  <2> USE <1>1 DEF ServerInv, TypeOK, Connections
  <2>1. held \subseteq Context
      BY PoolTypes
  <2>2. ASSUME NEW x \in held, x \notin Phantoms
        PROVE  \E h \in Handle \ FreeHandles : knote[h] = x
    <3>1. ctx[x].Handle \in Handle /\ knote[ctx[x].Handle] = x /\ x # NoContext
        BY <2>1, <2>2, EngineAssumption DEF Phantoms, Owned, ConnectionTypeOK
    <3>2. ctx[x].Handle \notin FreeHandles
        BY <3>1 DEF FreeHandles, RegistryMatchesKernel
    <3> QED BY <3>1, <3>2
  <2>3. \A h \in Handle \ FreeHandles : knote[h] \in held
      BY DEF FreeHandles, RegistryMatchesKernel
  <2>4. Phantoms \subseteq held
      BY DEF Phantoms
  <2> QED BY <2>2, <2>3, <2>4 DEF NoContextLeak
<1> QED BY ServerInvariance, <1>1, PTL

-----------------------------------------------------------------------------
(***************************************************************************)
(* Every step of the server is, for the pool, a call it allows or a        *)
(* stutter: what is released is held.                                      *)
(***************************************************************************)
LEMMA ServerStepIsPoolStep ==
    ASSUME ServerInv, [Next]_vars
    PROVE  [connectionsMemPool!Next]_poolVars
<1>1. CASE HandleServerEvent
  <2>1. CASE \E x \in Context : connectionsMemPool!GetMemory(x)
      BY <2>1 DEF connectionsMemPool!Next
  <2>2. CASE connectionsMemPool!GetMemoryExhausted
      BY <2>2 DEF connectionsMemPool!GetMemoryExhausted, connectionsMemPool!poolVars, poolVars
  <2> QED BY <1>1, <2>1, <2>2 DEF HandleServerEvent, HandleNewConnectionEvent
<1>2. CASE CloseOnRequest
  <2>1. current \in held
      BY <1>2, CurrentHasPeer DEF CloseOnRequest, ServerInv, TypeOK, LoopTypeOK
  <2> QED BY <1>2, <2>1 DEF CloseOnRequest, HandleDisconnectionEvent, connectionsMemPool!Next
<1>3. CASE HandleConnectionEvent
  <2>1. events # <<>> /\ Head(events) \in Notifications
      BY <1>3, RestOfBatch DEF HandleConnectionEvent, HandleEvent, ServerInv, TypeOK
  <2>2. DigestEvent(Head(events)).Type # "Disconnect"
      BY <2>1 DEF DigestEvent, Notifications
  <2> QED BY <1>3, <2>2 DEF HandleConnectionEvent, connectionVars
<1>4. CASE GetFiredNotifications \/ Read \/ Environment \/ UNCHANGED vars
    BY <1>4 DEF GetFiredNotifications, Read, Environment, Connect, Send, Finish, vars
<1>5. CASE HandleMessageEvent
    BY <1>5 DEF HandleMessageEvent, connectionVars
<1> QED BY <1>1, <1>2, <1>3, <1>4, <1>5 DEF Next, HandleConnections

(***************************************************************************)
(* Every step of the server is one call of the pool, or none: a context is *)
(* given back once, and only while it is out.                              *)
(***************************************************************************)
THEOREM PoolDisciplineKept == Spec => PoolDiscipline
<1>1. ServerInv /\ [Next]_vars => [connectionsMemPool!Next]_(connectionsMemPool!poolVars)
    BY ServerStepIsPoolStep DEF connectionsMemPool!poolVars, poolVars
<1>2. Init => connectionsMemPool!Init
    BY DEF Init, ServerInit
<1> QED BY <1>1, <1>2, ServerInvariance, PTL DEF Spec, PoolDiscipline, connectionsMemPool!Spec
-----------------------------------------------------------------------------
(***************************************************************************)
(* When the loop is left.  Three facts beside ServerInv: an open client is *)
(* the peer of exactly one descriptor, the pool counts exactly what it     *)
(* owns, and the loop has been left with every block of it out.            *)
(***************************************************************************)
OpenMatches ==
    /\ \A c \in Client : phase[c] = "open" <=> \E h \in Handle : peer[h] = c
    /\ \A h, k \in Handle : peer[h] = peer[k] /\ peer[h] # NoClient => h = k

AllOut == loop = "died" => blocks = <<>> /\ allocated = MaxAlloc

LimitInv == OpenMatches /\ AllOut /\ ThePool!AllocatedIsExact

(* The two instances of the pool take the same steps.                       *)
LEMMA SamePoolNext ==
    [connectionsMemPool!Next]_poolVars <=> [ThePool!Next]_(ThePool!poolVars)
<1>1. connectionsMemPool!GetMemoryBadAlloc <=> ThePool!GetMemoryBadAlloc
    BY DEF connectionsMemPool!GetMemoryBadAlloc, ThePool!GetMemoryBadAlloc
<1>2. connectionsMemPool!GetMemoryExhausted <=> ThePool!GetMemoryExhausted
    BY DEF connectionsMemPool!GetMemoryExhausted, ThePool!GetMemoryExhausted,
           connectionsMemPool!Exhausted, ThePool!Exhausted,
           connectionsMemPool!poolVars, ThePool!poolVars
<1>3. (\E b \in Context : connectionsMemPool!GetMemory(b))
        <=> (\E b \in Context : ThePool!GetMemory(b))
    BY SameGetMemory
<1>4. (\E b \in held : connectionsMemPool!Release(b)) <=> (\E b \in held : ThePool!Release(b))
    BY SameRelease
<1>5. connectionsMemPool!Next <=> ThePool!Next
    BY <1>1, <1>2, <1>3, <1>4 DEF connectionsMemPool!Next, ThePool!Next
<1> QED BY <1>5 DEF ThePool!poolVars, poolVars

(* The counter of the pool stays exact, whatever the server does.           *)
LEMMA StepKeepsExact ==
    ASSUME ServerInv, LimitInv, [Next]_vars
    PROVE  ThePool!AllocatedIsExact'
<1>1. [ThePool!Next]_(ThePool!poolVars)
    BY ServerStepIsPoolStep, SamePoolNext
<1>2. ThePool!PoolInv /\ ThePool!AllocatedIsExact
    BY DEF ServerInv, LimitInv
<1> QED BY <1>1, <1>2, PoolAssumed, ThePool!PoolStepKeepsExact

(* A client becomes open with the one descriptor that accept gives it.      *)
LEMMA AcceptKeepsOpenMatches ==
    ASSUME ClientTypeOK, ConnectionTypeOK, OpenMatches,
           NEW x \in Context, NEW h \in Handle \union {BadHandle}, Accepted(x, h)
    PROVE  OpenMatches'
<1>1. CASE \E c \in Client : AcceptSucceeds(x, c, h)
  <2>1. PICK c \in Client : AcceptSucceeds(x, c, h)
      BY <1>1
  <2>2. /\ phase[c] = "queued" /\ h \in Handle /\ peer[h] = NoClient
        /\ c # NoClient
        /\ \A d \in Client : phase'[d] = IF d = c THEN "open" ELSE phase[d]
        /\ \A k \in Handle : peer'[k] = IF k = h THEN c ELSE peer[k]
      BY <2>1, ServerAssumption
         DEF AcceptSucceeds, Queued, FreeHandles, ClientTypeOK, ConnectionTypeOK
  <2>3. \A k \in Handle : peer[k] # c
      BY <2>2 DEF OpenMatches
  <2>4. ASSUME NEW d \in Client
        PROVE  phase'[d] = "open" <=> \E k \in Handle : peer'[k] = d
      BY <2>2, <2>3, ServerAssumption DEF OpenMatches
  <2>5. ASSUME NEW k \in Handle, NEW l \in Handle, peer'[k] = peer'[l], peer'[k] # NoClient
        PROVE  k = l
      BY <2>2, <2>3, <2>5 DEF OpenMatches
  <2> QED BY <2>4, <2>5 DEF OpenMatches
<1>2. CASE h = BadHandle /\ AcceptFails(x)
    BY <1>2 DEF AcceptFails, OpenMatches
<1> QED BY <1>1, <1>2 DEF Accepted

(* A client that is disconnected is behind no other descriptor.             *)
LEMMA DisconnectKeepsOpenMatches ==
    ASSUME ClientTypeOK, ConnectionTypeOK, OpenMatches,
           NEW x, ctx[x].Handle \in Handle, peer[ctx[x].Handle] \in Client,
           HandleDisconnectionEvent(x)
    PROVE  OpenMatches'
<1> DEFINE h == ctx[x].Handle
           c == peer[h]
<1>1. /\ \A d \in Client : phase'[d] = IF d = c THEN "gone" ELSE phase[d]
      /\ \A k \in Handle : peer'[k] = IF k = h THEN NoClient ELSE peer[k]
    BY DEF HandleDisconnectionEvent, DisposeConnection, ClientTypeOK, ConnectionTypeOK
<1>2. ASSUME NEW d \in Client
      PROVE  phase'[d] = "open" <=> \E k \in Handle : peer'[k] = d
    BY <1>1, ServerAssumption DEF OpenMatches
<1>3. ASSUME NEW k \in Handle, NEW l \in Handle, peer'[k] = peer'[l], peer'[k] # NoClient
      PROVE  k = l
    BY <1>1, <1>3 DEF OpenMatches
<1> QED BY <1>2, <1>3 DEF OpenMatches

(* Every step keeps the matching of clients and descriptors.                *)
LEMMA StepKeepsOpenMatches ==
    ASSUME ServerInv, OpenMatches, [Next]_vars
    PROVE  OpenMatches'
<1> USE DEF ServerInv, TypeOK
<1>1. CASE HandleServerEvent
    BY <1>1, AcceptKeepsOpenMatches
       DEF HandleServerEvent, HandleNewConnectionEvent, Accepted, OpenMatches
<1>2. CASE CloseOnRequest
  <2>1. current # NoContext /\ HandleDisconnectionEvent(current)
      BY <1>2 DEF CloseOnRequest, LoopTypeOK
  <2> QED BY <2>1, CurrentHasPeer, DisconnectKeepsOpenMatches
<1>3. CASE HandleConnectionEvent
  <2>1. events # <<>> /\ Head(events) \in Notifications
      BY <1>3, RestOfBatch DEF HandleConnectionEvent, HandleEvent
  <2>2. DigestEvent(Head(events)).Type # "Disconnect"
      BY <2>1 DEF DigestEvent, Notifications
  <2> QED BY <1>3, <2>2 DEF HandleConnectionEvent, connectionVars, OpenMatches
<1>4. CASE \E c \in Client : Connect(c)
  <2>1. PICK c \in Client : Connect(c)
      BY <1>4
  <2>2. /\ UNCHANGED peer /\ phase[c] # "open"
        /\ \A d \in Client : phase'[d] = IF d = c THEN "queued" ELSE phase[d]
      BY <2>1 DEF Connect, ClientTypeOK
  <2> QED BY <2>2 DEF OpenMatches
<1>5. CASE \E c \in Client : Send(c) \/ Finish(c)
    BY <1>5 DEF Send, Finish, OpenMatches
<1>6. CASE GetFiredNotifications \/ Read \/ HandleMessageEvent \/ UNCHANGED vars
    BY <1>6 DEF GetFiredNotifications, Read, HandleMessageEvent, connectionVars, vars,
                clientVars, OpenMatches
<1> QED BY <1>1, <1>2, <1>3, <1>4, <1>5, <1>6 DEF Next, HandleConnections, Environment

(* The loop is left only by an allocation from a pool whose blocks are out, *)
(* and the pool is not called afterwards.                                   *)
LEMMA StepKeepsAllOut ==
    ASSUME ServerInv, AllOut, [Next]_vars
    PROVE  AllOut'
<1>1. CASE loop = "died"
  <2>1. UNCHANGED <<loop, poolVars>>
      BY <1>1 DEF Next, HandleConnections, GetFiredNotifications, HandleServerEvent,
                  HandleConnectionEvent, HandleEvent, Read, HandleMessageEvent,
                  CloseOnRequest, Environment, Connect, Send, Finish, loopVars, vars
  <2> QED BY <2>1 DEF AllOut, poolVars
<1>2. CASE loop # "died" /\ loop' = "died"
  <2>1. HandleServerEvent
    <3>1. ~CloseOnRequest /\ ~GetFiredNotifications /\ ~UNCHANGED vars
        BY <1>2 DEF CloseOnRequest, Handled, GetFiredNotifications, vars, loopVars
    <3>2. ~HandleConnectionEvent
        BY <1>2 DEF HandleConnectionEvent
    <3>3. ~Read
        BY <1>2 DEF Read, SecureRead, NormalRead
    <3>4. ~Environment
        BY <1>2 DEF Environment, Connect, Send, Finish, loopVars
    <3>5. ~HandleMessageEvent
        BY <1>2, HandleMessageEventEffect
    <3> QED BY <3>1, <3>2, <3>3, <3>4, <3>5 DEF Next, HandleConnections
  <2>2. connectionsMemPool!GetMemoryExhausted
      BY <1>2, <2>1 DEF HandleServerEvent, HandleNewConnectionEvent
  <2>3. blocks = <<>> /\ allocated >= MaxAlloc /\ UNCHANGED <<blocks, allocated>>
      BY <2>2 DEF connectionsMemPool!GetMemoryExhausted, connectionsMemPool!Exhausted,
                  connectionsMemPool!poolVars
  <2>4. allocated \in Nat /\ allocated <= MaxAlloc
      BY ServerAssumption DEF ServerInv, ThePool!PoolInv, ThePool!TypeOK
  <2> QED BY <2>3, <2>4, ServerAssumption DEF AllOut
<1>3. CASE loop' # "died"
    BY <1>3 DEF AllOut
<1> QED BY <1>1, <1>2, <1>3

(***************************************************************************)
(* LimitInv holds in every reachable state.                                *)
(***************************************************************************)
THEOREM LimitInvariance == Spec => []LimitInv
<1>1. Init => LimitInv
  <2> SUFFICES ASSUME Init PROVE LimitInv
      OBVIOUS
  <2>1. OpenMatches
      BY ServerAssumption DEF Init, ClientsInit, ServerInit, OpenMatches
  <2>2. AllOut
      BY DEF Init, LoopInit, AllOut
  <2>3. ThePool!Init
      BY SameInit DEF Init, ServerInit
  <2>4. ThePool!AllocatedIsExact
      BY <2>3, PoolAssumed, ThePool!InitExact
  <2> QED BY <2>1, <2>2, <2>4 DEF LimitInv
<1>2. ServerInv /\ LimitInv /\ [Next]_vars => LimitInv'
    BY StepKeepsOpenMatches, StepKeepsAllOut, StepKeepsExact DEF LimitInv
<1> QED BY <1>1, <1>2, ServerInvariance, PTL DEF Spec

(* The contexts of connections and the open clients are as many: each of   *)
(* the former names a descriptor, and through it one of the latter.        *)
LEMMA AsManyOpen ==
    ASSUME ServerInv, OpenMatches
    PROVE  Cardinality({c \in Client : phase[c] = "open"}) = Cardinality(held \ Phantoms)
<1> USE DEF ServerInv, TypeOK, Connections
<1> DEFINE S == held \ Phantoms
           T == {c \in Client : phase[c] = "open"}
           f == [x \in S |-> peer[ctx[x].Handle]]
<1>1. held \subseteq Context /\ IsFiniteSet(held)
    BY PoolTypes DEF ThePool!PoolInv, ThePool!TypeOK, ThePool!IsFiniteSet, IsFiniteSet
<1>2. ASSUME NEW x \in S
      PROVE  /\ ctx[x].Handle \in Handle /\ knote[ctx[x].Handle] = x
             /\ peer[ctx[x].Handle] \in Client
  <2>1. ctx[x].Handle \in Handle /\ knote[ctx[x].Handle] = x /\ x # NoContext
      BY <1>1, EngineAssumption DEF Phantoms, Owned, ConnectionTypeOK
  <2> QED BY <2>1 DEF RegistryMatchesKernel, ConnectionTypeOK
<1>3. f \in [S -> T]
    BY <1>2 DEF OpenMatches
<1>4. ASSUME NEW x \in S, NEW y \in S, f[x] = f[y]
      PROVE  x = y
    BY <1>2, <1>4, ServerAssumption DEF OpenMatches
<1>5. ASSUME NEW c \in T
      PROVE  \E x \in S : f[x] = c
  <2>1. PICK h \in Handle : peer[h] = c
      BY DEF OpenMatches
  <2>2. knote[h] \in held /\ ctx[knote[h]].Handle = h
      BY <2>1, ServerAssumption DEF RegistryMatchesKernel
  <2>3. knote[h] \in S
      BY <2>2, BadHandleIsNone DEF Phantoms
  <2> QED BY <2>1, <2>2, <2>3
<1>6. f \in Bijection(S, T)
    BY <1>3, <1>4, <1>5 DEF Bijection, Injection, Surjection, IsInjective
<1>7. IsFiniteSet(S)
    BY <1>1, FS_Subset
<1> QED BY <1>6, <1>7, FS_Bijection DEF ExistsBijection

(***************************************************************************)
(* The loop is left only when MaxAlloc connections and failed accepts are  *)
(* there at once.                                                          *)
(***************************************************************************)
THEOREM DeathOnlyAtLimit == Spec => []DiesOnlyAtLimit
<1>1. ASSUME ServerInv, LimitInv PROVE DiesOnlyAtLimit
  <2> SUFFICES ASSUME loop = "died"
               PROVE  Cardinality({c \in Client : phase[c] = "open"})
                        + Cardinality(Phantoms) = MaxAlloc
      BY DEF DiesOnlyAtLimit
  <2>1. Cardinality({c \in Client : phase[c] = "open"}) = Cardinality(held \ Phantoms)
      BY <1>1, AsManyOpen DEF LimitInv
  <2>2. IsFiniteSet(held) /\ held \cap Phantoms = Phantoms
      BY <1>1 DEF ServerInv, ThePool!PoolInv, ThePool!TypeOK, ThePool!IsFiniteSet,
                  IsFiniteSet, Phantoms
  <2>3. Cardinality(held \ Phantoms) = Cardinality(held) - Cardinality(Phantoms)
      BY <2>2, FS_Difference
  <2>4. IsFiniteSet(Phantoms) /\ Cardinality(held) \in Nat /\ Cardinality(Phantoms) \in Nat
      BY <2>2, FS_Subset, FS_CardinalityType DEF Phantoms
  <2>5. allocated = Len(blocks) + Cardinality(held)
      BY <1>1 DEF LimitInv, ThePool!AllocatedIsExact, ThePool!Cardinality, Cardinality,
                  ThePool!IsFiniteSet, IsFiniteSet
  <2>6. Cardinality(held) = MaxAlloc
      BY <1>1, <2>4, <2>5, ServerAssumption DEF LimitInv, AllOut
  <2> QED BY <2>1, <2>3, <2>4, <2>6
<1> QED BY <1>1, ServerInvariance, LimitInvariance, PTL

-----------------------------------------------------------------------------
(***************************************************************************)
(* Now Shutdown.  After Terminate the events of a batch may name contexts  *)
(* that were released, so NoStaleEvent, on which ServerInv rests, is lost. *)
(* ShutdownInv has what is left of it: what is current has a descriptor by *)
(* the time a message was read.  Releasing it is right only if it is held, *)
(* and from a step where it was not nothing is claimed but that the        *)
(* registry and the kernel still agree.                                    *)
(***************************************************************************)
(* The entry a failed accept leaves under -1 is a context nobody has given  *)
(* back.                                                                    *)
PhantomEntry ==
    connections[BadHandle] # NoContext =>
        /\ connections[BadHandle] \in held
        /\ ctx[connections[BadHandle]].Handle = BadHandle

Fine ==
    /\ ThePool!PoolInv
    /\ ThePool!AllocatedIsExact
    /\ Owned
    /\ TLSMatchesContext
    /\ PhantomEntry

EventsNamed == \A i \in DOMAIN events : events[i].ident # ServerHandle => events[i].udata # NoContext

MessageFromOpen == message # <<>> => current # NoContext /\ ctx[current].Handle \in Handle

(* Only a request that asks for it has its connection closed.               *)
CloseIsAsked == loop = "close" => message # <<>> /\ SaysClose

(* Before the first connection there is nothing Terminate could start from. *)
NobodyYet ==
    lastConnection = NoContext =>
        /\ held = {}
        /\ loop = "idle"
        /\ \A i \in DOMAIN events : events[i].ident = ServerHandle

(* What the walk has passed is closed.                                      *)
Cleared(index) ==
    \A h \in Handle : peer[h] # NoClient =>
        h <= index \/ h > U32(ctx[lastConnection].Handle) \/ h < ServerHandle

Walking ==
    /\ walk # Off => outcome = "fine" /\ lastConnection # NoContext
    /\ walk \notin {Off, Done} => Cleared(walk)
    /\ TerminateClosesUpToLast

InBacklog ==
    /\ backlog \in Seq(Client)
    /\ IsInjective(backlog)
    /\ ToSet(backlog) = Queued

ServerCore ==
    /\ TypeOK
    /\ lastConnection \in Context \union {NoContext}
    /\ walk \in {Off, Done} \union 0 .. Top
    /\ outcome \in {"fine", "spoilt", "crashed"}
    /\ RegistryMatchesKernel
    /\ outcome = "fine" => Fine
    /\ EventsNamed
    /\ MessageFromOpen
    /\ CloseIsAsked
    /\ NobodyYet
    /\ Walking

ShutdownInv == ServerCore /\ InBacklog

-----------------------------------------------------------------------------
(* The key of -1 is above all descriptors.                                  *)
LEMMA TopIsHighest ==
    /\ Top \in Nat /\ ServerHandle < Top /\ \A h \in Handle : h < Top
    /\ \A h \in Handle \union {BadHandle} : U32(h) \in Handle \union {Top} /\ U32(h) \in 0 .. Top
<1> DEFINE S == Handle \union {ServerHandle}
<1>1. S \in SUBSET Int /\ S \subseteq Nat /\ IsFiniteSet(S) /\ S # {}
    BY EngineAssumption, FS_AddElement
<1>2. PICK m \in S : \A y \in S : y <= m
    BY <1>1, GreatestNumber
<1>3. Max(S) \in S /\ \A y \in S : Max(S) >= y
    BY <1>1, <1>2 DEF Max
<1>4. Top \in Nat /\ ServerHandle < Top /\ \A h \in Handle : h < Top
    BY <1>1, <1>3 DEF Top
<1> QED BY <1>1, <1>4 DEF U32

(***************************************************************************)
(* The backlog lists the clients that are queued.  One leaves from its     *)
(* head, and those that come are added at its end.                         *)
(***************************************************************************)
LEMMA BacklogKept ==
    ASSUME InBacklog, InOrder, IsFiniteSet(Queued' \ Queued)
    PROVE  InBacklog'
<1> DEFINE waiting == IF backlog # <<>> /\ phase'[Head(backlog)] # "queued"
                      THEN Tail(backlog) ELSE backlog
           coming == SetToSeq(Queued' \ Queued)
<1>1. backlog' = waiting \o coming
    BY DEF InOrder
<1>2. /\ backlog \in Seq(Client) /\ IsInjective(backlog) /\ ToSet(backlog) = Queued
    BY DEF InBacklog
<1>3. \A c \in Queued : phase'[c] # "queued" => c = Head(backlog)
    BY DEF InOrder
<1>4. /\ \A c \in Queued : c \in Queued' <=> phase'[c] = "queued"
      /\ Queued' \subseteq Client
    BY DEF Queued
<1>5. /\ waiting \in Seq(Client) /\ IsInjective(waiting)
      /\ ToSet(waiting) = Queued \cap Queued'
  <2>1. CASE backlog # <<>> /\ phase'[Head(backlog)] # "queued"
    <3>1. /\ Head(backlog) \in Queued /\ Tail(backlog) \in Seq(Client)
          /\ ToSet(Tail(backlog)) = Queued \ {Head(backlog)} /\ IsInjective(Tail(backlog))
        BY <1>2, <2>1, DequeueProperties
    <3>2. Queued \cap Queued' = Queued \ {Head(backlog)}
        BY <1>3, <1>4, <2>1, <3>1
    <3> QED BY <2>1, <3>1, <3>2
  <2>2. CASE backlog = <<>>
    <3>1. Queued = {}
        BY <1>2, <2>2 DEF ToSet
    <3> QED BY <1>2, <2>2, <3>1
  <2>3. CASE backlog # <<>> /\ phase'[Head(backlog)] = "queued"
      BY <1>2, <1>3, <1>4, <2>3
  <2> QED BY <2>1, <2>2, <2>3
<1>6. /\ coming \in Seq(Client) /\ IsInjective(coming)
      /\ ToSet(coming) = Queued' \ Queued
  <2>1. /\ coming \in Seq(Queued' \ Queued) /\ IsInjective(coming)
        /\ ToSet(coming) = Queued' \ Queued
      BY SetToSeqProperties
  <2>2. Queued' \ Queued \subseteq Client
      BY <1>4
  <2> HIDE DEF coming
  <2>3. coming \in Seq(Client)
      BY <2>1, <2>2
  <2> QED BY <2>1, <2>3
<1> HIDE DEF waiting, coming
<1>7. ToSet(waiting) \cap ToSet(coming) = {}
    BY <1>5, <1>6
<1>8. /\ waiting \o coming \in Seq(Client) /\ IsInjective(waiting \o coming)
      /\ ToSet(waiting \o coming) = ToSet(waiting) \union ToSet(coming)
    BY <1>5, <1>6, <1>7, JoinProperties
<1>9. ToSet(waiting \o coming) = Queued'
    BY <1>5, <1>6, <1>8
<1> QED BY <1>1, <1>8, <1>9 DEF InBacklog
-----------------------------------------------------------------------------
(***************************************************************************)
(* Fine, the part of the invariant that holds until a context is released  *)
(* twice, step by step.                                                    *)
(***************************************************************************)
(* The pool's counter stays exact when a context is allocated               *)
LEMMA ExactWhenGot ==
    ASSUME ThePool!PoolInv, ThePool!AllocatedIsExact,
           NEW x \in Context, connectionsMemPool!GetMemory(x)
    PROVE  ThePool!AllocatedIsExact'
BY PoolAssumed, SameGetMemory, ThePool!PoolStepKeepsExact DEF ThePool!Next

(* and when one is given back.                                              *)
LEMMA ExactWhenReleased ==
    ASSUME ThePool!PoolInv, ThePool!AllocatedIsExact,
           NEW x \in held, connectionsMemPool!Release(x)
    PROVE  ThePool!AllocatedIsExact'
BY PoolAssumed, SameRelease, ThePool!PoolStepKeepsExact DEF ThePool!Next

(* A step that touches none of it keeps it.                                 *)
LEMMA FineUnchanged ==
    ASSUME ConnectionTypeOK, RegistryMatchesKernel,
           UNCHANGED <<peer, knote, poolVars, ctx, connections>>
    PROVE  ConnectionTypeOK' /\ RegistryMatchesKernel' /\ (Fine => Fine')
<1>1. UNCHANGED <<blocks, allocated, held>>
    BY DEF poolVars
<1>2. ConnectionTypeOK'
    BY <1>1 DEF ConnectionTypeOK, connectionsMemPool!TypeOK
<1>3. RegistryMatchesKernel'
    BY <1>1 DEF RegistryMatchesKernel
<1>4. ASSUME Fine PROVE Fine'
  <2>1. ThePool!PoolInv'
      BY <1>4, PoolUnchanged DEF Fine
  <2>2. ThePool!AllocatedIsExact'
      BY <1>1, <1>4 DEF Fine, ThePool!AllocatedIsExact
  <2>3. Owned' /\ TLSMatchesContext' /\ PhantomEntry'
      BY <1>1, <1>4 DEF Fine, Owned, TLSMatchesContext, PhantomEntry
  <2> QED BY <2>1, <2>2, <2>3 DEF Fine
<1> QED BY <1>2, <1>3, <1>4

(* What was asked for is still asked for while the request is kept.         *)
LEMMA CloseStaysAsked ==
    ASSUME CloseIsAsked, loop' # "close" \/ UNCHANGED <<loop, message>>
    PROVE  CloseIsAsked'
<1>1. CASE loop' # "close"
    BY <1>1 DEF CloseIsAsked
<1>2. CASE UNCHANGED <<loop, message>>
    BY <1>2 DEF CloseIsAsked, SaysClose, GetHeaderConnection
<1> QED BY <1>1, <1>2

(* A registered context is disposed of: its descriptor is closed, and the   *)
(* memory of no context forgets its descriptor.                             *)
LEMMA DisposeKeepsFine ==
    ASSUME ClientTypeOK, ConnectionTypeOK, RegistryMatchesKernel, Fine,
           NEW x \in held, ctx[x].Handle \in Handle, knote[ctx[x].Handle] = x,
           HandleDisconnectionEvent(x)
    PROVE  /\ phase' \in [Client -> {"idle", "queued", "open", "gone"}]
           /\ inbox' \in [Client -> Seq(Segment)]
           /\ ConnectionTypeOK' /\ RegistryMatchesKernel' /\ Fine'
           /\ held' \subseteq held
           /\ \A y \in Context : ctx'[y].Handle = ctx[y].Handle
           /\ \A k \in Handle : peer'[k] = IF k = ctx[x].Handle THEN NoClient ELSE peer[k]
<1> USE BadHandleIsNone
<1> DEFINE h == ctx[x].Handle
<1>1. ThePool!PoolInv /\ Connections
    BY DEF Fine, Connections
<1>2. /\ phase' \in [Client -> {"idle", "queued", "open", "gone"}]
      /\ inbox' \in [Client -> Seq(Segment)]
      /\ ConnectionTypeOK' /\ ThePool!PoolInv' /\ Connections'
    BY <1>1, DisconnectKeepsConnections
<1>3. connectionsMemPool!Release(x) /\ held' = held \ {x} /\ x \in Context
    BY <1>1, ReleaseEffect, PoolTypes DEF HandleDisconnectionEvent
<1>4. ThePool!AllocatedIsExact'
    BY <1>1, <1>3, ExactWhenReleased DEF Fine
<1>5. ASSUME NEW y \in Context PROVE ctx'[y].Handle = ctx[y].Handle
    BY <1>3 DEF HandleDisconnectionEvent, DisposeConnection, ConnectionTypeOK
<1>6. \A k \in Handle : peer'[k] = IF k = h THEN NoClient ELSE peer[k]
    BY DEF HandleDisconnectionEvent, DisposeConnection, ConnectionTypeOK
<1>7. connections'[BadHandle] = connections[BadHandle]
    BY DEF HandleDisconnectionEvent, OnClientDisconnected, ConnectionTypeOK
<1>8. PhantomEntry'
  <2> SUFFICES ASSUME connections'[BadHandle] # NoContext
               PROVE  /\ connections'[BadHandle] \in held'
                      /\ ctx'[connections'[BadHandle]].Handle = BadHandle
      BY DEF PhantomEntry
  <2> DEFINE y == connections[BadHandle]
  <2>1. y \in held /\ y \in Context /\ ctx[y].Handle = BadHandle
      BY <1>1, <1>7, PoolTypes DEF Fine, PhantomEntry
  <2>2. y # x
      BY <2>1
  <2> QED BY <1>3, <1>5, <1>7, <2>1, <2>2
<1> QED BY <1>2, <1>3, <1>4, <1>5, <1>6, <1>8 DEF Fine, Connections

(* What a failed accept left is disposed of: it had no descriptor.          *)
LEMMA DisposePhantomKeepsFine ==
    ASSUME ConnectionTypeOK, RegistryMatchesKernel, Fine,
           NEW x \in held, ctx[x].Handle = BadHandle, DisposePhantom(x)
    PROVE  /\ ConnectionTypeOK' /\ RegistryMatchesKernel' /\ Fine'
           /\ held' \subseteq held
           /\ \A y \in Context : ctx'[y].Handle = ctx[y].Handle
<1> USE BadHandleIsNone
<1>1. ThePool!PoolInv /\ held \subseteq Context /\ connectionsMemPool!Release(x)
    BY PoolTypes DEF Fine, DisposePhantom
<1>2. ThePool!PoolInv' /\ held' = held \ {x} /\ ThePool!AllocatedIsExact'
    BY <1>1, ReleaseEffect, ExactWhenReleased DEF Fine
<1>3. connectionsMemPool!TypeOK'
    BY <1>2, PoolTypesNext
<1>4. /\ ctx' \in [Context -> [Handle : Handle \union {BadHandle}, TLS : BOOLEAN]]
      /\ \A y \in Context : ctx'[y].Handle = ctx[y].Handle
      /\ \A y \in Context : ctx'[y].TLS = IF y = x THEN FALSE ELSE ctx[y].TLS
    BY <1>1 DEF DisposePhantom, ConnectionTypeOK
<1>5. /\ connections' \in [Handle \union {BadHandle} -> Context \union {NoContext}]
      /\ connections'[BadHandle] = NoContext
      /\ \A k \in Handle : connections'[k] = connections[k]
    BY <1>1 DEF DisposePhantom, OnClientDisconnected, ConnectionTypeOK
<1>6. UNCHANGED <<peer, knote>>
    BY DEF DisposePhantom
<1>7. ConnectionTypeOK'
    BY <1>3, <1>4, <1>5, <1>6 DEF ConnectionTypeOK
<1>8. RegistryMatchesKernel'
  <2>1. ASSUME NEW k \in Handle, knote[k] # NoContext
        PROVE  knote[k] \in held \ {x} /\ knote[k] \in Context /\ ctx[knote[k]].Handle = k
      BY <1>1, <2>1 DEF RegistryMatchesKernel
  <2> QED BY <1>2, <1>4, <1>5, <1>6, <2>1 DEF RegistryMatchesKernel
<1>9. Owned'
    BY <1>1, <1>2, <1>4, <1>6 DEF Fine, Owned
<1>10. TLSMatchesContext'
    BY <1>1, <1>2, <1>4 DEF Fine, TLSMatchesContext
<1>11. PhantomEntry'
    BY <1>5 DEF PhantomEntry
<1> QED BY <1>2, <1>4, <1>7, <1>8, <1>9, <1>10, <1>11 DEF Fine

(* A connection that is accepted, or an accept that fails, with its entry.  *)
LEMMA AcceptKeepsFine ==
    ASSUME ClientTypeOK, ConnectionTypeOK, RegistryMatchesKernel, Fine,
           NEW x \in Context, NEW h \in Handle \union {BadHandle},
           connectionsMemPool!GetMemory(x), Accepted(x, h),
           OnClientConnected(x, h), RegisterEvent(h, "Add", x)
    PROVE  /\ phase' \in [Client -> {"idle", "queued", "open", "gone"}]
           /\ ConnectionTypeOK' /\ RegistryMatchesKernel' /\ Fine'
           /\ x \notin held /\ held' = held \union {x}
<1> USE BadHandleIsNone
<1>1. ThePool!PoolInv /\ Connections /\ held \subseteq Context
    BY PoolTypes DEF Fine, Connections
<1>2. /\ phase' \in [Client -> {"idle", "queued", "open", "gone"}]
      /\ ConnectionTypeOK' /\ ThePool!PoolInv' /\ Connections'
      /\ \A y \in held : ctx'[y] = ctx[y]
    BY <1>1, AcceptKeepsConnections
<1>3. x \notin held /\ held' = held \union {x}
    BY <1>1, GetMemoryEffect
<1>4. ThePool!AllocatedIsExact'
    BY <1>1, ExactWhenGot DEF Fine
<1>5. /\ connections'[h] = x
      /\ h # BadHandle => connections'[BadHandle] = connections[BadHandle]
    BY DEF OnClientConnected, ConnectionTypeOK
<1>6. ctx'[x].Handle = h
    BY DEF Accepted, AcceptSucceeds, AcceptFails, ConnectionTypeOK
<1>7. PhantomEntry'
  <2>1. CASE h = BadHandle
      BY <1>3, <1>5, <1>6, <2>1 DEF PhantomEntry
  <2>2. CASE h # BadHandle
      BY <1>2, <1>3, <1>5, <2>2 DEF Fine, PhantomEntry
  <2> QED BY <2>1, <2>2
<1> QED BY <1>2, <1>3, <1>4, <1>7 DEF Fine, Connections
-----------------------------------------------------------------------------
(***************************************************************************)
(* Terminate, turn by turn.                                                *)
(***************************************************************************)
(* The walk starts at the last connection, of which there is one.           *)
LEMMA TerminateKeepsCore ==
    ASSUME ServerCore, Terminate
    PROVE  ServerCore' /\ Queued' = Queued
<1> USE DEF ServerCore
<1> DEFINE top == U32(ctx[lastConnection].Handle)
<1>1. UNCHANGED <<vars, lastConnection, outcome>> /\ outcome = "fine" /\ walk' = top
    BY DEF Terminate
<1>2. loop # "idle"
    BY DEF Terminate, MayTerminate
<1>3. lastConnection # NoContext /\ lastConnection \in Context
    BY <1>2 DEF NobodyYet
<1>4. top \in Handle \union {Top} /\ top \in 0 .. Top /\ walk' \notin {Off, Done}
    BY <1>1, <1>3, TopIsHighest DEF TypeOK, ConnectionTypeOK, Off, Done
<1>5. UNCHANGED <<clientVars, peer, knote, poolVars, ctx, connections, loopVars>>
    BY <1>1 DEF vars
<1>6. TypeOK'
    BY <1>5, FineUnchanged
       DEF TypeOK, ClientTypeOK, LoopTypeOK, clientVars, loopVars
<1>7. RegistryMatchesKernel' /\ (outcome' = "fine" => Fine')
    BY <1>1, <1>5, FineUnchanged DEF TypeOK
<1>8. EventsNamed' /\ MessageFromOpen' /\ NobodyYet'
    BY <1>1, <1>3, <1>5 DEF EventsNamed, MessageFromOpen, NobodyYet, loopVars
<1>9. Cleared(walk)'
  <2>1. \A h \in Handle : h <= top \/ h > top
      BY <1>4, TopIsHighest, EngineAssumption
  <2> QED BY <1>1, <1>5, <2>1 DEF Cleared
<1>10. Walking'
    BY <1>1, <1>3, <1>4, <1>9 DEF Walking, TerminateClosesUpToLast
<1>11. CloseIsAsked'
    BY <1>5, CloseStaysAsked DEF loopVars
<1> QED BY <1>1, <1>4, <1>5, <1>6, <1>7, <1>8, <1>10, <1>11 DEF Queued, clientVars

(* Each number of the walk is closed if it is a connection's.               *)
LEMMA TerminateNextKeepsCore ==
    ASSUME ServerCore, TerminateNext
    PROVE  ServerCore' /\ Queued' \subseteq Queued
<1> USE DEF ServerCore
<1> DEFINE x == Found(walk)
<1>1. /\ walk > ServerHandle /\ walk \in 0 .. Top /\ walk' = walk - 1
      /\ walk \notin {Off, Done} /\ walk' \in 0 .. Top /\ walk' \notin {Off, Done}
      /\ UNCHANGED <<sent, finished, answered, loopVars, lastConnection, outcome>>
    BY EngineAssumption, TopIsHighest DEF TerminateNext, Off, Done
<1>2. outcome = "fine" /\ Fine /\ lastConnection \in Context /\ held \subseteq Context
    BY <1>1, PoolTypes DEF Walking, Fine
<1>3. /\ phase' \in [Client -> {"idle", "queued", "open", "gone"}]
      /\ inbox' \in [Client -> Seq(Segment)]
      /\ ConnectionTypeOK' /\ RegistryMatchesKernel' /\ Fine'
      /\ Queued' \subseteq Queued
      /\ \A y \in Context : ctx'[y].Handle = ctx[y].Handle
      /\ \A k \in Handle : peer'[k] # NoClient => peer[k] # NoClient /\ k # walk
  <2>1. CASE x = NoContext
    <3>1. UNCHANGED connectionVars
        BY <2>1 DEF TerminateNext
    <3>2. ConnectionTypeOK' /\ RegistryMatchesKernel' /\ Fine'
        BY <1>2, <3>1, FineUnchanged DEF connectionVars, TypeOK
    <3>3. ASSUME walk \in Handle PROVE peer[walk] = NoClient
      <4>1. walk # Top
          BY <3>3, TopIsHighest, EngineAssumption
      <4>2. connections[walk] = NoContext
          BY <2>1, <3>3, <4>1 DEF Found
      <4> QED BY <3>3, <4>2 DEF RegistryMatchesKernel
    <3> QED BY <3>1, <3>2, <3>3 DEF connectionVars, TypeOK, ClientTypeOK, Queued
  <2>2. CASE x # NoContext /\ walk = Top
    <3>1. x = connections[BadHandle] /\ DisposePhantom(x)
        BY <2>2 DEF TerminateNext, Found
    <3>2. x \in held /\ ctx[x].Handle = BadHandle
        BY <1>2, <2>2, <3>1 DEF Fine, PhantomEntry
    <3>3. /\ ConnectionTypeOK' /\ RegistryMatchesKernel' /\ Fine'
          /\ \A y \in Context : ctx'[y].Handle = ctx[y].Handle
        BY <1>2, <3>1, <3>2, DisposePhantomKeepsFine DEF TypeOK
    <3>4. UNCHANGED <<phase, inbox, peer>> /\ \A k \in Handle : k # walk
        BY <2>2, <3>1, TopIsHighest, EngineAssumption DEF DisposePhantom
    <3> QED BY <3>3, <3>4 DEF TypeOK, ClientTypeOK, Queued
  <2>3. CASE x # NoContext /\ walk # Top
    <3>1. walk \in Handle /\ x = connections[walk] /\ HandleDisconnectionEvent(x)
        BY <2>3 DEF TerminateNext, Found
    <3>2. x \in held /\ ctx[x].Handle = walk /\ knote[walk] = x /\ peer[walk] \in Client
        BY <2>3, <3>1 DEF RegistryMatchesKernel, TypeOK, ConnectionTypeOK
    <3>3. /\ phase' \in [Client -> {"idle", "queued", "open", "gone"}]
          /\ inbox' \in [Client -> Seq(Segment)]
          /\ ConnectionTypeOK' /\ RegistryMatchesKernel' /\ Fine'
          /\ \A y \in Context : ctx'[y].Handle = ctx[y].Handle
          /\ \A k \in Handle : peer'[k] = IF k = walk THEN NoClient ELSE peer[k]
        BY <1>2, <3>1, <3>2, DisposeKeepsFine DEF TypeOK
    <3>4. Queued' \subseteq Queued
        BY <3>1 DEF HandleDisconnectionEvent, DisposeConnection, Queued, TypeOK, ClientTypeOK
    <3> QED BY <3>3, <3>4
  <2> QED BY <2>1, <2>2, <2>3
<1>4. TypeOK'
    BY <1>1, <1>3 DEF TypeOK, ClientTypeOK, LoopTypeOK, loopVars
<1>5. EventsNamed' /\ NobodyYet'
    BY <1>1, <1>2, EngineAssumption DEF EventsNamed, NobodyYet, loopVars
<1>6. MessageFromOpen'
    BY <1>1, <1>3 DEF MessageFromOpen, loopVars, TypeOK, LoopTypeOK
<1>7. Cleared(walk)'
  <2> SUFFICES ASSUME NEW h \in Handle, peer'[h] # NoClient
               PROVE  h <= walk' \/ h > U32(ctx'[lastConnection'].Handle) \/ h < ServerHandle
      BY DEF Cleared
  <2>1. peer[h] # NoClient /\ h # walk /\ ctx'[lastConnection'].Handle = ctx[lastConnection].Handle
      BY <1>1, <1>2, <1>3
  <2>2. h <= walk \/ h > U32(ctx[lastConnection].Handle) \/ h < ServerHandle
      BY <1>1, <2>1 DEF Walking, Cleared
  <2>3. h <= walk => h <= walk'
      BY <1>1, <2>1, EngineAssumption
  <2> QED BY <2>1, <2>2, <2>3
<1>8. Walking'
    BY <1>1, <1>2, <1>7, EngineAssumption DEF Walking, TerminateClosesUpToLast
<1>9. CloseIsAsked'
    BY <1>1, CloseStaysAsked DEF loopVars
<1> QED BY <1>1, <1>2, <1>3, <1>4, <1>5, <1>6, <1>8, <1>9

(* The walk ends with everything down to the server's own closed.           *)
LEMMA TerminateReturnsKeepsCore ==
    ASSUME ServerCore, TerminateReturns
    PROVE  ServerCore' /\ Queued' = Queued
<1> USE DEF ServerCore
<1>1. /\ UNCHANGED <<vars, lastConnection, outcome>> /\ walk' = Done
      /\ walk \notin {Off, Done} /\ walk \in 0 .. Top /\ walk <= ServerHandle
    BY DEF TerminateReturns
<1>2. UNCHANGED <<clientVars, peer, knote, poolVars, ctx, connections, loopVars>>
    BY <1>1 DEF vars
<1>3. TypeOK'
    BY <1>2, FineUnchanged
       DEF TypeOK, ClientTypeOK, LoopTypeOK, clientVars, loopVars
<1>4. RegistryMatchesKernel' /\ (outcome' = "fine" => Fine')
    BY <1>1, <1>2, FineUnchanged DEF TypeOK
<1>5. EventsNamed' /\ MessageFromOpen' /\ NobodyYet'
    BY <1>1, <1>2 DEF EventsNamed, MessageFromOpen, NobodyYet, loopVars, poolVars
<1>6. TerminateClosesUpToLast'
  <2>1. \A h \in Handle : h <= walk => h < ServerHandle
      BY <1>1, EngineAssumption
  <2>2. Cleared(walk)
      BY <1>1 DEF Walking
  <2> QED BY <1>1, <1>2, <2>1, <2>2 DEF Cleared, TerminateClosesUpToLast
<1>7. Walking'
    BY <1>1, <1>6 DEF Walking
<1>8. CloseIsAsked'
    BY <1>2, CloseStaysAsked DEF loopVars
<1> QED BY <1>1, <1>2, <1>3, <1>4, <1>5, <1>7, <1>8 DEF Queued, clientVars
-----------------------------------------------------------------------------
(***************************************************************************)
(* The event loop, handler by handler.                                     *)
(***************************************************************************)
(* A batch names registered connections, and there are none before the      *)
(* first has been accepted.                                                 *)
LEMMA GetFiredNotificationsKeepsCore ==
    ASSUME ServerCore, walk = Off, GetFiredNotifications, UNCHANGED shutdownVars
    PROVE  ServerCore' /\ Queued' = Queued
<1> USE DEF ServerCore
<1>1. /\ UNCHANGED <<clientVars, peer, knote, poolVars, ctx, connections, loop, current, message>>
      /\ loop = "idle"
    BY DEF GetFiredNotifications
<1>2. ClientTypeOK' /\ LoopTypeOK' /\ EventsFresh'
    BY BatchIsFresh DEF TypeOK
<1>3. ConnectionTypeOK' /\ RegistryMatchesKernel' /\ (outcome' = "fine" => Fine')
    BY <1>1, FineUnchanged DEF TypeOK, shutdownVars
<1>4. EventsNamed'
    BY <1>2 DEF EventsFresh, StillRegistered, EventsNamed
<1>5. MessageFromOpen'
    BY <1>1 DEF MessageFromOpen
<1>6. NobodyYet'
  <2> SUFFICES ASSUME lastConnection' = NoContext
               PROVE  /\ held' = {} /\ loop' = "idle"
                      /\ \A i \in DOMAIN events' : events'[i].ident = ServerHandle
      BY DEF NobodyYet
  <2>1. held = {} /\ held' = {}
      BY <1>1 DEF NobodyYet, shutdownVars, poolVars
  <2>2. \A h \in Handle : knote'[h] = NoContext
      BY <1>3, <2>1 DEF RegistryMatchesKernel
  <2>3. ASSUME NEW i \in DOMAIN events', events'[i].ident # ServerHandle
        PROVE  FALSE
    <3>1. events'[i] \in Notifications
        BY <1>2 DEF LoopTypeOK
    <3>2. events'[i].ident \in Handle
        BY <2>3, <3>1 DEF Notifications
    <3> QED BY <1>2, <2>2, <2>3, <3>2 DEF EventsFresh, StillRegistered
  <2> QED BY <1>1, <2>1, <2>3
<1>7. Walking'
    BY DEF Walking, TerminateClosesUpToLast, shutdownVars, Off, Done
<1>8. CloseIsAsked'
    BY <1>1, CloseStaysAsked
<1> QED BY <1>1, <1>2, <1>3, <1>4, <1>5, <1>6, <1>7, <1>8
        DEF TypeOK, Queued, clientVars, shutdownVars

(* The context of an event becomes current, released or not.                *)
LEMMA HandleConnectionEventKeepsCore ==
    ASSUME ServerCore, walk = Off, HandleConnectionEvent, UNCHANGED shutdownVars
    PROVE  ServerCore' /\ Queued' = Queued
<1> USE DEF ServerCore
<1> DEFINE event  == events[1]
           result == DigestEvent(event)
<1>1. HandleEvent /\ events # <<>> /\ events' = Tail(events)
    BY DEF HandleConnectionEvent, HandleEvent
<1>2. /\ event = Head(events) /\ event \in Notifications /\ 1 \in DOMAIN events
      /\ events' \in Seq(Notifications)
      /\ \A i \in DOMAIN events' : i + 1 \in DOMAIN events /\ events'[i] = events[i + 1]
    BY <1>1, RestOfBatch DEF TypeOK
<1>3. /\ event.ident \in Handle /\ event.ident # ServerHandle
      /\ result = [Context |-> event.udata, Type |-> "Read"]
    BY <1>2, EngineAssumption DEF HandleConnectionEvent, DigestEvent, Notifications
<1>4. /\ UNCHANGED connectionVars /\ UNCHANGED <<sent, finished, answered, bufferDirty>>
      /\ loop' = "read" /\ current' = event.udata /\ message' = <<>>
    BY <1>2, <1>3 DEF HandleConnectionEvent
<1>5. event.udata \in Context /\ event.udata # NoContext
    BY <1>2, <1>3 DEF EventsNamed, Notifications
<1>6. ConnectionTypeOK' /\ RegistryMatchesKernel' /\ (outcome' = "fine" => Fine')
    BY <1>4, FineUnchanged DEF TypeOK, connectionVars, shutdownVars
<1>7. LoopTypeOK'
    BY <1>2, <1>4, <1>5, EmptySeq DEF TypeOK, LoopTypeOK
<1>8. ClientTypeOK'
    BY <1>4 DEF connectionVars, TypeOK, ClientTypeOK
<1>9. EventsNamed'
    BY <1>2 DEF EventsNamed
<1>10. MessageFromOpen'
    BY <1>4 DEF MessageFromOpen
<1>11. NobodyYet'
    BY <1>2, <1>3 DEF NobodyYet, shutdownVars
<1>12. Walking'
    BY DEF Walking, TerminateClosesUpToLast, shutdownVars, Off, Done
<1>13. CloseIsAsked'
    BY <1>4, CloseStaysAsked
<1> QED BY <1>4, <1>6, <1>7, <1>8, <1>9, <1>10, <1>11, <1>12, <1>13
        DEF TypeOK, Queued, connectionVars, shutdownVars

(* What is read comes from a descriptor that is open.                       *)
LEMMA ReadKeepsCore ==
    ASSUME ServerCore, walk = Off, ~Closed(ctx[current].Handle), Read, UNCHANGED shutdownVars
    PROVE  ServerCore' /\ Queued' = Queued
<1> USE DEF ServerCore
<1>1. loop = "read" /\ current \in Context /\ current # NoContext
    BY DEF Read, TypeOK, LoopTypeOK
<1>2. ctx[current].Handle \in Handle /\ peer[ctx[current].Handle] \in Client
    BY <1>1 DEF Closed, TypeOK, ConnectionTypeOK
<1>3. ClientTypeOK' /\ LoopTypeOK'
    BY <1>2, ReadTypes DEF TypeOK
<1>4. UNCHANGED <<phase, peer, knote, poolVars, ctx, connections, events, current>>
    BY DEF Read
<1>5. ConnectionTypeOK' /\ RegistryMatchesKernel' /\ (outcome' = "fine" => Fine')
    BY <1>4, FineUnchanged DEF TypeOK, shutdownVars
<1>6. EventsNamed' /\ MessageFromOpen'
    BY <1>1, <1>2, <1>4 DEF EventsNamed, MessageFromOpen
<1>7. NobodyYet'
    BY <1>1 DEF NobodyYet, shutdownVars
<1>8. Walking'
    BY DEF Walking, TerminateClosesUpToLast, shutdownVars, Off, Done
<1>9. CloseIsAsked'
  <2>1. loop' # "close"
      BY <1>1 DEF Read, SecureRead, NormalRead
  <2> QED BY <2>1, CloseStaysAsked
<1> QED BY <1>3, <1>4, <1>5, <1>6, <1>7, <1>8, <1>9 DEF TypeOK, Queued, shutdownVars

(* A read that finds nothing, or no TLS object.                             *)
LEMMA ReadClosedKeepsCore ==
    ASSUME ServerCore, walk = Off, ReadClosed
    PROVE  ServerCore' /\ Queued' = Queued
<1> USE DEF ServerCore
<1>1. /\ loop = "read" /\ loop' \in {"read", "message"} /\ bufferDirty' \in BOOLEAN
      /\ UNCHANGED <<clientVars, peer, knote, poolVars, ctx, connections, events,
                     current, message, lastConnection, walk>>
      /\ outcome' \in {outcome, "crashed"}
    BY DEF ReadClosed, TypeOK, LoopTypeOK
<1>2. ClientTypeOK' /\ LoopTypeOK'
    BY <1>1 DEF TypeOK, ClientTypeOK, LoopTypeOK, clientVars
<1>3. ConnectionTypeOK' /\ RegistryMatchesKernel' /\ (Fine => Fine')
    BY <1>1, FineUnchanged DEF TypeOK
<1>4. EventsNamed' /\ MessageFromOpen' /\ NobodyYet'
    BY <1>1 DEF EventsNamed, MessageFromOpen, NobodyYet
<1>5. Walking'
    BY <1>1 DEF Walking, TerminateClosesUpToLast, Off, Done
<1>6. CloseIsAsked'
    BY <1>1, CloseStaysAsked
<1> QED BY <1>1, <1>2, <1>3, <1>4, <1>5, <1>6 DEF TypeOK, Queued, clientVars

(* The connection accepted last is remembered, and the loop is not left     *)
(* before there is one: an unused pool has something to give.               *)
LEMMA AcceptKeepsCore ==
    ASSUME ServerCore, outcome = "fine", walk = Off, AcceptAndRemember,
           UNCHANGED <<walk, outcome>>
    PROVE  ServerCore' /\ Queued' \subseteq Queued
<1> USE DEF ServerCore
<1>1. /\ HandleServerEvent /\ HandleEvent /\ loop = "idle" /\ events # <<>>
      /\ events' = Tail(events)
      /\ UNCHANGED <<inbox, sent, finished, answered, current, message, bufferDirty>>
    BY DEF AcceptAndRemember, HandleServerEvent, HandleEvent
<1>2. /\ events' \in Seq(Notifications)
      /\ \A i \in DOMAIN events' : i + 1 \in DOMAIN events /\ events'[i] = events[i + 1]
    BY <1>1, RestOfBatch DEF TypeOK
<1>3. current = NoContext /\ message = <<>>
    BY <1>1 DEF TypeOK, LoopTypeOK, MessageFromOpen
<1>4. EventsNamed' /\ MessageFromOpen'
    BY <1>1, <1>2, <1>3 DEF EventsNamed, MessageFromOpen
<1>5. Walking'
    BY DEF Walking, TerminateClosesUpToLast, Off, Done
<1>6. CloseIsAsked'
  <2>1. loop' \in {"idle", "died"}
      BY <1>1 DEF HandleServerEvent, HandleNewConnectionEvent
  <2> QED BY <2>1, CloseStaysAsked
<1>7. CASE \E x \in Context : \E h \in Handle \union {BadHandle} :
             /\ connectionsMemPool!GetMemory(x) /\ Accepted(x, h)
             /\ OnClientConnected(x, h) /\ RegisterEvent(h, "Add", x)
             /\ UNCHANGED loop
  <2>1. PICK x \in Context, h \in Handle \union {BadHandle} :
          /\ connectionsMemPool!GetMemory(x) /\ Accepted(x, h)
          /\ OnClientConnected(x, h) /\ RegisterEvent(h, "Add", x)
          /\ UNCHANGED loop
      BY <1>7
  <2>2. /\ phase' \in [Client -> {"idle", "queued", "open", "gone"}]
        /\ ConnectionTypeOK' /\ RegistryMatchesKernel' /\ Fine'
        /\ x \notin held /\ held' = held \union {x}
      BY <2>1, AcceptKeepsFine DEF TypeOK
  <2>3. lastConnection' = x
    <3>1. lastConnection' = CHOOSE y \in held' : y \notin held
        BY <2>2 DEF AcceptAndRemember
    <3>2. \A y : y \in held' /\ y \notin held <=> y = x
        BY <2>2
    <3> QED BY <3>1, <3>2
  <2>4. x # NoContext
      BY EngineAssumption
  <2>5. ClientTypeOK' /\ LoopTypeOK'
      BY <1>1, <1>2, <2>1, <2>2 DEF TypeOK, ClientTypeOK, LoopTypeOK
  <2>6. Queued' \subseteq Queued
      BY <2>1 DEF Accepted, AcceptSucceeds, AcceptFails, Queued, TypeOK, ClientTypeOK
  <2> QED BY <1>4, <1>5, <1>6, <2>2, <2>3, <2>4, <2>5, <2>6 DEF TypeOK, NobodyYet
<1>8. CASE /\ connectionsMemPool!GetMemoryExhausted
           /\ loop' = "died"
           /\ UNCHANGED <<phase, peer, ctx, connections, knote>>
  <2>1. UNCHANGED <<peer, knote, poolVars, ctx, connections>> /\ held' = held
      BY <1>8 DEF connectionsMemPool!GetMemoryExhausted, connectionsMemPool!poolVars, poolVars
  <2>2. ConnectionTypeOK' /\ RegistryMatchesKernel' /\ Fine'
      BY <2>1, FineUnchanged DEF TypeOK
  <2>3. ClientTypeOK' /\ LoopTypeOK'
      BY <1>1, <1>2, <1>3, <1>8 DEF TypeOK, ClientTypeOK, LoopTypeOK
  <2>4. lastConnection' = lastConnection
      BY <2>1 DEF AcceptAndRemember
  <2>5. held # {}
    <3>1. blocks = <<>> /\ allocated >= MaxAlloc
        BY <1>8 DEF connectionsMemPool!GetMemoryExhausted, connectionsMemPool!Exhausted
    <3>2. allocated = Len(blocks) + Cardinality(held)
        BY DEF Fine, ThePool!AllocatedIsExact, ThePool!Cardinality, Cardinality,
               ThePool!IsFiniteSet, IsFiniteSet
    <3>3. Cardinality({}) = 0 /\ Len(<<>>) = 0
        BY FS_EmptySet
    <3> QED BY <3>1, <3>2, <3>3, ServerAssumption
  <2>6. lastConnection # NoContext
      BY <2>5 DEF NobodyYet
  <2> QED BY <1>4, <1>5, <1>6, <1>8, <2>2, <2>3, <2>4, <2>6 DEF TypeOK, NobodyYet, Queued
<1> QED BY <1>1, <1>7, <1>8 DEF HandleServerEvent, HandleNewConnectionEvent, Accepted

(* Giving back a context that is not out leaves the tables in agreement,    *)
(* though the pool's own invariant is lost.                                 *)
LEMMA DisposeTwiceKeepsTables ==
    ASSUME ClientTypeOK, ConnectionTypeOK, RegistryMatchesKernel,
           NEW x \in Context \ held, x = current, DisposeTwice
    PROVE  /\ phase' \in [Client -> {"idle", "queued", "open", "gone"}]
           /\ inbox' \in [Client -> Seq(Segment)]
           /\ ConnectionTypeOK' /\ RegistryMatchesKernel' /\ held' = held
           /\ Queued' \subseteq Queued
<1> USE BadHandleIsNone
<1> DEFINE h == ctx[x].Handle
<1>1. connectionsMemPool!Release(x)
    BY DEF DisposeTwice, HandleDisconnectionEvent
<1>2. held' = held /\ blocks' = Append(blocks, x) /\ allocated' = allocated
    BY <1>1 DEF connectionsMemPool!Release, connectionsMemPool!Keep, connectionsMemPool!Drop
<1>3. connectionsMemPool!TypeOK'
    BY <1>2, AppendProperties DEF ConnectionTypeOK, connectionsMemPool!TypeOK
<1>4. CASE Closed(h)
  <2>1. UNCHANGED <<phase, inbox, peer, knote, ctx, connections>>
      BY <1>4 DEF DisposeTwice
  <2>2. ConnectionTypeOK' /\ RegistryMatchesKernel'
      BY <1>2, <1>3, <2>1 DEF ConnectionTypeOK, RegistryMatchesKernel
  <2> QED BY <1>2, <2>1, <2>2 DEF Queued, ClientTypeOK
<1>5. CASE ~Closed(h)
  <2>1. HandleDisconnectionEvent(x) /\ h \in Handle /\ peer[h] \in Client
      BY <1>5 DEF DisposeTwice, Closed, ConnectionTypeOK
  <2>2. /\ peer' \in [Handle -> Client \union {NoClient}]
        /\ \A k \in Handle : peer'[k] = IF k = h THEN NoClient ELSE peer[k]
        /\ phase' = [phase EXCEPT ![peer[h]] = "gone"]
      BY <2>1 DEF HandleDisconnectionEvent, DisposeConnection, ConnectionTypeOK
  <2>3. inbox' \in [Client -> Seq(Segment)]
    <3>1. <<>> \in Seq(Segment) /\ inbox \in [Client -> Seq(Segment)]
        BY EmptySeq DEF ClientTypeOK
    <3>2. inbox' = [inbox EXCEPT ![peer[h]] = <<>>]
        BY <2>1 DEF HandleDisconnectionEvent, DisposeConnection
    <3> QED BY <3>1, <3>2
  <2>4. /\ knote' \in [Handle -> Context \union {NoContext}]
        /\ \A k \in Handle : knote'[k] = IF k = h THEN NoContext ELSE knote[k]
      BY <2>1 DEF HandleDisconnectionEvent, DeleteEvent, RegisterEvent, ConnectionTypeOK
  <2>5. /\ connections' \in [Handle \union {BadHandle} -> Context \union {NoContext}]
        /\ \A k \in Handle : connections'[k] = IF k = h THEN NoContext ELSE connections[k]
      BY <2>1 DEF HandleDisconnectionEvent, OnClientDisconnected, ConnectionTypeOK
  <2>6. /\ ctx' \in [Context -> [Handle : Handle \union {BadHandle}, TLS : BOOLEAN]]
        /\ \A y \in Context : ctx'[y].Handle = ctx[y].Handle
    <3>1. ctx' = [ctx EXCEPT ![x].TLS = FALSE] /\ x \in Context
        BY <2>1 DEF HandleDisconnectionEvent, DisposeConnection
    <3>2. ctx \in [Context -> [Handle : Handle \union {BadHandle}, TLS : BOOLEAN]]
        BY DEF ConnectionTypeOK
    <3> QED BY <3>1, <3>2
  <2>7. ConnectionTypeOK'
      BY <1>3, <2>2, <2>4, <2>5, <2>6 DEF ConnectionTypeOK
  <2>8. RegistryMatchesKernel'
    <3> SUFFICES ASSUME NEW k \in Handle
                 PROVE  /\ connections'[k] = knote'[k]
                        /\ peer'[k] = NoClient <=> knote'[k] = NoContext
                        /\ knote'[k] # NoContext =>
                              knote'[k] \in held' /\ ctx'[knote'[k]].Handle = k
        BY DEF RegistryMatchesKernel
    <3>1. knote[k] # NoContext => knote[k] \in Context
        BY DEF ConnectionTypeOK
    <3> QED BY <1>2, <2>2, <2>4, <2>5, <2>6, <3>1 DEF RegistryMatchesKernel
  <2> QED BY <1>2, <2>2, <2>3, <2>7, <2>8 DEF Queued, ClientTypeOK
<1> QED BY <1>4, <1>5

(* The answer to what was read, the handler having called Terminate or not. *)
LEMMA RespondEffect ==
    ASSUME Respond
    PROVE  /\ loop = "message"
           /\ UNCHANGED <<connectionVars, sent, finished, events, bufferDirty>>
           /\ UNCHANGED answered \/ WriteResponse(current)
           /\ \/ loop' = "idle" /\ current' = NoContext /\ message' = <<>>
              \/ /\ loop' = "close" /\ UNCHANGED <<current, message>>
                 /\ message # <<>> /\ SaysClose
           /\ outcome' \in {outcome, "crashed"}
<1>1. CASE message = <<>> \/ current \in held
    BY <1>1, HandleMessageEventEffect DEF Respond
<1>2. CASE ~(message = <<>> \/ current \in held)
    BY <1>2 DEF Respond, RespondReleased, Handled
<1> QED BY <1>1, <1>2

LEMMA RespondKeepsCore ==
    ASSUME ServerCore, outcome = "fine", walk' = Off, Respond, UNCHANGED lastConnection
    PROVE  ServerCore' /\ Queued' \subseteq Queued
<1> USE DEF ServerCore
<1>1. /\ loop = "message" /\ current \in Context /\ current # NoContext
      /\ UNCHANGED connectionVars /\ UNCHANGED <<sent, finished, events, bufferDirty>>
      /\ UNCHANGED answered \/ WriteResponse(current)
      /\ \/ loop' = "idle" /\ current' = NoContext /\ message' = <<>>
         \/ /\ loop' = "close" /\ UNCHANGED <<current, message>>
            /\ message # <<>> /\ SaysClose
      /\ outcome' \in {outcome, "crashed"}
    BY RespondEffect DEF TypeOK, LoopTypeOK
<1>2. LoopTypeOK'
    BY <1>1, EmptySeq DEF TypeOK, LoopTypeOK
<1>3. answered' \in [Client -> Nat]
    BY <1>1 DEF WriteResponse, Write, TypeOK, ClientTypeOK
<1>4. ClientTypeOK'
    BY <1>1, <1>3 DEF connectionVars, TypeOK, ClientTypeOK
<1>5. ConnectionTypeOK' /\ RegistryMatchesKernel' /\ Fine'
    BY <1>1, FineUnchanged DEF TypeOK, connectionVars
<1>6. EventsNamed' /\ MessageFromOpen'
    BY <1>1 DEF EventsNamed, MessageFromOpen, connectionVars
<1>7. CloseIsAsked'
  <2>1. CASE loop' = "idle"
      BY <2>1 DEF CloseIsAsked
  <2>2. CASE UNCHANGED message /\ message # <<>> /\ SaysClose
      BY <2>2 DEF CloseIsAsked, SaysClose, GetHeaderConnection
  <2> QED BY <1>1, <2>1, <2>2
<1>8. NobodyYet'
    BY <1>1 DEF NobodyYet
<1>9. Walking'
    BY DEF Walking, TerminateClosesUpToLast, Off, Done
<1> QED BY <1>1, <1>2, <1>4, <1>5, <1>6, <1>7, <1>8, <1>9 DEF TypeOK, connectionVars, Queued

(* The end of a request that asks for the connection to be closed.          *)
LEMMA CloseAskedKeepsCore ==
    ASSUME ServerCore, outcome = "fine", walk = Off, CloseAsked,
           UNCHANGED <<lastConnection, walk>>
    PROVE  ServerCore' /\ Queued' \subseteq Queued
<1> USE DEF ServerCore
<1>1. /\ loop = "close" /\ current \in Context /\ current # NoContext
      /\ loop' = "idle" /\ current' = NoContext /\ message' = <<>>
      /\ UNCHANGED <<sent, finished, answered, events, bufferDirty>>
    BY DEF CloseAsked, CloseOnRequest, Handled, TypeOK, LoopTypeOK
<1>2. LoopTypeOK'
    BY <1>1, EmptySeq DEF TypeOK, LoopTypeOK
<1>3. EventsNamed' /\ MessageFromOpen' /\ CloseIsAsked'
    BY <1>1 DEF EventsNamed, MessageFromOpen, CloseIsAsked
<1>4. NobodyYet'
    BY <1>1 DEF NobodyYet
<1>5. Walking'
    BY DEF Walking, TerminateClosesUpToLast, Off, Done
<1>6. /\ phase' \in [Client -> {"idle", "queued", "open", "gone"}]
      /\ inbox' \in [Client -> Seq(Segment)]
      /\ ConnectionTypeOK' /\ RegistryMatchesKernel' /\ (outcome' = "fine" => Fine')
      /\ Queued' \subseteq Queued
      /\ outcome' \in {"fine", "spoilt", "crashed"}
  <2>1. CASE current \in held /\ CloseOnRequest /\ UNCHANGED outcome
    <3>1. HandleDisconnectionEvent(current)
        BY <2>1 DEF CloseOnRequest
    <3>2. ctx[current].Handle \in Handle
        BY <1>1 DEF CloseIsAsked, MessageFromOpen
    <3>3. knote[ctx[current].Handle] = current
        BY <2>1, <3>2, BadHandleIsNone DEF Fine, Owned
    <3>4. /\ phase' \in [Client -> {"idle", "queued", "open", "gone"}]
          /\ inbox' \in [Client -> Seq(Segment)]
          /\ ConnectionTypeOK' /\ RegistryMatchesKernel' /\ Fine'
        BY <2>1, <3>1, <3>2, <3>3, DisposeKeepsFine DEF TypeOK
    <3>5. Queued' \subseteq Queued
        BY <3>1 DEF HandleDisconnectionEvent, DisposeConnection, Queued, TypeOK, ClientTypeOK
    <3> QED BY <2>1, <3>4, <3>5
  <2>2. CASE current \notin held /\ DisposeTwice
    <3>1. outcome' = "spoilt"
        BY <2>2 DEF DisposeTwice
    <3> QED BY <1>1, <2>2, <3>1, DisposeTwiceKeepsTables DEF TypeOK
  <2> QED BY <2>1, <2>2 DEF CloseAsked
<1>7. ClientTypeOK'
    BY <1>1, <1>6 DEF TypeOK, ClientTypeOK
<1> QED BY <1>2, <1>3, <1>4, <1>5, <1>6, <1>7 DEF TypeOK
-----------------------------------------------------------------------------
(***************************************************************************)
(* The clients, and a step of nobody's.                                    *)
(***************************************************************************)
(* What the server has is not touched by clients; only a client that comes, *)
(* or comes back, is added to those that are queued.                        *)
LEMMA ClientsKeepCore ==
    ASSUME ServerCore, Clients
    PROVE  ServerCore' /\ IsFiniteSet(Queued' \ Queued)
<1> USE DEF ServerCore
<1>1. /\ UNCHANGED <<peer, knote, poolVars, ctx, connections>>
      /\ UNCHANGED loopVars /\ UNCHANGED shutdownVars
    BY DEF Clients, Environment, Connect, Send, Finish, Reconnect
<1>2. PICK c \in Client : Connect(c) \/ Send(c) \/ Finish(c) \/ Reconnect(c)
    BY DEF Clients, Environment
<1>3. ClientTypeOK'
  <2>1. CASE Reconnect(c)
      BY <2>1, ServerAssumption DEF Reconnect, TypeOK, ClientTypeOK
  <2> QED BY <1>2, <2>1, EnvironmentTypes DEF TypeOK
<1>4. ConnectionTypeOK' /\ RegistryMatchesKernel' /\ (outcome' = "fine" => Fine')
    BY <1>1, FineUnchanged DEF TypeOK, shutdownVars
<1>5. LoopTypeOK'
    BY <1>1 DEF TypeOK, LoopTypeOK, loopVars
<1>6. EventsNamed' /\ MessageFromOpen'
    BY <1>1 DEF EventsNamed, MessageFromOpen, loopVars
<1>7. NobodyYet'
    BY <1>1 DEF NobodyYet, loopVars, shutdownVars, poolVars
<1>8. Walking'
    BY <1>1 DEF Walking, Cleared, TerminateClosesUpToLast, shutdownVars
<1>9. Queued' \ Queued \subseteq {c}
  <2>1. \A d \in Client : d # c => phase'[d] = phase[d]
      BY <1>2 DEF Connect, Send, Finish, Reconnect, TypeOK, ClientTypeOK
  <2> QED BY <2>1 DEF Queued
<1>10. IsFiniteSet({c})
    BY FS_Singleton
<1>11. CloseIsAsked'
    BY <1>1, CloseStaysAsked DEF loopVars
<1> QED BY <1>1, <1>3, <1>4, <1>5, <1>6, <1>7, <1>8, <1>9, <1>10, <1>11, FS_Subset
        DEF TypeOK, shutdownVars

(* Stuttering.                                                              *)
LEMMA StutterKeepsShutdownInv ==
    ASSUME ShutdownInv, UNCHANGED allVars
    PROVE  ShutdownInv'
<1> USE DEF ShutdownInv, ServerCore
<1>1. /\ UNCHANGED <<clientVars, peer, knote, poolVars, ctx, connections, loopVars>>
      /\ UNCHANGED shutdownVars /\ UNCHANGED backlog
    BY DEF allVars, vars
<1>2. ClientTypeOK' /\ LoopTypeOK'
    BY <1>1 DEF TypeOK, ClientTypeOK, LoopTypeOK, clientVars, loopVars
<1>3. ConnectionTypeOK' /\ RegistryMatchesKernel' /\ (outcome' = "fine" => Fine')
    BY <1>1, FineUnchanged DEF TypeOK, shutdownVars
<1>4. EventsNamed' /\ MessageFromOpen' /\ NobodyYet'
    BY <1>1 DEF EventsNamed, MessageFromOpen, NobodyYet, loopVars, shutdownVars, poolVars
<1>5. Walking'
    BY <1>1 DEF Walking, Cleared, TerminateClosesUpToLast, shutdownVars
<1>6. InBacklog'
    BY <1>1 DEF InBacklog, Queued, clientVars
<1>7. CloseIsAsked'
    BY <1>1, CloseStaysAsked DEF loopVars
<1> QED BY <1>1, <1>2, <1>3, <1>4, <1>5, <1>6, <1>7 DEF TypeOK, shutdownVars

(* To begin with there is no connection, and Terminate has not been called. *)
LEMMA ShutdownInitEstablishesInv == ShutdownInit => ShutdownInv
<1> SUFFICES ASSUME ShutdownInit PROVE ShutdownInv
    OBVIOUS
<1>1. Init /\ ServerInv
    BY InitEstablishesInv DEF ShutdownInit
<1>2. /\ lastConnection = NoContext /\ backlog = <<>> /\ walk = Off /\ outcome = "fine"
      /\ held = {} /\ loop = "idle" /\ events = <<>> /\ message = <<>>
      /\ connections[BadHandle] = NoContext
      /\ \A c \in Client : phase[c] = "idle"
    BY DEF ShutdownInit, Init, ClientsInit, ServerInit, HttpServerInit, LoopInit,
           connectionsMemPool!Init
<1>3. ThePool!AllocatedIsExact
    BY <1>1, PoolAssumed, SameInit, ThePool!InitExact DEF Init, ServerInit
<1>4. Fine
    BY <1>1, <1>2, <1>3 DEF Fine, ServerInv, Connections, PhantomEntry
<1>5. EventsNamed /\ MessageFromOpen /\ CloseIsAsked /\ NobodyYet
    BY <1>2 DEF EventsNamed, MessageFromOpen, CloseIsAsked, NobodyYet
<1>6. Walking
    BY <1>2 DEF Walking, TerminateClosesUpToLast, Off, Done
<1>7. InBacklog
  <2>1. Queued = {} /\ ToSet(backlog) = {} /\ backlog \in Seq(Client) /\ IsInjective(backlog)
      BY <1>2, EmptySeq DEF Queued, ToSet, IsInjective
  <2> QED BY <2>1 DEF InBacklog
<1> QED BY <1>1, <1>2, <1>4, <1>5, <1>6, <1>7
        DEF ShutdownInv, ServerCore, ServerInv, Connections

(***************************************************************************)
(* ShutdownInv holds in every reachable state.                             *)
(***************************************************************************)
THEOREM ShutdownInvariance == ShutdownSpec => []ShutdownInv
<1>1. ASSUME ShutdownInv, ShutdownNext PROVE ShutdownInv'
  <2>1. ServerCore
      BY <1>1 DEF ShutdownInv
  <2>2. ASSUME ServerStep PROVE ServerCore' /\ Queued' \subseteq Queued
    <3>1. CASE outcome = "fine" /\ walk = Off /\ LoopStep
      <4>1. CASE GetFiredNotifications /\ UNCHANGED shutdownVars
          BY <2>1, <3>1, <4>1, GetFiredNotificationsKeepsCore
      <4>2. CASE HandleConnectionEvent /\ UNCHANGED shutdownVars
          BY <2>1, <3>1, <4>2, HandleConnectionEventKeepsCore
      <4>3. CASE ~Closed(ctx[current].Handle) /\ Read /\ UNCHANGED shutdownVars
          BY <2>1, <3>1, <4>3, ReadKeepsCore
      <4>4. CASE AcceptAndRemember /\ UNCHANGED <<walk, outcome>>
          BY <2>1, <3>1, <4>4, AcceptKeepsCore
      <4>5. CASE ReadClosed
          BY <2>1, <3>1, <4>5, ReadClosedKeepsCore
      <4>6. CASE Respond /\ UNCHANGED <<lastConnection, walk>>
          BY <2>1, <3>1, <4>6, RespondKeepsCore
      <4>7. CASE CloseAsked /\ UNCHANGED <<lastConnection, walk>>
          BY <2>1, <3>1, <4>7, CloseAskedKeepsCore
      <4> QED BY <3>1, <4>1, <4>2, <4>3, <4>4, <4>5, <4>6, <4>7 DEF LoopStep
    <3>2. CASE outcome = "fine" /\ RespondAfterTerminate
        BY <2>1, <3>2, RespondKeepsCore DEF RespondAfterTerminate
    <3>3. CASE Terminate
        BY <2>1, <3>3, TerminateKeepsCore
    <3>4. CASE TerminateNext
        BY <2>1, <3>4, TerminateNextKeepsCore
    <3>5. CASE TerminateReturns
        BY <2>1, <3>5, TerminateReturnsKeepsCore
    <3> QED BY <2>2, <3>1, <3>2, <3>3, <3>4, <3>5 DEF ServerStep
  <2>3. ServerCore' /\ IsFiniteSet(Queued' \ Queued)
    <3>1. CASE ServerStep
      <4>1. Queued' \ Queued = {}
          BY <2>2, <3>1
      <4> QED BY <2>2, <3>1, <4>1, FS_EmptySet
    <3>2. CASE Clients
        BY <2>1, <3>2, ClientsKeepCore
    <3> QED BY <1>1, <3>1, <3>2 DEF ShutdownNext
  <2>4. InBacklog'
      BY <1>1, <2>3, BacklogKept DEF ShutdownInv, ShutdownNext
  <2> QED BY <2>3, <2>4 DEF ShutdownInv
<1>2. ShutdownInv /\ UNCHANGED allVars => ShutdownInv'
    BY StutterKeepsShutdownInv
<1> QED BY ShutdownInitEstablishesInv, <1>1, <1>2, PTL DEF ShutdownSpec

(***************************************************************************)
(* Wherever Terminate is called and however far it has come, the registry, *)
(* the kernel's registrations and the open descriptors agree.              *)
(***************************************************************************)
THEOREM TablesAlwaysAgree == ShutdownSpec => []TablesAgree
<1>1. ASSUME ShutdownInv PROVE TablesAgree
  <2> USE <1>1 DEF ShutdownInv, ServerCore
  <2>1. lastConnection = NoContext => held = {}
      BY DEF NobodyYet
  <2>2. backlog \in Seq(Queued)
    <3>1. backlog \in Seq(Client) /\ \A i \in DOMAIN backlog : backlog[i] \in Queued
        BY DEF InBacklog, ToSet
    <3>2. Len(backlog) \in Nat /\ backlog \in [1 .. Len(backlog) -> Queued]
        BY <3>1
    <3> QED BY <3>2
  <2>3. Len(backlog) = Cardinality(Queued)
      BY VectorCardinality DEF InBacklog
  <2> QED BY <2>1, <2>2, <2>3 DEF TablesAgree, ShutdownTypeOK
<1> QED BY ShutdownInvariance, <1>1, PTL

(***************************************************************************)
(* Terminate closes every connection from the one accepted last down to    *)
(* the server's own descriptor.                                            *)
(***************************************************************************)
THEOREM ClosesUpToLast == ShutdownSpec => []TerminateClosesUpToLast
<1>1. ShutdownInv => TerminateClosesUpToLast
    BY DEF ShutdownInv, ServerCore, Walking
<1> QED BY ShutdownInvariance, <1>1, PTL

(***************************************************************************)
(* A context is given back while it is out, and once, except for a request *)
(* with "Connection: close" that the loop answers with a context that has  *)
(* been given back.                                                        *)
(***************************************************************************)
THEOREM ReleasedOnlyOnce == ShutdownSpec => ReleasedOnce
<1> DEFINE Kept == connectionsMemPool!Next \/ (SaysClose /\ current \notin held)
<1>1. ASSUME ShutdownInv, ShutdownNext PROVE Kept \/ UNCHANGED poolVars
  <2> USE <1>1 DEF ShutdownInv, ServerCore
  <2>1. CASE AcceptAndRemember
    <3>1. CASE \E x \in Context : connectionsMemPool!GetMemory(x)
        BY <3>1 DEF connectionsMemPool!Next
    <3>2. CASE connectionsMemPool!GetMemoryExhausted
        BY <3>2 DEF connectionsMemPool!Next
    <3> QED BY <2>1, <3>1, <3>2
            DEF AcceptAndRemember, HandleServerEvent, HandleNewConnectionEvent
  <2>2. CASE Respond
      BY <2>2, RespondEffect DEF connectionVars
  <2>3. CASE HandleConnectionEvent
    <3>1. events # <<>> /\ Head(events) \in Notifications
        BY <2>3, RestOfBatch DEF HandleConnectionEvent, HandleEvent, TypeOK
    <3>2. DigestEvent(Head(events)).Type # "Disconnect"
        BY <3>1 DEF DigestEvent, Notifications
    <3> QED BY <2>3, <3>2 DEF HandleConnectionEvent, connectionVars
  <2>4. CASE TerminateNext
    <3> DEFINE x == Found(walk)
    <3>1. walk \in 0 .. Top /\ outcome = "fine" /\ Fine
        BY <2>4, EngineAssumption DEF TerminateNext, Walking, Off, Done
    <3>2. CASE x = NoContext
        BY <2>4, <3>2 DEF TerminateNext, connectionVars
    <3>3. CASE x # NoContext /\ walk = Top
      <4>1. x = connections[BadHandle] /\ connectionsMemPool!Release(x)
          BY <2>4, <3>3 DEF TerminateNext, Found, DisposePhantom
      <4>2. x \in held
          BY <3>1, <3>3, <4>1 DEF Fine, PhantomEntry
      <4> QED BY <4>1, <4>2 DEF connectionsMemPool!Next
    <3>4. CASE x # NoContext /\ walk # Top
      <4>1. /\ walk \in Handle /\ x = connections[walk]
            /\ connectionsMemPool!Release(x)
          BY <2>4, <3>4 DEF TerminateNext, Found, HandleDisconnectionEvent
      <4>2. x \in held
          BY <3>4, <4>1 DEF RegistryMatchesKernel
      <4> QED BY <4>1, <4>2 DEF connectionsMemPool!Next
    <3> QED BY <3>2, <3>3, <3>4
  <2>5. CASE Clients \/ Terminate \/ TerminateReturns \/ ReadClosed
      BY <2>5 DEF Clients, Environment, Connect, Send, Finish, Reconnect, Terminate,
                  TerminateReturns, ReadClosed, vars
  <2>6. CASE GetFiredNotifications \/ Read
      BY <2>6 DEF GetFiredNotifications, Read
  <2>7. CASE CloseAsked
    <3>1. loop = "close" /\ SaysClose
        BY <2>7 DEF CloseAsked, CloseOnRequest, CloseIsAsked
    <3>2. CASE current \in held /\ CloseOnRequest
        BY <3>2 DEF CloseOnRequest, HandleDisconnectionEvent, connectionsMemPool!Next
    <3>3. CASE current \notin held
        BY <3>1, <3>3
    <3> QED BY <2>7, <3>2, <3>3 DEF CloseAsked
  <2> QED BY <1>1, <2>1, <2>2, <2>3, <2>4, <2>5, <2>6, <2>7
          DEF ShutdownNext, ServerStep, LoopStep, RespondAfterTerminate
<1>2. UNCHANGED allVars => UNCHANGED poolVars
    BY DEF allVars, vars
<1> QED BY ShutdownInvariance, <1>1, <1>2, PTL DEF ShutdownSpec, ReleasedOnce
===============================================================================
