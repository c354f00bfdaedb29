----------------------------- MODULE EventEngine -----------------------------
(***************************************************************************)
(* EventEngine: EventManager registers sockets with kqueue and collects    *)
(* what fired, EventHandler turns a notification into a SocketContext and  *)
(* an event type.  The kernel's side is the function knote, which gives    *)
(* the udata registered for reading on each socket.                        *)
(***************************************************************************)
EXTENDS Integers, FiniteSets, Functions

CONSTANTS
    Handle,         \* the file descriptors accept can return
    ServerHandle,   \* the listening socket
    Context,        \* the SocketContexts the server can allocate
    NoContext,      \* nullptr
    MaxEvents       \* the length of the event list given to kevent

ASSUME EngineAssumption ==
    /\ Handle \subseteq Nat
    /\ IsFiniteSet(Handle)
    /\ ServerHandle \in Nat \ Handle
    /\ NoContext \notin Context
    /\ MaxEvents \in Nat \ {0}

VARIABLE knote

-----------------------------------------------------------------------------
(***************************************************************************)
(* Registration is for reads, without EV_CLEAR: a socket stays ready until *)
(* it has been read dry.  On a descriptor that is not open kevent fails,   *)
(* which RegisterEvent only traces.                                        *)
(***************************************************************************)
RegisterEvent(h, action, udata) ==
    knote' = IF h \in Handle
             THEN [knote EXCEPT ![h] = IF action = "Add" THEN udata ELSE NoContext]
             ELSE knote

(***************************************************************************)
(* The overload for a descriptor without a context leaves kevent room for  *)
(* one event and gives it no timeout: having deleted the registration it   *)
(* waits until some other socket is ready, whose event it drops, to be     *)
(* reported again.  A deletion that fails returns at once.  Only the       *)
(* thread that waits looks at registrations, so the deletion is one step   *)
(* with the return.                                                        *)
(***************************************************************************)
DeleteEvent(h, ready) ==
    /\ RegisterEvent(h, "Delete", NoContext)
    /\ h \in Handle /\ knote[h] # NoContext => ready \ {h} # {}

(***************************************************************************)
(* What kevent fills in for a ready socket.                                *)
(***************************************************************************)
Notification(h, eof) ==
    [ident  |-> h,
     filter |-> "EVFILT_READ",
     eof    |-> eof,
     udata  |-> IF h = ServerHandle THEN NoContext ELSE knote[h]]

(***************************************************************************)
(* One call of kevent returns as many of the ready sockets as fit, in any  *)
(* order.                                                                  *)
(***************************************************************************)
Batches(ready) ==
    LET room == IF Cardinality(ready) > MaxEvents THEN MaxEvents ELSE Cardinality(ready)
    IN  {s \in [1 .. room -> ready] : IsInjective(s)}

(***************************************************************************)
(* The tests are made one after the other, so the filter, which is always  *)
(* set, overrides the Disconnect of an EOF or error.                       *)
(***************************************************************************)
DigestEvent(event) ==
    LET onEof   == IF event.eof THEN "Disconnect" ELSE "Weird"
        onRead  == IF event.filter = "EVFILT_READ" THEN "Read" ELSE onEof
        onWrite == IF event.filter = "EVFILT_WRITE" THEN "Write" ELSE onRead
    IN  IF event.ident = ServerHandle
        THEN [Context |-> NoContext, Type |-> "Weird"]
        ELSE [Context |-> event.udata, Type |-> onWrite]
===============================================================================
