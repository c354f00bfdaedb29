------------------------------ MODULE HttpService ------------------------------
(***************************************************************************)
(* What becomes of the text of a request: HttpParser makes an HttpRequest  *)
(* of it, HttpRouter finds its handler, and HttpServer::OnClientMessage    *)
(* turns what the handler does into a response.  Routes are added before   *)
(* the server boots and by handlers.  All of it runs on one thread.        *)
(*                                                                         *)
(* Text is abstract.  After the start line, a line is a header [key,       *)
(* value, gap], or other text [text], or blank.  The gap is what stands    *)
(* between the colon and the value: no space, one, or more.  NoValue is    *)
(* the empty value: "K:" or "K: ".                                         *)
(***************************************************************************)
EXTENDS Integers, FiniteSets, SequencesExt

CONSTANTS
    Path,
    Method,         \* the methods _methodMapping knows
    UnknownMethod,  \* any other word
    Handler,        \* the functions routes are added for
    NoHandler,      \* an empty std::function
    Key, Value,     \* of headers
    NoValue,        \* what "K:" has for a value
    Text,           \* the lines of bodies
    NoBody,         \* ""
    MaxHeaders,     \* bounds the headers of a request
    MaxBody,        \* bounds the lines of its body
    MaxLog          \* bounds the routes added and the requests made

ASSUME HttpServiceAssumption ==
    /\ {"GET", "POST", "DELETE", "PUT"} \subseteq Method
    /\ UnknownMethod \notin Method
    /\ NoHandler \notin Handler
    /\ NoValue \notin Value \union Text
    /\ MaxHeaders \in Nat /\ MaxBody \in Nat /\ MaxLog \in Nat

VARIABLES
    phase,      \* setup, idle, handling, or undefined
    routes,     \* _routes, a map from paths to maps from methods to handlers
    log,        \* history: the routes added and the paths asked for
    sent,       \* history: the request being handled, as its client meant it
    request,    \* what RequestFromBuffer made of it
    handler,    \* the handler found for the last request
    status      \* the status on the wire of its response, or none

vars == <<phase, routes, log, sent, request, handler, status>>

Header ==
    [key : Key, value : Value \union {NoValue}, gap : {"none", "one", "more"}]

Sendable ==
    [method : Method \union {UnknownMethod}, path : Path,
     headers : BoundedSeq(Header, MaxHeaders), body : BoundedSeq(Text, MaxBody)]

Init ==
    /\ phase = "setup"
    /\ routes = <<>>
    /\ log = <<>>
    /\ sent = <<>>
    /\ request = <<>>
    /\ handler = NoHandler
    /\ status = "none"

-----------------------------------------------------------------------------
(***************************************************************************)
(* HttpRouter.  operator[] of a map inserts a default for a missing key.   *)
(***************************************************************************)
Subscripted(map, k, default) ==
    [x \in DOMAIN map \union {k} |-> IF x \in DOMAIN map THEN map[x] ELSE default]

Assigned(map, k, v) ==
    [x \in DOMAIN map \union {k} |-> IF x = k THEN v ELSE map[x]]

AllMethods == {"GET", "POST", "DELETE", "PUT"}

AddRouteOverwrites(p, h) ==     \* mutant: the path need not be new
    routes' = Assigned(routes, p, [m \in AllMethods |-> h])

AddRoute(p, h) ==
    routes' = IF p \in DOMAIN routes
              THEN routes
              ELSE Assigned(routes, p, [m \in AllMethods |-> h])

AddRouteMethod(p, m, h) == routes' = Assigned(routes, p, [x \in {m} |-> h])

GetHandler(p, m) ==
    LET looked == Subscripted(routes, p, <<>>)
        route  == Subscripted(looked[p], m, NoHandler)
    IN  /\ handler' = route[m]
        /\ routes' = [looked EXCEPT ![p] = route]

Logged(entry) == log' = Append(log, entry)

(***************************************************************************)
(* HttpServer::Handle, before Boot or called by a handler.                 *)
(***************************************************************************)
Handle ==
    /\ Len(log) < MaxLog
    /\ \/ phase = "setup"
       \/ phase = "handling" /\ handler # NoHandler
    /\ \E p \in Path, h \in Handler :
         \/ AddRoute(p, h) /\ Logged([type |-> "all", path |-> p, handler |-> h])
         \/ \E m \in Method :
               /\ AddRouteMethod(p, m, h)
               /\ Logged([type |-> "one", path |-> p, method |-> m, handler |-> h])
    /\ UNCHANGED <<phase, sent, request, handler, status>>

Boot ==
    /\ phase = "setup"
    /\ phase' = "idle"
    /\ UNCHANGED <<routes, log, sent, request, handler, status>>

-----------------------------------------------------------------------------
(***************************************************************************)
(* HttpParser.  A client puts a blank line after the headers, which split  *)
(* drops with all empty lines; the parser takes the last line of a request *)
(* whose method has a body for the body, and every other line for a        *)
(* header, splitting it at a colon it need not have.  It drops the colon   *)
(* and one character more.  One space was the gap, and the value is left   *)
(* whole; without one it loses its first character, or throws out_of_range *)
(* if it has none; of more spaces the rest stays.  Of a line without a     *)
(* colon, find + 2 is 1: all of it is the key, and all but its first       *)
(* character the value.                                                    *)
(***************************************************************************)
Blank == [text |-> ""]

Buffer(r) == r.headers \o <<Blank>> \o [i \in DOMAIN r.body |-> [text |-> r.body[i]]]

split(buffer) ==
    LET tokens[i \in 0 .. Len(buffer)] ==
            IF i = 0 THEN <<>>
            ELSE IF buffer[i] = Blank THEN tokens[i - 1]
            ELSE Append(tokens[i - 1], buffer[i])
    IN  tokens[Len(buffer)]

methodMapping(word) == IF word \in Method THEN word ELSE "GET"

RequestHasBody(m) == m \in {"POST", "PATCH", "PUT"}

HeaderOf(line) ==
    IF "text" \in DOMAIN line
    THEN [key |-> line.text, value |-> line.text, left |-> "cut"]
    ELSE [key |-> line.key, value |-> line.value,
          left |-> CASE line.gap = "none" -> "cut"
                     [] line.gap = "one"  -> "whole"
                     [] line.gap = "more" -> "spaced"]

TotalHeadersAlways(lines, m) == Len(lines)  \* mutant: every line is a header

TotalHeaders(lines, m) == Len(lines) - (IF RequestHasBody(m) THEN 1 ELSE 0)

RequestFromBuffer(r) ==
    LET lines == split(Buffer(r))
        m     == methodMapping(r.method)
        n     == TotalHeaders(lines, m)
    IN  [path |-> r.path, method |-> m,
         headers |-> [i \in 1 .. n |-> HeaderOf(lines[i])],
         body |-> IF n = Len(lines) THEN NoBody ELSE lines[n + 1]]

(***************************************************************************)
(* Without a single line, the number of headers of a request whose method  *)
(* has a body wraps around, and lines that do not exist are read.          *)
(***************************************************************************)
ParserUndefined(r) ==
    RequestHasBody(methodMapping(r.method)) /\ split(Buffer(r)) = <<>>

ParserThrows(r) ==
    LET headers == RequestFromBuffer(r).headers
    IN  \E i \in DOMAIN headers :
            headers[i].value = NoValue /\ headers[i].left = "cut"

-----------------------------------------------------------------------------
(***************************************************************************)
(* HttpServer::OnClientMessage, up to the call of the handler.  What it    *)
(* throws there is swallowed by HandleConnections, without a response.     *)
(***************************************************************************)
OnClientMessage ==
    /\ phase = "idle"
    /\ Len(log) < MaxLog
    /\ status' = "none"
    /\ \E r \in Sendable :
         \/ /\ ParserUndefined(r)
            /\ phase' = "undefined"
            /\ UNCHANGED <<routes, log, sent, request, handler>>
         \/ /\ ~ParserUndefined(r)
            /\ \/ /\ ParserThrows(r)
                  /\ UNCHANGED <<phase, routes, log, sent, request, handler>>
               \/ /\ ~ParserThrows(r)
                  /\ sent' = r
                  /\ request' = RequestFromBuffer(r)
                  /\ GetHandler(r.path, request'.method)
                  /\ Logged([type |-> "lookup", path |-> r.path])
                  /\ phase' = "handling"

(***************************************************************************)
(* GetReadableStatusCode knows three codes.                                *)
(***************************************************************************)
Code == {"OK", "NOT_FOUND", "INTERNAL_SERVER_ERROR", "another"}

Readable(code) == IF code = "another" THEN "NOT_FOUND" ELSE code

WriteResponse(code) == status' = Readable(code)

(***************************************************************************)
(* The handler returns, having set a status or left it OK; or it throws an *)
(* HttpException with a status, a runtime_error, or something else, which  *)
(* nobody in HttpServer catches.  What was parsed ends with the call.      *)
(***************************************************************************)
HandlerEnds ==
    /\ phase = "handling"
    /\ handler # NoHandler
    /\ phase' = "idle"
    /\ sent' = <<>> /\ request' = <<>>
    /\ \/ \E code \in Code : WriteResponse(code)
       \/ WriteResponse("INTERNAL_SERVER_ERROR")
       \/ UNCHANGED status
    /\ UNCHANGED <<routes, log, handler>>

NotFoundException ==
    /\ phase = "handling"
    /\ handler = NoHandler
    /\ phase' = "idle"
    /\ sent' = <<>> /\ request' = <<>>
    /\ WriteResponse("NOT_FOUND")
    /\ UNCHANGED <<routes, log, handler>>

Next == Handle \/ Boot \/ OnClientMessage \/ HandlerEnds \/ NotFoundException

Spec == Init /\ [][Next]_vars

-----------------------------------------------------------------------------
(***************************************************************************)
(* Properties.                                                             *)
(***************************************************************************)
Line == Header \union [text : Text]

HeaderRead ==
    [key : Key \union Text, value : Value \union {NoValue} \union Text,
     left : {"whole", "cut", "spaced"}]

Requests ==
    [path : Path, method : Method, headers : Seq(HeaderRead), body : Line \union {NoBody}]

Entries ==
    [type : {"all"}, path : Path, handler : Handler]
        \union [type : {"one"}, path : Path, method : Method, handler : Handler]
        \union [type : {"lookup"}, path : Path]

TypeOK ==
    /\ phase \in {"setup", "idle", "handling", "undefined"}
    /\ DOMAIN routes \subseteq Path
    /\ \A p \in DOMAIN routes :
          /\ DOMAIN routes[p] \subseteq Method
          /\ \A m \in DOMAIN routes[p] : routes[p][m] \in Handler \union {NoHandler}
    /\ log \in Seq(Entries)
    /\ sent \in Sendable \union {<<>>}
    /\ request \in Requests \union {<<>>}
    /\ phase = "handling" => request \in Requests
    /\ handler \in Handler \union {NoHandler}
    /\ status \in {"none", "OK", "NOT_FOUND", "INTERNAL_SERVER_ERROR"}

(***************************************************************************)
(* The handler sees the request its client sent, provided it has the body  *)
(* its method makes the parser expect: one line for POST, PUT and PATCH,   *)
(* which is not empty, and none for the others.  The headers are as many   *)
(* as were sent, in the same order and with the same keys, and one whose   *)
(* value was written after a single space has that value: nothing is said  *)
(* of the values of the others, which the parser cuts or leaves a space    *)
(* before.  The variables keep their types.                                *)
(***************************************************************************)
Conventional(r) ==
    r.body \in IF RequestHasBody(methodMapping(r.method))
               THEN {<<line>> : line \in Text \ {""}}
               ELSE {<<>>}

HandlerSeesRequest ==
    /\ TypeOK
    /\ phase = "handling" /\ Conventional(sent) =>
          /\ request.path = sent.path
          /\ sent.method \in Method => request.method = sent.method
          /\ Len(request.headers) = Len(sent.headers)
          /\ \A i \in DOMAIN sent.headers :
                /\ request.headers[i].key = sent.headers[i].key
                /\ sent.headers[i].gap = "one" =>
                      /\ request.headers[i].value = sent.headers[i].value
                      /\ request.headers[i].left = "whole"
          /\ request.body = IF sent.body = <<>> THEN NoBody ELSE [text |-> sent.body[1]]

(***************************************************************************)
(* The handler of a request was added for its path, and for its method or  *)
(* without one; no request is answered "200 OK" without a handler; and a   *)
(* handler whose route nobody disputes is found, whatever was asked for    *)
(* in between.  The router, the comment on what it should do               *)
(* (HttpRouter.cpp:22-25) and README.md:117, which says that a route       *)
(* without a method is for GET, agree                                      *)
(*   - on a route for a method, if the path had no other route for that    *)
(*     method, nor one without a method, when it was added, and has got    *)
(*     no other route for any method since;                                *)
(*   - on a route without a method and GET, if nothing happened to the     *)
(*     path before, and no route for a method was added to it since.       *)
(* Nothing is said where they differ: of a second route for a method, of   *)
(* other methods on a path with a route without one, of the routes a new   *)
(* route for a method takes with it, and of a route without a method that  *)
(* comes after a request for its path.                                     *)
(***************************************************************************)
Of(past, p, type) == {i \in DOMAIN past : past[i].path = p /\ past[i].type = type}

Added(past, p, m) ==
    {past[i].handler : i \in Of(past, p, "all")}
    \union
    {past[i].handler : i \in {j \in Of(past, p, "one") : past[j].method = m}}

Undisputed(past, p, m) ==
    {past[i].handler : i \in
       {j \in Of(past, p, "one") :
          /\ past[j].method = m
          /\ \A k \in Of(past, p, "one") \ {j} : k < j /\ past[k].method # m
          /\ \A k \in Of(past, p, "all") : j < k}}
    \union
    {past[i].handler : i \in
       {j \in Of(past, p, "all") :
          /\ m = "GET" /\ Of(past, p, "one") = {}
          /\ \A k \in DOMAIN past : past[k].path = p => j <= k}}

Past == SubSeq(log, 1, CHOOSE i \in DOMAIN log :
                          /\ log[i].type = "lookup"
                          /\ \A j \in DOMAIN log : log[j].type = "lookup" => j <= i)

RightHandler ==
    /\ phase = "handling" =>
          /\ handler \in Added(Past, request.path, request.method) \union {NoHandler}
          /\ Undisputed(Past, request.path, request.method) \subseteq {handler}
    /\ status = "OK" => handler # NoHandler
===============================================================================
