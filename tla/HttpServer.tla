----------------------------- MODULE HttpServer ------------------------------
(***************************************************************************)
(* BellHTTPServer (io/BellHTTPServer.cpp), its Router first: the routes of *)
(* a server, a tree with one node a path part.                             *)
(*                                                                         *)
(* A route is a sequence of parts: a literal, a parameter (":name") or the *)
(* catch-all ("*").  A node is named by the keys that lead to it, the key  *)
(* of a parameter being "".  The empty part before the first slash, which  *)
(* every route and every uri has, is left out.                             *)
(***************************************************************************)
EXTENDS Integers, Sequences, FiniteSets, TLC

CONSTANTS NoHandler

Literal(text) == [kind |-> "literal", text |-> text]
Param(name) == [kind |-> "param", text |-> name]
CatchAll == [kind |-> "all", text |-> "*"]

NewNode == [value |-> NoHandler, isParam |-> FALSE, paramName |-> "", isCatchAll |-> FALSE]
root == [node \in {<<>>} |-> NewNode]

Key(part) == IF part.kind = "param" THEN "" ELSE part.text

(* The parts before the catch-all; what is behind it is ignored.           *)
Before(route) ==
  LET stars == {i \in DOMAIN route : route[i].kind = "all"}
  IN  IF stars = {} THEN route
      ELSE SubSeq(route, 1, (CHOOSE i \in stars : \A j \in stars : i <= j) - 1)

KeysOf(parts) == [i \in DOMAIN parts |-> Key(parts[i])]

(* Router::insert                                                          *)
insert(tree, route, handler) ==
  LET parts == Before(route)
      keys == KeysOf(parts)
      path == {SubSeq(keys, 1, n) : n \in 0..Len(keys)}
      old(node) == IF node \in DOMAIN tree THEN tree[node] ELSE NewNode
      named(node) == IF Len(node) < Len(parts) /\ parts[Len(node) + 1].kind = "param"
                     THEN [old(node) EXCEPT !.isParam = TRUE,
                                            !.paramName = parts[Len(node) + 1].text]
                     ELSE old(node)
  IN  [node \in DOMAIN tree \union path |->
         IF node = keys
         THEN [named(node) EXCEPT !.value = handler, !.isCatchAll = @ \/ parts # route]
         ELSE IF node \in path THEN named(node) ELSE tree[node]]

NotFound == [handler |-> NoHandler, params |-> <<>>]

Start == [node |-> <<>>, params |-> <<>>, done |-> FALSE, result |-> NotFound]

(* Mutant: parameters go before literals.                                  *)
Follow_ParamFirst(tree, at, text) ==
  LET n == tree[at.node]
  IN  IF at.done THEN at
      ELSE IF n.isParam
      THEN [at EXCEPT !.node = Append(@, ""), !.params = (n.paramName :> text) @@ @]
      ELSE IF Append(at.node, text) \in DOMAIN tree
      THEN [at EXCEPT !.node = Append(@, text)]
      ELSE [at EXCEPT !.done = TRUE]

(* One part of a uri: the literal child first, then the parameter, then    *)
(* the catch-all, and no way back.                                         *)
Follow(tree, at, text) ==
  LET n == tree[at.node]
  IN  IF at.done THEN at
      ELSE IF Append(at.node, text) \in DOMAIN tree
      THEN [at EXCEPT !.node = Append(@, text)]
      ELSE IF n.isParam
      THEN [at EXCEPT !.node = Append(@, ""), !.params = (n.paramName :> text) @@ @]
      ELSE IF n.isCatchAll
      THEN [at EXCEPT !.done = TRUE,
                      !.result = [handler |-> n.value, params |-> ("**" :> "*") @@ at.params]]
      ELSE [at EXCEPT !.done = TRUE]

(* Router::find                                                            *)
find(tree, uri) ==
  LET step[i \in 0..Len(uri)] ==
        IF i = 0 THEN Start ELSE Follow(tree, step[i - 1], uri[i])
      end == step[Len(uri)]
  IN  IF end.done THEN end.result
      ELSE IF tree[end.node].value # NoHandler
      THEN [handler |-> tree[end.node].value, params |-> end.params]
      ELSE NotFound

(***************************************************************************)
(* What find promises, said of the registrations themselves: they are      *)
(* narrowed part by part to those that go on as the uri does, a literal    *)
(* being preferred to a parameter.                                         *)
(***************************************************************************)
GoesOn(route, i, kind) == Len(route) >= i /\ route[i].kind = kind

Narrow(routes, i, text) ==
  LET literal == {r \in routes : GoesOn(r, i, "literal") /\ r[i].text = text}
  IN  IF literal # {} THEN literal ELSE {r \in routes : GoesOn(r, i, "param")}

Narrowed(routes, uri) ==
  LET left[i \in 0..Len(uri)] ==
        IF i = 0 THEN routes ELSE Narrow(left[i - 1], i, uri[i])
  IN  left

(* The routes whose handler answers the uri: those that end with it; or,   *)
(* where none goes on as it does, the catch-all reached there, and a route *)
(* that ends where the catch-all starts, as the two share a node.          *)
Answering(routes, uri) ==
  LET left == Narrowed(routes, uri)
      here(i) == {r \in left[i] : Len(Before(r)) = i}
      reached == CHOOSE i \in 0..Len(uri) :
                   left[i] # {} /\ \A j \in 0..Len(uri) : left[j] # {} => j <= i
  IN  IF routes = {} THEN {}
      ELSE IF reached = Len(uri) THEN here(reached)
      ELSE IF \E r \in here(reached) : Before(r) # r THEN here(reached)
      ELSE {}

------------------------------------------------------------------------------
(***************************************************************************)
(* The server: civetweb (external) gives every connection a worker, which  *)
(* calls handleGet, handlePost or the web socket's callbacks; the routers  *)
(* are filled before the requests come.                                    *)
(***************************************************************************)
CONSTANTS Connection, NoConnection,
          Routes,       (* what is registered                               *)
          Uris,         (* what is asked for                                *)
          MaxRoutes,    (* bound on the registrations                       *)
          MaxAsked,     (* bound on the requests of a connection            *)
          MaxData       (* bound on a web socket's messages                 *)

ASSUME ServerAssumption == NoConnection \notin Connection

VARIABLES getRequestsRouter, postRequestsRouter,
          registered,   (* history: the registrations, in order             *)
          notFoundHandler,
          responseMutex,(* the connection that holds it                     *)
          worker,       (* where each connection's worker is                *)
          request,      (* its request                                      *)
          userData,     (* civetweb's pointer: the params it points to      *)
          replies,      (* history: the replies to the running request      *)
          spoke,        (* history: whether its handler was silent, has     *)
                        (* answered by itself, or has and then threw        *)
          asked,
          socket,       (* a web socket: new, connected, ready, closed, gone*)
          wsStates,     (* history: what stateHandler was told              *)
          wsData        (* history: the state told last, at each message    *)

routeVars == <<getRequestsRouter, postRequestsRouter, registered, notFoundHandler>>
workVars == <<responseMutex, worker, request, userData, replies, spoke, asked>>
wsVars == <<socket, wsStates, wsData>>
serverVars == <<routeVars, workVars, wsVars>>

NoParams == [none |-> "none"]
NoRequest == [verb |-> "none", uri |-> <<>>]

ServerInit ==
  /\ getRequestsRouter = root /\ postRequestsRouter = root
  /\ registered = <<>> /\ notFoundHandler = FALSE
  /\ responseMutex = NoConnection
  /\ worker = [c \in Connection |-> "idle"]
  /\ request = [c \in Connection |-> NoRequest]
  /\ userData = [c \in Connection |-> NoParams]
  /\ replies = [c \in Connection |-> 0]
  /\ spoke = [c \in Connection |-> "silent"]
  /\ asked = [c \in Connection |-> 0]
  /\ socket = "new" /\ wsStates = <<>> /\ wsData = <<>>

Unserved == \A c \in Connection : asked[c] = 0

(* registerGet and registerPost; a registration is its own handler.        *)
Register(verb, route) ==
  /\ Unserved /\ Len(registered) < MaxRoutes
  /\ LET handler == Len(registered) + 1
     IN  /\ registered' = Append(registered, [verb |-> verb, route |-> route])
         /\ IF verb = "GET"
            THEN /\ getRequestsRouter' = insert(getRequestsRouter, route, handler)
                 /\ UNCHANGED postRequestsRouter
            ELSE /\ postRequestsRouter' = insert(postRequestsRouter, route, handler)
                 /\ UNCHANGED getRequestsRouter
  /\ UNCHANGED <<notFoundHandler, workVars, wsVars>>

registerNotFound ==
  /\ Unserved /\ ~notFoundHandler /\ notFoundHandler' = TRUE
  /\ UNCHANGED <<getRequestsRouter, postRequestsRouter, registered, workVars, wsVars>>

At(c, place) == worker' = [worker EXCEPT ![c] = place]
Answered(c) == replies' = [replies EXCEPT ![c] = @ + 1]

Ask(c, verb, uri) ==
  /\ worker[c] = "idle" /\ asked[c] < MaxAsked
  /\ asked' = [asked EXCEPT ![c] = @ + 1]
  /\ request' = [request EXCEPT ![c] = [verb |-> verb, uri |-> uri]]
  /\ replies' = [replies EXCEPT ![c] = 0] /\ spoke' = [spoke EXCEPT ![c] = "silent"]
  /\ At(c, "asked")
  /\ UNCHANGED <<routeVars, responseMutex, userData, wsVars>>

(* Mutant: posts are not serialized.                                       *)
Lock_GetOnly(c) ==
  /\ worker[c] = "asked"
  /\ IF request[c].verb = "GET"
     THEN responseMutex = NoConnection /\ responseMutex' = c
     ELSE UNCHANGED responseMutex
  /\ At(c, "locked")
  /\ UNCHANGED <<routeVars, request, userData, replies, spoke, asked, wsVars>>

Lock(c) ==
  /\ worker[c] = "asked"
  /\ responseMutex = NoConnection /\ responseMutex' = c
  /\ At(c, "locked")
  /\ UNCHANGED <<routeVars, request, userData, replies, spoke, asked, wsVars>>

RouterOf(c) == IF request[c].verb = "GET" THEN getRequestsRouter ELSE postRequestsRouter

(* find, and the call of the handler with the params behind the pointer.   *)
CallHandler(c) ==
  /\ worker[c] = "locked"
  /\ LET found == find(RouterOf(c), request[c].uri)
     IN  /\ found.handler # NoHandler
         /\ userData' = [userData EXCEPT ![c] = found.params]
  /\ At(c, "handler")
  /\ UNCHANGED <<routeVars, responseMutex, request, replies, spoke, asked, wsVars>>

(* A get for nothing registered goes to notFoundHandler; any other one     *)
(* returns false, and civetweb answers it.                                 *)
HandleNotFound(c) ==
  /\ worker[c] = "locked"
  /\ find(RouterOf(c), request[c].uri).handler = NoHandler
  /\ At(c, IF request[c].verb = "GET" /\ notFoundHandler THEN "notFound" ELSE "false")
  /\ UNCHANGED <<routeVars, responseMutex, request, userData, replies, spoke, asked, wsVars>>

(* A handler answers by itself and returns no body, or returns a body;     *)
(* notFoundHandler's body would be ignored.                                *)
HandlerWrites(c) ==
  /\ worker[c] \in {"handler", "notFound"} /\ spoke[c] = "silent"
  /\ Answered(c) /\ spoke' = [spoke EXCEPT ![c] = "answered"]
  /\ UNCHANGED <<routeVars, responseMutex, worker, request, userData, asked, wsVars>>
HandlerReturns(c) ==
  /\ \/ worker[c] \in {"handler", "notFound"} /\ spoke[c] = "answered" /\ At(c, "true")
     \/ worker[c] = "handler" /\ spoke[c] = "silent" /\ At(c, "reply")
  /\ UNCHANGED <<routeVars, responseMutex, request, userData, replies, spoke, asked, wsVars>>

(* It may throw before it answers and after.                               *)
HandlerThrows(c) ==
  /\ worker[c] = "handler" /\ At(c, "false")
  /\ spoke' = [spoke EXCEPT ![c] = IF @ = "answered" THEN "threw" ELSE @]
  /\ UNCHANGED <<routeVars, responseMutex, request, userData, replies, asked, wsVars>>

(* Nobody catches what notFoundHandler throws: civetweb is C, and the      *)
(* process terminates.                                                     *)
NotFoundThrows(c) ==
  /\ worker[c] = "notFound" /\ worker' = [d \in Connection |-> "terminated"]
  /\ UNCHANGED <<routeVars, responseMutex, request, userData, replies, spoke, asked, wsVars>>

SendReply(c) ==
  /\ worker[c] = "reply"
  /\ Answered(c) /\ At(c, "true")
  /\ UNCHANGED <<routeVars, responseMutex, request, userData, spoke, asked, wsVars>>

(* Mutant: a return of false leaves the mutex locked.                      *)
Return_KeepsLock(c) ==
  /\ worker[c] \in {"true", "false"}
  /\ IF worker[c] = "false" THEN Answered(c) ELSE UNCHANGED replies
  /\ At(c, "idle")
  /\ responseMutex' = IF worker[c] = "false" THEN c ELSE NoConnection
  /\ UNCHANGED <<routeVars, request, userData, spoke, asked, wsVars>>

(* Unlock and return; civetweb answers what was not handled.  The pointer  *)
(* stays although the params are gone.                                     *)
Return(c) ==
  /\ worker[c] \in {"true", "false"}
  /\ IF worker[c] = "false" THEN Answered(c) ELSE UNCHANGED replies
  /\ At(c, "idle")
  /\ responseMutex' = NoConnection
  /\ UNCHANGED <<routeVars, request, userData, spoke, asked, wsVars>>

(***************************************************************************)
(* WebSocketHandler, whose callbacks civetweb makes in this order.         *)
(***************************************************************************)
Told(state) == wsStates' = Append(wsStates, state)
Socket(from, to) ==
  /\ \A c \in Connection : worker[c] # "terminated"
  /\ socket \in from /\ socket' = to /\ UNCHANGED <<routeVars, workVars>>

handleConnection == Socket({"new"}, "connected") /\ Told("CONNECTED") /\ UNCHANGED wsData
handleReadyState == Socket({"connected"}, "ready") /\ Told("READY") /\ UNCHANGED wsData
handleData ==
  /\ Len(wsData) < MaxData
  /\ Socket({"ready"}, "ready") /\ UNCHANGED wsStates
  /\ wsData' = Append(wsData, wsStates[Len(wsStates)])

(* A close message: false, which makes civetweb close the connection.      *)
CloseMessage == Socket({"ready"}, "closing") /\ Told("CLOSED") /\ UNCHANGED wsData
handleClose == Socket({"connected", "ready", "closing"}, "gone") /\ Told("CLOSED") /\ UNCHANGED wsData

WebSocketNext == handleConnection \/ handleReadyState \/ handleData \/ CloseMessage \/ handleClose

Serve(c) ==
  \/ Lock(c) \/ CallHandler(c) \/ HandleNotFound(c) \/ HandlerWrites(c)
  \/ HandlerReturns(c) \/ HandlerThrows(c)
  \/ NotFoundThrows(c) \/ SendReply(c) \/ Return(c)

HttpNext ==
  \/ \E verb \in {"GET", "POST"}, route \in Routes : Register(verb, route)
  \/ registerNotFound
  \/ \E c \in Connection :
       \/ \E verb \in {"GET", "POST"}, uri \in Uris : Ask(c, verb, uri)
       \/ Serve(c)

ServerNext == HttpNext \/ WebSocketNext

(* Workers run, handlers return, and the mutex, which is not fair to one   *)
(* worker, is got by a worker that tries again and again.                  *)
ServerFairness == \A c \in Connection : WF_serverVars(Serve(c)) /\ SF_serverVars(Lock(c))
ServerSpec == ServerInit /\ [][ServerNext]_serverVars /\ ServerFairness

(***************************************************************************)
(* Properties.                                                             *)
(***************************************************************************)
(* find answers as Answering says: with the newest registration of those   *)
(* that answer the uri, whatever was registered before and after it.       *)
NewestAnswers ==
  \A verb \in {"GET", "POST"}, uri \in Uris :
    LET router == IF verb = "GET" THEN getRequestsRouter ELSE postRequestsRouter
        routes == {registered[i].route : i \in {j \in DOMAIN registered : registered[j].verb = verb}}
        answering == {i \in DOMAIN registered :
                        registered[i].verb = verb /\ registered[i].route \in Answering(routes, uri)}
        handler == find(router, uri).handler
    IN  IF answering = {} THEN handler = NoHandler
        ELSE handler \in answering /\ \A i \in answering : i <= handler

InHandler(c) == worker[c] \in {"handler", "notFound"}

(* No two handlers run at once, gets, posts and notFoundHandler together:  *)
(* applications keep their state without a lock of their own.              *)
OneHandlerAtATime == \A c, d \in Connection : InHandler(c) /\ InHandler(d) => c = d

(* A handler that asks for its params gets those of its own request.       *)
OwnParams ==
  \A c \in Connection :
    worker[c] = "handler" =>
      userData[c] = find(RouterOf(c), request[c].uri).params

(* A request that has been served has been answered once, whether by its   *)
(* handler, by the server for it, or by civetweb; and twice exactly if its *)
(* handler threw when it had answered.                                     *)
AnsweredOnce ==
  \A c \in Connection :
    worker[c] = "idle" /\ asked[c] > 0 => replies[c] = IF spoke[c] = "threw" THEN 2 ELSE 1

(* An application gets a web socket's messages only between READY and      *)
(* CLOSED.                                                                 *)
DataWhileReady == \A i \in DOMAIN wsData : wsData[i] = "READY"

(* Whatever other connections do at the same time, each request meets its  *)
(* own handler, alone and with its own params, and is answered once, or    *)
(* twice if its handler throws too late.                                   *)
ServesEachApart == OneHandlerAtATime /\ OwnParams /\ AnsweredOnce /\ DataWhileReady

(* Every request is served, unless notFoundHandler ends the process: no    *)
(* worker waits for the mutex for ever.                                    *)
RequestsServed ==
  \A c \in Connection : worker[c] = "asked" ~> worker[c] \in {"idle", "terminated"}

(* An application is told once that a web socket is closed.  Not so: a     *)
(* close message and the close that follows it both tell.                  *)
ClosedOnce == \A i, j \in DOMAIN wsStates : wsStates[i] = "CLOSED" /\ wsStates[j] = "CLOSED" => i = j
==============================================================================
