-------------------------- MODULE ServicesProofs ---------------------------
(***************************************************************************)
(* What other threads call into, for every value of the constants: the     *)
(* HTTP server, the MQTT client, mDNS, and the access lock of the audio    *)
(* buffer.                                                                 *)
(***************************************************************************)
EXTENDS HttpServer, Mqtt, Mdns, AccessLock, SequenceFacts, FiniteSetTheorems

(***************************************************************************)
(* The HTTP server, for any connections, routes and requests.  The mutex   *)
(* is held by the connection that is being served; the params are those of *)
(* the request because no route is registered once there are requests.     *)
(***************************************************************************)

Served == {"locked", "handler", "notFound", "reply", "true", "false"}

SocketState == {"CONNECTED", "READY", "CLOSED"}

ServerTypeOK ==
  /\ worker \in [Connection -> Served \union {"idle", "asked", "terminated"}]
  /\ spoke \in [Connection -> {"silent", "answered", "threw"}]
  /\ replies \in [Connection -> Nat] /\ asked \in [Connection -> Nat]
  /\ DOMAIN userData = Connection /\ DOMAIN request = Connection
  /\ wsStates \in Seq(SocketState) /\ wsData \in Seq(SocketState)

(* Who is served holds the mutex.                                          *)
ServedHolds == \A c \in Connection : worker[c] \in Served => responseMutex = c

(* How often a request has been answered on its way.                       *)
AnswersSoFar ==
  \A c \in Connection :
    /\ worker[c] \notin {"idle", "terminated"} => asked[c] > 0
    /\ worker[c] \in {"asked", "locked", "reply"} => spoke[c] = "silent"
    /\ worker[c] \in {"asked", "locked", "handler", "notFound", "reply", "false"} =>
         replies[c] = IF spoke[c] = "silent" THEN 0 ELSE 1
    /\ worker[c] \in {"handler", "notFound"} => spoke[c] # "threw"
    /\ worker[c] = "false" => spoke[c] # "answered"
    /\ worker[c] = "true" => replies[c] = 1 /\ spoke[c] # "threw"

ReadyWasTold == socket = "ready" => wsStates # <<>> /\ wsStates[Len(wsStates)] = "READY"

ServerInv ==
  /\ ServerTypeOK /\ ServedHolds /\ AnswersSoFar /\ ReadyWasTold
  /\ OwnParams /\ AnsweredOnce /\ DataWhileReady

LEMMA ServerInvInit == ServerInit => ServerInv
<1> SUFFICES ASSUME ServerInit PROVE ServerInv
  OBVIOUS
<1>1. ServerTypeOK /\ ServedHolds /\ AnswersSoFar /\ ReadyWasTold
  BY DEF ServerInit, ServerTypeOK, ServedHolds, AnswersSoFar, ReadyWasTold, Served
<1>2. OwnParams /\ AnsweredOnce
  BY DEF ServerInit, OwnParams, AnsweredOnce
<1>3. DataWhileReady
  BY DEF ServerInit, DataWhileReady
<1> QED
  BY <1>1, <1>2, <1>3 DEF ServerInv

LEMMA HttpStepKeeps ==
  ASSUME ServerInv, HttpNext
  PROVE  ServerInv'
<1> USE DEF ServerInv, ServerTypeOK, ServedHolds, AnswersSoFar, AnsweredOnce, Served
<1>0. HttpNext => UNCHANGED wsVars
  BY DEF HttpNext, Register, registerNotFound, Ask, Serve, Lock, CallHandler, HandleNotFound,
         HandlerWrites, HandlerReturns, HandlerThrows, NotFoundThrows, SendReply,
         Return
<1>1. ReadyWasTold' /\ DataWhileReady' /\ (wsStates \in Seq(SocketState) /\ wsData \in Seq(SocketState))'
  BY <1>0 DEF wsVars, ReadyWasTold, DataWhileReady
<1>2. ASSUME NEW verb \in {"GET", "POST"}, NEW route \in Routes, Register(verb, route)
      PROVE  ServerInv'
  <2>1. UNCHANGED workVars /\ \A c \in Connection : worker[c] \in {"idle", "terminated"}
    BY <1>2 DEF Register, Unserved
  <2>2. OwnParams'
    BY <2>1 DEF workVars, OwnParams
  <2> QED
    BY <1>1, <2>1, <2>2 DEF workVars
<1>3. CASE registerNotFound
  <2>1. UNCHANGED <<getRequestsRouter, postRequestsRouter, workVars>>
    BY <1>3 DEF registerNotFound
  <2>2. OwnParams'
    BY <2>1 DEF workVars, OwnParams, RouterOf
  <2> QED
    BY <1>1, <2>1, <2>2 DEF workVars
<1>4. ASSUME NEW c \in Connection,
             (\E verb \in {"GET", "POST"}, uri \in Uris : Ask(c, verb, uri)) \/ Serve(c)
      PROVE  ServerInv'
  <2>0. UNCHANGED <<getRequestsRouter, postRequestsRouter>>
    BY <1>4 DEF Ask, Serve, Lock, CallHandler, HandleNotFound, HandlerWrites, HandlerReturns,
                HandlerThrows, NotFoundThrows, SendReply, Return, routeVars
  <2>1. ASSUME NEW verb \in {"GET", "POST"}, NEW uri \in Uris, Ask(c, verb, uri)
        PROVE  ServerInv'
    <3>1. OwnParams'
      BY <2>0, <2>1 DEF Ask, At, OwnParams, RouterOf
    <3> QED
      BY <1>1, <2>1, <3>1 DEF Ask, At
  <2>2. ASSUME Lock(c)
        PROVE  ServerInv'
    <3>1. OwnParams'
      BY <2>0, <2>2 DEF Lock, At, OwnParams, RouterOf
    <3> QED
      BY <1>1, <2>2, <3>1, ServerAssumption DEF Lock, At
  <2>3. ASSUME CallHandler(c)
        PROVE  ServerInv'
    <3>1. OwnParams'
      BY <2>0, <2>3 DEF CallHandler, At, OwnParams, RouterOf
    <3> QED
      BY <1>1, <2>3, <3>1 DEF CallHandler, At
  <2>4. ASSUME HandleNotFound(c)
        PROVE  ServerInv'
    <3>1. OwnParams'
      BY <2>0, <2>4 DEF HandleNotFound, At, OwnParams, RouterOf
    <3> QED
      BY <1>1, <2>4, <3>1 DEF HandleNotFound, At
  <2>5. ASSUME HandlerWrites(c)
        PROVE  ServerInv'
    <3>1. OwnParams'
      BY <2>0, <2>5 DEF HandlerWrites, At, OwnParams, RouterOf
    <3> QED
      BY <1>1, <2>5, <3>1 DEF HandlerWrites, At, Answered
  <2>6. ASSUME HandlerReturns(c)
        PROVE  ServerInv'
    <3>1. OwnParams'
      BY <2>0, <2>6 DEF HandlerReturns, At, OwnParams, RouterOf
    <3> QED
      BY <1>1, <2>6, <3>1, ZenonT(60) DEF HandlerReturns, At
  <2>7. ASSUME HandlerThrows(c)
        PROVE  ServerInv'
    <3>1. OwnParams'
      BY <2>0, <2>7 DEF HandlerThrows, At, OwnParams, RouterOf
    <3> QED
      BY <1>1, <2>7, <3>1 DEF HandlerThrows, At
  <2>a. ASSUME NotFoundThrows(c)
        PROVE  ServerInv'
    <3>1. OwnParams'
      BY <2>a DEF NotFoundThrows, OwnParams
    <3> QED
      BY <1>1, <2>a, <3>1 DEF NotFoundThrows
  <2>8. ASSUME SendReply(c)
        PROVE  ServerInv'
    <3>1. OwnParams'
      BY <2>0, <2>8 DEF SendReply, At, OwnParams, RouterOf
    <3> QED
      BY <1>1, <2>8, <3>1 DEF SendReply, At, Answered
  <2>9. ASSUME Return(c)
        PROVE  ServerInv'
    <3>1. OwnParams'
      BY <2>0, <2>9 DEF Return, At, OwnParams, RouterOf
    <3>2. \A d \in Connection : d # c => worker[d] \notin Served
      BY <2>9 DEF Return
    <3>3. /\ worker' = [worker EXCEPT ![c] = "idle"] /\ UNCHANGED <<request, userData, spoke, asked>>
          /\ replies' = IF worker[c] = "false" THEN [replies EXCEPT ![c] = @ + 1] ELSE replies
      BY <2>9 DEF Return, At, Answered
    <3>8. ServerTypeOK'
      BY <1>1, <3>3
    <3>5. AnswersSoFar'
      BY <3>3
    <3>6. /\ replies'[c] = IF spoke'[c] = "threw" THEN 2 ELSE 1
          /\ \A d \in Connection : d # c => replies'[d] = replies[d]
      <4>1. CASE worker[c] = "true"
        BY <3>3, <4>1
      <4>2. CASE worker[c] = "false"
        <5>1. replies[c] = IF spoke[c] = "threw" THEN 1 ELSE 0
          BY <4>2
        <5> QED
          BY <3>3, <4>2, <5>1
      <4> QED
        BY <2>9, <4>1, <4>2 DEF Return
    <3>7. AnsweredOnce'
      BY <3>3, <3>6
    <3>4. ServedHolds'
      BY <2>9, <3>2 DEF Return, At
    <3> QED
      BY <1>1, <3>1, <3>4, <3>5, <3>7, <3>8
  <2> QED
    BY <1>4, <2>1, <2>2, <2>3, <2>4, <2>5, <2>6, <2>7, <2>8, <2>9, <2>a DEF Serve
<1> QED
  BY <1>2, <1>3, <1>4 DEF HttpNext

LEMMA WebSocketStepKeeps ==
  ASSUME ServerInv, WebSocketNext
  PROVE  ServerInv'
<1>1. UNCHANGED <<routeVars, workVars>>
  BY DEF WebSocketNext, handleConnection, handleReadyState, handleData, CloseMessage,
         handleClose, Socket
<1>2. ServedHolds' /\ AnswersSoFar' /\ OwnParams' /\ AnsweredOnce'
  BY <1>1 DEF ServerInv, routeVars, workVars, ServedHolds, AnswersSoFar, OwnParams, AnsweredOnce,
              RouterOf
<1>3. ASSUME NEW told \in SocketState, Told(told)
      PROVE  /\ wsStates' \in Seq(SocketState) /\ wsStates' # <<>>
             /\ wsStates'[Len(wsStates')] = told
  BY <1>3 DEF Told, ServerInv, ServerTypeOK
<1>4. wsStates' \in Seq(SocketState) /\ ReadyWasTold'
  <2>1. Told("CONNECTED") \/ Told("READY") \/ Told("CLOSED") \/ UNCHANGED wsStates
    BY DEF WebSocketNext, handleConnection, handleReadyState, handleData, CloseMessage, handleClose
  <2>2. "CONNECTED" \in SocketState /\ "READY" \in SocketState /\ "CLOSED" \in SocketState
    BY DEF SocketState
  <2>3. wsStates' \in Seq(SocketState)
    BY <1>3, <2>1, <2>2 DEF ServerInv, ServerTypeOK
  <2>4. CASE handleReadyState
    BY <1>3, <2>2, <2>3, <2>4 DEF handleReadyState, ReadyWasTold
  <2>5. CASE handleData
    BY <2>3, <2>5 DEF handleData, Socket, ServerInv, ReadyWasTold
  <2>6. CASE handleConnection \/ CloseMessage \/ handleClose
    BY <2>3, <2>6 DEF handleConnection, CloseMessage, handleClose, Socket, ReadyWasTold
  <2> QED
    BY <2>3, <2>4, <2>5, <2>6 DEF WebSocketNext
<1>5. wsData' \in Seq(SocketState) /\ DataWhileReady'
  <2>1. CASE UNCHANGED wsData
    BY <2>1 DEF ServerInv, ServerTypeOK, DataWhileReady
  <2>2. CASE handleData
    <3>1. wsData' = Append(wsData, "READY")
      BY <2>2 DEF handleData, Socket, ServerInv, ReadyWasTold
    <3>2. wsData \in Seq(SocketState) /\ \A i \in 1..Len(wsData) : wsData[i] = "READY"
      BY DEF ServerInv, ServerTypeOK, DataWhileReady
    <3>3. /\ wsData' \in Seq(SocketState) /\ Len(wsData') = Len(wsData) + 1
          /\ \A i \in 1..Len(wsData) : wsData'[i] = wsData[i]
          /\ wsData'[Len(wsData) + 1] = "READY"
      BY <3>1, <3>2, AppendProperties DEF SocketState
    <3> QED
      BY <3>2, <3>3 DEF DataWhileReady
  <2> QED
    BY <2>1, <2>2 DEF WebSocketNext, handleConnection, handleReadyState, CloseMessage, handleClose
<1>6. ServerTypeOK'
  BY <1>1, <1>4, <1>5 DEF ServerInv, ServerTypeOK, workVars
<1> QED
  BY <1>2, <1>4, <1>5, <1>6 DEF ServerInv

(* Whatever other connections do at the same time, each request meets its  *)
(* own handler, alone and with its own params, and is answered once, or    *)
(* twice if its handler throws when it has answered; a web socket's        *)
(* messages come between READY and CLOSED.                                 *)
THEOREM RequestsAreServedApart == ServerSpec => []ServesEachApart
<1>1. ServerInit => ServerInv
  BY ServerInvInit
<1>2. ServerInv /\ [ServerNext]_serverVars => ServerInv'
  <2>1. ASSUME ServerInv, UNCHANGED serverVars
        PROVE  ServerInv'
    BY <2>1 DEF serverVars, routeVars, workVars, wsVars, ServerInv, ServerTypeOK, ServedHolds,
                AnswersSoFar, ReadyWasTold, OwnParams, AnsweredOnce, DataWhileReady, RouterOf
  <2> QED
    BY <2>1, HttpStepKeeps, WebSocketStepKeeps DEF ServerNext
<1>3. ServerInv => ServesEachApart
  <2>1. ServerInv => OneHandlerAtATime
    BY DEF ServerInv, ServerTypeOK, ServedHolds, OneHandlerAtATime, InHandler, Served
  <2> QED
    BY <2>1 DEF ServesEachApart, ServerInv
<1> QED
  BY <1>1, <1>2, <1>3, PTL DEF ServerSpec

(***************************************************************************)
(* The MQTT client, for every size of the send buffer and any number of    *)
(* messages, sessions and late answers.                                    *)
(***************************************************************************)
Kinds == {"CONNECT", "PUBLISH", "PUBACK", "PUBREC", "PUBREL", "PUBCOMP", "SUBSCRIBE", "PINGREQ",
          "DISCONNECT"}
Packets == [id : Nat, kind : Kinds, qos : 0..2, pid : Nat]
Messages == [id : Nat, kind : Kinds, qos : 0..2, pid : Nat,
             state : {"unsent", "awaiting", "late", "complete"}]

Sent == Range(broker)

MqttTypeOK ==
  /\ mq \subseteq Messages /\ broker \in Seq(Packets) /\ promised \subseteq [id : Nat, qos : 0..2]
  /\ made \in Nat /\ late \in Nat /\ send_offset \in {0, 1} /\ connected \in BOOLEAN
  /\ \A m \in mq : m.id > 0 /\ m.id <= made
  /\ \A b \in Sent : b.id <= made
  /\ \A p \in promised : p.id <= made

(* What tells messages apart.                                              *)
Singles ==
  /\ \A m, n \in mq : m.id = n.id => m = n
  /\ \A m, n \in mq : m.kind = "CONNECT" /\ n.kind = "CONNECT" => m = n
  /\ \A m, n \in mq : m.kind = n.kind /\ m.pid = n.pid /\ m.kind \in {"PUBREC", "PUBREL"} => m = n
  /\ \A m \in mq : m.kind \in {"PUBLISH", "SUBSCRIBE"} => m.pid = m.id
  /\ \A b \in Sent : b.kind \in {"PUBLISH", "SUBSCRIBE"} => b.pid = b.id
  /\ \A m \in mq, b \in Sent : m.id = b.id => b = AtBroker(m)

(* What the queue knows of the broker.                                     *)
SentIsThere ==
  \A m \in mq :
    m.state \in {"awaiting", "late"} \/ (m.kind = "PUBLISH" /\ m.state = "complete")
      => AtBroker(m) \in Sent

UnsentIsLater ==
  \A m \in mq, b \in Sent :
    m.state = "unsent" =>
      m.id # b.id /\ (b.id > m.id => ExactlyOnce(m) /\ ~ExactlyOnce(b))

ConnectWaits ==
  broker = <<>> =>
    /\ connected /\ error = "ok" => mq # {}
    /\ mq # {} => \E c \in mq : /\ c.kind = "CONNECT" /\ c.state = "unsent"
                                /\ \A m \in mq : c.id <= m.id

PromisesQueued ==
  /\ \A p \in promised, m \in mq : m.id = p.id => m.kind = "PUBLISH" /\ m.qos = p.qos
  /\ \A m \in mq : ExactlyOnce(m) => [id |-> m.id, qos |-> 2] \in promised

AnswersToSent == \A a \in answered : \E b \in Sent : b.id = a

(* As long as no answer is late, each message is sent once, and answered   *)
(* when it is complete.                                                    *)
OnTime ==
  late = 0 =>
    /\ \A m \in mq : m.state # "late"
    /\ \A i, j \in DOMAIN broker : broker[i].id = broker[j].id => i = j
    /\ \A b \in Sent : Ends(b) = "awaiting" /\ b.id \notin answered =>
                         \E n \in mq : n.id = b.id /\ n.state # "complete"
    /\ \A m \in mq : m.kind = "PINGREQ" /\ m.id \in answered => m.state = "complete"

TwoExactly == \E p, q \in promised : p.id < q.id /\ p.qos = 2 /\ q.qos = 2

(* And the message that is half sent is the first that is unsent.          *)
HalfIsFirst ==
  \E m \in mq : /\ m.id = half /\ m.state = "unsent"
                /\ \A n \in mq : n.state = "unsent" => m.id <= n.id

Whole ==
  late = 0 /\ ~TwoExactly =>
    ~torn /\ (send_offset = 0 => half = 0) /\ (send_offset = 1 => HalfIsFirst)

MqttInv ==
  /\ MqttTypeOK /\ Singles /\ SentIsThere /\ UnsentIsLater /\ ConnectWaits
  /\ PromisesQueued /\ AnswersToSent /\ OnTime /\ Whole
  /\ ConnectComesFirst /\ SentInOrder /\ ExactlyOnceAlone /\ AcceptedIsKept

LEMMA MqttInvInit == MqttInit => MqttInv
<1> SUFFICES ASSUME MqttInit PROVE MqttInv
  OBVIOUS
<1>1. /\ mq = {} /\ broker = <<>> /\ promised = {} /\ answered = {} /\ made = 0 /\ late = 0
      /\ send_offset = 0 /\ half = 0 /\ torn = FALSE /\ connected = FALSE
  BY DEF MqttInit
<1>2. Sent = {} /\ broker \in Seq(Packets) /\ DOMAIN broker = {}
  BY <1>1 DEF Sent, Range
<1>3. MqttTypeOK /\ Singles /\ SentIsThere /\ UnsentIsLater /\ ConnectWaits
  BY <1>1, <1>2 DEF MqttTypeOK, Singles, SentIsThere, UnsentIsLater, ConnectWaits
<1>4. PromisesQueued /\ AnswersToSent /\ OnTime /\ Whole
  BY <1>1, <1>2 DEF PromisesQueued, AnswersToSent, OnTime, Whole
<1>5. ConnectComesFirst /\ SentInOrder /\ ExactlyOnceAlone /\ AcceptedIsKept
  BY <1>1, <1>2 DEF ConnectComesFirst, SentInOrder, ExactlyOnceAlone, AcceptedIsKept
<1> QED
  BY <1>3, <1>4, <1>5 DEF MqttInv

(* A step that sends nothing: messages of the queue are complete, others   *)
(* that are complete may go, and one may be new.                           *)
Completed(m) == [m EXCEPT !.state = "complete"]

Evolves(done, new) ==
  /\ \A x \in mq' : x \in new \/ (x \in mq /\ x \notin done) \/ \E m \in done : x = Completed(m)
  /\ \A m \in mq : m.state = "complete" \/ m \in done \/ m \in mq'

(* What is new comes last, and no other of its kind has its packet id.     *)
IsNew(new) ==
  /\ \A x, y \in new : x = y
  /\ \A x \in new :
       /\ x \in Messages /\ x.id = made + 1 /\ x.state = "unsent" /\ x.kind # "CONNECT"
       /\ x.kind \in {"PUBLISH", "SUBSCRIBE"} => x.pid = x.id
       /\ x.kind \in {"PUBREC", "PUBREL"} => \A n \in mq : n.kind = x.kind => n.pid # x.pid
       /\ ExactlyOnce(x) => [id |-> x.id, qos |-> 2] \in promised'
  /\ new # {} => made' = made + 1 /\ connected /\ error = "ok" /\ new \subseteq mq'

(* What is complete has been answered.                                     *)
IsDone(done) ==
  /\ \A m \in done : /\ \E b \in Sent : b.id = m.id \/ (m.kind # "PUBLISH" /\ late # 0)
                     /\ m.id \in answered' \/ (m.kind # "PUBLISH" /\ late # 0)
  /\ late = 0 => \A a \in answered' : a \in answered
                                        \/ \A m \in mq : m.id = a /\ m.kind = "PINGREQ" => m \in done

LEMMA RangeIs ==
  ASSUME NEW S, NEW s \in Seq(S)
  PROVE  /\ Range(s) \subseteq S
         /\ \A e \in S : Range(Append(s, e)) = Range(s) \cup {e}
         /\ DOMAIN s = 1..Len(s) /\ Len(s) \in Nat
<1>1. s \in [1..Len(s) -> S] /\ Len(s) \in Nat
  BY LenProperties
<1>2. ASSUME NEW e \in S PROVE Range(Append(s, e)) = Range(s) \cup {e}
  <2>1. /\ Len(Append(s, e)) = Len(s) + 1 /\ DOMAIN Append(s, e) = 1..(Len(s) + 1)
        /\ \A i \in 1..Len(s) : Append(s, e)[i] = s[i]
        /\ Append(s, e)[Len(s) + 1] = e
    BY AppendProperties, LenProperties
  <2>2. \A i \in 1..(Len(s) + 1) : i \in 1..Len(s) \/ i = Len(s) + 1
    BY <1>1
  <2>3. \A i \in 1..Len(s) : i \in 1..(Len(s) + 1)
    BY <1>1
  <2>4. Len(s) + 1 \in 1..(Len(s) + 1) /\ DOMAIN s = 1..Len(s)
    BY <1>1
  <2> QED
    BY <2>1, <2>2, <2>3, <2>4 DEF Range
<1>3. DOMAIN s = 1..Len(s)
  BY <1>1
<1>4. Range(s) \subseteq S
  BY <1>1, <1>3 DEF Range
<1> QED
  BY <1>1, <1>2, <1>3, <1>4

QueueStep(done, new) ==
  /\ Evolves(done, new) /\ IsNew(new) /\ IsDone(done) /\ done \subseteq mq
  /\ UNCHANGED <<broker, late, half, torn, send_offset>>
  /\ made' \in {made, made + 1} /\ connected' \in BOOLEAN
  /\ connected' /\ error' = "ok" => connected /\ error = "ok"
  /\ answered \subseteq answered' /\ \A a \in answered' : \E b \in Sent : b.id = a
  /\ promised' = promised
       \/ \E x \in new : x.kind = "PUBLISH"
                           /\ promised' = promised \cup {[id |-> x.id, qos |-> x.qos]}

LEMMA QueueEvolves ==
  ASSUME MqttInv, NEW done, NEW new, QueueStep(done, new)
  PROVE  MqttInv'
<1>0. /\ MqttTypeOK /\ Singles /\ SentIsThere /\ UnsentIsLater /\ ConnectWaits /\ PromisesQueued
      /\ AnswersToSent /\ OnTime /\ Whole /\ ConnectComesFirst /\ SentInOrder /\ ExactlyOnceAlone
      /\ AcceptedIsKept /\ Evolves(done, new) /\ IsNew(new) /\ IsDone(done) /\ done \subseteq mq
      /\ UNCHANGED <<broker, late, half, torn, send_offset>>
      /\ answered \subseteq answered'
  BY DEF MqttInv, QueueStep
<1>a. made' \in {made, made + 1} /\ made \in Nat /\ late \in Nat
  BY DEF MqttInv, QueueStep, MqttTypeOK
<1>b. /\ connected' \in BOOLEAN
      /\ connected' /\ error' = "ok" => connected /\ error = "ok"
  BY DEF QueueStep
<1>c. promised' = promised
        \/ \E x \in new : x.kind = "PUBLISH"
                            /\ promised' = promised \cup {[id |-> x.id, qos |-> x.qos]}
  BY DEF QueueStep
<1>d. \A a \in answered' : \E b \in Sent : b.id = a
  BY DEF QueueStep
<1>e. \A x \in new : /\ x \in Messages /\ x.id = made + 1 /\ x.state = "unsent" /\ x.kind # "CONNECT"
                     /\ made' = made + 1 /\ x \in mq'
  BY <1>0 DEF IsNew
<1>1. /\ Sent' = Sent /\ \A m \in mq : m \in Messages /\ Completed(m) \in Messages
      /\ \A m \in mq : /\ Completed(m).id = m.id /\ Completed(m).kind = m.kind
                       /\ Completed(m).qos = m.qos /\ Completed(m).pid = m.pid
                       /\ Completed(m).state = "complete" /\ AtBroker(Completed(m)) = AtBroker(m)
      /\ made \in Nat /\ made' \in Nat /\ made <= made' /\ late \in Nat
  BY <1>0, <1>a DEF Sent, Range, MqttTypeOK, Messages, Completed, AtBroker
<1>2. /\ \A x \in mq' : x \in new \/ \E m \in mq : /\ x.id = m.id /\ x.kind = m.kind /\ x.qos = m.qos
                                                   /\ x.pid = m.pid /\ AtBroker(x) = AtBroker(m)
                                                   /\ ExactlyOnce(x) <=> ExactlyOnce(m)
                                                   /\ \/ x = m /\ m \notin done
                                                      \/ m \in done /\ x = Completed(m)
      /\ \A x \in new : x.id = made' /\ made' = made + 1 /\ x.state = "unsent" /\ x \in mq'
  <2>1. ASSUME NEW x \in mq', x \notin new
        PROVE  \E m \in mq : /\ x.id = m.id /\ x.kind = m.kind /\ x.qos = m.qos
                             /\ x.pid = m.pid /\ AtBroker(x) = AtBroker(m)
                             /\ ExactlyOnce(x) <=> ExactlyOnce(m)
                             /\ (x = m /\ m \notin done) \/ (m \in done /\ x = Completed(m))
    <3>1. CASE x \in mq /\ x \notin done
      BY <1>0, <3>1
    <3>2. CASE \E m \in done : x = Completed(m)
      <4>1. PICK m \in done : x = Completed(m)
        BY <1>0, <3>2
      <4>2. m \in mq /\ (ExactlyOnce(x) <=> ExactlyOnce(m))
        BY <1>0, <1>1, <4>1 DEF ExactlyOnce
      <4> QED
        BY <1>0, <1>1, <4>1, <4>2
    <3> QED
      BY <1>0, <2>1, <3>1, <3>2 DEF Evolves
  <2>2. \A x \in new : x.id = made' /\ made' = made + 1 /\ x.state = "unsent" /\ x \in mq'
    BY <1>0 DEF IsNew
  <2> QED
    BY <1>0, <2>1, <2>2
<1>3. \A m \in mq, x \in new : m.id < x.id
  BY <1>0, <1>1, <1>2 DEF MqttTypeOK, Messages
<1>4. MqttTypeOK'
  <2>1. mq' \subseteq Messages /\ \A m \in mq' : m.id > 0 /\ m.id <= made'
    <3>1. ASSUME NEW x \in mq' PROVE x \in Messages /\ x.id > 0 /\ x.id <= made'
      <4>1. CASE x \in new
        BY <1>a, <1>e, <4>1
      <4>2. CASE x \notin new
        BY <1>0, <1>1, <1>2, <4>2 DEF MqttTypeOK, Messages
      <4> QED
        BY <1>0, <4>1, <4>2
    <3> QED
      BY <1>0, <3>1
  <2>2. promised' \subseteq [id : Nat, qos : 0..2] /\ \A p \in promised' : p.id <= made'
    <3>1. promised \subseteq [id : Nat, qos : 0..2] /\ \A p \in promised : p.id <= made'
      BY <1>0, <1>1 DEF MqttTypeOK
    <3>2. \A x \in new : [id |-> x.id, qos |-> x.qos] \in [id : Nat, qos : 0..2] /\ x.id <= made'
      BY <1>a, <1>e DEF Messages
    <3> QED
      BY <1>c, <3>1, <3>2
  <2>3. broker' \in Seq(Packets) /\ late' \in Nat /\ send_offset' \in {0, 1} /\ connected' \in BOOLEAN
    BY <1>0, <1>a, <1>b DEF MqttTypeOK
  <2>4. \A b \in Sent : b.id <= made'
    <3>1. broker \in Seq(Packets) /\ \A b \in Sent : b.id <= made
      BY <1>0 DEF MqttTypeOK
    <3>2. Sent \subseteq Packets
      BY <3>1, RangeIs DEF Sent
    <3>3. \A b \in Sent : b.id \in Nat /\ b.id <= made
      BY <3>1, <3>2 DEF Packets
    <3> QED
      BY <1>a, <3>3
  <2> QED
    BY <1>0, <1>1, <2>1, <2>2, <2>3, <2>4 DEF MqttTypeOK
<1>5. Singles'
  <2>1. ASSUME NEW x \in mq', NEW y \in mq', x.id = y.id PROVE x = y
    BY <1>0, <1>1, <1>2, <1>3, <2>1 DEF Singles, MqttTypeOK, Messages, IsNew
  <2>2. ASSUME NEW x \in mq', NEW y \in mq', x.kind = y.kind, x.pid = y.pid,
               x.kind \in {"PUBREC", "PUBREL"}
        PROVE  x = y
    <3>1. \A u \in new, v \in mq' : u.kind = v.kind /\ u.pid = v.pid
                                     /\ u.kind \in {"PUBREC", "PUBREL"} => u = v
      <4>1. ASSUME NEW u \in new, NEW v \in mq', u.kind = v.kind, u.pid = v.pid,
                   u.kind \in {"PUBREC", "PUBREL"}, v \notin new
            PROVE  FALSE
        <5>1. PICK m \in mq : v.kind = m.kind /\ v.pid = m.pid
          BY <1>0, <1>2, <4>1
        <5> QED
          BY <1>0, <4>1, <5>1 DEF IsNew
      <4> QED
        BY <1>0, <4>1 DEF IsNew
    <3>2. CASE x \notin new /\ y \notin new
      <4>1. PICK m \in mq : /\ x.kind = m.kind /\ x.pid = m.pid
                            /\ (x = m /\ m \notin done) \/ (m \in done /\ x = Completed(m))
        BY <1>0, <1>2, <3>2
      <4>2. PICK n \in mq : /\ y.kind = n.kind /\ y.pid = n.pid
                            /\ (y = n /\ n \notin done) \/ (n \in done /\ y = Completed(n))
        BY <1>0, <1>2, <3>2
      <4>3. m = n
        BY <1>0, <2>2, <4>1, <4>2 DEF Singles
      <4> QED
        BY <1>0, <4>1, <4>2, <4>3, SMTT(30)
    <3> QED
      BY <1>0, <2>2, <3>1, <3>2
  <2>5. ASSUME NEW x \in mq', NEW y \in mq', x.kind = "CONNECT", y.kind = "CONNECT" PROVE x = y
    <3>1. x \notin new /\ y \notin new
      BY <1>e, <2>5
    <3>2. PICK m \in mq : /\ x.kind = m.kind
                          /\ (x = m /\ m \notin done) \/ (m \in done /\ x = Completed(m))
      BY <1>2, <3>1
    <3>3. PICK n \in mq : /\ y.kind = n.kind
                          /\ (y = n /\ n \notin done) \/ (n \in done /\ y = Completed(n))
      BY <1>2, <3>1
    <3>4. m = n
      BY <1>0, <2>5, <3>2, <3>3 DEF Singles
    <3> QED
      BY <3>2, <3>3, <3>4
  <2>3. \A m \in mq' : m.kind \in {"PUBLISH", "SUBSCRIBE"} => m.pid = m.id
    <3>1. ASSUME NEW x \in mq', x.kind \in {"PUBLISH", "SUBSCRIBE"} PROVE x.pid = x.id
      <4>1. CASE x \in new
        BY <1>0, <3>1, <4>1 DEF IsNew
      <4>2. CASE x \notin new
        <5>1. PICK m \in mq : x.id = m.id /\ x.kind = m.kind /\ x.pid = m.pid
          BY <1>0, <1>2, <4>2
        <5> QED
          BY <1>0, <3>1, <5>1 DEF Singles
      <4> QED
        BY <1>0, <4>1, <4>2
    <3> QED
      BY <1>0, <3>1
  <2>4. ASSUME NEW m \in mq', NEW b \in Sent, m.id = b.id PROVE b = AtBroker(m)
    BY <1>0, <1>1, <1>2, <2>4 DEF Singles, MqttTypeOK
  <2> QED
    BY <1>0, <1>1, <2>1, <2>2, <2>3, <2>4, <2>5 DEF Singles
<1>6. SentIsThere'
  <2>1. SUFFICES ASSUME NEW x \in mq', x.state \in {"awaiting", "late"}
                          \/ (x.kind = "PUBLISH" /\ x.state = "complete")
                 PROVE  AtBroker(x) \in Sent
    BY <1>0, <1>1 DEF SentIsThere
  <2>2. PICK m \in mq : /\ x.kind = m.kind /\ AtBroker(x) = AtBroker(m)
                        /\ x = m \/ (m \in done /\ x = Completed(m))
    BY <1>0, <1>2, <2>1
  <2>3. CASE x = m
    BY <1>0, <2>1, <2>3 DEF SentIsThere
  <2>4. CASE m \in done /\ x = Completed(m)
    <3>1. PICK b \in Sent : b.id = m.id
      BY <1>0, <1>1, <2>1, <2>2, <2>4 DEF IsDone
    <3> QED
      BY <1>0, <2>2, <3>1 DEF Singles
  <2> QED
    BY <1>0, <2>2, <2>3, <2>4
<1>7. UnsentIsLater'
  <2>1. SUFFICES ASSUME NEW x \in mq', NEW b \in Sent, x.state = "unsent"
                 PROVE  x.id # b.id /\ (b.id > x.id => ExactlyOnce(x) /\ ~ExactlyOnce(b))
    BY <1>0, <1>1 DEF UnsentIsLater
  <2>2. CASE x \in new
    <3>1. b.id <= made /\ b.id \in Nat /\ x.id = made + 1
      <4>1. broker \in Seq(Packets) /\ \A c \in Sent : c.id <= made
        BY <1>0 DEF MqttTypeOK
      <4>2. Sent \subseteq Packets
        BY <4>1, RangeIs DEF Sent
      <4> QED
        BY <1>e, <2>2, <4>1, <4>2 DEF Packets
    <3> QED
      BY <1>a, <3>1
  <2>3. CASE x \notin new
    BY <1>0, <1>1, <1>2, <2>1, <2>3 DEF UnsentIsLater
  <2> QED
    BY <1>0, <2>2, <2>3
<1>8. ConnectWaits'
  <2>1. SUFFICES ASSUME broker = <<>>
                 PROVE  /\ connected' /\ error' = "ok" => mq' # {}
                        /\ mq' # {} => \E c \in mq' : /\ c.kind = "CONNECT" /\ c.state = "unsent"
                                                      /\ \A m \in mq' : c.id <= m.id
    BY <1>0 DEF ConnectWaits
  <2>2. mq = {} => mq' = {} \/ (connected /\ error = "ok")
    BY <1>0, <1>2 DEF IsNew
  <2>3. CASE mq = {}
    BY <1>0, <1>b, <2>1, <2>2, <2>3 DEF ConnectWaits
  <2>4. CASE mq # {}
    <3>1. PICK c \in mq : /\ c.kind = "CONNECT" /\ c.state = "unsent" /\ \A m \in mq : c.id <= m.id
      BY <1>0, <2>1, <2>4 DEF ConnectWaits
    <3>2. Sent = {}
      BY <1>0, <2>1 DEF Sent, Range
    <3>3. c \notin done /\ c \in mq'
      BY <1>0, <3>1, <3>2 DEF IsDone, Evolves
    <3>4. ASSUME NEW m \in mq' PROVE c.id <= m.id
      BY <1>0, <1>1, <1>2, <1>3, <3>1 DEF Messages
    <3> QED
      BY <1>0, <3>1, <3>3, <3>4
  <2> QED
    BY <1>0, <2>3, <2>4
<1>9. PromisesQueued'
  <2>1. ASSUME NEW p \in promised', NEW x \in mq', x.id = p.id
        PROVE  x.kind = "PUBLISH" /\ x.qos = p.qos
    <3>1. CASE p \in promised /\ x \notin new
      BY <1>0, <1>2, <2>1, <3>1 DEF PromisesQueued
    <3>2. CASE p \in promised /\ x \in new
      BY <1>0, <1>1, <1>2, <2>1, <3>2 DEF MqttTypeOK
    <3>3. CASE p \notin promised
      <4>1. PICK y \in new : y.kind = "PUBLISH" /\ p = [id |-> y.id, qos |-> y.qos]
        BY <1>c, <3>3
      <4>2. x = y
        BY <1>0, <1>2, <1>3, <2>1, <4>1 DEF IsNew, Messages, MqttTypeOK
      <4> QED
        BY <1>0, <4>1, <4>2
    <3> QED
      BY <1>0, <3>1, <3>2, <3>3
  <2>2. ASSUME NEW x \in mq', ExactlyOnce(x)
        PROVE  [id |-> x.id, qos |-> 2] \in promised'
    <3>1. CASE x \in new
      BY <1>0, <2>2, <3>1 DEF IsNew
    <3>2. CASE x \notin new
      <4>1. promised \subseteq promised' /\ \A m \in mq : ExactlyOnce(m) => [id |-> m.id, qos |-> 2] \in promised
        BY <1>0, <1>c DEF PromisesQueued
      <4>2. PICK m \in mq : x.id = m.id /\ (ExactlyOnce(x) <=> ExactlyOnce(m))
        BY <1>2, <3>2
      <4> QED
        BY <2>2, <4>1, <4>2
    <3> QED
      BY <3>1, <3>2
  <2> QED
    BY <1>0, <2>1, <2>2 DEF PromisesQueued, ExactlyOnce
<1>10. AnswersToSent'
  BY <1>1, <1>d DEF AnswersToSent
<1>11. OnTime'
  <2>1. SUFFICES ASSUME late = 0
                 PROVE  /\ \A m \in mq' : m.state # "late"
                        /\ \A i, j \in DOMAIN broker : broker[i].id = broker[j].id => i = j
                        /\ \A b \in Sent : Ends(b) = "awaiting" /\ b.id \notin answered' =>
                             \E n \in mq' : n.id = b.id /\ n.state # "complete"
                        /\ \A m \in mq' : m.kind = "PINGREQ" /\ m.id \in answered'
                                            => m.state = "complete"
    BY <1>0, <1>1 DEF OnTime, Ends
  <2>2. \A m \in mq' : m.state # "late"
    BY <1>0, <1>1, <1>2, <2>1 DEF OnTime
  <2>3. ASSUME NEW b \in Sent, Ends(b) = "awaiting", b.id \notin answered'
        PROVE  \E n \in mq' : n.id = b.id /\ n.state # "complete"
    <3>1. PICK n \in mq : n.id = b.id /\ n.state # "complete"
      BY <1>0, <2>1, <2>3 DEF OnTime
    <3>2. n \notin done
      BY <1>0, <2>1, <2>3, <3>1 DEF IsDone
    <3> QED
      BY <1>0, <3>1, <3>2 DEF Evolves
  <2>4. ASSUME NEW x \in mq', x.kind = "PINGREQ", x.id \in answered'
        PROVE  x.state = "complete"
    <3>1. x \notin new
      <4>1. PICK b \in Sent : b.id = x.id
        BY <1>d, <2>4
      <4>2. b.id <= made
        BY <1>0 DEF MqttTypeOK
      <4> QED
        BY <1>a, <1>e, <4>1, <4>2
    <3>2. PICK m \in mq : /\ x.id = m.id /\ x.kind = m.kind
                          /\ (x = m /\ m \notin done) \/ (m \in done /\ x = Completed(m))
      BY <1>0, <1>2, <3>1
    <3>3. CASE x = m /\ m \notin done
      BY <1>0, <2>1, <2>4, <3>3 DEF OnTime, IsDone
    <3>4. CASE x = Completed(m)
      BY <1>0, <1>1, <3>4
    <3> QED
      BY <1>0, <3>2, <3>3, <3>4
  <2> QED
    BY <1>0, <2>1, <2>2, <2>3, <2>4 DEF OnTime
<1>12. Whole'
  <2>1. SUFFICES ASSUME late = 0, ~TwoExactly'
                 PROVE  /\ ~torn /\ (send_offset = 0 => half = 0)
                        /\ send_offset = 1 => HalfIsFirst'
    BY <1>0 DEF Whole
  <2>2. ~TwoExactly
    BY <1>c, <2>1 DEF TwoExactly
  <2>3. ASSUME send_offset = 1 PROVE HalfIsFirst'
    <3>1. PICK m \in mq : /\ m.id = half /\ m.state = "unsent"
                          /\ \A n \in mq : n.state = "unsent" => m.id <= n.id
      BY <1>0, <2>1, <2>2, <2>3 DEF Whole, HalfIsFirst
    <3>2. m \notin done
      BY <1>0, <2>1, <3>1 DEF IsDone, UnsentIsLater
    <3>3. m \in mq'
      BY <1>0, <3>1, <3>2 DEF Evolves
    <3>4. ASSUME NEW n \in mq', n.state = "unsent" PROVE m.id <= n.id
      BY <1>0, <1>1, <1>2, <1>3, <3>1, <3>4 DEF Messages
    <3> QED
      BY <1>0, <3>1, <3>3, <3>4 DEF HalfIsFirst
  <2> QED
    BY <1>0, <2>1, <2>2, <2>3 DEF Whole
<1>13. ConnectComesFirst' /\ SentInOrder'
  BY <1>0 DEF ConnectComesFirst, SentInOrder, ExactlyOnce
<1>14. ExactlyOnceAlone'
  <2>1. SUFFICES ASSUME NEW x \in mq', NEW y \in mq', ExactlyOnce(x), ExactlyOnce(y), x.id < y.id,
                        y.state # "unsent"
                 PROVE  x.state = "complete"
    BY <1>0 DEF ExactlyOnceAlone, ExactlyOnce
  <2>2. PICK n \in mq : /\ y.id = n.id /\ y.kind = n.kind /\ ExactlyOnce(n)
                        /\ y = n \/ (n \in done /\ y = Completed(n))
    BY <1>0, <1>2, <2>1
  <2>3. x \notin new
    BY <1>0, <1>1, <1>2, <1>3, <2>1, <2>2 DEF MqttTypeOK, Messages
  <2>4. PICK m \in mq : /\ x.id = m.id /\ ExactlyOnce(m)
                        /\ x = m \/ (m \in done /\ x = Completed(m))
    BY <1>0, <1>2, <2>1, <2>3
  <2>5. n.state # "unsent"
    <3>1. CASE y = n
      BY <1>0, <2>1, <3>1
    <3>2. CASE n \in done
      <4>1. PICK b \in Sent : b.id = n.id
        BY <1>0, <2>2, <3>2 DEF IsDone, ExactlyOnce
      <4> QED
        BY <1>0, <4>1 DEF UnsentIsLater
    <3> QED
      BY <1>0, <2>2, <3>1, <3>2
  <2>6. m.state = "complete"
    BY <1>0, <2>1, <2>2, <2>4, <2>5 DEF ExactlyOnceAlone
  <2> QED
    BY <1>0, <1>1, <2>4, <2>6
<1>15. AcceptedIsKept'
  <2>1. SUFFICES ASSUME NEW p \in promised'
                 PROVE  \/ \E m \in mq' : m.id = p.id /\ m.state = "unsent"
                        \/ /\ \E b \in Sent : b.id = p.id
                           /\ \/ p.qos = 0 \/ p.id \in answered'
                              \/ \E m \in mq' : m.id = p.id /\ m.state # "complete"
    BY <1>0, <1>1 DEF AcceptedIsKept, Sent
  <2>2. CASE p \notin promised
    <3>1. PICK x \in new : p.id = x.id
      BY <1>c, <2>1, <2>2
    <3> QED
      BY <1>e, <3>1
  <2>3. CASE p \in promised
    <3>1. \A m \in mq : m.id = p.id => m.kind = "PUBLISH"
      BY <1>0, <2>3 DEF PromisesQueued
    <3>2. ASSUME NEW m \in mq, m.id = p.id, m.state = "unsent" PROVE m \in mq'
      BY <1>0, <3>1, <3>2 DEF IsDone, UnsentIsLater, Evolves
    <3>3. ASSUME NEW m \in mq, m.id = p.id, m.state # "complete"
          PROVE  m \in mq' \/ p.id \in answered'
      BY <1>0, <3>1, <3>3 DEF IsDone, Evolves
    <3>4. \/ \E m \in mq : m.id = p.id /\ m.state = "unsent"
          \/ /\ \E b \in Sent : b.id = p.id
             /\ \/ p.qos = 0 \/ p.id \in answered
                \/ \E m \in mq : m.id = p.id /\ m.state # "complete"
      BY <1>0, <2>3 DEF AcceptedIsKept, Sent
    <3> QED
      BY <1>0, <3>2, <3>3, <3>4
  <2> QED
    BY <1>0, <2>2, <2>3
<1> QED
  BY <1>4, <1>5, <1>6, <1>7, <1>8, <1>9, <1>10, <1>11, <1>12, <1>13, <1>14, <1>15 DEF MqttInv

(***************************************************************************)
(* The steps that send nothing.                                            *)
(***************************************************************************)
LEMMA CleanKeeps ==
  ASSUME NEW queue
  PROVE  /\ Clean(queue) \subseteq queue
         /\ \A m \in queue : m.id <= m.id /\ m.state # "complete" => m \in Clean(queue)
  BY DEF Clean

(* A message that is packed while the queue stands at queue.               *)
LEMMA PackEvolves ==
  ASSUME MqttInv, NEW done, NEW queue, NEW x, NEW new, new = IF Packs THEN {x} ELSE {},
         \A y \in queue : (y \in mq /\ y \notin done) \/ \E m \in done : y = Completed(m),
         \A m \in mq : m \in done \/ m \in queue, done \subseteq mq,
         Pack(queue, x), x.state = "unsent", x.id = made + 1
  PROVE  /\ Evolves(done, new)
         /\ made' = made + 1 /\ (error' = "ok" => error = "ok")
         /\ Packs => x \in mq'
<1> DEFINE room == IF Cardinality(queue) < SendBuffer THEN queue ELSE Clean(queue)
           fits == Cardinality(room) < SendBuffer
<1>1. /\ mq' = IF error # "ok" THEN queue ELSE IF fits THEN room \cup {x} ELSE room
      /\ error' = IF error = "ok" /\ ~fits THEN "full" ELSE error
      /\ made' = made + 1
  BY DEF Pack
<1>2. \A m \in mq : m.id \in Nat
  BY DEF MqttInv, MqttTypeOK, Messages
<1>3. room \subseteq queue
  BY CleanKeeps
<1>4. \A m \in mq : m.state = "complete" \/ m \in done \/ (m \in queue /\ m \in room)
  BY <1>2, CleanKeeps
<1>5. Packs <=> error = "ok" /\ fits
  BY <1>1 DEF Packs
<1> HIDE DEF room, fits
<1>6. \A y \in mq' : y \in queue \/ (Packs /\ y = x)
  BY <1>1, <1>3, <1>5
<1>7. \A m \in mq : m.state = "complete" \/ m \in done \/ m \in mq'
  BY <1>1, <1>4
<1>8. Packs => x \in mq'
  BY <1>1, <1>5
<1> QED
  BY <1>1, <1>6, <1>7, <1>8 DEF Evolves

(* A call of the client, or a message of the broker, or a ping.            *)
LEMMA PackedAlone ==
  ASSUME MqttInv, connected, connected' \in BOOLEAN, NEW kind \in Kinds, NEW qos \in 0..2, NEW pid \in Nat,
         Pack(mq, Unsent(kind, qos, pid)), kind # "CONNECT",
         kind \in {"PUBLISH", "SUBSCRIBE"} => pid = made + 1,
         kind \in {"PUBREC", "PUBREL"} => \A n \in mq : n.kind = kind => n.pid # pid,
         UNCHANGED <<send_offset, broker, answered, late, half, torn>>,
         promised' = IF kind = "PUBLISH" /\ Packs
                     THEN promised \cup {[id |-> made + 1, qos |-> qos]} ELSE promised
  PROVE  MqttInv'
<1> DEFINE x == Unsent(kind, qos, pid)
           new == IF Packs THEN {x} ELSE {}
<1>1. made \in Nat /\ answered' = answered /\ \A a \in answered : \E b \in Sent : b.id = a
  BY DEF MqttInv, MqttTypeOK, AnswersToSent
<1>2. /\ x \in Messages /\ x.id = made + 1 /\ x.kind = kind /\ x.qos = qos /\ x.pid = pid
      /\ x.state = "unsent"
  BY <1>1 DEF Unsent, Messages
<1> HIDE DEF x
<1>3. /\ Evolves({}, new) /\ made' = made + 1 /\ (error' = "ok" => error = "ok")
      /\ Packs => x \in mq'
  <2> DEFINE none == {}
  <2>1. /\ \A y \in mq : (y \in mq /\ y \notin none) \/ \E m \in none : y = Completed(m)
        /\ \A m \in mq : m \in none \/ m \in mq
        /\ Pack(mq, x) /\ none \subseteq mq
    BY DEF x
  <2>2. new = IF Packs THEN {x} ELSE {}
    OBVIOUS
  <2> HIDE DEF new, none
  <2>3. /\ Evolves(none, new) /\ made' = made + 1 /\ (error' = "ok" => error = "ok")
        /\ Packs => x \in mq'
    BY <1>2, <2>1, <2>2, PackEvolves
  <2> QED
    BY <2>3 DEF none
<1>4. IsNew(new)
  <2>1. Packs => error = "ok"
    BY DEF Packs
  <2>2. ExactlyOnce(x) /\ Packs => [id |-> x.id, qos |-> 2] \in promised'
    BY <1>2 DEF ExactlyOnce
  <2>3. ASSUME NEW z \in new
        PROVE  /\ z = x /\ Packs /\ z \in Messages /\ z.id = made + 1 /\ z.state = "unsent"
               /\ z.kind # "CONNECT" /\ (z.kind \in {"PUBLISH", "SUBSCRIBE"} => z.pid = z.id)
               /\ z.kind \in {"PUBREC", "PUBREL"} => \A n \in mq : n.kind = z.kind => n.pid # z.pid
               /\ ExactlyOnce(z) => [id |-> z.id, qos |-> 2] \in promised'
    <3>1. z = x /\ Packs
      OBVIOUS
    <3> QED
      BY <1>2, <2>2, <3>1
  <2>4. new # {} => made' = made + 1 /\ connected /\ error = "ok" /\ new \subseteq mq'
    BY <1>3, <2>1
  <2> QED
    BY <2>3, <2>4 DEF IsNew
<1>5. IsDone({})
  BY <1>1 DEF IsDone
<1>6. promised' = promised
        \/ \E y \in new : y.kind = "PUBLISH" /\ promised' = promised \cup {[id |-> y.id, qos |-> y.qos]}
  <2>1. CASE kind = "PUBLISH" /\ Packs
    <3>1. x \in new /\ x.kind = "PUBLISH" /\ promised' = promised \cup {[id |-> x.id, qos |-> x.qos]}
      BY <1>2, <2>1
    <3> QED
      BY <3>1
  <2>2. CASE ~(kind = "PUBLISH" /\ Packs)
    BY <2>2
  <2> QED
    BY <2>1, <2>2
<1> HIDE DEF new
<1>7. QueueStep({}, new)
  BY <1>1, <1>3, <1>4, <1>5, <1>6 DEF QueueStep
<1> QED
  BY <1>7, QueueEvolves

(* Without late answers, it is the message itself that an answer finds.    *)
LEMMA AnswerFinds ==
  ASSUME MqttInv, NEW b \in Sent, MayAnswer(b), NEW m \in Found(b.kind, b.pid), late = 0
  PROVE  m \in mq /\ m.id = b.id /\ b.id \notin answered
<1>1. /\ m \in mq /\ m.kind = b.kind
      /\ b.kind \in {"CONNECT", "PINGREQ"} => m.state # "complete"
      /\ b.kind \notin {"CONNECT", "PINGREQ"} => m.pid = b.pid
  BY DEF Found
<1>2. /\ \A i, j \in DOMAIN broker : broker[i].id = broker[j].id => i = j
      /\ Ends(b) = "awaiting" /\ b.id \notin answered =>
           \E n \in mq : n.id = b.id /\ n.state # "complete"
      /\ \A n \in mq : n.kind = "PINGREQ" /\ n.id \in answered => n.state = "complete"
      /\ \A n \in mq : n.state # "late"
  BY DEF MqttInv, OnTime
<1>3. b.id \notin answered
  BY <1>2 DEF MayAnswer
<1>4. Ends(b) = "awaiting"
  BY DEF MayAnswer, Ends
<1>5. PICK n \in mq : n.id = b.id /\ n.state # "complete"
  BY <1>2, <1>3, <1>4
<1>6. n.kind = b.kind /\ n.pid = b.pid
  BY <1>5 DEF MqttInv, Singles, AtBroker
<1>7. CASE b.kind \in {"CONNECT", "PUBREC", "PUBREL"}
  BY <1>1, <1>3, <1>5, <1>6, <1>7 DEF MqttInv, Singles
<1>8. CASE b.kind \in {"PUBLISH", "SUBSCRIBE"}
  BY <1>1, <1>3, <1>8 DEF MqttInv, Singles
<1>9. CASE b.kind = "PINGREQ"
  <2>1. m.id <= n.id /\ m.state # "complete" /\ m.id \in Nat /\ b.id \in Nat /\ m.state # "late"
    BY <1>1, <1>2, <1>5, <1>6, <1>9 DEF Found, MqttInv, MqttTypeOK, Messages
  <2>2. CASE m.state = "unsent"
    BY <1>1, <1>5, <1>9, <2>1, <2>2 DEF MqttInv, UnsentIsLater, ExactlyOnce
  <2>3. CASE m.state = "awaiting"
    <3>1. AtBroker(m) \in Sent /\ AtBroker(m).kind = "PINGREQ" /\ AtBroker(m).id = m.id
      BY <1>1, <1>9, <2>3 DEF MqttInv, SentIsThere, AtBroker
    <3>2. m.id < b.id => m.id \in answered
      BY <1>9, <3>1 DEF MayAnswer, Sent
    <3>3. m.id \notin answered
      BY <1>1, <1>2, <1>9, <2>1
    <3> QED
      BY <1>1, <1>3, <1>5, <2>1, <3>2, <3>3
  <2> QED
    BY <1>1, <2>1, <2>2, <2>3 DEF MqttInv, MqttTypeOK, Messages
<1>10. b.kind \in {"CONNECT", "PUBREC", "PUBREL", "PUBLISH", "SUBSCRIBE", "PINGREQ"}
  <2>1. b \in Packets
    BY RangeIs DEF MqttInv, MqttTypeOK, Sent
  <2> QED
    BY <2>1 DEF MayAnswer, Packets, Kinds
<1> QED
  BY <1>7, <1>8, <1>9, <1>10

LEMMA FindsWhatIsThere ==
  ASSUME MqttInv, NEW n \in mq, n.state # "complete" \/ n.kind \notin {"CONNECT", "PINGREQ"}
  PROVE  Found(n.kind, n.pid) # {}
<1> DEFINE these == IF n.kind \in {"CONNECT", "PINGREQ"}
                    THEN {m \in mq : m.kind = n.kind /\ m.state # "complete"}
                    ELSE {m \in mq : m.kind = n.kind /\ m.pid = n.pid}
           ids == {m.id : m \in these}
<1>1. /\ these \subseteq mq /\ n \in these
      /\ Found(n.kind, n.pid) = {m \in these : \A o \in these : m.id <= o.id}
  BY DEF Found
<1> HIDE DEF these
<1>2. ids \subseteq Nat /\ n.id \in ids
  BY <1>1 DEF MqttInv, MqttTypeOK, Messages
<1>3. PICK i \in ids : \A j \in ids : i <= j
  BY <1>2, LeastOfSet
<1>4. PICK m \in these : m.id = i
  BY <1>3
<1> QED
  BY <1>1, <1>3, <1>4

LEMMA AnswerKeeps ==
  ASSUME MqttInv, NEW b \in Range(broker), Answer(b)
  PROVE  MqttInv'
<1>1. /\ MqttTypeOK /\ Singles /\ b \in Sent /\ MayAnswer(b) /\ connected /\ made \in Nat /\ late \in Nat
      /\ b \in Packets /\ connected \in BOOLEAN
  BY RangeIs DEF MqttInv, MqttTypeOK, Answer, Sent
<1>2. /\ answered \subseteq answered' /\ \A a \in answered' : a \in answered \/ a = b.id
      /\ \A a \in answered' : \E c \in Sent : c.id = a
      /\ b.id \in answered'
  BY <1>1 DEF Answer, MqttInv, AnswersToSent
<1>3. UNCHANGED <<connected, broker, promised, late, half, torn, send_offset>>
  BY DEF Answer
(* No message is complete, and none is new.                                *)
<1>4. ASSUME UNCHANGED <<mq, made>>, error' = "ok" => error = "ok",
             \A m \in mq : m.id = b.id /\ m.kind = "PINGREQ" => late # 0
      PROVE  MqttInv'
  <2> DEFINE none == {}
  <2>1. IsDone(none)
    BY <1>2, <1>4 DEF IsDone
  <2>2. Evolves(none, none) /\ IsNew(none)
    BY <1>4 DEF Evolves, IsNew
  <2>3. QueueStep(none, none)
    <3> HIDE DEF none
    <3>1. none \subseteq mq
      BY DEF none
    <3> QED
      BY <1>1, <1>2, <1>3, <1>4, <2>1, <2>2, <3>1 DEF QueueStep
  <2> HIDE DEF none
  <2> QED
    BY <2>3, QueueEvolves
<1>5. CASE ExactlyOnce(b) /\ Found("PUBREL", b.pid) # {}
  <2>1. UNCHANGED <<mq, error, made>>
    BY <1>5 DEF Answer
  <2>2. \A m \in mq : m.id = b.id => m.kind = "PUBLISH"
    BY <1>1, <1>5 DEF Singles, AtBroker, ExactlyOnce
  <2> QED
    BY <1>4, <2>1, <2>2
<1>6. CASE ~(ExactlyOnce(b) /\ Found("PUBREL", b.pid) # {}) /\ Found(b.kind, b.pid) = {}
  <2>1. error' = "broken" /\ UNCHANGED <<mq, made>>
    BY <1>6 DEF Answer
  <2>2. ASSUME NEW m \in mq, m.id = b.id, m.kind = "PINGREQ", late = 0 PROVE FALSE
    <3>1. b.kind = "PINGREQ" /\ Ends(b) = "awaiting" /\ b.id \notin answered
      BY <1>1, <2>2 DEF Singles, AtBroker, Ends, MayAnswer, MqttInv, OnTime
    <3>2. PICK n \in mq : n.id = b.id /\ n.state # "complete"
      BY <1>1, <2>2, <3>1 DEF MqttInv, OnTime
    <3>3. n.kind = b.kind /\ n.pid = b.pid
      BY <1>1, <3>2 DEF Singles, AtBroker
    <3> QED
      BY <1>6, <3>2, <3>3, FindsWhatIsThere
  <2> QED
    BY <1>4, <2>1, <2>2
<1>7. ASSUME ~(ExactlyOnce(b) /\ Found("PUBREL", b.pid) # {}), NEW m \in Found(b.kind, b.pid), Released(b, m)
      PROVE  MqttInv'
  <2> DEFINE done == {m}
             queue == Marked(m, "complete")
             x == Unsent(Reply(b), 0, b.pid)
  <2>1. /\ m \in mq /\ m.kind = b.kind
        /\ m.kind = "PUBLISH" => m.id = b.id
        /\ late = 0 => m.id = b.id
    <3>1. m \in mq /\ m.kind = b.kind /\ (b.kind \notin {"CONNECT", "PINGREQ"} => m.pid = b.pid)
      BY DEF Found
    <3>2. m.kind = "PUBLISH" => m.id = b.id
      BY <1>1, <3>1 DEF Singles
    <3>3. late = 0 => m.id = b.id
      BY <1>1, AnswerFinds
    <3> QED
      BY <3>1, <3>2, <3>3
  <2>2. IsDone(done)
    <3>1. /\ \E c \in Sent : c.id = m.id \/ (m.kind # "PUBLISH" /\ late # 0)
          /\ m.id \in answered' \/ (m.kind # "PUBLISH" /\ late # 0)
      BY <1>1, <1>2, <2>1
    <3>2. late = 0 => \A n \in mq : n.id = b.id => n = m
      BY <1>1, <2>1 DEF Singles
    <3> QED
      BY <1>2, <3>1, <3>2 DEF IsDone
  <2>3. /\ \A y \in queue : (y \in mq /\ y \notin done) \/ \E n \in done : y = Completed(n)
        /\ \A n \in mq : n \in done \/ n \in queue
        /\ done \subseteq mq
    BY <2>1 DEF Marked, Completed
  <2>4. CASE Reply(b) = "none"
    <3> DEFINE none == {}
    <3>1. mq' = queue /\ made' = made /\ (error' = "ok" => error = "ok")
      BY <1>7, <2>4 DEF Released
    <3> HIDE DEF done, queue
    <3>2. Evolves(done, none) /\ IsNew(none)
      BY <2>3, <3>1 DEF Evolves, IsNew
    <3> HIDE DEF none
    <3>3. QueueStep(done, none)
      BY <1>1, <1>2, <1>3, <2>2, <2>3, <3>1, <3>2 DEF QueueStep
    <3> QED
      BY <3>3, QueueEvolves
  <2>5. CASE Reply(b) # "none"
    <3> DEFINE new == IF Packs THEN {x} ELSE {}
    <3>1. Pack(queue, x)
      BY <1>7, <2>5 DEF Released
    <3>2. /\ x \in Messages /\ x.id = made + 1 /\ x.state = "unsent" /\ x.kind = Reply(b)
          /\ x.qos = 0 /\ x.pid = b.pid /\ Reply(b) \in {"PUBREL", "PUBCOMP"}
      BY <1>1, <2>5 DEF Unsent, Messages, Packets, Kinds, Reply
    <3>3. x.kind = "PUBREL" => \A n \in mq : n.kind = "PUBREL" => n.pid # x.pid
      <4>1. x.kind = "PUBREL" => Found("PUBREL", b.pid) = {}
        BY <1>7, <3>2 DEF Reply
      <4>2. \A n \in mq : n.kind = "PUBREL" => Found("PUBREL", n.pid) # {}
        BY FindsWhatIsThere
      <4> QED
        BY <3>2, <4>1, <4>2
    <3>4. new = IF Packs THEN {x} ELSE {}
      OBVIOUS
    <3>5. Packs => error = "ok"
      BY DEF Packs
    <3> HIDE DEF x, queue, done, new
    <3>6. /\ Evolves(done, new) /\ made' = made + 1 /\ (error' = "ok" => error = "ok")
          /\ Packs => x \in mq'
      BY <2>3, <3>1, <3>2, <3>4, PackEvolves
    <3>7. IsNew(new)
      <4>1. \A z \in new : z = x /\ Packs
        BY <3>4
      <4>2. /\ x \in Messages /\ x.id = made + 1 /\ x.state = "unsent" /\ x.kind # "CONNECT"
            /\ x.kind \notin {"PUBLISH", "SUBSCRIBE"} /\ ~ExactlyOnce(x)
            /\ x.kind \in {"PUBREC", "PUBREL"} => \A n \in mq : n.kind = x.kind => n.pid # x.pid
        BY <3>2, <3>3 DEF ExactlyOnce
      <4>3. new # {} => made' = made + 1 /\ connected /\ error = "ok" /\ new \subseteq mq'
        BY <1>1, <3>5, <3>6, <4>1
      <4> QED
        BY <4>1, <4>2, <4>3 DEF IsNew
    <3>8. QueueStep(done, new)
      BY <1>1, <1>2, <1>3, <2>2, <2>3, <3>6, <3>7 DEF QueueStep
    <3> QED
      BY <3>8, QueueEvolves
  <2> QED
    BY <2>4, <2>5
<1> QED
  BY <1>5, <1>6, <1>7 DEF Answer

(***************************************************************************)
(* The steps that mark a message that is not complete, and send it.        *)
(***************************************************************************)
LEMMA MarkedParts ==
  ASSUME MqttInv, NEW m \in mq, NEW mark \in {"awaiting", "late", "complete"}, mq' = Marked(m, mark)
  PROVE  /\ \A x \in mq' : /\ x \in Messages
                           /\ \E n \in mq : /\ x.id = n.id /\ x.kind = n.kind /\ x.qos = n.qos
                                            /\ x.pid = n.pid /\ AtBroker(x) = AtBroker(n)
                                            /\ ExactlyOnce(x) <=> ExactlyOnce(n)
                                            /\ (x = n /\ n # m) \/ (n = m /\ x.state = mark)
         /\ \A n \in mq : n = m \/ n \in mq'
         /\ \E x \in mq' : x.id = m.id /\ x.state = mark
         /\ \A x, y \in mq' : x.id = m.id /\ y.id = m.id => x = y
<1> DEFINE marked == [m EXCEPT !.state = mark]
<1>1. mq' = (mq \ {m}) \cup {marked} /\ mq \subseteq Messages
  BY DEF Marked, MqttInv, MqttTypeOK
<1>2. /\ marked \in Messages /\ marked.id = m.id /\ marked.kind = m.kind /\ marked.qos = m.qos
      /\ marked.pid = m.pid /\ AtBroker(marked) = AtBroker(m) /\ marked.state = mark
      /\ ExactlyOnce(marked) <=> ExactlyOnce(m)
  BY <1>1 DEF Messages, AtBroker, ExactlyOnce
<1> HIDE DEF marked
<1>3. \A x \in mq' : (x \in mq /\ x # m) \/ x = marked
  BY <1>1
<1>4. \A x, y \in mq' : x.id = m.id /\ y.id = m.id => x = y
  BY <1>2, <1>3 DEF MqttInv, Singles
<1> QED
  BY <1>1, <1>2, <1>3, <1>4

(* What does not depend on the messages' states.                           *)
LEMMA MarkedSingles ==
  ASSUME MqttInv, NEW m \in mq, NEW mark \in {"awaiting", "late", "complete"}, mq' = Marked(m, mark)
  PROVE  /\ \A x, y \in mq' : x.id = y.id => x = y
         /\ \A x, y \in mq' : x.kind = "CONNECT" /\ y.kind = "CONNECT" => x = y
         /\ \A x, y \in mq' : x.kind = y.kind /\ x.pid = y.pid /\ x.kind \in {"PUBREC", "PUBREL"} => x = y
         /\ \A x \in mq' : x.kind \in {"PUBLISH", "SUBSCRIBE"} => x.pid = x.id
         /\ \A p \in promised, x \in mq' : x.id = p.id => x.kind = "PUBLISH" /\ x.qos = p.qos
         /\ \A x \in mq' : ExactlyOnce(x) => [id |-> x.id, qos |-> 2] \in promised
<1>1. /\ \A x \in mq' : \E n \in mq : /\ x.id = n.id /\ x.kind = n.kind /\ x.qos = n.qos
                                      /\ x.pid = n.pid /\ (ExactlyOnce(x) <=> ExactlyOnce(n))
                                      /\ (x = n /\ n # m) \/ n = m
      /\ \A x, y \in mq' : x.id = m.id /\ y.id = m.id => x = y
  BY MarkedParts
<1>2. Singles /\ PromisesQueued
  BY DEF MqttInv
<1>3. ASSUME NEW x \in mq', NEW y \in mq',
             \A n, o \in mq : n.id = x.id /\ n.kind = x.kind /\ n.pid = x.pid
                              /\ o.id = y.id /\ o.kind = y.kind /\ o.pid = y.pid => n = o
      PROVE  x = y
  <2>1. PICK n \in mq : x.id = n.id /\ x.kind = n.kind /\ x.pid = n.pid /\ ((x = n /\ n # m) \/ n = m)
    BY <1>1
  <2>2. PICK o \in mq : y.id = o.id /\ y.kind = o.kind /\ y.pid = o.pid /\ ((y = o /\ o # m) \/ o = m)
    BY <1>1
  <2>3. n = o
    BY <1>3, <2>1, <2>2
  <2> QED
    BY <1>1, <2>1, <2>2, <2>3
<1>4. \A x, y \in mq' : x.id = y.id => x = y
  BY <1>2, <1>3 DEF Singles
<1>5. \A x, y \in mq' : x.kind = "CONNECT" /\ y.kind = "CONNECT" => x = y
  BY <1>2, <1>3 DEF Singles
<1>6. \A x, y \in mq' : x.kind = y.kind /\ x.pid = y.pid /\ x.kind \in {"PUBREC", "PUBREL"} => x = y
  BY <1>2, <1>3 DEF Singles
<1>7. ASSUME NEW x \in mq'
      PROVE  /\ x.kind \in {"PUBLISH", "SUBSCRIBE"} => x.pid = x.id
             /\ \A p \in promised : x.id = p.id => x.kind = "PUBLISH" /\ x.qos = p.qos
             /\ ExactlyOnce(x) => [id |-> x.id, qos |-> 2] \in promised
  <2>1. PICK n \in mq : /\ x.id = n.id /\ x.kind = n.kind /\ x.qos = n.qos /\ x.pid = n.pid
                        /\ ExactlyOnce(x) <=> ExactlyOnce(n)
    BY <1>1
  <2> QED
    BY <1>2, <2>1 DEF Singles, PromisesQueued
<1> QED
  BY <1>4, <1>5, <1>6, <1>7

LEMMA LateKeeps ==
  ASSUME MqttInv, NEW m \in mq, AnswerIsLate(m)
  PROVE  MqttInv'
<1>1. /\ mq' = Marked(m, "late") /\ m.state = "awaiting" /\ late \in Nat /\ late' = late + 1
      /\ UNCHANGED <<connected, error, send_offset, made, broker, promised, answered, half, torn>>
  BY DEF AnswerIsLate, MqttInv, MqttTypeOK
<1>2. /\ \A x \in mq' : /\ x \in Messages
                        /\ \E n \in mq : /\ x.id = n.id /\ x.kind = n.kind /\ x.qos = n.qos
                                         /\ x.pid = n.pid /\ AtBroker(x) = AtBroker(n)
                                         /\ ExactlyOnce(x) <=> ExactlyOnce(n)
                                         /\ (x = n /\ n # m) \/ (n = m /\ x.state = "late")
      /\ \A n \in mq : n = m \/ n \in mq'
      /\ \E x \in mq' : x.id = m.id /\ x.state = "late"
  BY <1>1, MarkedParts
<1>3. Sent' = Sent
  BY <1>1 DEF Sent
<1>4. MqttTypeOK' /\ AnswersToSent'
  <2>1. \A x \in mq' : x \in Messages /\ x.id > 0 /\ x.id <= made
    BY <1>2 DEF MqttInv, MqttTypeOK
  <2> QED
    BY <1>1, <1>3, <2>1 DEF MqttInv, MqttTypeOK, AnswersToSent
<1>5. Singles' /\ PromisesQueued'
  <2>1. \A x \in mq', b \in Sent : x.id = b.id => b = AtBroker(x)
    BY <1>2 DEF MqttInv, Singles
  <2>2. \A b \in Sent : b.kind \in {"PUBLISH", "SUBSCRIBE"} => b.pid = b.id
    BY DEF MqttInv, Singles
  <2> QED
    BY <1>1, <1>3, <2>1, <2>2, MarkedSingles DEF Singles, PromisesQueued, ExactlyOnce
<1>6. SentIsThere'
  BY <1>1, <1>2, <1>3 DEF MqttInv, SentIsThere
<1>7. UnsentIsLater'
  <2>1. \A x \in mq' : x.state = "unsent" => x \in mq
    BY <1>2
  <2> QED
    BY <1>3, <2>1 DEF MqttInv, UnsentIsLater, ExactlyOnce
<1>8. ConnectWaits'
  <2>1. broker # <<>>
    <3>1. Sent # {}
      BY <1>1 DEF MqttInv, SentIsThere
    <3> QED
      BY <3>1 DEF Sent, Range
  <2> QED
    BY <1>1, <2>1 DEF ConnectWaits
<1>9. OnTime' /\ Whole'
  BY <1>1 DEF OnTime, Whole
<1>10. ConnectComesFirst' /\ SentInOrder'
  BY <1>1 DEF MqttInv, ConnectComesFirst, SentInOrder, ExactlyOnce
<1>11. ExactlyOnceAlone'
  <2>1. SUFFICES ASSUME NEW x \in mq', NEW y \in mq', ExactlyOnce(x), ExactlyOnce(y), x.id < y.id,
                        y.state # "unsent"
                 PROVE  x.state = "complete"
    BY DEF ExactlyOnceAlone, ExactlyOnce
  <2>2. PICK n \in mq : y.id = n.id /\ ExactlyOnce(n) /\ n.state # "unsent"
    BY <1>1, <1>2, <2>1
  <2>3. PICK o \in mq : /\ x.id = o.id /\ ExactlyOnce(o)
                        /\ (x = o /\ o # m) \/ (o = m /\ x.state = "late")
    BY <1>2, <2>1
  <2>4. o.state = "complete"
    BY <2>1, <2>2, <2>3 DEF MqttInv, ExactlyOnceAlone
  <2> QED
    BY <1>1, <2>3, <2>4
<1>12. AcceptedIsKept'
  <2>1. \A n \in mq : n.state # "complete" => \E x \in mq' : x.id = n.id /\ x.state # "complete"
    BY <1>2
  <2>2. \A n \in mq : n.state = "unsent" => n \in mq'
    BY <1>1, <1>2
  <2> QED
    BY <1>1, <1>3, <2>1, <2>2 DEF MqttInv, AcceptedIsKept, Sent
<1> QED
  BY <1>4, <1>5, <1>6, <1>7, <1>8, <1>9, <1>10, <1>11, <1>12 DEF MqttInv

(* Without late answers and two messages of QoS 2 nothing is held back: it *)
(* is the first that is unsent which is sent, from where it was left.      *)
LEMMA FirstIsSent ==
  ASSUME MqttInv, NEW m \in mq, ToSend(m), \A n \in mq : n.id < m.id => ~ToSend(n),
         late = 0, ~TwoExactly
  PROVE  /\ Offset(m) = send_offset /\ m.state = "unsent"
         /\ \A n \in mq : n.state = "unsent" => m.id <= n.id
         /\ half = IF send_offset = 0 THEN 0 ELSE m.id
<1>1. /\ \A n \in mq : n.id \in Nat /\ n.state # "late"
      /\ \A n, o \in mq : n.id = o.id => n = o
      /\ \A n \in mq : ExactlyOnce(n) => [id |-> n.id, qos |-> 2] \in promised
      /\ send_offset \in {0, 1}
  BY DEF MqttInv, MqttTypeOK, Messages, OnTime, Singles, PromisesQueued
<1>2. ASSUME NEW n \in mq PROVE ~HeldBack(n)
  <2>1. SUFFICES ASSUME HeldBack(n) PROVE FALSE
    OBVIOUS
  <2>2. PICK o \in mq : o.id < n.id /\ ExactlyOnce(o) /\ ExactlyOnce(n)
    BY <2>1 DEF HeldBack
  <2>3. [id |-> o.id, qos |-> 2] \in promised /\ [id |-> n.id, qos |-> 2] \in promised
    BY <1>1, <2>2
  <2> QED
    BY <2>2, <2>3 DEF TwoExactly
<1>3. ASSUME NEW n \in mq, n.state = "unsent" PROVE m.id <= n.id
  BY <1>1, <1>2, <1>3 DEF ToSend
<1>4. Offset(m) = send_offset /\ m.state = "unsent"
  BY <1>1 DEF Offset, ToSend
<1>5. half = IF send_offset = 0 THEN 0 ELSE m.id
  <2>1. CASE send_offset = 0
    BY <2>1 DEF MqttInv, Whole
  <2>2. CASE send_offset = 1
    <3>1. PICK n \in mq : /\ n.id = half /\ n.state = "unsent"
                          /\ \A o \in mq : o.state = "unsent" => n.id <= o.id
      BY <2>2 DEF MqttInv, Whole, HalfIsFirst
    <3> QED
      BY <1>1, <1>3, <1>4, <2>2, <3>1
  <2> QED
    BY <1>1, <2>1, <2>2
<1> QED
  BY <1>3, <1>4, <1>5

(* A part is sent, or nothing.                                             *)
LEMMA PartKeeps ==
  ASSUME MqttInv, NEW m \in mq, ToSend(m), \A n \in mq : n.id < m.id => ~ToSend(n),
         NEW upto \in {0, 1}, Offset(m) <= upto, Offset(m) \in {0, 1},
         torn' = (torn \/ (upto > Offset(m) /\ half # IF Offset(m) = 0 THEN 0 ELSE m.id)),
         half' = IF upto = Offset(m) THEN half ELSE m.id,
         send_offset' = upto,
         UNCHANGED <<mq, broker, connected, error, made, promised, answered, late>>
  PROVE  MqttInv'
<1>1. Sent' = Sent
  BY DEF Sent
<1>2. MqttTypeOK' /\ Singles' /\ SentIsThere' /\ UnsentIsLater'
  BY <1>1 DEF MqttInv, MqttTypeOK, Singles, SentIsThere, UnsentIsLater, AtBroker, ExactlyOnce
<1>3. ConnectWaits' /\ PromisesQueued' /\ AnswersToSent' /\ OnTime'
  BY <1>1 DEF MqttInv, ConnectWaits, PromisesQueued, AnswersToSent, OnTime, ExactlyOnce, Ends
<1>4. ConnectComesFirst' /\ SentInOrder' /\ ExactlyOnceAlone' /\ AcceptedIsKept'
  BY DEF MqttInv, ConnectComesFirst, SentInOrder, ExactlyOnceAlone, AcceptedIsKept, ExactlyOnce
<1>5. Whole'
  <2>1. SUFFICES ASSUME late = 0, ~TwoExactly
                 PROVE  ~torn' /\ (upto = 0 => half' = 0) /\ (upto = 1 => HalfIsFirst')
    BY DEF Whole, TwoExactly
  <2>2. /\ Offset(m) = send_offset /\ m.state = "unsent"
        /\ \A n \in mq : n.state = "unsent" => m.id <= n.id
        /\ half = IF send_offset = 0 THEN 0 ELSE m.id
    BY <2>1, FirstIsSent
  <2>3. ~torn
    BY <2>1 DEF MqttInv, Whole
  <2>4. (upto = 0 => half' = 0) /\ (upto = 1 => half' = m.id)
    BY <2>2
  <2>5. ~(upto > Offset(m) /\ half # IF Offset(m) = 0 THEN 0 ELSE m.id)
    BY <2>2
  <2>6. ~torn'
    BY <2>3, <2>5, Zenon
  <2> QED
    BY <2>2, <2>4, <2>6 DEF HalfIsFirst
<1> QED
  BY <1>2, <1>3, <1>4, <1>5 DEF MqttInv

(* The end of m is sent.                                                   *)
LEMMA EndKeeps ==
  ASSUME MqttInv, NEW m \in mq, ToSend(m), \A n \in mq : n.id < m.id => ~ToSend(n),
         torn' = (torn \/ half # IF Offset(m) = 0 THEN 0 ELSE m.id), half' = 0,
         send_offset' = 0, mq' = Marked(m, Ends(m)), broker' = Append(broker, AtBroker(m)),
         UNCHANGED <<connected, error, made, promised, answered, late>>
  PROVE  MqttInv'
<1>a. /\ MqttTypeOK /\ Singles /\ SentIsThere /\ UnsentIsLater /\ ConnectWaits /\ PromisesQueued
      /\ AnswersToSent /\ OnTime /\ Whole /\ ConnectComesFirst /\ SentInOrder /\ ExactlyOnceAlone
      /\ AcceptedIsKept
  BY DEF MqttInv
<1>0. /\ mq \subseteq Messages /\ broker \in Seq(Packets) /\ m.state \in {"unsent", "late"}
      /\ m \in Messages /\ m.id \in Nat /\ m.id > 0 /\ m.id <= made /\ ~HeldBack(m)
      /\ \A n, o \in mq : n.id = o.id => n = o
  BY <1>a DEF MqttTypeOK, Messages, Singles, ToSend
<1>1. Ends(m) \in {"awaiting", "complete"}
  BY DEF Ends
<1>2. /\ \A x \in mq' : /\ x \in Messages
                        /\ \E n \in mq : /\ x.id = n.id /\ x.kind = n.kind /\ x.qos = n.qos
                                         /\ x.pid = n.pid /\ AtBroker(x) = AtBroker(n)
                                         /\ ExactlyOnce(x) <=> ExactlyOnce(n)
                                         /\ (x = n /\ n # m) \/ (n = m /\ x.state = Ends(m))
      /\ \A n \in mq : n = m \/ n \in mq'
      /\ \E x \in mq' : x.id = m.id /\ x.state = Ends(m)
  BY <1>1, MarkedParts
<1>3. /\ AtBroker(m) \in Packets /\ AtBroker(m).id = m.id /\ AtBroker(m).kind = m.kind
      /\ AtBroker(m).pid = m.pid /\ (ExactlyOnce(AtBroker(m)) <=> ExactlyOnce(m))
      /\ Ends(AtBroker(m)) = Ends(m)
  BY <1>0 DEF AtBroker, Packets, Messages, ExactlyOnce, Ends
<1>4. /\ Sent' = Sent \cup {AtBroker(m)} /\ Sent \subseteq Packets
      /\ DOMAIN broker = 1..Len(broker) /\ Len(broker) \in Nat
  <2>1. broker' = Append(broker, AtBroker(m)) /\ AtBroker(m) \in Packets /\ broker \in Seq(Packets)
    BY <1>0, <1>3
  <2> QED
    BY <2>1, RangeIs DEF Sent
<1>5. /\ broker' \in Seq(Packets) /\ DOMAIN broker' = 1..(Len(broker) + 1)
      /\ \A i \in 1..Len(broker) : broker'[i] = broker[i]
      /\ broker'[Len(broker) + 1] = AtBroker(m)
  BY <1>0, <1>3, AppendProperties, LenProperties
<1>6. MqttTypeOK'
  <2>1. \A x \in mq' : x \in Messages /\ x.id > 0 /\ x.id <= made
    BY <1>a, <1>2 DEF MqttTypeOK
  <2>2. \A b \in Sent' : b.id <= made
    BY <1>a, <1>0, <1>3, <1>4 DEF MqttTypeOK
  <2> QED
    BY <1>a, <1>5, <2>1, <2>2 DEF MqttTypeOK
<1>7. Singles' /\ PromisesQueued'
  <2>1. ASSUME NEW x \in mq', NEW b \in Sent', x.id = b.id PROVE b = AtBroker(x)
    <3>1. PICK n \in mq : x.id = n.id /\ AtBroker(x) = AtBroker(n)
      BY <1>2
    <3>2. CASE b \in Sent
      BY <1>a, <2>1, <3>1, <3>2 DEF Singles
    <3>3. CASE b = AtBroker(m)
      BY <1>0, <1>3, <2>1, <3>1, <3>3
    <3> QED
      BY <1>4, <3>2, <3>3
  <2>2. \A b \in Sent' : b.kind \in {"PUBLISH", "SUBSCRIBE"} => b.pid = b.id
    BY <1>a, <1>3, <1>4 DEF Singles
  <2>3. \A x \in mq', b \in Sent' : x.id = b.id => b = AtBroker(x)
    BY <2>1
  <2>4. /\ \A x, y \in mq' : x.id = y.id => x = y
        /\ \A x, y \in mq' : x.kind = "CONNECT" /\ y.kind = "CONNECT" => x = y
        /\ \A x, y \in mq' : x.kind = y.kind /\ x.pid = y.pid /\ x.kind \in {"PUBREC", "PUBREL"} => x = y
        /\ \A x \in mq' : x.kind \in {"PUBLISH", "SUBSCRIBE"} => x.pid = x.id
        /\ \A p \in promised, x \in mq' : x.id = p.id => x.kind = "PUBLISH" /\ x.qos = p.qos
        /\ \A x \in mq' : ExactlyOnce(x) => [id |-> x.id, qos |-> 2] \in promised
    BY <1>1, MarkedSingles
  <2>5. Singles'
    BY <2>2, <2>3, <2>4 DEF Singles, AtBroker
  <2> QED
    BY <2>4, <2>5 DEF PromisesQueued, ExactlyOnce
<1>8. SentIsThere'
  <2>1. \A x \in mq' : x.state \in {"awaiting", "late"} \/ (x.kind = "PUBLISH" /\ x.state = "complete")
                         => AtBroker(x) \in Sent'
    BY <1>a, <1>2, <1>4 DEF SentIsThere
  <2> QED
    BY <2>1 DEF SentIsThere, AtBroker
<1>9. UnsentIsLater'
  <2>1. SUFFICES ASSUME NEW x \in mq', NEW b \in Sent', x.state = "unsent"
                 PROVE  x.id # b.id /\ (b.id > x.id => ExactlyOnce(x) /\ ~ExactlyOnce(b))
    BY DEF UnsentIsLater, ExactlyOnce
  <2>2. x \in mq /\ x # m
    BY <1>1, <1>2, <2>1
  <2>3. CASE b \in Sent
    BY <1>a, <2>1, <2>2, <2>3 DEF UnsentIsLater
  <2>4. CASE b = AtBroker(m)
    <3>1. x.id # m.id
      BY <1>0, <2>2
    <3>2. ASSUME m.id > x.id PROVE ExactlyOnce(x) /\ ~ExactlyOnce(m)
      <4>1. ~ToSend(x) /\ x.id \in Nat
        BY <1>0, <2>2, <3>2 DEF Messages
      <4>2. PICK n \in mq : n.id < x.id /\ ExactlyOnce(n) /\ n.state # "complete" /\ ExactlyOnce(x)
        BY <2>1, <4>1 DEF ToSend, HeldBack
      <4>3. n.id < m.id
        BY <1>0, <3>2, <4>1, <4>2 DEF Messages
      <4> QED
        BY <1>0, <4>2, <4>3 DEF HeldBack
    <3> QED
      BY <1>3, <2>4, <3>1, <3>2
  <2> QED
    BY <1>4, <2>3, <2>4
<1>10. ConnectWaits' /\ AnswersToSent'
  <2>1. broker' # <<>>
    BY <1>4, <1>5
  <2> QED
    BY <1>a, <1>4, <2>1 DEF ConnectWaits, AnswersToSent
<1>11. OnTime'
  <2>1. SUFFICES ASSUME late = 0
                 PROVE  /\ \A x \in mq' : x.state # "late"
                        /\ \A i, j \in DOMAIN broker' : broker'[i].id = broker'[j].id => i = j
                        /\ \A b \in Sent' : Ends(b) = "awaiting" /\ b.id \notin answered =>
                             \E n \in mq' : n.id = b.id /\ n.state # "complete"
                        /\ \A x \in mq' : x.kind = "PINGREQ" /\ x.id \in answered
                                            => x.state = "complete"
    BY DEF OnTime, Ends
  <2>2. m.state = "unsent" /\ \A b \in Sent : m.id # b.id
    BY <1>a, <1>0, <2>1 DEF OnTime, UnsentIsLater
  <2>3. \A x \in mq' : x.state # "late"
    BY <1>a, <1>1, <1>2, <2>1 DEF OnTime
  <2>4. ASSUME NEW i \in DOMAIN broker', NEW j \in DOMAIN broker', broker'[i].id = broker'[j].id
        PROVE  i = j
    <3>1. \A k \in 1..Len(broker) : broker[k].id # m.id
      BY <1>4, <2>2 DEF Sent, Range
    <3>2. \A k, l \in 1..Len(broker) : broker[k].id = broker[l].id => k = l
      BY <1>a, <1>4, <2>1 DEF OnTime
    <3>3. \A k \in 1..(Len(broker) + 1) : k \in 1..Len(broker) \/ k = Len(broker) + 1
      BY <1>4
    <3> QED
      BY <1>3, <1>5, <2>4, <3>1, <3>2, <3>3
  <2>5. ASSUME NEW b \in Sent', Ends(b) = "awaiting", b.id \notin answered
        PROVE  \E n \in mq' : n.id = b.id /\ n.state # "complete"
    <3>1. CASE b \in Sent
      <4>1. PICK n \in mq : n.id = b.id /\ n.state # "complete"
        BY <1>a, <2>1, <2>5, <3>1 DEF OnTime
      <4> QED
        BY <1>2, <2>2, <3>1, <4>1
    <3>2. CASE b = AtBroker(m)
      BY <1>2, <1>3, <2>5, <3>2
    <3> QED
      BY <1>4, <3>1, <3>2
  <2>6. ASSUME NEW x \in mq', x.kind = "PINGREQ", x.id \in answered PROVE x.state = "complete"
    <3>1. PICK n \in mq : x.id = n.id /\ x.kind = n.kind /\ ((x = n /\ n # m) \/ n = m)
      BY <1>2
    <3>2. m.id \notin answered
      BY <1>a, <2>2 DEF AnswersToSent
    <3> QED
      BY <1>a, <2>1, <2>6, <3>1, <3>2 DEF OnTime
  <2> QED
    BY <2>3, <2>4, <2>5, <2>6
<1>12. Whole'
  <2>1. SUFFICES ASSUME late = 0, ~TwoExactly PROVE ~torn'
    BY DEF Whole, TwoExactly
  <2>2. half = IF Offset(m) = 0 THEN 0 ELSE m.id
    BY <2>1, FirstIsSent
  <2> QED
    BY <1>a, <2>1, <2>2 DEF Whole
<1>13. ConnectComesFirst'
  <2>1. CASE broker = <<>>
    <3>1. PICK c \in mq : /\ c.kind = "CONNECT" /\ c.state = "unsent" /\ \A n \in mq : c.id <= n.id
      BY <1>a, <2>1 DEF ConnectWaits
    <3>2. ToSend(c)
      BY <3>1 DEF ToSend, HeldBack, ExactlyOnce
    <3>3. c.id = m.id
      BY <1>0, <3>1, <3>2 DEF Messages
    <3>4. c = m /\ Len(broker) = 0
      BY <1>0, <2>1, <3>3
    <3> QED
      BY <1>3, <1>5, <3>1, <3>4 DEF ConnectComesFirst
  <2>2. CASE broker # <<>>
    <3>1. 1 \in 1..Len(broker)
      BY <1>0, <1>4, <2>2
    <3> QED
      BY <1>a, <1>5, <2>2, <3>1 DEF ConnectComesFirst
  <2> QED
    BY <2>1, <2>2
<1>14. SentInOrder'
  <2>1. SUFFICES ASSUME NEW i \in DOMAIN broker', NEW j \in DOMAIN broker', i < j,
                        broker'[i].id > broker'[j].id
                 PROVE  \/ ExactlyOnce(broker'[j]) /\ ~ExactlyOnce(broker'[i])
                        \/ \E k \in 1..(i - 1) : broker'[k].id = broker'[j].id
    BY DEF SentInOrder, ExactlyOnce
  <2>2. i \in 1..Len(broker) /\ broker'[i] = broker[i] /\ i - 1 \in Int
        /\ \A k \in 1..(i - 1) : k \in 1..Len(broker) /\ broker'[k] = broker[k]
    BY <1>4, <1>5, <2>1
  <2>3. CASE j \in 1..Len(broker)
    <3>1. i < j /\ broker[i].id > broker[j].id /\ broker'[j] = broker[j]
      BY <1>5, <2>1, <2>2, <2>3
    <3>2. \/ ExactlyOnce(broker[j]) /\ ~ExactlyOnce(broker[i])
          \/ \E k \in 1..(i - 1) : broker[k].id = broker[j].id
      BY <1>a, <1>4, <2>2, <2>3, <3>1 DEF SentInOrder
    <3> QED
      BY <2>2, <3>1, <3>2
  <2>4. CASE j = Len(broker) + 1
    <3>1. broker'[j] = AtBroker(m) /\ broker[i].id > m.id /\ broker[i] \in Sent
      BY <1>3, <1>4, <1>5, <2>1, <2>2, <2>4 DEF Sent, Range
    <3>2. CASE m.state = "unsent"
      BY <1>a, <1>3, <2>2, <3>1, <3>2 DEF UnsentIsLater
    <3>3. CASE m.state = "late"
      <4>1. PICK k \in 1..Len(broker) : broker[k] = AtBroker(m)
        BY <1>a, <1>4, <3>3 DEF SentIsThere, Sent, Range
      <4>2. k # i /\ broker[k].id = m.id
        BY <1>0, <1>3, <3>1, <4>1
      <4>3. CASE k < i
        <5>1. k \in 1..(i - 1)
          BY <2>2, <4>3
        <5> QED
          BY <1>3, <2>2, <3>1, <4>2, <5>1
      <4>4. CASE k > i
        <5>1. \/ ExactlyOnce(broker[k]) /\ ~ExactlyOnce(broker[i])
              \/ \E l \in 1..(i - 1) : broker[l].id = broker[k].id
          BY <1>a, <1>4, <2>2, <3>1, <4>2, <4>4 DEF SentInOrder
        <5> QED
          BY <1>3, <2>2, <3>1, <4>1, <5>1
      <4> QED
        BY <2>2, <4>2, <4>3, <4>4
    <3> QED
      BY <1>0, <3>2, <3>3
  <2> QED
    BY <1>4, <1>5, <2>3, <2>4
<1>15. ExactlyOnceAlone'
  <2>1. SUFFICES ASSUME NEW x \in mq', NEW y \in mq', ExactlyOnce(x), ExactlyOnce(y), x.id < y.id,
                        y.state # "unsent"
                 PROVE  x.state = "complete"
    BY DEF ExactlyOnceAlone, ExactlyOnce
  <2>2. PICK n \in mq : /\ y.id = n.id /\ ExactlyOnce(n)
                        /\ (y = n /\ n # m) \/ n = m
    BY <1>2, <2>1
  <2>3. PICK o \in mq : /\ x.id = o.id /\ ExactlyOnce(o)
                        /\ (x = o /\ o # m) \/ o = m
    BY <1>2, <2>1
  <2>4. CASE n # m
    BY <1>a, <1>0, <2>1, <2>2, <2>3, <2>4 DEF ExactlyOnceAlone
  <2>5. CASE n = m
    BY <1>0, <2>1, <2>2, <2>3, <2>5 DEF HeldBack, Messages
  <2> QED
    BY <2>4, <2>5
<1>16. AcceptedIsKept'
  <2>1. SUFFICES ASSUME NEW p \in promised
                 PROVE  \/ \E x \in mq' : x.id = p.id /\ x.state = "unsent"
                        \/ /\ \E b \in Sent' : b.id = p.id
                           /\ \/ p.qos = 0 \/ p.id \in answered
                              \/ \E x \in mq' : x.id = p.id /\ x.state # "complete"
    BY DEF AcceptedIsKept, Sent
  <2>2. \/ \E x \in mq : x.id = p.id /\ x.state = "unsent"
        \/ /\ \E b \in Sent : b.id = p.id
           /\ \/ p.qos = 0 \/ p.id \in answered
              \/ \E x \in mq : x.id = p.id /\ x.state # "complete"
    BY <1>a DEF AcceptedIsKept, Sent
  <2>3. CASE m.id = p.id
    <3>1. m.kind = "PUBLISH" /\ m.qos = p.qos
      BY <1>a, <2>3 DEF PromisesQueued
    <3>2. p.qos = 0 \/ Ends(m) = "awaiting"
      BY <3>1 DEF Ends
    <3> QED
      BY <1>2, <1>3, <1>4, <2>3, <3>2
  <2>4. CASE m.id # p.id
    BY <1>2, <1>4, <2>2, <2>4
  <2> QED
    BY <2>3, <2>4
<1> QED
  BY <1>6, <1>7, <1>8, <1>9, <1>10, <1>11, <1>12, <1>13, <1>14, <1>15, <1>16 DEF MqttInv

LEMMA SendKeeps ==
  ASSUME MqttInv, NEW m \in mq, Send(m)
  PROVE  MqttInv'
<1>1. /\ ToSend(m) /\ \A n \in mq : n.id < m.id => ~ToSend(n)
      /\ UNCHANGED <<connected, error, made, promised, answered, late>>
  BY DEF Send
<1>2. Offset(m) \in {0, 1}
  BY DEF Offset, MqttInv, MqttTypeOK
<1> DEFINE from == Offset(m)
<1>3. PICK upto \in from..2 :
        /\ torn' = (torn \/ (upto > from /\ half # IF from = 0 THEN 0 ELSE m.id))
        /\ half' = IF upto = from THEN half ELSE IF upto = 2 THEN 0 ELSE m.id
        /\ IF upto = 2
           THEN /\ send_offset' = 0 /\ mq' = Marked(m, Ends(m))
                /\ broker' = Append(broker, AtBroker(m))
           ELSE send_offset' = upto /\ UNCHANGED <<mq, broker>>
  BY DEF Send
<1> HIDE DEF from
<1>4. from \in {0, 1} /\ from = Offset(m)
  BY <1>2 DEF from
<1>5. CASE upto = 2
  <2>1. /\ torn' = (torn \/ half # IF from = 0 THEN 0 ELSE m.id) /\ half' = 0 /\ send_offset' = 0
        /\ mq' = Marked(m, Ends(m)) /\ broker' = Append(broker, AtBroker(m))
    BY <1>3, <1>4, <1>5
  <2> QED
    BY <1>1, <1>4, <2>1, EndKeeps
<1>6. CASE upto # 2
  <2>1. upto \in {0, 1} /\ from <= upto
    BY <1>3, <1>4, <1>6
  <2>2. /\ torn' = (torn \/ (upto > from /\ half # IF from = 0 THEN 0 ELSE m.id))
        /\ half' = IF upto = from THEN half ELSE m.id
        /\ send_offset' = upto /\ UNCHANGED <<mq, broker>>
    BY <1>3, <1>6
  <2> QED
    BY <1>1, <1>4, <2>1, <2>2, PartKeeps
<1> QED
  BY <1>5, <1>6

(* The socket breaks, or the step changes nothing.                         *)
LEMMA BreakKeeps ==
  ASSUME MqttInv, error' \in {error, "broken"},
         UNCHANGED <<connected, mq, send_offset, made, broker, promised, answered, late, half, torn>>
  PROVE  MqttInv'
<1> DEFINE none == {}
<1>1. /\ made \in Nat /\ connected \in BOOLEAN /\ \A a \in answered : \E b \in Sent : b.id = a
      /\ error' = "ok" => error = "ok"
  BY DEF MqttInv, MqttTypeOK, AnswersToSent
<1>2. /\ Evolves(none, none) /\ IsNew(none) /\ IsDone(none) /\ \A m \in none : m \in mq
  BY DEF Evolves, IsNew, IsDone
<1>3. none \subseteq mq
  BY <1>2
<1> HIDE DEF none
<1>4. QueueStep(none, none)
  BY <1>1, <1>2, <1>3 DEF QueueStep
<1> QED
  BY <1>4, QueueEvolves

(* A session is new.                                                       *)
LEMMA ConnectKeeps ==
  ASSUME MqttInv, NewSession, made' \in {made, made + 1}, connected' \in BOOLEAN,
         \/ mq' = {} /\ error' # "ok"
         \/ made' = made + 1 /\ mq' = {Unsent("CONNECT", 0, 0)}
  PROVE  MqttInv'
<1> DEFINE c == Unsent("CONNECT", 0, 0)
<1>1. made \in Nat
  BY DEF MqttInv, MqttTypeOK
<1>2. /\ broker' = <<>> /\ promised' = {} /\ answered' = {} /\ late' = 0 /\ send_offset' = 0
      /\ half' = 0 /\ torn' = FALSE
  BY DEF NewSession
<1>3. Sent' = {} /\ broker' \in Seq(Packets) /\ DOMAIN broker' = {}
  BY <1>2 DEF Sent, Range
<1>4. /\ c \in Messages /\ c.id = made + 1 /\ c.kind = "CONNECT" /\ c.state = "unsent"
  BY <1>1 DEF Unsent, Messages, Kinds
<1> HIDE DEF c
<1>5. /\ \A m \in mq' : m = c /\ made' = made + 1
      /\ mq' = {} => error' # "ok"
  BY DEF c
<1>6. MqttTypeOK' /\ Singles'
  BY <1>1, <1>2, <1>3, <1>4, <1>5 DEF MqttTypeOK, Singles
<1>7. SentIsThere' /\ UnsentIsLater'
  BY <1>2, <1>3, <1>4, <1>5 DEF SentIsThere, UnsentIsLater
<1>8. ConnectWaits'
  <2>1. mq' # {} => \E m \in mq' : m.kind = "CONNECT" /\ m.state = "unsent" /\ \A n \in mq' : m.id <= n.id
    <3>1. c.id <= c.id
      BY <1>1, <1>4
    <3> QED
      BY <1>4, <1>5, <3>1
  <2> QED
    BY <1>5, <2>1 DEF ConnectWaits
<1>9. PromisesQueued' /\ AnswersToSent' /\ OnTime'
  BY <1>2, <1>3, <1>4, <1>5 DEF PromisesQueued, AnswersToSent, OnTime, ExactlyOnce
<1>10. Whole'
  BY <1>2 DEF Whole
<1>11. ConnectComesFirst' /\ SentInOrder' /\ AcceptedIsKept'
  BY <1>2, <1>3 DEF ConnectComesFirst, SentInOrder, AcceptedIsKept
<1>12. ExactlyOnceAlone'
  BY <1>4, <1>5 DEF ExactlyOnceAlone, ExactlyOnce
<1> QED
  BY <1>6, <1>7, <1>8, <1>9, <1>10, <1>11, <1>12 DEF MqttInv

LEMMA MqttInvStep == MqttInv /\ [MqttNext]_mqttVars => MqttInv'
<1> SUFFICES ASSUME MqttInv, [MqttNext]_mqttVars PROVE MqttInv'
  OBVIOUS
<1>0. made \in Nat /\ connected \in BOOLEAN
  BY DEF MqttInv, MqttTypeOK
<1>1. CASE UNCHANGED mqttVars
  BY <1>1, BreakKeeps DEF mqttVars, historyVars
<1>2. CASE connect
  <2>1. CASE UNCHANGED mqttVars
    BY <1>1, <2>1
  <2>2. CASE mq' = {} /\ error' = "full" /\ NewSession /\ UNCHANGED <<connected, made>>
    BY <1>0, <2>2, ConnectKeeps
  <2>3. CASE Connected({})
    <3>1. /\ mq' = {Unsent("CONNECT", 0, 0)} /\ made' = made + 1 /\ connected' = TRUE /\ NewSession
      BY <2>3 DEF Connected
    <3> QED
      BY <3>1, ConnectKeeps
  <2> QED
    BY <1>2, <2>1, <2>2, <2>3 DEF connect
<1>3. CASE subscribe
  <2>1. /\ connected /\ Pack(mq, Unsent("SUBSCRIBE", 0, made + 1)) /\ made + 1 \in Nat
        /\ "SUBSCRIBE" \in Kinds
        /\ UNCHANGED <<connected, send_offset, broker, answered, late, half, torn, promised>>
    BY <1>0, <1>3 DEF subscribe, historyVars, Kinds
  <2> QED
    BY <1>0, <2>1, PackedAlone
<1>4. CASE disconnect
  <2>1. /\ connected /\ Pack(mq, Unsent("DISCONNECT", 0, 0)) /\ "DISCONNECT" \in Kinds
        /\ connected' \in BOOLEAN
        /\ UNCHANGED <<send_offset, broker, answered, late, half, torn, promised>>
    BY <1>4 DEF disconnect, historyVars, Kinds
  <2> QED
    BY <2>1, PackedAlone
<1>5. ASSUME NEW qos \in 0..2, publish(qos) PROVE MqttInv'
  <2>1. /\ connected /\ Pack(mq, Unsent("PUBLISH", qos, made + 1)) /\ made + 1 \in Nat
        /\ "PUBLISH" \in Kinds
        /\ promised' = IF Packs THEN promised \cup {[id |-> made + 1, qos |-> qos]} ELSE promised
        /\ UNCHANGED <<connected, send_offset, broker, answered, late, half, torn>>
    BY <1>0, <1>5 DEF publish, Kinds
  <2> QED
    BY <1>0, <2>1, PackedAlone
<1>6. ASSUME NEW qos \in {1, 2}, Published(qos) PROVE MqttInv'
  <2>1. /\ connected /\ UNCHANGED <<connected, send_offset, broker, answered, late, half, torn, promised>>
        /\ {"PUBACK", "PUBREC"} \subseteq Kinds
    BY <1>6 DEF Published, historyVars, Kinds
  <2>2. CASE UNCHANGED <<mq, error, made>>
    BY <2>1, <2>2, BreakKeeps
  <2>3. CASE Pack(mq, Unsent("PUBACK", 0, 1))
    BY <1>0, <2>1, <2>3, PackedAlone
  <2>4. CASE Found("PUBREC", 1) = {} /\ Pack(mq, Unsent("PUBREC", 0, 1))
    <3>1. \A n \in mq : n.kind = "PUBREC" => n.pid # 1
      BY <2>4, FindsWhatIsThere
    <3> QED
      BY <1>0, <2>1, <2>4, <3>1, PackedAlone
  <2> QED
    BY <1>6, <2>2, <2>3, <2>4 DEF Published
<1>7. CASE SocketBreaks
  BY <1>7, BreakKeeps DEF SocketBreaks, historyVars
<1>8. CASE KeepAlive
  <2>1. /\ connected /\ Pack(mq, Unsent("PINGREQ", 0, 0)) /\ "PINGREQ" \in Kinds
        /\ UNCHANGED <<connected, send_offset, broker, answered, late, half, torn, promised>>
    BY <1>8 DEF KeepAlive, historyVars, Kinds
  <2> QED
    BY <1>0, <2>1, PackedAlone
<1> QED
  BY <1>1, <1>2, <1>3, <1>4, <1>5, <1>6, <1>7, <1>8, AnswerKeeps, SendKeeps, LateKeeps
  DEF MqttNext, mqttSync

LEMMA MqttInvSafe == MqttInv => SessionsKeepPackets
<1> SUFFICES ASSUME MqttInv PROVE SessionsKeepPackets
  OBVIOUS
<1>1. PacketsAreWhole
  BY DEF MqttInv, MqttTypeOK, Whole, TwoExactly, PacketsAreWhole
<1> QED
  BY <1>1 DEF MqttInv, SessionsKeepPackets

(* For every size of the send buffer, number of messages and of answers    *)
(* that are late: what publish accepted is in the queue until it was sent, *)
(* and answered when it asks for that; a message overtakes another only    *)
(* when the other is sent again or is one of QoS 2 that waits; and nothing *)
(* is torn but by late answers and two messages of QoS 2 (mqtt.c).         *)
THEOREM PacketsAreKept ==
  MqttInit /\ [][MqttNext]_mqttVars => []SessionsKeepPackets
<1>1. MqttInv /\ [][MqttNext]_mqttVars => []MqttInv
  BY MqttInvStep, PTL
<1>2. []MqttInv => []SessionsKeepPackets
  BY MqttInvSafe, PTL
<1> QED
  BY MqttInvInit, <1>1, <1>2, PTL

(***************************************************************************)
(* mDNS, for any number of services, when registering and leaving do not   *)
(* overlap and Avahi, where it is built in, does not fail.                 *)
(***************************************************************************)
Counted == {s \in Service : state[s] \in {"service", "removed"}}
Left == {s \in Service : state[s] = "gone"}

MdnsTypeOK ==
  /\ build \in Builds
  /\ state \in [Service -> {"new", "entered", "served", "service", "group", "removed", "last",
                            "gone", "failed"}]
  /\ on \in [Service -> Nat]
  /\ server \in Nat /\ client \in Nat /\ started \in Nat /\ stopped \subseteq Nat /\ instances \in Nat
  /\ Leaving = {} \/ Entering = {}

(* The built-in server: instances counts the services that are on it, and  *)
(* the server that is there has not been stopped.                          *)
BuiltInInv ==
  /\ \A s \in Service : state[s] # "group"
  /\ instances = Cardinality(Counted)
  /\ \A s \in Counted : on[s] = server
  /\ \A s \in Service :
       /\ state[s] \in {"served", "service", "removed"} => server # Null
       /\ state[s] = "last" => Counted = {}
  /\ server \notin stopped /\ server <= started /\ Null \notin stopped
  /\ \A n \in stopped : n <= started
  /\ server # Null =>
       \E s \in Service : state[s] \in {"served", "service", "removed", "last", "failed"}

(* Avahi's services are never counted in, only out: the count goes below 0 *)
(* and wraps, but reaches 0 again only after Wrap services, so that no     *)
(* service is the last one.                                                *)
AvahiInv ==
  /\ \A s \in Service : state[s] \in {"new", "entered", "group", "removed", "gone"}
  /\ instances = IF Left = {} THEN 0 ELSE Wrap - Cardinality(Left)
  /\ stopped = {}

MdnsInv ==
  /\ MdnsTypeOK
  /\ build # "avahi" => BuiltInInv
  /\ build = "avahi" => AvahiInv

LEMMA MdnsInvInit == MdnsInit => MdnsInv
<1> SUFFICES ASSUME MdnsInit PROVE MdnsInv
  OBVIOUS
<1>1. MdnsTypeOK
  BY DEF MdnsInit, MdnsTypeOK, Leaving, Entering, Null
<1>2. Counted = {} /\ Left = {}
  BY DEF MdnsInit, Counted, Left
<1>3. BuiltInInv
  BY <1>2, FS_EmptySet DEF MdnsInit, BuiltInInv, Null
<1>4. AvahiInv
  BY <1>2 DEF MdnsInit, AvahiInv
<1> QED
  BY <1>1, <1>3, <1>4 DEF MdnsInv

(* One service more in a set of them, or one less.                         *)
LEMMA CountOne ==
  ASSUME NEW T \in SUBSET Service, NEW s \in Service
  PROVE  /\ IsFiniteSet(T) /\ Cardinality(T) \in Nat /\ Cardinality(T) <= Cardinality(Service)
         /\ Cardinality(Service) \in Nat /\ Cardinality(Service) < Wrap /\ Wrap \in Nat
         /\ Cardinality(T) = 0 <=> T = {}
         /\ s \notin T => /\ Cardinality(T \union {s}) = Cardinality(T) + 1
                          /\ Cardinality(T) + 1 <= Cardinality(Service)
         /\ s \in T => Cardinality(T \ {s}) = Cardinality(T) - 1
<1>1. IsFiniteSet(Service) /\ Wrap \in Nat /\ Wrap > 2 * Cardinality(Service)
  BY MdnsAssumption
<1>2. IsFiniteSet(T) /\ Cardinality(T) <= Cardinality(Service)
  BY <1>1, FS_Subset
<1>3. Cardinality(T) \in Nat /\ Cardinality(Service) \in Nat
  BY <1>1, <1>2, FS_CardinalityType
<1>4. Cardinality(T) = 0 <=> T = {}
  BY <1>2, FS_EmptySet
<1>5. ASSUME s \notin T
      PROVE  Cardinality(T \union {s}) = Cardinality(T) + 1 /\ Cardinality(T) + 1 <= Cardinality(Service)
  <2>1. Cardinality(T \union {s}) = Cardinality(T) + 1
    BY <1>2, <1>5, FS_AddElement
  <2>2. T \union {s} \in SUBSET Service
    OBVIOUS
  <2>3. Cardinality(T \union {s}) <= Cardinality(Service)
    BY <1>1, <2>2, FS_Subset
  <2> QED
    BY <2>1, <2>3
<1>6. s \in T => Cardinality(T \ {s}) = Cardinality(T) - 1
  BY <1>2, FS_RemoveElement
<1> QED
  BY <1>1, <1>2, <1>3, <1>4, <1>5, <1>6

LEMMA MdnsTypeStep ==
  ASSUME ~Overlap, MdnsTypeOK, NEW s \in Service,
         \/ Enter(s) \/ RegisterAvahi(s) \/ StartServer(s) \/ RegisterService(s)
         \/ RemoveService(s) \/ Decrement(s) \/ Stop(s)
  PROVE  MdnsTypeOK'
<1> USE DEF MdnsTypeOK, Become, In
<1> DEFINE Stages == {"new", "entered", "served", "service", "group", "removed", "last",
                      "gone", "failed"}
<1>1. build' \in Builds /\ started' \in Nat /\ server' \in Nat /\ client' \in Nat
  BY DEF Enter, RegisterAvahi, StartServer, RegisterService, RemoveService, Decrement, Stop, Null
<1>2. state' \in [Service -> Stages]
  BY DEF Enter, RegisterAvahi, StartServer, RegisterService, RemoveService, Decrement, Stop
<1>3. instances' \in Nat
  <2>0. {} \in SUBSET Service
    OBVIOUS
  <2>1. Wrap \in Nat /\ Cardinality(Service) \in Nat /\ Cardinality(Service) < Wrap
    BY <2>0, CountOne
  <2>2. (instances + 1) % Wrap \in Nat /\ (instances - 1) % Wrap \in Nat
    BY <2>1
  <2> QED
    BY <2>2 DEF Enter, RegisterAvahi, StartServer, RegisterService, RemoveService, Decrement, Stop
<1>4. Leaving' = {} \/ Entering' = {}
  BY <1>2 DEF Enter, RegisterAvahi, StartServer, RegisterService, RemoveService, Decrement, Stop,
            Leaving, Entering, MayLeave
<1>5. on' \in [Service -> Nat]
  BY <1>1 DEF Enter, RegisterAvahi, StartServer, RegisterService, RemoveService, Decrement, Stop
<1>6. stopped' \subseteq Nat
  BY DEF Enter, RegisterAvahi, StartServer, RegisterService, RemoveService, Decrement, Stop
<1> QED
  BY <1>1, <1>2, <1>3, <1>4, <1>5, <1>6

(* The services not touched by a step are counted as before.               *)
LEMMA CountedBecomes ==
  ASSUME MdnsTypeOK, NEW s \in Service, NEW to, Become(s, to)
  PROVE  /\ Counted' = IF to \in {"service", "removed"} THEN Counted \union {s} ELSE Counted \ {s}
         /\ Left' = IF to = "gone" THEN Left \union {s} ELSE Left \ {s}
         /\ state'[s] = to /\ \A t \in Service \ {s} : state'[t] = state[t]
BY DEF MdnsTypeOK, Become, Counted, Left

LEMMA BuiltInStep ==
  ASSUME ~Overlap, MdnsTypeOK, MdnsTypeOK', BuiltInInv, build # "avahi", NEW s \in Service,
         \/ Enter(s) \/ RegisterAvahi(s) \/ StartServer(s) \/ RegisterService(s)
         \/ RemoveService(s) \/ Decrement(s) \/ Stop(s)
  PROVE  BuiltInInv'
<1>0. /\ Counted \in SUBSET Service /\ Null \in Nat
      /\ server \in Nat /\ started \in Nat /\ on \in [Service -> Nat]
      /\ \A n \in stopped : n \in Nat
  BY DEF Counted, Null, MdnsTypeOK
<1>1. CASE Enter(s)
  <2>1. Become(s, "entered") /\ In(s, "new") /\ UNCHANGED <<server, stopped, started, instances, on>>
        /\ Leaving = {}
    BY <1>1 DEF Enter
  <2>2. /\ Counted' = Counted \ {s} /\ state'[s] = "entered"
        /\ \A t \in Service \ {s} : state'[t] = state[t]
    BY <2>1, CountedBecomes
  <2>3. Counted' = Counted
    BY <2>1, <2>2 DEF In, Counted
  <2> QED
    BY <2>1, <2>2, <2>3 DEF BuiltInInv, In
<1>2. CASE RegisterAvahi(s)
  BY <1>2 DEF RegisterAvahi
<1>3. CASE StartServer(s)
  <2>1. In(s, "entered") /\ UNCHANGED <<stopped, instances, on>>
    BY <1>3 DEF StartServer
  <2>2. ASSUME NEW to \in {"served", "failed"}, Become(s, to)
        PROVE  /\ Counted' = Counted /\ state'[s] = to
               /\ \A t \in Service \ {s} : state'[t] = state[t]
    <3>1. /\ Counted' = Counted \ {s} /\ state'[s] = to
          /\ \A t \in Service \ {s} : state'[t] = state[t]
      BY <2>2, CountedBecomes
    <3> QED
      BY <2>1, <3>1 DEF In, Counted
  <2>3. CASE server # Null /\ Become(s, "served") /\ UNCHANGED <<server, started>>
    BY <2>1, <2>2, <2>3 DEF BuiltInInv, In
  <2>4. CASE server = Null /\ server' = started + 1 /\ started' = started + 1 /\ Become(s, "served")
    <3>1. Counted = {}
      BY <2>4 DEF BuiltInInv, Counted
    <3>2. /\ Counted' = {} /\ state'[s] = "served"
          /\ \A t \in Service \ {s} : state'[t] = state[t]
      BY <2>2, <2>4, <3>1
    <3>3. server' # Null /\ server' \notin stopped /\ \A n \in stopped : n <= started'
      BY <1>0, <2>4 DEF BuiltInInv, Null
    <3>4. server' <= started' /\ instances = Cardinality(Counted) /\ Null \notin stopped
      BY <1>0, <2>4 DEF BuiltInInv
    <3> QED
      BY <2>1, <3>1, <3>2, <3>3, <3>4 DEF BuiltInInv
  <2>5. CASE server = Null /\ Become(s, "failed") /\ UNCHANGED <<server, started>>
    BY <2>1, <2>2, <2>5 DEF BuiltInInv, In
  <2> QED
    BY <1>3, <2>3, <2>4, <2>5 DEF StartServer
<1>4. CASE RegisterService(s)
  <2>1. In(s, "served") /\ UNCHANGED <<server, stopped, started>> /\ s \in Entering
    BY <1>4 DEF RegisterService, In, Entering
  <2>2. Leaving = {} /\ server # Null /\ s \notin Counted
    BY <2>1 DEF MdnsTypeOK, BuiltInInv, In, Counted
  <2>3. CASE Become(s, "service") /\ on' = [on EXCEPT ![s] = server] /\ instances' = (instances + 1) % Wrap
    <3>1. /\ Counted' = Counted \union {s} /\ state'[s] = "service"
          /\ \A t \in Service \ {s} : state'[t] = state[t]
      BY <2>3, CountedBecomes
    <3>2. /\ Cardinality(Counted') = Cardinality(Counted) + 1 /\ Cardinality(Counted) \in Nat
          /\ Cardinality(Counted) + 1 < Wrap /\ Wrap \in Nat
      <4>1. /\ Cardinality(Counted \union {s}) = Cardinality(Counted) + 1
            /\ Cardinality(Counted) + 1 <= Cardinality(Service)
        BY <1>0, <2>2, CountOne
      <4>2. /\ Cardinality(Counted) \in Nat /\ Wrap \in Nat /\ Cardinality(Service) \in Nat
            /\ Cardinality(Service) < Wrap
        BY <1>0, CountOne
      <4> QED
        BY <3>1, <4>1, <4>2
    <3>3. instances' = Cardinality(Counted')
      BY <2>3, <3>2, ModSmall DEF BuiltInInv
    <3>4. on'[s] = server /\ \A t \in Service \ {s} : on'[t] = on[t]
      BY <1>0, <2>3
    <3>5. \A t \in Service : state'[t] # "last"
      BY <2>2, <3>1 DEF Leaving
    <3>6. \A t \in Service : state'[t] # "group"
      BY <3>1 DEF BuiltInInv
    <3>7. \A t \in Counted' : on'[t] = server'
      BY <2>1, <3>1, <3>4 DEF BuiltInInv, Counted
    <3>8. /\ server' # Null /\ server' \notin stopped' /\ server' <= started' /\ Null \notin stopped'
          /\ \A n \in stopped' : n <= started'
      BY <2>1, <2>2 DEF BuiltInInv
    <3>9. \E t \in Service : state'[t] \in {"served", "service", "removed", "last", "failed"}
      BY <3>1
    <3> QED
      BY <3>3, <3>5, <3>6, <3>7, <3>8, <3>9 DEF BuiltInInv
  <2>4. CASE Become(s, "failed") /\ UNCHANGED <<on, instances>>
    <3>1. /\ Counted' = Counted \ {s} /\ state'[s] = "failed"
          /\ \A t \in Service \ {s} : state'[t] = state[t]
      BY <2>4, CountedBecomes
    <3>2. Counted' = Counted
      BY <2>2, <3>1
    <3> QED
      BY <2>1, <2>2, <2>4, <3>1, <3>2 DEF BuiltInInv
  <2> QED
    BY <1>4, <2>3, <2>4 DEF RegisterService
<1>5. CASE RemoveService(s)
  <2>1. /\ state[s] \in {"service", "group"} /\ Become(s, "removed")
        /\ UNCHANGED <<server, stopped, started, instances, on>>
    BY <1>5 DEF RemoveService
  <2>2. /\ Counted' = Counted \union {s} /\ state'[s] = "removed"
        /\ \A t \in Service \ {s} : state'[t] = state[t]
    BY <2>1, CountedBecomes
  <2>3. s \in Counted /\ Counted' = Counted
    BY <2>1, <2>2 DEF BuiltInInv, Counted
  <2> QED
    BY <2>1, <2>2, <2>3 DEF BuiltInInv, Counted
<1>6. CASE Decrement(s)
  <2>1. /\ In(s, "removed") /\ instances' = (instances - 1) % Wrap
        /\ Become(s, IF instances' = 0 THEN "last" ELSE "gone")
        /\ UNCHANGED <<server, stopped, started, on>>
    BY <1>6 DEF Decrement
  <2>2. /\ Counted' = Counted \ {s} /\ state'[s] = IF instances' = 0 THEN "last" ELSE "gone"
        /\ \A t \in Service \ {s} : state'[t] = state[t]
    BY <2>1, CountedBecomes
  <2>3. s \in Counted
    BY <2>1 DEF In, Counted
  <2>4. /\ Cardinality(Counted') = Cardinality(Counted) - 1 /\ Cardinality(Counted) \in Nat
        /\ Cardinality(Counted) < Wrap /\ Wrap \in Nat /\ Cardinality(Counted) # 0
    <3>1. /\ Cardinality(Counted \ {s}) = Cardinality(Counted) - 1
          /\ Cardinality(Counted) # 0 /\ Cardinality(Counted) <= Cardinality(Service)
      BY <1>0, <2>3, CountOne
    <3>2. /\ Cardinality(Counted) \in Nat /\ Wrap \in Nat /\ Cardinality(Service) \in Nat
          /\ Cardinality(Service) < Wrap
      BY <1>0, CountOne
    <3> QED
      BY <2>2, <3>1, <3>2
  <2>5. instances' = Cardinality(Counted')
    BY <2>1, <2>4, ModSmall DEF BuiltInInv
  <2>6. Counted' \in SUBSET Service
    BY <1>0, <2>2
  <2>7. instances' = 0 <=> Counted' = {}
    BY <2>5, <2>6, CountOne
  <2>8. server # Null /\ \A t \in Service : state[t] # "last"
    BY <2>1, <2>3 DEF BuiltInInv, In
  <2>9. \E t \in Service : state'[t] \in {"served", "service", "removed", "last", "failed"}
    <3>1. CASE instances' = 0
      BY <2>2, <3>1
    <3>2. CASE instances' # 0
      <4>1. PICK t \in Counted' : TRUE
        BY <2>7, <3>2
      <4> QED
        BY <2>6, <4>1 DEF Counted
    <3> QED
      BY <3>1, <3>2
  <2>10. /\ \A t \in Service : state'[t] # "group"
         /\ \A t \in Counted' : on'[t] = server'
    BY <2>1, <2>2 DEF BuiltInInv
  <2>11. \A t \in Service : /\ state'[t] \in {"served", "service", "removed"} => server' # Null
                            /\ state'[t] = "last" => Counted' = {}
    BY <2>1, <2>2, <2>7, <2>8
  <2> QED
    BY <2>1, <2>5, <2>9, <2>10, <2>11 DEF BuiltInInv
<1>7. CASE Stop(s)
  <2>1. /\ In(s, "last") /\ Become(s, "gone") /\ UNCHANGED <<started, instances, on>>
        /\ stopped' = stopped \union ({server} \ {Null}) /\ server' = Null
    BY <1>7 DEF Stop
  <2>2. /\ Counted' = Counted \ {s} /\ state'[s] = "gone"
        /\ \A t \in Service \ {s} : state'[t] = state[t]
    BY <2>1, CountedBecomes
  <2>3. Counted = {} /\ Counted' = {}
    BY <2>1, <2>2 DEF BuiltInInv, In
  <2>4. s \in Leaving /\ Entering = {}
    BY <2>1 DEF Leaving, In, MdnsTypeOK
  <2>5. \A t \in Service : state'[t] \notin {"served", "service", "removed", "group"}
    BY <2>2, <2>3, <2>4 DEF Counted, Entering, BuiltInInv
  <2>6. /\ Null \notin stopped' /\ \A n \in stopped' : n <= started' /\ Null <= started'
    BY <1>0, <2>1 DEF BuiltInInv, Null
  <2> QED
    BY <2>1, <2>3, <2>5, <2>6 DEF BuiltInInv
<1> QED
  BY <1>1, <1>2, <1>3, <1>4, <1>5, <1>6, <1>7

LEMMA AvahiStep ==
  ASSUME ~Overlap, ~Fallback, MdnsTypeOK, AvahiInv, build = "avahi", NEW s \in Service,
         \/ Enter(s) \/ RegisterAvahi(s) \/ StartServer(s) \/ RegisterService(s)
         \/ RemoveService(s) \/ Decrement(s) \/ Stop(s)
  PROVE  AvahiInv'
<1>0. Left \in SUBSET Service
  BY DEF Left
<1>1. ASSUME NEW to \in {"entered", "group", "removed"}, Become(s, to), state[s] # "gone",
             UNCHANGED <<instances, stopped>>
      PROVE  AvahiInv'
  <2>1. /\ Left' = Left \ {s} /\ state'[s] = to /\ \A t \in Service \ {s} : state'[t] = state[t]
    BY <1>1, CountedBecomes
  <2>2. Left' = Left
    BY <1>1, <2>1 DEF Left
  <2> QED
    BY <1>1, <2>1, <2>2 DEF AvahiInv
<1>2. CASE Enter(s) \/ RegisterAvahi(s) \/ RemoveService(s)
  BY <1>1, <1>2 DEF Enter, RegisterAvahi, RemoveService, In
<1>3. CASE Decrement(s)
  <2>1. /\ In(s, "removed") /\ instances' = (instances - 1) % Wrap /\ UNCHANGED stopped
        /\ Become(s, IF instances' = 0 THEN "last" ELSE "gone")
    BY <1>3 DEF Decrement
  <2>2. s \notin Left
    BY <2>1 DEF In, Left
  <2>3. /\ Cardinality(Left) \in Nat /\ Cardinality(Left) + 1 < Wrap /\ Wrap \in Nat
        /\ Cardinality(Left) = 0 <=> Left = {}
        /\ Cardinality(Left \union {s}) = Cardinality(Left) + 1
    <3>1. /\ Cardinality(Left \union {s}) = Cardinality(Left) + 1
          /\ Cardinality(Left) + 1 <= Cardinality(Service)
      BY <1>0, <2>2, CountOne
    <3>2. /\ Cardinality(Left) \in Nat /\ Wrap \in Nat /\ Cardinality(Service) \in Nat
          /\ Cardinality(Service) < Wrap
      BY <1>0, CountOne
    <3>3. Cardinality(Left) = 0 <=> Left = {}
      BY <1>0, CountOne
    <3> QED
      BY <3>1, <3>2, <3>3
  <2>4. instances' = Wrap - (Cardinality(Left) + 1)
    <3>1. CASE Left = {}
      <4>1. instances - 1 = -1
        BY <3>1 DEF AvahiInv
      <4>2. (-1) % Wrap = Wrap - 1
        <5>1. 1 \in Nat \ {0} /\ Wrap \in Nat \ {0} /\ 1 < Wrap
          BY <2>3, <3>1
        <5> QED
          BY <5>1, ModNegative
      <4> QED
        BY <2>1, <2>3, <3>1, <4>1, <4>2
    <3>2. CASE Left # {}
      <4>1. instances - 1 = Wrap - (Cardinality(Left) + 1)
        BY <2>3, <3>2 DEF AvahiInv
      <4>2. instances - 1 \in Nat /\ instances - 1 < Wrap /\ Wrap \in Nat \ {0}
        BY <2>3, <4>1
      <4>3. (instances - 1) % Wrap = instances - 1
        BY <4>2, ModSmall
      <4> QED
        BY <2>1, <4>1, <4>3
    <3> QED
      BY <3>1, <3>2
  <2>5. instances' # 0 /\ Become(s, "gone")
    BY <2>1, <2>3, <2>4
  <2>6. /\ Left' = Left \union {s} /\ state'[s] = "gone"
        /\ \A t \in Service \ {s} : state'[t] = state[t]
    BY <2>5, CountedBecomes
  <2>7. instances' = Wrap - Cardinality(Left') /\ Left' # {}
    BY <2>3, <2>4, <2>6
  <2> QED
    BY <2>1, <2>6, <2>7 DEF AvahiInv
<1>4. ~StartServer(s) /\ ~RegisterService(s) /\ ~Stop(s)
  BY DEF StartServer, RegisterService, Stop, In, AvahiInv
<1> QED
  BY <1>2, <1>3, <1>4

LEMMA MdnsInvStep ==
  ASSUME ~Overlap, ~Fallback, MdnsInv, [MdnsNext]_mdnsVars
  PROVE  MdnsInv'
<1>1. ASSUME NEW s \in Service,
             \/ Enter(s) \/ RegisterAvahi(s) \/ StartServer(s) \/ RegisterService(s)
             \/ RemoveService(s) \/ Decrement(s) \/ Stop(s)
      PROVE  MdnsInv'
  <2>1. MdnsTypeOK'
    BY <1>1, MdnsTypeStep DEF MdnsInv
  <2>2. build' = build
    BY <1>1 DEF Enter, RegisterAvahi, StartServer, RegisterService, RemoveService, Decrement, Stop
  <2>3. build # "avahi" => BuiltInInv'
    BY <1>1, <2>1, BuiltInStep DEF MdnsInv
  <2>4. build = "avahi" => AvahiInv'
    BY <1>1, AvahiStep DEF MdnsInv
  <2> QED
    BY <2>1, <2>2, <2>3, <2>4 DEF MdnsInv
<1>2. CASE UNCHANGED mdnsVars
  BY <1>2 DEF mdnsVars, MdnsInv, MdnsTypeOK, BuiltInInv, AvahiInv, Counted, Left, Leaving, Entering
<1> QED
  BY <1>1, <1>2 DEF MdnsNext, Registering, Unregistering

LEMMA MdnsInvSafe == MdnsInv => ServerStaysForServices
<1> SUFFICES ASSUME MdnsInv PROVE ServerStaysForServices
  OBVIOUS
<1>1. CASE build # "avahi"
  <2>1. BuiltInInv
    BY <1>1 DEF MdnsInv
  <2>2. ServersLive
    BY <2>1 DEF BuiltInInv, ServersLive, Counted
  <2>3. StoppedWithTheLast
    BY <2>1 DEF BuiltInInv, StoppedWithTheLast
  <2> QED
    BY <2>2, <2>3 DEF ServerStaysForServices
<1>2. CASE build = "avahi"
  BY <1>2 DEF MdnsInv, AvahiInv, ServerStaysForServices, ServersLive, StoppedWithTheLast
<1> QED
  BY <1>1, <1>2

(* Whatever the order in which any number of services come and leave, the  *)
(* server is stopped by the last one that leaves and under none that stays.*)
THEOREM LastServiceStopsServer ==
  ASSUME ~Overlap, ~Fallback
  PROVE  MdnsInit /\ [][MdnsNext]_mdnsVars => []ServerStaysForServices
<1>1. MdnsInit => MdnsInv
  BY MdnsInvInit
<1>2. MdnsInv /\ [MdnsNext]_mdnsVars => MdnsInv'
  BY MdnsInvStep
<1>3. MdnsInv => ServerStaysForServices
  BY MdnsInvSafe
<1> QED
  BY <1>1, <1>2, <1>3, PTL

(***************************************************************************)
(* NoFreeUnlock for any number of threads, as long as one of them is the   *)
(* one that calls unlockAccess.  (Two unlockers that both find the flag set*)
(* both unlock.)                                                           *)
(***************************************************************************)
OneUnlocker == \A t, u \in Unlocker : t = u

Unlocking(t) == pc[t] \in {"release", "setUnlocked"}

(* Flag and mutex drift apart only between the two steps of unlockAccess:  *)
(* outside them a set flag means a held mutex and no lockAccess half done. *)
LockInv ==
  /\ TypeOK
  /\ \A t \in Thread : Unlocking(t) => t \in Unlocker
  /\ \A t \in Thread : pc[t] = "setLocked" => accessMutex = t
  /\ \A t \in Thread : pc[t] = "release" => isLocked
  /\ isLocked /\ (\A t \in Thread : pc[t] # "setUnlocked") =>
       /\ accessMutex # Free
       /\ \A t \in Thread : pc[t] # "setLocked"

LEMMA LockInitInv == Init => LockInv
BY DEF Init, LockInv, TypeOK, Step, Unlocking

LEMMA LockStepInv ==
  ASSUME OneUnlocker, LockInv, [Next]_vars
  PROVE  LockInv'
<1>1. ASSUME NEW t \in Thread, LockAccess(t) PROVE LockInv'
  BY <1>1 DEF LockAccess, LockInv, TypeOK, Step, Goto, Unlocking
<1>2. ASSUME NEW t \in Thread, Acquire(t) PROVE LockInv'
  BY <1>2, LockAssumption DEF Acquire, LockInv, TypeOK, Step, Goto, Unlocking
<1>3. ASSUME NEW t \in Thread, SetLocked(t) PROVE LockInv'
  BY <1>3, LockAssumption DEF SetLocked, LockInv, TypeOK, Step, Goto, Unlocking
<1>4. ASSUME NEW t \in Unlocker, UnlockAccess(t) PROVE LockInv'
  BY <1>4, LockAssumption DEF UnlockAccess, LockInv, TypeOK, Step, Goto, Unlocking
<1>5. ASSUME NEW t \in Unlocker, Release(t) PROVE LockInv'
  BY <1>5, LockAssumption
  DEF OneUnlocker, Release, LockInv, TypeOK, Step, Goto, Unlocking
<1>6. ASSUME NEW t \in Unlocker, SetUnlocked(t) PROVE LockInv'
  BY <1>6, LockAssumption
  DEF OneUnlocker, SetUnlocked, LockInv, TypeOK, Step, Goto, Unlocking
<1>7. CASE UNCHANGED vars
  BY <1>7 DEF vars, LockInv, TypeOK, Unlocking
<1> QED
  BY <1>1, <1>2, <1>3, <1>4, <1>5, <1>6, <1>7 DEF Next

LEMMA LockInvSafe == OneUnlocker /\ LockInv => NoFreeUnlock
BY DEF OneUnlocker, LockInv, NoFreeUnlock, Unlocking

(* With one unlocking thread and any number of others, unlockAccess never  *)
(* unlocks a mutex that nobody holds, although the flag it tests and the   *)
(* mutex are not changed together.                                         *)
THEOREM UnlockHeld == OneUnlocker /\ Spec => []NoFreeUnlock
<1> SUFFICES ASSUME OneUnlocker PROVE Spec => []NoFreeUnlock
  OBVIOUS
<1>1. Init => LockInv
  BY LockInitInv
<1>2. LockInv /\ [Next]_vars => LockInv'
  BY LockStepInv
<1>3. LockInv => NoFreeUnlock
  BY LockInvSafe
<1> QED
  BY <1>1, <1>2, <1>3, PTL DEF Spec

(***************************************************************************)
(* The routers, for every set of routes and uris.  A tree is described by  *)
(* the registrations whose way leads through a node, and those whose way   *)
(* ends there; find follows a uri as Narrowed narrows the registrations.   *)
(***************************************************************************)
PartOf(Text) == [kind : {"literal", "param", "all"}, text : Text]

(* The empty text is the key of parameters, and no literal's.              *)
NoText == ""

Meaningful(route) ==
  \A i \in 1..Len(route) : route[i].kind = "literal" => route[i].text # NoText

HasParamKey(Text) == NoText \in Text

Way(route) == KeysOf(Before(route))

Mine(regs, verb) == {i \in 1..Len(regs) : regs[i].verb = verb}
Passing(regs, verb, node) ==
  {i \in Mine(regs, verb) :
     /\ Len(node) <= Len(Way(regs[i].route))
     /\ \A k \in 1..Len(node) : Way(regs[i].route)[k] = node[k]}
Ending(regs, verb, node) == {i \in Passing(regs, verb, node) : Len(Way(regs[i].route)) = Len(node)}

Newest(set, value) ==
  IF set = {} THEN value = NoHandler ELSE value \in set /\ \A i \in set : i <= value

NodeIs(n, regs, verb, node) ==
  /\ Newest(Ending(regs, verb, node), n.value)
  /\ n.isCatchAll = (\E i \in Ending(regs, verb, node) : Before(regs[i].route) # regs[i].route)
  /\ n.isParam = (\E i \in Passing(regs, verb, node) :
                    /\ Len(Way(regs[i].route)) > Len(node)
                    /\ regs[i].route[Len(node) + 1].kind = "param")

NodeOf(Text) ==
  [value : Nat \union {NoHandler}, isParam : BOOLEAN, paramName : Text, isCatchAll : BOOLEAN]

TreeIs(Text, tree, regs, verb) ==
  /\ DOMAIN tree \subseteq Seq(Text)
  /\ \A node \in Seq(Text) :
       node \in DOMAIN tree <=> (node = <<>> \/ Passing(regs, verb, node) # {})
  /\ \A node \in DOMAIN tree : tree[node] \in NodeOf(Text) /\ NodeIs(tree[node], regs, verb, node)

RegsAre(Text, regs) ==
  /\ regs \in Seq([verb : {"GET", "POST"}, route : Seq(PartOf(Text))])
  /\ \A i \in 1..Len(regs) : Meaningful(regs[i].route)

(* What lies before the first catch-all.                                   *)
LEMMA BeforeParts ==
  ASSUME NEW Text, NEW route \in Seq(PartOf(Text))
  PROVE  /\ Before(route) \in Seq(PartOf(Text))
         /\ Len(Before(route)) \in Nat /\ Len(Before(route)) <= Len(route)
         /\ \A i \in 1..Len(Before(route)) :
              Before(route)[i] = route[i] /\ route[i].kind # "all"
         /\ Before(route) # route <=> Len(Before(route)) < Len(route)
         /\ Len(Before(route)) < Len(route) => route[Len(Before(route)) + 1].kind = "all"
<1> DEFINE stars == {i \in DOMAIN route : route[i].kind = "all"}
           first == CHOOSE i \in stars : \A j \in stars : i <= j
           P == PartOf(Text)
<1>1. Before(route) = IF stars = {} THEN route ELSE SubSeq(route, 1, first - 1)
  BY DEF Before
<1>2. Len(route) \in Nat /\ DOMAIN route = 1..Len(route) /\ route \in Seq(P)
  OBVIOUS
<1> HIDE DEF P
<1>3. CASE stars = {}
  <2>1. \A i \in 1..Len(route) : route[i].kind # "all"
    BY <1>2, <1>3
  <2>2. Before(route) = route
    BY <1>1, <1>3
  <2> QED
    BY <1>2, <2>1, <2>2
<1>4. CASE stars # {}
  <2>1. stars \in SUBSET Nat
    BY <1>2
  <2> HIDE DEF stars
  <2>2. \E i \in stars : \A j \in stars : i <= j
    BY <1>4, <2>1, LeastOfSet
  <2>3. first \in stars /\ \A j \in stars : first <= j
    BY <2>2, Zenon
  <2> HIDE DEF first
  <2>4. first \in 1..Len(route) /\ route[first].kind = "all"
    BY <1>2, <2>3 DEF stars
  <2>5. \A i \in 1..(first - 1) : route[i].kind # "all"
    <3>1. \A i \in 1..(first - 1) : i \in DOMAIN route /\ ~(first <= i)
      BY <1>2, <2>4
    <3> QED
      BY <2>3, <3>1 DEF stars
  <2> DEFINE m == first - 1
  <2>6. m \in Nat /\ m < Len(route) /\ m + 1 = first
    BY <1>2, <2>4
  <2>7. Before(route) = SubSeq(route, 1, m)
    BY <1>1, <1>4
  <2>8. m <= Len(route)
    BY <1>2, <2>6
  <2> HIDE DEF m
  <2>9. /\ SubSeq(route, 1, m) \in Seq(P) /\ Len(SubSeq(route, 1, m)) = m
        /\ \A i \in 1..m : SubSeq(route, 1, m)[i] = route[i]
    BY <1>2, <2>6, <2>8, CutParts
  <2>10. Before(route) # route
    <3>1. Len(Before(route)) = m
      BY <2>7, <2>9
    <3>2. Len(route) \in Nat
      BY <1>2
    <3>3. Len(route) # m
      BY <2>6, <3>2
    <3> QED
      BY <3>1, <3>3
  <2> QED
    BY <1>2, <2>4, <2>5, <2>6, <2>7, <2>9, <2>10 DEF m
<1>5. QED
  BY <1>3, <1>4 DEF P

(* The keys of a registration's way.                                       *)
LEMMA WayParts ==
  ASSUME NEW Text, HasParamKey(Text), NEW route \in Seq(PartOf(Text))
  PROVE  /\ Way(route) \in Seq(Text) /\ Len(Way(route)) = Len(Before(route))
         /\ Len(Way(route)) \in Nat /\ Len(Way(route)) <= Len(route)
         /\ \A i \in 1..Len(Way(route)) :
              /\ route[i].kind # "all"
              /\ Way(route)[i] = IF route[i].kind = "param" THEN NoText ELSE route[i].text
         /\ Before(route) # route <=> Len(Way(route)) < Len(route)
         /\ Len(Way(route)) < Len(route) => route[Len(Way(route)) + 1].kind = "all"
<1> DEFINE parts == Before(route)
<1>1. /\ parts \in Seq(PartOf(Text)) /\ Len(parts) \in Nat /\ Len(parts) <= Len(route)
      /\ \A i \in 1..Len(parts) : parts[i] = route[i] /\ route[i].kind # "all"
      /\ parts # route <=> Len(parts) < Len(route)
      /\ Len(parts) < Len(route) => route[Len(parts) + 1].kind = "all"
  BY BeforeParts
<1>2. Way(route) = [i \in DOMAIN parts |-> Key(parts[i])]
  BY DEF Way, KeysOf
<1> DEFINE P == PartOf(Text)
<1>3. parts \in Seq(P)
  BY <1>1
<1> HIDE DEF parts, P
<1>4. DOMAIN parts = 1..Len(parts) /\ \A i \in 1..Len(parts) : parts[i] \in P
  BY <1>1, <1>3
<1>5. \A i \in 1..Len(parts) : Key(parts[i]) \in Text
  BY <1>4 DEF P, PartOf, Key, HasParamKey, NoText
<1>6. Way(route) \in [1..Len(parts) -> Text]
  BY <1>2, <1>4, <1>5
<1>7. Way(route) \in Seq(Text) /\ Len(Way(route)) = Len(parts)
  BY <1>1, <1>6
<1>8. \A i \in 1..Len(parts) :
        Way(route)[i] = IF route[i].kind = "param" THEN NoText ELSE route[i].text
  BY <1>1, <1>2, <1>4 DEF Key, NoText
<1> QED
  BY <1>1, <1>7, <1>8 DEF parts

LEMMA RegParts ==
  ASSUME NEW Text, HasParamKey(Text), NEW regs, RegsAre(Text, regs), NEW i \in 1..Len(regs)
  PROVE  /\ regs[i].verb \in {"GET", "POST"} /\ regs[i].route \in Seq(PartOf(Text))
         /\ Meaningful(regs[i].route)
         /\ Way(regs[i].route) \in Seq(Text) /\ Len(Way(regs[i].route)) \in Nat
<1> DEFINE Rec == [verb : {"GET", "POST"}, route : Seq(PartOf(Text))]
<1>1. regs \in Seq(Rec)
  BY DEF RegsAre
<1>2. regs[i] \in Rec
  <2> HIDE DEF Rec
  <2> QED
    BY <1>1
<1>3. regs[i].verb \in {"GET", "POST"} /\ regs[i].route \in Seq(PartOf(Text))
  BY <1>2
<1>4. Way(regs[i].route) \in Seq(Text) /\ Len(Way(regs[i].route)) \in Nat
  BY <1>3, WayParts
<1> QED
  BY <1>3, <1>4 DEF RegsAre

(***************************************************************************)
(* insert keeps the description, with the registration it is made for.     *)
(***************************************************************************)
(* A registration more.                                                    *)
OneLonger(all, regs, verb, route) ==
  /\ Len(regs) \in Nat /\ Len(all) = Len(regs) + 1
  /\ all[Len(regs) + 1] = [verb |-> verb, route |-> route]
  /\ \A i \in 1..Len(regs) : all[i] = regs[i]

LEMMA OneMore ==
  ASSUME NEW Text, HasParamKey(Text), NEW regs, RegsAre(Text, regs),
         NEW verb \in {"GET", "POST"}, NEW route \in Seq(PartOf(Text)), Meaningful(route),
         NEW all, all = Append(regs, [verb |-> verb, route |-> route])
  PROVE  /\ RegsAre(Text, all)
         /\ OneLonger(all, regs, verb, route)
<1> DEFINE Rec == [verb : {"GET", "POST"}, route : Seq(PartOf(Text))]
           new == [verb |-> verb, route |-> route]
<1>1. regs \in Seq(Rec) /\ new \in Rec /\ all = Append(regs, new)
  BY DEF RegsAre
<1>2. new.route = route
  OBVIOUS
<1>3. \A i \in 1..Len(regs) : Meaningful(regs[i].route)
  BY DEF RegsAre
<1>4. RegsAre(Text, all) <=> all \in Seq(Rec) /\ \A i \in 1..Len(all) : Meaningful(all[i].route)
  BY DEF RegsAre
<1> HIDE DEF Rec, new
<1>5. /\ all \in Seq(Rec) /\ Len(regs) \in Nat /\ Len(all) = Len(regs) + 1
      /\ all[Len(regs) + 1] = new /\ \A i \in 1..Len(regs) : all[i] = regs[i]
  BY <1>1
<1>6. \A i \in 1..Len(all) : i \in 1..Len(regs) \/ i = Len(regs) + 1
  BY <1>5
<1>7. \A i \in 1..Len(all) : Meaningful(all[i].route)
  BY <1>2, <1>3, <1>5, <1>6
<1> QED
  BY <1>4, <1>5, <1>7 DEF new, OneLonger

(* It passes the nodes of its way.                                         *)
OnWay(node, route) ==
  Len(node) <= Len(Way(route)) /\ \A k \in 1..Len(node) : Way(route)[k] = node[k]

LEMMA MorePassing ==
  ASSUME NEW regs, NEW all, NEW verb, NEW route, OneLonger(all, regs, verb, route),
         NEW node
  PROVE  /\ Passing(all, verb, node) =
              Passing(regs, verb, node) \union (IF OnWay(node, route) THEN {Len(all)} ELSE {})
         /\ \A other : other # verb => Passing(all, other, node) = Passing(regs, other, node)
<1>1. \A i : i \in 1..Len(all) <=> i \in 1..Len(regs) \/ i = Len(all)
  BY DEF OneLonger
<1>2. Len(all) \notin 1..Len(regs) /\ all[Len(all)].verb = verb /\ all[Len(all)].route = route
  BY DEF OneLonger
<1>3. ASSUME NEW other, NEW i
      PROVE  i \in Passing(all, other, node) <=>
               \/ i \in Passing(regs, other, node)
               \/ i = Len(all) /\ other = verb /\ OnWay(node, route)
  <2>1. CASE i \in 1..Len(regs)
    <3>1. all[i] = regs[i] /\ i # Len(all) /\ i \in 1..Len(all)
      BY <1>1, <1>2, <2>1 DEF OneLonger
    <3> QED
      BY <2>1, <3>1 DEF Passing, Mine
  <2>2. CASE i = Len(all)
    <3>1. i \notin Passing(regs, other, node)
      BY <1>2, <2>2 DEF Passing, Mine
    <3>2. i \in Passing(all, other, node) <=> verb = other /\ OnWay(node, route)
      BY <1>1, <1>2, <2>2 DEF Passing, Mine, OnWay
    <3> QED
      BY <2>2, <3>1, <3>2
  <2>3. CASE i \notin 1..Len(regs) /\ i # Len(all)
    BY <1>1, <2>3 DEF Passing, Mine
  <2> QED
    BY <2>1, <2>2, <2>3
<1>4. ASSUME NEW other, other # verb
      PROVE  Passing(all, other, node) = Passing(regs, other, node)
  BY <1>3, <1>4
<1>5. Passing(all, verb, node) =
        Passing(regs, verb, node) \union (IF OnWay(node, route) THEN {Len(all)} ELSE {})
  BY <1>3
<1> QED
  BY <1>4, <1>5

(* The other verb's router is not touched.                                 *)
LEMMA OtherTreeKeeps ==
  ASSUME NEW Text, NEW regs, NEW all, NEW verb, NEW route, OneLonger(all, regs, verb, route),
         NEW other, other # verb, NEW tree, TreeIs(Text, tree, regs, other)
  PROVE  TreeIs(Text, tree, all, other)
<1>1. \A node : Passing(all, other, node) = Passing(regs, other, node)
  BY MorePassing
<1>2. \A node : \A i \in Passing(regs, other, node) : i \in 1..Len(regs) /\ all[i] = regs[i]
  BY DEF Passing, Mine, OneLonger
<1>3. \A node : Ending(all, other, node) = Ending(regs, other, node)
  BY <1>1, <1>2 DEF Ending
<1>4. \A node : \A i \in Ending(regs, other, node) : all[i] = regs[i]
  BY <1>2 DEF Ending
<1>5. ASSUME NEW node \in DOMAIN tree PROVE NodeIs(tree[node], all, other, node)
  <2>1. NodeIs(tree[node], regs, other, node)
    BY DEF TreeIs
  <2> QED
    BY <1>1, <1>2, <1>3, <1>4, <2>1 DEF NodeIs
<1> QED
  BY <1>1, <1>5 DEF TreeIs

(* The nodes on the way of a route.                                        *)
LEMMA NodesOnWay ==
  ASSUME NEW Text, HasParamKey(Text), NEW route \in Seq(PartOf(Text)), NEW node \in Seq(Text)
  PROVE  /\ node \in {SubSeq(Way(route), 1, n) : n \in 0..Len(Way(route))} <=> OnWay(node, route)
         /\ node = Way(route) <=> OnWay(node, route) /\ Len(node) = Len(Way(route))
<1> DEFINE way == Way(route)
<1>1. way \in Seq(Text) /\ Len(way) \in Nat /\ Len(node) \in Nat
  <2>1. way \in Seq(Text) /\ Len(way) \in Nat
    BY WayParts
  <2> QED
    BY <2>1
<1>2. OnWay(node, route) <=> Len(node) <= Len(way) /\ \A k \in 1..Len(node) : way[k] = node[k]
  BY DEF OnWay
<1> HIDE DEF way
<1>3. \A n \in 0..Len(way) : /\ SubSeq(way, 1, n) \in Seq(Text) /\ Len(SubSeq(way, 1, n)) = n
                             /\ \A k \in 1..n : SubSeq(way, 1, n)[k] = way[k]
  <2> TAKE n \in 0..Len(way)
  <2>1. n \in Nat /\ n <= Len(way)
    BY <1>1
  <2> QED
    BY <1>1, <2>1, CutParts
<1>4. ASSUME OnWay(node, route)
      PROVE  node \in {SubSeq(way, 1, n) : n \in 0..Len(way)}
  <2> DEFINE n == Len(node)
  <2>1. n \in 0..Len(way) /\ n \in Nat
    BY <1>1, <1>2, <1>4
  <2>2. \A k \in 1..n : way[k] = node[k]
    BY <1>2, <1>4
  <2> HIDE DEF n
  <2> DEFINE s == SubSeq(way, 1, n)
  <2>3. s \in Seq(Text) /\ Len(s) = n /\ \A k \in 1..n : s[k] = way[k]
    BY <1>3, <2>1
  <2> HIDE DEF s
  <2>4. s = node
    BY <2>2, <2>3, SameSequence DEF n
  <2> QED
    BY <2>1, <2>4 DEF s
<1>5. ASSUME NEW n \in 0..Len(way), node = SubSeq(way, 1, n)
      PROVE  OnWay(node, route)
  <2>1. Len(node) = n /\ \A k \in 1..n : node[k] = way[k]
    BY <1>3, <1>5
  <2>2. n <= Len(way)
    BY <1>1
  <2> QED
    BY <1>2, <2>1, <2>2
<1>6. node = way <=> OnWay(node, route) /\ Len(node) = Len(way)
  <2>1. ASSUME OnWay(node, route), Len(node) = Len(way) PROVE node = way
    BY <1>1, <1>2, <2>1, SameSequence
  <2>2. ASSUME node = way PROVE OnWay(node, route) /\ Len(node) = Len(way)
    BY <1>1, <1>2, <2>2
  <2> QED
    BY <2>1, <2>2
<1> QED
  BY <1>4, <1>5, <1>6 DEF way

(* What insert makes of a node, the new node where there was none.         *)
OldNode(tree, node) == IF node \in DOMAIN tree THEN tree[node] ELSE NewNode

InsertMakes(Text, grown, tree, route, handler) ==
  /\ DOMAIN grown \subseteq Seq(Text)
  /\ \A node \in Seq(Text) :
       node \in DOMAIN grown <=> node \in DOMAIN tree \/ OnWay(node, route)
  /\ \A node \in DOMAIN grown :
       /\ grown[node] \in NodeOf(Text)
       /\ grown[node].value =
            IF node = Way(route) THEN handler ELSE OldNode(tree, node).value
       /\ grown[node].isCatchAll =
            (OldNode(tree, node).isCatchAll \/ (node = Way(route) /\ Before(route) # route))
       /\ grown[node].isParam =
            (\/ OldNode(tree, node).isParam
             \/ /\ OnWay(node, route) /\ Len(node) < Len(Way(route))
                /\ route[Len(node) + 1].kind = "param")

LEMMA InsertParts ==
  ASSUME NEW Text, HasParamKey(Text), NEW route \in Seq(PartOf(Text)), NEW handler \in Nat,
         NEW tree, DOMAIN tree \subseteq Seq(Text),
         \A node \in DOMAIN tree : tree[node] \in NodeOf(Text),
         NEW grown, grown = insert(tree, route, handler)
  PROVE  InsertMakes(Text, grown, tree, route, handler)
<1> DEFINE parts == Before(route)
           keys == KeysOf(parts)
           path == {SubSeq(keys, 1, n) : n \in 0..Len(keys)}
           old(node) == IF node \in DOMAIN tree THEN tree[node] ELSE NewNode
           named(node) == IF Len(node) < Len(parts) /\ parts[Len(node) + 1].kind = "param"
                          THEN [old(node) EXCEPT !.isParam = TRUE,
                                                 !.paramName = parts[Len(node) + 1].text]
                          ELSE old(node)
           after(node) == IF node = keys
                          THEN [named(node) EXCEPT !.value = handler,
                                                   !.isCatchAll = @ \/ parts # route]
                          ELSE IF node \in path THEN named(node) ELSE tree[node]
<1>1. grown = [node \in DOMAIN tree \union path |-> after(node)]
  BY DEF insert
<1>2. keys = Way(route)
  BY DEF Way
<1>3. /\ parts \in Seq(PartOf(Text)) /\ Len(parts) \in Nat /\ Len(parts) = Len(keys)
      /\ \A i \in 1..Len(parts) : parts[i] = route[i]
  BY <1>2, BeforeParts, WayParts
<1>4. path \subseteq Seq(Text)
  <2>1. keys \in Seq(Text) /\ Len(keys) \in Nat
    BY <1>2, WayParts
  <2> HIDE DEF keys
  <2>2. ASSUME NEW n \in 0..Len(keys) PROVE SubSeq(keys, 1, n) \in Seq(Text)
    <3>1. n \in Nat /\ n <= Len(keys)
      BY <2>1
    <3> QED
      BY <2>1, <3>1, CutParts
  <2> QED
    BY <2>2
<1>5. \A node \in Seq(Text) : node \in path <=> OnWay(node, route)
  BY <1>2, NodesOnWay
<1>6. \A node : old(node) \in NodeOf(Text) /\ old(node) = OldNode(tree, node)
  <2>1. NewNode \in NodeOf(Text)
    BY DEF NewNode, NodeOf, HasParamKey, NoText
  <2> QED
    BY <2>1 DEF OldNode
<1>7. ASSUME NEW node \in Seq(Text), node \in DOMAIN tree \union path
      PROVE  /\ after(node) \in NodeOf(Text)
             /\ after(node).value = IF node = keys THEN handler ELSE old(node).value
             /\ after(node).isCatchAll = (old(node).isCatchAll \/ (node = keys /\ parts # route))
             /\ after(node).isParam =
                  (\/ old(node).isParam
                   \/ /\ node \in path /\ Len(node) < Len(parts)
                      /\ route[Len(node) + 1].kind = "param")
  <2> DEFINE next == parts[Len(node) + 1]
             entered == Len(node) < Len(parts) /\ next.kind = "param"
             o == old(node)
             m == named(node)
  <2>1. Len(node) \in Nat
    OBVIOUS
  <2>2. ASSUME Len(node) < Len(parts)
        PROVE  next \in PartOf(Text) /\ next = route[Len(node) + 1]
    <3>1. Len(node) + 1 \in 1..Len(parts)
      BY <1>3, <2>1, <2>2
    <3> DEFINE P == PartOf(Text)
    <3>2. parts \in Seq(P)
      BY <1>3
    <3> HIDE DEF parts, P
    <3>3. parts[Len(node) + 1] \in P
      BY <3>1, <3>2
    <3> QED
      BY <1>3, <3>1, <3>3 DEF P
  <2>3. o \in NodeOf(Text)
    BY <1>6
  <2>4. m = IF entered THEN [o EXCEPT !.isParam = TRUE, !.paramName = next.text] ELSE o
    OBVIOUS
  <2>5. entered => next.text \in Text
    BY <2>2 DEF PartOf
  <2> HIDE DEF next, o
  <2>6. /\ m \in NodeOf(Text) /\ m.value = o.value /\ m.isCatchAll = o.isCatchAll
        /\ m.isParam = (o.isParam \/ entered)
    <3> HIDE DEF m, entered
    <3>1. CASE entered
      <4>1. m = [o EXCEPT !.isParam = TRUE, !.paramName = next.text] /\ next.text \in Text
        BY <2>4, <2>5, <3>1
      <4>2. m \in NodeOf(Text) /\ m.value = o.value /\ m.isCatchAll = o.isCatchAll /\ m.isParam = TRUE
        BY <2>3, <4>1 DEF NodeOf
      <4> QED
        BY <3>1, <4>2
    <3>2. CASE ~entered
      <4>1. m = o /\ o.isParam \in BOOLEAN
        BY <2>3, <2>4, <3>2 DEF NodeOf
      <4> QED
        BY <2>3, <3>2, <4>1
    <3> QED
      BY <3>1, <3>2
  <2>7. after(node) = IF node = keys
                      THEN [m EXCEPT !.value = handler, !.isCatchAll = @ \/ parts # route]
                      ELSE IF node \in path THEN m ELSE tree[node]
    OBVIOUS
  <2>8. node = keys => node \in path
    <3>1. node = keys => OnWay(node, route)
      BY <1>2, NodesOnWay
    <3> HIDE DEF path, keys
    <3> QED
      BY <1>5, <3>1
  <2>9. node \in path /\ entered <=>
          /\ node \in path /\ Len(node) < Len(parts)
          /\ route[Len(node) + 1].kind = "param"
    <3> HIDE DEF path, parts
    <3> QED
      BY <2>2 DEF next
  <2>10. entered \in BOOLEAN /\ o = old(node)
    BY DEF entered, o
  <2> DEFINE here == node \in path
             last == node = keys
             more == parts # route
             a == after(node)
  <2>11. here \/ tree[node] = o
    BY <1>7 DEF o
  <2>12. /\ a \in NodeOf(Text) /\ a.value = IF last THEN handler ELSE o.value
         /\ a.isCatchAll = (o.isCatchAll \/ (last /\ more))
         /\ a.isParam = (o.isParam \/ (here /\ entered))
    <3>1. a = IF last THEN [m EXCEPT !.value = handler, !.isCatchAll = m.isCatchAll \/ more]
              ELSE IF here THEN m ELSE tree[node]
      BY <2>7
    <3>2. last => here
      BY <2>8
    <3>3. here \in BOOLEAN /\ last \in BOOLEAN /\ more \in BOOLEAN /\ entered \in BOOLEAN
      OBVIOUS
    <3> HIDE DEF a, here, last, more, m, entered
    <3>4. CASE last
      <4>1. a = [m EXCEPT !.value = handler, !.isCatchAll = m.isCatchAll \/ more]
        BY <3>1, <3>4
      <4>2. m.isCatchAll \/ more \in BOOLEAN
        BY <3>3
      <4> DEFINE c == m.isCatchAll \/ more
      <4>3. c \in BOOLEAN /\ a = [m EXCEPT !.value = handler, !.isCatchAll = c]
        BY <4>1, <4>2
      <4> HIDE DEF c
      <4>4. a \in NodeOf(Text) /\ a.value = handler /\ a.isCatchAll = c /\ a.isParam = m.isParam
        BY <2>6, <4>3 DEF NodeOf
      <4>5. c = (o.isCatchAll \/ more)
        BY <2>6 DEF c
      <4>6. a.isCatchAll = (o.isCatchAll \/ (last /\ more))
        BY <3>4, <4>4, <4>5
      <4>7. a.isParam = (o.isParam \/ (here /\ entered))
        BY <2>6, <3>2, <3>4, <4>4
      <4> QED
        BY <3>4, <4>4, <4>6, <4>7
    <3>5. CASE ~last /\ here
      <4>1. a = m
        BY <3>1, <3>5
      <4>2. o.isCatchAll \in BOOLEAN
        BY <2>3 DEF NodeOf
      <4>3. a.isCatchAll = (o.isCatchAll \/ (last /\ more))
        BY <2>6, <3>5, <4>1, <4>2
      <4>4. a.isParam = (o.isParam \/ (here /\ entered))
        BY <2>6, <3>5, <4>1
      <4> QED
        BY <2>6, <3>5, <4>1, <4>3, <4>4
    <3>6. CASE ~last /\ ~here
      <4>1. a = o
        BY <2>11, <3>1, <3>6
      <4>2. o.isCatchAll \in BOOLEAN /\ o.isParam \in BOOLEAN
        BY <2>3 DEF NodeOf
      <4>3. a.isCatchAll = (o.isCatchAll \/ (last /\ more))
        BY <3>6, <4>1, <4>2
      <4>4. a.isParam = (o.isParam \/ (here /\ entered))
        BY <3>6, <4>1, <4>2
      <4> QED
        BY <2>3, <3>6, <4>1, <4>3, <4>4
    <3> QED
      BY <3>4, <3>5, <3>6
  <2> DEFINE said == /\ node \in path /\ Len(node) < Len(parts)
                     /\ route[Len(node) + 1].kind = "param"
  <2>13. (here /\ entered) = said
    <3> HIDE DEF path, parts, entered
    <3> QED
      BY <2>9 DEF entered
  <2> HIDE DEF after, named, m, entered, path, keys, parts
  <2>14. after(node).isParam = (o.isParam \/ said)
    <3> HIDE DEF here, said
    <3> QED
      BY <2>12, <2>13
  <2>15. o = old(node)
    BY <2>10
  <2>16. /\ after(node) \in NodeOf(Text)
         /\ after(node).value = IF node = keys THEN handler ELSE o.value
         /\ after(node).isCatchAll = (o.isCatchAll \/ (node = keys /\ parts # route))
    BY <2>12
  <2> QED
    BY <2>14, <2>15, <2>16, Zenon
<1> HIDE DEF after, path, old
<1>8. DOMAIN grown = DOMAIN tree \union path
  BY <1>1
<1>9. DOMAIN grown \subseteq Seq(Text)
  BY <1>4, <1>8
<1>10. \A node \in Seq(Text) : node \in DOMAIN grown <=> node \in DOMAIN tree \/ OnWay(node, route)
  BY <1>5, <1>8
<1> HIDE DEF parts, keys
<1>11. ASSUME NEW node \in DOMAIN grown
       PROVE  /\ grown[node] \in NodeOf(Text)
              /\ grown[node].value =
                   IF node = Way(route) THEN handler ELSE OldNode(tree, node).value
              /\ grown[node].isCatchAll =
                   (OldNode(tree, node).isCatchAll \/ (node = Way(route) /\ Before(route) # route))
              /\ grown[node].isParam =
                   (\/ OldNode(tree, node).isParam
                    \/ /\ OnWay(node, route) /\ Len(node) < Len(Way(route))
                       /\ route[Len(node) + 1].kind = "param")
  <2>1. grown[node] = after(node) /\ node \in Seq(Text)
    BY <1>1, <1>8, <1>9
  <2>2. /\ after(node) \in NodeOf(Text)
        /\ after(node).value = IF node = keys THEN handler ELSE old(node).value
        /\ after(node).isCatchAll = (old(node).isCatchAll \/ (node = keys /\ parts # route))
        /\ after(node).isParam =
             (\/ old(node).isParam
              \/ /\ node \in path /\ Len(node) < Len(parts)
                 /\ route[Len(node) + 1].kind = "param")
    BY <1>7, <1>8, <2>1
  <2>3. old(node) = OldNode(tree, node)
    BY <1>6
  <2>4. (node \in path) = OnWay(node, route)
    BY <1>5, <2>1 DEF OnWay
  <2>5. Len(parts) = Len(Way(route)) /\ keys = Way(route) /\ parts = Before(route)
    BY <1>2, <1>3 DEF parts
  <2> QED
    BY <2>1, <2>2, <2>3, <2>4, <2>5, Zenon
<1> QED
  BY <1>9, <1>10, <1>11 DEF InsertMakes

LEMMA InsertKeeps ==
  ASSUME NEW Text, HasParamKey(Text), NEW regs, RegsAre(Text, regs),
         NEW verb \in {"GET", "POST"}, NEW route \in Seq(PartOf(Text)), Meaningful(route),
         NEW all, OneLonger(all, regs, verb, route),
         NEW tree, TreeIs(Text, tree, regs, verb)
  PROVE  TreeIs(Text, insert(tree, route, Len(regs) + 1), all, verb)
<1> DEFINE h == Len(regs) + 1
           grown == insert(tree, route, h)
           old(node) == OldNode(tree, node)
<1>1. /\ Len(regs) \in Nat /\ Len(all) = h /\ all[h] = [verb |-> verb, route |-> route]
      /\ \A i \in 1..Len(regs) : all[i] = regs[i]
  BY DEF OneLonger
<1>2. h \in Nat
  BY <1>1
<1>3. /\ DOMAIN tree \subseteq Seq(Text)
      /\ \A node \in Seq(Text) :
           node \in DOMAIN tree <=> (node = <<>> \/ Passing(regs, verb, node) # {})
      /\ \A node \in DOMAIN tree : tree[node] \in NodeOf(Text) /\ NodeIs(tree[node], regs, verb, node)
  BY DEF TreeIs
<1>4. /\ DOMAIN grown \subseteq Seq(Text)
      /\ \A node \in Seq(Text) : node \in DOMAIN grown <=> node \in DOMAIN tree \/ OnWay(node, route)
      /\ \A node \in DOMAIN grown :
           /\ grown[node] \in NodeOf(Text)
           /\ grown[node].value = IF node = Way(route) THEN h ELSE old(node).value
           /\ grown[node].isCatchAll =
                (old(node).isCatchAll \/ (node = Way(route) /\ Before(route) # route))
           /\ grown[node].isParam =
                (\/ old(node).isParam
                 \/ /\ OnWay(node, route) /\ Len(node) < Len(Way(route))
                    /\ route[Len(node) + 1].kind = "param")
  <2>1. grown = insert(tree, route, h)
    OBVIOUS
  <2>2. DOMAIN tree \subseteq Seq(Text)
    BY <1>3
  <2>3. \A node \in DOMAIN tree : tree[node] \in NodeOf(Text)
    BY <1>3
  <2> HIDE DEF h, grown
  <2>4. InsertMakes(Text, grown, tree, route, h)
    BY <1>2, <2>1, <2>2, <2>3, InsertParts
  <2> QED
    BY <2>4 DEF InsertMakes
<1> HIDE DEF grown, h
<1>5. \A node : Passing(all, verb, node) =
                  Passing(regs, verb, node) \union (IF OnWay(node, route) THEN {h} ELSE {})
  <2> TAKE node
  <2>2. Passing(all, verb, node) =
          Passing(regs, verb, node) \union (IF OnWay(node, route) THEN {Len(all)} ELSE {})
    BY MorePassing
  <2> QED
    BY <1>1, <2>2
<1>6. \A node \in Seq(Text) : node \in DOMAIN grown <=> (node = <<>> \/ Passing(all, verb, node) # {})
  BY <1>3, <1>4, <1>5
<1>7. \A node : \A i \in Passing(regs, verb, node) :
        i \in 1..Len(regs) /\ all[i] = regs[i] /\ i \in Nat /\ i <= h /\ i # h
  BY <1>1 DEF Passing, Mine, h
<1>8. ASSUME NEW node \in DOMAIN grown
      PROVE  NodeIs(grown[node], all, verb, node)
  <2> DEFINE passing == Passing(regs, verb, node)
             ending == Ending(regs, verb, node)
             passes == OnWay(node, route)
             last == node = Way(route)
             o == old(node)
             m == grown[node]
             star == Before(route) # route
             goes == Len(node) < Len(Way(route)) /\ route[Len(node) + 1].kind = "param"
  <2>1. node \in Seq(Text) /\ Len(node) \in Nat /\ Len(Way(route)) \in Nat
    <3>1. node \in Seq(Text)
      BY <1>4
    <3>2. Len(Way(route)) \in Nat
      BY WayParts
    <3> QED
      BY <3>1, <3>2
  <2>2. NodeIs(o, regs, verb, node)
    <3>1. CASE node \in DOMAIN tree
      BY <1>3, <3>1 DEF OldNode
    <3>2. CASE node \notin DOMAIN tree
      <4>1. passing = {} /\ ending = {}
        BY <1>3, <2>1, <3>2 DEF Ending
      <4>2. o = NewNode
        BY <3>2 DEF OldNode
      <4>3. /\ NewNode.value = NoHandler /\ NewNode.isCatchAll = FALSE
            /\ NewNode.isParam = FALSE
        BY DEF NewNode
      <4> HIDE DEF o
      <4>4. Newest(ending, o.value)
        BY <4>1, <4>2, <4>3 DEF Newest
      <4>5. o.isCatchAll = (\E i \in ending : Before(regs[i].route) # regs[i].route)
        <5> HIDE DEF ending
        <5> QED
          BY <4>1, <4>2, <4>3
      <4>6. o.isParam = (\E i \in passing : /\ Len(Way(regs[i].route)) > Len(node)
                                            /\ regs[i].route[Len(node) + 1].kind = "param")
        <5> HIDE DEF passing
        <5> QED
          BY <4>1, <4>2, <4>3
      <4> QED
        BY <4>4, <4>5, <4>6 DEF NodeIs
    <3> QED
      BY <3>1, <3>2
  <2>3. /\ m.value = IF last THEN h ELSE o.value
        /\ m.isCatchAll = (o.isCatchAll \/ (last /\ star))
        /\ m.isParam = (o.isParam \/ (passes /\ goes))
    <3>1. m.isParam = (\/ o.isParam
                       \/ /\ passes /\ Len(node) < Len(Way(route))
                          /\ route[Len(node) + 1].kind = "param")
      BY <1>4, <1>8
    <3>2. (/\ passes /\ Len(node) < Len(Way(route))
           /\ route[Len(node) + 1].kind = "param") = (passes /\ goes)
      OBVIOUS
    <3>3. /\ m.value = IF last THEN h ELSE o.value
          /\ m.isCatchAll = (o.isCatchAll \/ (last /\ star))
      BY <1>4, <1>8
    <3> QED
      BY <3>1, <3>2, <3>3, Zenon
  <2>4. last <=> passes /\ Len(node) = Len(Way(route))
    BY <2>1, NodesOnWay
  <2>5. Passing(all, verb, node) = passing \union (IF passes THEN {h} ELSE {})
    BY <1>5
  <2>6. \A i \in passing : all[i] = regs[i] /\ i \in Nat /\ i <= h /\ i # h
    BY <1>7
  <2>7. all[h].route = route /\ h \in Nat
    BY <1>1, <1>2
  <2>8. Ending(all, verb, node) = ending \union (IF last THEN {h} ELSE {})
    <3>1. ASSUME NEW i \in passing
          PROVE  Len(Way(all[i].route)) = Len(node) <=> Len(Way(regs[i].route)) = Len(node)
      BY <2>6
    <3>2. Len(Way(all[h].route)) = Len(node) <=> Len(Way(route)) = Len(node)
      BY <2>7
    <3>3. Ending(all, verb, node) = {i \in Passing(all, verb, node) : Len(Way(all[i].route)) = Len(node)}
      BY DEF Ending
    <3>4. ending = {i \in passing : Len(Way(regs[i].route)) = Len(node)}
      BY DEF Ending
    <3> HIDE DEF passing, ending, passes, last
    <3> QED
      BY <2>4, <2>5, <3>1, <3>2, <3>3, <3>4
  <2>9. \A i \in ending : all[i] = regs[i] /\ i \in Nat /\ i <= h
    BY <2>6 DEF Ending
  <2>10. Newest(ending, o.value)
    BY <2>2 DEF NodeIs
  <2>11. o.isCatchAll = (\E i \in ending : Before(regs[i].route) # regs[i].route)
    BY <2>2 DEF NodeIs
  <2>12. o.isParam = (\E i \in passing : /\ Len(Way(regs[i].route)) > Len(node)
                                         /\ regs[i].route[Len(node) + 1].kind = "param")
    BY <2>2 DEF NodeIs
  <2>13. passes /\ goes <=> /\ passes /\ Len(Way(all[h].route)) > Len(node)
                        /\ all[h].route[Len(node) + 1].kind = "param"
    BY <2>1, <2>7
  <2>14. star <=> Before(all[h].route) # all[h].route
    BY <2>7
  <2> HIDE DEF passing, ending, passes, last, o, m, star, goes
  <2>15. Newest(Ending(all, verb, node), m.value)
    <3>1. CASE last
      BY <2>3, <2>7, <2>8, <2>9, <3>1 DEF Newest
    <3>2. CASE ~last
      BY <2>3, <2>8, <2>10, <3>2 DEF Newest
    <3> QED
      BY <3>1, <3>2
  <2>16. m.isCatchAll = (\E i \in Ending(all, verb, node) : Before(all[i].route) # all[i].route)
    <3>1. (\E i \in Ending(all, verb, node) : Before(all[i].route) # all[i].route) <=>
            (\E i \in ending : Before(regs[i].route) # regs[i].route) \/ (last /\ star)
      BY <2>8, <2>9, <2>14
    <3> QED
      BY <2>3, <2>11, <3>1
  <2>17. m.isParam = (\E i \in Passing(all, verb, node) :
                        /\ Len(Way(all[i].route)) > Len(node)
                        /\ all[i].route[Len(node) + 1].kind = "param")
    <3>1. (\E i \in Passing(all, verb, node) :
             /\ Len(Way(all[i].route)) > Len(node)
             /\ all[i].route[Len(node) + 1].kind = "param") <=>
            (\E i \in passing : /\ Len(Way(regs[i].route)) > Len(node)
                                /\ regs[i].route[Len(node) + 1].kind = "param")
            \/ (passes /\ goes)
      BY <2>5, <2>6, <2>13
    <3> QED
      BY <2>3, <2>12, <3>1
  <2> QED
    BY <2>15, <2>16, <2>17 DEF NodeIs, m
<1>9. TreeIs(Text, grown, all, verb)
  BY <1>4, <1>6, <1>8 DEF TreeIs
<1> QED
  BY <1>9 DEF grown, h

(***************************************************************************)
(* find goes from node to node as Narrowed goes from set to set.           *)
(***************************************************************************)
LEMMA AppendNode ==
  ASSUME NEW Text, NEW node \in Seq(Text), NEW key \in Text
  PROVE  /\ Append(node, key) \in Seq(Text) /\ Len(Append(node, key)) = Len(node) + 1
         /\ Len(node) \in Nat
         /\ \A i \in 1..Len(node) : Append(node, key)[i] = node[i]
         /\ Append(node, key)[Len(node) + 1] = key
         /\ Append(node, key) # <<>>
OBVIOUS

(* A registration that leads through a node, and one of its children.      *)
LEMMA PassesOn ==
  ASSUME NEW Text, HasParamKey(Text), NEW regs, RegsAre(Text, regs), NEW verb,
         NEW node \in Seq(Text), NEW key \in Text, NEW i
  PROVE  i \in Passing(regs, verb, Append(node, key)) <=>
           /\ i \in Passing(regs, verb, node)
           /\ Len(node) + 1 <= Len(Way(regs[i].route))
           /\ Way(regs[i].route)[Len(node) + 1] = key
<1> DEFINE next == Append(node, key)
           way == Way(regs[i].route)
           n == Len(node)
<1>1. /\ Len(next) = n + 1 /\ n \in Nat
      /\ \A k \in 1..n : next[k] = node[k]
      /\ next[n + 1] = key
  BY AppendNode
<1>2. i \in Mine(regs, verb) => Len(way) \in Nat
  <2>1. i \in Mine(regs, verb) => i \in 1..Len(regs)
    BY DEF Mine
  <2>2. ASSUME i \in 1..Len(regs) PROVE Len(way) \in Nat
    BY <2>2, RegParts
  <2> QED
    BY <2>1, <2>2
<1>3. i \in Passing(regs, verb, next) <=>
        i \in Mine(regs, verb) /\ Len(next) <= Len(way) /\ \A k \in 1..Len(next) : way[k] = next[k]
  BY DEF Passing
<1>4. i \in Passing(regs, verb, node) <=>
        i \in Mine(regs, verb) /\ n <= Len(way) /\ \A k \in 1..n : way[k] = node[k]
  BY DEF Passing
<1> HIDE DEF next, way, n
<1>5. \A k : k \in 1..(n + 1) <=> k \in 1..n \/ k = n + 1
  BY <1>1
<1>6. (\A k \in 1..Len(next) : way[k] = next[k]) <=>
        (\A k \in 1..n : way[k] = node[k]) /\ way[n + 1] = key
  BY <1>1, <1>5
<1>7. i \in Passing(regs, verb, next) <=>
        i \in Passing(regs, verb, node) /\ n + 1 <= Len(way) /\ way[n + 1] = key
  BY <1>1, <1>2, <1>3, <1>4, <1>6
<1> QED
  BY <1>7 DEF next, way, n

(* What comes next on its route tells which child.                         *)
LEMMA GoesTo ==
  ASSUME NEW Text, HasParamKey(Text), NEW regs, RegsAre(Text, regs), NEW verb,
         NEW node \in Seq(Text), NEW text \in Text, NEW i \in Passing(regs, verb, node)
  PROVE  /\ GoesOn(regs[i].route, Len(node) + 1, "param") <=>
              i \in Passing(regs, verb, Append(node, NoText))
         /\ GoesOn(regs[i].route, Len(node) + 1, "literal")
              /\ regs[i].route[Len(node) + 1].text = text <=>
              text # NoText /\ i \in Passing(regs, verb, Append(node, text))
         /\ GoesOn(regs[i].route, Len(node) + 1, "param") <=>
              /\ Len(Way(regs[i].route)) > Len(node)
              /\ regs[i].route[Len(node) + 1].kind = "param"
<1> DEFINE route == regs[i].route
           way == Way(route)
           next == Len(node) + 1
           w == Len(way)
           l == Len(route)
           toParam == i \in Passing(regs, verb, Append(node, NoText))
           toText == i \in Passing(regs, verb, Append(node, text))
<1>1. i \in 1..Len(regs) /\ Len(node) <= w /\ Len(node) \in Nat
  BY DEF Passing, Mine
<1>2. route \in Seq(PartOf(Text)) /\ Meaningful(route)
  BY <1>1, RegParts
<1>3. NoText \in Text
  BY DEF HasParamKey
<1>4. toParam <=> next <= w /\ way[next] = NoText
  BY <1>3, PassesOn
<1>5. toText <=> next <= w /\ way[next] = text
  BY PassesOn
<1> HIDE DEF route
<1>6. /\ w \in Nat /\ w <= l
      /\ \A k \in 1..w : /\ route[k].kind # "all"
                         /\ way[k] = IF route[k].kind = "param" THEN NoText ELSE route[k].text
      /\ w < l => route[w + 1].kind = "all"
  BY <1>2, WayParts
<1>7. l \in Nat
  BY <1>2
<1>8. next \in Nat \ {0} /\ next <= w + 1 /\ (Len(node) < w <=> next <= w)
  <2> HIDE DEF w
  <2> QED
    BY <1>1, <1>6
<1> HIDE DEF way, w, l
<1>9. ASSUME NEW k \in 1..w
      PROVE  /\ route[k].kind \in {"literal", "param"}
             /\ route[k].kind = "literal" => route[k].text # NoText
  <2> DEFINE P == PartOf(Text)
  <2>1. k \in 1..l
    BY <1>6, <1>7
  <2>2. route \in Seq(P)
    BY <1>2
  <2> HIDE DEF P
  <2>3. route[k] \in P
    BY <2>1, <2>2 DEF l
  <2>4. route[k].kind \in {"literal", "param", "all"}
    BY <2>3 DEF P, PartOf
  <2>5. route[k].kind = "literal" => route[k].text # NoText
    BY <1>2, <2>1 DEF Meaningful, l
  <2> QED
    BY <1>6, <2>4, <2>5
<1> HIDE DEF next
<1>10. CASE next <= w
  <2>1. next \in 1..w /\ l >= next
    BY <1>6, <1>7, <1>8, <1>10
  <2>2. /\ route[next].kind \in {"literal", "param"}
        /\ route[next].kind = "literal" => route[next].text # NoText
        /\ way[next] = IF route[next].kind = "param" THEN NoText ELSE route[next].text
    BY <1>6, <1>9, <2>1
  <2>3. GoesOn(route, next, "param") <=> route[next].kind = "param"
    BY <2>1 DEF GoesOn, l
  <2>4. GoesOn(route, next, "literal") <=> route[next].kind = "literal"
    BY <2>1 DEF GoesOn, l
  <2>5. toParam <=> route[next].kind = "param"
    BY <1>4, <1>10, <2>2
  <2>6. text # NoText /\ toText <=> route[next].kind = "literal" /\ route[next].text = text
    BY <1>5, <1>10, <2>2
  <2>7. Len(node) < w
    BY <1>8, <1>10
  <2> HIDE DEF toParam, toText
  <2> QED
    BY <1>1, <1>6, <2>3, <2>4, <2>5, <2>6, <2>7 DEF w, way, next, route, toParam, toText
<1>11. CASE ~(next <= w)
  <2>1. next = w + 1 /\ ~(Len(node) < w)
    BY <1>6, <1>8, <1>11
  <2>2. l >= next => route[next].kind = "all"
    BY <1>6, <1>7, <2>1
  <2>3. ~GoesOn(route, next, "param") /\ ~GoesOn(route, next, "literal")
    BY <2>2 DEF GoesOn, l
  <2>4. ~toParam /\ ~toText
    BY <1>4, <1>5, <1>11
  <2> HIDE DEF toParam, toText
  <2> QED
    BY <1>1, <1>6, <2>1, <2>3, <2>4 DEF w, way, next, route, toParam, toText
<1> QED
  BY <1>10, <1>11

(* The registrations left are those that lead through the node reached.    *)
LeftAt(regs, verb, left, node) ==
  \A r : r \in left <=> \E i \in Passing(regs, verb, node) : regs[i].route = r

LEMMA NarrowsAsTree ==
  ASSUME NEW Text, HasParamKey(Text), NEW regs, RegsAre(Text, regs), NEW verb,
         NEW tree, TreeIs(Text, tree, regs, verb),
         NEW node \in DOMAIN tree, NEW left, LeftAt(regs, verb, left, node),
         NEW text \in Text, NEW next, next = Narrow(left, Len(node) + 1, text)
  PROVE  /\ node \in Seq(Text)
         /\ Append(node, text) \in DOMAIN tree => LeftAt(regs, verb, next, Append(node, text))
         /\ tree[node].isParam <=> Append(node, NoText) \in DOMAIN tree
         /\ Append(node, text) \notin DOMAIN tree =>
              LeftAt(regs, verb, next, Append(node, NoText))
<1> DEFINE n == Len(node) + 1
           onText == Append(node, text)
           onParam == Append(node, NoText)
           literal == {r \in left : GoesOn(r, n, "literal") /\ r[n].text = text}
           param == {r \in left : GoesOn(r, n, "param")}
<1>1. /\ node \in Seq(Text)
      /\ \A m \in Seq(Text) : m \in DOMAIN tree <=> (m = <<>> \/ Passing(regs, verb, m) # {})
      /\ NodeIs(tree[node], regs, verb, node)
  BY DEF TreeIs
<1>2. /\ onText \in Seq(Text) /\ onText # <<>>
      /\ onParam \in Seq(Text) /\ onParam # <<>>
  <2>1. NoText \in Text
    BY DEF HasParamKey
  <2> QED
    BY <1>1, <2>1, AppendNode
<1>3. /\ onText \in DOMAIN tree <=> Passing(regs, verb, onText) # {}
      /\ onParam \in DOMAIN tree <=> Passing(regs, verb, onParam) # {}
  <2> HIDE DEF onText, onParam
  <2> QED
    BY <1>1, <1>2
<1>4. \A i : /\ i \in Passing(regs, verb, onText) => i \in Passing(regs, verb, node)
             /\ i \in Passing(regs, verb, onParam) => i \in Passing(regs, verb, node)
  <2>1. NoText \in Text
    BY DEF HasParamKey
  <2> QED
    BY <1>1, <2>1, PassesOn
<1>5. \A i \in Passing(regs, verb, node) :
        /\ GoesOn(regs[i].route, n, "param") <=> i \in Passing(regs, verb, onParam)
        /\ GoesOn(regs[i].route, n, "literal") /\ regs[i].route[n].text = text <=>
             text # NoText /\ i \in Passing(regs, verb, onText)
        /\ GoesOn(regs[i].route, n, "param") <=>
             Len(Way(regs[i].route)) > Len(node) /\ regs[i].route[n].kind = "param"
  <2> TAKE i \in Passing(regs, verb, node)
  <2> QED
    BY <1>1, GoesTo
<1>6. next = IF literal # {} THEN literal ELSE param
  BY DEF Narrow
<1>7. tree[node].isParam <=> \E i \in Passing(regs, verb, node) :
                               /\ Len(Way(regs[i].route)) > Len(node)
                               /\ regs[i].route[n].kind = "param"
  BY <1>1 DEF NodeIs
<1>8. tree[node].isParam <=> onParam \in DOMAIN tree
  <2> HIDE DEF onParam, n
  <2> QED
    BY <1>3, <1>4, <1>5, <1>7
<1>9. LeftAt(regs, verb, param, onParam)
  <2> HIDE DEF onParam, n
  <2> SUFFICES ASSUME NEW r
               PROVE  r \in param <=> \E i \in Passing(regs, verb, onParam) : regs[i].route = r
    BY DEF LeftAt
  <2>1. r \in left <=> \E i \in Passing(regs, verb, node) : regs[i].route = r
    BY DEF LeftAt
  <2> QED
    BY <1>4, <1>5, <2>1
<1>10. \A r : r \in literal <=>
                text # NoText /\ \E i \in Passing(regs, verb, onText) : regs[i].route = r
  <2> HIDE DEF onText, n
  <2> TAKE r
  <2>1. r \in left <=> \E i \in Passing(regs, verb, node) : regs[i].route = r
    BY DEF LeftAt
  <2> QED
    BY <1>4, <1>5, <2>1
<1>11. text = NoText => onText = onParam
  OBVIOUS
<1> HIDE DEF literal, param, onText, onParam
<1>12. ASSUME onText \in DOMAIN tree PROVE LeftAt(regs, verb, next, onText)
  <2>1. CASE text = NoText
    <3>1. literal = {}
      BY <1>10, <2>1
    <3> QED
      BY <1>6, <1>9, <1>11, <2>1, <3>1
  <2>2. CASE text # NoText
    <3>1. PICK i : i \in Passing(regs, verb, onText)
      BY <1>3, <1>12
    <3>2. literal # {}
      BY <1>10, <2>2, <3>1
    <3>3. next = literal
      BY <1>6, <3>2
    <3> QED
      BY <1>10, <2>2, <3>3 DEF LeftAt
  <2> QED
    BY <2>1, <2>2
<1>13. ASSUME onText \notin DOMAIN tree PROVE LeftAt(regs, verb, next, onParam)
  <2>1. literal = {}
    BY <1>3, <1>10, <1>13
  <2> QED
    BY <1>6, <1>9, <2>1
<1> QED
  BY <1>1, <1>8, <1>12, <1>13 DEF onText, onParam

(* find's table of places, and Narrowed's of registrations.                *)
Walks(f, tree, uri, n) ==
  f = [i \in 0..n |-> IF i = 0 THEN Start ELSE Follow(tree, f[i - 1], uri[i])]
Narrows(f, routes, uri, n) ==
  f = [i \in 0..n |-> IF i = 0 THEN routes ELSE Narrow(f[i - 1], i, uri[i])]

LEMMA WalksSteps ==
  ASSUME NEW tree, NEW uri, NEW n \in Nat, NEW f, Walks(f, tree, uri, n)
  PROVE  /\ f[0] = Start
         /\ \A i \in Nat : i + 1 \in 0..n => f[i + 1] = Follow(tree, f[i], uri[i + 1])
<1> DEFINE Entry(i) == IF i = 0 THEN Start ELSE Follow(tree, f[i - 1], uri[i])
<1>1. \A i \in 0..n : f[i] = Entry(i)
  <2>1. f = [i \in 0..n |-> Entry(i)]
    BY DEF Walks
  <2> HIDE DEF Entry
  <2> QED
    BY <2>1
<1>2. Entry(0) = Start /\ 0 \in 0..n
  OBVIOUS
<1>3. ASSUME NEW i \in Nat, i + 1 \in 0..n
      PROVE  f[i + 1] = Follow(tree, f[i], uri[i + 1])
  <2>1. (i + 1) - 1 = i /\ i + 1 # 0
    OBVIOUS
  <2>2. Entry(i + 1) = Follow(tree, f[i], uri[i + 1])
    BY <2>1
  <2> HIDE DEF Entry
  <2> QED
    BY <1>1, <1>3, <2>2
<1> HIDE DEF Entry
<1> QED
  BY <1>1, <1>2, <1>3

LEMMA WalksExists ==
  ASSUME NEW tree, NEW uri, NEW n \in Nat
  PROVE  \E f : Walks(f, tree, uri, n)
<1> DEFINE P(m) == \E f : Walks(f, tree, uri, m)
           S == {m \in Nat : P(m)}
<1>1. P(0)
  <2> DEFINE f == [i \in 0..0 |-> Start]
  <2>1. f = [i \in 0..0 |-> IF i = 0 THEN Start ELSE Follow(tree, f[i - 1], uri[i])]
    <3>1. \A i \in 0..0 : i = 0
      OBVIOUS
    <3> QED
      BY <3>1
  <2> HIDE DEF f
  <2>2. Walks(f, tree, uri, 0)
    BY <2>1 DEF Walks
  <2> QED
    BY <2>2
<1>2. ASSUME NEW m \in Nat, P(m) PROVE P(m + 1)
  <2>1. PICK g : Walks(g, tree, uri, m)
    BY <1>2
  <2>2. /\ g[0] = Start
        /\ \A i \in Nat : i + 1 \in 0..m => g[i + 1] = Follow(tree, g[i], uri[i + 1])
    BY <2>1, WalksSteps
  <2> DEFINE last == Follow(tree, g[m], uri[m + 1])
             f == [i \in 0..(m + 1) |-> IF i <= m THEN g[i] ELSE last]
             Entry(i) == IF i = 0 THEN Start ELSE Follow(tree, f[i - 1], uri[i])
  <2>3. f[m + 1] = last /\ \A i \in 0..m : f[i] = g[i]
    <3> HIDE DEF last
    <3> QED
      OBVIOUS
  <2>4. f = [i \in 0..(m + 1) |-> f[i]]
    <3> HIDE DEF last
    <3> QED
      OBVIOUS
  <2> HIDE DEF f
  <2>5. ASSUME NEW i \in 0..(m + 1) PROVE f[i] = Entry(i)
    <3>1. CASE i = 0
      BY <2>2, <2>3, <3>1
    <3>2. CASE i # 0 /\ i <= m
      <4> DEFINE j == i - 1
      <4>1. j \in Nat /\ j + 1 = i /\ j + 1 \in 0..m /\ j \in 0..m /\ i \in 0..m
        BY <3>2
      <4> HIDE DEF j
      <4>2. g[j + 1] = Follow(tree, g[j], uri[j + 1])
        BY <2>2, <4>1
      <4>3. f[i] = g[i] /\ f[j] = g[j]
        BY <2>3, <4>1
      <4>4. f[i] = Follow(tree, f[j], uri[i])
        BY <4>1, <4>2, <4>3
      <4> QED
        BY <3>2, <4>4 DEF j
    <3>3. CASE i = m + 1
      <4>1. i # 0 /\ i - 1 = m /\ m \in 0..m
        BY <3>3
      <4> QED
        BY <2>3, <3>3, <4>1
    <3> QED
      BY <3>1, <3>2, <3>3
  <2> HIDE DEF Entry
  <2>6. f = [i \in 0..(m + 1) |-> Entry(i)]
    BY <2>4, <2>5
  <2>7. Walks(f, tree, uri, m + 1)
    BY <2>6 DEF Walks, Entry
  <2> QED
    BY <2>7
<1> HIDE DEF P
<1>3. \A m \in Nat : m \in S
  <2>1. 0 \in S /\ \A m \in Nat : m \in S => m + 1 \in S
    BY <1>1, <1>2
  <2> HIDE DEF S
  <2> QED
    BY <2>1, NatSetInduction
<1> QED
  BY <1>3 DEF P

LEMMA FindWalks ==
  ASSUME NEW tree, NEW uri, Len(uri) \in Nat
  PROVE  \E f : /\ Walks(f, tree, uri, Len(uri))
                /\ find(tree, uri) =
                     IF f[Len(uri)].done THEN f[Len(uri)].result
                     ELSE IF tree[f[Len(uri)].node].value # NoHandler
                     THEN [handler |-> tree[f[Len(uri)].node].value, params |-> f[Len(uri)].params]
                     ELSE NotFound
<1> DEFINE f == CHOOSE g : Walks(g, tree, uri, Len(uri))
<1>1. Walks(f, tree, uri, Len(uri))
  BY WalksExists, Zenon
<1>2. find(tree, uri) =
        IF f[Len(uri)].done THEN f[Len(uri)].result
        ELSE IF tree[f[Len(uri)].node].value # NoHandler
        THEN [handler |-> tree[f[Len(uri)].node].value, params |-> f[Len(uri)].params]
        ELSE NotFound
  BY DEF find, Walks
<1> HIDE DEF f
<1> QED
  BY <1>1, <1>2

LEMMA NarrowsSteps ==
  ASSUME NEW routes, NEW uri, NEW n \in Nat, NEW f, Narrows(f, routes, uri, n)
  PROVE  /\ f[0] = routes
         /\ \A i \in Nat : i + 1 \in 0..n => f[i + 1] = Narrow(f[i], i + 1, uri[i + 1])
<1> DEFINE Entry(i) == IF i = 0 THEN routes ELSE Narrow(f[i - 1], i, uri[i])
<1>1. \A i \in 0..n : f[i] = Entry(i)
  <2>1. f = [i \in 0..n |-> Entry(i)]
    BY DEF Narrows
  <2> HIDE DEF Entry
  <2> QED
    BY <2>1
<1>2. Entry(0) = routes /\ 0 \in 0..n
  OBVIOUS
<1>3. ASSUME NEW i \in Nat, i + 1 \in 0..n
      PROVE  f[i + 1] = Narrow(f[i], i + 1, uri[i + 1])
  <2>1. (i + 1) - 1 = i /\ i + 1 # 0
    OBVIOUS
  <2>2. Entry(i + 1) = Narrow(f[i], i + 1, uri[i + 1])
    BY <2>1
  <2> HIDE DEF Entry
  <2> QED
    BY <1>1, <1>3, <2>2
<1> HIDE DEF Entry
<1> QED
  BY <1>1, <1>2, <1>3

LEMMA NarrowsExists ==
  ASSUME NEW routes, NEW uri, NEW n \in Nat
  PROVE  \E f : Narrows(f, routes, uri, n)
<1> DEFINE P(m) == \E f : Narrows(f, routes, uri, m)
           S == {m \in Nat : P(m)}
<1>1. P(0)
  <2> DEFINE f == [i \in 0..0 |-> routes]
  <2>1. f = [i \in 0..0 |-> IF i = 0 THEN routes ELSE Narrow(f[i - 1], i, uri[i])]
    <3>1. \A i \in 0..0 : i = 0
      OBVIOUS
    <3> QED
      BY <3>1
  <2> HIDE DEF f
  <2>2. Narrows(f, routes, uri, 0)
    BY <2>1 DEF Narrows
  <2> QED
    BY <2>2
<1>2. ASSUME NEW m \in Nat, P(m) PROVE P(m + 1)
  <2>1. PICK g : Narrows(g, routes, uri, m)
    BY <1>2
  <2>2. /\ g[0] = routes
        /\ \A i \in Nat : i + 1 \in 0..m => g[i + 1] = Narrow(g[i], i + 1, uri[i + 1])
    BY <2>1, NarrowsSteps
  <2> DEFINE last == Narrow(g[m], m + 1, uri[m + 1])
             f == [i \in 0..(m + 1) |-> IF i <= m THEN g[i] ELSE last]
             Entry(i) == IF i = 0 THEN routes ELSE Narrow(f[i - 1], i, uri[i])
  <2>3. f[m + 1] = last /\ \A i \in 0..m : f[i] = g[i]
    <3> HIDE DEF last
    <3> QED
      OBVIOUS
  <2>4. f = [i \in 0..(m + 1) |-> f[i]]
    <3> HIDE DEF last
    <3> QED
      OBVIOUS
  <2> HIDE DEF f
  <2>5. ASSUME NEW i \in 0..(m + 1) PROVE f[i] = Entry(i)
    <3>1. CASE i = 0
      BY <2>2, <2>3, <3>1
    <3>2. CASE i # 0 /\ i <= m
      <4> DEFINE j == i - 1
      <4>1. j \in Nat /\ j + 1 = i /\ j + 1 \in 0..m /\ j \in 0..m /\ i \in 0..m
        BY <3>2
      <4> HIDE DEF j
      <4>2. g[j + 1] = Narrow(g[j], j + 1, uri[j + 1])
        BY <2>2, <4>1
      <4>3. f[i] = g[i] /\ f[j] = g[j]
        BY <2>3, <4>1
      <4>4. f[i] = Narrow(f[j], i, uri[i])
        BY <4>1, <4>2, <4>3
      <4> QED
        BY <3>2, <4>4 DEF j
    <3>3. CASE i = m + 1
      <4>1. i # 0 /\ i - 1 = m /\ m \in 0..m
        BY <3>3
      <4> QED
        BY <2>3, <3>3, <4>1
    <3> QED
      BY <3>1, <3>2, <3>3
  <2> HIDE DEF Entry
  <2>6. f = [i \in 0..(m + 1) |-> Entry(i)]
    BY <2>4, <2>5
  <2>7. Narrows(f, routes, uri, m + 1)
    BY <2>6 DEF Narrows, Entry
  <2> QED
    BY <2>7
<1> HIDE DEF P
<1>3. \A m \in Nat : m \in S
  <2>1. 0 \in S /\ \A m \in Nat : m \in S => m + 1 \in S
    BY <1>1, <1>2
  <2> HIDE DEF S
  <2> QED
    BY <2>1, NatSetInduction
<1> QED
  BY <1>3 DEF P

LEMMA NarrowedNarrows ==
  ASSUME NEW routes, NEW uri, Len(uri) \in Nat
  PROVE  Narrows(Narrowed(routes, uri), routes, uri, Len(uri))
<1> DEFINE f == CHOOSE g : Narrows(g, routes, uri, Len(uri))
<1>1. Narrows(f, routes, uri, Len(uri))
  BY NarrowsExists, Zenon
<1>2. Narrowed(routes, uri) = f
  BY DEF Narrowed, Narrows
<1> QED
  BY <1>1, <1>2

(* A place that find has come to.                                          *)
Place(at) ==
  /\ at = [node |-> at.node, params |-> at.params, done |-> at.done, result |-> at.result]
  /\ at.done \in BOOLEAN /\ (~at.done => at.result.handler = NoHandler)

Followed(tree, at, text, next) ==
  /\ Place(next)
  /\ at.done => next = at
  /\ ~at.done /\ Append(at.node, text) \in DOMAIN tree =>
       ~next.done /\ next.node = Append(at.node, text)
  /\ ~at.done /\ Append(at.node, text) \notin DOMAIN tree /\ tree[at.node].isParam =>
       ~next.done /\ next.node = Append(at.node, NoText)
  /\ ~at.done /\ Append(at.node, text) \notin DOMAIN tree /\ ~tree[at.node].isParam =>
       /\ next.done
       /\ next.result.handler =
            IF tree[at.node].isCatchAll THEN tree[at.node].value ELSE NoHandler

LEMMA FollowParts ==
  ASSUME NEW tree, NEW at, Place(at), NEW text, NEW next, next = Follow(tree, at, text)
  PROVE  Followed(tree, at, text, next)
<1> SUFFICES /\ Place(next)
             /\ at.done => next = at
             /\ ~at.done /\ Append(at.node, text) \in DOMAIN tree =>
                  ~next.done /\ next.node = Append(at.node, text)
             /\ ~at.done /\ Append(at.node, text) \notin DOMAIN tree /\ tree[at.node].isParam =>
                  ~next.done /\ next.node = Append(at.node, NoText)
             /\ ~at.done /\ Append(at.node, text) \notin DOMAIN tree /\ ~tree[at.node].isParam =>
                  /\ next.done
                  /\ next.result.handler =
                       IF tree[at.node].isCatchAll THEN tree[at.node].value ELSE NoHandler
  BY DEF Followed
<1> DEFINE n == tree[at.node]
           there == Append(at.node, text)
<1>1. /\ at = [node |-> at.node, params |-> at.params, done |-> at.done, result |-> at.result]
      /\ at.done \in BOOLEAN /\ (~at.done => at.result.handler = NoHandler)
  BY DEF Place
<1>2. CASE at.done
  <2>1. next = at
    BY <1>2 DEF Follow
  <2> QED
    BY <1>2, <2>1
<1>3. CASE ~at.done /\ there \in DOMAIN tree
  <2>1. next = [at EXCEPT !.node = there]
    BY <1>3 DEF Follow
  <2> HIDE DEF there
  <2>2. next = [node |-> there, params |-> at.params, done |-> at.done, result |-> at.result]
    BY <1>1, <2>1
  <2>3. /\ next.node = there /\ next.params = at.params /\ next.done = at.done
        /\ next.result = at.result
    BY <2>2
  <2>4. Place(next)
    BY <1>1, <2>2, <2>3 DEF Place
  <2> QED
    BY <1>3, <2>3, <2>4 DEF there
<1>4. CASE ~at.done /\ there \notin DOMAIN tree /\ n.isParam
  <2> DEFINE new == (n.paramName :> text) @@ at.params
             to == Append(at.node, NoText)
  <2>1. next = [at EXCEPT !.node = to, !.params = new]
    BY <1>4 DEF Follow, NoText
  <2> HIDE DEF new, to, there
  <2>2. next = [node |-> to, params |-> new, done |-> at.done, result |-> at.result]
    BY <1>1, <2>1
  <2>3. next.node = to /\ next.params = new /\ next.done = at.done /\ next.result = at.result
    BY <2>2
  <2>4. Place(next)
    BY <1>1, <2>2, <2>3 DEF Place
  <2> QED
    BY <1>4, <2>3, <2>4 DEF there, to
<1>5. CASE ~at.done /\ there \notin DOMAIN tree /\ ~n.isParam
  <2> DEFINE all == ("**" :> "*") @@ at.params
             found == [handler |-> n.value, params |-> all]
  <2>1. next = IF n.isCatchAll THEN [at EXCEPT !.done = TRUE, !.result = found]
               ELSE [at EXCEPT !.done = TRUE]
    BY <1>5 DEF Follow
  <2>2. found.handler = n.value
    OBVIOUS
  <2> HIDE DEF found, there
  <2>3. next = [node |-> at.node, params |-> at.params, done |-> TRUE,
                result |-> IF n.isCatchAll THEN found ELSE at.result]
    BY <1>1, <2>1
  <2>4. /\ next.node = at.node /\ next.params = at.params /\ next.done = TRUE
        /\ next.result = IF n.isCatchAll THEN found ELSE at.result
    BY <2>3
  <2>5. Place(next)
    BY <2>3, <2>4 DEF Place
  <2>6. next.result.handler = IF n.isCatchAll THEN n.value ELSE NoHandler
    BY <1>1, <1>5, <2>2, <2>4
  <2> QED
    BY <1>5, <2>4, <2>5, <2>6 DEF there
<1> QED
  BY <1>1, <1>2, <1>3, <1>4, <1>5

(* Where find stands after some parts of the uri: at the node of the       *)
(* registrations left, or done since it met a node that leads no further.  *)
StandsAt(regs, verb, tree, left, at, j) ==
  /\ Place(at) /\ ~at.done
  /\ at.node \in DOMAIN tree /\ Len(at.node) = j
  /\ LeftAt(regs, verb, left[j], at.node)

StoppedAt(regs, verb, tree, left, node, handler, j, i) ==
  /\ j < i /\ node \in DOMAIN tree /\ Len(node) = j
  /\ LeftAt(regs, verb, left[j], node)
  /\ \A m \in (j + 1)..i : left[m] = {}
  /\ handler = IF tree[node].isCatchAll THEN tree[node].value ELSE NoHandler

Stopped(regs, verb, tree, left, at, i) ==
  /\ Place(at) /\ at.done
  /\ \E node \in DOMAIN tree, j \in Nat :
       StoppedAt(regs, verb, tree, left, node, at.result.handler, j, i)

LEMMA EmptyStays ==
  ASSUME NEW i, NEW text
  PROVE  Narrow({}, i, text) = {}
BY DEF Narrow

RoutesOf(regs, verb) == {regs[i].route : i \in Mine(regs, verb)}

LEMMA WalkFollows ==
  ASSUME NEW Text, HasParamKey(Text), NEW regs, RegsAre(Text, regs), NEW verb,
         NEW tree, TreeIs(Text, tree, regs, verb), NEW uri \in Seq(Text),
         NEW f, Walks(f, tree, uri, Len(uri)),
         NEW left, Narrows(left, RoutesOf(regs, verb), uri, Len(uri))
  PROVE  \A i \in 0..Len(uri) :
           \/ StandsAt(regs, verb, tree, left, f[i], i)
           \/ Stopped(regs, verb, tree, left, f[i], i)
<1> DEFINE l == Len(uri)
           P(i) == \/ StandsAt(regs, verb, tree, left, f[i], i)
                   \/ Stopped(regs, verb, tree, left, f[i], i)
           S == {i \in Nat : i <= l => P(i)}
<1>0. l \in Nat /\ Walks(f, tree, uri, l) /\ Narrows(left, RoutesOf(regs, verb), uri, l)
  OBVIOUS
<1> HIDE DEF P, l
<1>1. f[0] = Start /\ \A i \in Nat : i + 1 \in 0..l => f[i + 1] = Follow(tree, f[i], uri[i + 1])
  BY <1>0, WalksSteps
<1>2. left[0] = RoutesOf(regs, verb) /\ \A i \in Nat : i + 1 \in 0..l => left[i + 1] = Narrow(left[i], i + 1, uri[i + 1])
  BY <1>0, NarrowsSteps
<1>3. P(0)
  <2>1. Place(Start) /\ ~Start.done /\ Start.node = <<>>
    BY DEF Start, Place, NotFound
  <2>2. <<>> \in DOMAIN tree /\ Len(<<>>) = 0
    <3>1. <<>> \in Seq(Text)
      OBVIOUS
    <3> QED
      BY <3>1 DEF TreeIs
  <2>3. LeftAt(regs, verb, RoutesOf(regs, verb), <<>>)
    <3>1. \A i \in Mine(regs, verb) : Len(Way(regs[i].route)) \in Nat
      <4>1. \A i \in Mine(regs, verb) : i \in 1..Len(regs)
        BY DEF Mine
      <4> QED
        BY <4>1, RegParts
    <3>2. Passing(regs, verb, <<>>) = Mine(regs, verb)
      BY <3>1 DEF Passing
    <3> QED
      BY <3>2 DEF LeftAt, RoutesOf
  <2> QED
    BY <1>1, <1>2, <2>1, <2>2, <2>3 DEF P, StandsAt
<1>4. ASSUME NEW i \in Nat, i + 1 <= l, P(i) PROVE P(i + 1)
  <2> DEFINE at == f[i]
             next == f[i + 1]
             text == uri[i + 1]
             more == left[i + 1]
  <2>1. i + 1 \in 0..l /\ text \in Text
    <3>1. i + 1 \in 1..l
      BY <1>0, <1>4
    <3>2. text \in Text
      BY <3>1 DEF l
    <3> QED
      BY <3>1, <3>2
  <2>2. next = Follow(tree, at, text) /\ more = Narrow(left[i], i + 1, text)
    BY <1>1, <1>2, <2>1
  <2>3. CASE StandsAt(regs, verb, tree, left, at, i)
    <3> DEFINE node == at.node
    <3>1. /\ Place(at) /\ ~at.done /\ node \in DOMAIN tree /\ Len(node) = i
          /\ LeftAt(regs, verb, left[i], node)
      BY <2>3 DEF StandsAt
    <3> HIDE DEF at, next, text, more
    <3>2. more = Narrow(left[i], Len(node) + 1, text)
      BY <2>2, <3>1
    <3>3. /\ node \in Seq(Text)
          /\ Append(node, text) \in DOMAIN tree => LeftAt(regs, verb, more, Append(node, text))
          /\ tree[node].isParam <=> Append(node, NoText) \in DOMAIN tree
          /\ Append(node, text) \notin DOMAIN tree =>
               LeftAt(regs, verb, more, Append(node, NoText))
      BY <2>1, <3>1, <3>2, NarrowsAsTree
    <3>4. /\ Place(next)
          /\ Append(node, text) \in DOMAIN tree =>
               ~next.done /\ next.node = Append(node, text)
          /\ Append(node, text) \notin DOMAIN tree /\ tree[node].isParam =>
               ~next.done /\ next.node = Append(node, NoText)
          /\ Append(node, text) \notin DOMAIN tree /\ ~tree[node].isParam =>
               /\ next.done
               /\ next.result.handler =
                    IF tree[node].isCatchAll THEN tree[node].value ELSE NoHandler
      <4>1. Place(at) /\ next = Follow(tree, at, text)
        BY <2>2, <3>1
      <4>2. Followed(tree, at, text, next)
        BY <4>1, FollowParts
      <4> QED
        BY <3>1, <4>2 DEF Followed, node
    <3>5. Len(Append(node, text)) = i + 1 /\ Len(Append(node, NoText)) = i + 1
      <4>1. NoText \in Text
        BY DEF HasParamKey
      <4> QED
        BY <2>1, <3>1, <3>3, <4>1, AppendNode
    <3> HIDE DEF node
    <3>6. CASE Append(node, text) \in DOMAIN tree
      <4>1. StandsAt(regs, verb, tree, left, next, i + 1)
        BY <3>3, <3>4, <3>5, <3>6 DEF StandsAt, more
      <4> QED
        BY <4>1 DEF P, next
    <3>7. CASE Append(node, text) \notin DOMAIN tree /\ tree[node].isParam
      <4>1. StandsAt(regs, verb, tree, left, next, i + 1)
        BY <3>3, <3>4, <3>5, <3>7 DEF StandsAt, more
      <4> QED
        BY <4>1 DEF P, next
    <3>8. CASE Append(node, text) \notin DOMAIN tree /\ ~tree[node].isParam
      <4> DEFINE handler == next.result.handler
      <4>1. more = {}
        <5>1. NoText \in Text
          BY DEF HasParamKey
        <5>2. Append(node, NoText) \in Seq(Text) /\ Append(node, NoText) \notin DOMAIN tree
          BY <3>3, <3>8, <5>1, AppendNode
        <5>3. Passing(regs, verb, Append(node, NoText)) = {}
          BY <5>2 DEF TreeIs
        <5> QED
          BY <3>3, <3>8, <5>3 DEF LeftAt
      <4>2. next.done /\ handler = IF tree[node].isCatchAll THEN tree[node].value ELSE NoHandler
        BY <3>4, <3>8
      <4>3. \A m \in (i + 1)..(i + 1) : left[m] = {}
        <5>1. \A m \in (i + 1)..(i + 1) : m = i + 1
          OBVIOUS
        <5> QED
          BY <4>1, <5>1 DEF more
      <4>4. i < i + 1
        OBVIOUS
      <4> HIDE DEF handler
      <4>5. StoppedAt(regs, verb, tree, left, node, handler, i, i + 1)
        BY <3>1, <4>2, <4>3, <4>4 DEF StoppedAt, node
      <4>6. Stopped(regs, verb, tree, left, next, i + 1)
        <5>1. node \in DOMAIN tree
          BY <3>1 DEF node
        <5> QED
          BY <3>4, <4>2, <4>5, <5>1 DEF Stopped, handler
      <4> QED
        BY <4>6 DEF P, next
    <3> QED
      BY <3>6, <3>7, <3>8
  <2>4. CASE Stopped(regs, verb, tree, left, at, i)
    <3> DEFINE handler == at.result.handler
    <3>1. PICK node \in DOMAIN tree, j \in Nat :
            StoppedAt(regs, verb, tree, left, node, handler, j, i)
      BY <2>4 DEF Stopped
    <3>2. Place(at) /\ at.done
      BY <2>4 DEF Stopped
    <3>3. next = at
      <4> HIDE DEF at, next, text
      <4>1. Followed(tree, at, text, next)
        BY <2>2, <3>2, FollowParts
      <4> QED
        BY <3>2, <4>1 DEF Followed
    <3>4. left[i] = {} /\ j < i
      <4>1. j < i /\ \A m \in (j + 1)..i : left[m] = {}
        BY <3>1 DEF StoppedAt
      <4>2. i \in (j + 1)..i
        BY <4>1
      <4> QED
        BY <4>1, <4>2
    <3>5. left[i + 1] = {}
      BY <2>2, <3>4, EmptyStays
    <3>6. \A m \in (j + 1)..(i + 1) : left[m] = {}
      <4>1. \A m \in (j + 1)..(i + 1) : m \in (j + 1)..i \/ m = i + 1
        OBVIOUS
      <4>2. \A m \in (j + 1)..i : left[m] = {}
        BY <3>1 DEF StoppedAt
      <4> QED
        BY <3>5, <4>1, <4>2
    <3>7. j < i + 1
      BY <3>4
    <3> HIDE DEF handler
    <3>8. StoppedAt(regs, verb, tree, left, node, handler, j, i + 1)
      BY <3>1, <3>6, <3>7 DEF StoppedAt
    <3>9. Stopped(regs, verb, tree, left, next, i + 1)
      BY <3>2, <3>3, <3>8 DEF Stopped, handler
    <3> QED
      BY <3>9 DEF P
  <2> QED
    BY <1>4, <2>3, <2>4 DEF P
<1>5. \A i \in Nat : i \in S
  <2>1. 0 \in S
    BY <1>3
  <2>2. \A i \in Nat : i \in S => i + 1 \in S
    BY <1>0, <1>4
  <2> HIDE DEF S
  <2> QED
    BY <2>1, <2>2, NatSetInduction
<1>6. \A i \in 0..l : P(i)
  <2>1. \A i \in 0..l : i \in Nat /\ i <= l
    BY <1>0
  <2> QED
    BY <1>5, <2>1
<1> QED
  BY <1>6 DEF P, l

(***************************************************************************)
(* What find finds where it ends is what Answering chooses.                *)
(***************************************************************************)
HereAt(left, j) == {r \in left : Len(Before(r)) = j}

LEMMA AnsweringAt ==
  ASSUME NEW routes, routes # {}, NEW uri, Len(uri) \in Nat, NEW j \in 0..Len(uri),
         Narrowed(routes, uri)[j] # {},
         \A m \in (j + 1)..Len(uri) : Narrowed(routes, uri)[m] = {}
  PROVE  Answering(routes, uri) =
           IF \/ j = Len(uri)
              \/ \E r \in HereAt(Narrowed(routes, uri)[j], j) : Before(r) # r
           THEN HereAt(Narrowed(routes, uri)[j], j) ELSE {}
<1> DEFINE left == Narrowed(routes, uri)
           l == Len(uri)
           IsLast(i) == left[i] # {} /\ \A k \in 0..l : left[k] # {} => k <= i
           reached == CHOOSE i \in 0..l : IsLast(i)
<1>1. l \in Nat /\ j \in 0..l /\ left[j] # {} /\ \A m \in (j + 1)..l : left[m] = {}
  OBVIOUS
<1>2. Answering(routes, uri) =
        IF routes = {} THEN {}
        ELSE IF reached = l THEN HereAt(left[reached], reached)
        ELSE IF \E r \in HereAt(left[reached], reached) : Before(r) # r
             THEN HereAt(left[reached], reached) ELSE {}
  BY DEF Answering, HereAt
<1> HIDE DEF left, l
<1>3. IsLast(j)
  <2>1. ASSUME NEW k \in 0..l, left[k] # {} PROVE k <= j
    <3>1. ~(k <= j) => k \in (j + 1)..l
      BY <1>1
    <3> QED
      BY <1>1, <2>1, <3>1
  <2> QED
    BY <1>1, <2>1
<1>4. \A i \in 0..l : IsLast(i) => j <= i
  BY <1>1
<1>5. \A i \in 0..l : IsLast(i) => i <= j
  BY <1>3
<1>6. \A i \in 0..l : IsLast(i) => i = j
  BY <1>1, <1>4, <1>5
<1> HIDE DEF IsLast
<1>7. reached \in 0..l /\ IsLast(reached)
  BY <1>1, <1>3, Zenon
<1>8. reached = j
  BY <1>6, <1>7
<1> HIDE DEF reached
<1> QED
  BY <1>2, <1>8 DEF left, l

(* The registrations that end at a node.                                   *)
LEMMA EndHere ==
  ASSUME NEW Text, HasParamKey(Text), NEW regs, RegsAre(Text, regs), NEW verb,
         NEW node, NEW left, LeftAt(regs, verb, left, node)
  PROVE  \A i \in Mine(regs, verb) :
           regs[i].route \in HereAt(left, Len(node)) <=> i \in Ending(regs, verb, node)
<1> SUFFICES ASSUME NEW i \in Mine(regs, verb)
             PROVE  regs[i].route \in HereAt(left, Len(node)) <=> i \in Ending(regs, verb, node)
  OBVIOUS
<1>1. Len(Way(regs[i].route)) = Len(Before(regs[i].route))
  <2>1. i \in 1..Len(regs)
    BY DEF Mine
  <2>2. regs[i].route \in Seq(PartOf(Text))
    BY <2>1, RegParts
  <2> QED
    BY <2>2, WayParts
<1>2. regs[i].route \in left <=> i \in Passing(regs, verb, node)
  <2>1. ASSUME regs[i].route \in left PROVE i \in Passing(regs, verb, node)
    <3>1. PICK k \in Passing(regs, verb, node) : regs[k].route = regs[i].route
      BY <2>1 DEF LeftAt
    <3> QED
      BY <3>1 DEF Passing
  <2>2. ASSUME i \in Passing(regs, verb, node) PROVE regs[i].route \in left
    BY <2>2 DEF LeftAt
  <2> QED
    BY <2>1, <2>2
<1> QED
  BY <1>1, <1>2 DEF HereAt, Ending

(* A node of the tree has registrations, if there are any.                 *)
LEMMA NodeHasRoutes ==
  ASSUME NEW Text, HasParamKey(Text), NEW regs, RegsAre(Text, regs), NEW verb,
         NEW tree, TreeIs(Text, tree, regs, verb), NEW node \in DOMAIN tree,
         NEW left, LeftAt(regs, verb, left, node), RoutesOf(regs, verb) # {}
  PROVE  left # {}
<1>1. Passing(regs, verb, node) # {}
  <2>1. node \in Seq(Text)
    BY DEF TreeIs
  <2>2. CASE node = <<>>
    <3>1. PICK i \in Mine(regs, verb) : TRUE
      BY DEF RoutesOf
    <3>2. i \in 1..Len(regs)
      BY DEF Mine
    <3>3. Len(Way(regs[i].route)) \in Nat
      BY <3>2, RegParts
    <3>4. i \in Passing(regs, verb, node)
      BY <2>2, <3>3 DEF Passing
    <3> QED
      BY <3>4
  <2> QED
    BY <2>1, <2>2 DEF TreeIs
<1> QED
  BY <1>1 DEF LeftAt

Answerers(regs, verb, uri) ==
  {i \in Mine(regs, verb) : regs[i].route \in Answering(RoutesOf(regs, verb), uri)}

(* Where the uri stops leading on, the answer is the node's.               *)
LEMMA AnswerersAt ==
  ASSUME NEW Text, HasParamKey(Text), NEW regs, RegsAre(Text, regs), NEW verb,
         NEW tree, TreeIs(Text, tree, regs, verb), NEW uri, Len(uri) \in Nat,
         NEW node \in DOMAIN tree, NEW j \in 0..Len(uri), Len(node) = j,
         LeftAt(regs, verb, Narrowed(RoutesOf(regs, verb), uri)[j], node),
         \A m \in (j + 1)..Len(uri) : Narrowed(RoutesOf(regs, verb), uri)[m] = {}
  PROVE  /\ j = Len(uri) \/ tree[node].isCatchAll => Newest(Answerers(regs, verb, uri), tree[node].value)
         /\ j # Len(uri) /\ ~tree[node].isCatchAll => Newest(Answerers(regs, verb, uri), NoHandler)
<1> DEFINE routes == RoutesOf(regs, verb)
           left == Narrowed(routes, uri)[j]
           here == HereAt(left, j)
           answerers == Answerers(regs, verb, uri)
           ending == Ending(regs, verb, node)
           all == tree[node].isCatchAll
<1>1. /\ Newest(ending, tree[node].value)
      /\ all = (\E i \in ending : Before(regs[i].route) # regs[i].route)
  BY DEF TreeIs, NodeIs
<1>2. \A i \in Mine(regs, verb) : regs[i].route \in here <=> i \in ending
  BY EndHere
<1>3. LeftAt(regs, verb, left, node)
  OBVIOUS
<1>4. ending \subseteq Mine(regs, verb)
  BY DEF Ending, Passing
<1>5. CASE routes = {}
  <2>1. Mine(regs, verb) = {}
    BY <1>5 DEF RoutesOf
  <2>2. ending = {} /\ answerers = {}
    BY <1>4, <2>1 DEF Answerers
  <2> HIDE DEF ending, answerers
  <2>3. Newest(answerers, tree[node].value) /\ Newest(answerers, NoHandler)
    BY <1>1, <2>2 DEF Newest
  <2> QED
    BY <2>3 DEF answerers
<1>6. CASE routes # {}
  <2>1. left # {}
    BY <1>3, <1>6, NodeHasRoutes
  <2>2. Answering(routes, uri) =
          IF j = Len(uri) \/ \E r \in here : Before(r) # r THEN here ELSE {}
    BY <1>6, <2>1, AnsweringAt
  <2>3. (\E r \in here : Before(r) # r) <=> all
    <3>1. \A r \in here : \E i \in Mine(regs, verb) : regs[i].route = r
      BY <1>3 DEF HereAt, LeftAt, Passing
    <3> HIDE DEF here, ending
    <3> QED
      BY <1>1, <1>2, <1>4, <3>1
  <2>4. j = Len(uri) \/ all => answerers = ending
    <3>1. j = Len(uri) \/ all => Answering(routes, uri) = here
      BY <2>2, <2>3
    <3>2. answerers = {i \in Mine(regs, verb) : regs[i].route \in Answering(routes, uri)}
      BY DEF Answerers
    <3> HIDE DEF here, ending, answerers, routes, all
    <3> QED
      BY <1>2, <1>4, <3>1, <3>2
  <2>5. j # Len(uri) /\ ~all => answerers = {}
    BY <2>2, <2>3 DEF Answerers
  <2> HIDE DEF answerers, ending
  <2>6. j # Len(uri) /\ ~all => Newest(answerers, NoHandler)
    BY <2>5 DEF Newest
  <2> QED
    BY <1>1, <2>4, <2>6 DEF answerers
<1> QED
  BY <1>5, <1>6

LEMMA FindAnswers ==
  ASSUME NEW Text, HasParamKey(Text), NEW regs, RegsAre(Text, regs), NEW verb,
         NEW tree, TreeIs(Text, tree, regs, verb), NEW uri \in Seq(Text)
  PROVE  Newest(Answerers(regs, verb, uri), find(tree, uri).handler)
<1> DEFINE l == Len(uri)
           left == Narrowed(RoutesOf(regs, verb), uri)
           handler == find(tree, uri).handler
<1>1. l \in Nat
  OBVIOUS
<1>2. PICK f : /\ Walks(f, tree, uri, l)
               /\ find(tree, uri) =
                    IF f[l].done THEN f[l].result
                    ELSE IF tree[f[l].node].value # NoHandler
                    THEN [handler |-> tree[f[l].node].value, params |-> f[l].params]
                    ELSE NotFound
  BY <1>1, FindWalks
<1>3. Narrows(left, RoutesOf(regs, verb), uri, l)
  BY <1>1, NarrowedNarrows
<1>4. \/ StandsAt(regs, verb, tree, left, f[l], l)
      \/ Stopped(regs, verb, tree, left, f[l], l)
  <2>1. l \in 0..l
    BY <1>1
  <2>2. \A i \in 0..Len(uri) :
           \/ StandsAt(regs, verb, tree, left, f[i], i)
           \/ Stopped(regs, verb, tree, left, f[i], i)
    BY <1>2, <1>3, WalkFollows
  <2> QED
    BY <2>1, <2>2
<1> DEFINE at == f[l]
<1>5. CASE StandsAt(regs, verb, tree, left, at, l)
  <2> DEFINE node == at.node
  <2>1. ~at.done /\ node \in DOMAIN tree /\ Len(node) = l /\ LeftAt(regs, verb, left[l], node)
    BY <1>5 DEF StandsAt
  <2>2. handler = tree[node].value
    BY <1>2, <2>1 DEF NotFound
  <2>3. \A m \in (l + 1)..l : left[m] = {}
    BY <1>1
  <2>4. l \in 0..l
    BY <1>1
  <2> HIDE DEF node, handler
  <2>5. Newest(Answerers(regs, verb, uri), tree[node].value)
    BY <1>1, <2>1, <2>3, <2>4, AnswerersAt
  <2> QED
    BY <2>2, <2>5 DEF handler
<1>6. CASE Stopped(regs, verb, tree, left, at, l)
  <2>1. at.done
    BY <1>6 DEF Stopped
  <2>2. handler = at.result.handler
    BY <1>2, <2>1
  <2>3. PICK node \in DOMAIN tree, j \in Nat :
          StoppedAt(regs, verb, tree, left, node, at.result.handler, j, l)
    BY <1>6 DEF Stopped
  <2>4. /\ j < l /\ Len(node) = j /\ LeftAt(regs, verb, left[j], node)
        /\ \A m \in (j + 1)..l : left[m] = {}
        /\ handler = IF tree[node].isCatchAll THEN tree[node].value ELSE NoHandler
    BY <2>2, <2>3 DEF StoppedAt
  <2>5. j \in 0..l /\ j # l
    BY <1>1, <2>4
  <2> HIDE DEF handler
  <2>6. /\ j = Len(uri) \/ tree[node].isCatchAll =>
             Newest(Answerers(regs, verb, uri), tree[node].value)
        /\ j # Len(uri) /\ ~tree[node].isCatchAll => Newest(Answerers(regs, verb, uri), NoHandler)
    BY <1>1, <2>4, <2>5, AnswerersAt
  <2> QED
    BY <2>4, <2>5, <2>6 DEF handler
<1> QED
  BY <1>4, <1>5, <1>6

(***************************************************************************)
(* The server keeps both routers so.                                       *)
(***************************************************************************)
RoutersInv(Text) ==
  /\ RegsAre(Text, registered)
  /\ TreeIs(Text, getRequestsRouter, registered, "GET")
  /\ TreeIs(Text, postRequestsRouter, registered, "POST")

(* The hypotheses of the theorem below, on the routes and uris.            *)
RoutesOn(Text) ==
  /\ HasParamKey(Text)
  /\ \A route \in Routes : route \in Seq(PartOf(Text)) /\ Meaningful(route)
  /\ Uris \subseteq Seq(Text)

LEMMA RootIs ==
  ASSUME NEW Text, HasParamKey(Text), NEW verb
  PROVE  TreeIs(Text, root, <<>>, verb)
<1>1. DOMAIN root = {<<>>} /\ root[<<>>] = NewNode
  BY DEF root
<1>2. \A node : Passing(<<>>, verb, node) = {}
  BY DEF Passing, Mine
<1>3. Ending(<<>>, verb, <<>>) = {}
  BY <1>2 DEF Ending
<1>4. NewNode \in NodeOf(Text)
  BY DEF NewNode, NodeOf, HasParamKey, NoText
<1>5. NodeIs(NewNode, <<>>, verb, <<>>)
  BY <1>2, <1>3 DEF NewNode, NodeIs, Newest
<1>6. <<>> \in Seq(Text)
  OBVIOUS
<1> QED
  BY <1>1, <1>2, <1>4, <1>5, <1>6 DEF TreeIs

LEMMA RoutersInit ==
  ASSUME NEW Text, RoutesOn(Text), ServerInit
  PROVE  RoutersInv(Text)
<1>1. HasParamKey(Text)
  BY DEF RoutesOn
<1>2. registered = <<>> /\ getRequestsRouter = root /\ postRequestsRouter = root
  BY DEF ServerInit
<1>3. RegsAre(Text, <<>>)
  BY DEF RegsAre
<1> QED
  BY <1>1, <1>2, <1>3, RootIs DEF RoutersInv

LEMMA RoutersRegister ==
  ASSUME NEW Text, RoutesOn(Text), RoutersInv(Text),
         NEW verb \in {"GET", "POST"}, NEW route \in Routes, Register(verb, route)
  PROVE  RoutersInv(Text)'
<1>1. HasParamKey(Text) /\ route \in Seq(PartOf(Text)) /\ Meaningful(route)
  BY DEF RoutesOn
<1>2. /\ RegsAre(Text, registered)
      /\ TreeIs(Text, getRequestsRouter, registered, "GET")
      /\ TreeIs(Text, postRequestsRouter, registered, "POST")
  BY DEF RoutersInv
<1>3. registered' = Append(registered, [verb |-> verb, route |-> route])
  BY DEF Register
<1>4. RegsAre(Text, registered') /\ OneLonger(registered', registered, verb, route)
  BY <1>1, <1>2, <1>3, OneMore
<1>5. CASE verb = "GET"
  <2>1. /\ getRequestsRouter' = insert(getRequestsRouter, route, Len(registered) + 1)
        /\ postRequestsRouter' = postRequestsRouter
    BY <1>5 DEF Register
  <2>2. TreeIs(Text, getRequestsRouter', registered', "GET")
    <3>1. TreeIs(Text, getRequestsRouter, registered, verb)
      BY <1>2, <1>5
    <3>2. TreeIs(Text, getRequestsRouter', registered', verb)
      BY <1>1, <1>2, <1>4, <2>1, <3>1, InsertKeeps
    <3> QED
      BY <1>5, <3>2
  <2>3. TreeIs(Text, postRequestsRouter', registered', "POST")
    <3>1. "POST" # verb
      BY <1>5
    <3>2. TreeIs(Text, postRequestsRouter, registered', "POST")
      BY <1>2, <1>4, <3>1, OtherTreeKeeps
    <3> QED
      BY <2>1, <3>2
  <2> QED
    BY <1>4, <2>2, <2>3 DEF RoutersInv
<1>6. CASE verb = "POST"
  <2>1. /\ postRequestsRouter' = insert(postRequestsRouter, route, Len(registered) + 1)
        /\ getRequestsRouter' = getRequestsRouter
    BY <1>6 DEF Register
  <2>2. TreeIs(Text, postRequestsRouter', registered', "POST")
    <3>1. TreeIs(Text, postRequestsRouter, registered, verb)
      BY <1>2, <1>6
    <3>2. TreeIs(Text, postRequestsRouter', registered', verb)
      BY <1>1, <1>2, <1>4, <2>1, <3>1, InsertKeeps
    <3> QED
      BY <1>6, <3>2
  <2>3. TreeIs(Text, getRequestsRouter', registered', "GET")
    <3>1. "GET" # verb
      BY <1>6
    <3>2. TreeIs(Text, getRequestsRouter, registered', "GET")
      BY <1>2, <1>4, <3>1, OtherTreeKeeps
    <3> QED
      BY <2>1, <3>2
  <2> QED
    BY <1>4, <2>2, <2>3 DEF RoutersInv
<1> QED
  BY <1>5, <1>6

LEMMA RoutersStep ==
  ASSUME NEW Text, RoutesOn(Text), RoutersInv(Text), [ServerNext]_serverVars
  PROVE  RoutersInv(Text)'
<1> DEFINE Same == UNCHANGED <<getRequestsRouter, postRequestsRouter, registered>>
<1>1. CASE \E verb \in {"GET", "POST"}, route \in Routes : Register(verb, route)
  BY <1>1, RoutersRegister
<1>2. CASE Same
  BY <1>2 DEF RoutersInv
<1>3. registerNotFound => Same
  BY DEF registerNotFound
<1>4. \A c \in Connection :
        (\E verb \in {"GET", "POST"}, uri \in Uris : Ask(c, verb, uri)) \/ Serve(c) => Same
  BY DEF Ask, Serve, Lock, CallHandler, HandleNotFound, HandlerWrites, HandlerReturns,
         HandlerThrows, NotFoundThrows, SendReply, Return, routeVars
<1>5. WebSocketNext => Same
  BY DEF WebSocketNext, handleConnection, handleReadyState, handleData, CloseMessage,
         handleClose, Socket, routeVars
<1>6. UNCHANGED serverVars => Same
  BY DEF serverVars, routeVars
<1> QED
  BY <1>1, <1>2, <1>3, <1>4, <1>5, <1>6 DEF ServerNext, HttpNext

LEMMA RoutersSafe ==
  ASSUME NEW Text, RoutesOn(Text), RoutersInv(Text)
  PROVE  NewestAnswers
<1> SUFFICES ASSUME NEW verb \in {"GET", "POST"}, NEW uri \in Uris
             PROVE  LET router == IF verb = "GET" THEN getRequestsRouter ELSE postRequestsRouter
                        routes == {registered[i].route :
                                     i \in {j \in DOMAIN registered : registered[j].verb = verb}}
                        answering == {i \in DOMAIN registered :
                                        /\ registered[i].verb = verb
                                        /\ registered[i].route \in Answering(routes, uri)}
                        handler == find(router, uri).handler
                    IN  IF answering = {} THEN handler = NoHandler
                        ELSE handler \in answering /\ \A i \in answering : i <= handler
  BY DEF NewestAnswers
<1> DEFINE router == IF verb = "GET" THEN getRequestsRouter ELSE postRequestsRouter
           routes == {registered[i].route :
                        i \in {j \in DOMAIN registered : registered[j].verb = verb}}
           answering == {i \in DOMAIN registered :
                           registered[i].verb = verb /\ registered[i].route \in Answering(routes, uri)}
           handler == find(router, uri).handler
<1>1. HasParamKey(Text) /\ uri \in Seq(Text) /\ RegsAre(Text, registered)
  BY DEF RoutesOn, RoutersInv
<1>2. TreeIs(Text, router, registered, verb)
  BY DEF RoutersInv
<1>3. Newest(Answerers(registered, verb, uri), handler)
  <2> HIDE DEF router
  <2> QED
    BY <1>1, <1>2, FindAnswers
<1>4. DOMAIN registered = 1..Len(registered)
  <2> DEFINE Rec == [verb : {"GET", "POST"}, route : Seq(PartOf(Text))]
  <2>1. registered \in Seq(Rec)
    BY <1>1 DEF RegsAre
  <2> HIDE DEF Rec
  <2> QED
    BY <2>1
<1>5. routes = RoutesOf(registered, verb)
  BY <1>4 DEF RoutesOf, Mine
<1>6. answering = Answerers(registered, verb, uri)
  <2> HIDE DEF routes
  <2> QED
    BY <1>4, <1>5 DEF Answerers, Mine
<1> HIDE DEF answering, handler
<1>7. IF answering = {} THEN handler = NoHandler
      ELSE handler \in answering /\ \A i \in answering : i <= handler
  BY <1>3, <1>6 DEF Newest
<1> QED
  BY <1>7 DEF answering, handler

(* For any routes and uris, registered and asked for in any order: find    *)
(* goes through the tree once, without a way back, and still answers with  *)
(* the newest of the registrations that match best.  A literal part must   *)
(* not be empty, since "" is the key under which a node has its parameter. *)
THEOREM NewestRouteAnswers ==
  ASSUME NEW Text, "" \in Text,
         \A route \in Routes : route \in Seq(PartOf(Text)) /\ Meaningful(route),
         Uris \subseteq Seq(Text)
  PROVE  ServerSpec => []NewestAnswers
<1>1. RoutesOn(Text)
  BY DEF RoutesOn, HasParamKey, NoText
<1>2. ServerInit => RoutersInv(Text)
  BY <1>1, RoutersInit
<1>3. RoutersInv(Text) /\ [ServerNext]_serverVars => RoutersInv(Text)'
  BY <1>1, RoutersStep
<1>4. RoutersInv(Text) => NewestAnswers
  BY <1>1, RoutersSafe
<1> QED
  BY <1>2, <1>3, <1>4, PTL DEF ServerSpec
=============================================================================
