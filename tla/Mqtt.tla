-------------------------------- MODULE Mqtt --------------------------------
(***************************************************************************)
(* MQTTClient (io/BellMQTTClient.cpp) over the MQTT-C library              *)
(* (external/mqtt/mqtt.c): a queue of messages that mqtt_sync sends, sends *)
(* again when their answers are late, and drops when they are answered.    *)
(* A message goes out in two parts, so that the socket can take half of it.*)
(* The socket and the broker are outside: one call of mqtt_sync is here an *)
(* answer received or one message sent; a call that does more is several.  *)
(***************************************************************************)
EXTENDS Integers, Sequences, FiniteSets, Functions

CONSTANTS SendBuffer,   (* messages the send buffer holds                   *)
          MaxMessages,  (* bound on the messages of all sessions            *)
          MaxSessions,  (* bound on the connections                         *)
          MaxLate       (* bound on the answers that are late               *)

VARIABLES connected,
          mq,           (* the queue; its order is that of the ids          *)
          error,        (* "ok", "full" (the send buffer) or "broken"       *)
          send_offset,  (* parts sent of a message, of whichever            *)
          made, sessions,
          (* History, of this session:                                      *)
          broker,       (* messages sent to their end, in this order        *)
          promised,     (* ids and QoS of what publish accepted             *)
          answered,     (* ids of what the broker answered                  *)
          late,         (* answers that were late                           *)
          half,         (* message whose first part was sent last, or 0     *)
          torn          (* some part was sent that did not belong there     *)

historyVars == <<broker, promised, answered, late, half, torn>>
mqttVars == <<connected, mq, error, send_offset, made, sessions, historyVars>>

MqttInit ==
  /\ connected = FALSE /\ mq = {} /\ error = "ok" /\ send_offset = 0
  /\ made = 0 /\ sessions = 0
  /\ broker = <<>> /\ promised = {} /\ answered = {} /\ late = 0 /\ half = 0 /\ torn = FALSE

(* A message of the queue: its packet id, its place in the order of calls, *)
(* and whether it was sent and answered.                                   *)
Unsent(kind, qos, pid) ==
  [id |-> made + 1, kind |-> kind, qos |-> qos, pid |-> pid, state |-> "unsent"]

ExactlyOnce(m) == m.kind = "PUBLISH" /\ m.qos = 2

(***************************************************************************)
(* Packing.  What is complete at the head of a full queue makes room.      *)
(***************************************************************************)
Clean(queue) == {m \in queue : \E n \in queue : n.id <= m.id /\ n.state # "complete"}

Pack(queue, m) ==
  LET room == IF Cardinality(queue) < SendBuffer THEN queue ELSE Clean(queue)
      fits == Cardinality(room) < SendBuffer IN
  /\ made < MaxMessages /\ made' = made + 1
  /\ mq' = IF error # "ok" THEN queue ELSE IF fits THEN room \cup {m} ELSE room
  /\ error' = IF error = "ok" /\ ~fits THEN "full" ELSE error

Packs == error = "ok" /\ error' = "ok"

(***************************************************************************)
(* The calls of MQTTClient.  All but connect throw, and do nothing else,   *)
(* when it is not connected.                                               *)
(***************************************************************************)
NewSession ==
  /\ send_offset' = 0 /\ sessions' = sessions + 1
  /\ broker' = <<>> /\ promised' = {} /\ answered' = {} /\ late' = 0
  /\ half' = 0 /\ torn' = FALSE

Connected(queue) ==
  /\ mq' = queue \cup {Unsent("CONNECT", 0, 0)} /\ error' = "ok"
  /\ made < MaxMessages /\ made' = made + 1
  /\ connected' = TRUE /\ NewSession

(* Mutant: the library's queue is not initialized again.                   *)
connect_KeepsBuffer == sessions < MaxSessions /\ Connected(mq)

(* open throws; or CONNECT does not fit into the empty buffer, and connect *)
(* throws with connected as it was; or CONNECT is queued.                  *)
connect ==
  \/ UNCHANGED mqttVars
  \/ /\ sessions < MaxSessions
     /\ \/ mq' = {} /\ error' = "full" /\ NewSession /\ UNCHANGED <<connected, made>>
        \/ Connected({})

(* It throws when the message is not queued.                               *)
publish(qos) ==
  /\ connected /\ Pack(mq, Unsent("PUBLISH", qos, made + 1))
  /\ promised' = IF Packs THEN promised \cup {[id |-> made + 1, qos |-> qos]} ELSE promised
  /\ UNCHANGED <<connected, send_offset, sessions, broker, answered, late, half, torn>>

(* subscribe and unsubscribe ignore the library's error.                   *)
subscribe ==
  /\ connected /\ Pack(mq, Unsent("SUBSCRIBE", 0, made + 1))
  /\ UNCHANGED <<connected, send_offset, sessions, historyVars>>

(* DISCONNECT is queued, and nothing sends it: the socket is closed.       *)
disconnect ==
  /\ connected /\ Pack(mq, Unsent("DISCONNECT", 0, 0))
  /\ connected' = FALSE
  /\ UNCHANGED <<send_offset, sessions, historyVars>>

(***************************************************************************)
(* mqtt_sync receives first.                                               *)
(***************************************************************************)
Marked(m, state) == (mq \ {m}) \cup {[m EXCEPT !.state = state]}

(* The message an answer to b is about: CONNECT and PINGREQ have no packet *)
(* ids, so it is the oldest that waits.                                    *)
Found(kind, pid) ==
  IF kind \in {"CONNECT", "PINGREQ"}
  THEN {m \in mq : /\ m.kind = kind /\ m.state # "complete"
                   /\ \A n \in mq : n.kind = kind /\ n.state # "complete" => m.id <= n.id}
  ELSE {m \in mq : /\ m.kind = kind /\ m.pid = pid
                   /\ \A n \in mq : n.kind = kind /\ n.pid = pid => m.id <= n.id}

(* What the client sends when its message is answered.                     *)
Reply(b) == IF ExactlyOnce(b) THEN "PUBREL" ELSE IF b.kind = "PUBREC" THEN "PUBCOMP" ELSE "none"

(* The message is complete; a refused CONNECT or SUBSCRIBE is an error.    *)
Released(b, m) ==
  IF Reply(b) # "none" THEN Pack(Marked(m, "complete"), Unsent(Reply(b), 0, b.pid))
  ELSE /\ mq' = Marked(m, "complete") /\ UNCHANGED made
       /\ error' \in {error} \cup (IF b.kind \in {"CONNECT", "SUBSCRIBE"} THEN {"broken"} ELSE {})

(* The broker answers what it got in the order it got it, once for each    *)
(* time it got it.                                                         *)
MayAnswer(b) ==
  /\ b.kind \notin {"PUBACK", "PUBCOMP", "DISCONNECT"} /\ (b.kind = "PUBLISH" => b.qos > 0)
  /\ b.id \in answered => \E i, j \in DOMAIN broker : i # j /\ broker[i] = b /\ broker[j] = b
  /\ b.kind = "PINGREQ" =>
       \A c \in Range(broker) : c.kind = "PINGREQ" /\ c.id < b.id => c.id \in answered

(* An answer to a message that is not there is an error; PUBREC may come   *)
(* a second time.                                                          *)
Answer(b) ==
  /\ connected /\ b \in Range(broker) /\ MayAnswer(b)
  /\ IF ExactlyOnce(b) /\ Found("PUBREL", b.pid) # {} THEN UNCHANGED <<mq, error, made>>
     ELSE IF Found(b.kind, b.pid) = {} THEN error' = "broken" /\ UNCHANGED <<mq, made>>
     ELSE \E m \in Found(b.kind, b.pid) : Released(b, m)
  /\ answered' = answered \cup {b.id}
  /\ UNCHANGED <<connected, send_offset, sessions, broker, promised, late, half, torn>>

(* A PUBLISH of the broker, with its packet id 1.                          *)
Published(qos) ==
  /\ connected
  /\ IF qos = 1 THEN Pack(mq, Unsent("PUBACK", 0, 1))
     ELSE IF Found("PUBREC", 1) # {} THEN UNCHANGED <<mq, error, made>>
     ELSE Pack(mq, Unsent("PUBREC", 0, 1))
  /\ UNCHANGED <<connected, send_offset, sessions, historyVars>>

SocketBreaks ==
  /\ connected /\ error' = "broken"
  /\ UNCHANGED <<connected, mq, send_offset, made, sessions, historyVars>>

(***************************************************************************)
(* Then it sends, unless there was an error other than a full buffer.      *)
(***************************************************************************)
(* response_timeout passes.                                                *)
AnswerIsLate(m) ==
  /\ connected /\ m \in mq /\ m.state = "awaiting"
  /\ late < MaxLate /\ late' = late + 1
  /\ mq' = Marked(m, "late")
  /\ UNCHANGED <<connected, error, send_offset, made, sessions, broker,
                 promised, answered, half, torn>>

(* A PUBLISH of QoS 2 waits for those before it.                           *)
HeldBack(m) ==
  /\ ExactlyOnce(m)
  /\ \E n \in mq : n.id < m.id /\ ExactlyOnce(n) /\ n.state # "complete"

ToSend(m) == m.state \in {"unsent", "late"} /\ ~HeldBack(m)

(* An answer that is late on the way to m forgets what was sent.           *)
Offset(m) == IF \E n \in mq : n.id <= m.id /\ n.state = "late" THEN 0 ELSE send_offset

Ends(m) == IF m.kind \in {"PUBACK", "PUBCOMP", "DISCONNECT"} \/ (m.kind = "PUBLISH" /\ m.qos = 0)
           THEN "complete" ELSE "awaiting"

AtBroker(m) == [id |-> m.id, kind |-> m.kind, qos |-> m.qos, pid |-> m.pid]

(* The socket takes the parts after from, as far as upto.                  *)
Send(m) ==
  /\ connected /\ error # "broken" /\ m \in mq
  /\ ToSend(m) /\ \A n \in mq : n.id < m.id => ~ToSend(n)
  /\ LET from == Offset(m) IN \E upto \in from..2 :
       /\ torn' = (torn \/ (upto > from /\ half # IF from = 0 THEN 0 ELSE m.id))
       /\ half' = IF upto = from THEN half ELSE IF upto = 2 THEN 0 ELSE m.id
       /\ IF upto = 2
          THEN /\ send_offset' = 0 /\ mq' = Marked(m, Ends(m))
               /\ broker' = Append(broker, AtBroker(m))
          ELSE send_offset' = upto /\ UNCHANGED <<mq, broker>>
  /\ UNCHANGED <<connected, error, made, sessions, promised, answered, late>>

(* Nothing was sent for three quarters of keep_alive.                      *)
KeepAlive ==
  /\ connected /\ error # "broken" /\ Pack(mq, Unsent("PINGREQ", 0, 0))
  /\ UNCHANGED <<connected, send_offset, sessions, historyVars>>

mqttSync ==
  \/ SocketBreaks \/ KeepAlive
  \/ \E b \in Range(broker) : Answer(b)
  \/ \E qos \in {1, 2} : Published(qos)
  \/ \E m \in mq : Send(m)

MqttNext ==
  \/ connect \/ subscribe \/ disconnect \/ mqttSync
  \/ \E qos \in 0..2 : publish(qos)
  \/ \E m \in mq : AnswerIsLate(m)

(***************************************************************************)
(* Properties.                                                             *)
(***************************************************************************)
(* Each session starts with CONNECT.                                       *)
ConnectComesFirst == broker # <<>> => broker[1].kind = "CONNECT"

(* A message overtakes an earlier one only when it does not wait and the   *)
(* earlier one is of QoS 2 and waits for another, or when the earlier one  *)
(* is sent again.                                                          *)
SentInOrder ==
  \A i, j \in DOMAIN broker :
    i < j /\ broker[i].id > broker[j].id =>
      \/ ExactlyOnce(broker[j]) /\ ~ExactlyOnce(broker[i])
      \/ \E k \in 1..(i - 1) : broker[k].id = broker[j].id

(* While a PUBLISH of QoS 2 waits for its answer no other is sent.         *)
ExactlyOnceAlone ==
  \A m, n \in mq : ExactlyOnce(m) /\ ExactlyOnce(n) /\ m.id < n.id /\ n.state # "unsent"
                     => m.state = "complete"

(* What publish accepted still waits in the queue, or was sent; and above  *)
(* QoS 0 it stays in the queue until the broker answers it: through full   *)
(* buffers, late answers and reconnects.                                   *)
AcceptedIsKept ==
  \A p \in promised :
    \/ \E m \in mq : m.id = p.id /\ m.state = "unsent"
    \/ /\ \E b \in Range(broker) : b.id = p.id
       /\ \/ p.qos = 0 \/ p.id \in answered
          \/ \E m \in mq : m.id = p.id /\ m.state # "complete"

(* The broker can read what is sent, as long as no answer is late and      *)
(* there are no two messages of QoS 2: send_offset is then that of the     *)
(* message sent next.                                                      *)
PacketsAreWhole ==
  torn => late > 0 \/ \E p, q \in promised : p.id < q.id /\ p.qos = 2 /\ q.qos = 2

SessionsKeepPackets ==
  ConnectComesFirst /\ SentInOrder /\ ExactlyOnceAlone /\ AcceptedIsKept /\ PacketsAreWhole

(* Not so: a message that is sent again, and one of QoS 2 that no longer   *)
(* waits, are sent in the middle of the message that was half sent.        *)
AlwaysWhole == ~torn

(* Not so: disconnect drops the queue.                                     *)
AcceptedIsSent == ~connected => \A p \in promised : \E b \in Range(broker) : b.id = p.id
=============================================================================
