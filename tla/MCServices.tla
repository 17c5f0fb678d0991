----------------------------- MODULE MCServices -----------------------------
(* What other threads call into, each by itself: the HTTP server's routes, *)
(* its requests and its web sockets, the MQTT client, mDNS, and the access *)
(* lock of the audio buffer.                                               *)
EXTENDS HttpServer, Mqtt, Mdns, AccessLock

VARIABLE part

a == Literal("a")
b == Literal("b")
SomeRoutes == {<<a>>, <<a, b>>, <<Param("x")>>, <<Param("y"), b>>, <<a, CatchAll>>, <<CatchAll>>}
SomeUris == {<<>>, <<"a">>, <<"c">>, <<"a", "b">>, <<"c", "b">>, <<"a", "c", "b">>}

(* The part "routes" registers and looks up; "server" serves few uris.     *)
Few ==
  /\ Len(registered') <= 2
  /\ \A i \in DOMAIN registered' : registered'[i].route = IF i = 1 THEN <<Param("x")>> ELSE <<a>>
  /\ \A c \in Connection : request'[c].uri \in {<<>>, <<"a">>, <<"c">>}

(* A second session makes one message less, one with a late answer two.    *)
Shorter ==
  /\ sessions' > 1 => made' < MaxMessages
  /\ late' > 0 => made' < MaxMessages - 1

MCInit ==
  /\ part \in {"routes", "server", "websocket", "mqtt", "mdns", "lock"}
  /\ ServerInit /\ MqttInit /\ MdnsInit /\ Init
  /\ part # "mdns" => build = "linux"

MCNext ==
  /\ UNCHANGED part
  /\ \/ /\ part = "routes"
        /\ \E verb \in {"GET", "POST"}, route \in Routes : Register(verb, route)
        /\ UNCHANGED <<mqttVars, mdnsVars, vars>>
     \/ /\ part = "server" /\ HttpNext /\ Few
        /\ UNCHANGED <<wsVars, mqttVars, mdnsVars, vars>>
     \/ part = "websocket" /\ WebSocketNext /\ UNCHANGED <<mqttVars, mdnsVars, vars>>
     \/ part = "mqtt" /\ MqttNext /\ Shorter /\ UNCHANGED <<serverVars, mdnsVars, vars>>
     \/ part = "mdns" /\ MdnsNext /\ UNCHANGED <<mqttVars, serverVars, vars>>
     \/ part = "lock" /\ Next /\ UNCHANGED <<mqttVars, serverVars, mdnsVars>>
MCSpec ==
  /\ MCInit /\ [][MCNext]_<<part, serverVars, mqttVars, mdnsVars, vars>>
  /\ \A c \in Connection :
       /\ WF_serverVars(part = "server" /\ Serve(c) /\ Few)
       /\ SF_serverVars(part = "server" /\ Lock(c) /\ Few)
=============================================================================
