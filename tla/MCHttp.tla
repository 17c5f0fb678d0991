------------------------------- MODULE MCHttp -------------------------------
(* The HTTP client's parts, each by itself: a behaviour runs the one that  *)
(* part names, and the others stay in an initial state.                    *)
EXTENDS SocketStream, Sockets, UrlParser, ChunkedDecoder, HttpClient

VARIABLE part

allVars == <<part, vars, socketVars, urlVars, chunkVars, parserVars, clientVars>>

Parts == {"stream", "sockets", "url", "chunks", "parser", "client"}

(* HttpParser: the start lines, one behind an empty line, headers without  *)
(* one, and what may follow them.                                          *)
RequestStart == <<Letter, SP, Letter, SP, Version, Digit>>
Status == <<Version, Digit, SP, Digit, Digit, Digit>>
StartLines == {[kind |-> "request", text |-> RequestStart],
               [kind |-> "request", text |-> <<LF>> \o RequestStart],
               [kind |-> "response", text |-> Status],
               [kind |-> "headers",
                text |-> <<Letter, Colon, Letter, LF, Letter, Colon, Letter>>]}
AnyCharacter == Character \ {Version, Digit}

(* HttpClient: replies with and without a body, one whose length is no     *)
(* number, the longest head two characters longer than the buffer.         *)
Header == {<<Letter, Colon, Letter>>, ContentLength \o <<Colon, SP, Digit, Digit>>}
Replies == {<<Status>> \o headers : headers \in UNION {[1..n -> Header] : n \in 0..2}}
           \union {<<Status, ContentLength \o <<Colon, Letter>>>>}
Calls == [path : {<<Letter, Colon>>},
          content : {<<>>, <<Letter, CR, LF>>},
          headers : {<<>>, <<[name |-> <<Digit>>, value |-> <<Letter, SP, Letter>>]>>}]

MCInit ==
  /\ part \in Parts
  /\ Init /\ SocketInit /\ UrlInit /\ ChunkInit /\ ParserInit /\ ClientInit
  /\ part # "url" => build = "regex" /\ url = NoUrl /\ value = <<>>
  /\ part # "chunks" => consume_trailer
  /\ part # "parser" => kind = "response"

MCNext ==
  /\ UNCHANGED part
  /\ \/ /\ part = "stream" /\ Next
        /\ UNCHANGED <<socketVars, urlVars, chunkVars, parserVars, clientVars>>
     \/ /\ part = "sockets" /\ SocketNext
        /\ UNCHANGED <<vars, urlVars, chunkVars, parserVars, clientVars>>
     \/ /\ part = "url" /\ Parse
        /\ UNCHANGED <<vars, socketVars, chunkVars, parserVars, clientVars>>
     \/ /\ part = "chunks" /\ ChunkNext
        /\ UNCHANGED <<vars, socketVars, urlVars, parserVars, clientVars>>
     \/ /\ part = "parser" /\ Feed
        /\ UNCHANGED <<vars, socketVars, urlVars, chunkVars, clientVars>>
     \/ /\ part = "client" /\ ClientNext
        /\ UNCHANGED <<vars, socketVars, urlVars, chunkVars, parserVars>>

MCSpec == MCInit /\ [][MCNext]_allVars /\ ClientFairness
=============================================================================
