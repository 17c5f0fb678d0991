----------------------------- MODULE HttpClient -----------------------------
(***************************************************************************)
(* HTTPClient::Response (io/HTTPClient.cpp) over the parser: a request is  *)
(* written, the head of the reply is read line by line into a fixed buffer *)
(* and parsed again with each line, the body is read when it is asked for. *)
(*                                                                         *)
(* wire holds what the server sends, which may end anywhere, and then      *)
(* nothing follows.  A number is written as so many digits; the header     *)
(* content-length is the one whose name is ContentLength.  One Response    *)
(* may make several requests.                                              *)
(***************************************************************************)
EXTENDS HttpParser

CONSTANTS HTTP_BUF_SIZE,
          ReplyHeads,   (* the heads the server may answer with: sequences  *)
                        (* of lines, the body's length that of the header   *)
          Requests,     (* [path, headers, content] of the client's calls   *)
          MaxGets       (* bound on the requests of one Response            *)

VARIABLES stage,        (* where the Response is in get or body             *)
          gets, request,
          reply,        (* the reply to the latest request, whole           *)
          cut,          (* the connection ends before it does               *)
          wire,         (* what of it has arrived and is not read yet       *)
          failed,       (* the stream's failbit or eofbit                   *)
          httpBuffer,
          parsed,       (* what the last parse of it gave                   *)
          responseHeaders, contentSize, rawBody,
          before,       (* what lay in wire when the request was made       *)
          bodyOf        (* the reply whose body was read, and if it was cut *)

replyVars == <<reply, cut, request, gets, before>>
resultVars == <<responseHeaders, contentSize, rawBody, bodyOf>>
clientVars == <<stage, replyVars, wire, failed, httpBuffer, parsed, resultVars>>

OfLine(text) == text \o <<CR, LF>>
ContentLength == <<Letter, Digit>>
Number(n) == [i \in 1..n |-> Digit]

RECURSIVE Lines(_)
Lines(texts) == IF texts = <<>> THEN <<>> ELSE OfLine(Head(texts)) \o Lines(Tail(texts))

(* header(): the first header of the name.                                 *)
header(name, headers) ==
  LET found == {i \in DOMAIN headers : headers[i].name = name}
  IN  IF found = {} THEN <<>>
      ELSE headers[CHOOSE i \in found : \A j \in found : i <= j].value

(* std::stoi: the digits at the beginning, or an exception if there are    *)
(* none.                                                                   *)
Digits(value) == FirstIn(Character \ {Digit}, value, 1) - 1
NoNumber(value) == value # <<>> /\ Digits(value) = 0

(* A reply is its head and as many bytes of body as the head says.         *)
Reply(head) ==
  LET text == Lines(head) \o <<CR, LF>>
      read == phr_parse("response", text, 0, Len(text))
  IN  [head |-> text, headers |-> read.headers,
       body |-> [i \in 1..Digits(header(ContentLength, read.headers)) |-> Letter]]

(***************************************************************************)
(* rawRequest.                                                             *)
(***************************************************************************)
HeaderLine(h) == h.name \o <<Colon, SP>> \o h.value

OwnHeaders(content) ==
  <<[name |-> <<Letter>>, value |-> <<Letter, Colon, Digit>>],
    [name |-> <<Letter>>, value |-> <<Letter>>],
    [name |-> <<Letter>>, value |-> <<Letter>>]>>
  \o (IF content = <<>> THEN <<>>
      ELSE <<[name |-> ContentLength, value |-> Number(Len(content))]>>)

HeaderLines(headers) == Lines([i \in DOMAIN headers |-> HeaderLine(headers[i])])

RequestText(r) ==
  OfLine(<<Letter, SP>> \o r.path \o <<SP, Version, Digit>>)
  \o HeaderLines(OwnHeaders(r.content) \o r.headers)
  \o <<CR, LF>> \o r.content

ClientInit ==
  /\ stage = "idle" /\ gets = 0 /\ request = CHOOSE r \in Requests : TRUE
  /\ reply = [head |-> <<>>, headers |-> <<>>, body |-> <<>>] /\ cut = FALSE /\ wire = <<>> /\ failed = FALSE
  /\ httpBuffer = <<>> /\ parsed = Returned(Partial, <<>>)
  /\ responseHeaders = <<>> /\ contentSize = 0 /\ rawBody = <<>>
  /\ before = <<>> /\ bodyOf = [body |-> <<>>, cut |-> FALSE]

(* The request goes out, and the server answers, perhaps not to the end.   *)
RawRequest ==
  /\ stage \in {"idle", "parsed"} /\ gets < MaxGets /\ ~failed
  /\ gets' = gets + 1
  /\ request' \in Requests
  /\ \E head \in ReplyHeads :
       LET whole == Reply(head).head \o Reply(head).body
       IN  \E n \in IF cut THEN {0} ELSE 0..Len(whole) :
             /\ reply' = Reply(head)
             /\ cut' = (n < Len(whole))
             /\ wire' = wire \o SubSeq(whole, 1, n)
  /\ stage' = "reading" /\ httpBuffer' = <<>> /\ before' = wire
  /\ parsed' = Returned(Partial, <<>>)
  /\ UNCHANGED <<failed, resultVars>>

(***************************************************************************)
(* readResponseHeaders.  getline takes a line that fits with its end, or   *)
(* what fits, or what there is up to the end of the stream; the last two   *)
(* put the stream into a state in which it takes nothing more.             *)
(***************************************************************************)
Room == HTTP_BUF_SIZE - Len(httpBuffer)

(* Mutant: a line that fills the buffer is taken for one that is too long. *)
Getline_NeedsMore ==
  LET end == FirstIn({LF}, wire, 1)
  IN  IF failed THEN [got |-> <<>>, fails |-> TRUE]
      ELSE IF end <= Len(wire) /\ end < Room THEN [got |-> SubSeq(wire, 1, end), fails |-> FALSE]
      ELSE IF Len(wire) >= Room THEN [got |-> SubSeq(wire, 1, Room - 1), fails |-> TRUE]
      ELSE [got |-> wire, fails |-> TRUE]

Getline ==
  LET end == FirstIn({LF}, wire, 1)
  IN  IF failed THEN [got |-> <<>>, fails |-> TRUE]
      ELSE IF end <= Len(wire) /\ end <= Room THEN [got |-> SubSeq(wire, 1, end), fails |-> FALSE]
      ELSE IF Len(wire) >= Room THEN [got |-> SubSeq(wire, 1, Room - 1), fails |-> TRUE]
      ELSE [got |-> wire, fails |-> TRUE]

(* The last two bytes of the buffer become CR LF; in a buffer of less they *)
(* come to lie before it in part.                                          *)
Restored(s) ==
  IF Len(s) > 1 THEN OfLine(SubSeq(s, 1, Len(s) - 2)) ELSE SubSeq(<<LF>>, 1, Len(s))

ReadLine ==
  /\ stage = "reading"
  /\ httpBuffer' = Restored(httpBuffer \o Getline.got)
  /\ wire' = SubSeq(wire, Len(Getline.got) + 1, Len(wire))
  /\ failed' = Getline.fails
  /\ parsed' = phr_parse("response", httpBuffer', Len(httpBuffer), MaxHeaders)
  /\ stage' = "looking"
  /\ UNCHANGED <<replyVars, resultVars>>

(* Mutant: the last header is left out.                                    *)
Return_OneShort ==
  /\ stage = "looking" /\ parsed.ret > 0
  /\ stage' = "parsed"
  /\ responseHeaders' = SubSeq(parsed.headers, 1, Len(parsed.headers) - 1)
  /\ contentSize' = Digits(header(ContentLength, responseHeaders'))
  /\ UNCHANGED <<replyVars, wire, failed, httpBuffer, parsed, rawBody, bodyOf>>

(* Without the header the size of an earlier reply stays; with one that is *)
(* no number get throws, the headers being those of the reply already.     *)
Return ==
  /\ stage = "looking" /\ parsed.ret > 0
  /\ responseHeaders' = parsed.headers
  /\ LET length == header(ContentLength, parsed.headers)
     IN  /\ stage' = IF NoNumber(length) THEN "threw" ELSE "parsed"
         /\ contentSize' = IF length = <<>> \/ NoNumber(length) THEN contentSize ELSE Digits(length)
  /\ UNCHANGED <<replyVars, wire, failed, httpBuffer, parsed, rawBody, bodyOf>>

Throw ==
  /\ stage = "looking"
  /\ parsed.ret = Bad \/ (parsed.ret = Partial /\ Len(httpBuffer) = HTTP_BUF_SIZE)
  /\ stage' = "threw"
  /\ UNCHANGED <<replyVars, wire, failed, httpBuffer, parsed, resultVars>>

Continue ==
  /\ stage = "looking" /\ parsed.ret = Partial /\ Len(httpBuffer) # HTTP_BUF_SIZE
  /\ stage' = "reading"
  /\ UNCHANGED <<replyVars, wire, failed, httpBuffer, parsed, resultVars>>

(* The reply comes whole, and its head fits into the buffer.               *)
Whole == ~cut /\ Len(reply.head) <= HTTP_BUF_SIZE

(* readRawBody, once in a Response's life: what the stream cannot give     *)
(* stays zero.                                                             *)
Zero == "zero"

ReadBody ==
  /\ stage = "parsed" /\ contentSize > 0 /\ rawBody = <<>>
  /\ LET n == IF failed THEN 0 ELSE IF Len(wire) < contentSize THEN Len(wire) ELSE contentSize
     IN  /\ rawBody' = [i \in 1..contentSize |-> IF i <= n THEN wire[i] ELSE Zero]
         /\ wire' = SubSeq(wire, n + 1, Len(wire))
         /\ failed' = (n < contentSize)
  /\ bodyOf' = [body |-> reply.body, cut |-> ~Whole]
  /\ UNCHANGED <<stage, replyVars, httpBuffer, parsed, responseHeaders, contentSize>>

Loop == ReadLine \/ Return \/ Throw \/ Continue

ClientNext == RawRequest \/ Loop \/ ReadBody

(* A get that was called goes on.                                          *)
ClientFairness == WF_clientVars(Loop)

ClientSpec == ClientInit /\ [][ClientNext]_clientVars /\ ClientFairness

(***************************************************************************)
(* Properties.                                                             *)
(***************************************************************************)
(* The server's parser reads back from the request the headers the client  *)
(* wrote, its own and the caller's, and finds the body behind them.        *)
RequestReadsBack ==
  LET text == RequestText(request)
      read == phr_parse("request", text, 0, Len(text))
  IN  gets > 0 => /\ read.ret > 0
                  /\ read.headers = OwnHeaders(request.content) \o request.headers
                  /\ SubSeq(text, read.ret, Len(text)) = request.content

(* What get returns as headers are headers of the server's reply, in order *)
(* and unchanged, also if the connection ends in the middle of a line or   *)
(* the buffer does; all of them if the head came whole and fits.  This     *)
(* presumes that the body of the reply before was read: what is left of it *)
(* is taken for the head.                                                  *)
HeadersOfReply ==
  stage = "parsed" /\ before = <<>> =>
    /\ Len(responseHeaders) <= Len(reply.headers)
    /\ responseHeaders = SubSeq(reply.headers, 1, Len(responseHeaders))
    /\ Whole => Len(responseHeaders) = Len(reply.headers)

(* The body is that of the reply it was read from; a stream that ended     *)
(* early leaves zeros.                                                     *)
BodyOfReply ==
  rawBody # <<>> =>
    /\ Len(rawBody) = Len(bodyOf.body)
    /\ \A i \in DOMAIN rawBody : rawBody[i] = bodyOf.body[i] \/ (bodyOf.cut /\ rawBody[i] = Zero)

(* The body is that of the latest reply.  Not so: a Response that read one *)
(* keeps it, and keeps its size if a later reply names none.               *)
BodyIsCurrent == stage = "parsed" /\ rawBody # <<>> => Len(rawBody) = Len(reply.body)

(* Client and server read what the other wrote, in as many exchanges as a  *)
(* Response makes; the body is the first that was asked for.               *)
ReplyReadBack == RequestReadsBack /\ HeadersOfReply /\ BodyOfReply

(* The reply is whole, and its head fits into the buffer or has a line     *)
(* that ends where the buffer does.                                        *)
Readable ==
  Whole \/ (~cut /\ Len(reply.head) > HTTP_BUF_SIZE /\ reply.head[HTTP_BUF_SIZE] = LF)

(* A get whose reply is readable returns, with the headers or an exception.*)
GetReturns == stage = "reading" /\ Readable ~> stage \in {"parsed", "threw"}

(* Without the condition: a connection that ends in the head, or a line    *)
(* that is longer than the buffer's rest, keeps get in its loop for good.  *)
GetAlwaysReturns == stage = "reading" ~> stage \in {"parsed", "threw"}
=============================================================================
