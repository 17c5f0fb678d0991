----------------------------- MODULE HttpParser -----------------------------
(***************************************************************************)
(* picohttpparser (io/picohttpparser.c), which HTTPClient calls again with *)
(* the length of the last attempt whenever another line has arrived.  A    *)
(* call parses from the start; last_len only lets it give up early.        *)
(*                                                                         *)
(* A character is a member of a class the parser tells apart.  Version     *)
(* stands for the seven characters "HTTP/1.", a cut inside which is a cut  *)
(* before it; Control for the control characters but CR, LF and HT; HT and *)
(* what token_char_map refuses in names only are left out.  A parser gives *)
(* the index behind what it has consumed, Bad or Partial.                  *)
(***************************************************************************)
EXTENDS Integers, Sequences, FiniteSets

CONSTANTS CR, LF, SP, Colon, Letter, Digit, Version, Control,
          Beginning,    (* what has arrived before the first call           *)
          Arriving,     (* the characters that arrive after it              *)
          MaxHeaders,   (* the caller's header array                        *)
          MaxInput,     (* bound on the bytes that arrive                   *)
          MaxPiece      (* bound on the bytes that arrive at once           *)

VARIABLES kind, input,
          last,         (* last_len: how long input was at the last call    *)
          outcome       (* what the last call returned                      *)

parserVars == <<kind, input, last, outcome>>

Character == {CR, LF, SP, Colon, Letter, Digit, Version, Control}
TokenCharacter == {Letter, Digit}
EndOfText == {CR, LF, Control}

Bad == -1
Partial == -2

(* The first index from i on with a character of set, or the end.          *)
FirstIn(set, s, i) ==
  IF \E j \in i..Len(s) : s[j] \in set
  THEN CHOOSE j \in i..Len(s) : s[j] \in set /\ \A k \in i..(j - 1) : s[k] \notin set
  ELSE Len(s) + 1

AfterSpaces(s, i) == FirstIn(Character \ {SP}, s, i)

(* buf_end - buf, in characters.                                           *)
Left(s, i) == Len(s) - i + 1 + 6 * Cardinality({j \in i..Len(s) : s[j] = Version})

Empty == [name |-> <<>>, value |-> <<>>]
Returned(ret, headers) == [ret |-> ret, headers |-> headers]

(* CR LF or LF at i: the index behind it.                                  *)
LineEnd(s, i) ==
  IF i > Len(s) THEN Partial
  ELSE IF s[i] = LF THEN i + 1
  ELSE IF s[i] # CR THEN Bad
  ELSE IF i = Len(s) THEN Partial
  ELSE IF s[i + 1] = LF THEN i + 2 ELSE Bad

get_token_to_eol(s, i) == LineEnd(s, FirstIn(EndOfText, s, i))

(* The index of the stop character behind a token.                         *)
parse_token(s, i, stop) ==
  LET j == FirstIn(Character \ (TokenCharacter \ {stop}), s, i)
  IN  IF j > Len(s) THEN Partial ELSE IF s[j] = stop THEN j ELSE Bad

parse_http_version(s, i) ==
  IF Left(s, i) < 9 THEN Partial
  ELSE IF s[i] = Version /\ s[i + 1] = Digit THEN i + 2 ELSE Bad

(* The text from i up to the line's end, without the spaces at its end.    *)
TrimmedText(s, i) ==
  LET end == FirstIn(EndOfText, s, i)
      full == {j \in i..(end - 1) : s[j] # SP}
  IN  IF full = {} THEN <<>>
      ELSE SubSeq(s, i, CHOOSE j \in full : \A k \in full : k <= j)

parse_headers(s, from, num_headers) ==
  LET parse[i \in 1..(Len(s) + 1), n \in 0..num_headers] ==
        LET continued == n > 0 /\ s[i] = SP
            colon == parse_token(s, i, Colon)
            value == IF continued THEN i ELSE AfterSpaces(s, colon + 1)
            next == get_token_to_eol(s, value)
            header == [name |-> IF continued THEN <<>> ELSE SubSeq(s, i, colon - 1),
                       value |-> TrimmedText(s, value)]
        IN  IF i > Len(s) THEN Returned(Partial, <<>>)
            ELSE IF s[i] \in {CR, LF} THEN Returned(LineEnd(s, i), <<>>)
            ELSE IF n = num_headers THEN Returned(Bad, <<>>)
            ELSE IF ~continued /\ colon < 0 THEN Returned(colon, <<>>)
            ELSE IF ~continued /\ colon = i THEN Returned(Bad, <<>>)
            ELSE IF next < 0 THEN Returned(next, <<>>)
            ELSE [parse[next, n + 1] EXCEPT !.headers = <<header>> \o @]
  IN  parse[from, 0]

HeadersFrom(s, i, num_headers) ==
  IF i < 0 THEN Returned(i, <<>>) ELSE parse_headers(s, i, num_headers)

(* The start line of a request: the index behind it.                       *)
RequestLine(s) ==
  LET start == IF s # <<>> /\ s[1] \in {CR, LF} THEN LineEnd(s, 1) ELSE 1
      method == parse_token(s, start, SP)
      path == AfterSpaces(s, method + 1)
      pathEnd == FirstIn({SP} \union EndOfText, s, path)
      version == AfterSpaces(s, pathEnd + 1)
      lineEnd == parse_http_version(s, version)
  IN  IF start < 0 THEN start
      ELSE IF method < 0 THEN method
      ELSE IF pathEnd > Len(s) THEN Partial
      ELSE IF s[pathEnd] # SP THEN Bad
      ELSE IF version > Len(s) THEN Partial
      ELSE IF method = start THEN Bad
      ELSE IF lineEnd < 0 THEN lineEnd
      ELSE LineEnd(s, lineEnd)

(* The start line of a response.                                           *)
StatusLine(s) ==
  LET version == parse_http_version(s, 1)
      status == AfterSpaces(s, version)
      msg == status + 3
      next == get_token_to_eol(s, msg)
  IN  IF version < 0 THEN version
      ELSE IF s[version] # SP THEN Bad
      ELSE IF status > Len(s) \/ Left(s, status) < 4 THEN Partial
      ELSE IF \E j \in status..(msg - 1) : s[j] # Digit THEN Bad
      ELSE IF next < 0 THEN next
      ELSE IF s[msg] \in {CR, LF, SP} THEN next ELSE Bad

TwoLineEnds(s, from) ==
  LET look[i \in 1..(Len(s) + 1), ret_cnt \in 0..1] ==
        LET next == IF i > Len(s) THEN Partial
                    ELSE IF s[i] \in {CR, LF} THEN LineEnd(s, i) ELSE i + 1
        IN  IF next < 0 THEN next
            ELSE IF s[i] \notin {CR, LF} THEN look[next, 0]
            ELSE IF ret_cnt = 1 THEN next ELSE look[next, 1]
  IN  look[from, 0]

is_complete(s, last_len) ==
  TwoLineEnds(s, IF last_len < 3 THEN 1 ELSE last_len - 2)

phr_parse(what, s, last_len, num_headers) ==
  IF last_len # 0 /\ is_complete(s, last_len) < 0
  THEN Returned(is_complete(s, last_len), <<>>)
  ELSE CASE what = "request"  -> HeadersFrom(s, RequestLine(s), num_headers)
         [] what = "response" -> HeadersFrom(s, StatusLine(s), num_headers)
         [] what = "headers"  -> HeadersFrom(s, 1, num_headers)

(***************************************************************************)
(* A caller that reads more until the parser is done, as the loop of       *)
(* readResponseHeaders does.                                               *)
(***************************************************************************)
ParserInit ==
  /\ \E beginning \in Beginning : kind = beginning.kind /\ input = beginning.text
  /\ last = 0
  /\ outcome = phr_parse(kind, input, 0, MaxHeaders)

Feed ==
  /\ outcome.ret = Partial
  /\ \E n \in 1..MaxPiece : \E piece \in [1..n -> Arriving] :
       /\ Len(input) + n <= MaxInput
       /\ input' = input \o piece
  /\ last' = Len(input)
  /\ outcome' = phr_parse(kind, input', last', MaxHeaders)
  /\ UNCHANGED kind

ParserSpec == ParserInit /\ [][Feed]_parserVars

(***************************************************************************)
(* Properties.                                                             *)
(***************************************************************************)
(* last_len is a shortcut only: the call succeeds exactly when a parse of  *)
(* the same bytes that arrived at once does, with the same headers.        *)
CutsDoNotMatter ==
  LET whole == phr_parse(kind, input, 0, MaxHeaders)
  IN  (outcome.ret > 0 \/ whole.ret > 0) => outcome = whole

(* The lines of what was consumed, without their ends.                     *)
LineStarts == {1} \union {j \in 2..outcome.ret : input[j - 1] = LF}
Line(n) ==
  LET start == CHOOSE j \in LineStarts : Cardinality({k \in LineStarts : k < j}) = n - 1
  IN  SubSeq(input, start, FirstIn({CR, LF}, input, start) - 1)

Spaces(n) == [i \in 1..n |-> SP]

IsHeaderOf(header, line) ==
  /\ header.value = <<>> \/ header.value[Len(header.value)] # SP
  /\ \E before, after \in 0..Len(line) :
       IF header.name = <<>>
       THEN line # <<>> /\ line[1] = SP /\ line = header.value \o Spaces(after)
       ELSE /\ \A i \in DOMAIN header.name : header.name[i] \in TokenCharacter
            /\ header.value = <<>> \/ header.value[1] # SP
            /\ line = header.name \o <<Colon>> \o Spaces(before) \o header.value
                      \o Spaces(after)

(* A parse that succeeds consumes up to the first blank line behind the    *)
(* start line, has one header for each line in between, in order, and a    *)
(* header is its line without the spaces around the value.                 *)
HeadersAreLines ==
  outcome.ret > 0 =>
    LET skipped == IF kind = "headers" THEN 0
                   ELSE IF kind = "request" /\ input[1] \in {CR, LF} THEN 2 ELSE 1
        lines == Cardinality(LineStarts) - 1
    IN  /\ lines = skipped + Len(outcome.headers) + 1
        /\ Line(lines) = <<>>
        /\ \A n \in DOMAIN outcome.headers :
             /\ IsHeaderOf(outcome.headers[n], Line(skipped + n))
             /\ Line(skipped + n) # <<>>
=============================================================================
