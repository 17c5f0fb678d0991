----------------------------- MODULE UrlParser -----------------------------
(***************************************************************************)
(* URLParser (io/URLParser.cpp, include/URLParser.h): parse in its two     *)
(* builds, with std::regex and, under BELL_DISABLE_REGEX, with sscanf; and *)
(* urlEncode and urlDecode.                                                *)
(*                                                                         *)
(* A url is a sequence of delimiters and words; that a word has characters *)
(* shows only in strstr, which finds a host that is a word of its own      *)
(* before it.  The encoded values are sequences of character codes.        *)
(***************************************************************************)
EXTENDS Integers, Sequences

CONSTANTS Words,        (* of hosts, paths, queries and fragments           *)
          Codes,        (* the characters of values to encode               *)
          MaxValue      (* bound on their number                            *)

VARIABLES build, url, components, value

urlVars == <<build, url, components, value>>

Nothing == <<>>
Within(n, set) == UNION {[1..m -> set] : m \in 0..n}
Port(schema) == IF schema = <<"http">> THEN 80 ELSE 443

(* The index of the first token of set from i on, or the end.              *)
FirstToken(set, s, i) ==
  LET found == {j \in i..Len(s) : s[j] \in set}
  IN  IF found = {} THEN Len(s) + 1 ELSE CHOOSE j \in found : \A k \in found : j <= k

From(i, s) == SubSeq(s, i, Len(s))
UpTo(set, s) == SubSeq(s, 1, FirstToken(set, s, 1) - 1)
Starts(s, prefix) == Len(s) >= Len(prefix) /\ SubSeq(s, 1, Len(prefix)) = prefix

Groups(schema, host, path, query) ==
  [schema |-> schema, host |-> host, path |-> path, query |-> query]

(* urlParseRegex, every group of which is optional.                        *)
RegexMatch(s) ==
  LET colon == FirstToken({":", "/", "?", "#"}, s, 1)
      named == colon \in 2..Len(s) /\ s[colon] = ":"
      rest == IF named THEN From(colon + 1, s) ELSE s
      host == IF Starts(rest, <<"/", "/">>) THEN UpTo({"/", "?", "#"}, From(3, rest)) ELSE Nothing
      tail == IF Starts(rest, <<"/", "/">>) THEN From(3 + Len(host), rest) ELSE rest
      path == UpTo({"?", "#"}, tail)
      query == IF Starts(From(Len(path) + 1, tail), <<"?">>)
               THEN UpTo({"#"}, From(Len(path) + 1, tail)) ELSE Nothing
  IN  Groups(IF named THEN SubSeq(s, 1, colon - 1) ELSE Nothing, host, path, query)

(* strstr(url, host) + host.size(): behind the first occurrence.           *)
BehindFirst(host, s) ==
  LET at == {i \in 1..Len(s) : Starts(From(i, s), host)}
      first == CHOOSE i \in at : \A j \in at : i <= j
  IN  From(first + Len(host), s)

(* Mutant: the search for the query starts at the path.                    *)
ScanfMatch_KeepsPath(s) ==
  LET host == UpTo({"/", "?", "#"}, From(5, s))
      tail == BehindFirst(host, s)
      path == IF Starts(tail, <<"/">>) THEN UpTo({"?"}, From(2, tail)) ELSE Nothing
  IN  Groups(UpTo({":"}, s), host, <<"/">> \o path,
             IF Starts(tail, <<"?">>) THEN UpTo({"#"}, tail) ELSE Nothing)

(* The sscanf calls of URLParser::parse; Nothing is a call that fails.     *)
ScanfMatch(s) ==
  LET schema == UpTo({":"}, s)
      authority == From(Len(schema) + 1, s)
      host == IF Starts(authority, <<":", "/", "/">>)
              THEN UpTo({"/", "?", "#"}, From(4, authority)) ELSE Nothing
      tail == IF host = Nothing THEN s ELSE BehindFirst(host, s)
      path == IF Starts(tail, <<"/">>) THEN UpTo({"?"}, From(2, tail)) ELSE Nothing
      rest == IF path # Nothing THEN From(Len(path) + 2, tail)
              ELSE IF tail # <<>> /\ tail[1] \notin {"?", "#"} THEN Tail(tail) ELSE tail
      query == IF Starts(rest, <<"?">>) THEN UpTo({"#"}, From(2, rest)) ELSE Nothing
  IN  Groups(schema, host, <<"/">> \o path, IF query = Nothing THEN Nothing ELSE <<"?">> \o query)

(* No match; what std::invalid_argument is thrown for.                     *)
InvalidUrl == [schema |-> Nothing, host |-> Nothing, port |-> 0, path |-> Nothing]

(* The one number that urls of the model contain.                          *)
stoi(word) == IF word = "81" THEN 81 ELSE 0

parse(how, s) ==
  LET match == IF how = "regex" THEN RegexMatch(s) ELSE ScanfMatch(s)
      name == UpTo({":"}, match.host)
  IN  IF how = "sscanf" /\ (match.schema = Nothing \/ match.host = Nothing) THEN InvalidUrl
      ELSE [schema |-> match.schema, host |-> name,
            port |-> IF name = match.host THEN Port(match.schema) ELSE stoi(match.host[Len(name) + 2]),
            path |-> match.path \o match.query]

(***************************************************************************)
(* Percent encoding, of character codes.                                   *)
(***************************************************************************)
Percent == 37
Plus == 43
Space == 32
Alphanumeric == 48..57 \union 65..90 \union 97..122
Unreserved == Alphanumeric \union {33, 39, 40, 41, 42, 45, 46, 95, 126}

HexDigitOf(n) == IF n < 10 THEN 48 + n ELSE 55 + n
HexDigits == 48..57 \union 65..70 \union 97..102
DigitOf(c) == IF c < 58 THEN c - 48 ELSE IF c < 71 THEN c - 55 ELSE c - 87

(* strtol(hex, nullptr, 16) of two characters without sign or blank.       *)
strtol16(a, b) ==
  IF a \notin HexDigits THEN 0
  ELSE IF b \notin HexDigits THEN DigitOf(a) ELSE 16 * DigitOf(a) + DigitOf(b)

RECURSIVE urlEncode(_)
urlEncode(s) ==
  IF s = <<>> THEN <<>>
  ELSE (IF Head(s) \in Unreserved THEN <<Head(s)>>
        ELSE <<Percent, HexDigitOf(Head(s) \div 16), HexDigitOf(Head(s) % 16)>>)
       \o urlEncode(Tail(s))

RECURSIVE DecodeFrom(_, _)
DecodeFrom(s, i) ==
  IF i > Len(s) THEN <<>>
  ELSE IF s[i] = Percent /\ i + 2 <= Len(s)
  THEN <<strtol16(s[i + 1], s[i + 2])>> \o DecodeFrom(s, i + 3)
  ELSE <<IF s[i] = Plus THEN Space ELSE s[i]>> \o DecodeFrom(s, i + 1)

urlDecode(s) == DecodeFrom(s, 1)

(***************************************************************************)
(* A url is put together from its parts and parsed in one of the builds.   *)
(***************************************************************************)
Optional(lead, set) == {Nothing} \union {lead \o <<w>> : w \in set}

Urls == [schema : {<<"http">>, <<"https">>}, host : {<<w>> : w \in Words},
         port : {Nothing, <<":", "81">>},
         path : {Nothing, <<"/">>} \union {<<"/", w>> : w \in Words}
                  \union {<<"/", w, "/">> : w \in Words},
         query : Optional(<<"?">>, Words), fragment : Optional(<<"#">>, Words)]

Text(u) == u.schema \o <<":", "/", "/">> \o u.host \o u.port \o u.path \o u.query \o u.fragment

NoUrl == [schema |-> <<"http">>, host |-> <<"http">>, port |-> Nothing,
          path |-> Nothing, query |-> Nothing, fragment |-> Nothing]

UrlInit ==
  /\ build \in {"regex", "sscanf"}
  /\ \/ url \in Urls /\ value = <<>>
     \/ url = NoUrl /\ value \in Within(MaxValue, Codes)
  /\ components = InvalidUrl

Parse ==
  /\ components = InvalidUrl /\ value = <<>>
  /\ components' = parse(build, Text(url))
  /\ UNCHANGED <<build, url, value>>

UrlSpec == UrlInit /\ [][Parse]_urlVars

(***************************************************************************)
(* Properties.                                                             *)
(***************************************************************************)
(* The urls on which the sscanf build does what the regex does: there is a *)
(* path, a fragment comes behind a query, and the host is no part of the   *)
(* text before it.                                                         *)
ScanfReads(u) ==
  /\ u.path # Nothing
  /\ u.fragment # Nothing => u.query # Nothing
  /\ u.host # <<"http">>

(* Both builds take a url apart into the parts it was put together from;   *)
(* the port is that of the schema if there is none.                        *)
PartsReadBack ==
  (components # InvalidUrl /\ (build = "regex" \/ ScanfReads(url))) =>
    components = [schema |-> url.schema, host |-> url.host,
               port |-> IF url.port = Nothing THEN Port(url.schema) ELSE 81,
               path |-> url.path \o url.query]

(* Without the conditions: "as in regex below" (URLParser.cpp:10).         *)
BuildsAgree == parse("sscanf", Text(url)) = parse("regex", Text(url))

(* A value survives being encoded and decoded, whatever it contains.       *)
EncodingReadsBack == urlDecode(urlEncode(value)) = value

(* Urls and values survive being written and read.                         *)
UrlsReadBack == PartsReadBack /\ EncodingReadsBack
=============================================================================
