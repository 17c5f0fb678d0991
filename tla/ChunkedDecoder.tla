--------------------------- MODULE ChunkedDecoder ---------------------------
(***************************************************************************)
(* phr_decode_chunked (io/picohttpparser.c): the body of a chunked message *)
(* is decoded in place, in the caller's buffer, as its pieces arrive.  The *)
(* decoder keeps its state between the calls; within a call src is what    *)
(* has been looked at and dst what has been decoded.                       *)
(*                                                                         *)
(* A loop of the code is one action: it runs to the byte it looks for, or  *)
(* to the end of the buffer, where the call returns.                       *)
(***************************************************************************)
EXTENDS HttpParser

CONSTANTS Other,            (* any byte but the ones named               *)
          HexDigit,         (* a set of digits, each its own value          *)
          MaxHexCount,      (* sizeof(size_t) * 2                           *)
          MaxMessage,       (* bound on the bytes of the message            *)
          MaxCall           (* bound on the bytes of a call                 *)

VARIABLES _state, bytes_left_in_chunk, _hex_count, consume_trailer,
          buf, src, dst,    (* the caller's buffer and the two indices      *)
          ret,              (* what the call returned; Busy within it       *)
          message,          (* history: all bytes passed in                 *)
          decoded           (* history: the bytes handed back               *)

decoder == <<_state, bytes_left_in_chunk, _hex_count>>
chunkVars == <<decoder, consume_trailer, buf, src, dst, ret, message, decoded>>

Byte == {CR, LF, Other} \union HexDigit
Busy == -3
Incomplete == -2
Invalid == -1

ChunkInit ==
  /\ _state = "SIZE" /\ bytes_left_in_chunk = 0 /\ _hex_count = 0
  /\ consume_trailer \in BOOLEAN
  /\ buf = <<>> /\ src = 0 /\ dst = 0 /\ ret = Incomplete
  /\ message = <<>> /\ decoded = <<>>

Call ==
  /\ ret = Incomplete
  /\ \E n \in 1..MaxCall : \E piece \in [1..n -> Byte] :
       /\ Len(message) + n <= MaxMessage
       /\ buf' = piece
       /\ message' = message \o piece
  /\ src' = 0 /\ dst' = 0 /\ ret' = Busy
  /\ UNCHANGED <<decoder, consume_trailer, decoded>>

(* How far a loop runs that stops at a byte of set: bufsz if there is none.*)
StopAt(set) ==
  IF \E i \in src..(Len(buf) - 1) : buf[i + 1] \in set
  THEN CHOOSE i \in src..(Len(buf) - 1) :
         buf[i + 1] \in set /\ \A j \in src..(i - 1) : buf[j + 1] \notin set
  ELSE Len(buf)

(* memmove(buf + dst, buf + from, n)                                       *)
Moved(from, n) ==
  [i \in DOMAIN buf |-> IF i > dst /\ i <= dst + n THEN buf[i - dst + from] ELSE buf[i]]

(* The label Exit, reached with src at from: what was not looked at is     *)
(* moved behind what was decoded.                                          *)
Exit(from, result) ==
  /\ src' = from
  /\ buf' = Moved(from, Len(buf) - from)
  /\ ret' = result
  /\ decoded' = decoded \o SubSeq(buf', 1, dst)
  /\ UNCHANGED <<dst, consume_trailer, message>>

Proceed(from) == src' = from /\ UNCHANGED <<buf, dst, ret, consume_trailer, message, decoded>>

RECURSIVE HexValue(_, _)
HexValue(digits, value) ==
  IF digits = <<>> THEN value ELSE HexValue(Tail(digits), 16 * value + Head(digits))

(* Mutant: the count of digits is that of the call.                        *)
ChunkSize_CountsPerCall ==
  /\ ret = Busy /\ _state = "SIZE"
  /\ LET stop == StopAt(Byte \ HexDigit)
     IN  /\ bytes_left_in_chunk' =
              HexValue(SubSeq(buf, src + 1, stop), bytes_left_in_chunk)
         /\ IF stop = Len(buf)
            THEN Exit(stop, Incomplete) /\ _hex_count' = 0 /\ UNCHANGED _state
            ELSE IF stop = src THEN Exit(src, Invalid) /\ UNCHANGED <<_state, _hex_count>>
            ELSE Proceed(stop) /\ _hex_count' = 0 /\ _state' = "EXT"

ChunkSize ==
  /\ ret = Busy /\ _state = "SIZE"
  /\ LET stop == StopAt(Byte \ HexDigit)
         fit == IF stop - src <= MaxHexCount - _hex_count
                THEN stop ELSE src + MaxHexCount - _hex_count
         count == _hex_count + fit - src
     IN  /\ bytes_left_in_chunk' =
              HexValue(SubSeq(buf, src + 1, fit), bytes_left_in_chunk)
         /\ \/ /\ fit < stop \/ (stop < Len(buf) /\ count = 0)
               /\ Exit(fit, Invalid) /\ _hex_count' = count /\ UNCHANGED _state
            \/ /\ fit = stop /\ stop = Len(buf)
               /\ Exit(stop, Incomplete) /\ _hex_count' = count /\ UNCHANGED _state
            \/ /\ fit = stop /\ stop < Len(buf) /\ count > 0
               /\ Proceed(stop) /\ _hex_count' = 0 /\ _state' = "EXT"

(* The loop that skips up to and over the LF.                              *)
SkipLine(then) ==
  /\ ret = Busy
  /\ UNCHANGED <<bytes_left_in_chunk, _hex_count>>
  /\ LET stop == StopAt({LF})
     IN  IF stop = Len(buf)
         THEN Exit(stop, Incomplete) /\ UNCHANGED _state
         ELSE IF then = "COMPLETE"
         THEN Exit(stop + 1, Len(buf) - stop - 1) /\ UNCHANGED _state
         ELSE Proceed(stop + 1) /\ _state' = then

ChunkExt ==
  /\ _state = "EXT"
  /\ SkipLine(IF bytes_left_in_chunk > 0 THEN "DATA"
              ELSE IF consume_trailer THEN "LINE_HEAD" ELSE "COMPLETE")

ChunkData ==
  /\ ret = Busy /\ _state = "DATA"
  /\ LET avail == Len(buf) - src
         n == IF avail < bytes_left_in_chunk THEN avail ELSE bytes_left_in_chunk
     IN  /\ buf' = Moved(src, n)
         /\ src' = src + n /\ dst' = dst + n
         /\ bytes_left_in_chunk' = bytes_left_in_chunk - n
         /\ IF n < bytes_left_in_chunk
            THEN /\ ret' = Incomplete
                 /\ decoded' = decoded \o SubSeq(buf', 1, dst')
                 /\ UNCHANGED _state
            ELSE _state' = "CRLF" /\ UNCHANGED <<ret, decoded>>
  /\ UNCHANGED <<_hex_count, consume_trailer, message>>

ChunkCrlf ==
  /\ ret = Busy /\ _state = "CRLF"
  /\ UNCHANGED <<bytes_left_in_chunk, _hex_count>>
  /\ LET stop == StopAt(Byte \ {CR})
     IN  IF stop = Len(buf) THEN Exit(stop, Incomplete) /\ UNCHANGED _state
         ELSE IF buf[stop + 1] # LF THEN Exit(stop, Invalid) /\ UNCHANGED _state
         ELSE Proceed(stop + 1) /\ _state' = "SIZE"

TrailerHead ==
  /\ ret = Busy /\ _state = "LINE_HEAD"
  /\ UNCHANGED <<bytes_left_in_chunk, _hex_count>>
  /\ LET stop == StopAt(Byte \ {CR})
     IN  IF stop = Len(buf) THEN Exit(stop, Incomplete) /\ UNCHANGED _state
         ELSE IF buf[stop + 1] = LF
         THEN Exit(stop + 1, Len(buf) - stop - 1) /\ UNCHANGED _state
         ELSE Proceed(stop + 1) /\ _state' = "LINE_MIDDLE"

TrailerMiddle == _state = "LINE_MIDDLE" /\ SkipLine("LINE_HEAD")

ChunkNext ==
  \/ Call
  \/ ChunkSize \/ ChunkExt \/ ChunkData \/ ChunkCrlf \/ TrailerHead \/ TrailerMiddle

ChunkSpec == ChunkInit /\ [][ChunkNext]_chunkVars

(***************************************************************************)
(* Properties.                                                             *)
(***************************************************************************)
(* A chunked message, read as a whole: the data of its chunks, and where   *)
(* the parse stands at the end of what there is.                           *)
Result(data, state, rest) == [data |-> data, state |-> state, rest |-> rest]

After(n, s) == SubSeq(s, n + 1, Len(s))
Leading(set, s) ==
  CHOOSE n \in 0..Len(s) : /\ \A i \in 1..n : s[i] \in set
                           /\ n < Len(s) => s[n + 1] \notin set

RECURSIVE Trailers(_, _)
Trailers(s, data) ==
  LET line == After(Leading({CR}, s), s)
      text == Leading(Byte \ {LF}, line)
  IN  IF line = <<>> THEN Result(data, Incomplete, <<>>)
      ELSE IF line[1] = LF THEN Result(data, "complete", Tail(line))
      ELSE IF After(text, line) = <<>> THEN Result(data, Incomplete, <<>>)
      ELSE Trailers(After(text + 1, line), data)

RECURSIVE Chunks(_, _)
Chunks(s, data) ==
  LET digits == Leading(HexDigit, s)
      size == HexValue(SubSeq(s, 1, digits), 0)
      ext == Leading(Byte \ {LF}, s)
      body == After(ext + 1, s)
      end == Leading({CR}, After(size, body))
      next == After(size + end, body)
  IN  IF digits > MaxHexCount \/ (digits = 0 /\ s # <<>>) THEN Result(data, Invalid, <<>>)
      ELSE IF ext = Len(s) THEN Result(data, Incomplete, <<>>)
      ELSE IF size = 0 /\ consume_trailer THEN Trailers(body, data)
      ELSE IF size = 0 THEN Result(data, "complete", body)
      ELSE IF Len(body) <= size THEN Result(data \o body, Incomplete, <<>>)
      ELSE IF next = <<>> THEN Result(data \o SubSeq(body, 1, size), Incomplete, <<>>)
      ELSE IF next[1] # LF THEN Result(data \o SubSeq(body, 1, size), Invalid, <<>>)
      ELSE Chunks(Tail(next), data \o SubSeq(body, 1, size))

(* However the message is cut into calls, what they hand back is the data  *)
(* of the whole message, they fail if and where it is not well formed, and *)
(* when the message ends they leave the bytes behind it, as many as they   *)
(* say, after the decoded ones.                                            *)
DecodesTheMessage ==
  ret # Busy =>
    LET whole == Chunks(message, <<>>)
    IN  /\ decoded = whole.data
        /\ ret < 0 => whole.state = ret
        /\ ret >= 0 => /\ whole.state = "complete"
                       /\ ret = Len(whole.rest)
                       /\ SubSeq(buf, dst + 1, dst + ret) = whole.rest

(* However head and body are cut into pieces, what the parser and the      *)
(* decoder make of them is what they would have made of the whole.         *)
PiecesMakeNoDifference == CutsDoNotMatter /\ HeadersAreLines /\ DecodesTheMessage
=============================================================================
