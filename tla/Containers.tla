----------------------------- MODULE Containers -----------------------------
(***************************************************************************)
(* The audio containers (audio-containers/) and BaseCodec::decode, which   *)
(* takes a sample from a container, decodes it and consumes what the       *)
(* decoder used.                                                           *)
(*                                                                         *)
(* A stream is a sequence of cells: n > 0 is the header of a frame of n    *)
(* bytes, 0 is any other byte.  The buffer holds positions in the stream,  *)
(* 0 where it was never filled.  The decoders are external: a whole frame  *)
(* is decoded, of anything else they report an error.                      *)
(***************************************************************************)
EXTENDS Integers, Sequences, FiniteSets

CONSTANTS MaxFrameSize,     (* AAC_MAX_FRAME_SIZE and MP3_MAX_FRAME_SIZE    *)
          BUFFER_SIZE,
          HeadRead,         (* bytes guessAudioContainer reads              *)
          HeadKept,         (* and those of them a container keeps          *)
          Streams,
          JunkSizes         (* what no header's bytes are read as           *)

(* Two frames fit the buffer.  Guessing finds the bytes it reads, and of   *)
(* them keeps more than a decoder gives up on an error.                    *)
ASSUME ContainerAssumption ==
  /\ MaxFrameSize \in Nat \ {0} /\ BUFFER_SIZE \in Nat /\ 2 * MaxFrameSize <= BUFFER_SIZE
  /\ HeadRead \in Nat /\ HeadKept \in 3..HeadRead /\ HeadKept <= BUFFER_SIZE
  /\ \A s \in Streams : s \in Seq(Nat) /\ HeadRead <= Len(s)
  /\ JunkSizes \subseteq Nat

VARIABLES codecType, stream,
          headDropped,      (* bytes of the stream guessing has lost        *)
          fetched,          (* bytes read from the istream                  *)
          bytesIn, bytesInBuffer, dataOffset,
          decoded,          (* history: positions of the frames decoded     *)
          consumed,         (* history: bytes that left the buffer's front  *)
          strayed,          (* history: the offset was beyond the bytes     *)
          reading           (* "reads", at its "end", or "stuck" in a loop  *)

containerVars ==
  <<codecType, stream, headDropped, fetched, bytesIn, bytesInBuffer, dataOffset, decoded,
    consumed, strayed, reading>>

Least(m, n) == IF m < n THEN m ELSE n

(* guessAudioContainer's heading, or a container made without one.         *)
Heading(guessed) == IF guessed THEN HeadKept ELSE 0

ContainerInit ==
  /\ codecType \in {"AAC", "MP3"} /\ stream \in Streams
  /\ \E guessed \in BOOLEAN :
       /\ fetched = (IF guessed THEN HeadRead ELSE 0)
       /\ headDropped = fetched - Heading(guessed)
       /\ bytesInBuffer = Heading(guessed)
       /\ bytesIn = [i \in 1..BUFFER_SIZE |-> IF i <= Heading(guessed) THEN i ELSE 0]
  /\ dataOffset = 0 /\ decoded = <<>> /\ consumed = 0
  /\ strayed = FALSE /\ reading = "reads"

(***************************************************************************)
(* readSample, in steps; b is the container's state.                       *)
(***************************************************************************)
This == [buf |-> bytesIn, bytes |-> bytesInBuffer, at |-> dataOffset, fetched |-> fetched]

(* Mutant: the consumed bytes are counted, and the others not moved.       *)
Aligned_NotMoved(b) ==
  LET toConsume == Least(b.at, b.bytes)
  IN  [b EXCEPT !.at = @ - toConsume, !.bytes = @ - toConsume]

Aligned(b) ==
  LET toConsume == Least(b.at, b.bytes)
  IN  [b EXCEPT !.buf = SubSeq(@, toConsume + 1, BUFFER_SIZE)
                        \o SubSeq(@, BUFFER_SIZE - toConsume + 1, BUFFER_SIZE),
                !.at = @ - toConsume, !.bytes = @ - toConsume]

fillBuffer(b) ==
  LET count == IF b.bytes < 2 * MaxFrameSize
               THEN Least(BUFFER_SIZE - b.bytes, Len(stream) - b.fetched) ELSE 0
  IN  [b EXCEPT !.buf = SubSeq(@, 1, b.bytes) \o [i \in 1..count |-> b.fetched + i]
                        \o SubSeq(@, b.bytes + count + 1, BUFFER_SIZE),
                !.bytes = @ + count, !.fetched = @ + count]

(* The cell at an offset in the buffer; what lies behind it is any.        *)
Cell(b, i, behind) ==
  IF i >= BUFFER_SIZE THEN behind
  ELSE IF b.buf[i + 1] = 0 THEN 0 ELSE stream[b.buf[i + 1]]

(* resyncADTS stops at three headers in a row.  A header that is followed  *)
(* by less than its frame is passed over; one that is not followed by two  *)
(* more is looked at for ever.  validBytes wraps round where the offset is *)
(* beyond the bytes: then old bytes are searched, and what lies behind the *)
(* buffer; it is left open what is found farther on.                       *)
Strays(b) == b.at > b.bytes

resyncADTS(b, behind) ==
  LET validBytes == b.bytes - b.at
      At(o) == Cell(b, b.at + o, behind)
      fits == IF Strays(b) THEN {o \in 0..(BUFFER_SIZE - b.at) : At(o) > 0}
              ELSE {o \in 0..(validBytes - 1) : At(o) > 0 /\ At(o) + o <= validBytes}
      first == CHOOSE o \in fits : \A q \in fits : o <= q
      second == first + At(first)
  IN  IF fits = {}
      THEN [b |-> [b EXCEPT !.at = IF Strays(b) THEN @ ELSE b.bytes],
            found |-> IF Strays(b) THEN "loops" ELSE "no"]
      ELSE [b |-> [b EXCEPT !.at = b.at + first],
            found |-> IF At(second) > 0 /\ At(second + At(second)) > 0 THEN "yes" ELSE "loops"]

Resynced(b, behind, needed) ==
  IF needed THEN resyncADTS(b, behind) ELSE [b |-> b, found |-> "yes"]

Sample(b, len) == [b |-> b, len |-> len, is |-> "sample"]
NoSample(r) == [b |-> r.b, len |-> 0, is |-> IF r.found = "loops" THEN "stuck" ELSE "null"]
Ended(b) == [b |-> b, len |-> 0, is |-> "end"]

(* Twice a resync, if there is no header, and if less than a frame of len  *)
(* is left, which is unsigned too; len is read where the buffer was before *)
(* the first, and is junk there.                                           *)
ADTSRead(b, behind, junk) ==
  LET header == Cell(b, b.at, behind)
      len == IF header > 0 THEN header ELSE junk
  IN  IF b.bytes < MaxFrameSize THEN {Ended(b)}
      ELSE UNION {IF r.found # "yes" THEN {NoSample(r)}
                  ELSE {IF q.found # "yes" THEN NoSample(q) ELSE Sample(q.b, len) :
                          q \in {Resynced(r.b, behind, ~Strays(r.b) /\ len > r.b.bytes - r.b.at)}} :
                    r \in {Resynced(b, behind, header = 0)}}

(* MP3FindSyncWord, external, looks from the buffer's beginning.           *)
MP3Read(b) ==
  LET headers == {i \in 0..(b.bytes - 1) : Cell(b, i, 0) > 0}
      at == b.at + (CHOOSE i \in headers : \A j \in headers : i <= j)
  IN  IF b.bytes < 2 * MaxFrameSize THEN Ended(b)
      ELSE IF headers = {} THEN [Ended([b EXCEPT !.at = MaxFrameSize]) EXCEPT !.is = "null"]
      ELSE Sample([b EXCEPT !.at = at], b.bytes - at)

(***************************************************************************)
(* BaseCodec::decode                                                       *)
(***************************************************************************)
FrameAt(s) ==
  LET size == Cell(s.b, s.b.at, 0)
      first == s.b.buf[s.b.at + 1]
      last == s.b.at + size
  IN  IF size \in 1..s.len /\ last <= BUFFER_SIZE /\ s.b.buf[last] = first + size - 1
      THEN size ELSE 0

(* The bytes used: a decoded frame's; else AACDecoder gives up the whole   *)
(* sample, and MP3Decoder two bytes more than the library has used.        *)
Used(s) ==
  IF FrameAt(s) > 0 THEN {FrameAt(s)}
  ELSE IF codecType = "AAC" THEN {s.len} ELSE {2, 3}

Became(b, used) ==
  /\ bytesIn' = b.buf /\ bytesInBuffer' = b.bytes /\ fetched' = b.fetched
  /\ dataOffset' = b.at + used
  /\ consumed' = consumed + (b.fetched - b.bytes) - (fetched - bytesInBuffer)

Decode(s) ==
  /\ IF s.is # "sample" \/ s.len = 0
     THEN Became(s.b, 0) /\ UNCHANGED decoded
     ELSE \E used \in Used(s) :
            /\ Became(s.b, used)
            /\ decoded' = IF FrameAt(s) > 0 THEN Append(decoded, s.b.buf[s.b.at + 1]) ELSE decoded
  /\ reading' = (IF s.is \in {"end", "stuck"} THEN s.is ELSE "reads")
  /\ UNCHANGED <<codecType, stream, headDropped>>

DecodeAAC ==
  /\ codecType = "AAC" /\ reading = "reads"
  /\ \E behind \in {0, 1}, junk \in JunkSizes, b \in {fillBuffer(Aligned(This))} :
       /\ \E s \in ADTSRead(b, behind, junk) : Decode(s)
       /\ strayed' = (strayed \/ Strays(b))

(* Mutant: nothing is passed over when there is no sync word.              *)
DecodeMP3_Stays ==
  /\ codecType = "MP3" /\ reading = "reads" /\ UNCHANGED strayed
  /\ \E b \in {fillBuffer(Aligned(This))} : \E s \in {MP3Read(b)} :
       Decode(IF s.is = "null" THEN [s EXCEPT !.b.at = 0] ELSE s)

DecodeMP3 ==
  /\ codecType = "MP3" /\ reading = "reads" /\ UNCHANGED strayed
  /\ \E b \in {fillBuffer(Aligned(This))} : \E s \in {MP3Read(b)} : Decode(s)

ContainerNext == DecodeAAC \/ DecodeMP3

(***************************************************************************)
(* Properties.                                                             *)
(***************************************************************************)
Position(i) == IF headDropped > 0 /\ i > HeadKept THEN i + headDropped ELSE i

(* What is buffered is the stream without the bytes guessing lost: no byte *)
(* is skipped or doubled by the moves and the fills.                       *)
BufferIsTheStream ==
  \A i \in 1..bytesInBuffer : bytesIn[i] = Position(consumed + i)

(* Frames are decoded in the stream's order, and none of them twice, as    *)
(* long as the offset has not strayed beyond the bytes of the buffer.      *)
DecodedInOrder ==
  ~strayed => \A i, j \in DOMAIN decoded : i < j => decoded[i] < decoded[j]

Headers(cells) == {p \in DOMAIN cells : cells[p] > 0}

(* Frames of at most limit bytes, one behind the other, and nothing else.  *)
WholeFrames(cells, limit) ==
  /\ 1 \in Headers(cells)
  /\ \A p \in Headers(cells) :
       /\ cells[p] <= limit
       /\ p + cells[p] \in Headers(cells) \union {Len(cells) + 1}
       /\ \A q \in Headers(cells) : p < q => p + cells[p] <= q

(* What a container needs to have in its buffer to read a sample.          *)
Margin == IF codecType = "AAC" THEN MaxFrameSize ELSE 2 * MaxFrameSize

(* The frames of a container that guessing made, whose first frame it has  *)
(* torn, and of one that was made otherwise.                               *)
Torn == codecType = "MP3" /\ headDropped > 0 /\ HeadRead <= stream[1]
Promised == IF Torn THEN Headers(stream) \ {1} ELSE Headers(stream)

(* Which frames of a stream of whole frames are decoded to its end: those  *)
(* that have the bytes behind them that the container needs, but for the   *)
(* first if the container was guessed.  Of a guessed AAC stream none is    *)
(* promised.                                                               *)
AllFramesDecoded ==
  /\ reading = "end" /\ WholeFrames(stream, MaxFrameSize)
  /\ headDropped = 0 \/ Torn
  => \A p \in Promised :
       p <= Len(stream) + 1 - Margin => \E i \in DOMAIN decoded : decoded[i] = p

(* The frames of a stream come out of the container in order, none twice,  *)
(* and of a stream without junk all but those named above.                 *)
FramesInOrder == BufferIsTheStream /\ DecodedInOrder /\ AllFramesDecoded

(* All frames are decoded.  Not so: guessing tears the first one, after    *)
(* which the length of an AAC frame is read where it is not, and those at  *)
(* the stream's end are too few bytes to be read.                          *)
NoFrameLost ==
  reading = "end" /\ WholeFrames(stream, MaxFrameSize) =>
    \A p \in Headers(stream) : \E i \in DOMAIN decoded : decoded[i] = p

(* The offset is within the buffer's bytes.  Not so: a junk length is      *)
(* consumed whole, and resyncADTS then subtracts more than there is.       *)
NeverStrays == ~strayed

(* A caller that goes on after errors gets an MP3 stream to its end, and   *)
(* an AAC stream there or into the loop of resyncADTS that has no end.     *)
ContainerEnds == <>(reading = "end" \/ (codecType = "AAC" /\ reading = "stuck"))

(* Any stream to its end.  Not so: resyncADTS can loop.                    *)
AlwaysEnds == <>(reading = "end")

------------------------------------------------------------------------------
(***************************************************************************)
(* EncodedAudioStream (io/EncodedAudioStream.cpp): decodes an MP3 stream   *)
(* read from a ByteStream, both external, through a window of ReadBuf      *)
(* bytes.                                                                  *)
(*                                                                         *)
(* A stream's cells are n > 0 for the header of a frame of n bytes and 0   *)
(* for any other byte; the window is a sequence of positions in it.        *)
(***************************************************************************)
CONSTANTS ReadBuf,          (* MP3_READBUF_SIZE                             *)
          HeadBytes,        (* what guessDataFormat reads                   *)
          NoSyncSkip,       (* what is skipped where no sync word is found  *)
          EncodedStreams,   (* records: format, cells, and the size told    *)
          MaxOpens          (* bound on the streams opened                  *)

ASSUME EncodedAssumption ==
  /\ ReadBuf \in Nat /\ HeadBytes \in Nat /\ NoSyncSkip \in Nat
  /\ \A s \in EncodedStreams : s.cells \in Seq(Nat) /\ s.size \in {0, Len(s.cells)}

VARIABLES innerStream, codec,
          position,         (* of the inner stream                          *)
          window,           (* the first bytesInBuffer of inputBuffer       *)
          played,           (* history: positions of the frames decoded     *)
          shortRead,        (* history: a read delivered less than asked    *)
          opens,
          result            (* of the last call                             *)

encodedVars == <<innerStream, codec, position, window, played, shortRead, opens, result>>

NoInner == [format |-> "none", cells |-> <<>>, size |-> 0]
Hole == 0

EncodedInit ==
  /\ innerStream = NoInner /\ codec = "NONE" /\ position = 0 /\ window = <<>>
  /\ played = <<>> /\ shortRead = FALSE /\ opens = 0 /\ result = "none"

Positions(first, n) == [i \in 1..n |-> first + i - 1]

(* openWithStream: the format is guessed from the first bytes; a format    *)
(* that is not known leaves the codec of the stream before.  The window    *)
(* counts HeadBytes bytes, however many were read.                         *)
openWithStream ==
  /\ opens < MaxOpens /\ opens' = opens + 1 /\ result # "crash"
  /\ \E s \in EncodedStreams, n \in 3..HeadBytes :
       /\ n <= Len(s.cells)
       /\ innerStream' = s /\ position' = n
       /\ window' = Positions(1, n) \o [i \in 1..(HeadBytes - n) |-> Hole]
       /\ shortRead' = (n < HeadBytes)
       /\ codec' = IF s.format \in {"MP3", "AAC"} THEN s.format ELSE codec
       /\ result' = IF codec' = "NONE" THEN "threw" ELSE "opened"
  /\ played' = <<>>

CellOf(p) == IF p = Hole THEN 0 ELSE innerStream.cells[p]
Size == Len(innerStream.cells)

From(bytes, first) == SubSeq(bytes, first, Len(bytes))

(* MP3Decode takes a frame that is there as a whole, and nothing else.     *)
WholeFrame(bytes) ==
  LET size == CellOf(bytes[1])
  IN  size <= Len(bytes) /\ bytes[size] = bytes[1] + size - 1

(* On an error, which an incomplete frame is too, one byte is skipped.     *)
AfterDecode(bytes) == IF WholeFrame(bytes) THEN From(bytes, CellOf(bytes[1]) + 1) ELSE From(bytes, 2)

(* decodeFrameMp3, with bytes the window after the read.                   *)
DecodeWindow(bytes) ==
  LET headers == {i \in DOMAIN bytes : CellOf(bytes[i]) > 0}
      first == CHOOSE i \in headers : \A j \in headers : i <= j
      synced == From(bytes, first)
  IN  IF headers # {}
      THEN /\ window' = AfterDecode(synced)
           /\ played' = IF WholeFrame(synced) THEN Append(played, synced[1]) ELSE played
           /\ result' = IF WholeFrame(synced) THEN "pcm" ELSE "nothing"
      ELSE /\ UNCHANGED played
           /\ IF Len(bytes) >= NoSyncSkip
              THEN window' = From(bytes, NoSyncSkip + 1) /\ result' = "nothing"
              ELSE UNCHANGED window /\ result' = "crash"

(* size() is 0 where the source does not know it.                          *)
AtEnd == innerStream.size # 0 /\ position >= innerStream.size

(* What a read delivers: nothing at the source's end, or into a full       *)
(* window.                                                                 *)
Delivered ==
  LET most == Least(ReadBuf - Len(window), Size - position)
  IN  IF most = 0 THEN {0} ELSE 1..most

decodeFrame ==
  /\ innerStream # NoInner /\ result # "crash"
  /\ IF AtEnd \/ codec # "MP3"
     THEN result' = "nothing" /\ UNCHANGED <<position, window, played, shortRead>>
     ELSE \E n \in Delivered :
            /\ position' = position + n
            /\ shortRead' = (shortRead \/ (n < ReadBuf - Len(window) /\ position' < Size))
            /\ IF n = 0 THEN result' = "nothing" /\ UNCHANGED <<window, played>>
               ELSE DecodeWindow(window \o Positions(position + 1, n))
  /\ UNCHANGED <<innerStream, codec, opens>>

EncodedNext == openWithStream \/ decodeFrame

EncodedSpec == EncodedInit /\ [][EncodedNext]_encodedVars /\ WF_encodedVars(decodeFrame)

(***************************************************************************)
(* Properties.                                                             *)
(***************************************************************************)
(* An MP3 stream of whole frames that fit the window, from a source that   *)
(* delivers what it is asked for: no frame is lost or decoded twice, those *)
(* before the window are decoded, in order, and no other.                  *)
FramesBeforeWindowPlayed ==
  innerStream.format = "MP3" /\ WholeFrames(innerStream.cells, ReadBuf) /\ ~shortRead =>
    LET before == position - Len(window)
    IN  /\ {played[i] : i \in DOMAIN played} = Headers(innerStream.cells) \cap 1..before
        /\ \A i, j \in DOMAIN played : i < j => played[i] < played[j]

(* Frames of containers and of encoded streams are decoded in order and    *)
(* none twice; which of them are not decoded at all is as said above.      *)
FramesArePlayed == FramesInOrder /\ FramesBeforeWindowPlayed

(* A caller that goes on reads an MP3 source to its end, whatever the      *)
(* source holds and however little a read delivers, unless a call crashes  *)
(* or a stream of another format is opened.                                *)
ReadToTheEnd ==
  result = "opened" /\ codec = "MP3" ~> position >= Size \/ result = "crash" \/ codec # "MP3"

(* Every frame is decoded.  Not so: what is in the window when the source  *)
(* is at its end never is.                                                 *)
TailPlayed ==
  /\ innerStream.format = "MP3" /\ WholeFrames(innerStream.cells, ReadBuf)
  /\ ~shortRead /\ position >= Size
  => Len(window) = 0

(* decodeFrame never moves a negative number of bytes.  Not so: it does    *)
(* whenever the window, which is smaller than NoSyncSkip, has no sync word.*)
NeverCrashes == result # "crash"

(* An unknown format is refused.  Not so after a known one.                *)
UnknownRefused == innerStream.format = "other" => codec = "NONE"
==============================================================================
