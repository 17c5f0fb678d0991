------------------------- MODULE CentralAudioBuffer -------------------------
(***************************************************************************)
(* bell::CentralAudioBuffer (audio-dsp/include/CentralAudioBuffer.h): PCM  *)
(* samples are collected into AudioChunks; a chunk that is full, or whose  *)
(* track has ended, is copied as sizeof(AudioChunk) raw bytes into a       *)
(* CircularBuffer, from which the player copies it out again.              *)
(*                                                                         *)
(* The operations here are critical sections of dataAccessMutex, so each   *)
(* is one action; the threads that call them are in Playback, the access   *)
(* mutex in AccessLock.  The ring is the queue CircularBuffer implements.  *)
(* A byte of the ring is a pair of the chunk it came from and its place in *)
(* it, so that a reader that gets the halves of two chunks can be told     *)
(* from one that gets a chunk.  The format fields of a chunk (sampleRate,  *)
(* channels, sec, usec) are set with trackHash when the chunk is opened    *)
(* and only carried along: trackHash stands for them.                      *)
(***************************************************************************)
EXTENDS ByteQueue, SequencesExt

CONSTANTS Track,           (* track hashes                                  *)
          Sample,          (* PCM bytes                                     *)
          PCM_CHUNK_SIZE,  (* samples in a full chunk                       *)
          ChunkBytes,      (* sizeof(AudioChunk), in bytes of the ring      *)
          Chunks,          (* the constructor's argument                    *)
          SizeValues,      (* number of values of a size_t                  *)
          MaxWrite         (* bound on the size of one writePCM call        *)

(* Mutant: the ring is sized for the PCM data alone.                       *)
RingBytes_PcmOnly == Chunks * PCM_CHUNK_SIZE

RingBytes == Chunks * ChunkBytes

ASSUME ChunkAssumption ==
  /\ {PCM_CHUNK_SIZE, ChunkBytes, Chunks} \subseteq Nat \ {0}
  /\ MaxWrite \in Nat
  /\ SizeValues \in Nat /\ SizeValues > 2 * RingBytes

VARIABLES ring,            (* the bytes held by audioBuffer, oldest first   *)
          currentChunk, hasChunk,
          lastReadChunk,   (* the storage readChunk returns a pointer to    *)
          result           (* what the last call returned                   *)

bufferVars == <<ring, currentChunk, hasChunk, lastReadChunk, result>>

Pcm == UNION {[1..n -> Sample] : n \in 0..PCM_CHUNK_SIZE}
Data == UNION {[1..n -> Sample] : n \in 0..MaxWrite}
AudioChunk == [trackHash : Track \union {"none", "torn"}, pcm : Pcm]
ZeroChunk == [trackHash |-> "none", pcm |-> <<>>]

(* The object representation of a chunk, and the chunk a copy of           *)
(* ChunkBytes bytes out of the ring makes: none that was ever written,     *)
(* unless the bytes are those of one chunk.                                *)
Bytes(chunk) == [i \in 1..ChunkBytes |-> <<chunk, i>>]
TornChunk == [trackHash |-> "torn", pcm |-> <<>>]
FromBytes(bytes) ==
  IF bytes = Bytes(bytes[1][1]) THEN bytes[1][1] ELSE TornChunk

Done(op) == [op |-> op]
Wrote(n) == [op |-> "writePCM", count |-> n]
GotNull == [op |-> "readChunk", null |-> TRUE]
GotChunk == [op |-> "readChunk", null |-> FALSE]

Init ==
  /\ ring = <<>>
  /\ currentChunk = ZeroChunk
  /\ hasChunk = FALSE
  /\ lastReadChunk = ZeroChunk
  /\ result = Done("none")

(***************************************************************************)
(* writePCM                                                                *)
(***************************************************************************)
(* The open chunk is finished: full, or of another track.                  *)
MustFlush(hash) ==
  /\ hasChunk
  /\ \/ currentChunk.trackHash # hash
     \/ Len(currentChunk.pcm) >= PCM_CHUNK_SIZE

(* The room check subtracts the capacity from the size, not the size from  *)
(* the capacity, in size_t: the difference is 0 for a full ring and wraps  *)
(* to a huge number for any other.                                         *)
NoRoom == (Len(ring) - RingBytes) % SizeValues < ChunkBytes

(* The chunk the samples go to after the flush and the re-initialisation.  *)
OpenChunk(hash) ==
  IF hasChunk /\ ~MustFlush(hash)
  THEN currentChunk ELSE [trackHash |-> hash, pcm |-> <<>>]

WriteRefused(hash) ==
  /\ MustFlush(hash)
  /\ NoRoom
  /\ result' = Wrote(0)
  /\ UNCHANGED <<ring, currentChunk, hasChunk, lastReadChunk>>

WriteAccepted(data, hash) ==
  LET chunk == OpenChunk(hash)
      toWriteSize == Smaller(Len(data), PCM_CHUNK_SIZE - Len(chunk.pcm))
  IN  /\ ~(MustFlush(hash) /\ NoRoom)
      /\ ring' = IF MustFlush(hash)
                 THEN ring \o Accepted(ring, Bytes(currentChunk), RingBytes)
                 ELSE ring
      /\ currentChunk' = [chunk EXCEPT !.pcm = @ \o SubSeq(data, 1, toWriteSize)]
      /\ hasChunk' = TRUE
      /\ result' = Wrote(toWriteSize)
      /\ UNCHANGED lastReadChunk

WritePCM(data, hash) == WriteRefused(hash) \/ WriteAccepted(data, hash)

(***************************************************************************)
(* readChunk                                                               *)
(***************************************************************************)
ReadNull ==
  /\ Len(ring) < ChunkBytes
  /\ lastReadChunk' = [lastReadChunk EXCEPT !.pcm = <<>>]
  /\ result' = GotNull
  /\ UNCHANGED <<ring, currentChunk, hasChunk>>

ReadOldest ==
  /\ Len(ring) >= ChunkBytes
  /\ ring' = AfterOldest(ring, ChunkBytes)
  /\ lastReadChunk' = FromBytes(Oldest(ring, ChunkBytes))
  /\ result' = GotChunk
  /\ UNCHANGED <<currentChunk, hasChunk>>

ReadChunk == ReadNull \/ ReadOldest

(***************************************************************************)
(* Emptying: clearBuffer drops the open chunk as well, emptyCompletely     *)
(* keeps it.                                                               *)
(***************************************************************************)
(* Mutant: clearBuffer keeps the open chunk, as emptyCompletely does.      *)
ClearBuffer_KeepsChunk ==
  /\ ring' = <<>>
  /\ result' = Done("clearBuffer")
  /\ UNCHANGED <<currentChunk, hasChunk, lastReadChunk>>

ClearBuffer ==
  /\ ring' = <<>>
  /\ hasChunk' = FALSE
  /\ result' = Done("clearBuffer")
  /\ UNCHANGED <<currentChunk, lastReadChunk>>

EmptyCompletely ==
  /\ ring' = <<>>
  /\ result' = Done("emptyCompletely")
  /\ UNCHANGED <<currentChunk, hasChunk, lastReadChunk>>

(* Mutant: more than, not at least.                                        *)
HasAtLeast_More(chunks) == Len(ring) > chunks * ChunkBytes

(* Unlocked: the size of the ring only.                                    *)
HasAtLeast(chunks) == Len(ring) >= chunks * ChunkBytes

Next ==
  \/ \E hash \in Track, data \in Data : WritePCM(data, hash)
  \/ ReadChunk
  \/ ClearBuffer
  \/ EmptyCompletely

Spec == Init /\ [][Next]_bufferVars

(***************************************************************************)
(* Properties.                                                             *)
(***************************************************************************)
(* The ring holds bytes of chunks, and no chunk has more samples than it   *)
(* has room for (currentChunk, the one readChunk hands out).               *)
TypeOK ==
  /\ ring \in Seq(AudioChunk \X (1..ChunkBytes))
  /\ currentChunk \in AudioChunk
  /\ hasChunk \in BOOLEAN
  /\ lastReadChunk \in AudioChunk

(* readChunk copies sizeof(AudioChunk) raw bytes: that they are one chunk  *)
(* follows only if every flush found room for all of its bytes, since      *)
(* writePCM ignores what audioBuffer->write returns.                       *)
WholeChunks ==
  /\ Len(ring) % ChunkBytes = 0
  /\ \A i \in DOMAIN ring :
       LET part == ((i - 1) % ChunkBytes) + 1
       IN  ring[i] = <<ring[i - part + 1][1], part>>

(* Every read of readChunk finds a chunk at the front of the ring.         *)
BufferInv == TypeOK /\ WholeChunks

(* The chunks in the ring, and every sample accepted and not yet read or   *)
(* discarded, with its track.                                              *)
RingChunks ==
  [k \in 1..(Len(ring) \div ChunkBytes) |-> ring[(k - 1) * ChunkBytes + 1][1]]

Labelled(chunk) == [i \in DOMAIN chunk.pcm |-> <<chunk.trackHash, chunk.pcm[i]>>]

Held ==
  LET chunks == RingChunks \o (IF hasChunk THEN <<currentChunk>> ELSE <<>>)
  IN  FlattenSeq([i \in DOMAIN chunks |-> Labelled(chunks[i])])

Delivered ==
  IF result = GotChunk
  THEN [op |-> "readChunk", null |-> FALSE, samples |-> Labelled(lastReadChunk)]
  ELSE result

Channel == INSTANCE PcmChannel
             WITH pending <- Held, delivered <- Delivered,
                  Slack <- PCM_CHUNK_SIZE, Most <- PCM_CHUNK_SIZE

(* The chunk buffer is the sample stream PcmChannel describes: accepted    *)
(* samples come out once, in order, under their own track, a read comes    *)
(* back empty only when nothing finished is waiting, and only the emptying *)
(* calls lose samples (writePCM, readChunk, clearBuffer, emptyCompletely). *)
ImplementsChannel == Channel!ChannelSpec
=============================================================================
