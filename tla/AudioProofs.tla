---------------------------- MODULE AudioProofs ----------------------------
(***************************************************************************)
(* CentralAudioBuffer for every chunk size, every number of chunks, every  *)
(* set of tracks and samples and every size of write.  The ring holds      *)
(* whole chunks because a write that has to flush goes on only if the ring *)
(* is not full, and a ring of a whole number of chunks that is not full    *)
(* has room for one more; the sample stream of PcmChannel then takes one   *)
(* step per operation.                                                     *)
(*                                                                         *)
(* Dsp for every set of pipelines, whatever their transforms are           *)
(* configured with and for whatever volumes, and for every size of chunk   *)
(* and length of effect.                                                   *)
(*                                                                         *)
(* Biquad for every frequency, quality and gain.                           *)
(***************************************************************************)
EXTENDS CentralAudioBuffer, Dsp, Biquad, SequenceFacts

(* The inductive invariant adds what the room check needs to know: the     *)
(* ring never holds more than its capacity.                                *)
AudioInv == BufferInv /\ Len(ring) <= RingBytes

(* Bytes that are those of whole chunks.                                   *)
Part(i) == ((i - 1) % ChunkBytes) + 1
IsWhole(q) ==
  /\ Len(q) % ChunkBytes = 0
  /\ \A i \in DOMAIN q : q[i] = <<q[i - Part(i) + 1][1], Part(i)>>

RingByte == AudioChunk \X (1..ChunkBytes)

LEMMA Sizes ==
  /\ ChunkBytes \in Nat \ {0} /\ Chunks \in Nat \ {0} /\ PCM_CHUNK_SIZE \in Nat \ {0}
  /\ MaxWrite \in Nat
  /\ SizeValues \in Nat /\ SizeValues > 2 * RingBytes
  /\ RingBytes \in Nat /\ ChunkBytes <= RingBytes /\ RingBytes % ChunkBytes = 0
<1>1. /\ ChunkBytes \in Nat \ {0} /\ Chunks \in Nat \ {0} /\ PCM_CHUNK_SIZE \in Nat \ {0}
      /\ MaxWrite \in Nat /\ SizeValues \in Nat /\ SizeValues > 2 * RingBytes
  BY ChunkAssumption
<1>2. 0 \in Nat /\ 0 * ChunkBytes + ChunkBytes = ChunkBytes
  BY <1>1
<1>3. ChunkBytes <= Chunks * ChunkBytes
  BY <1>1, <1>2, ProductOrder
<1>4. (Chunks * ChunkBytes) % ChunkBytes = 0 /\ Chunks * ChunkBytes \in Nat
  BY <1>1, ModIsProduct
<1> QED
  BY <1>1, <1>3, <1>4 DEF RingBytes

LEMMA WholeChunksIsWhole == WholeChunks <=> IsWhole(ring)
BY DEF WholeChunks, IsWhole, Part

LEMMA PartFacts ==
  ASSUME NEW i \in Nat \ {0}
  PROVE  /\ Part(i) \in 1..ChunkBytes
         /\ Part(i) <= i
         /\ Part(i + ChunkBytes) = Part(i)
<1>1. i - 1 \in Nat /\ ChunkBytes \in Nat \ {0} /\ (i + ChunkBytes) - 1 = (i - 1) + ChunkBytes
  BY Sizes
<1>2. (i - 1) % ChunkBytes \in 0..(ChunkBytes - 1) /\ (i - 1) % ChunkBytes <= i - 1
  BY <1>1, ModRange
<1>3. ((i - 1) + ChunkBytes) % ChunkBytes = (i - 1) % ChunkBytes
  BY <1>1, ModStep
<1> QED
  BY <1>1, <1>2, <1>3 DEF Part

LEMMA PartAfterWhole ==
  ASSUME NEW n \in Nat, n % ChunkBytes = 0, NEW k \in 1..ChunkBytes
  PROVE  Part(n + k) = k
<1>1. ChunkBytes \in Nat \ {0} /\ k - 1 \in 0..(ChunkBytes - 1)
      /\ (n + k) - 1 = n + (k - 1)
  BY Sizes
<1>2. (n + (k - 1)) % ChunkBytes = k - 1
  BY <1>1, ModOffset
<1> QED
  BY <1>1, <1>2 DEF Part

LEMMA BytesType ==
  ASSUME NEW chunk \in AudioChunk
  PROVE  /\ Bytes(chunk) \in Seq(RingByte)
         /\ Len(Bytes(chunk)) = ChunkBytes
         /\ \A i \in 1..ChunkBytes : Bytes(chunk)[i] = <<chunk, i>>
BY Sizes DEF Bytes, RingByte

(* A flush of a whole chunk leaves whole chunks, and so does taking one.   *)
LEMMA WholeAfterFlush ==
  ASSUME NEW q \in Seq(RingByte), IsWhole(q), NEW chunk \in AudioChunk
  PROVE  IsWhole(q \o Bytes(chunk))
<1> DEFINE n == Len(q)
           r == q \o Bytes(chunk)
<1>1. /\ n \in Nat /\ n % ChunkBytes = 0 /\ ChunkBytes \in Nat \ {0}
      /\ Len(r) = n + ChunkBytes /\ DOMAIN r = 1..(n + ChunkBytes)
      /\ \A i \in 1..n : r[i] = q[i]
      /\ \A k \in 1..ChunkBytes : r[n + k] = <<chunk, k>>
  <2> DEFINE b == Bytes(chunk)
  <2>1. /\ b \in Seq(RingByte) /\ Len(b) = ChunkBytes
        /\ \A i \in 1..ChunkBytes : b[i] = <<chunk, i>>
    BY BytesType
  <2>2. ChunkBytes \in Nat \ {0} /\ n % ChunkBytes = 0
    BY Sizes DEF IsWhole
  <2> HIDE DEF b
  <2>3. /\ Len(q \o b) = n + ChunkBytes /\ DOMAIN (q \o b) = 1..(n + ChunkBytes)
        /\ \A i \in 1..n : (q \o b)[i] = q[i]
        /\ \A k \in 1..ChunkBytes : (q \o b)[n + k] = b[k]
    BY <2>1, <2>2
  <2> QED
    BY <2>1, <2>2, <2>3 DEF b
<1>2. \A i \in 1..n : q[i] = <<q[i - Part(i) + 1][1], Part(i)>>
  BY DOMAIN q = 1..n DEF IsWhole
<1> HIDE DEF r, n
<1>3. Len(r) % ChunkBytes = 0
  BY <1>1, ModStep
<1>4. ASSUME NEW i \in 1..(n + ChunkBytes)
      PROVE  r[i] = <<r[i - Part(i) + 1][1], Part(i)>>
  <2>1. CASE i <= n
    <3>0. i \in Nat \ {0} /\ i \in 1..n
      BY <1>1, <2>1
    <3>1. Part(i) \in 1..ChunkBytes /\ Part(i) <= i
      BY <3>0, PartFacts
    <3>2. i - Part(i) + 1 \in 1..n
      BY <1>1, <3>0, <3>1
    <3> QED
      BY <1>1, <1>2, <3>0, <3>2
  <2>2. CASE i > n
    <3> DEFINE k == i - n
    <3>1. k \in 1..ChunkBytes /\ i = n + k
      BY <1>1, <2>2
    <3> HIDE DEF k
    <3>2. Part(i) = k
      BY <1>1, <3>1, PartAfterWhole
    <3>3. i - Part(i) + 1 = n + 1 /\ 1 \in 1..ChunkBytes
      BY <1>1, <3>1, <3>2
    <3>4. r[n + 1] = <<chunk, 1>> /\ r[i] = <<chunk, k>>
      BY <1>1, <3>1, <3>3
    <3> QED
      BY <3>2, <3>3, <3>4
  <2> QED
    BY <1>1, <2>1, <2>2
<1>5. IsWhole(r)
  BY <1>1, <1>3, <1>4 DEF IsWhole
<1> QED
  BY <1>5 DEF r

LEMMA WholeAfterTake ==
  ASSUME NEW q \in Seq(RingByte), IsWhole(q), Len(q) >= ChunkBytes
  PROVE  /\ IsWhole(SubSeq(q, ChunkBytes + 1, Len(q)))
         /\ SubSeq(q, 1, ChunkBytes) = Bytes(q[1][1])
         /\ q[1][1] \in AudioChunk
<1> DEFINE n == Len(q)
           m == n - ChunkBytes
           r == SubSeq(q, ChunkBytes + 1, n)
           front == SubSeq(q, 1, ChunkBytes)
<1>1. /\ n \in Nat /\ m \in Nat /\ n = m + ChunkBytes /\ n % ChunkBytes = 0
      /\ ChunkBytes \in Nat \ {0}
      /\ Len(r) = m /\ DOMAIN r = 1..m
      /\ \A i \in 1..m : r[i] = q[i + ChunkBytes]
      /\ front \in Seq(RingByte) /\ Len(front) = ChunkBytes
      /\ \A i \in 1..ChunkBytes : front[i] = q[i]
      /\ q[1] \in RingByte
  BY Sizes DEF IsWhole
<1>2. \A i \in 1..n : q[i] = <<q[i - Part(i) + 1][1], Part(i)>>
  BY DOMAIN q = 1..n DEF IsWhole
<1> HIDE DEF n, m, r, front
<1>3. m % ChunkBytes = 0
  BY <1>1, ModStep
<1>4. ASSUME NEW i \in 1..m
      PROVE  r[i] = <<r[i - Part(i) + 1][1], Part(i)>>
  <2> DEFINE j == i - Part(i) + 1
  <2>0. i \in Nat \ {0}
    BY <1>1
  <2>1. /\ Part(i) \in 1..ChunkBytes /\ Part(i) <= i
        /\ Part(i + ChunkBytes) = Part(i)
    BY <2>0, PartFacts
  <2>2. /\ i + ChunkBytes \in 1..n
        /\ j \in 1..m
        /\ (i + ChunkBytes) - Part(i) + 1 = j + ChunkBytes
    BY <1>1, <2>1
  <2>3. q[i + ChunkBytes] = <<q[j + ChunkBytes][1], Part(i)>>
    BY <1>2, <2>1, <2>2
  <2> QED
    BY <1>1, <2>2, <2>3
<1>5. IsWhole(r)
  BY <1>1, <1>3, <1>4 DEF IsWhole
<1>6. ASSUME NEW i \in 1..ChunkBytes
      PROVE  front[i] = Bytes(q[1][1])[i]
  <2>1. Part(i) = i
    <3>1. 0 % ChunkBytes = 0 /\ 0 \in Nat /\ 0 + i = i
      BY <1>1
    <3> QED
      BY <3>1, PartAfterWhole
  <2>2. q[i] = <<q[1][1], i>>
    <3>1. i \in 1..n /\ i - Part(i) + 1 = 1
      BY <1>1, <2>1
    <3>2. q[i] = <<q[i - Part(i) + 1][1], Part(i)>>
      BY <1>2, <3>1
    <3> QED
      BY <2>1, <3>1, <3>2
  <2> QED
    BY <1>1, <2>2 DEF Bytes
<1>7. q[1][1] \in AudioChunk
  BY <1>1 DEF RingByte
<1>8. front = Bytes(q[1][1])
  BY <1>1, <1>6, <1>7, BytesType, SeqEqual
<1> QED
  BY <1>5, <1>7, <1>8 DEF r, front, n

(* The size_t comparison of writePCM: only a full ring has no room.        *)
LEMMA RoomCheck ==
  ASSUME Len(ring) \in Nat, Len(ring) <= RingBytes
  PROVE  NoRoom <=> Len(ring) = RingBytes
<1> DEFINE k == RingBytes - Len(ring)
<1>1. /\ ChunkBytes \in Nat \ {0} /\ SizeValues \in Nat
      /\ RingBytes \in Nat /\ ChunkBytes <= RingBytes /\ SizeValues > 2 * RingBytes
  BY Sizes
<1>2. k \in Nat /\ Len(ring) - RingBytes = -k /\ SizeValues \in Nat \ {0} /\ k < SizeValues
  BY <1>1
<1> HIDE DEF k
<1>3. CASE k = 0
  <2>1. 0 % SizeValues = 0
    BY <1>2, ModSmall
  <2>2. Len(ring) - RingBytes = 0 /\ Len(ring) = RingBytes
    BY <1>1, <1>2, <1>3 DEF k
  <2> QED
    BY <1>1, <2>1, <2>2 DEF NoRoom
<1>4. CASE k # 0
  <2>1. (-k) % SizeValues = SizeValues - k
    BY <1>2, <1>4, ModNegative
  <2>2. SizeValues - k >= ChunkBytes /\ Len(ring) # RingBytes
    BY <1>1, <1>2, <1>4 DEF k
  <2>3. (Len(ring) - RingBytes) % SizeValues = SizeValues - k
    BY <1>2, <2>1
  <2>4. ~NoRoom
    BY <1>1, <1>2, <2>2, <2>3 DEF NoRoom
  <2> QED
    BY <2>2, <2>4
<1> QED
  BY <1>3, <1>4

(***************************************************************************)
(* The inductive invariant, one lemma per operation.                       *)
(***************************************************************************)
LEMMA InitAudio == Init => AudioInv
<1> SUFFICES ASSUME Init PROVE AudioInv
  OBVIOUS
<1>1. ring = <<>> /\ Len(ring) = 0 /\ ring \in Seq(AudioChunk \X (1..ChunkBytes))
  BY DEF Init
<1>2. ZeroChunk \in AudioChunk
  <2>1. <<>> \in [1..0 -> Sample] /\ 0 \in 0..PCM_CHUNK_SIZE
    BY Sizes
  <2> QED
    BY <2>1 DEF ZeroChunk, AudioChunk, Pcm
<1>3. TypeOK
  BY <1>1, <1>2 DEF Init, TypeOK
<1>4. WholeChunks /\ Len(ring) <= RingBytes
  BY <1>1, Sizes, ModSmall DEF WholeChunks
<1> QED
  BY <1>3, <1>4 DEF AudioInv, BufferInv

(* PCM data as sequences.                                                  *)
LEMMA PcmIsSeq ==
  /\ \A p \in Pcm : p \in Seq(Sample) /\ Len(p) \in 0..PCM_CHUNK_SIZE
  /\ \A p \in Seq(Sample) : Len(p) <= PCM_CHUNK_SIZE => p \in Pcm
<1>1. ASSUME NEW p \in Pcm
      PROVE  p \in Seq(Sample) /\ Len(p) \in 0..PCM_CHUNK_SIZE
  <2>1. PICK n \in 0..PCM_CHUNK_SIZE : p \in [1..n -> Sample]
    BY DEF Pcm
  <2>2. n \in Nat
    BY Sizes
  <2>3. p \in Seq(Sample) /\ Len(p) = n
    BY <2>1, <2>2
  <2> QED
    BY <2>3
<1>2. ASSUME NEW p \in Seq(Sample), Len(p) <= PCM_CHUNK_SIZE
      PROVE  p \in Pcm
  <2>1. p \in [1..Len(p) -> Sample] /\ Len(p) \in 0..PCM_CHUNK_SIZE
    BY <1>2, Sizes
  <2> QED
    BY <2>1 DEF Pcm
<1> QED
  BY <1>1, <1>2

LEMMA NoPcm == <<>> \in Pcm
<1>1. <<>> \in Seq(Sample) /\ Len(<<>>) = 0 /\ 0 <= PCM_CHUNK_SIZE
  BY Sizes
<1> QED
  BY <1>1, PcmIsSeq

LEMMA DataIsSeq ==
  ASSUME NEW data \in Data
  PROVE  data \in Seq(Sample) /\ Len(data) \in 0..MaxWrite
<1>1. PICK n \in 0..MaxWrite : data \in [1..n -> Sample]
  BY DEF Data
<1>2. n \in Nat
  BY Sizes
<1>3. data \in Seq(Sample) /\ Len(data) = n
  BY <1>1, <1>2
<1> QED
  BY <1>3

LEMMA SmallerIsBetween ==
  ASSUME NEW a \in Nat, NEW b \in Nat
  PROVE  Smaller(a, b) \in 0..a /\ Smaller(a, b) <= b
BY DEF Smaller

(* The samples one call takes into the chunk it has open.                  *)
LEMMA WriteFits ==
  ASSUME TypeOK, NEW hash \in Track, NEW data \in Data,
         NEW n, n = Smaller(Len(data), PCM_CHUNK_SIZE - Len(OpenChunk(hash).pcm))
  PROVE  /\ OpenChunk(hash) \in AudioChunk
         /\ OpenChunk(hash).trackHash = hash
         /\ n \in 0..Len(data)
         /\ SubSeq(data, 1, n) \in Seq(Sample)
         /\ Len(SubSeq(data, 1, n)) = n
         /\ [OpenChunk(hash) EXCEPT !.pcm = @ \o SubSeq(data, 1, n)] \in AudioChunk
<1> DEFINE chunk == OpenChunk(hash)
           taken == SubSeq(data, 1, n)
<1>1. chunk \in AudioChunk /\ chunk.trackHash = hash
  <2>1. CASE hasChunk /\ ~MustFlush(hash)
    BY <2>1 DEF OpenChunk, MustFlush, TypeOK
  <2>2. CASE ~(hasChunk /\ ~MustFlush(hash))
    <3>1. <<>> \in Pcm
      BY NoPcm
    <3>2. chunk = [trackHash |-> hash, pcm |-> <<>>]
      BY <2>2 DEF OpenChunk
    <3> QED
      BY <3>1, <3>2 DEF AudioChunk
  <2> QED
    BY <2>1, <2>2
<1>2. chunk.pcm \in Seq(Sample) /\ Len(chunk.pcm) \in 0..PCM_CHUNK_SIZE
  BY <1>1, PcmIsSeq DEF AudioChunk
<1>3. data \in Seq(Sample) /\ Len(data) \in Nat
  BY DataIsSeq, Sizes
<1>0. n = Smaller(Len(data), PCM_CHUNK_SIZE - Len(chunk.pcm))
  OBVIOUS
<1> HIDE DEF chunk
<1>4. n \in 0..Len(data) /\ Len(chunk.pcm) + n <= PCM_CHUNK_SIZE
  <2>1. PCM_CHUNK_SIZE - Len(chunk.pcm) \in Nat
    BY <1>2, Sizes
  <2>2. n \in 0..Len(data) /\ n <= PCM_CHUNK_SIZE - Len(chunk.pcm)
    BY <1>0, <1>3, <2>1, SmallerIsBetween
  <2> QED
    BY <1>2, <1>3, <2>2, Sizes
<1>5. taken \in Seq(Sample) /\ Len(taken) = n
  BY <1>3, <1>4
<1> HIDE DEF taken
<1>6. chunk.pcm \o taken \in Pcm
  <2>1. chunk.pcm \o taken \in Seq(Sample) /\ Len(chunk.pcm \o taken) = Len(chunk.pcm) + n
    BY <1>2, <1>4, <1>5
  <2> QED
    BY <1>4, <2>1, PcmIsSeq
<1>7. [chunk EXCEPT !.pcm = @ \o taken] \in AudioChunk
  BY <1>1, <1>6 DEF AudioChunk
<1> QED
  BY <1>1, <1>4, <1>5, <1>7 DEF chunk, taken

(* A write that has to flush and goes on finds room for the whole chunk.   *)
LEMMA FlushFits ==
  ASSUME AudioInv, ~NoRoom
  PROVE  /\ Accepted(ring, Bytes(currentChunk), RingBytes) = Bytes(currentChunk)
         /\ Len(ring) + ChunkBytes <= RingBytes
<1>1. /\ Len(ring) \in Nat /\ Len(ring) % ChunkBytes = 0 /\ Len(ring) <= RingBytes
      /\ currentChunk \in AudioChunk
  BY DEF AudioInv, BufferInv, TypeOK, WholeChunks
<1>2. Len(ring) < RingBytes
  BY <1>1, RoomCheck, Sizes
<1>3. Len(ring) + ChunkBytes <= RingBytes
  BY <1>1, <1>2, Sizes, ModGap
<1> DEFINE b == Bytes(currentChunk)
<1>4. b \in Seq(RingByte) /\ Len(b) = ChunkBytes
  BY <1>1, BytesType
<1> HIDE DEF b
<1>5. Smaller(Len(b), RingBytes - Len(ring)) = Len(b)
  BY <1>1, <1>3, <1>4, Sizes DEF Smaller
<1>6. SubSeq(b, 1, Len(b)) = b
  BY <1>4
<1> QED
  BY <1>3, <1>5, <1>6 DEF Accepted, b

LEMMA WriteKeeps ==
  ASSUME AudioInv, NEW hash \in Track, NEW data \in Data, WriteAccepted(data, hash)
  PROVE  AudioInv'
<1>1. /\ ring \in Seq(RingByte) /\ IsWhole(ring) /\ Len(ring) <= RingBytes
      /\ currentChunk \in AudioChunk /\ lastReadChunk \in AudioChunk
  BY WholeChunksIsWhole DEF AudioInv, BufferInv, TypeOK, RingByte
<1>2. ring' \in Seq(RingByte) /\ IsWhole(ring') /\ Len(ring') <= RingBytes
  <2>1. CASE MustFlush(hash)
    <3> DEFINE b == Bytes(currentChunk)
    <3>1. ring' = ring \o b /\ Len(ring) + ChunkBytes <= RingBytes
      BY <2>1, FlushFits DEF WriteAccepted
    <3>2. b \in Seq(RingByte) /\ Len(b) = ChunkBytes
      BY <1>1, BytesType
    <3>3. IsWhole(ring \o b)
      BY <1>1, WholeAfterFlush
    <3> HIDE DEF b
    <3>4. ring \o b \in Seq(RingByte) /\ Len(ring \o b) = Len(ring) + ChunkBytes
      BY <1>1, <3>2
    <3> QED
      BY <3>1, <3>3, <3>4
  <2>2. CASE ~MustFlush(hash)
    BY <1>1, <2>2 DEF WriteAccepted
  <2> QED
    BY <2>1, <2>2
<1>3. currentChunk' \in AudioChunk
  BY WriteFits DEF WriteAccepted, AudioInv, BufferInv
<1>4. hasChunk' = TRUE /\ lastReadChunk' = lastReadChunk
  BY DEF WriteAccepted
<1>5. WholeChunks'
  BY <1>2 DEF WholeChunks, IsWhole, Part
<1> QED
  BY <1>1, <1>2, <1>3, <1>4, <1>5 DEF AudioInv, BufferInv, TypeOK, RingByte

LEMMA ReadKeeps ==
  ASSUME AudioInv, ReadOldest
  PROVE  /\ AudioInv'
         /\ lastReadChunk' = ring[1][1]
         /\ ring' = SubSeq(ring, ChunkBytes + 1, Len(ring))
<1>1. /\ ring \in Seq(RingByte) /\ IsWhole(ring) /\ Len(ring) <= RingBytes
      /\ Len(ring) >= ChunkBytes
  BY WholeChunksIsWhole DEF AudioInv, BufferInv, TypeOK, RingByte, ReadOldest
<1>2. /\ Oldest(ring, ChunkBytes) = SubSeq(ring, 1, ChunkBytes)
      /\ ring' = SubSeq(ring, ChunkBytes + 1, Len(ring))
  BY <1>1, Sizes DEF Oldest, AfterOldest, Smaller, ReadOldest
<1>3. /\ IsWhole(ring')
      /\ Oldest(ring, ChunkBytes) = Bytes(ring[1][1])
      /\ ring[1][1] \in AudioChunk
  BY <1>1, <1>2, WholeAfterTake
<1>4. ring' \in Seq(RingByte) /\ Len(ring') <= RingBytes
  BY <1>1, <1>2, Sizes
<1>5. lastReadChunk' = ring[1][1]
  <2>1. Bytes(ring[1][1])[1][1] = ring[1][1]
    BY <1>3, BytesType, Sizes
  <2> QED
    BY <1>3, <2>1 DEF ReadOldest, FromBytes
<1>6. WholeChunks'
  BY <1>3 DEF WholeChunks, IsWhole, Part
<1>7. UNCHANGED <<currentChunk, hasChunk>>
  BY DEF ReadOldest
<1> QED
  BY <1>2, <1>3, <1>4, <1>5, <1>6, <1>7 DEF AudioInv, BufferInv, TypeOK, RingByte

LEMMA EmptyingKeeps ==
  ASSUME AudioInv, ring' = <<>>, hasChunk' \in BOOLEAN, UNCHANGED <<currentChunk, lastReadChunk>>
  PROVE  AudioInv'
<1>1. /\ ring' \in Seq(AudioChunk \X (1..ChunkBytes)) /\ Len(ring') = 0 /\ DOMAIN ring' = {}
  OBVIOUS
<1>2. WholeChunks' /\ Len(ring') <= RingBytes
  BY <1>1, Sizes, ModSmall DEF WholeChunks
<1> QED
  BY <1>1, <1>2 DEF AudioInv, BufferInv, TypeOK

LEMMA StepAudio == AudioInv /\ [Next]_bufferVars => AudioInv'
<1> SUFFICES ASSUME AudioInv, [Next]_bufferVars PROVE AudioInv'
  OBVIOUS
<1>1. ASSUME NEW hash \in Track, NEW data \in Data, WritePCM(data, hash)
      PROVE  AudioInv'
  <2>1. CASE WriteRefused(hash)
    BY <2>1 DEF WriteRefused, AudioInv, BufferInv, TypeOK, WholeChunks
  <2> QED
    BY <1>1, <2>1, WriteKeeps DEF WritePCM
<1>2. CASE ReadNull
  <2>1. <<>> \in Pcm
    BY NoPcm
  <2>2. lastReadChunk' \in AudioChunk
    BY <1>2, <2>1 DEF ReadNull, AudioInv, BufferInv, TypeOK, AudioChunk
  <2> QED
    BY <1>2, <2>2 DEF ReadNull, AudioInv, BufferInv, TypeOK, WholeChunks
<1>3. CASE ReadOldest
  BY <1>3, ReadKeeps
<1>4. CASE ClearBuffer
  BY <1>4, EmptyingKeeps DEF ClearBuffer
<1>5. CASE EmptyCompletely
  BY <1>5, EmptyingKeeps DEF EmptyCompletely, AudioInv, BufferInv, TypeOK
<1>6. CASE UNCHANGED bufferVars
  BY <1>6 DEF bufferVars, AudioInv, BufferInv, TypeOK, WholeChunks
<1> QED
  BY <1>1, <1>2, <1>3, <1>4, <1>5, <1>6 DEF Next, ReadChunk

(* writePCM never cuts a chunk short on its way into the ring, and         *)
(* readChunk never hands out the bytes of two chunks as one, for every     *)
(* size of chunk and ring and every sequence of calls.                     *)
THEOREM ChunksStayWhole == Spec => []BufferInv
<1>1. Init => AudioInv
  BY InitAudio
<1>2. AudioInv /\ [Next]_bufferVars => AudioInv'
  BY StepAudio
<1>3. AudioInv => BufferInv
  BY DEF AudioInv
<1> QED
  BY <1>1, <1>2, <1>3, PTL DEF Spec

(***************************************************************************)
(* What the ring and the open chunk hold, as samples.                      *)
(***************************************************************************)
ChunksIn(q) == [k \in 1..(Len(q) \div ChunkBytes) |-> q[(k - 1) * ChunkBytes + 1][1]]
Open == IF hasChunk THEN <<currentChunk>> ELSE <<>>
LabelledAll(chunks) == [i \in DOMAIN chunks |-> Labelled(chunks[i])]
Samples(chunks) == FlattenSeq(LabelledAll(chunks))
LabelledSample == (Track \union {"none", "torn"}) \X Sample

LEMMA HeldIsSamples == Held = Samples(ChunksIn(ring) \o Open)
BY DEF Held, Samples, LabelledAll, ChunksIn, RingChunks, Open

(* Where the chunks of a sequence of whole ones begin.                     *)
LEMMA ChunkStarts ==
  ASSUME NEW q \in Seq(RingByte), IsWhole(q), NEW n, n = Len(q) \div ChunkBytes
  PROVE  /\ n \in Nat /\ Len(q) = n * ChunkBytes
         /\ \A k \in 1..n : (k - 1) * ChunkBytes \in Nat
                           /\ (k - 1) * ChunkBytes + ChunkBytes <= Len(q)
<1>1. Len(q) \in Nat /\ Len(q) % ChunkBytes = 0 /\ ChunkBytes \in Nat \ {0}
  BY Sizes DEF IsWhole
<1>2. n \in Nat /\ Len(q) = n * ChunkBytes
  BY <1>1, WholeQuotient
<1>3. ASSUME NEW k \in 1..n
      PROVE  /\ (k - 1) * ChunkBytes \in Nat
             /\ (k - 1) * ChunkBytes + ChunkBytes <= n * ChunkBytes
  <2>1. k - 1 \in Nat /\ k - 1 < n /\ n \in Nat /\ ChunkBytes \in Nat
    BY <1>1, <1>2
  <2> QED
    BY <2>1, ProductOrder
<1> QED
  BY <1>2, <1>3

LEMMA ChunksType ==
  ASSUME NEW q \in Seq(RingByte), IsWhole(q)
  PROVE  /\ ChunksIn(q) \in Seq(AudioChunk)
         /\ Len(ChunksIn(q)) = Len(q) \div ChunkBytes
<1> DEFINE n == Len(q) \div ChunkBytes
<1>1. n \in Nat /\ Len(q) \in Nat /\ ChunkBytes \in Nat \ {0}
  BY ChunkStarts, Sizes
<1>2. ASSUME NEW k \in 1..n PROVE q[(k - 1) * ChunkBytes + 1][1] \in AudioChunk
  <2> DEFINE j == (k - 1) * ChunkBytes
  <2>1. j \in Nat /\ j + ChunkBytes <= Len(q)
    BY ChunkStarts
  <2> HIDE DEF j
  <2>2. j + 1 \in 1..Len(q)
    BY <1>1, <2>1
  <2>3. q[j + 1] \in RingByte
    BY <2>2
  <2>4. q[j + 1][1] \in AudioChunk
    BY <2>3 DEF RingByte
  <2> QED
    BY <2>4 DEF j
<1> HIDE DEF n
<1>3. ChunksIn(q) = [k \in 1..n |-> q[(k - 1) * ChunkBytes + 1][1]]
  BY DEF ChunksIn, n
<1>4. ChunksIn(q) \in Seq(AudioChunk) /\ Len(ChunksIn(q)) = n
  BY <1>1, <1>2, <1>3
<1> QED
  BY <1>4 DEF n

LEMMA ChunksAfterFlush ==
  ASSUME NEW q \in Seq(RingByte), IsWhole(q), NEW chunk \in AudioChunk
  PROVE  ChunksIn(q \o Bytes(chunk)) = ChunksIn(q) \o <<chunk>>
<1> DEFINE n == Len(q) \div ChunkBytes
           b == Bytes(chunk)
           r == q \o b
           both == ChunksIn(q) \o <<chunk>>
<1>1. /\ b \in Seq(RingByte) /\ Len(b) = ChunkBytes
      /\ b[1] = <<chunk, 1>> /\ ChunkBytes \in Nat \ {0}
  BY BytesType, Sizes
<1>2. /\ n \in Nat /\ Len(q) = n * ChunkBytes /\ Len(q) \in Nat
      /\ \A k \in 1..n : (k - 1) * ChunkBytes \in Nat
                        /\ (k - 1) * ChunkBytes + ChunkBytes <= Len(q)
  BY ChunkStarts
<1>3. ChunksIn(q) \in Seq(AudioChunk) /\ Len(ChunksIn(q)) = n
  BY ChunksType
<1>4. IsWhole(r)
  BY WholeAfterFlush
<1> HIDE DEF b
<1>5. /\ r \in Seq(RingByte) /\ Len(r) = Len(q) + ChunkBytes
      /\ \A i \in 1..Len(q) : r[i] = q[i]
      /\ r[Len(q) + 1] = <<chunk, 1>>
  BY <1>1, <1>2
<1> HIDE DEF r, n
<1>6. Len(r) \div ChunkBytes = n + 1
  BY <1>1, <1>2, <1>5, ModStep DEF n
<1>7. ChunksIn(r) \in Seq(AudioChunk) /\ Len(ChunksIn(r)) = n + 1
  BY <1>4, <1>5, <1>6, ChunksType
<1>8. both \in Seq(AudioChunk) /\ Len(both) = n + 1
      /\ (\A k \in 1..n : both[k] = ChunksIn(q)[k]) /\ both[n + 1] = chunk
  BY <1>2, <1>3
<1> HIDE DEF both
<1>9. ASSUME NEW k \in 1..(n + 1) PROVE ChunksIn(r)[k] = both[k]
  <2> DEFINE j == (k - 1) * ChunkBytes
  <2>1. ChunksIn(r)[k] = r[j + 1][1]
    BY <1>6 DEF ChunksIn
  <2>2. CASE k \in 1..n
    <3>1. ChunksIn(q)[k] = q[j + 1][1]
      BY <2>2 DEF ChunksIn, n
    <3>2. j \in Nat /\ j + ChunkBytes <= Len(q)
      BY <1>2, <2>2
    <3> HIDE DEF j
    <3>3. j + 1 \in 1..Len(q)
      BY <1>1, <1>2, <3>2
    <3> QED
      BY <1>5, <1>8, <2>1, <2>2, <3>1, <3>3
  <2>3. CASE k = n + 1
    <3>1. j = Len(q)
      BY <1>2, <2>3
    <3> HIDE DEF j
    <3> QED
      BY <1>5, <1>8, <2>1, <2>3, <3>1
  <2> QED
    BY <1>2, <2>2, <2>3
<1>10. ChunksIn(r) = both
  BY <1>7, <1>8, <1>9, SeqEqual
<1> QED
  BY <1>10 DEF r, b, both

LEMMA ChunksAfterTake ==
  ASSUME NEW q \in Seq(RingByte), IsWhole(q), Len(q) >= ChunkBytes
  PROVE  ChunksIn(q) = <<q[1][1]>> \o ChunksIn(SubSeq(q, ChunkBytes + 1, Len(q)))
<1> DEFINE r == SubSeq(q, ChunkBytes + 1, Len(q))
           n == Len(r) \div ChunkBytes
           both == <<q[1][1]>> \o ChunksIn(r)
<1>1. IsWhole(r) /\ q[1][1] \in AudioChunk
  BY WholeAfterTake
<1>2. /\ r \in Seq(RingByte) /\ Len(r) \in Nat /\ Len(q) = Len(r) + ChunkBytes
      /\ \A i \in 1..Len(r) : r[i] = q[i + ChunkBytes]
      /\ ChunkBytes \in Nat \ {0}
  BY Sizes
<1> HIDE DEF r
<1>3. /\ n \in Nat /\ Len(r) = n * ChunkBytes
      /\ \A k \in 1..n : (k - 1) * ChunkBytes \in Nat
                        /\ (k - 1) * ChunkBytes + ChunkBytes <= Len(r)
  BY <1>1, <1>2, ChunkStarts
<1>4. ChunksIn(r) \in Seq(AudioChunk) /\ Len(ChunksIn(r)) = n
  BY <1>1, <1>2, ChunksType
<1> HIDE DEF n
<1>5. Len(q) \div ChunkBytes = n + 1
  BY <1>2, ModStep DEF n
<1>6. ChunksIn(q) \in Seq(AudioChunk) /\ Len(ChunksIn(q)) = n + 1
  BY <1>5, ChunksType
<1>7. /\ both \in Seq(AudioChunk) /\ Len(both) = n + 1
      /\ both[1] = q[1][1]
      /\ \A k \in 1..n : both[k + 1] = ChunksIn(r)[k]
  BY <1>1, <1>3, <1>4
<1> HIDE DEF both
<1>8. ASSUME NEW k \in 1..(n + 1) PROVE ChunksIn(q)[k] = both[k]
  <2> DEFINE j == (k - 1) * ChunkBytes
  <2>1. ChunksIn(q)[k] = q[j + 1][1]
    BY <1>5 DEF ChunksIn
  <2>2. CASE k = 1
    <3>1. j = 0
      BY <1>2, <2>2
    <3> HIDE DEF j
    <3> QED
      BY <1>7, <2>1, <2>2, <3>1
  <2>3. CASE k # 1
    <3> DEFINE m == k - 1
               h == (m - 1) * ChunkBytes
    <3>1. m \in 1..n /\ k = m + 1
      BY <1>3, <2>3
    <3>2. j = h + ChunkBytes
      BY <1>2, <3>1
    <3>3. ChunksIn(r)[m] = r[h + 1][1]
      BY <3>1 DEF ChunksIn, n
    <3>4. h \in Nat /\ h + ChunkBytes <= Len(r)
      BY <1>3, <3>1
    <3>5. both[k] = ChunksIn(r)[m]
      BY <1>7, <3>1
    <3> HIDE DEF j, h, m
    <3>6. h + 1 \in 1..Len(r) /\ (h + 1) + ChunkBytes = j + 1
      BY <1>2, <3>2, <3>4
    <3>7. r[h + 1] = q[j + 1]
      BY <1>2, <3>6
    <3> QED
      BY <2>1, <3>3, <3>5, <3>7
  <2> QED
    BY <2>2, <2>3
<1>9. ChunksIn(q) = both
  BY <1>6, <1>7, <1>8, SeqEqual
<1> QED
  BY <1>9 DEF r, both

(* The samples of chunks.                                                  *)
LEMMA LabelledType ==
  ASSUME NEW chunk \in AudioChunk
  PROVE  /\ Labelled(chunk) \in Seq(LabelledSample)
         /\ Len(Labelled(chunk)) = Len(chunk.pcm)
         /\ Len(chunk.pcm) \in 0..PCM_CHUNK_SIZE
         /\ \A i \in 1..Len(chunk.pcm) :
              Labelled(chunk)[i] = <<chunk.trackHash, chunk.pcm[i]>>
<1>1. /\ chunk.pcm \in Seq(Sample) /\ Len(chunk.pcm) \in 0..PCM_CHUNK_SIZE
      /\ chunk.trackHash \in Track \union {"none", "torn"}
  BY PcmIsSeq DEF AudioChunk
<1> QED
  BY <1>1, Sizes DEF Labelled, LabelledSample

LEMMA LabelledAllType ==
  ASSUME NEW chunks \in Seq(AudioChunk)
  PROVE  /\ LabelledAll(chunks) \in Seq(Seq(LabelledSample))
         /\ Len(LabelledAll(chunks)) = Len(chunks)
         /\ \A i \in 1..Len(chunks) : LabelledAll(chunks)[i] = Labelled(chunks[i])
<1>1. \A i \in 1..Len(chunks) : Labelled(chunks[i]) \in Seq(LabelledSample)
  BY LabelledType
<1> QED
  BY <1>1 DEF LabelledAll

LEMMA SamplesType ==
  ASSUME NEW chunks \in Seq(AudioChunk)
  PROVE  Samples(chunks) \in Seq(LabelledSample)
BY LabelledAllType, FlattenType DEF Samples

LEMMA SamplesConcat ==
  ASSUME NEW a \in Seq(AudioChunk), NEW b \in Seq(AudioChunk)
  PROVE  Samples(a \o b) = Samples(a) \o Samples(b)
<1>1. LabelledAll(a \o b) = LabelledAll(a) \o LabelledAll(b)
  <2> DEFINE c == a \o b
             la == LabelledAll(a)
             lb == LabelledAll(b)
             lc == LabelledAll(c)
  <2>1. /\ c \in Seq(AudioChunk) /\ Len(a) \in Nat /\ Len(b) \in Nat
        /\ Len(c) = Len(a) + Len(b)
        /\ \A i \in 1..Len(a) : c[i] = a[i]
        /\ \A i \in 1..Len(b) : c[Len(a) + i] = b[i]
    BY ConcatParts
  <2> HIDE DEF c
  <2>2. /\ la \in Seq(Seq(LabelledSample)) /\ Len(la) = Len(a)
        /\ \A i \in 1..Len(a) : la[i] = Labelled(a[i])
    BY LabelledAllType
  <2>3. /\ lb \in Seq(Seq(LabelledSample)) /\ Len(lb) = Len(b)
        /\ \A i \in 1..Len(b) : lb[i] = Labelled(b[i])
    BY LabelledAllType
  <2>4. /\ lc \in Seq(Seq(LabelledSample)) /\ Len(lc) = Len(c)
        /\ \A i \in 1..Len(c) : lc[i] = Labelled(c[i])
    BY <2>1, LabelledAllType
  <2> HIDE DEF la, lb, lc
  <2>5. ASSUME NEW i \in 1..Len(la) PROVE lc[i] = la[i]
    <3>1. i \in 1..Len(a) /\ i \in 1..Len(c)
      BY <2>1, <2>2
    <3>2. c[i] = a[i] /\ la[i] = Labelled(a[i]) /\ lc[i] = Labelled(c[i])
      BY <2>1, <2>2, <2>4, <3>1
    <3> QED
      BY ONLY <3>2
  <2>6. ASSUME NEW i \in 1..Len(lb) PROVE lc[Len(la) + i] = lb[i]
    <3>1. i \in 1..Len(b) /\ Len(a) + i \in 1..Len(c) /\ Len(la) = Len(a)
      BY <2>1, <2>2, <2>3
    <3>2. c[Len(a) + i] = b[i] /\ lb[i] = Labelled(b[i])
      BY <2>1, <2>3, <3>1
    <3>3. lc[Len(a) + i] = Labelled(c[Len(a) + i])
      BY <2>4, <3>1
    <3> QED
      BY ONLY <3>1, <3>2, <3>3
  <2>7. lc = la \o lb
    <3>1. /\ la \in Seq(Seq(LabelledSample)) /\ lb \in Seq(Seq(LabelledSample))
          /\ lc \in Seq(Seq(LabelledSample)) /\ Len(lc) = Len(la) + Len(lb)
      BY <2>1, <2>2, <2>3, <2>4
    <3> QED
      BY <2>5, <2>6, <3>1, ConcatIs
  <2> QED
    BY <2>7 DEF la, lb, lc, c
<1> QED
  BY <1>1, LabelledAllType, FlattenConcat DEF Samples

LEMMA SamplesOne ==
  ASSUME NEW chunk \in AudioChunk
  PROVE  Samples(<<chunk>>) = Labelled(chunk)
<1>1. LabelledAll(<<chunk>>) = <<Labelled(chunk)>>
  BY DEF LabelledAll
<1> QED
  BY <1>1, LabelledType, FlattenOne DEF Samples

LEMMA SamplesNone == Samples(<<>>) = <<>>
<1>1. LabelledAll(<<>>) = <<>>
  BY DEF LabelledAll
<1> QED
  BY <1>1, FlattenEmpty DEF Samples

(***************************************************************************)
(* The refinement.                                                         *)
(***************************************************************************)
LEMMA OpenType == TypeOK => Open \in Seq(AudioChunk)
BY DEF Open, TypeOK

(* What is held is what the ring holds and then the open chunk.            *)
LEMMA HeldParts ==
  ASSUME AudioInv
  PROVE  /\ Held = Samples(ChunksIn(ring)) \o Samples(Open)
         /\ ring \in Seq(RingByte) /\ IsWhole(ring)
         /\ ChunksIn(ring) \in Seq(AudioChunk)
         /\ Samples(ChunksIn(ring)) \in Seq(LabelledSample)
         /\ Samples(Open) \in Seq(LabelledSample)
<1>1. ring \in Seq(RingByte) /\ IsWhole(ring) /\ Open \in Seq(AudioChunk)
  BY OpenType, WholeChunksIsWhole DEF AudioInv, BufferInv, TypeOK, RingByte
<1>2. ChunksIn(ring) \in Seq(AudioChunk)
  BY <1>1, ChunksType
<1> QED
  BY <1>1, <1>2, HeldIsSamples, SamplesConcat, SamplesType

LEMMA NextHeldParts ==
  AudioInv' => Held' = Samples(ChunksIn(ring')) \o Samples(Open')
<1>1. AudioInv => Held = Samples(ChunksIn(ring)) \o Samples(Open)
  BY HeldParts
<1>2. (AudioInv => Held = Samples(ChunksIn(ring)) \o Samples(Open))'
  BY <1>1, PTL
<1> QED
  BY <1>2 DEF Samples, LabelledAll, Labelled, ChunksIn

(* The open chunk alone: at most a chunk's samples, of one track.          *)
LEMMA OpenSamples ==
  ASSUME TypeOK
  PROVE  /\ Samples(Open) \in Seq(LabelledSample)
         /\ Len(Samples(Open)) \in 0..PCM_CHUNK_SIZE
         /\ Channel!OneTrack(Samples(Open))
<1>1. CASE hasChunk
  <2>1. Samples(Open) = Labelled(currentChunk) /\ currentChunk \in AudioChunk
    BY <1>1, SamplesOne DEF Open, TypeOK
  <2> QED
    BY <2>1, LabelledType DEF Channel!OneTrack
<1>2. CASE ~hasChunk
  <2>1. Samples(Open) = <<>>
    BY <1>2, SamplesNone DEF Open
  <2> QED
    BY <2>1, Sizes DEF Channel!OneTrack
<1> QED
  BY <1>1, <1>2

(* One call's samples, appended to a chunk, are appended to its samples.   *)
LEMMA LabelledGrows ==
  ASSUME NEW chunk \in AudioChunk, NEW taken \in Seq(Sample),
         NEW grown \in AudioChunk, grown = [chunk EXCEPT !.pcm = @ \o taken]
  PROVE  Labelled(grown) = Labelled(chunk) \o Channel!Labelled(chunk.trackHash, taken)
<1> DEFINE hash == chunk.trackHash
           more == Channel!Labelled(hash, taken)
           p == chunk.pcm
           g == grown.pcm
           old == Labelled(chunk)
           new == Labelled(grown)
<1>1. p \in Seq(Sample) /\ hash \in Track \union {"none", "torn"}
  BY PcmIsSeq DEF AudioChunk
<1>2. g = p \o taken /\ grown.trackHash = hash
  BY DEF AudioChunk
<1>3. /\ more \in Seq(LabelledSample) /\ Len(more) = Len(taken)
      /\ \A i \in 1..Len(taken) : more[i] = <<hash, taken[i]>>
  BY <1>1 DEF Channel!Labelled, LabelledSample
<1>4. /\ old \in Seq(LabelledSample) /\ Len(old) = Len(p)
      /\ \A i \in 1..Len(p) : old[i] = <<hash, p[i]>>
  BY LabelledType
<1>5. /\ new \in Seq(LabelledSample) /\ Len(new) = Len(g)
      /\ \A i \in 1..Len(g) : new[i] = <<hash, g[i]>>
  BY <1>2, LabelledType
<1> HIDE DEF hash, more, p, g, old, new
<1>6. /\ Len(p) \in Nat /\ Len(taken) \in Nat /\ Len(g) = Len(p) + Len(taken)
      /\ \A i \in 1..Len(p) : g[i] = p[i]
      /\ \A i \in 1..Len(taken) : g[Len(p) + i] = taken[i]
  BY <1>1, <1>2, ConcatParts
<1>7. Len(new) = Len(old) + Len(more)
  BY <1>3, <1>4, <1>5, <1>6
<1>8. \A i \in 1..Len(old) : new[i] = old[i]
  <2> TAKE i \in 1..Len(old)
  <2>1. i \in 1..Len(p) /\ i \in 1..Len(g)
    BY <1>4, <1>6
  <2> QED
    BY <1>4, <1>5, <1>6, <2>1
<1>9. \A i \in 1..Len(more) : new[Len(old) + i] = more[i]
  <2> TAKE i \in 1..Len(more)
  <2>1. i \in 1..Len(taken) /\ Len(p) + i \in 1..Len(g) /\ Len(old) + i = Len(p) + i
    BY <1>3, <1>4, <1>6
  <2> QED
    BY <1>3, <1>5, <1>6, <2>1
<1>10. new = old \o more
  BY <1>3, <1>4, <1>5, <1>7, <1>8, <1>9, ConcatIs
<1> QED
  BY <1>10 DEF more, hash, old, new

LEMMA EmptyLabelled ==
  ASSUME NEW chunk, chunk.pcm = <<>>
  PROVE  Labelled(chunk) = <<>>
BY DEF Labelled

LEMMA InitRefines == Init => Channel!ChannelInit
<1> SUFFICES ASSUME Init PROVE Channel!ChannelInit
  OBVIOUS
<1>1. ring = <<>> /\ hasChunk = FALSE /\ result = Done("none")
  BY DEF Init
<1>2. ChunksIn(ring) = <<>>
  <2>1. Len(ring) \div ChunkBytes = 0
    BY <1>1, Sizes
  <2> QED
    BY <2>1 DEF ChunksIn
<1>3. Held = <<>>
  <2>1. <<>> \o <<>> = <<>>
    OBVIOUS
  <2> QED
    BY <1>1, <1>2, <2>1, HeldIsSamples, SamplesNone DEF Open
<1>4. Delivered = Done("none")
  BY <1>1 DEF Delivered, GotChunk, Done
<1> QED
  BY <1>3, <1>4 DEF Channel!ChannelInit, Channel!Done, Done

LEMMA RefusedRefines ==
  ASSUME AudioInv, NEW hash \in Track, NEW data \in Data, WriteRefused(hash)
  PROVE  Channel!ChannelWrite(hash, data)
<1>1. Held' = Held
  BY DEF WriteRefused, Held, RingChunks
<1>2. Delivered' = Wrote(0)
  BY DEF WriteRefused, Delivered, Wrote, GotChunk
<1>3. Held \o Channel!Labelled(hash, SubSeq(data, 1, 0)) = Held
  <2>1. Held \in Seq(LabelledSample)
    <3> DEFINE a == Samples(ChunksIn(ring))
               b == Samples(Open)
    <3>1. Held = a \o b /\ a \in Seq(LabelledSample) /\ b \in Seq(LabelledSample)
      BY HeldParts
    <3> HIDE DEF a, b
    <3> QED
      BY <3>1
  <2>2. SubSeq(data, 1, 0) = <<>>
    BY DataIsSeq
  <2>3. Channel!Labelled(hash, <<>>) = <<>>
    BY DEF Channel!Labelled
  <2>4. Held \o <<>> = Held
    BY <2>1
  <2> QED
    BY <2>2, <2>3, <2>4
<1>4. 0 \in 0..Len(data)
  BY DataIsSeq, Sizes
<1> QED
  BY <1>1, <1>2, <1>3, <1>4 DEF Channel!ChannelWrite, Channel!Count, Wrote

LEMMA AcceptedRefines ==
  ASSUME AudioInv, NEW hash \in Track, NEW data \in Data, WriteAccepted(data, hash)
  PROVE  Channel!ChannelWrite(hash, data)
<1> DEFINE chunk == OpenChunk(hash)
           n == Smaller(Len(data), PCM_CHUNK_SIZE - Len(chunk.pcm))
           taken == SubSeq(data, 1, n)
           before == Samples(ChunksIn(ring))
           new == Channel!Labelled(hash, taken)
<1>1. /\ chunk \in AudioChunk /\ chunk.trackHash = hash
      /\ n \in 0..Len(data) /\ taken \in Seq(Sample)
      /\ currentChunk' = [chunk EXCEPT !.pcm = @ \o taken]
      /\ currentChunk' \in AudioChunk
      /\ hasChunk' = TRUE
      /\ result' = Wrote(n)
  BY WriteFits DEF WriteAccepted, AudioInv, BufferInv
<1>2. /\ Held = before \o Samples(Open)
      /\ ring \in Seq(RingByte) /\ IsWhole(ring)
      /\ ChunksIn(ring) \in Seq(AudioChunk)
      /\ before \in Seq(LabelledSample)
      /\ Samples(Open) \in Seq(LabelledSample)
      /\ currentChunk \in AudioChunk
  BY HeldParts DEF AudioInv, BufferInv, TypeOK
<1>3. Held' = Samples(ChunksIn(ring')) \o Samples(Open')
  BY WriteKeeps, NextHeldParts
<1>4. Delivered' = Wrote(n)
  BY <1>1 DEF Delivered, Wrote, GotChunk
<1> HIDE DEF n, chunk, taken
<1>5. Samples(Open') = Labelled(chunk) \o new
  <2>1. Open' = <<currentChunk'>>
    BY <1>1 DEF Open
  <2>2. Samples(<<currentChunk'>>) = Labelled(currentChunk')
    BY <1>1, SamplesOne
  <2>3. Labelled(currentChunk') = Labelled(chunk) \o Channel!Labelled(chunk.trackHash, taken)
    BY <1>1, LabelledGrows
  <2> QED
    BY <1>1, <2>1, <2>2, <2>3
<1>6. /\ Labelled(chunk) \in Seq(LabelledSample)
      /\ new \in Seq(LabelledSample)
  BY <1>1, LabelledType DEF Channel!Labelled, LabelledSample
<1>7. Samples(ChunksIn(ring')) \in Seq(LabelledSample)
      /\ Samples(ChunksIn(ring')) \o Labelled(chunk) = Held
  <2>1. CASE MustFlush(hash)
    <3>1. ring' = ring \o Bytes(currentChunk)
      BY <2>1, FlushFits DEF WriteAccepted
    <3>2. ChunksIn(ring') = ChunksIn(ring) \o <<currentChunk>>
      BY <1>2, <3>1, ChunksAfterFlush
    <3>3. Samples(ChunksIn(ring')) = before \o Samples(<<currentChunk>>)
      <4>1. <<currentChunk>> \in Seq(AudioChunk)
        BY <1>2
      <4> QED
        BY <1>2, <3>2, <4>1, SamplesConcat
    <3>4. Open = <<currentChunk>> /\ chunk.pcm = <<>>
      BY <2>1 DEF Open, MustFlush, chunk, OpenChunk
    <3>5. Labelled(chunk) = <<>>
      BY <3>4, EmptyLabelled
    <3>6. before \o Samples(Open) \in Seq(LabelledSample)
      BY <1>2
    <3>7. Held \o <<>> = Held
      BY <1>2, <3>6
    <3> QED
      BY <1>2, <3>3, <3>4, <3>5, <3>6, <3>7
  <2>2. CASE ~MustFlush(hash) /\ hasChunk
    <3>1. ring' = ring /\ Open = <<chunk>>
      BY <2>2 DEF WriteAccepted, Open, chunk, OpenChunk
    <3>2. Samples(Open) = Labelled(chunk)
      BY <1>1, <3>1, SamplesOne
    <3> QED
      BY <1>2, <3>1, <3>2
  <2>3. CASE ~hasChunk
    <3>1. ring' = ring /\ Open = <<>> /\ chunk.pcm = <<>>
      BY <2>3 DEF WriteAccepted, MustFlush, Open, chunk, OpenChunk
    <3>2. Samples(Open) = <<>> /\ Labelled(chunk) = <<>>
      BY <3>1, SamplesNone, EmptyLabelled
    <3> QED
      BY <1>2, <3>1, <3>2
  <2> QED
    BY <2>1, <2>2, <2>3
<1>8. Held' = Held \o new
  <2> DEFINE a == Samples(ChunksIn(ring'))
             b == Labelled(chunk)
  <2>1. Held' = a \o (b \o new) /\ a \o b = Held
    BY <1>3, <1>5, <1>7
  <2>2. a \in Seq(LabelledSample) /\ b \in Seq(LabelledSample) /\ new \in Seq(LabelledSample)
    BY <1>6, <1>7
  <2> HIDE DEF a, b, new
  <2>3. a \o (b \o new) = (a \o b) \o new
    BY <2>2, ConcatGroups
  <2> QED
    BY <2>1, <2>3
<1>9. Held' = Held \o Channel!Labelled(hash, SubSeq(data, 1, n))
  BY <1>8 DEF taken
<1> QED
  BY <1>1, <1>4, <1>9 DEF Channel!ChannelWrite, Channel!Count, Wrote

LEMMA ReadNullRefines ==
  ASSUME AudioInv, ReadNull
  PROVE  Channel!ChannelReadEmpty
<1>1. Len(ring) \in Nat /\ Len(ring) % ChunkBytes = 0 /\ Len(ring) < ChunkBytes
      /\ ring \in Seq(RingByte) /\ TypeOK
  BY DEF AudioInv, BufferInv, TypeOK, WholeChunks, ReadNull, RingByte
<1>2. Len(ring) = 0
  BY <1>1, Sizes, ModSmall
<1>3. Samples(ChunksIn(ring)) = <<>>
  <2>1. Len(ring) \div ChunkBytes = 0
    BY <1>2, Sizes
  <2>2. ChunksIn(ring) = <<>>
    BY <2>1 DEF ChunksIn
  <2> QED
    BY <2>2, SamplesNone
<1>4. Held = Samples(Open)
  BY <1>3, HeldParts
<1>5. Len(Held) <= PCM_CHUNK_SIZE /\ Channel!OneTrack(Held)
  BY <1>1, <1>4, OpenSamples, Sizes
<1>6. Held' = Held
  BY DEF ReadNull, Held, RingChunks
<1>7. Delivered' = GotNull
  BY DEF ReadNull, Delivered, GotNull, GotChunk
<1> QED
  BY <1>5, <1>6, <1>7 DEF Channel!ChannelReadEmpty, Channel!Empty, GotNull

LEMMA ReadOldestRefines ==
  ASSUME AudioInv, ReadOldest
  PROVE  Channel!ChannelRead
<1> DEFINE first == ring[1][1]
           out == Labelled(first)
           n == Len(first.pcm)
           left == Samples(ChunksIn(ring'))
<1>1. /\ ring \in Seq(RingByte) /\ IsWhole(ring) /\ Len(ring) >= ChunkBytes
      /\ Held = Samples(ChunksIn(ring)) \o Samples(Open)
      /\ Samples(Open) \in Seq(LabelledSample)
  BY HeldParts DEF ReadOldest
<1>2. /\ AudioInv' /\ lastReadChunk' = first
      /\ ring' = SubSeq(ring, ChunkBytes + 1, Len(ring))
      /\ hasChunk' = hasChunk /\ currentChunk' = currentChunk /\ result' = GotChunk
  BY ReadKeeps DEF ReadOldest
<1>3. /\ first \in AudioChunk /\ IsWhole(ring') /\ ring' \in Seq(RingByte)
  BY <1>1, <1>2, WholeAfterTake, Sizes
<1>4. Samples(ChunksIn(ring)) = out \o left /\ left \in Seq(LabelledSample)
  <2>1. ChunksIn(ring) = <<first>> \o ChunksIn(ring')
    BY <1>1, <1>2, ChunksAfterTake
  <2>2. ChunksIn(ring') \in Seq(AudioChunk) /\ <<first>> \in Seq(AudioChunk)
    BY <1>3, ChunksType
  <2> QED
    BY <1>3, <2>1, <2>2, SamplesConcat, SamplesOne, SamplesType
<1>5. Held' = left \o Samples(Open)
  <2>1. Open' = Open
    BY <1>2 DEF Open
  <2> QED
    BY <1>2, <2>1, NextHeldParts
<1>6. /\ out \in Seq(LabelledSample) /\ Len(out) = n /\ n \in 0..PCM_CHUNK_SIZE
      /\ \A i \in 1..n : out[i] = <<first.trackHash, first.pcm[i]>>
  BY <1>3, LabelledType
<1>7. Delivered' = Channel!Handed(out)
  BY <1>2 DEF Delivered, Channel!Handed
<1>8. Channel!OneTrack(out)
  BY <1>6, Sizes DEF Channel!OneTrack
<1>9. n <= Len(Held) /\ SubSeq(Held, 1, n) = out /\ SubSeq(Held, n + 1, Len(Held)) = Held'
  <2> DEFINE rest == left \o Samples(Open)
             open == Samples(Open)
  <2>1. Held = (out \o left) \o open
    BY <1>1, <1>4
  <2> HIDE DEF out, left, n, open
  <2>2. open \in Seq(LabelledSample) /\ left \in Seq(LabelledSample) /\ n \in Nat
    BY <1>1, <1>4, <1>6, Sizes DEF open
  <2>3. Held = out \o (left \o open)
    BY <1>6, <2>1, <2>2
  <2>4. Held' = left \o open /\ left \o open \in Seq(LabelledSample)
    BY <1>5, <2>2 DEF open
  <2> QED
    <3> DEFINE tail == left \o open
    <3>1. out \in Seq(LabelledSample) /\ tail \in Seq(LabelledSample)
          /\ Held = out \o tail /\ n = Len(out) /\ Held' = tail
      BY <1>6, <2>3, <2>4
    <3> HIDE DEF tail
    <3> QED
      BY <3>1, SplitConcat
<1>10. n \in 0..PCM_CHUNK_SIZE
  BY <1>6
<1> HIDE DEF n, out
<1> QED
  BY <1>7, <1>8, <1>9, <1>10 DEF Channel!ChannelRead

LEMMA ClearRefines ==
  ASSUME AudioInv, ClearBuffer
  PROVE  Channel!ChannelClear
<1>1. ring' = <<>> /\ hasChunk' = FALSE /\ AudioInv'
  BY EmptyingKeeps DEF ClearBuffer
<1>2. Samples(ChunksIn(ring')) = <<>>
  <2>1. Len(ring') \div ChunkBytes = 0
    BY <1>1, Sizes
  <2>2. ChunksIn(ring') = <<>>
    BY <2>1 DEF ChunksIn
  <2> QED
    BY <2>2, SamplesNone
<1>3. Samples(Open') = <<>>
  BY <1>1, SamplesNone DEF Open
<1>4. Held' = <<>>
  <2>1. <<>> \o <<>> = <<>>
    OBVIOUS
  <2> QED
    BY <1>1, <1>2, <1>3, <2>1, NextHeldParts
<1>5. Delivered' = Done("clearBuffer")
  BY DEF ClearBuffer, Delivered, Done, GotChunk
<1> QED
  BY <1>4, <1>5 DEF Channel!ChannelClear, Channel!Done, Done

LEMMA EmptyRefines ==
  ASSUME AudioInv, EmptyCompletely
  PROVE  Channel!ChannelEmpty
<1> DEFINE before == Samples(ChunksIn(ring))
           open == Samples(Open)
           n == Len(open)
<1>1. /\ ring' = <<>> /\ hasChunk' = hasChunk /\ currentChunk' = currentChunk
      /\ AudioInv' /\ TypeOK
  BY EmptyingKeeps DEF EmptyCompletely, AudioInv, BufferInv, TypeOK
<1>2. /\ open \in Seq(LabelledSample) /\ n \in 0..PCM_CHUNK_SIZE
      /\ Channel!OneTrack(open)
  BY <1>1, OpenSamples
<1>3. Held = before \o open /\ before \in Seq(LabelledSample)
  BY HeldParts
<1>4. Held' = open
  <2>1. Len(ring') \div ChunkBytes = 0
    BY <1>1, Sizes
  <2>2. ChunksIn(ring') = <<>>
    BY <2>1 DEF ChunksIn
  <2>3. Open' = Open
    BY <1>1 DEF Open
  <2>4. Held' = <<>> \o open
    BY <1>1, <2>2, <2>3, NextHeldParts, SamplesNone
  <2> QED
    BY <1>2, <2>4
<1>5. Delivered' = Done("emptyCompletely")
  BY DEF EmptyCompletely, Delivered, Done, GotChunk
<1> HIDE DEF before, open
<1>6. n <= Len(Held) /\ SubSeq(Held, Len(Held) - n + 1, Len(Held)) = open
  BY <1>2, <1>3, TailOfConcat
<1> QED
  BY <1>2, <1>4, <1>5, <1>6 DEF Channel!ChannelEmpty, Channel!Done, Done

LEMMA StepRefines == AudioInv /\ [Next]_bufferVars => [Channel!ChannelNext]_(Channel!channelVars)
<1> SUFFICES ASSUME AudioInv, [Next]_bufferVars
             PROVE  Channel!ChannelNext \/ UNCHANGED <<Held, Delivered>>
  BY DEF Channel!channelVars
<1>1. ASSUME NEW hash \in Track, NEW data \in Data, WritePCM(data, hash)
      PROVE  Channel!ChannelNext
  <2>1. Channel!ChannelWrite(hash, data)
    BY <1>1, RefusedRefines, AcceptedRefines DEF WritePCM
  <2>2. data \in Channel!Data
    BY DEF Data, Channel!Data
  <2> QED
    BY <2>1, <2>2 DEF Channel!ChannelNext
<1>2. CASE ReadChunk
  BY <1>2, ReadNullRefines, ReadOldestRefines DEF ReadChunk, Channel!ChannelNext
<1>3. CASE ClearBuffer
  BY <1>3, ClearRefines DEF Channel!ChannelNext
<1>4. CASE EmptyCompletely
  BY <1>4, EmptyRefines DEF Channel!ChannelNext
<1>5. CASE UNCHANGED bufferVars
  BY <1>5 DEF bufferVars, Held, Delivered, RingChunks
<1> QED
  BY <1>1, <1>2, <1>3, <1>4, <1>5 DEF Next

(* The chunk buffer is one stream of labelled samples: what is accepted    *)
(* comes out once, in order, under its own track, a read comes back empty  *)
(* only when nothing finished is waiting, and only the emptying calls lose *)
(* samples, for every size of chunk and ring.                              *)
THEOREM BufferImplementsChannel == Spec => ImplementsChannel
<1>1. Init => Channel!ChannelInit
  BY InitRefines
<1>2. AudioInv /\ [Next]_bufferVars => [Channel!ChannelNext]_(Channel!channelVars)
  BY StepRefines
<1>3. Spec => []AudioInv
  BY InitAudio, StepAudio, PTL DEF Spec
<1> QED
  BY <1>1, <1>2, <1>3, PTL DEF Spec, ImplementsChannel, Channel!ChannelSpec

(***************************************************************************)
(* The transforms of Dsp.  reconfigure compares what it reads with what a  *)
(* transform has: where the settings are none it was constructed with, it  *)
(* leaves a transform as a new one would be, whatever volume it was told   *)
(* before.                                                                 *)
(***************************************************************************)
Transform(kind, json, volume, uses, cache) ==
  [kind |-> kind, json |-> json, volume |-> volume, uses |-> uses, cache |-> cache]

Made(kind, json, volume) == AtVolume(New(kind, json), volume)

LEMMA TransformChanges ==
  ASSUME NEW kind, NEW json, NEW volume, NEW uses, NEW cache, NEW t,
         t = Transform(kind, json, volume, uses, cache)
  PROVE  /\ t.kind = kind /\ t.json = json /\ t.volume = volume
         /\ t.uses = uses /\ t.cache = cache
         /\ \A x : [t EXCEPT !.volume = x] = Transform(kind, json, x, uses, cache)
         /\ \A x : [t EXCEPT !.uses = x] = Transform(kind, json, volume, x, cache)
         /\ \A x : [t EXCEPT !.cache = x] = Transform(kind, json, volume, uses, x)
<1>1. /\ t.kind = kind /\ t.json = json /\ t.volume = volume
         /\ t.uses = uses /\ t.cache = cache
  BY DEF Transform
<1>2. ASSUME NEW x PROVE [t EXCEPT !.volume = x] = Transform(kind, json, x, uses, cache)
  BY DEF Transform
<1>3. ASSUME NEW x PROVE [t EXCEPT !.uses = x] = Transform(kind, json, volume, x, cache)
  BY DEF Transform
<1>4. ASSUME NEW x PROVE [t EXCEPT !.cache = x] = Transform(kind, json, volume, uses, x)
  BY DEF Transform
<1> QED
  BY <1>1, <1>2, <1>3, <1>4

(* What is read of a configuration depends on its json and volume only.    *)
LEMMA SameNumber ==
  ASSUME NEW s, NEW t, s.json = t.json, s.volume = t.volume, NEW field, NEW default
  PROVE  getNumber(s, field, default) = getNumber(t, field, default)
<1>1. rawValues(s, field) = rawValues(t, field)
  BY DEF rawValues
<1>2. getRawValue(s, field) = getRawValue(t, field)
  BY <1>1 DEF getRawValue
<1> QED
  BY <1>2 DEF getNumber

LEMMA SameConfig ==
  ASSUME NEW s, NEW t, s.json = t.json, s.volume = t.volume
  PROVE  /\ \A fields, default : Numbers(s, fields, default) = Numbers(t, fields, default)
         /\ \A field : getString(s, field) = getString(t, field)
         /\ getChannels(s) = getChannels(t)
         /\ Biquads(s) = Biquads(t)
<1>1. \A field, default : getNumber(s, field, default) = getNumber(t, field, default)
  BY SameNumber
<1>2. \A fields, default : Numbers(s, fields, default) = Numbers(t, fields, default)
  BY <1>1 DEF Numbers
<1>3. \A field : getString(s, field) = getString(t, field)
  BY DEF getString
<1>4. getChannels(s) = getChannels(t)
  BY <1>1 DEF getChannels
<1>5. Biquads(s) = Biquads(t)
  BY <1>1, <1>3 DEF Biquads
<1> QED
  BY <1>2, <1>3, <1>4, <1>5

(* Each kind as reconfigure leaves a new one.                              *)
GainMade(json, v) ==
  Transform("Gain", json, v,
            [channels |-> getChannels(Config(json, v)),
             gain |-> getNumber(Config(json, v), "gain", 0)], <<>>)
CompressorMade(json, v) ==
  LET new == Numbers(Config(json, v), CompressorFields, 0)
  IN  Transform("Compressor", json, v,
                [channels |-> getChannels(Config(json, v)), settings |-> new], new)
ComboMade(json, v) ==
  Transform("BiquadCombo", json, v,
            [channels |-> SubSeq(getChannels(Config(json, v)), 1, 1),
             biquads |-> IF IsComboType(getString(Config(json, v), "combo_type"))
                         THEN Biquads(Config(json, v)) ELSE NoBiquads],
            Numbers(Config(json, v), ComboFields, 0))
BiquadMade(json, v) ==
  LET new == Numbers(Config(json, v), BiquadFields, Invalid)
      type == getString(Config(json, v), "biquad_type")
      given == [f \in {f \in BiquadFields : new[f] # Invalid} |-> new[f]]
      free == IF type = "free"
              THEN Numbers(Config(json, v), {"a1", "a2", "b0", "b1", "b2"}, 0) ELSE <<>>
  IN  IF type = "invalid"
      THEN Transform("Biquad", json, v,
                     [channels |-> SubSeq(getChannels(Config(json, v)), 1, 1),
                      filter |-> [type |-> "none"]], <<>>)
      ELSE Transform("Biquad", json, v,
                     [channels |-> SubSeq(getChannels(Config(json, v)), 1, 1),
                      filter |-> [type |-> type, config |-> given @@ free]], given)

LEMMA GainReconfigured ==
  ASSUME NEW json, NEW v, NEW uses, NEW cache
  PROVE  reconfigure(Transform("Gain", json, v, uses, <<>>)) = GainMade(json, v)
<1> DEFINE t == Transform("Gain", json, v, uses, <<>>)
           c == Config(json, v)
<1>1. t.json = c.json /\ t.volume = c.volume /\ t.kind = "Gain"
  BY DEF Transform, Config
<1>2. getChannels(t) = getChannels(c) /\ getNumber(t, "gain", 0) = getNumber(c, "gain", 0)
  <2> HIDE DEF t, c
  <2> QED
    BY <1>1, SameConfig, SameNumber
<1>3. reconfigure(t) = reconfigureGain(t)
  BY <1>1 DEF reconfigure
<1>4. reconfigureGain(t) = [t EXCEPT !.uses = [channels |-> getChannels(c), gain |-> getNumber(c, "gain", 0)]]
  BY <1>2 DEF reconfigureGain
<1> HIDE DEF c
<1>5. \A x : [t EXCEPT !.uses = x] = Transform("Gain", json, v, x, <<>>)
  BY TransformChanges
<1> HIDE DEF t
<1> QED
  BY <1>3, <1>4, <1>5 DEF GainMade, c, t

LEMMA CompressorReconfigured ==
  ASSUME NEW json, NEW v, NEW u, Configures("Compressor", json, v),
         getChannels(Config(json, u)) = getChannels(Config(json, v)),
         NEW uses, NEW cache,
         \/ cache = Zeros(CompressorFields)
         \/ CompressorMade(json, u) = Transform("Compressor", json, u, uses, cache)
  PROVE  reconfigure(Transform("Compressor", json, v, uses, cache)) = CompressorMade(json, v)
<1> DEFINE t == Transform("Compressor", json, v, uses, cache)
           c == Config(json, v)
           new == Numbers(c, CompressorFields, 0)
<1>1. t.json = c.json /\ t.volume = c.volume /\ t.kind = "Compressor" /\ t.cache = cache
  BY DEF Transform, Config
<1>2. getChannels(t) = getChannels(c) /\ Numbers(t, CompressorFields, 0) = new
  <2> HIDE DEF t, c
  <2> QED
    BY <1>1, SameConfig
<1>3. reconfigure(t) = reconfigureCompressor(t)
  BY <1>1 DEF reconfigure
<1>4. reconfigureCompressor(t) =
        IF cache = new THEN t
        ELSE [t EXCEPT !.cache = new, !.uses = [channels |-> getChannels(c), settings |-> new]]
  BY <1>1, <1>2 DEF reconfigureCompressor
<1>5. new # Zeros(CompressorFields)
  BY DEF Configures
<1> DEFINE made == [channels |-> getChannels(c), settings |-> new]
<1>6. CompressorMade(json, v) = Transform("Compressor", json, v, made, new)
  BY DEF CompressorMade
<1>7. CASE cache = new
  <2>1. CompressorMade(json, u) = Transform("Compressor", json, u, uses, cache)
    BY <1>5, <1>7
  <2> DEFINE old == Numbers(Config(json, u), CompressorFields, 0)
  <2>2. CompressorMade(json, u)
          = Transform("Compressor", json, u,
                      [channels |-> getChannels(Config(json, u)), settings |-> old], old)
    BY DEF CompressorMade
  <2> HIDE DEF old
  <2>3. uses = [channels |-> getChannels(Config(json, u)), settings |-> old] /\ cache = old
    BY <2>1, <2>2 DEF Transform
  <2>4. uses = made
    BY <1>7, <2>3
  <2> QED
    BY <1>3, <1>4, <1>6, <1>7, <2>4
<1>8. CASE cache # new
  <2>1. ASSUME NEW x, NEW y
        PROVE  [t EXCEPT !.cache = x, !.uses = y] = Transform("Compressor", json, v, y, x)
    <3>1. PICK r : r = t
      OBVIOUS
    <3>2. r = Transform("Compressor", json, v, uses, cache)
      BY <3>1
    <3> HIDE DEF t
    <3>3. PICK s : s = [r EXCEPT !.cache = x]
      OBVIOUS
    <3>4. s = Transform("Compressor", json, v, uses, x)
      BY <3>2, <3>3, TransformChanges
    <3>5. [s EXCEPT !.uses = y] = Transform("Compressor", json, v, y, x)
      BY <3>4, TransformChanges
    <3>6. [r EXCEPT !.cache = x, !.uses = y] = [s EXCEPT !.uses = y]
      BY <3>3
    <3> QED
      BY <3>1, <3>5, <3>6
  <2>2. reconfigure(t) = [t EXCEPT !.cache = new, !.uses = made]
    BY <1>3, <1>4, <1>8
  <2> HIDE DEF t, c, new, made
  <2> QED
    BY <1>6, <2>1, <2>2 DEF t
<1> QED
  BY <1>7, <1>8

LEMMA ComboReconfigured ==
  ASSUME NEW json, NEW v, NEW u, Configures("BiquadCombo", json, v),
         getChannels(Config(json, u)) = getChannels(Config(json, v)),
         NEW uses, NEW cache,
         \/ cache = Zeros(ComboFields)
         \/ ComboMade(json, u) = Transform("BiquadCombo", json, u, uses, cache)
  PROVE  reconfigure(Transform("BiquadCombo", json, v, uses, cache)) = ComboMade(json, v)
<1> DEFINE t == Transform("BiquadCombo", json, v, uses, cache)
           c == Config(json, v)
           new == Numbers(c, ComboFields, 0)
           Filters(d) == IF IsComboType(getString(d, "combo_type")) THEN Biquads(d) ELSE NoBiquads
           Uses(d) == [channels |-> SubSeq(getChannels(d), 1, 1), biquads |-> Filters(d)]
<1>1. t.json = c.json /\ t.volume = c.volume /\ t.kind = "BiquadCombo" /\ t.cache = cache
  BY DEF Transform, Config
<1>2. /\ getChannels(t) = getChannels(c) /\ Numbers(t, ComboFields, 0) = new
      /\ Filters(t) = Filters(c)
  <2> HIDE DEF t, c
  <2> QED
    BY <1>1, SameConfig
<1>3. reconfigure(t) = reconfigureBiquadCombo(t)
  BY <1>1 DEF reconfigure
<1>4. reconfigureBiquadCombo(t) =
        IF cache = new THEN t ELSE [t EXCEPT !.cache = new, !.uses = Uses(c)]
  <2> HIDE DEF t, c
  <2> QED
    BY <1>1, <1>2 DEF reconfigureBiquadCombo, ComboFields
<1>5. new # Zeros(ComboFields)
  BY DEF Configures
<1>6. ComboMade(json, v) = Transform("BiquadCombo", json, v, Uses(c), new)
  BY DEF ComboMade
<1>7. CASE cache = new
  <2>1. ComboMade(json, u) = Transform("BiquadCombo", json, u, uses, cache)
    BY <1>5, <1>7
  <2> DEFINE d == Config(json, u)
             old == Numbers(d, ComboFields, 0)
  <2>2. ComboMade(json, u) = Transform("BiquadCombo", json, u, Uses(d), old)
    BY DEF ComboMade
  <2>3. uses = Uses(d) /\ cache = old
    <3> DEFINE was == Uses(d)
    <3> HIDE DEF was, old
    <3> QED
      BY <2>1, <2>2 DEF Transform, was
  <2>4. Biquads(d) = Biquads(c)
    <3>1. d.json = c.json
      BY DEF Config
    <3>2. \A field : getString(d, field) = getString(c, field)
      BY <3>1 DEF getString
    <3>3. old = new
      BY <1>7, <2>3
    <3>4. \A f \in ComboFields : old[f] = getNumber(d, f, 0) /\ new[f] = getNumber(c, f, 0)
      BY DEF Numbers
    <3>5. \A f \in ComboFields : getNumber(d, f, 0) = getNumber(c, f, 0)
      <4> HIDE DEF old, new, d, c
      <4> QED
        BY <3>3, <3>4
    <3>6. getNumber(d, "order", 0) = getNumber(c, "order", 0)
          /\ getNumber(d, "frequency", 0) = getNumber(c, "frequency", 0)
      BY <3>5 DEF ComboFields
    <3> HIDE DEF c, d
    <3> QED
      BY <3>2, <3>6 DEF Biquads
  <2>5. Uses(d) = Uses(c)
    <3>1. getString(d, "combo_type") = getString(c, "combo_type")
      BY DEF Config, getString
    <3>2. getChannels(d) = getChannels(c)
      OBVIOUS
    <3> HIDE DEF c, d
    <3> QED
      BY <2>4, <3>1, <3>2
  <2>6. reconfigure(t) = t
    BY <1>3, <1>4, <1>7
  <2>7. t = Transform("BiquadCombo", json, v, Uses(c), new)
    BY <1>7, <2>3, <2>5
  <2> QED
    BY <1>6, <2>6, <2>7
<1>8. CASE cache # new
  <2>1. ASSUME NEW x, NEW y
        PROVE  [t EXCEPT !.cache = x, !.uses = y] = Transform("BiquadCombo", json, v, y, x)
    <3>1. PICK r : r = t
      OBVIOUS
    <3>2. r = Transform("BiquadCombo", json, v, uses, cache)
      BY <3>1
    <3> HIDE DEF t
    <3>3. PICK s : s = [r EXCEPT !.cache = x]
      OBVIOUS
    <3>4. s = Transform("BiquadCombo", json, v, uses, x)
      BY <3>2, <3>3, TransformChanges
    <3>5. [s EXCEPT !.uses = y] = Transform("BiquadCombo", json, v, y, x)
      BY <3>4, TransformChanges
    <3>6. [r EXCEPT !.cache = x, !.uses = y] = [s EXCEPT !.uses = y]
      BY <3>3
    <3> QED
      BY <3>1, <3>5, <3>6
  <2> DEFINE made == Uses(c)
  <2>2. reconfigure(t) = [t EXCEPT !.cache = new, !.uses = made]
    BY <1>3, <1>4, <1>8
  <2>3. ComboMade(json, v) = Transform("BiquadCombo", json, v, made, new)
    BY <1>6
  <2> HIDE DEF t, c, new, made
  <2> QED
    BY <2>1, <2>2, <2>3 DEF t
<1> QED
  BY <1>7, <1>8

LEMMA BiquadReconfigured ==
  ASSUME NEW json, NEW v, Configures("Biquad", json, v),
         NEW channels, NEW used, NEW cache,
         getString(Config(json, v), "biquad_type") = "invalid"
           => used = [type |-> "none"] /\ cache = <<>>
  PROVE  reconfigure(Transform("Biquad", json, v, [channels |-> channels, filter |-> used], cache))
           = BiquadMade(json, v)
<1> DEFINE uses == [channels |-> channels, filter |-> used]
           t == Transform("Biquad", json, v, uses, cache)
           c == Config(json, v)
           new == Numbers(c, BiquadFields, Invalid)
           type == getString(c, "biquad_type")
           given == [f \in {f \in BiquadFields : new[f] # Invalid} |-> new[f]]
           extra == Numbers(c, {"a1", "a2", "b0", "b1", "b2"}, 0)
           free == IF type = "free" THEN extra ELSE <<>>
           one == SubSeq(getChannels(c), 1, 1)
           at == Transform("Biquad", json, v, [channels |-> one, filter |-> used], cache)
           set == [type |-> type, config |-> given @@ free]
<1>1. t.json = c.json /\ t.volume = c.volume /\ t.kind = "Biquad" /\ t.cache = cache /\ t.uses = uses
  BY DEF Transform, Config
<1>2. /\ getChannels(t) = getChannels(c) /\ Numbers(t, BiquadFields, Invalid) = new
      /\ getString(t, "biquad_type") = type
      /\ Numbers(t, {"a1", "a2", "b0", "b1", "b2"}, 0) = extra
  <2> HIDE DEF t, c
  <2> QED
    BY <1>1, SameConfig
<1>3. reconfigure(t) = reconfigureBiquad(t)
  BY <1>1 DEF reconfigure
<1>4. [t EXCEPT !.uses.channels = one] = at
  BY DEF Transform
<1>5. reconfigureBiquad(t) =
        IF Unchanged(cache, new) \/ type = "invalid" THEN at
        ELSE [at EXCEPT !.cache = given, !.uses.filter = set]
  <2>1. [t EXCEPT !.uses.channels = SubSeq(getChannels(t), 1, 1)] = at
    BY <1>2, <1>4
  <2>2. t.cache = cache
    BY <1>1
  <2> HIDE DEF t, c, at, new, extra, one
  <2> QED
    BY <1>2, <2>1, <2>2, ZenonT(60) DEF reconfigureBiquad
<1>6. ~Unchanged(cache, new)
  <2>1. "frequency" \in BiquadFields
    BY DEF BiquadFields
  <2>2. new["frequency"] = getNumber(c, "frequency", Invalid)
    BY <2>1 DEF Numbers
  <2>3. new["frequency"] # 0
    BY <2>2 DEF Configures
  <2> HIDE DEF new
  <2> QED
    BY <2>1, <2>3 DEF Unchanged
<1>7. ASSUME NEW x, NEW y
      PROVE  [at EXCEPT !.cache = x, !.uses.filter = y]
               = Transform("Biquad", json, v, [channels |-> one, filter |-> y], x)
  <2>1. PICK r : r = at
    OBVIOUS
  <2>2. r = Transform("Biquad", json, v, [channels |-> one, filter |-> used], cache)
    BY <2>1
  <2> HIDE DEF at, one
  <2>3. PICK s : s = [r EXCEPT !.cache = x]
    OBVIOUS
  <2>4. s = Transform("Biquad", json, v, [channels |-> one, filter |-> used], x)
    BY <2>2, <2>3, TransformChanges
  <2>5. s.uses = [channels |-> one, filter |-> used]
    BY <2>4, TransformChanges
  <2>6. [s.uses EXCEPT !.filter = y] = [channels |-> one, filter |-> y]
    BY <2>5
  <2>7. [s EXCEPT !.uses = [s.uses EXCEPT !.filter = y]]
          = Transform("Biquad", json, v, [s.uses EXCEPT !.filter = y], x)
    BY <2>4, TransformChanges
  <2>8. [r EXCEPT !.cache = x, !.uses.filter = y]
          = [s EXCEPT !.uses = [s.uses EXCEPT !.filter = y]]
    BY <2>3
  <2> QED
    BY <2>1, <2>6, <2>7, <2>8
<1>8. BiquadMade(json, v) =
        IF type = "invalid"
        THEN Transform("Biquad", json, v, [channels |-> one, filter |-> [type |-> "none"]], <<>>)
        ELSE Transform("Biquad", json, v, [channels |-> one, filter |-> set], given)
  BY DEF BiquadMade
<1>9. CASE type = "invalid"
  <2>1. reconfigure(t) = at
    BY <1>3, <1>5, <1>9
  <2>2. used = [type |-> "none"] /\ cache = <<>>
    BY <1>9
  <2> QED
    BY <1>8, <1>9, <2>1, <2>2
<1>10. CASE type # "invalid"
  <2>1. reconfigure(t) = [at EXCEPT !.cache = given, !.uses.filter = set]
    BY <1>3, <1>5, <1>6, <1>10
  <2>2. [at EXCEPT !.cache = given, !.uses.filter = set]
          = Transform("Biquad", json, v, [channels |-> one, filter |-> set], given)
    <3> HIDE DEF at, given, set, one
    <3> QED
      BY <1>7
  <2> QED
    BY <1>8, <1>10, <2>1, <2>2
<1> QED
  BY <1>9, <1>10

MadeOf(kind, json, v) ==
  CASE kind = "Gain"        -> GainMade(json, v)
    [] kind = "Compressor"  -> CompressorMade(json, v)
    [] kind = "BiquadCombo" -> ComboMade(json, v)
    [] kind = "Biquad"      -> BiquadMade(json, v)

LEMMA MadeFacts ==
  ASSUME NEW kind \in Kind, NEW json, NEW v
  PROVE  /\ MadeOf(kind, json, v).kind = kind
         /\ MadeOf(kind, json, v).json = json
         /\ MadeOf(kind, json, v).volume = v
<1>1. PICK uses, cache : MadeOf(kind, json, v) = Transform(kind, json, v, uses, cache)
  <2>1. CASE kind = "Gain"
    BY <2>1 DEF MadeOf, GainMade
  <2>2. CASE kind = "Compressor"
    BY <2>2 DEF MadeOf, CompressorMade
  <2>3. CASE kind = "BiquadCombo"
    BY <2>3 DEF MadeOf, ComboMade
  <2>4. CASE kind = "Biquad"
    BY <2>4 DEF MadeOf, BiquadMade
  <2> QED
    BY <2>1, <2>2, <2>3, <2>4 DEF Kind
<1> QED
  BY <1>1, TransformChanges

(* A new transform's first configuration.                                  *)
LEMMA FirstConfigured ==
  ASSUME NEW kind \in Kind, NEW json, NEW v, Configures(kind, json, v)
  PROVE  Made(kind, json, v) = MadeOf(kind, json, v)
<1>1. CASE kind = "Gain"
  <2>1. PICK uses : New(kind, json) = Transform("Gain", json, 60, uses, <<>>)
    BY <1>1 DEF New, Transform
  <2>2. [New(kind, json) EXCEPT !.volume = v] = Transform("Gain", json, v, uses, <<>>)
    BY <2>1, TransformChanges
  <2> QED
    BY <1>1, <2>2, GainReconfigured DEF Made, AtVolume, MadeOf
<1>2. CASE kind = "Compressor"
  <2>1. PICK uses : New(kind, json) = Transform("Compressor", json, 60, uses, Zeros(CompressorFields))
    BY <1>2 DEF New, Transform, Zeros
  <2>2. [New(kind, json) EXCEPT !.volume = v]
          = Transform("Compressor", json, v, uses, Zeros(CompressorFields))
    BY <2>1, TransformChanges
  <2>3. reconfigure(Transform("Compressor", json, v, uses, Zeros(CompressorFields)))
          = CompressorMade(json, v)
    BY <1>2, CompressorReconfigured
  <2> QED
    BY <1>2, <2>2, <2>3 DEF Made, AtVolume, MadeOf
<1>3. CASE kind = "BiquadCombo"
  <2>1. PICK uses : New(kind, json) = Transform("BiquadCombo", json, 60, uses, Zeros(ComboFields))
    BY <1>3 DEF New, Transform, Zeros, ComboFields
  <2>2. [New(kind, json) EXCEPT !.volume = v]
          = Transform("BiquadCombo", json, v, uses, Zeros(ComboFields))
    BY <2>1, TransformChanges
  <2>3. reconfigure(Transform("BiquadCombo", json, v, uses, Zeros(ComboFields)))
          = ComboMade(json, v)
    BY <1>3, ComboReconfigured
  <2> QED
    BY <1>3, <2>2, <2>3 DEF Made, AtVolume, MadeOf
<1>4. CASE kind = "Biquad"
  <2> DEFINE uses == [channels |-> <<>>, filter |-> [type |-> "none"]]
  <2>1. New(kind, json) = Transform("Biquad", json, 60, uses, <<>>)
    BY <1>4 DEF New, Transform
  <2>2. [New(kind, json) EXCEPT !.volume = v] = Transform("Biquad", json, v, uses, <<>>)
    BY <2>1, TransformChanges
  <2>3. reconfigure(Transform("Biquad", json, v, uses, <<>>)) = BiquadMade(json, v)
    BY <1>4, BiquadReconfigured
  <2> QED
    BY <1>4, <2>2, <2>3 DEF Made, AtVolume, MadeOf
<1> QED
  BY <1>1, <1>2, <1>3, <1>4 DEF Kind

(* A transform made for one volume, told another.                          *)
LEMMA ConfiguredAgain ==
  ASSUME NEW kind \in Kind, NEW json, NEW u, NEW v, Configures(kind, json, v),
         getChannels(Config(json, u)) = getChannels(Config(json, v)),
         NEW t, t = MadeOf(kind, json, u)
  PROVE  reconfigure([t EXCEPT !.volume = v]) = MadeOf(kind, json, v)
<1>1. CASE kind = "Gain"
  <2>1. PICK uses : t = Transform("Gain", json, u, uses, <<>>)
    BY <1>1 DEF MadeOf, GainMade
  <2>2. [t EXCEPT !.volume = v] = Transform("Gain", json, v, uses, <<>>)
    BY <2>1, TransformChanges
  <2> QED
    BY <1>1, <2>2, GainReconfigured DEF MadeOf
<1>2. CASE kind = "Compressor"
  <2>1. PICK uses, cache : t = Transform("Compressor", json, u, uses, cache)
    BY <1>2 DEF MadeOf, CompressorMade
  <2>2. [t EXCEPT !.volume = v] = Transform("Compressor", json, v, uses, cache)
    BY <2>1, TransformChanges
  <2>3. CompressorMade(json, u) = Transform("Compressor", json, u, uses, cache)
    BY <1>2, <2>1 DEF MadeOf
  <2>4. reconfigure(Transform("Compressor", json, v, uses, cache)) = CompressorMade(json, v)
    BY <1>2, <2>3, CompressorReconfigured
  <2> QED
    BY <1>2, <2>2, <2>4 DEF MadeOf
<1>3. CASE kind = "BiquadCombo"
  <2>1. PICK uses, cache : t = Transform("BiquadCombo", json, u, uses, cache)
    BY <1>3 DEF MadeOf, ComboMade
  <2>2. [t EXCEPT !.volume = v] = Transform("BiquadCombo", json, v, uses, cache)
    BY <2>1, TransformChanges
  <2>3. ComboMade(json, u) = Transform("BiquadCombo", json, u, uses, cache)
    BY <1>3, <2>1 DEF MadeOf
  <2>4. reconfigure(Transform("BiquadCombo", json, v, uses, cache)) = ComboMade(json, v)
    BY <1>3, <2>3, ComboReconfigured
  <2> QED
    BY <1>3, <2>2, <2>4 DEF MadeOf
<1>4. CASE kind = "Biquad"
  <2>1. getString(Config(json, u), "biquad_type") = getString(Config(json, v), "biquad_type")
    BY DEF getString, Config
  <2>2. t = BiquadMade(json, u)
    BY <1>4 DEF MadeOf
  <2>3. PICK channels, used, cache :
          /\ t = Transform("Biquad", json, u, [channels |-> channels, filter |-> used], cache)
          /\ getString(Config(json, v), "biquad_type") = "invalid"
               => used = [type |-> "none"] /\ cache = <<>>
    <3>1. CASE getString(Config(json, u), "biquad_type") = "invalid"
      BY <2>2, <3>1 DEF BiquadMade
    <3>2. CASE getString(Config(json, u), "biquad_type") # "invalid"
      <4> DEFINE new == Numbers(Config(json, u), BiquadFields, Invalid)
                 type == getString(Config(json, u), "biquad_type")
                 given == [f \in {f \in BiquadFields : new[f] # Invalid} |-> new[f]]
                 free == IF type = "free"
                         THEN Numbers(Config(json, u), {"a1", "a2", "b0", "b1", "b2"}, 0) ELSE <<>>
                 set == [type |-> type, config |-> given @@ free]
                 one == SubSeq(getChannels(Config(json, u)), 1, 1)
      <4>1. t = Transform("Biquad", json, u, [channels |-> one, filter |-> set], given)
        BY <2>2, <3>2 DEF BiquadMade
      <4> HIDE DEF one, set, given
      <4> QED
        BY <2>1, <3>2, <4>1
    <3> QED
      BY <3>1, <3>2
  <2>4. [t EXCEPT !.volume = v]
          = Transform("Biquad", json, v, [channels |-> channels, filter |-> used], cache)
    BY <2>3, TransformChanges
  <2>5. reconfigure(Transform("Biquad", json, v, [channels |-> channels, filter |-> used], cache))
          = BiquadMade(json, v)
    BY <1>4, <2>3, BiquadReconfigured
  <2> QED
    BY <1>4, <2>4, <2>5 DEF MadeOf
<1> QED
  BY <1>1, <1>2, <1>3, <1>4 DEF Kind

(* Half as many filters as the order, each of the second order.            *)
LEMMA LinkwitzRileyOrder ==
  ASSUME NEW order \in Nat, order % 2 = 0
  PROVE  /\ calculateLRQ(order) \in Seq(Int) /\ 2 * Len(calculateLRQ(order)) = order
         /\ \A i \in DOMAIN calculateLRQ(order) : calculateLRQ(order)[i] # -1
<1> DEFINE half == order \div 2
           quarter == half \div 2
           numbers == [n \in 1..quarter |-> n]
<1>1. half \in Nat /\ quarter \in Nat /\ order = 2 * half
  OBVIOUS
<1>2. numbers \in Seq(Nat) /\ Len(numbers) = quarter /\ \A i \in 1..quarter : numbers[i] = i
  <2> HIDE DEF quarter
  <2>1. numbers \in [1..quarter -> Nat]
    OBVIOUS
  <2> QED
    BY <1>1, <2>1
<1>3. calculateBWQ(half) = numbers \o (IF half % 2 > 0 THEN <<-1>> ELSE <<>>)
  BY DEF calculateBWQ
<1> HIDE DEF numbers, quarter, half
<1>4. CASE order % 4 > 0
  <2>1. half % 2 = 1 /\ half = 2 * quarter + 1
    BY <1>1, <1>4 DEF quarter
  <2> DEFINE q == calculateBWQ(half)
             paired == SubSeq(q, 1, Len(q) - 1)
  <2>2. q = numbers \o <<-1>>
    BY <1>3, <2>1
  <2> HIDE DEF q
  <2>3. /\ <<-1>> \in Seq(Int) /\ Len(<<-1>>) = 1 /\ numbers \in Seq(Int)
    BY <1>2
  <2>4. /\ q \in Seq(Int) /\ Len(q) = quarter + 1
        /\ \A i \in 1..quarter : q[i] = i
    BY <1>2, <2>2, <2>3, ConcatParts
  <2>5. /\ paired \in Seq(Int) /\ Len(paired) = quarter
        /\ \A i \in 1..quarter : paired[i] = i
    <3>1. Len(q) - 1 = quarter
      BY <1>1, <2>4
    <3>2. quarter <= Len(q)
      BY <1>1, <2>4
    <3>3. /\ SubSeq(q, 1, quarter) \in Seq(Int) /\ Len(SubSeq(q, 1, quarter)) = quarter
          /\ \A i \in 1..quarter : SubSeq(q, 1, quarter)[i] = q[i]
      BY <1>1, <2>4, <3>2, CutParts
    <3> QED
      BY <2>4, <3>1, <3>3
  <2>6. calculateLRQ(order) = paired \o paired \o <<Half>>
    BY <1>4 DEF calculateLRQ, q, half
  <2> HIDE DEF paired
  <2>7. /\ paired \o paired \in Seq(Int) /\ Len(paired \o paired) = 2 * quarter
        /\ \A i \in 1..(2 * quarter) : (paired \o paired)[i] \in Nat
    <3>1. /\ paired \o paired \in Seq(Int) /\ Len(paired \o paired) = quarter + quarter
          /\ \A i \in 1..quarter : (paired \o paired)[i] = i
          /\ \A i \in 1..quarter : (paired \o paired)[quarter + i] = i
      BY <2>5, ConcatParts
    <3>2. ASSUME NEW i \in 1..(2 * quarter) PROVE (paired \o paired)[i] \in Nat
      <4>1. CASE i <= quarter
        BY <1>1, <3>1, <4>1
      <4>2. CASE i > quarter
        <5>1. PICK k \in 1..quarter : i = quarter + k
          <6>1. i - quarter \in 1..quarter /\ i = quarter + (i - quarter)
            BY <1>1, <4>2
          <6> QED
            BY <6>1
        <5>2. (paired \o paired)[quarter + k] = k
          BY <3>1
        <5>3. k \in Nat
          BY <1>1
        <5> QED
          BY <5>1, <5>2, <5>3
      <4>3. i <= quarter \/ i > quarter
        BY <1>1
      <4> QED
        BY <4>1, <4>2, <4>3
    <3> QED
      BY <1>1, <3>1, <3>2
  <2> DEFINE two == paired \o paired
             one == <<Half>>
  <2>8. one \in Seq(Int) /\ Len(one) = 1 /\ one[1] \in Nat
    BY DEF Half
  <2> HIDE DEF two, one
  <2>9. /\ two \o one \in Seq(Int) /\ Len(two \o one) = 2 * quarter + 1
        /\ \A i \in 1..(2 * quarter) : (two \o one)[i] = two[i]
        /\ (two \o one)[2 * quarter + 1] = one[1]
    <3>1. /\ two \in Seq(Int) /\ Len(two) = 2 * quarter
      BY <2>7 DEF two
    <3>2. 1 \in 1..Len(one)
      BY <2>8
    <3>4. /\ two \o one \in Seq(Int) /\ Len(two \o one) = Len(two) + Len(one)
          /\ \A i \in 1..Len(two) : (two \o one)[i] = two[i]
          /\ \A i \in 1..Len(one) : (two \o one)[Len(two) + i] = one[i]
      <4>1. one \in Seq(Int) /\ two \in Seq(Int)
        BY <2>8, <3>1
      <4> QED
        BY <4>1, ConcatParts
    <3>3. /\ two \o one \in Seq(Int) /\ Len(two \o one) = Len(two) + Len(one)
          /\ \A i \in 1..Len(two) : (two \o one)[i] = two[i]
          /\ (two \o one)[Len(two) + 1] = one[1]
      BY <3>2, <3>4
    <3> QED
      BY <2>8, <3>1, <3>3
  <2>10. calculateLRQ(order) = two \o one
    BY <2>6 DEF two, one
  <2>11. ASSUME NEW i \in 1..(2 * quarter + 1) PROVE (two \o one)[i] \in Nat
    <3>1. CASE i <= 2 * quarter
      BY <1>1, <2>7, <2>9, <3>1, SMTT(30) DEF two
    <3>2. CASE i = 2 * quarter + 1
      BY <2>8, <2>9, <3>2
    <3>3. i <= 2 * quarter \/ i = 2 * quarter + 1
      BY <1>1
    <3> QED
      BY <3>1, <3>2, <3>3
  <2>12. 2 * (2 * quarter + 1) = order
    BY <1>1, <2>1
  <2>13. DOMAIN (two \o one) = 1..(2 * quarter + 1)
    BY <1>1, <2>9
  <2> QED
    <3>1. \A n \in Nat : n # -1
      OBVIOUS
    <3> QED
      BY <2>9, <2>10, <2>11, <2>12, <2>13, <3>1
<1>5. CASE ~(order % 4 > 0)
  <2>1. half % 2 = 0 /\ half = 2 * quarter
    BY <1>1, <1>5 DEF quarter
  <2> DEFINE q == calculateBWQ(half)
  <2>2. q = numbers
    BY <1>2, <1>3, <2>1
  <2>3. calculateLRQ(order) = q \o q
    BY <1>5 DEF calculateLRQ, half
  <2> HIDE DEF q
  <2>4. /\ q \in Seq(Int) /\ Len(q) = quarter /\ \A i \in 1..quarter : q[i] = i
    BY <1>2, <2>2
  <2>5. /\ q \o q \in Seq(Int) /\ Len(q \o q) = quarter + quarter
        /\ \A i \in 1..quarter : (q \o q)[i] = i
        /\ \A i \in 1..quarter : (q \o q)[quarter + i] = i
    BY <2>4, ConcatParts
  <2>6. ASSUME NEW i \in 1..(quarter + quarter) PROVE (q \o q)[i] \in Nat
    <3>1. CASE i <= quarter
      BY <1>1, <2>5, <3>1
    <3>2. CASE i > quarter
      <4>1. PICK k \in 1..quarter : i = quarter + k
        <5>1. i - quarter \in 1..quarter /\ i = quarter + (i - quarter)
          BY <1>1, <3>2
        <5> QED
          BY <5>1
      <4>2. (q \o q)[quarter + k] = k
        BY <2>5
      <4>3. k \in Nat
        BY <1>1
      <4> QED
        BY <4>1, <4>2, <4>3
    <3>3. i <= quarter \/ i > quarter
      BY <1>1
    <3> QED
      BY <3>1, <3>2, <3>3
  <2>7. 2 * (quarter + quarter) = order
    BY <1>1, <2>1
  <2>8. DOMAIN (q \o q) = 1..(quarter + quarter)
    BY <1>1, <2>5
  <2> QED
    <3>1. \A n \in Nat : n # -1
      OBVIOUS
    <3> QED
      BY <2>3, <2>5, <2>6, <2>7, <2>8, <3>1
<1> QED
  BY <1>4, <1>5

(* The index of a volume: within the values, and growing with the volume.  *)
LEMMA IndexGrows ==
  ASSUME NEW size \in Nat \ {0}, NEW v \in 0..100, NEW w \in 0..100
  PROVE  /\ ValueIndex(v, size) \in 0..(size - 1)
         /\ v = 0 => ValueIndex(v, size) = 0
         /\ v = 100 => ValueIndex(v, size) = size - 1
         /\ v <= w => ValueIndex(v, size) <= ValueIndex(w, size)
<1> DEFINE a == v * size
           b == w * size
<1>1. a \in Nat /\ b \in Nat
  OBVIOUS
<1>2. v <= w => a <= b
  OBVIOUS
<1>3. v = 0 => a = 0
  OBVIOUS
<1>4. v = 100 => a = 100 * size
  OBVIOUS
<1> HIDE DEF a, b
<1>5. /\ ValueIndex(v, size) = IF a \div 100 >= size THEN size - 1 ELSE a \div 100
      /\ ValueIndex(w, size) = IF b \div 100 >= size THEN size - 1 ELSE b \div 100
  BY DEF ValueIndex, a, b
<1> QED
  BY <1>1, <1>2, <1>3, <1>4, <1>5

(***************************************************************************)
(* The player and the client.                                              *)
(***************************************************************************)
KindOf(p, i) == Pipelines[p][i][1]
JsonOf(p, i) == Pipelines[p][i][2]
MadeAt(p, i, v) == MadeOf(KindOf(p, i), JsonOf(p, i), v)

(* Who holds which mutex, and what for.                                    *)
Locked ==
  /\ player = [pc |-> player.pc, samples |-> player.samples, at |-> player.at,
               through |-> player.through]
  /\ player.pc \in {"idle", "enter", "transforms", "left", "right", "count", "out"}
  /\ player.samples \in Nat
  /\ client = [pc |-> client.pc, pipeline |-> client.pipeline, volume |-> client.volume,
               at |-> client.at]
  /\ client.pc \in {"idle", "queried", "volume", "threw"}
  /\ activePipeline \in Pipeline \union {NoPipeline}
  /\ pipelineMutex = [p \in Pipeline |-> pipelineMutex[p]]
  /\ player.pc # "idle" <=> accessMutex = "player"
  /\ player.pc \in {"enter", "transforms"} => activePipeline \in Pipeline
  /\ player.pc = "transforms" => pipelineMutex[activePipeline] = "player"
  /\ client.pc \in {"volume", "threw"} =>
       /\ client.pipeline \in Pipeline /\ pipelineMutex[client.pipeline] = "client"
       /\ client.volume \in Volume /\ client.at \in Nat \ {0}
  /\ client.pc = "threw" => client.pipeline \in threw

(* Every transform is what a new one would be at its volume.               *)
Tuned ==
  /\ transforms = [p \in Pipeline |-> [i \in DOMAIN Pipelines[p] |-> transforms[p][i]]]
  /\ \A p \in Pipeline : \A i \in DOMAIN Pipelines[p] :
       /\ transforms[p][i].volume \in Heard
       /\ transforms[p][i] = MadeAt(p, i, transforms[p][i].volume)

(* The transforms of a pipeline have one volume, but for those the client  *)
(* has told another already.                                               *)
Uniform ==
  \A p \in Pipeline \ threw : \E v \in Heard : \A i \in DOMAIN Pipelines[p] :
    transforms[p][i].volume =
      IF client.pc = "volume" /\ client.pipeline = p /\ i < client.at THEN client.volume ELSE v

Uses(p, i, v) == MadeAt(p, i, v).uses

(* What the chunk went through.                                            *)
Passed ==
  /\ player.pc = "enter" => player.at = 1 /\ player.through = <<>>
  /\ player.pc = "transforms" =>
       /\ player.at \in 1..(Len(Pipelines[activePipeline]) + 1)
       /\ player.through = [i \in 1..(player.at - 1) |-> transforms[activePipeline][i].uses]
  /\ player.pc = "left" /\ activePipeline # NoPipeline /\ activePipeline \notin threw =>
       \E v \in Heard :
         player.through = [i \in DOMAIN Pipelines[activePipeline] |-> Uses(activePipeline, i, v)]

LEMMA PipelineParts ==
  ASSUME NEW p \in Pipeline
  PROVE  Len(Pipelines[p]) \in Nat /\ DOMAIN Pipelines[p] = 1..Len(Pipelines[p])
<1>1. Pipelines[p] \in Seq(ToSet(Pipelines[p]))
  BY DspAssumption
<1> QED
  BY <1>1

LEMMA TransformsLength ==
  ASSUME Tuned, NEW p \in Pipeline
  PROVE  /\ Len(transforms[p]) = Len(Pipelines[p]) /\ DOMAIN transforms[p] = DOMAIN Pipelines[p]
         /\ transforms[p] = [i \in DOMAIN Pipelines[p] |-> transforms[p][i]]
<1>1. transforms[p] = [i \in DOMAIN Pipelines[p] |-> transforms[p][i]]
  BY DEF Tuned
<1> DEFINE n == Len(Pipelines[p])
           S == {transforms[p][i] : i \in 1..n}
<1>2. n \in Nat /\ DOMAIN Pipelines[p] = 1..n
  BY PipelineParts
<1> HIDE DEF n
<1>3. transforms[p] \in [1..n -> S]
  BY <1>1, <1>2
<1>4. Len(transforms[p]) = n
  <2> HIDE DEF S
  <2> QED
    BY <1>2, <1>3
<1> QED
  BY <1>1, <1>2, <1>4 DEF n

LEMMA VolumeSet == 60 \in Heard /\ Volume \subseteq Heard /\ Heard \subseteq 0..100
BY DspAssumption DEF Heard

LEMMA KnownTransform ==
  ASSUME AllMeaningful, NEW p \in Pipeline, NEW i \in DOMAIN Pipelines[p], NEW v \in Heard
  PROVE  /\ KindOf(p, i) \in Kind /\ Configures(KindOf(p, i), JsonOf(p, i), v)
         /\ MadeAt(p, i, v).volume = v /\ MadeAt(p, i, v).json = JsonOf(p, i)
         /\ MadeAt(p, i, v).kind = KindOf(p, i)
         /\ Made(KindOf(p, i), JsonOf(p, i), v) = MadeAt(p, i, v)
         /\ reconfigure(New(KindOf(p, i), JsonOf(p, i))) = MadeAt(p, i, 60)
         /\ \A u \in Heard : reconfigure([MadeAt(p, i, u) EXCEPT !.volume = v]) = MadeAt(p, i, v)
<1>1. Meaningful(KindOf(p, i), JsonOf(p, i), Heard)
  BY DEF AllMeaningful, KindOf, JsonOf
<1> DEFINE k == KindOf(p, i)
           j == JsonOf(p, i)
<1> HIDE DEF k, j
<1>2. /\ k \in Kind /\ \A u \in Heard : Configures(k, j, u)
      /\ \A u, w \in Heard : getChannels(Config(j, u)) = getChannels(Config(j, w))
  BY <1>1 DEF Meaningful, k, j
<1>3. MadeOf(k, j, v).volume = v /\ MadeOf(k, j, v).json = j /\ MadeOf(k, j, v).kind = k
  BY <1>2, MadeFacts
<1>4. \A u \in Heard : Made(k, j, u) = MadeOf(k, j, u)
  BY <1>2, FirstConfigured
<1>5. ASSUME NEW u \in Heard
      PROVE  reconfigure([MadeOf(k, j, u) EXCEPT !.volume = v]) = MadeOf(k, j, v)
  BY <1>2, ConfiguredAgain
<1>6. New(k, j) = [New(k, j) EXCEPT !.volume = 60]
  <2>1. PICK uses, cache : New(k, j) = Transform(k, j, 60, uses, cache)
    <3>1. CASE k = "Gain"
      BY <3>1 DEF New, Transform
    <3>2. CASE k = "Compressor"
      BY <3>2 DEF New, Transform
    <3>3. CASE k = "BiquadCombo"
      BY <3>3 DEF New, Transform
    <3>4. CASE k = "Biquad"
      BY <3>4 DEF New, Transform
    <3> QED
      BY <1>2, <3>1, <3>2, <3>3, <3>4 DEF Kind
  <2> QED
    BY <2>1, TransformChanges
<1>7. reconfigure(New(k, j)) = MadeOf(k, j, 60)
  <2>1. reconfigure([New(k, j) EXCEPT !.volume = 60]) = MadeOf(k, j, 60)
    BY <1>4, VolumeSet DEF Made, AtVolume
  <2> QED
    BY <1>6, <2>1
<1> QED
  BY <1>2, <1>3, <1>4, <1>5, <1>7 DEF MadeAt, k, j

(***************************************************************************)
(* The initial state.                                                      *)
(***************************************************************************)
Tuning == Locked /\ Tuned /\ Uniform /\ Passed

LEMMA TuningInit ==
  ASSUME AllMeaningful, DspInit
  PROVE  Tuning
<1>1. Locked
  BY DEF DspInit, Locked, Idle, NoCall
<1>2. ASSUME NEW p \in Pipeline, NEW i \in DOMAIN Pipelines[p]
      PROVE  transforms[p][i] = MadeAt(p, i, 60) /\ transforms[p][i].volume = 60
  <2>1. transforms[p][i] = reconfigure(New(KindOf(p, i), JsonOf(p, i)))
    BY DEF DspInit, Built, KindOf, JsonOf
  <2> QED
    BY <2>1, KnownTransform, VolumeSet
<1>3. transforms = [p \in Pipeline |-> [i \in DOMAIN Pipelines[p] |-> transforms[p][i]]]
  <2>1. transforms = [p \in Pipeline |-> Built(p)]
    BY DEF DspInit
  <2>2. \A p \in Pipeline : Built(p) = [i \in DOMAIN Pipelines[p] |-> Built(p)[i]]
    BY DEF Built
  <2>3. \A p \in Pipeline : transforms[p] = [i \in DOMAIN Pipelines[p] |-> transforms[p][i]]
    BY <2>1, <2>2
  <2> QED
    BY <2>1, <2>3
<1>4. Tuned
  <2>1. ASSUME NEW p \in Pipeline, NEW i \in DOMAIN Pipelines[p]
        PROVE  /\ transforms[p][i].volume \in Heard
               /\ transforms[p][i] = MadeAt(p, i, transforms[p][i].volume)
    <3>1. transforms[p][i].volume = 60 /\ transforms[p][i] = MadeAt(p, i, 60)
      BY <1>2
    <3> QED
      BY <3>1, VolumeSet
  <2> QED
    BY <1>3, <2>1 DEF Tuned
<1>5. Uniform
  BY <1>2, VolumeSet DEF Uniform, DspInit, NoCall
<1>6. Passed
  BY DEF Passed, DspInit, Idle
<1> QED
  BY <1>1, <1>4, <1>5, <1>6 DEF Tuning

(***************************************************************************)
(* The steps of the player.                                                *)
(***************************************************************************)
LEMMA SameTransforms ==
  ASSUME Tuned, UNCHANGED transforms
  PROVE  Tuned'
BY DEF Tuned

LEMMA SameUniform ==
  ASSUME Uniform, UNCHANGED <<transforms, clientVars>>
  PROVE  Uniform'
BY DEF Uniform, clientVars

LEMMA AppendNext ==
  ASSUME NEW n \in Nat, NEW g, NEW x, x = g[n + 1]
  PROVE  Append([i \in 1..n |-> g[i]], x) = [i \in 1..(n + 1) |-> g[i]]
<1> DEFINE S == {g[i] : i \in 1..(n + 1)}
           s == [i \in 1..n |-> g[i]]
           t == [i \in 1..(n + 1) |-> g[i]]
<1>1. s \in Seq(S) /\ Len(s) = n /\ t \in Seq(S) /\ Len(t) = n + 1 /\ x \in S
  <2>1. s \in [1..n -> S] /\ t \in [1..(n + 1) -> S] /\ x \in S
    OBVIOUS
  <2> HIDE DEF S, s, t
  <2> QED
    BY <2>1
<1>2. (\A i \in 1..n : t[i] = s[i]) /\ t[n + 1] = x
  OBVIOUS
<1> HIDE DEF S, s, t
<1>3. Append(s, x) \in Seq(S) /\ Len(Append(s, x)) = n + 1
  BY <1>1
<1>4. \A i \in 1..(n + 1) : Append(s, x)[i] = t[i]
  BY <1>1, <1>2
<1>5. Append(s, x) = t
  BY <1>1, <1>3, <1>4, SeqEqual
<1> QED
  BY <1>5 DEF s, t

LEMMA PlayerStep ==
  ASSUME Tuning, Process \/ Processing
  PROVE  Tuning'
<1> USE DEF At, Go
<1>0. Locked /\ Tuned /\ Uniform /\ Passed
  BY DEF Tuning
<1>1. CASE Process
  <2>1. UNCHANGED <<transforms, activePipeline, pipelineMutex, client, calls, threw>>
    BY <1>1 DEF Process, clientVars
  <2>2. PICK n \in ChunkSamples :
          player' = [pc |-> IF activePipeline = NoPipeline THEN "left" ELSE "enter",
                     samples |-> n, at |-> 1, through |-> <<>>]
    BY <1>1 DEF Process
  <2>3. n \in Nat
    BY DspAssumption
  <2>4. accessMutex' = "player"
    BY <1>1 DEF Process
  <2>5. Locked'
    BY <1>0, <2>1, <2>2, <2>3, <2>4 DEF Locked
  <2>6. Passed'
    BY <1>0, <2>1, <2>2 DEF Passed
  <2> QED
    BY <1>0, <2>1, <2>5, <2>6, SameTransforms, SameUniform DEF Tuning, clientVars
<1>2. CASE EnterPipeline
  <2>1. /\ UNCHANGED <<transforms, activePipeline, accessMutex, client, calls, threw>>
        /\ player.pc = "enter" /\ player' = [player EXCEPT !.pc = "transforms"]
        /\ pipelineMutex[activePipeline] = "free"
        /\ pipelineMutex' = [pipelineMutex EXCEPT ![activePipeline] = "player"]
    BY <1>2 DEF EnterPipeline, clientVars
  <2>2. Locked'
    BY <1>0, <2>1 DEF Locked
  <2>3. Passed'
    BY <1>0, <2>1 DEF Passed
  <2> QED
    BY <1>0, <2>1, <2>2, <2>3, SameTransforms, SameUniform DEF Tuning, clientVars
<1>3. CASE ApplyTransform
  <2> DEFINE p == activePipeline
             g == [i \in DOMAIN Pipelines[p] |-> transforms[p][i].uses]
  <2>1. /\ UNCHANGED <<transforms, activePipeline, accessMutex, pipelineMutex, client, calls, threw>>
        /\ player.pc = "transforms" /\ player.at <= Len(transforms[p])
        /\ player' = [player EXCEPT !.at = @ + 1,
                                    !.through = Append(@, transforms[p][player.at].uses)]
    BY <1>3 DEF ApplyTransform, lockVars, clientVars
  <2>2. p \in Pipeline
    BY <1>0, <2>1 DEF Locked
  <2>3. PICK n \in Nat : n = Len(Pipelines[p]) /\ DOMAIN Pipelines[p] = 1..n
    BY <2>2, PipelineParts
  <2>14. /\ player.at \in 1..(n + 1)
         /\ player.through = [i \in 1..(player.at - 1) |-> transforms[p][i].uses]
    BY <1>0, <2>1, <2>3 DEF Passed
  <2>15. Len(transforms[p]) = n
    BY <1>0, <2>2, <2>3, TransformsLength
  <2>4. player.at \in 1..n
    <3> HIDE DEF p
    <3> QED
      BY <2>1, <2>14, <2>15
  <2>5. PICK k \in Nat : player.at = k + 1
    <3>1. player.at - 1 \in Nat /\ player.at = (player.at - 1) + 1
      BY <2>4
    <3> QED
      BY <3>1
  <2>6. player.through = [i \in 1..k |-> g[i]]
    <3>1. player.through = [i \in 1..k |-> transforms[p][i].uses]
      <4>1. player.at - 1 = k
        BY <2>5
      <4> QED
        BY <2>14, <4>1
    <3>2. \A i \in 1..k : g[i] = transforms[p][i].uses
      BY <2>3, <2>4, <2>5
    <3> QED
      BY <3>1, <3>2
  <2>7. g[k + 1] = transforms[p][player.at].uses
    BY <2>3, <2>4, <2>5
  <2>8. Append(player.through, transforms[p][player.at].uses) = [i \in 1..(k + 1) |-> g[i]]
    <3> HIDE DEF g
    <3> QED
      BY <2>6, <2>7, AppendNext
  <2>9. [i \in 1..(k + 1) |-> g[i]] = [i \in 1..(k + 1) |-> transforms[p][i].uses]
    BY <2>3, <2>4, <2>5
  <2>10. Locked'
    BY <1>0, <2>1 DEF Locked
  <2>11. player'.pc = "transforms" /\ player'.at = k + 2
    <3>1. player'.pc = "transforms" /\ player'.at = player.at + 1
      BY <1>0, <2>1 DEF Locked
    <3> QED
      BY <2>5, <3>1
  <2>12. player'.through = [i \in 1..(k + 1) |-> transforms[p][i].uses]
    <3> HIDE DEF g
    <3>1. player'.through = Append(player.through, transforms[p][player.at].uses)
      BY <1>0, <2>1 DEF Locked
    <3> QED
      BY <2>8, <2>9, <3>1
  <2>13. Passed'
    <3>1. player'.at \in 1..(Len(Pipelines[activePipeline]) + 1)
      BY <2>3, <2>4, <2>5, <2>11
    <3>2. player'.through = [i \in 1..(player'.at - 1) |-> transforms'[activePipeline'][i].uses]
      <4>1. player'.at - 1 = k + 1
        BY <2>11
      <4> QED
        BY <2>1, <2>12, <4>1
    <3>3. activePipeline' = activePipeline
      BY <2>1
    <3> QED
      BY <2>11, <3>1, <3>2, <3>3 DEF Passed
  <2> QED
    BY <1>0, <2>1, <2>10, <2>13, SameTransforms, SameUniform DEF Tuning, clientVars
<1>4. CASE LeavePipeline
  <2> DEFINE p == activePipeline
  <2>1. /\ UNCHANGED <<transforms, activePipeline, accessMutex, client, calls, threw>>
        /\ player.pc = "transforms" /\ player.at > Len(transforms[p])
        /\ player' = [player EXCEPT !.pc = "left"]
        /\ pipelineMutex' = [pipelineMutex EXCEPT ![p] = "free"]
    BY <1>4 DEF LeavePipeline, clientVars
  <2>2. p \in Pipeline /\ pipelineMutex[p] = "player"
    BY <1>0, <2>1 DEF Locked
  <2>3. ~(client.pc \in {"volume", "threw"} /\ client.pipeline = p)
    BY <1>0, <2>2 DEF Locked
  <2>4. Locked'
    BY <1>0, <2>1, <2>2, <2>3 DEF Locked
  <2>5. PICK n \in Nat : n = Len(Pipelines[p]) /\ DOMAIN Pipelines[p] = 1..n
    BY <2>2, PipelineParts
  <2>6. player.at = n + 1
    <3>1. player.at \in 1..(n + 1)
      BY <1>0, <2>1, <2>5 DEF Passed
    <3>2. Len(transforms[p]) = n
      BY <1>0, <2>2, <2>5, TransformsLength
    <3> HIDE DEF p
    <3> QED
      BY <2>1, <3>1, <3>2
  <2>7. player.through = [i \in 1..n |-> transforms[p][i].uses]
    <3>1. player.at - 1 = n
      BY <2>6
    <3>2. player.through = [i \in 1..(player.at - 1) |-> transforms[p][i].uses]
      BY <1>0, <2>1 DEF Passed
    <3> QED
      BY <3>1, <3>2
  <2>8. ASSUME p \notin threw
        PROVE  \E v \in Heard : player.through = [i \in DOMAIN Pipelines[p] |-> Uses(p, i, v)]
    <3>1. PICK v \in Heard : \A i \in 1..n : transforms[p][i].volume = v
      BY <1>0, <2>2, <2>3, <2>5, <2>8 DEF Uniform
    <3>2. \A i \in 1..n : transforms[p][i] = MadeAt(p, i, v)
      <4>1. \A i \in 1..n : transforms[p][i] = MadeAt(p, i, transforms[p][i].volume)
        BY <1>0, <2>2, <2>5 DEF Tuned
      <4> QED
        BY <3>1, <4>1
    <3>3. \A i \in 1..n : transforms[p][i].uses = Uses(p, i, v)
      BY <3>2 DEF Uses
    <3>4. player.through = [i \in 1..n |-> Uses(p, i, v)]
      BY <2>7, <3>3
    <3> QED
      BY <2>5, <3>4
  <2>9. player'.pc = "left" /\ player'.through = player.through
    BY <1>0, <2>1 DEF Locked
  <2>10. Passed'
    BY <2>1, <2>8, <2>9 DEF Passed
  <2> QED
    BY <1>0, <2>1, <2>4, <2>10, SameTransforms, SameUniform DEF Tuning, clientVars
<1>5. ASSUME player.pc \in {"left", "right", "count", "out"},
             player'.pc \in {"right", "count", "out"}, player' = [player EXCEPT !.pc = player'.pc],
             UNCHANGED <<transforms, activePipeline, accessMutex, pipelineMutex, client, calls, threw>>
      PROVE  Tuning'
  <2>1. Locked'
    BY <1>0, <1>5 DEF Locked
  <2>2. Passed'
    BY <1>5 DEF Passed
  <2> QED
    BY <1>0, <1>5, <2>1, <2>2, SameTransforms, SameUniform DEF Tuning, clientVars
<1>6. CASE ApplyLeft \/ ApplyRight \/ CountEffect
  <2>1. /\ UNCHANGED <<transforms, activePipeline, accessMutex, pipelineMutex, client, calls, threw>>
        /\ player.pc \in {"left", "right", "count"}
        /\ \E pc \in {"right", "count", "out"} : player' = [player EXCEPT !.pc = pc]
    BY <1>6 DEF ApplyLeft, ApplyRight, CountEffect, lockVars, clientVars
  <2>2. player'.pc \in {"right", "count", "out"} /\ player' = [player EXCEPT !.pc = player'.pc]
    BY <1>0, <2>1 DEF Locked
  <2> QED
    BY <1>5, <2>1, <2>2
<1>7. CASE ProcessReturns
  <2>1. /\ UNCHANGED <<transforms, activePipeline, pipelineMutex, client, calls, threw>>
        /\ player' = Idle /\ accessMutex' = "free"
    BY <1>7 DEF ProcessReturns, clientVars
  <2>2. Locked'
    BY <1>0, <2>1 DEF Locked, Idle
  <2>3. Passed'
    BY <2>1 DEF Passed, Idle
  <2> QED
    BY <1>0, <2>1, <2>2, <2>3, SameTransforms, SameUniform DEF Tuning, clientVars
<1> QED
  BY <1>1, <1>2, <1>3, <1>4, <1>6, <1>7 DEF Processing

(***************************************************************************)
(* The steps of the client.                                                *)
(***************************************************************************)
LEMMA SamePassed ==
  ASSUME Passed, Tuning, UNCHANGED <<transforms, activePipeline, player>>, threw \subseteq threw'
  PROVE  Passed'
BY DEF Passed

LEMMA ClientStep ==
  ASSUME AllMeaningful, Tuning,
         applyPipeline \/ queryInstantEffect \/ volumeUpdated \/ ResetCount \/ VolumeReturns
  PROVE  Tuning'
<1> USE DEF At
<1>0. Locked /\ Tuned /\ Uniform /\ Passed
  BY DEF Tuning
<1>1. CASE applyPipeline
  <2>1. /\ UNCHANGED <<transforms, accessMutex, pipelineMutex, player, client, threw>>
        /\ accessMutex = "free" /\ activePipeline' \in Pipeline
    BY <1>1 DEF applyPipeline, lockVars
  <2>2. player.pc = "idle"
    BY <1>0, <2>1 DEF Locked
  <2>3. Locked'
    BY <1>0, <2>1, <2>2 DEF Locked
  <2>4. Passed'
    BY <2>1, <2>2 DEF Passed
  <2>5. Uniform'
    BY <1>0, <2>1 DEF Uniform
  <2> QED
    BY <1>0, <2>1, <2>3, <2>4, <2>5, SameTransforms DEF Tuning
<1>2. CASE queryInstantEffect \/ ResetCount
  <2>1. /\ UNCHANGED <<transforms, activePipeline, accessMutex, pipelineMutex, player, threw>>
        /\ client.pc \in {"idle", "queried"}
        /\ client' = [client EXCEPT !.pc = "queried"] \/ client' = NoCall
    BY <1>2 DEF queryInstantEffect, ResetCount, lockVars, Called
  <2>2. client'.pc \in {"idle", "queried"}
    BY <1>0, <2>1 DEF Locked, NoCall
  <2>3. Locked'
    BY <1>0, <2>1, <2>2 DEF Locked, NoCall
  <2>4. Passed'
    BY <1>0, <2>1, SamePassed
  <2>5. Uniform'
    BY <1>0, <2>1, <2>2 DEF Uniform
  <2> QED
    BY <1>0, <2>1, <2>3, <2>4, <2>5, SameTransforms DEF Tuning
<1>3. CASE volumeUpdated
  <2>1. PICK p \in Pipeline, v \in Volume :
          /\ pipelineMutex[p] = "free"
          /\ pipelineMutex' = [pipelineMutex EXCEPT ![p] = "client"]
          /\ client' = [pc |-> "volume", pipeline |-> p, volume |-> v, at |-> 1]
    BY <1>3 DEF volumeUpdated
  <2>2. /\ UNCHANGED <<transforms, activePipeline, accessMutex, player, threw>>
        /\ client.pc = "idle"
    BY <1>3 DEF volumeUpdated, Called
  <2>3. Locked'
    BY <1>0, <2>1, <2>2 DEF Locked
  <2>4. Passed'
    BY <1>0, <2>2, SamePassed
  <2>5. ASSUME NEW q \in Pipeline \ threw, NEW i \in DOMAIN Pipelines[q], NEW w \in Heard,
               transforms[q][i].volume =
                 IF client.pc = "volume" /\ client.pipeline = q /\ i < client.at THEN client.volume ELSE w
        PROVE  transforms'[q][i].volume =
                 IF client'.pc = "volume" /\ client'.pipeline = q /\ i < client'.at
                 THEN client'.volume ELSE w
    <3>1. ~(i < 1)
      BY <2>5, PipelineParts
    <3> QED
      BY <2>1, <2>2, <2>5, <3>1
  <2>6. Uniform'
    BY <1>0, <2>2, <2>5 DEF Uniform
  <2> QED
    BY <1>0, <2>2, <2>3, <2>4, <2>6, SameTransforms DEF Tuning
<1>4. CASE VolumeReturns
  <2>1. /\ UNCHANGED <<transforms, activePipeline, accessMutex, player, threw>>
        /\ pipelineMutex' = [pipelineMutex EXCEPT ![client.pipeline] = "free"]
        /\ client' = NoCall
        /\ client.pc = "threw" \/ (client.pc = "volume" /\ client.at > Len(transforms[client.pipeline]))
    BY <1>4 DEF VolumeReturns
  <2>2. client.pipeline \in Pipeline /\ pipelineMutex[client.pipeline] = "client"
        /\ client.volume \in Heard /\ client.at \in Nat
    BY <1>0, <2>1, VolumeSet DEF Locked
  <2>3. Locked'
    BY <1>0, <2>1, <2>2 DEF Locked, NoCall
  <2>4. Passed'
    BY <1>0, <2>1, SamePassed
  <2>5. ASSUME NEW q \in Pipeline \ threw
        PROVE  \E v \in Heard : \A i \in DOMAIN Pipelines[q] : transforms[q][i].volume = v
    <3>1. CASE q # client.pipeline
      BY <1>0, <3>1 DEF Uniform
    <3>2. CASE q = client.pipeline
      <4>1. client.pc = "volume" /\ client.at > Len(transforms[q])
        BY <1>0, <2>1, <3>2 DEF Locked
      <4>2. Len(transforms[q]) = Len(Pipelines[q]) /\ Len(Pipelines[q]) \in Nat
            /\ DOMAIN Pipelines[q] = 1..Len(Pipelines[q])
        BY <1>0, TransformsLength, PipelineParts
      <4>3. \A i \in DOMAIN Pipelines[q] : i < client.at
        BY <2>2, <4>1, <4>2
      <4>4. \A i \in DOMAIN Pipelines[q] : transforms[q][i].volume = client.volume
        BY <1>0, <3>2, <4>1, <4>3 DEF Uniform
      <4> QED
        BY <2>2, <4>4
    <3> QED
      BY <3>1, <3>2
  <2>6. Uniform'
    BY <2>1, <2>5 DEF Uniform, NoCall
  <2> QED
    BY <1>0, <2>1, <2>3, <2>4, <2>6, SameTransforms DEF Tuning
<1> QED
  BY <1>1, <1>2, <1>3, <1>4

LEMMA UpdateStep ==
  ASSUME AllMeaningful, Tuning, UpdateTransform
  PROVE  Tuning'
<1> DEFINE p == client.pipeline
           k == client.at
           v == client.volume
           new == reconfigure(Renewed)
<1>0. Locked /\ Tuned /\ Uniform /\ Passed
  BY DEF Tuning
<1>1. /\ client.pc = "volume" /\ k <= Len(transforms[p])
      /\ transforms' = [transforms EXCEPT ![p][k] = new]
      /\ UNCHANGED <<activePipeline, accessMutex, pipelineMutex, player>>
      /\ \/ client' = [client EXCEPT !.pc = "threw"] /\ threw' = threw \union {p}
         \/ client' = [client EXCEPT !.at = @ + 1] /\ threw' = threw
  BY DEF UpdateTransform, lockVars
<1>2. p \in Pipeline /\ pipelineMutex[p] = "client" /\ v \in Volume /\ k \in Nat \ {0}
  BY <1>0, <1>1 DEF Locked
<1>3. k \in DOMAIN Pipelines[p]
  <2>1. Len(transforms[p]) = Len(Pipelines[p]) /\ DOMAIN Pipelines[p] = 1..Len(Pipelines[p])
        /\ Len(Pipelines[p]) \in Nat
    BY <1>0, <1>2, TransformsLength, PipelineParts
  <2> HIDE DEF p, k
  <2> QED
    BY <1>1, <1>2, <2>1
<1>4. v \in Heard
  BY <1>2, VolumeSet
<1>5. new = MadeAt(p, k, v) /\ new.volume = v
  <2>1. transforms[p][k].volume \in Heard /\ transforms[p][k] = MadeAt(p, k, transforms[p][k].volume)
    BY <1>0, <1>2, <1>3 DEF Tuned
  <2>2. PICK u \in Heard : transforms[p][k] = MadeAt(p, k, u)
    BY <2>1
  <2>3. Renewed = [MadeAt(p, k, u) EXCEPT !.volume = v]
    BY <2>2 DEF Renewed
  <2> HIDE DEF p, k, v
  <2>4. MadeAt(p, k, v).volume = v /\ reconfigure([MadeAt(p, k, u) EXCEPT !.volume = v]) = MadeAt(p, k, v)
    BY <1>2, <1>3, <1>4, KnownTransform
  <2> QED
    BY <2>3, <2>4
<1> HIDE DEF new
<1>6. transforms = [q \in Pipeline |-> [i \in DOMAIN Pipelines[q] |-> transforms[q][i]]]
  BY <1>0 DEF Tuned
<1> HIDE DEF p, k, v
<1>7. /\ transforms'[p][k] = new
      /\ transforms' = [q \in Pipeline |-> [i \in DOMAIN Pipelines[q] |-> transforms'[q][i]]]
      /\ \A q \in Pipeline : q # p => transforms'[q] = transforms[q]
      /\ \A i \in DOMAIN Pipelines[p] : i # k => transforms'[p][i] = transforms[p][i]
  <2>1. DOMAIN transforms = Pipeline /\ DOMAIN transforms' = Pipeline
    BY <1>1, <1>6
  <2>2. /\ \A q \in Pipeline : q # p => transforms'[q] = transforms[q]
        /\ transforms'[p] = [transforms[p] EXCEPT ![k] = new]
    BY <1>1, <1>2, <2>1
  <2>3. transforms[p] = [i \in DOMAIN Pipelines[p] |-> transforms[p][i]]
    BY <1>2, <1>6
  <2>4. /\ transforms'[p][k] = new
        /\ \A i \in DOMAIN Pipelines[p] : i # k => transforms'[p][i] = transforms[p][i]
        /\ transforms'[p] = [i \in DOMAIN Pipelines[p] |-> transforms'[p][i]]
    BY <1>3, <2>2, <2>3
  <2>5. \A q \in Pipeline : transforms'[q] = [i \in DOMAIN Pipelines[q] |-> transforms'[q][i]]
    BY <1>6, <2>2, <2>4
  <2>6. transforms' = [q \in Pipeline |-> transforms'[q]]
    BY <1>1, <2>1
  <2>7. transforms' = [q \in Pipeline |-> [i \in DOMAIN Pipelines[q] |-> transforms'[q][i]]]
    BY <2>5, <2>6
  <2> QED
    BY <2>2, <2>4, <2>7
<1>8. Tuned'
  <2>1. ASSUME NEW q \in Pipeline, NEW i \in DOMAIN Pipelines[q]
        PROVE  /\ transforms'[q][i].volume \in Heard
               /\ transforms'[q][i] = MadeAt(q, i, transforms'[q][i].volume)
    <3>1. CASE q = p /\ i = k
      <4>1. transforms'[q][i] = new /\ new.volume = v /\ new = MadeAt(q, i, v)
        BY <1>5, <1>7, <3>1
      <4> QED
        BY <1>4, <4>1
    <3>2. CASE ~(q = p /\ i = k)
      <4>1. transforms'[q][i] = transforms[q][i]
        BY <1>7, <3>2
      <4>2. /\ transforms[q][i].volume \in Heard
            /\ transforms[q][i] = MadeAt(q, i, transforms[q][i].volume)
        BY <1>0 DEF Tuned
      <4> QED
        BY <4>1, <4>2
    <3> QED
      BY <3>1, <3>2
  <2> QED
    BY <1>7, <2>1 DEF Tuned
<1>9. /\ client'.pc \in {"volume", "threw"} /\ client'.pipeline = p /\ client'.volume = v
      /\ client'.pc = "threw" => p \in threw'
      /\ client'.pc = "volume" => client'.at = k + 1
      /\ client'.at \in {k, k + 1}
      /\ client' = [pc |-> client'.pc, pipeline |-> client'.pipeline, volume |-> client'.volume,
                    at |-> client'.at]
      /\ threw \subseteq threw'
  BY <1>0, <1>1 DEF Locked, p, k, v
<1>10. Locked'
  <2>1. client'.at \in Nat \ {0}
    BY <1>2, <1>9
  <2> QED
    BY <1>0, <1>1, <1>2, <1>9, <2>1 DEF Locked
<1>11. Uniform'
  <2> SUFFICES ASSUME NEW q \in Pipeline \ threw'
               PROVE  \E w \in Heard : \A i \in DOMAIN Pipelines[q] :
                        transforms'[q][i].volume =
                          IF client'.pc = "volume" /\ client'.pipeline = q /\ i < client'.at
                          THEN client'.volume ELSE w
    BY DEF Uniform
  <2>1. PICK w \in Heard : \A i \in DOMAIN Pipelines[q] :
          transforms[q][i].volume =
            IF client.pc = "volume" /\ client.pipeline = q /\ i < client.at THEN client.volume ELSE w
    BY <1>0, <1>9 DEF Uniform
  <2>2. CASE q # p
    BY <1>7, <1>9, <2>1, <2>2 DEF p
  <2>3. CASE q = p
    <3>1. client'.pc = "volume" /\ client'.at = k + 1
      BY <1>9, <2>3
    <3>2. ASSUME NEW i \in DOMAIN Pipelines[q]
          PROVE  transforms'[q][i].volume = IF i < k + 1 THEN v ELSE w
      <4>1. i \in Nat
        BY <2>3, <1>2, PipelineParts
      <4>2. transforms[q][i].volume = IF i < k THEN v ELSE w
        BY <1>1, <2>1, <2>3 DEF p, k, v
      <4>3. CASE i = k
        BY <1>2, <1>5, <1>7, <2>3, <4>3
      <4>4. CASE i # k
        <5>1. i < k <=> i < k + 1
          BY <1>2, <4>1, <4>4
        <5> QED
          BY <1>7, <2>3, <4>2, <4>4, <5>1
      <4> QED
        BY <4>3, <4>4
    <3> QED
      BY <1>9, <2>3, <3>1, <3>2
  <2> QED
    BY <2>2, <2>3
<1>12. Passed'
  <2>1. player.pc = "transforms" => activePipeline # p /\ activePipeline \in Pipeline
    BY <1>0, <1>2 DEF Locked
  <2>2. player.pc = "transforms" => transforms'[activePipeline] = transforms[activePipeline]
    BY <1>7, <2>1
  <2>3. player' = player /\ activePipeline' = activePipeline
    BY <1>1
  <2>4. player.pc = "enter" => player.at = 1 /\ player.through = <<>>
    BY <1>0 DEF Passed
  <2>5. player.pc = "transforms" =>
          /\ player.at \in 1..(Len(Pipelines[activePipeline]) + 1)
          /\ player.through = [i \in 1..(player.at - 1) |-> transforms'[activePipeline][i].uses]
    BY <1>0, <2>2 DEF Passed
  <2>6. player.pc = "left" /\ activePipeline # NoPipeline /\ activePipeline \notin threw' =>
          \E w \in Heard :
            player.through = [i \in DOMAIN Pipelines[activePipeline] |-> Uses(activePipeline, i, w)]
    BY <1>0, <1>9 DEF Passed
  <2> HIDE DEF Uses
  <2> QED
    BY <2>3, <2>4, <2>5, <2>6 DEF Passed
<1> QED
  BY <1>8, <1>10, <1>11, <1>12 DEF Tuning

LEMMA TuningStep ==
  ASSUME AllMeaningful, Tuning, [DspNext]_dspVars
  PROVE  Tuning'
<1>1. CASE Process \/ Processing
  BY <1>1, PlayerStep
<1>2. CASE applyPipeline \/ queryInstantEffect \/ volumeUpdated \/ ResetCount \/ VolumeReturns
  BY <1>2, ClientStep
<1>3. CASE UpdateTransform
  BY <1>3, UpdateStep
<1>4. CASE UNCHANGED dspVars
  <2>1. UNCHANGED <<transforms, activePipeline, accessMutex, pipelineMutex, player, client, threw>>
    BY <1>4 DEF dspVars
  <2>2. Locked'
    BY <2>1 DEF Tuning, Locked
  <2>3. Tuned'
    BY <2>1, SameTransforms DEF Tuning
  <2>4. Uniform'
    BY <2>1 DEF Tuning, Uniform
  <2>5. Passed'
    BY <2>1, SamePassed DEF Tuning
  <2> QED
    BY <2>2, <2>3, <2>4, <2>5 DEF Tuning
<1> QED
  BY <1>1, <1>2, <1>3, <1>4 DEF DspNext, Updating

(* What the transforms are at a volume is what a new one would be.         *)
LEMMA UsesOfNew ==
  ASSUME AllMeaningful, NEW p \in Pipeline, NEW i \in DOMAIN Pipelines[p], NEW v \in Heard
  PROVE  AtVolume(New(Pipelines[p][i][1], Pipelines[p][i][2]), v).uses = Uses(p, i, v)
<1>1. Made(KindOf(p, i), JsonOf(p, i), v) = MadeAt(p, i, v)
  BY KnownTransform
<1> QED
  BY <1>1 DEF Made, Uses, KindOf, JsonOf

LEMMA OneVolume ==
  ASSUME AllMeaningful, Tuning
  PROVE  ChunkHasOneVolume
<1> SUFFICES ASSUME player.pc = "left", activePipeline # NoPipeline, activePipeline \notin threw
             PROVE  \E v \in Heard :
                      player.through =
                        [i \in DOMAIN Pipelines[activePipeline] |->
                           AtVolume(New(Pipelines[activePipeline][i][1],
                                        Pipelines[activePipeline][i][2]), v).uses]
  BY DEF ChunkHasOneVolume, At
<1>1. activePipeline \in Pipeline
  BY DEF Tuning, Locked
<1>2. PICK v \in Heard :
        player.through = [i \in DOMAIN Pipelines[activePipeline] |-> Uses(activePipeline, i, v)]
  BY DEF Tuning, Passed
<1>3. \A i \in DOMAIN Pipelines[activePipeline] :
        AtVolume(New(Pipelines[activePipeline][i][1], Pipelines[activePipeline][i][2]), v).uses
          = Uses(activePipeline, i, v)
  BY <1>1, UsesOfNew
<1> QED
  BY <1>2, <1>3

(* A transform of a pipeline, what it was made of and for.                 *)
LEMMA CurrentTransform ==
  ASSUME AllMeaningful, Tuning, NEW t \in Current
  PROVE  \E p \in Pipeline : \E i \in DOMAIN Pipelines[p] : \E v \in Heard :
           /\ t = MadeAt(p, i, v) /\ t.volume = v /\ t.json = JsonOf(p, i) /\ t.kind = KindOf(p, i)
<1>1. PICK p \in Pipeline : t \in ToSet(transforms[p])
  BY DEF Current
<1>2. PICK i \in DOMAIN transforms[p] : t = transforms[p][i]
  BY <1>1 DEF ToSet
<1>3. i \in DOMAIN Pipelines[p]
  BY <1>2, TransformsLength DEF Tuning
<1>4. PICK v \in Heard : v = transforms[p][i].volume /\ transforms[p][i] = MadeAt(p, i, v)
  BY <1>3 DEF Tuning, Tuned
<1>5. MadeAt(p, i, v).json = JsonOf(p, i) /\ MadeAt(p, i, v).kind = KindOf(p, i)
  BY <1>3, KnownTransform
<1> QED
  BY <1>2, <1>3, <1>4, <1>5

LEMMA Configured ==
  ASSUME AllMeaningful, Tuning
  PROVE  ConfiguredForVolume
<1> SUFFICES ASSUME NEW p \in Pipeline, NEW i \in DOMAIN transforms[p]
             PROVE  transforms[p][i].uses
                      = AtVolume(New(transforms[p][i].kind, transforms[p][i].json),
                                 transforms[p][i].volume).uses
  BY DEF ConfiguredForVolume
<1>1. i \in DOMAIN Pipelines[p]
  BY TransformsLength DEF Tuning
<1>2. PICK v \in Heard : v = transforms[p][i].volume /\ transforms[p][i] = MadeAt(p, i, v)
  BY <1>1 DEF Tuning, Tuned
<1>3. MadeAt(p, i, v).json = JsonOf(p, i) /\ MadeAt(p, i, v).kind = KindOf(p, i)
  BY <1>1, KnownTransform
<1>4. AtVolume(New(KindOf(p, i), JsonOf(p, i)), v).uses = MadeAt(p, i, v).uses
  BY <1>1, UsesOfNew DEF Uses, KindOf, JsonOf
<1> QED
  BY <1>2, <1>3, <1>4

LEMMA ChoosesValue ==
  ASSUME AllMeaningful, Tuning
  PROVE  VolumeChoosesValue
<1> SUFFICES ASSUME NEW t \in Current, NEW f \in DOMAIN t.json
             PROVE  LET size == Len(t.json[f])
                    IN  /\ t.volume = 0 => ValueIndex(t.volume, size) = 0
                        /\ t.volume = 100 => ValueIndex(t.volume, size) = size - 1
                        /\ \A v \in Volume :
                             v <= t.volume => ValueIndex(v, size) <= ValueIndex(t.volume, size)
  BY DEF VolumeChoosesValue
<1>1. PICK p \in Pipeline, v \in Heard : \E i \in DOMAIN Pipelines[p] :
        t.volume = v /\ t.json = JsonOf(p, i)
  BY CurrentTransform
<1>0. PICK i \in DOMAIN Pipelines[p] : t.json = JsonOf(p, i)
  BY <1>1
<1>2. Meaningful(Pipelines[p][i][1], JsonOf(p, i), Heard)
  BY <1>0 DEF AllMeaningful, JsonOf
<1> DEFINE s == t.json[f]
<1>3. s \in Seq(ToSet(s)) /\ s # <<>>
  BY <1>0, <1>2 DEF Meaningful
<1>4. Len(s) \in Nat \ {0}
  <2> HIDE DEF s
  <2> QED
    BY <1>3, EmptySeq
<1>5. PICK size \in Nat \ {0} : size = Len(s)
  BY <1>4
<1>6. t.volume \in 0..100 /\ Volume \subseteq 0..100
  BY <1>1, VolumeSet
<1>7. t.volume = 0 => ValueIndex(t.volume, size) = 0
  BY <1>6, IndexGrows
<1>8. t.volume = 100 => ValueIndex(t.volume, size) = size - 1
  BY <1>6, IndexGrows
<1>9. ASSUME NEW w \in Volume, w <= t.volume
      PROVE  ValueIndex(w, size) <= ValueIndex(t.volume, size)
  BY <1>6, <1>9, IndexGrows
<1> QED
  BY <1>5, <1>7, <1>8, <1>9

LEMMA HasItsOrder ==
  ASSUME AllMeaningful, Tuning
  PROVE  ComboHasItsOrder
<1> SUFFICES ASSUME NEW t \in Current, t.kind = "BiquadCombo", t.uses.biquads # NoBiquads
             PROVE  /\ 2 * Len(t.uses.biquads.q) = t.cache.order
                    /\ \A i \in DOMAIN t.uses.biquads.q : t.uses.biquads.q[i] # -1
  BY DEF ComboHasItsOrder
<1>0. PICK p \in Pipeline, v \in Heard : \E i \in DOMAIN Pipelines[p] :
        t = MadeAt(p, i, v) /\ t.kind = KindOf(p, i)
  BY CurrentTransform
<1>1. PICK i \in DOMAIN Pipelines[p] : t = MadeAt(p, i, v) /\ t.kind = KindOf(p, i)
  BY <1>0
<1> DEFINE json == JsonOf(p, i)
           c == Config(json, v)
           order == getNumber(c, "order", 0)
<1>2. t = ComboMade(json, v)
  BY <1>1 DEF MadeAt, MadeOf
<1>3. HasWholeFilters(json, v)
  <2>1. Meaningful(KindOf(p, i), json, Heard)
    BY <1>1 DEF AllMeaningful, JsonOf, KindOf
  <2> QED
    BY <1>1, <2>1 DEF Meaningful
<1> HIDE DEF json
<1>4. /\ t.uses.biquads = IF IsComboType(getString(c, "combo_type")) THEN Biquads(c) ELSE NoBiquads
      /\ t.cache = Numbers(c, ComboFields, 0)
  <2> HIDE DEF c
  <2>1. PICK channels : ComboMade(json, v) =
          Transform("BiquadCombo", json, v,
            [channels |-> channels,
             biquads |-> IF IsComboType(getString(c, "combo_type")) THEN Biquads(c) ELSE NoBiquads],
            Numbers(c, ComboFields, 0))
    BY DEF ComboMade, c
  <2> QED
    BY <1>2, <2>1, TransformChanges
<1>5. t.cache.order = order
  BY <1>4 DEF Numbers, ComboFields
<1>6. IsComboType(getString(c, "combo_type")) /\ t.uses.biquads = Biquads(c)
  BY <1>4
<1>7. /\ getString(c, "combo_type") \in {"lr_lowpass", "lr_highpass"}
      /\ order \in Nat /\ order % 2 = 0
  BY <1>3, <1>6 DEF HasWholeFilters
<1>8. Biquads(c).q = calculateLRQ(order)
  <2> HIDE DEF c
  <2> QED
    BY <1>7 DEF Biquads
<1> HIDE DEF order
<1>9. /\ 2 * Len(calculateLRQ(order)) = order
      /\ \A j \in DOMAIN calculateLRQ(order) : calculateLRQ(order)[j] # -1
  BY <1>7, LinkwitzRileyOrder
<1> QED
  BY <1>5, <1>6, <1>8, <1>9

(***************************************************************************)
(* The effect.                                                             *)
(***************************************************************************)
Position == Nat \X Nat

(* The first begins at 0, and each of the others where the last one ended. *)
Unbroken(s) ==
  /\ s # <<>> => s[1][1] = 0
  /\ \A i \in 1..(Len(s) - 1) : s[i + 1][1] = s[i][1] + s[i][2]

(* What there is to the end of the chunks the effect was applied to.       *)
EndOf(s) == IF s = <<>> THEN 0 ELSE Last(s)[1] + Last(s)[2]

Effect ==
  /\ instantEffect \in Nat /\ samplesSinceInstantQueued \in Nat /\ player.samples \in Nat
  /\ applied \in Seq(Position) /\ Unbroken(applied)
  /\ player.pc \in {"right", "count"} => instantEffect # NoEffect
  /\ client.pc = "queried" =>
       player.pc = "idle" /\ applied = <<>> /\ instantEffect # NoEffect
  /\ client.pc # "queried" /\ instantEffect # NoEffect =>
       IF player.pc \in {"right", "count"}
       THEN EndOf(applied) = samplesSinceInstantQueued + player.samples
       ELSE samplesSinceInstantQueued = EndOf(applied) /\ samplesSinceInstantQueued < instantEffect

LEMMA GoesOn ==
  ASSUME NEW s \in Seq(Position), Unbroken(s), NEW n \in Nat
  PROVE  /\ Append(s, <<EndOf(s), n>>) \in Seq(Position)
         /\ Unbroken(Append(s, <<EndOf(s), n>>))
         /\ EndOf(Append(s, <<EndOf(s), n>>)) = EndOf(s) + n
<1> DEFINE e == EndOf(s)
           x == <<e, n>>
           t == Append(s, x)
<1>1. Len(s) \in Nat /\ (s = <<>> <=> Len(s) = 0)
  BY EmptySeq
<1>2. e \in Nat
  <2>1. CASE s = <<>>
    BY <2>1 DEF EndOf
  <2>2. CASE s # <<>>
    <3>1. Len(s) \in 1..Len(s)
      BY <1>1, <2>2
    <3>2. s[Len(s)] \in Position
      BY <3>1
    <3>3. e = s[Len(s)][1] + s[Len(s)][2]
      BY <2>2 DEF EndOf, Last
    <3> HIDE DEF e
    <3> QED
      BY <3>2, <3>3 DEF Position
  <2> QED
    BY <2>1, <2>2
<1>3. x \in Position /\ x[1] = e /\ x[2] = n
  <2> HIDE DEF e
  <2> QED
    BY <1>2 DEF Position
<1> HIDE DEF x
<1>4. /\ t \in Seq(Position) /\ Len(t) = Len(s) + 1
      /\ \A i \in 1..Len(s) : t[i] = s[i]
      /\ t[Len(s) + 1] = x
  BY <1>3
<1> HIDE DEF t
<1>5. t # <<>>
  BY <1>1, <1>4, EmptySeq
<1>6. EndOf(t) = e + n
  BY <1>3, <1>4, <1>5 DEF EndOf, Last
<1>7. t[1][1] = 0
  <2>1. CASE s = <<>>
    <3>1. e = 0
      BY <2>1 DEF EndOf
    <3> QED
      BY <1>1, <1>3, <1>4, <2>1, <3>1
  <2>2. CASE s # <<>>
    BY <1>1, <1>4, <2>2 DEF Unbroken
  <2> QED
    BY <2>1, <2>2
<1>8. ASSUME NEW i \in 1..(Len(t) - 1)
      PROVE  t[i + 1][1] = t[i][1] + t[i][2]
  <2>1. i \in 1..Len(s) /\ Len(s) > 0
    BY <1>1, <1>4
  <2>2. CASE i = Len(s)
    <3>1. e = s[i][1] + s[i][2]
      BY <1>1, <2>1, <2>2 DEF EndOf, Last
    <3>2. t[i] = s[i] /\ t[i + 1] = x
      BY <1>4, <2>1, <2>2
    <3> QED
      BY <1>3, <3>1, <3>2
  <2>3. CASE i # Len(s)
    <3>1. i \in 1..(Len(s) - 1) /\ i + 1 \in 1..Len(s)
      BY <1>1, <2>1, <2>3
    <3>2. t[i] = s[i] /\ t[i + 1] = s[i + 1]
      BY <1>4, <3>1, <2>1
    <3>3. s[i + 1][1] = s[i][1] + s[i][2]
      BY <3>1 DEF Unbroken
    <3> QED
      BY <3>2, <3>3
  <2> QED
    BY <2>2, <2>3
<1> QED
  BY <1>4, <1>5, <1>6, <1>7, <1>8 DEF Unbroken, t, x

LEMMA EffectInit ==
  ASSUME DspInit
  PROVE  Effect
<1>1. applied = <<>> /\ instantEffect = 0 /\ samplesSinceInstantQueued = 0
      /\ player.pc = "idle" /\ player.samples = 0 /\ client.pc = "idle"
  BY DEF DspInit, NoEffect, Idle, NoCall
<1>2. <<>> \in Seq(Position) /\ Unbroken(<<>>)
  BY DEF Unbroken
<1> QED
  BY <1>1, <1>2 DEF Effect, NoEffect

LEMMA EffectStep ==
  ASSUME ~QueryAnytime, Tuning, Effect, [DspNext]_dspVars
  PROVE  Effect'
<1> USE DEF At, Go, NoEffect
<1>0. Locked
  BY DEF Tuning
<1>1. ASSUME UNCHANGED effectVars, player'.samples = player.samples,
             player'.pc \in {"right", "count"} <=> player.pc \in {"right", "count"},
             client'.pc = "queried" <=> client.pc = "queried",
             client.pc = "queried" => player'.pc = "idle"
      PROVE  Effect'
  BY <1>1 DEF Effect, effectVars
<1>2. CASE Process
  <2>1. PICK n \in ChunkSamples : player'.samples = n /\ player'.pc \in {"left", "enter"}
    BY <1>2 DEF Process
  <2>2. UNCHANGED <<effectVars, client>> /\ client.pc # "queried" /\ player.pc = "idle"
    BY <1>2 DEF Process, clientVars
  <2>3. n \in Nat
    BY DspAssumption
  <2> QED
    BY <2>1, <2>2, <2>3 DEF Effect, effectVars
<1>3. CASE EnterPipeline \/ ApplyTransform \/ LeavePipeline
  <2>1. UNCHANGED <<effectVars, client>>
    BY <1>3 DEF EnterPipeline, ApplyTransform, LeavePipeline, clientVars
  <2>2. /\ player.pc \in {"enter", "transforms"} /\ player'.pc \in {"enter", "transforms", "left"}
        /\ player'.samples = player.samples
    BY <1>0, <1>3 DEF Locked, EnterPipeline, ApplyTransform, LeavePipeline
  <2>3. client.pc # "queried"
    BY <2>2 DEF Effect
  <2> QED
    BY <1>1, <2>1, <2>2, <2>3
<1>4. CASE ApplyLeft
  <2>1. /\ UNCHANGED <<instantEffect, samplesSinceInstantQueued, client>>
        /\ player.pc = "left" /\ player'.samples = player.samples
        /\ IF instantEffect = NoEffect
           THEN player'.pc = "out" /\ applied' = applied
           ELSE /\ applied' = Append(applied, <<samplesSinceInstantQueued, player.samples>>)
                /\ player'.pc = "right"
    BY <1>0, <1>4 DEF ApplyLeft, Locked, clientVars
  <2>2. client.pc # "queried"
    BY <2>1 DEF Effect
  <2>3. CASE instantEffect = NoEffect
    BY <2>1, <2>2, <2>3 DEF Effect
  <2>4. CASE instantEffect # NoEffect
    <3>1. samplesSinceInstantQueued = EndOf(applied) /\ player.samples \in Nat
      BY <2>1, <2>2, <2>4 DEF Effect
    <3>2. /\ applied' \in Seq(Position) /\ Unbroken(applied')
          /\ EndOf(applied') = samplesSinceInstantQueued + player.samples
      BY <2>1, <2>4, <3>1, GoesOn DEF Effect
    <3> QED
      BY <2>1, <2>2, <2>4, <3>2 DEF Effect
  <2> QED
    BY <2>3, <2>4
<1>5. CASE ApplyRight
  <2>1. /\ UNCHANGED <<instantEffect, samplesSinceInstantQueued, client, applied>>
        /\ player.pc = "right" /\ player'.pc = "count" /\ player'.samples = player.samples
    BY <1>0, <1>5 DEF ApplyRight, Locked, clientVars
  <2> QED
    BY <2>1 DEF Effect
<1>6. CASE CountEffect
  <2>1. /\ UNCHANGED <<client, applied>>
        /\ player.pc = "count" /\ player'.pc = "out" /\ player'.samples = player.samples
        /\ samplesSinceInstantQueued' = samplesSinceInstantQueued + player.samples
        /\ instantEffect' = IF instantEffect <= samplesSinceInstantQueued' THEN NoEffect ELSE instantEffect
    BY <1>0, <1>6 DEF CountEffect, Locked, clientVars
  <2>2. client.pc # "queried"
    BY <2>1 DEF Effect
  <2>3. /\ instantEffect \in Nat /\ samplesSinceInstantQueued \in Nat /\ player.samples \in Nat
        /\ EndOf(applied) = samplesSinceInstantQueued + player.samples
    BY <2>1, <2>2 DEF Effect
  <2>4. /\ instantEffect' \in Nat /\ samplesSinceInstantQueued' \in Nat
        /\ instantEffect' # NoEffect => samplesSinceInstantQueued' < instantEffect'
    BY <2>1, <2>3
  <2>5. applied' \in Seq(Position) /\ Unbroken(applied')
    BY <2>1 DEF Effect
  <2>6. samplesSinceInstantQueued' = EndOf(applied')
    BY <2>1, <2>3
  <2> QED
    BY <2>1, <2>2, <2>3, <2>4, <2>5, <2>6 DEF Effect
<1>7. CASE ProcessReturns
  <2>1. /\ UNCHANGED <<effectVars, client>> /\ player.pc = "out"
        /\ player'.pc = "idle" /\ player'.samples = 0
    BY <1>7 DEF ProcessReturns, clientVars, Idle
  <2> QED
    BY <2>1 DEF Effect, effectVars
<1>8. CASE queryInstantEffect
  <2>1. /\ instantEffect' \in Duration /\ applied' = <<>>
        /\ UNCHANGED <<samplesSinceInstantQueued, player>>
        /\ client'.pc = "queried" /\ player.pc = "idle"
    BY <1>0, <1>8 DEF queryInstantEffect, Locked
  <2>2. <<>> \in Seq(Position) /\ Unbroken(<<>>)
    BY DEF Unbroken
  <2>3. instantEffect' \in Nat \ {0}
    BY <2>1, DspAssumption
  <2> QED
    BY <2>1, <2>2, <2>3 DEF Effect
<1>9. CASE ResetCount
  <2>1. /\ UNCHANGED <<instantEffect, applied, player>> /\ samplesSinceInstantQueued' = 0
        /\ client.pc = "queried" /\ client'.pc = "idle"
    BY <1>9 DEF ResetCount, NoCall
  <2>2. player.pc = "idle" /\ applied = <<>> /\ instantEffect # NoEffect /\ instantEffect \in Nat
    BY <2>1 DEF Effect
  <2>3. EndOf(applied') = 0
    BY <2>1, <2>2 DEF EndOf
  <2> QED
    BY <2>1, <2>2, <2>3 DEF Effect
<1>10. CASE applyPipeline \/ volumeUpdated \/ UpdateTransform \/ VolumeReturns
  <2>1. UNCHANGED <<effectVars, player>>
    BY <1>10 DEF applyPipeline, volumeUpdated, UpdateTransform, VolumeReturns
  <2>2. client.pc # "queried" /\ client'.pc # "queried"
    BY <1>0, <1>10
      DEF applyPipeline, volumeUpdated, UpdateTransform, VolumeReturns, Called, NoCall, Locked
  <2> QED
    BY <1>1, <2>1, <2>2
<1>11. CASE UNCHANGED dspVars
  <2>1. UNCHANGED <<effectVars, player, client>>
    BY <1>11 DEF dspVars, effectVars
  <2>2. client.pc = "queried" => player'.pc = "idle"
    BY <2>1 DEF Effect
  <2> QED
    BY <1>1, <2>1, <2>2
<1> QED
  BY <1>2, <1>3, <1>4, <1>5, <1>6, <1>7, <1>8, <1>9, <1>10, <1>11 DEF DspNext, Processing, Updating

LEMMA Continuous ==
  ASSUME Effect
  PROVE  EffectIsContinuous
<1> SUFFICES ASSUME player.pc = "idle", client.pc # "queried"
             PROVE  /\ applied # <<>> => applied[1][1] = 0
                    /\ \A i \in 1..(Len(applied) - 1) :
                         applied[i + 1][1] = applied[i][1] + applied[i][2]
                    /\ \A d \in Duration :
                         instantEffect = d => samplesSinceInstantQueued = Total /\ Total < d
  BY DEF EffectIsContinuous, At
<1>1. Unbroken(applied)
  BY DEF Effect
<1>2. ASSUME NEW d \in Duration, instantEffect = d
      PROVE  samplesSinceInstantQueued = EndOf(applied) /\ EndOf(applied) < d
  <2>1. instantEffect # NoEffect
    BY <1>2, DspAssumption DEF NoEffect
  <2> QED
    BY <1>2, <2>1 DEF Effect
<1>3. Total = EndOf(applied)
  BY DEF Total, EndOf
<1> QED
  BY <1>1, <1>2, <1>3 DEF Unbroken

(* A chunk goes through one pipeline's transforms as configured for one    *)
(* volume, whatever the client does meanwhile, and an effect goes on from  *)
(* chunk to chunk: for any pipelines of configurations that mean           *)
(* something, if no effect is asked for while a chunk is processed.        *)
THEOREM ChunksMeetOneConfiguration ==
  ASSUME AllMeaningful, ~QueryAnytime
  PROVE  DspSpec => []ChunksAsConfigured
<1>1. DspInit => Tuning /\ Effect
  BY TuningInit, EffectInit
<1>2. Tuning /\ Effect /\ [DspNext]_dspVars => (Tuning /\ Effect)'
  <2> SUFFICES ASSUME Tuning, Effect, [DspNext]_dspVars
               PROVE  Tuning' /\ Effect'
    OBVIOUS
  <2>1. Tuning'
    BY TuningStep
  <2>2. Effect'
    BY EffectStep
  <2> QED
    BY <2>1, <2>2
<1>3. Tuning /\ Effect => ChunksAsConfigured
  BY OneVolume, Configured, ChoosesValue, HasItsOrder, Continuous DEF ChunksAsConfigured
<1> QED
  BY <1>1, <1>2, <1>3, PTL DEF DspSpec

------------------------------------------------------------------------------
(***************************************************************************)
(* Biquad for all parameters.  What a name promises of the signals that    *)
(* are put through a filter comes down to equations between coefficients,  *)
(* linear at zero, at half the sample rate and at the filter's own         *)
(* frequency; that the filter decays, to inequalities between those it     *)
(* feeds back.                                                             *)
(***************************************************************************)
CoeffType == [b0 : Int, b1 : Int, b2 : Int, a1 : Int, a2 : Int, a0 : Int]

(* What the names promise of coefficients k.                               *)
DC(k, num) == k.b0 + k.b1 + k.b2 = (k.a0 + k.a1 + k.a2) * num
Nyquist(k, num) == k.b0 - k.b1 + k.b2 = (k.a0 - k.a1 + k.a2) * num

(* At the frequency of cosine c / one.                                     *)
Own(k, c, one, num) ==
  /\ k.b2 - k.b0 = (k.a2 - k.a0) * num
  /\ 2 * c * k.b0 + one * k.b1 = (2 * c * k.a0 + one * k.a1) * num

LEMMA ConstantSignal ==
  ASSUME filter.coeffs \in CoeffType, NEW num \in Int, DC(filter.coeffs, num)
  PROVE  AtDC(num)
<1> DEFINE k == filter.coeffs
<1>1. /\ k.b0 \in Int /\ k.b1 \in Int /\ k.b2 \in Int
      /\ k.a0 \in Int /\ k.a1 \in Int /\ k.a2 \in Int
      /\ k.b0 + k.b1 + k.b2 = (k.a0 + k.a1 + k.a2) * num
  BY DEF CoeffType, DC
<1> HIDE DEF k
<1>2. \A w : w[1] = 1 /\ w[2] = 1 =>
        /\ Filtered(k, w, 1).in = k.a0 + k.a1 + k.a2
        /\ Filtered(k, w, 1).out = k.b0 + k.b1 + k.b2
        /\ Filtered(k, w, 1).w = <<1, 1>>
  BY <1>1 DEF Filtered
<1> QED
  BY <1>1, <1>2 DEF AtDC, Amplifies, k

LEMMA HighestSignal ==
  ASSUME filter.coeffs \in CoeffType, NEW num \in Int, Nyquist(filter.coeffs, num)
  PROVE  AtNyquist(num)
<1> DEFINE k == filter.coeffs
<1>1. /\ k.b0 \in Int /\ k.b1 \in Int /\ k.b2 \in Int
      /\ k.a0 \in Int /\ k.a1 \in Int /\ k.a2 \in Int
      /\ k.b0 - k.b1 + k.b2 = (k.a0 - k.a1 + k.a2) * num
  BY DEF CoeffType, Nyquist
<1> HIDE DEF k
<1> DEFINE x == k.a0 - k.a1 + k.a2
           y == k.b0 - k.b1 + k.b2
<1>2. \A w : w[1] = 1 /\ w[2] = -1 =>
        /\ Filtered(k, w, -1).in = -x /\ Filtered(k, w, -1).out = -y
        /\ Filtered(k, w, -1).w = <<-1, 1>>
  BY <1>1 DEF Filtered
<1>3. \A w : w[1] = -1 /\ w[2] = 1 =>
        Filtered(k, w, 1).in = x /\ Filtered(k, w, 1).out = y
  BY <1>1 DEF Filtered
<1>4. x \in Int /\ y = x * num /\ -y = -x * num
  BY <1>1
<1> HIDE DEF x, y
<1> QED
  BY <1>2, <1>3, <1>4 DEF AtNyquist, Amplifies, k

LEMMA QuotientOfProduct ==
  ASSUME NEW n \in Nat \ {0}, NEW x \in Int
  PROVE  (n * x) \div n = x
<1> DEFINE q == (n * x) \div n
           r == (n * x) % n
           d == x - q
<1>1. q \in Int /\ r \in 0..(n - 1) /\ n * x = n * q + r
  OBVIOUS
<1> HIDE DEF q, r
<1>2. d \in Int /\ n * d = r
  BY <1>1
<1> HIDE DEF d
<1>3. d = 0
  <2>1. CASE d >= 1
    <3>1. n * d >= n
      BY <1>2, <2>1
    <3> QED
      BY <1>1, <1>2, <3>1
  <2>2. CASE d <= -1
    <3>1. n * d <= -n
      BY <1>2, <2>2
    <3> QED
      BY <1>1, <1>2, <3>1
  <2> QED
    BY <1>2, <2>1, <2>2
<1> QED
  BY <1>1, <1>3 DEF d, q

LEMMA OwnSignal ==
  ASSUME filter.coeffs \in CoeffType, NEW num \in Int,
         NEW c \in Int, NEW one \in Nat \ {0}, filter.p.c = c, filter.p.one = one,
         Own(filter.coeffs, c, one, num)
  PROVE  AtFrequency(num)
<1> DEFINE k == filter.coeffs
<1>1. PICK b0, b1, b2, a0, a1, a2 \in Int :
        k.b0 = b0 /\ k.b1 = b1 /\ k.b2 = b2 /\ k.a0 = a0 /\ k.a1 = a1 /\ k.a2 = a2
  BY DEF CoeffType
<1>2. /\ b2 - b0 = (a2 - a0) * num
      /\ 2 * c * b0 + one * b1 = (2 * c * a0 + one * a1) * num
  BY <1>1 DEF Own
<1> HIDE DEF k
<1>3. ASSUME NEW w, NEW d
      PROVE  /\ Filtered(k, w, d).in = a0 * d + a1 * w[1] + a2 * w[2]
             /\ Filtered(k, w, d).out = b0 * d + b1 * w[1] + b2 * w[2]
             /\ Filtered(k, w, d).w = <<d, w[1]>>
  BY <1>1 DEF Filtered
<1> DEFINE sq == one * one
           co == 2 * c * one
<1>4. sq \in Int /\ co \in Int /\ one * 1 = one /\ one * 0 = 0 /\ -sq \in Int
  OBVIOUS
<1>5. Amplifies(num, 1, <<one, 0>>, c, one)
  <2> DEFINE u == <<one * one, one * 0>>
             d == 2 * c * one - one * 0
             v == <<d, u[1]>>
             e == (2 * c * v[1] - one * v[2]) \div one
  <2>1. u[1] = sq /\ u[2] = 0 /\ d = co /\ v[1] = co /\ v[2] = sq
    OBVIOUS
  <2>2. e = 2 * c * 2 * c - sq
    <3>1. 2 * c * co - one * sq = one * (2 * c * 2 * c - sq)
      OBVIOUS
    <3>2. 2 * c * 2 * c - sq \in Int
      OBVIOUS
    <3> QED
      BY <2>1, <3>1, <3>2, QuotientOfProduct
  <2> HIDE DEF u, d, v, e
  <2>3. b0 * d + b1 * u[1] + b2 * u[2] = (a0 * d + a1 * u[1] + a2 * u[2]) * num
    <3>1. one * (2 * c * b0 + one * b1) = one * ((2 * c * a0 + one * a1) * num)
      BY <1>2
    <3>2. b0 * co + b1 * sq = one * (2 * c * b0 + one * b1)
      OBVIOUS
    <3>3. a0 * co + a1 * sq = one * (2 * c * a0 + one * a1)
      OBVIOUS
    <3> QED
      BY <2>1, <3>1, <3>2, <3>3
  <2>4. b0 * e + b1 * v[1] + b2 * v[2] = (a0 * e + a1 * v[1] + a2 * v[2]) * num
    <3>1. 2 * c * (2 * c * b0 + one * b1) = 2 * c * ((2 * c * a0 + one * a1) * num)
      BY <1>2
    <3>2. sq * (b2 - b0) = sq * ((a2 - a0) * num)
      BY <1>2
    <3>3. \A x, y, z \in Int :
            x * (2 * c * 2 * c - sq) + y * co + z * sq
              = 2 * c * (2 * c * x + one * y) + sq * (z - x)
      OBVIOUS
    <3>4. b0 * e + b1 * v[1] + b2 * v[2] = 2 * c * (2 * c * b0 + one * b1) + sq * (b2 - b0)
      BY <2>1, <2>2, <3>3
    <3>5. a0 * e + a1 * v[1] + a2 * v[2] = 2 * c * (2 * c * a0 + one * a1) + sq * (a2 - a0)
      BY <2>1, <2>2, <3>3
    <3>6. (a0 * e + a1 * v[1] + a2 * v[2]) * num
            = 2 * c * ((2 * c * a0 + one * a1) * num) + sq * ((a2 - a0) * num)
      <4> DEFINE X == 2 * c * a0 + one * a1
                 Y == a2 - a0
      <4>1. X \in Int /\ Y \in Int
        OBVIOUS
      <4>2. a0 * e + a1 * v[1] + a2 * v[2] = 2 * c * X + sq * Y
        BY <3>5
      <4> HIDE DEF X, Y
      <4>3. (2 * c * X + sq * Y) * num = 2 * c * (X * num) + sq * (Y * num)
        BY <4>1
      <4> QED
        BY <4>2, <4>3 DEF X, Y
    <3> QED
      BY <3>1, <3>2, <3>4, <3>6
  <2>5. Filtered(k, u, d).w = v
    BY <1>3 DEF v
  <2>6. Filtered(k, u, d).out * 1 = Filtered(k, u, d).in * num
    <3> DEFINE left == b0 * d + b1 * u[1] + b2 * u[2]
               right == a0 * d + a1 * u[1] + a2 * u[2]
    <3>1. left = right * num
      BY <2>3
    <3>2. left \in Int
      BY <2>1
    <3>3. Filtered(k, u, d).out = left /\ Filtered(k, u, d).in = right
      BY <1>3
    <3> HIDE DEF left, right
    <3> QED
      BY <3>1, <3>2, <3>3
  <2>7. Filtered(k, v, e).out * 1 = Filtered(k, v, e).in * num
    <3> DEFINE left == b0 * e + b1 * v[1] + b2 * v[2]
               right == a0 * e + a1 * v[1] + a2 * v[2]
    <3>1. left = right * num
      BY <2>4
    <3>2. left \in Int
      BY <2>1, <2>2
    <3>3. Filtered(k, v, e).out = left /\ Filtered(k, v, e).in = right
      BY <1>3
    <3> HIDE DEF left, right
    <3> QED
      BY <3>1, <3>2, <3>3
  <2>8. e = (2 * c * v[1] - one * v[2]) \div one
    BY DEF e
  <2> QED
    BY <2>5, <2>6, <2>7, <2>8 DEF Amplifies, u, d, k
<1>6. Amplifies(num, 1, <<0, one>>, c, one)
  <2> DEFINE u == <<one * 0, one * one>>
             d == 2 * c * 0 - one * one
             v == <<d, u[1]>>
             e == (2 * c * v[1] - one * v[2]) \div one
  <2>1. u[1] = 0 /\ u[2] = sq /\ d = -sq /\ v[1] = -sq /\ v[2] = 0
    OBVIOUS
  <2>2. e = -co
    <3>1. 2 * c * (-sq) - one * 0 = one * (-co)
      OBVIOUS
    <3>2. -co \in Int
      OBVIOUS
    <3> QED
      BY <2>1, <3>1, <3>2, QuotientOfProduct
  <2> HIDE DEF u, d, v, e
  <2>3. b0 * d + b1 * u[1] + b2 * u[2] = (a0 * d + a1 * u[1] + a2 * u[2]) * num
    <3>1. b0 * d + b1 * u[1] + b2 * u[2] = sq * (b2 - b0)
      BY <2>1
    <3>2. a0 * d + a1 * u[1] + a2 * u[2] = sq * (a2 - a0)
      BY <2>1
    <3>3. sq * (b2 - b0) = sq * ((a2 - a0) * num)
      BY <1>2
    <3>4. (sq * (a2 - a0)) * num = sq * ((a2 - a0) * num)
      OBVIOUS
    <3> QED
      BY <3>1, <3>2, <3>3, <3>4
  <2>4. b0 * e + b1 * v[1] + b2 * v[2] = (a0 * e + a1 * v[1] + a2 * v[2]) * num
    <3>1. one * (2 * c * b0 + one * b1) = one * ((2 * c * a0 + one * a1) * num)
      BY <1>2
    <3>2. b0 * e + b1 * v[1] + b2 * v[2] = -(one * (2 * c * b0 + one * b1))
      BY <2>1, <2>2
    <3>3. a0 * e + a1 * v[1] + a2 * v[2] = -(one * (2 * c * a0 + one * a1))
      BY <2>1, <2>2
    <3>4. (-(one * (2 * c * a0 + one * a1))) * num = -(one * ((2 * c * a0 + one * a1) * num))
      OBVIOUS
    <3> QED
      BY <3>1, <3>2, <3>3, <3>4
  <2>5. Filtered(k, u, d).w = v
    BY <1>3 DEF v
  <2>6. Filtered(k, u, d).out * 1 = Filtered(k, u, d).in * num
    <3> DEFINE left == b0 * d + b1 * u[1] + b2 * u[2]
               right == a0 * d + a1 * u[1] + a2 * u[2]
    <3>1. left = right * num
      BY <2>3
    <3>2. left \in Int
      BY <2>1
    <3>3. Filtered(k, u, d).out = left /\ Filtered(k, u, d).in = right
      BY <1>3
    <3> HIDE DEF left, right
    <3> QED
      BY <3>1, <3>2, <3>3
  <2>7. Filtered(k, v, e).out * 1 = Filtered(k, v, e).in * num
    <3> DEFINE left == b0 * e + b1 * v[1] + b2 * v[2]
               right == a0 * e + a1 * v[1] + a2 * v[2]
    <3>1. left = right * num
      BY <2>4
    <3>2. left \in Int
      BY <2>1, <2>2
    <3>3. Filtered(k, v, e).out = left /\ Filtered(k, v, e).in = right
      BY <1>3
    <3> HIDE DEF left, right
    <3> QED
      BY <3>1, <3>2, <3>3
  <2>8. e = (2 * c * v[1] - one * v[2]) \div one
    BY DEF e
  <2> QED
    BY <2>5, <2>6, <2>7, <2>8 DEF Amplifies, u, d, k
<1>7. \A w \in {<<1, 0>>, <<0, 1>>} :
        <<one * w[1], one * w[2]>> = <<one, 0>> \/ <<one * w[1], one * w[2]>> = <<0, one>>
  BY <1>4
<1> QED
  BY <1>5, <1>6, <1>7 DEF AtFrequency

(***************************************************************************)
(* Each type's coefficients.                                               *)
(***************************************************************************)
Decays(k) ==
  /\ k.a0 > 0
  /\ -k.a0 < k.a2 /\ k.a2 < k.a0
  /\ -(k.a0 + k.a2) < k.a1 /\ k.a1 < k.a0 + k.a2

LEMMA ParameterFacts ==
  ASSUME NEW p \in Parameters
  PROVE  /\ p.one \in Nat \ {0} /\ p.A \in Nat \ {0} /\ p.alpha \in Nat \ {0}
         /\ p.beta \in Nat \ {0} /\ p.k \in Nat \ {0}
         /\ p.c \in Int /\ -p.one < p.c /\ p.c < p.one
BY ParametersAssumption

LEMMA Passes ==
  ASSUME NEW p \in Parameters
  PROVE  /\ LET k == highPassCoEffs(p)
            IN  k \in CoeffType /\ DC(k, 0) /\ Nyquist(k, 1) /\ Decays(k)
         /\ LET k == highPassFOCoEffs(p)
            IN  k \in CoeffType /\ DC(k, 0) /\ Nyquist(k, 1) /\ Decays(k)
         /\ LET k == lowPassCoEffs(p)
            IN  k \in CoeffType /\ DC(k, 1) /\ Nyquist(k, 0) /\ Decays(k)
         /\ LET k == lowPassFOCoEffs(p)
            IN  k \in CoeffType /\ DC(k, 1) /\ Nyquist(k, 0) /\ Decays(k)
<1>1. PICK one, alpha, kk, c \in Int :
        /\ p.one = one /\ p.alpha = alpha /\ p.k = kk /\ p.c = c
        /\ one > 0 /\ alpha > 0 /\ kk > 0 /\ -one < c /\ c < one
  BY ParameterFacts
<1>2. LET k == highPassCoEffs(p)
      IN  k \in CoeffType /\ DC(k, 0) /\ Nyquist(k, 1) /\ Decays(k)
  BY <1>1 DEF highPassCoEffs, normalizeCoEffs, CoeffType, DC, Nyquist, Decays
<1>3. LET k == highPassFOCoEffs(p)
      IN  k \in CoeffType /\ DC(k, 0) /\ Nyquist(k, 1) /\ Decays(k)
  BY <1>1 DEF highPassFOCoEffs, normalizeCoEffs, CoeffType, DC, Nyquist, Decays
<1>4. LET k == lowPassCoEffs(p)
      IN  k \in CoeffType /\ DC(k, 1) /\ Nyquist(k, 0) /\ Decays(k)
  BY <1>1 DEF lowPassCoEffs, normalizeCoEffs, CoeffType, DC, Nyquist, Decays
<1>5. LET k == lowPassFOCoEffs(p)
      IN  k \in CoeffType /\ DC(k, 1) /\ Nyquist(k, 0) /\ Decays(k)
  BY <1>1 DEF lowPassFOCoEffs, normalizeCoEffs, CoeffType, DC, Nyquist, Decays
<1> QED
  BY <1>2, <1>3, <1>4, <1>5

LEMMA NarrowFilters ==
  ASSUME NEW p \in Parameters
  PROVE  /\ LET k == notchCoEffs(p)
            IN  /\ k \in CoeffType /\ DC(k, 1) /\ Nyquist(k, 1)
                /\ Own(k, p.c, p.one, 0) /\ Decays(k)
         /\ LET k == bandPassCoEffs(p)
            IN  /\ k \in CoeffType /\ DC(k, 0) /\ Nyquist(k, 0)
                /\ Own(k, p.c, p.one, 1) /\ Decays(k)
         /\ LET k == allPassCoEffs(p)
            IN  k \in CoeffType /\ DC(k, 1) /\ Nyquist(k, 1) /\ Decays(k)
         /\ LET k == allPassFOCoEffs(p)
            IN  p.k # p.one => k \in CoeffType /\ DC(k, 1) /\ Nyquist(k, -1) /\ Decays(k)
<1>1. PICK one, alpha, kk, c \in Int :
        /\ p.one = one /\ p.alpha = alpha /\ p.k = kk /\ p.c = c
        /\ one > 0 /\ alpha > 0 /\ kk > 0 /\ -one < c /\ c < one
  BY ParameterFacts
<1>2. LET k == notchCoEffs(p)
      IN  /\ k \in CoeffType /\ DC(k, 1) /\ Nyquist(k, 1)
          /\ Own(k, p.c, p.one, 0) /\ Decays(k)
  BY <1>1 DEF notchCoEffs, normalizeCoEffs, CoeffType, DC, Nyquist, Own, Decays
<1>3. LET k == bandPassCoEffs(p)
      IN  /\ k \in CoeffType /\ DC(k, 0) /\ Nyquist(k, 0)
          /\ Own(k, p.c, p.one, 1) /\ Decays(k)
  BY <1>1 DEF bandPassCoEffs, normalizeCoEffs, CoeffType, DC, Nyquist, Own, Decays
<1>4. LET k == allPassCoEffs(p)
      IN  k \in CoeffType /\ DC(k, 1) /\ Nyquist(k, 1) /\ Decays(k)
  BY <1>1 DEF allPassCoEffs, normalizeCoEffs, CoeffType, DC, Nyquist, Decays
<1>5. LET k == allPassFOCoEffs(p)
      IN  p.k # p.one => k \in CoeffType /\ DC(k, 1) /\ Nyquist(k, -1) /\ Decays(k)
  BY <1>1 DEF allPassFOCoEffs, normalizeCoEffs, CoeffType, DC, Nyquist, Decays
<1> QED
  BY <1>2, <1>3, <1>4, <1>5

LEMMA ScaledBound ==
  ASSUME NEW a \in Nat \ {0}, NEW c \in Int, NEW n \in Int, -n < c, c < n
  PROVE  a * n > 0 /\ -(a * n) < a * c /\ a * c < a * n
<1>1. n > 0 /\ n - c >= 1 /\ n + c >= 1
  OBVIOUS
<1>2. a * (n - c) >= 1 /\ a * (n + c) >= 1 /\ a * n >= 1
  BY <1>1
<1>3. a * (n - c) = a * n - a * c /\ a * (n + c) = a * n + a * c
  OBVIOUS
<1>4. a * n \in Int /\ a * c \in Int
  OBVIOUS
<1> QED
  BY <1>2, <1>3, <1>4

LEMMA Peak ==
  ASSUME NEW p \in Parameters
  PROVE  LET k == peakCoEffs(p)
         IN  /\ k \in CoeffType /\ DC(k, 1) /\ Nyquist(k, 1)
             /\ Own(k, p.c, p.one, p.A * p.A) /\ Decays(k)
<1>1. PICK one, A, alpha, c \in Int :
        /\ p.one = one /\ p.A = A /\ p.alpha = alpha /\ p.c = c
        /\ one > 0 /\ A > 0 /\ alpha > 0 /\ -one < c /\ c < one
  BY ParameterFacts
<1>2. PICK x, y, z \in Int : x = one * A /\ y = c * A /\ z = alpha * A * A
  BY <1>1
<1>3. x > 0 /\ -x < y /\ y < x
  <2>1. A * one > 0 /\ -(A * one) < A * c /\ A * c < A * one
    BY <1>1, ScaledBound
  <2> QED
    BY <1>2, <2>1
<1> DEFINE k == peakCoEffs(p)
<1>4. /\ k.a0 = x + alpha /\ k.a1 = -2 * y /\ k.a2 = x - alpha
      /\ k.b0 = x + z /\ k.b1 = -2 * y /\ k.b2 = x - z /\ k \in CoeffType
  BY <1>1, <1>2 DEF peakCoEffs, normalizeCoEffs, CoeffType
<1> HIDE DEF k
<1>5. DC(k, 1) /\ Nyquist(k, 1)
  BY <1>4 DEF DC, Nyquist
<1>6. Decays(k)
  BY <1>1, <1>3, <1>4 DEF Decays
<1>7. Own(k, c, one, A * A)
  <2>1. k.b2 - k.b0 = (k.a2 - k.a0) * (A * A)
    <3>1. k.b2 - k.b0 = -2 * z /\ k.a2 - k.a0 = -2 * alpha
      BY <1>1, <1>2, <1>4
    <3>2. (-2 * alpha) * (A * A) = -2 * (alpha * A * A)
      OBVIOUS
    <3> QED
      BY <1>2, <3>1, <3>2
  <2>2. 2 * c * k.b0 + one * k.b1 = 2 * (c * z)
    <3>1. 2 * c * (x + z) + one * (-2 * y) = 2 * (c * x) - 2 * (one * y) + 2 * (c * z)
      BY <1>1
    <3>2. c * x = one * y
      BY <1>2
    <3> QED
      BY <1>4, <3>1, <3>2
  <2>3. 2 * c * k.a0 + one * k.a1 = 2 * (c * alpha)
    <3>1. 2 * c * (x + alpha) + one * (-2 * y) = 2 * (c * x) - 2 * (one * y) + 2 * (c * alpha)
      BY <1>1
    <3>2. c * x = one * y
      BY <1>2
    <3> QED
      BY <1>4, <3>1, <3>2
  <2>4. 2 * (c * z) = (2 * (c * alpha)) * (A * A)
    BY <1>2
  <2> QED
    BY <2>1, <2>2, <2>3, <2>4 DEF Own
<1> QED
  BY <1>1, <1>4, <1>5, <1>6, <1>7 DEF k

LEMMA Shelves ==
  ASSUME NEW p \in Parameters, ~(p.slope > 0 /\ Root(p) <= 0)
  PROVE  /\ LET k == highShelfCoEffs(p)
            IN  k \in CoeffType /\ DC(k, 1) /\ Nyquist(k, p.A * p.A) /\ Decays(k)
         /\ LET k == lowShelfCoEffs(p)
            IN  k \in CoeffType /\ DC(k, p.A * p.A) /\ Nyquist(k, 1) /\ Decays(k)
<1>1. PICK one, A, beta, c \in Int :
        /\ p.one = one /\ p.A = A /\ p.beta = beta /\ p.c = c
        /\ one > 0 /\ A > 0 /\ beta > 0 /\ -one < c /\ c < one
  BY ParameterFacts
<1>0. HasRoot(p) /\ Beta(p) = beta
  <2>1. p.slope \in Nat /\ Root(p) \in Int
    BY <1>1, ParametersAssumption DEF Root
  <2> QED
    BY <1>1, <2>1 DEF HasRoot, Beta
(* x and y are the sums (A + 1) * one and (A - 1) * c, u and v those with  *)
(* the signs changed.                                                      *)
<1>2. PICK x, y, u, v, Aone, Ac \in Int :
        /\ x = (A + 1) * one /\ y = (A - 1) * c /\ u = (A - 1) * one /\ v = (A + 1) * c
        /\ Aone = A * one /\ Ac = A * c
  BY <1>1
<1>3. /\ x = Aone + one /\ y = Ac - c /\ u = Aone - one /\ v = Ac + c
      /\ Aone > 0 /\ -Aone < Ac /\ Ac < Aone
  <2>1. A * one > 0 /\ -(A * one) < A * c /\ A * c < A * one
    BY <1>1, ScaledBound
  <2>2. /\ (A + 1) * one = A * one + one /\ (A - 1) * c = A * c - c
        /\ (A - 1) * one = A * one - one /\ (A + 1) * c = A * c + c
    OBVIOUS
  <2> QED
    BY <1>2, <2>1, <2>2
<1>4. 0 < x - y /\ 0 < x + y
  <2>1. (A - 1) * one >= 0 /\ (A - 1) * (one - c) >= 0 /\ (A - 1) * (one + c) >= 0
    BY <1>1
  <2>2. /\ (A - 1) * (one - c) = u - y /\ (A - 1) * (one + c) = u + y
    BY <1>2
  <2>3. x = u + 2 * one
    BY <1>3
  <2> QED
    BY <1>1, <1>2, <2>1, <2>2, <2>3
<1>5. LET k == highShelfCoEffs(p)
      IN  k \in CoeffType /\ DC(k, 1) /\ Nyquist(k, p.A * p.A) /\ Decays(k)
  <2> DEFINE k == highShelfCoEffs(p)
  <2>1. /\ k.a0 = x - y + beta /\ k.a1 = 2 * (u - v) /\ k.a2 = x - y - beta
        /\ k.b0 = A * (x + y + beta) /\ k.b1 = -2 * A * (u + v) /\ k.b2 = A * (x + y - beta)
        /\ k \in CoeffType
    BY <1>0, <1>1, <1>2 DEF highShelfCoEffs, normalizeCoEffs, CoeffType
  <2> HIDE DEF k
  <2>2. /\ k.b0 + k.b1 + k.b2 = A * (2 * (x + y) - 2 * (u + v))
        /\ k.b0 - k.b1 + k.b2 = A * (2 * (x + y) + 2 * (u + v))
    BY <2>1
  <2>3. /\ 2 * (x + y) - 2 * (u + v) = 4 * (one - c)
        /\ 2 * (x + y) + 2 * (u + v) = 4 * (Aone + Ac)
    BY <1>3
  <2>4. k.a0 + k.a1 + k.a2 = 4 * (Aone - Ac) /\ k.a0 - k.a1 + k.a2 = 4 * (one + c)
    BY <1>1, <1>3, <2>1
  <2>5. DC(k, 1)
    <3>1. A * (4 * (one - c)) = 4 * (Aone - Ac)
      BY <1>2
    <3> QED
      BY <2>2, <2>3, <2>4, <3>1 DEF DC
  <2>6. Nyquist(k, A * A)
    <3>1. A * (4 * (Aone + Ac)) = (4 * (one + c)) * (A * A)
      BY <1>2
    <3> QED
      BY <2>2, <2>3, <2>4, <3>1 DEF Nyquist
  <2>7. Decays(k)
    BY <1>1, <1>3, <1>4, <2>1 DEF Decays
  <2> QED
    BY <1>1, <2>1, <2>5, <2>6, <2>7 DEF k
<1>6. LET k == lowShelfCoEffs(p)
      IN  k \in CoeffType /\ DC(k, p.A * p.A) /\ Nyquist(k, 1) /\ Decays(k)
  <2> DEFINE k == lowShelfCoEffs(p)
  <2>1. /\ k.a0 = x + y + beta /\ k.a1 = -2 * (u + v) /\ k.a2 = x + y - beta
        /\ k.b0 = A * (x - y + beta) /\ k.b1 = 2 * A * (u - v) /\ k.b2 = A * (x - y - beta)
        /\ k \in CoeffType
    BY <1>0, <1>1, <1>2 DEF lowShelfCoEffs, normalizeCoEffs, CoeffType
  <2> HIDE DEF k
  <2>2. /\ k.b0 + k.b1 + k.b2 = A * (2 * (x - y) + 2 * (u - v))
        /\ k.b0 - k.b1 + k.b2 = A * (2 * (x - y) - 2 * (u - v))
    BY <2>1
  <2>3. /\ 2 * (x - y) + 2 * (u - v) = 4 * (Aone - Ac)
        /\ 2 * (x - y) - 2 * (u - v) = 4 * (one + c)
    BY <1>3
  <2>4. k.a0 + k.a1 + k.a2 = 4 * (one - c) /\ k.a0 - k.a1 + k.a2 = 4 * (Aone + Ac)
    BY <1>1, <1>3, <2>1
  <2>5. DC(k, A * A)
    <3>1. A * (4 * (Aone - Ac)) = (4 * (one - c)) * (A * A)
      BY <1>2
    <3> QED
      BY <2>2, <2>3, <2>4, <3>1 DEF DC
  <2>6. Nyquist(k, 1)
    <3>1. A * (4 * (one + c)) = 4 * (Aone + Ac)
      BY <1>2
    <3> QED
      BY <2>2, <2>3, <2>4, <3>1 DEF Nyquist
  <2>7. Decays(k)
    BY <1>1, <1>3, <1>4, <2>1 DEF Decays
  <2> QED
    BY <1>1, <2>1, <2>5, <2>6, <2>7 DEF k
<1> QED
  BY <1>5, <1>6

LEMMA FirstOrderShelves ==
  ASSUME NEW p \in Parameters
  PROVE  /\ LET k == highShelfFOCoEffs(p)
            IN  k \in CoeffType /\ DC(k, 1) /\ Nyquist(k, p.A * p.A) /\ Decays(k)
         /\ LET k == lowShelfFOCoEffs(p)
            IN  k \in CoeffType /\ DC(k, p.A * p.A) /\ Nyquist(k, 1) /\ Decays(k)
<1>1. PICK one, A, kk \in Int :
        /\ p.one = one /\ p.A = A /\ p.k = kk /\ one > 0 /\ A > 0 /\ kk > 0
  BY ParameterFacts
<1>2. PICK x, y \in Int : x = A * kk /\ y = A * one
  BY <1>1
<1>3. x > 0 /\ y > 0
  BY <1>1, <1>2
<1>4. LET k == highShelfFOCoEffs(p)
      IN  k \in CoeffType /\ DC(k, 1) /\ Nyquist(k, p.A * p.A) /\ Decays(k)
  <2> DEFINE k == highShelfFOCoEffs(p)
  <2>1. /\ k.a0 = x + one /\ k.a1 = x - one /\ k.a2 = 0
        /\ k.b0 = x + A * y /\ k.b1 = x - A * y /\ k.b2 = 0 /\ k \in CoeffType
    BY <1>1, <1>2 DEF highShelfFOCoEffs, normalizeCoEffs, CoeffType
  <2> HIDE DEF k
  <2>2. PICK z \in Int : z = A * y /\ z = one * (A * A)
    BY <1>1, <1>2
  <2>3. DC(k, 1) /\ Decays(k)
    BY <1>1, <1>3, <2>1, <2>2 DEF DC, Decays
  <2>4. Nyquist(k, A * A)
    <3>1. k.b0 - k.b1 + k.b2 = 2 * z /\ k.a0 - k.a1 + k.a2 = 2 * one
      BY <1>1, <2>1, <2>2
    <3>2. 2 * z = (2 * one) * (A * A)
      BY <2>2
    <3> QED
      BY <3>1, <3>2 DEF Nyquist
  <2> QED
    BY <1>1, <2>1, <2>3, <2>4 DEF k
<1>5. LET k == lowShelfFOCoEffs(p)
      IN  k \in CoeffType /\ DC(k, p.A * p.A) /\ Nyquist(k, 1) /\ Decays(k)
  <2> DEFINE k == lowShelfFOCoEffs(p)
  <2>1. /\ k.a0 = kk + y /\ k.a1 = kk - y /\ k.a2 = 0
        /\ k.b0 = A * x + y /\ k.b1 = A * x - y /\ k.b2 = 0 /\ k \in CoeffType
    BY <1>1, <1>2 DEF lowShelfFOCoEffs, normalizeCoEffs, CoeffType
  <2> HIDE DEF k
  <2>2. PICK z \in Int : z = A * x /\ z = kk * (A * A)
    BY <1>1, <1>2
  <2>3. Nyquist(k, 1) /\ Decays(k)
    BY <1>1, <1>3, <2>1, <2>2 DEF Nyquist, Decays
  <2>4. DC(k, A * A)
    <3>1. k.b0 + k.b1 + k.b2 = 2 * z /\ k.a0 + k.a1 + k.a2 = 2 * kk
      BY <1>1, <2>1, <2>2
    <3>2. 2 * z = (2 * kk) * (A * A)
      BY <2>2
    <3> QED
      BY <3>1, <3>2 DEF DC
  <2> QED
    BY <1>1, <2>1, <2>3, <2>4 DEF k
<1> QED
  BY <1>4, <1>5

(***************************************************************************)
(* The filter always has the coefficients of its type.                     *)
(***************************************************************************)
FilterInv ==
  /\ filter.type \in Type /\ filter.p \in Parameters
  /\ filter.coeffs = Coefficients(filter.type, filter.p)
  /\ filter = [type |-> filter.type, p |-> filter.p, coeffs |-> filter.coeffs]

LEMMA CoefficientsOf ==
  ASSUME NEW p
  PROVE  /\ Coefficients("Highpass", p) = highPassCoEffs(p)
         /\ Coefficients("HighpassFO", p) = highPassFOCoEffs(p)
         /\ Coefficients("Lowpass", p) = lowPassCoEffs(p)
         /\ Coefficients("LowpassFO", p) = lowPassFOCoEffs(p)
         /\ Coefficients("Peaking", p) = peakCoEffs(p)
         /\ Coefficients("Highshelf", p) = highShelfCoEffs(p)
         /\ Coefficients("HighshelfFO", p) = highShelfFOCoEffs(p)
         /\ Coefficients("Lowshelf", p) = lowShelfCoEffs(p)
         /\ Coefficients("LowshelfFO", p) = lowShelfFOCoEffs(p)
         /\ Coefficients("Notch", p) = notchCoEffs(p)
         /\ Coefficients("Bandpass", p) = bandPassCoEffs(p)
         /\ Coefficients("Allpass", p) = allPassCoEffs(p)
         /\ Coefficients("AllpassFO", p) = allPassFOCoEffs(p)
BY DEF Coefficients

LEMMA FilterShaped ==
  ASSUME FilterInv
  PROVE  FiltersAsNamed
<1> DEFINE p == filter.p
           k == filter.coeffs
           gain == p.A * p.A
<1>0. SUFFICES ASSUME ~Impossible(filter.type, p)
      PROVE FilterShapes /\ Stable
  BY DEF FiltersAsNamed
<1>1. p \in Parameters /\ filter.type \in Type /\ k = Coefficients(filter.type, p)
  BY DEF FilterInv
<1>2. gain \in Int /\ 0 \in Int /\ 1 \in Int /\ -1 \in Int
      /\ p.c \in Int /\ p.one \in Nat \ {0}
  BY <1>1, ParameterFacts
<1>3. ASSUME Decays(k) PROVE Stable
  BY <1>3 DEF Decays, Stable
<1> HIDE DEF p, k, gain
<1>4. CASE filter.type = "Highpass" \/ filter.type = "HighpassFO"
  <2>1. k \in CoeffType /\ DC(k, 0) /\ Nyquist(k, 1) /\ Decays(k)
    BY <1>1, <1>4, Passes, CoefficientsOf
  <2>2. AtDC(0) /\ AtNyquist(1)
    BY <1>2, <2>1, ConstantSignal, HighestSignal DEF k
  <2> QED
    BY <1>3, <1>4, <2>1, <2>2 DEF FilterShapes
<1>5. CASE filter.type = "Lowpass" \/ filter.type = "LowpassFO"
  <2>1. k \in CoeffType /\ DC(k, 1) /\ Nyquist(k, 0) /\ Decays(k)
    BY <1>1, <1>5, Passes, CoefficientsOf
  <2>2. AtDC(1) /\ AtNyquist(0)
    BY <1>2, <2>1, ConstantSignal, HighestSignal DEF k
  <2> QED
    BY <1>3, <1>5, <2>1, <2>2 DEF FilterShapes
<1>6. CASE filter.type = "Highshelf" \/ filter.type = "HighshelfFO"
  <2>1. k \in CoeffType /\ DC(k, 1) /\ Nyquist(k, gain) /\ Decays(k)
    BY <1>0, <1>1, <1>6, Shelves, FirstOrderShelves, CoefficientsOf DEF gain, Impossible
  <2>2. AtDC(1) /\ AtNyquist(gain)
    BY <1>2, <2>1, ConstantSignal, HighestSignal DEF k
  <2> QED
    BY <1>3, <1>6, <2>1, <2>2 DEF FilterShapes, gain, p
<1>7. CASE filter.type = "Lowshelf" \/ filter.type = "LowshelfFO"
  <2>1. k \in CoeffType /\ DC(k, gain) /\ Nyquist(k, 1) /\ Decays(k)
    BY <1>0, <1>1, <1>7, Shelves, FirstOrderShelves, CoefficientsOf DEF gain, Impossible
  <2>2. AtDC(gain) /\ AtNyquist(1)
    BY <1>2, <2>1, ConstantSignal, HighestSignal DEF k
  <2> QED
    BY <1>3, <1>7, <2>1, <2>2 DEF FilterShapes, gain, p
<1>8. CASE filter.type = "Peaking"
  <2>1. k \in CoeffType /\ DC(k, 1) /\ Nyquist(k, 1) /\ Own(k, p.c, p.one, gain) /\ Decays(k)
    BY <1>1, <1>8, Peak, CoefficientsOf DEF gain
  <2>2. AtDC(1) /\ AtNyquist(1) /\ AtFrequency(gain)
    BY <1>2, <2>1, ConstantSignal, HighestSignal, OwnSignal DEF k, p
  <2> QED
    BY <1>3, <1>8, <2>1, <2>2 DEF FilterShapes, gain, p
<1>9. CASE filter.type = "Notch"
  <2>1. k \in CoeffType /\ DC(k, 1) /\ Nyquist(k, 1) /\ Own(k, p.c, p.one, 0) /\ Decays(k)
    BY <1>1, <1>9, NarrowFilters, CoefficientsOf
  <2>2. AtDC(1) /\ AtNyquist(1) /\ AtFrequency(0)
    BY <1>2, <2>1, ConstantSignal, HighestSignal, OwnSignal DEF k, p
  <2> QED
    BY <1>3, <1>9, <2>1, <2>2 DEF FilterShapes
<1>10. CASE filter.type = "Bandpass"
  <2>1. k \in CoeffType /\ DC(k, 0) /\ Nyquist(k, 0) /\ Own(k, p.c, p.one, 1) /\ Decays(k)
    BY <1>1, <1>10, NarrowFilters, CoefficientsOf
  <2>2. AtDC(0) /\ AtNyquist(0) /\ AtFrequency(1)
    BY <1>2, <2>1, ConstantSignal, HighestSignal, OwnSignal DEF k, p
  <2> QED
    BY <1>3, <1>10, <2>1, <2>2 DEF FilterShapes
<1>11. CASE filter.type = "Allpass"
  <2>1. k \in CoeffType /\ DC(k, 1) /\ Nyquist(k, 1) /\ Decays(k)
    BY <1>1, <1>11, NarrowFilters, CoefficientsOf
  <2>2. AtDC(1) /\ AtNyquist(1)
    BY <1>2, <2>1, ConstantSignal, HighestSignal DEF k
  <2> QED
    BY <1>3, <1>11, <2>1, <2>2 DEF FilterShapes
<1>12. CASE filter.type = "AllpassFO"
  <2>1. k \in CoeffType /\ DC(k, 1) /\ Nyquist(k, -1) /\ Decays(k)
    BY <1>0, <1>1, <1>12, NarrowFilters, CoefficientsOf DEF Impossible
  <2>2. AtDC(1) /\ AtNyquist(-1)
    BY <1>2, <2>1, ConstantSignal, HighestSignal DEF k
  <2> QED
    BY <1>3, <1>12, <2>1, <2>2 DEF FilterShapes
<1> QED
  BY <1>1, <1>4, <1>5, <1>6, <1>7, <1>8, <1>9, <1>10, <1>11, <1>12 DEF Type

(* Every filter type does what its name says and is stable, for every      *)
(* frequency, quality, slope and gain, but for the two where the code      *)
(* divides by zero or takes the root of what is not positive: an all-pass  *)
(* of first order whose tangent is one, and a slope too steep for its gain *)
(* (Biquad.cpp:223 and 398).                                               *)
THEOREM FiltersDoAsNamed == FilterInit /\ [][FilterNext]_filter => []FiltersAsNamed
<1>1. FilterInit => FilterInv
  BY DEF FilterInit, FilterInv
<1>2. FilterInv /\ [FilterNext]_filter => FilterInv'
  <2> SUFFICES ASSUME FilterInv, [FilterNext]_filter PROVE FilterInv'
    OBVIOUS
  <2>1. CASE UNCHANGED filter
    BY <2>1 DEF FilterInv
  <2>2. ASSUME NEW type \in Type, configure(type) PROVE FilterInv'
    <3> DEFINE k == Coefficients(type, filter.p)
    <3>1. filter' = [type |-> type, p |-> filter.p, coeffs |-> k] /\ filter.p \in Parameters
      BY <2>2 DEF configure, FilterInv
    <3>2. filter'.type = type /\ filter'.p = filter.p /\ filter'.coeffs = k
      BY <3>1
    <3> HIDE DEF k
    <3>3. filter' = [type |-> filter'.type, p |-> filter'.p, coeffs |-> filter'.coeffs]
      BY <3>1, <3>2
    <3>4. filter'.coeffs = Coefficients(filter'.type, filter'.p)
      BY <3>2 DEF k
    <3> QED
      BY <3>1, <3>2, <3>3, <3>4 DEF FilterInv
  <2> QED
    BY <2>1, <2>2 DEF FilterNext
<1>3. FilterInv => FiltersAsNamed
  BY FilterShaped
<1> QED
  BY <1>1, <1>2, <1>3, PTL
=============================================================================
