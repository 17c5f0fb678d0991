------------------------- MODULE FoundationsProofs -------------------------
(***************************************************************************)
(* The components the rest is built on, for every value of their constants:*)
(* the ring of bytes, streams of integers, the certificate bundle,         *)
(* restarted tasks and semaphores, each with the inductive invariant its   *)
(* theorem rests on.                                                       *)
(***************************************************************************)
EXTENDS CircularBuffer, BinaryStreams, CertBundle, BellTask, Semaphores,
        SequenceFacts, FiniteSetTheorems, SequenceTheorems, TLAPS

(***************************************************************************)
(* CircularBuffer for every capacity, every set of byte values and every   *)
(* size of request.  The two named invariants are inductive together; the  *)
(* refinement of the bounded queue, whose state is Contents, then takes    *)
(* one step per member function and compares sequences byte by byte.       *)
(***************************************************************************)
(* What a caller may pass is a sequence of bytes.                          *)
LEMMA RequestIsSeq ==
  ASSUME NEW data \in Request
  PROVE  /\ data \in Seq(Byte)
         /\ Len(data) \in 0..MaxRequest
         /\ DOMAIN data = 1..Len(data)
         /\ \A i \in 1..Len(data) : data[i] \in Byte
<1>1. PICK n \in 0..MaxRequest : data \in [1..n -> Byte]
  BY DEF Request
<1>2. n \in Nat
  BY <1>1, RingAssumption
<1>3. data \in Seq(Byte) /\ Len(data) = n
  BY <1>1, <1>2
<1> QED
  BY <1>1, <1>2, <1>3

(* write's memcpy of bytes that are there keeps the storage a storage.     *)
LEMMA CopyInType ==
  ASSUME NEW store \in [Offset -> Byte], NEW data \in Seq(Byte),
         NEW at \in Nat, NEW from \in Nat, NEW many \in Nat,
         from + many <= Len(data)
  PROVE  CopyIn(store, at, data, from, many) \in [Offset -> Byte]
<1> SUFFICES ASSUME NEW i \in Offset, at <= i, i < at + many
             PROVE  data[from + (i - at) + 1] \in Byte
  BY DEF CopyIn
<1>1. from + (i - at) + 1 \in 1..Len(data)
  BY RingAssumption DEF Offset
<1> QED
  BY <1>1


(* The constructor and the member functions, one lemma for each that       *)
(* changes the ring.                                                       *)
LEMMA InitInv == Init => RingInv
BY RingAssumption DEF Init, RingInv, TypeOK, IndicesAgree, Offset

LEMMA WriteInv ==
  ASSUME RingInv, NEW data \in Request, Write(data)
  PROVE  RingInv'
<1> DEFINE n == Smaller(Len(data), dataCapacity - dataSize)
           first == dataCapacity - endIndex
<1>1. /\ data \in Seq(Byte)
      /\ Len(data) \in Nat \ {0}
      /\ n \in Nat
      /\ n <= Len(data)
      /\ n <= dataCapacity - dataSize
      /\ n = 0 => dataSize = dataCapacity
  BY RequestIsSeq, RingAssumption DEF Smaller, RingInv, TypeOK, Write
<1>2. /\ dataSize' = dataSize + n
      /\ begIndex' = begIndex
  BY DEF Write
<1>3. CASE WriteInOneStep(data, n)
  <2>1. buffer' \in [Offset -> Byte]
    BY <1>1, <1>3, CopyInType, RingAssumption DEF WriteInOneStep, RingInv, TypeOK
  <2> HIDE DEF n
  <2> QED
    BY <1>1, <1>2, <1>3, <2>1, RingAssumption
    DEF WriteInOneStep, RingInv, TypeOK, IndicesAgree, Offset
<1>4. CASE WriteInTwoSteps(data, n)
  <2>1. first \in Nat /\ n - first \in Nat
    BY <1>1, <1>4, RingAssumption DEF WriteInTwoSteps, RingInv, TypeOK
  <2>2. CopyIn(buffer, endIndex, data, 0, first) \in [Offset -> Byte]
    BY <1>1, <2>1, CopyInType, RingAssumption DEF RingInv, TypeOK
  <2>3. buffer' \in [Offset -> Byte]
    BY <1>1, <1>4, <2>1, <2>2, CopyInType DEF WriteInTwoSteps
  <2> HIDE DEF n
  <2> QED
    BY <1>1, <1>2, <1>4, <2>3, RingAssumption
    DEF WriteInTwoSteps, RingInv, TypeOK, IndicesAgree, Offset
<1> QED
  BY <1>3, <1>4 DEF Write

LEMMA ReadInv ==
  ASSUME RingInv, NEW bytes \in 0..MaxRequest, Read(bytes)
  PROVE  RingInv'
BY RingAssumption
DEF RingInv, TypeOK, IndicesAgree, Offset, Read, ReadInOneStep, ReadInTwoSteps,
    Smaller

LEMMA EmptyExceptInv ==
  ASSUME RingInv, NEW sizeToSet \in 0..MaxRequest, EmptyExcept(sizeToSet)
  PROVE  RingInv'
BY RingAssumption
DEF RingInv, TypeOK, IndicesAgree, Offset, EmptyExcept, Smaller

LEMMA EmptyBufferInv == RingInv /\ EmptyBuffer => RingInv'
BY RingAssumption DEF RingInv, TypeOK, IndicesAgree, Offset, EmptyBuffer

LEMMA StepInv == RingInv /\ [Next]_vars => RingInv'
<1> SUFFICES ASSUME RingInv, [Next]_vars PROVE RingInv'
  OBVIOUS
<1>1. CASE \E data \in Request : Write(data)
  BY <1>1, WriteInv
<1>2. CASE EmptyBuffer
  BY <1>2, EmptyBufferInv
<1>3. CASE \E n \in 0..MaxRequest : EmptyExcept(n) \/ Read(n)
  BY <1>3, EmptyExceptInv, ReadInv
<1>4. CASE WriteNothing \/ ReadNothing
  BY <1>4 DEF WriteNothing, ReadNothing, RingInv, TypeOK, IndicesAgree
<1>5. CASE UNCHANGED vars
  BY <1>5 DEF vars, RingInv, TypeOK, IndicesAgree
<1> QED
  BY <1>1, <1>2, <1>3, <1>4, <1>5 DEF Next

(* Every memcpy of write and read stays inside the storage, and begIndex,  *)
(* endIndex and dataSize describe the same bytes, for every capacity and   *)
(* every sequence of calls.                                                *)
THEOREM RingInvariant == Spec => []RingInv
<1>1. Init => RingInv
  BY InitInv
<1>2. RingInv /\ [Next]_vars => RingInv'
  BY StepInv
<1> QED
  BY <1>1, <1>2, PTL DEF Spec

(***************************************************************************)
(* Contents, and what each member function does to it.                     *)
(***************************************************************************)
(* What the contents are, in this state and in the next one.               *)
ContentsOK ==
  /\ Contents \in Seq(Byte)
  /\ Len(Contents) = dataSize
  /\ dataSize \in Nat
  /\ \A i \in 1..dataSize : Contents[i] = buffer[Around(begIndex + i - 1)]

LEMMA ContentsType == RingInv => ContentsOK
<1> SUFFICES ASSUME RingInv PROVE ContentsOK
  OBVIOUS
<1>1. dataSize \in Nat /\ begIndex \in Nat
  BY RingAssumption DEF RingInv, TypeOK, Offset
<1>2. \A i \in 1..dataSize : buffer[Around(begIndex + i - 1)] \in Byte
  BY RingAssumption DEF RingInv, TypeOK, Offset, Around
<1> QED
  BY <1>1, <1>2 DEF Contents, ContentsOK

LEMMA NextContentsType == RingInv' => ContentsOK'
  BY ContentsType, PTL

(* write appends the part of its data that fits.                           *)
LEMMA WriteContents ==
  ASSUME RingInv, NEW data \in Request, Write(data)
  PROVE  Contents' = Contents \o Accepted(Contents, data, dataCapacity)
<1> DEFINE n == Smaller(Len(data), dataCapacity - dataSize)
           next == Contents \o SubSeq(data, 1, n)
<1>1. /\ data \in Seq(Byte)
      /\ Len(data) \in Nat \ {0}
      /\ n \in Nat
      /\ n <= Len(data)
      /\ n <= dataCapacity - dataSize
      /\ n = 0 => dataSize = dataCapacity
  BY RequestIsSeq, RingAssumption DEF Smaller, RingInv, TypeOK, Write
<1>2. dataSize' = dataSize + n /\ begIndex' = begIndex
  BY DEF Write
<1>3. RingInv'
  BY WriteInv
<1>4. /\ Contents' \in Seq(Byte)
      /\ Len(Contents') = dataSize + n
      /\ \A i \in 1..(dataSize + n) : Contents'[i] = buffer'[Around(begIndex + i - 1)]
  BY <1>2, <1>3, NextContentsType DEF ContentsOK, Around
<1>5. /\ next \in Seq(Byte)
      /\ Len(next) = dataSize + n
      /\ \A i \in 1..dataSize : next[i] = buffer[Around(begIndex + i - 1)]
      /\ \A i \in (dataSize + 1)..(dataSize + n) : next[i] = data[i - dataSize]
  BY <1>1, ContentsType, SMTT(30) DEF ContentsOK
<1> HIDE DEF n
<1>6. \A i \in 1..(dataSize + n) :
        buffer'[Around(begIndex + i - 1)] =
          IF i <= dataSize THEN buffer[Around(begIndex + i - 1)] ELSE data[i - dataSize]
  <2>1. CASE WriteInOneStep(data, n)
    BY <1>1, <2>1, RingAssumption
    DEF WriteInOneStep, RingInv, TypeOK, IndicesAgree, Offset, CopyIn, Around
  <2>2. CASE WriteInTwoSteps(data, n)
    BY <1>1, <2>2, RingAssumption
    DEF WriteInTwoSteps, RingInv, TypeOK, IndicesAgree, Offset, CopyIn, Around
  <2> QED
    BY <2>1, <2>2 DEF Write, n
<1> HIDE DEF next
<1>7. \A i \in 1..Len(Contents') : Contents'[i] = next[i]
  <2> TAKE i \in 1..Len(Contents')
  <2>1. dataSize \in Nat /\ i \in 1..(dataSize + n)
    BY <1>4, ContentsType DEF ContentsOK
  <2>2. CASE i <= dataSize
    BY <1>4, <1>5, <1>6, <2>1, <2>2
  <2>3. CASE ~(i <= dataSize)
    <3>1. i \in (dataSize + 1)..(dataSize + n)
      BY <1>1, <2>1, <2>3
    <3>2. Contents'[i] = data[i - dataSize]
      BY <1>4, <1>6, <2>1, <2>3
    <3>3. next[i] = data[i - dataSize]
      BY <1>5, <3>1
    <3> QED
      BY <3>2, <3>3
  <2> QED
    BY <2>2, <2>3
<1>8. Contents' = next
  BY <1>1, <1>4, <1>5, <1>7, SeqEqual
<1> QED
  BY <1>8, ContentsType DEF ContentsOK, next, n, Accepted

(* read hands out the oldest bytes and leaves the others.                  *)
LEMMA ReadContents ==
  ASSUME RingInv, NEW bytes \in 0..MaxRequest, Read(bytes)
  PROVE  /\ Contents' = AfterOldest(Contents, bytes)
         /\ returned' = Got(Oldest(Contents, bytes))
<1> DEFINE n == Smaller(bytes, dataSize)
           left == SubSeq(Contents, n + 1, dataSize)
           oldest == SubSeq(Contents, 1, n)
<1>1. n \in Nat /\ n <= dataSize /\ dataSize' = dataSize - n
  BY RingAssumption DEF Smaller, RingInv, TypeOK, Read
<1>2. RingInv'
  BY ReadInv
<1>3. /\ Contents' \in Seq(Byte)
      /\ Len(Contents') = dataSize - n
      /\ \A i \in 1..(dataSize - n) : Contents'[i] = buffer'[Around(begIndex' + i - 1)]
  BY <1>1, <1>2, NextContentsType DEF ContentsOK, Around
<1>4. /\ left \in Seq(Byte)
      /\ Len(left) = dataSize - n
      /\ \A i \in 1..(dataSize - n) : left[i] = buffer[Around(begIndex + n + i - 1)]
      /\ oldest \in Seq(Byte)
      /\ Len(oldest) = n
      /\ \A i \in 1..n : oldest[i] = buffer[Around(begIndex + i - 1)]
  <2> HIDE DEF n
  <2>1. begIndex \in Nat /\ dataSize \in Nat
    BY RingAssumption DEF RingInv, TypeOK, Offset
  <2>2. /\ left \in Seq(Byte)
        /\ Len(left) = dataSize - n
        /\ \A i \in 1..(dataSize - n) : left[i] = Contents[n + i]
        /\ oldest \in Seq(Byte)
        /\ Len(oldest) = n
        /\ \A i \in 1..n : oldest[i] = Contents[i]
    BY <1>1, ContentsType DEF ContentsOK
  <2>3. \A i \in 1..(dataSize - n) : left[i] = buffer[Around(begIndex + n + i - 1)]
    <3> TAKE i \in 1..(dataSize - n)
    <3>1. begIndex + (n + i) - 1 = begIndex + n + i - 1 /\ n + i \in 1..dataSize
      BY <1>1, <2>1
    <3> QED
      BY <2>2, <3>1, ContentsType DEF ContentsOK
  <2>4. \A i \in 1..n : oldest[i] = buffer[Around(begIndex + i - 1)]
    BY <1>1, <2>1, <2>2, ContentsType DEF ContentsOK
  <2> QED
    BY <2>2, <2>3, <2>4
<1> HIDE DEF n
<1>5. \A i \in 1..(dataSize - n) : Around(begIndex' + i - 1) = Around(begIndex + n + i - 1)
  <2>1. CASE ReadInOneStep(n)
    BY <1>1, <2>1, RingAssumption DEF ReadInOneStep, RingInv, TypeOK, Offset, Around
  <2>2. CASE ReadInTwoSteps(n)
    BY <1>1, <2>2, RingAssumption DEF ReadInTwoSteps, RingInv, TypeOK, Offset, Around
  <2> QED
    BY <2>1, <2>2 DEF Read, n
<1>6. Contents' = left
  <2>1. buffer' = buffer
    BY DEF Read
  <2>2. \A i \in 1..Len(Contents') : Contents'[i] = left[i]
    BY <1>1, <1>3, <1>4, <1>5, <2>1, ZenonT(60)
  <2> QED
    BY <1>1, <1>3, <1>4, <2>2, SeqEqual
<1>7. returned' = Got(oldest)
  <2>1. CASE ReadInOneStep(n)
    <3>1. CopyOut(buffer, begIndex, n) = oldest
      BY <1>1, <1>4, <2>1, RingAssumption
      DEF ReadInOneStep, RingInv, TypeOK, Offset, Around, CopyOut
    <3> QED
      BY <2>1, <3>1 DEF ReadInOneStep
  <2>2. CASE ReadInTwoSteps(n)
    <3> DEFINE first == dataCapacity - begIndex
               both == CopyOut(buffer, begIndex, first) \o CopyOut(buffer, 0, n - first)
    <3>1. first \in Nat /\ n - first \in Nat /\ n - first <= begIndex /\ begIndex \in Nat
      BY <1>1, <2>2, RingAssumption DEF ReadInTwoSteps, RingInv, TypeOK, Offset
    <3>2. CopyOut(buffer, begIndex, first) \in Seq(Byte)
          /\ CopyOut(buffer, 0, n - first) \in Seq(Byte)
      BY <3>1, RingAssumption DEF RingInv, TypeOK, Offset, CopyOut
    <3>3. Len(both) = n /\ both \in Seq(Byte)
      <4>1. Len(CopyOut(buffer, begIndex, first)) = first
            /\ Len(CopyOut(buffer, 0, n - first)) = n - first
        BY <3>1 DEF CopyOut
      <4> QED
        BY <1>1, <3>1, <3>2, <4>1
    <3>4. \A i \in 1..n : both[i] = buffer[Around(begIndex + i - 1)]
      <4>1. /\ Len(CopyOut(buffer, begIndex, first)) = first
            /\ Len(CopyOut(buffer, 0, n - first)) = n - first
            /\ \A i \in 1..first : CopyOut(buffer, begIndex, first)[i] = buffer[begIndex + i - 1]
            /\ \A i \in 1..(n - first) : CopyOut(buffer, 0, n - first)[i] = buffer[i - 1]
        BY <3>1 DEF CopyOut
      <4>2. ASSUME NEW i \in 1..n, i <= first
            PROVE  both[i] = buffer[begIndex + i - 1] /\ begIndex + i - 1 < dataCapacity
        BY <1>1, <3>1, <3>2, <4>1, <4>2, RingAssumption
      <4>3. ASSUME NEW i \in 1..n, ~(i <= first)
            PROVE  /\ both[i] = buffer[(begIndex + i - 1) - dataCapacity]
                   /\ ~(begIndex + i - 1 < dataCapacity)
        <5>1. both[i] = CopyOut(buffer, 0, n - first)[i - first] /\ i - first \in 1..(n - first)
          BY <1>1, <3>1, <3>2, <4>1, <4>3
        <5> QED
          BY <1>1, <3>1, <4>1, <4>3, <5>1, RingAssumption
      <4> HIDE DEF both
      <4> QED
        BY <4>2, <4>3 DEF Around
    <3>5. both = oldest
      <4> HIDE DEF both, oldest
      <4> QED
        BY <1>1, <1>4, <3>3, <3>4, SeqEqual
    <3> QED
      BY <2>2, <3>5 DEF ReadInTwoSteps
  <2> QED
    BY <2>1, <2>2 DEF Read, n
<1> QED
  BY <1>6, <1>7, ContentsType DEF ContentsOK, n, AfterOldest, Oldest

(* emptyExcept keeps the oldest bytes.                                     *)
LEMMA EmptyExceptContents ==
  ASSUME RingInv, NEW sizeToSet \in 0..MaxRequest, EmptyExcept(sizeToSet)
  PROVE  Contents' = Oldest(Contents, sizeToSet)
<1> DEFINE n == Smaller(sizeToSet, dataSize)
           kept == SubSeq(Contents, 1, n)
<1>1. /\ n \in Nat
      /\ n <= dataSize
      /\ dataSize' = n
      /\ begIndex' = begIndex
      /\ buffer' = buffer
  BY RingAssumption DEF Smaller, RingInv, TypeOK, EmptyExcept
<1>2. /\ kept \in Seq(Byte)
      /\ Len(kept) = n
      /\ \A i \in 1..n : kept[i] = buffer[Around(begIndex + i - 1)]
  BY <1>1, ContentsType DEF ContentsOK
<1>3. Contents' = [i \in 1..n |-> buffer[Around(begIndex + i - 1)]]
  BY <1>1 DEF Contents, Around
<1>4. Contents' = kept
  BY <1>1, <1>2, <1>3
<1> QED
  BY <1>4, ContentsType DEF ContentsOK, Oldest
(***************************************************************************)
(* The refinement.                                                         *)
(***************************************************************************)
LEMMA InitRefines == Init => Fifo!FifoInit
BY DEF Init, Contents, Fifo!FifoInit, Nothing, Fifo!Nothing

LEMMA StepRefines == RingInv /\ [Next]_vars => [Fifo!FifoNext]_(Fifo!fifoVars)
<1> SUFFICES ASSUME RingInv, [Next]_vars
             PROVE  Fifo!FifoNext \/ UNCHANGED <<Contents, returned>>
  BY DEF Fifo!fifoVars
<1>1. ASSUME NEW data \in Request, Write(data) PROVE Fifo!FifoNext
  <2>1. Len(Accepted(Contents, data, dataCapacity)) = Smaller(Len(data), dataCapacity - dataSize)
    <3>1. data \in Seq(Byte) /\ Len(data) \in Nat
      BY RequestIsSeq
    <3>2. dataCapacity - dataSize \in Nat
      BY RingAssumption DEF RingInv, TypeOK
    <3> QED
      BY <3>1, <3>2, ContentsType DEF ContentsOK, Accepted, Smaller
  <2>2. Fifo!FifoWrite(data)
    BY <1>1, <2>1, WriteContents
    DEF Write, Wrote, Accepted, Smaller,
        Fifo!FifoWrite, Fifo!Wrote, Fifo!Accepted, Fifo!Smaller
  <2> QED
    BY <2>2 DEF Request, Fifo!Request, Fifo!FifoNext
<1>2. CASE WriteNothing
  <2> DEFINE nothing == [i \in 1..0 |-> ZeroByte]
  <2>1. nothing \in Request
    <3>1. nothing \in [1..0 -> Byte] /\ 0 \in 0..MaxRequest
      BY RingAssumption
    <3> QED
      BY <3>1 DEF Request
  <2>2. Contents' = Contents
    BY <1>2 DEF WriteNothing, Contents, Around
  <2>3. Len(nothing) = 0 /\ nothing \in Seq(Byte)
    BY RingAssumption
  <2>4. Accepted(Contents, nothing, dataCapacity) = <<>>
    <3>1. dataCapacity - dataSize \in Nat
      BY RingAssumption DEF RingInv, TypeOK
    <3>2. Smaller(Len(nothing), dataCapacity - Len(Contents)) = 0
      BY <2>3, <3>1, ContentsType DEF ContentsOK, Smaller
    <3> HIDE DEF nothing
    <3> QED
      BY <2>3, <3>2, SubSeqEmpty DEF Accepted
  <2>5. Fifo!FifoWrite(nothing)
    <3>1. Fifo!Accepted(Contents, nothing, dataCapacity) = <<>>
      BY <2>4 DEF Accepted, Smaller, Fifo!Accepted, Fifo!Smaller
    <3>2. Contents \o <<>> = Contents /\ Len(<<>>) = 0
      BY ContentsType, ConcatEmptySeq DEF ContentsOK
    <3> HIDE DEF nothing
    <3> QED
      BY <1>2, <2>2, <3>1, <3>2
      DEF WriteNothing, Wrote, Fifo!FifoWrite, Fifo!Wrote
  <2> QED
    BY <2>1, <2>5 DEF Request, Fifo!Request, Fifo!FifoNext
<1>3. CASE EmptyBuffer
  <2>1. Contents' = <<>>
    BY <1>3 DEF EmptyBuffer, Contents
  <2> QED
    BY <1>3, <2>1
    DEF EmptyBuffer, Nothing, Fifo!FifoEmpty, Fifo!Nothing, Fifo!FifoNext
<1>4. ASSUME NEW n \in 0..MaxRequest, EmptyExcept(n) PROVE Fifo!FifoNext
  BY <1>4, EmptyExceptContents
  DEF EmptyExcept, Nothing, Oldest, Smaller, Fifo!FifoEmptyExcept, Fifo!Nothing,
      Fifo!Oldest, Fifo!Smaller, Fifo!FifoNext
<1>5. ASSUME NEW n \in 0..MaxRequest, Read(n) PROVE Fifo!FifoNext
  BY <1>5, ReadContents
  DEF Got, Oldest, AfterOldest, Smaller, Fifo!FifoRead, Fifo!Got, Fifo!Oldest,
      Fifo!AfterOldest, Fifo!Smaller, Fifo!FifoNext
<1>6. CASE ReadNothing
  <2>1. Contents' = Contents
    BY <1>6 DEF ReadNothing, Contents, Around
  <2>2. Smaller(0, Len(Contents)) = 0
    BY ContentsType DEF ContentsOK, Smaller
  <2>3. Oldest(Contents, 0) = <<>>
    BY <2>2, SubSeqEmpty DEF Oldest
  <2>4. AfterOldest(Contents, 0) = Contents
    BY <2>2, ContentsType DEF ContentsOK, AfterOldest
  <2>5. Fifo!FifoRead(0)
    BY <1>6, <2>1, <2>3, <2>4
    DEF ReadNothing, Got, Oldest, AfterOldest, Smaller,
        Fifo!FifoRead, Fifo!Got, Fifo!Oldest, Fifo!AfterOldest, Fifo!Smaller
  <2> QED
    BY <2>5, RingAssumption DEF Fifo!FifoNext
<1>7. CASE UNCHANGED vars
  BY <1>7 DEF vars, Contents, Around
<1> QED
  BY <1>1, <1>2, <1>3, <1>4, <1>5, <1>6, <1>7 DEF Next

(* For every capacity, what the callers of a CircularBuffer see is a       *)
(* bounded queue of bytes: write accepts what fits and returns that count, *)
(* read returns the oldest bytes in order, emptyExcept keeps the oldest.   *)
THEOREM RingImplementsFifo == Spec => ImplementsFifo
<1>1. Init => Fifo!FifoInit
  BY InitRefines
<1>2. RingInv /\ [Next]_vars => [Fifo!FifoNext]_(Fifo!fifoVars)
  BY StepRefines
<1> QED
  BY <1>1, <1>2, RingInvariant, PTL DEF Spec, ImplementsFifo, Fifo!FifoSpec

(***************************************************************************)
(* VerdictIsOfTheBundle for every set of sorted bundles and certificates.  *)
(***************************************************************************)
LEMMA LessIsStrict ==
  ASSUME NEW a \in Seq(Nat), NEW b \in Seq(Nat), Less(a, b)
  PROVE  ~Less(b, a)
<1>1. PICK i \in DOMAIN b : i \in DOMAIN a /\ a[i] < b[i] /\ \A j \in 1..i - 1 : a[j] = b[j]
  BY DEF Less
<1>2. SUFFICES ASSUME NEW k \in DOMAIN a, k \in DOMAIN b, b[k] < a[k],
                      \A j \in 1..k - 1 : b[j] = a[j]
               PROVE  FALSE
  BY DEF Less
<1>3. i \in Nat \ {0} /\ k \in Nat \ {0}
  BY LenProperties
<1>4. a[i] \in Nat /\ b[i] \in Nat /\ a[k] \in Nat /\ b[k] \in Nat
  BY <1>1, <1>2, LenProperties
<1>5. i # k
  BY <1>1, <1>2, <1>4
<1>6. CASE i < k
  <2>1. i \in 1..k - 1
    BY <1>3, <1>6
  <2> QED
    BY <1>1, <1>2, <1>4, <2>1
<1>7. CASE k < i
  <2>1. k \in 1..i - 1
    BY <1>3, <1>7
  <2> QED
    BY <1>1, <1>2, <1>4, <2>1
<1> QED
  BY <1>3, <1>5, <1>6, <1>7

LEMMA BeginsWithItself ==
  ASSUME NEW a \in Seq(Nat)
  PROVE  BeginsWith(a, a) /\ ~Less(a, a)
<1>1. SubSeq(a, 1, Len(a)) = a /\ Len(a) \in Nat
  BY SubSeqFull, LenProperties
<1> QED
  BY <1>1, LessIsStrict DEF BeginsWith

(* What the entries are, and what a search has found out: an entry of the  *)
(* issuer's name, if there is one, lies between its bounds.                *)
BundleKnown ==
  /\ bundle[1] \in Nat
  /\ (bundle \in Bundles /\ TakenByInit(bundle)) \/ bundle[1] = 0
  /\ crts = [i \in 1..bundle[1] |-> Places(bundle)[i]]
  /\ crts # Null => bundleBytes = bundle

SearchInv ==
  callback # Returned =>
    /\ callback \in [at : {"search"}, child : Children, start : Nat, end : Int]
    /\ OnlyUntrusted(callback.child)
    /\ callback.end < bundle[1]
    /\ \A i \in 1..bundle[1] : NameOf(bundle, i) = callback.child.issuer =>
         callback.start < i /\ i <= callback.end + 1

BundleInv == BundleKnown /\ SearchInv /\ VerdictIsOfTheBundle

LEMMA BundleInvInit == BundleInit => BundleInv
<1> SUFFICES ASSUME BundleInit PROVE BundleInv
  OBVIOUS
<1>1. bundle[1] = 0 /\ crts = Null /\ callback = Returned /\ verdict = NoVerdict
  BY DEF BundleInit
<1>2. crts = [i \in 1..bundle[1] |-> Places(bundle)[i]]
  BY <1>1 DEF Null
<1> QED
  BY <1>1, <1>2 DEF BundleInv, BundleKnown, SearchInv, VerdictIsOfTheBundle

(* The entry a comparison looks at.                                        *)
LEMMA MiddleInside ==
  ASSUME BundleKnown, SearchInv, Comparing
  PROVE  /\ middle + 1 \in 1..bundle[1] /\ bundle \in Bundles /\ TakenByInit(bundle)
         /\ callback.start <= middle /\ middle <= callback.end /\ middle \in Nat
         /\ callback.child \in Children /\ callback # Returned
         /\ Name(bundleBytes, Here) = NameOf(bundle, middle + 1)
         /\ Key(bundleBytes, Here) = KeyOf(bundle, middle + 1)
<1>1. callback # Returned /\ callback.start <= callback.end
  BY DEF Comparing, Returned
<1>2. /\ callback.start \in Nat /\ callback.end \in Int /\ callback.end < bundle[1]
      /\ callback.child \in Children /\ bundle[1] \in Nat
  BY <1>1 DEF SearchInv, BundleKnown
<1>3. callback.start <= middle /\ middle <= callback.end /\ middle \in Nat
  BY <1>1, <1>2 DEF middle
<1>4. middle + 1 \in 1..bundle[1] /\ bundle[1] # 0
  BY <1>2, <1>3
<1>5. bundle \in Bundles /\ TakenByInit(bundle)
  BY <1>4 DEF BundleKnown
<1>6. Here = Places(bundle)[middle + 1]
  BY <1>4 DEF Here, BundleKnown
<1>7. bundleBytes = bundle
  <2>1. middle + 1 \in DOMAIN crts
    BY <1>4 DEF BundleKnown
  <2>2. crts # Null
    BY <2>1 DEF Null
  <2> QED
    BY <2>2 DEF BundleKnown
<1> QED
  BY <1>1, <1>2, <1>3, <1>4, <1>5, <1>6, <1>7 DEF NameOf, KeyOf

(* A bundle has at most one entry of a name.                               *)
LEMMA OneOfAName ==
  ASSUME NEW bytes \in Bundles, TakenByInit(bytes),
         NEW i \in 1..bytes[1], NEW j \in 1..bytes[1], NameOf(bytes, i) = NameOf(bytes, j)
  PROVE  i = j
<1>1. bytes[1] \in Nat /\ NameOf(bytes, i) \in Seq(Nat)
  BY BundleAssumption
<1>2. ~Less(NameOf(bytes, i), NameOf(bytes, j)) /\ ~Less(NameOf(bytes, j), NameOf(bytes, i))
  BY <1>1, BeginsWithItself
<1>3. ~(i < j) /\ ~(j < i)
  BY <1>2, BundleAssumption
<1> QED
  BY <1>1, <1>3

LEMMA InEntries ==
  ASSUME NEW bytes, NEW name, NEW key
  PROVE  <<name, key>> \in Entries(bytes) <=>
           \E i \in 1..bytes[1] : NameOf(bytes, i) = name /\ KeyOf(bytes, i) = key
  BY DEF Entries, NameOf, KeyOf

LEMMA FoundKeeps ==
  ASSUME BundleInv, Found
  PROVE  BundleInv'
<1>1. /\ middle + 1 \in 1..bundle[1] /\ bundle \in Bundles /\ TakenByInit(bundle)
      /\ callback.child \in Children
      /\ Name(bundleBytes, Here) = NameOf(bundle, middle + 1)
      /\ Key(bundleBytes, Here) = KeyOf(bundle, middle + 1)
  BY MiddleInside DEF BundleInv, Found
<1>0. OnlyUntrusted(callback.child)
  BY MiddleInside DEF BundleInv, SearchInv, Found
<1>2. callback.child.issuer = NameOf(bundle, middle + 1)
  BY <1>1, BundleAssumption DEF Found, SameName
<1>3. <<callback.child.issuer, callback.child.signer>> \in Entries(bundle)
        <=> callback.child.signer = KeyOf(bundle, middle + 1)
  BY <1>1, <1>2, InEntries, OneOfAName
<1>4. /\ callback' = Returned
      /\ verdict' = [valid |-> callback.child.signer = KeyOf(bundle, middle + 1),
                     child |-> callback.child]
      /\ UNCHANGED <<bundleBytes, crts, bundle>>
  BY <1>1 DEF Found, Return, Answer, crtCheckCertificate
<1>5. VerdictIsOfTheBundle'
  BY <1>0, <1>3, <1>4 DEF VerdictIsOfTheBundle
<1> QED
  BY <1>4, <1>5 DEF BundleInv, BundleKnown, SearchInv

LEMMA NotFoundKeeps ==
  ASSUME BundleInv, NotFound
  PROVE  BundleInv'
<1>1. callback # Returned /\ callback.start > callback.end
  BY DEF NotFound, Returned
<1>0. OnlyUntrusted(callback.child)
  BY <1>1 DEF BundleInv, SearchInv
<1>2. <<callback.child.issuer, callback.child.signer>> \notin Entries(bundle)
  <2>1. callback.start \in Nat /\ callback.end \in Int /\ bundle[1] \in Nat
    BY <1>1 DEF BundleInv, SearchInv, BundleKnown
  <2>2. \A i \in 1..bundle[1] : NameOf(bundle, i) # callback.child.issuer
    BY <1>1, <2>1 DEF BundleInv, SearchInv
  <2> QED
    BY <2>2, InEntries
<1>3. /\ callback' = Returned /\ verdict' = [valid |-> FALSE, child |-> callback.child]
      /\ UNCHANGED <<bundleBytes, crts, bundle>>
  BY DEF NotFound, Return, Answer
<1>4. VerdictIsOfTheBundle'
  BY <1>0, <1>2, <1>3 DEF VerdictIsOfTheBundle
<1> QED
  BY <1>3, <1>4 DEF BundleInv, BundleKnown, SearchInv

(* A half that is given up has no entry of the issuer's name.              *)
LEMMA GoBelowKeeps ==
  ASSUME BundleInv, GoBelow
  PROVE  BundleInv'
<1>1. /\ middle + 1 \in 1..bundle[1] /\ bundle \in Bundles /\ TakenByInit(bundle)
      /\ middle <= callback.end /\ middle \in Nat
      /\ callback.child \in Children /\ callback # Returned
      /\ Name(bundleBytes, Here) = NameOf(bundle, middle + 1)
  BY MiddleInside DEF BundleInv, GoBelow
<1>2. /\ callback' = [callback EXCEPT !.start = callback.start, !.end = middle - 1]
      /\ UNCHANGED <<bundleBytes, crts, bundle, verdict>>
  BY DEF GoBelow, Narrow
<1>3. \A i \in 1..bundle[1] : NameOf(bundle, i) = callback.child.issuer => i <= middle
  <2> SUFFICES ASSUME NEW i \in 1..bundle[1], NameOf(bundle, i) = callback.child.issuer,
                      i > middle
               PROVE  FALSE
    BY <1>1, BundleAssumption
  <2>1. Less(NameOf(bundle, i), NameOf(bundle, middle + 1))
    BY <1>1 DEF GoBelow
  <2>2. NameOf(bundle, i) \in Seq(Nat) /\ NameOf(bundle, middle + 1) \in Seq(Nat)
    BY <1>1, BundleAssumption
  <2>3. i # middle + 1
    BY <2>1, <2>2, BeginsWithItself
  <2>4. middle + 1 < i
    BY <1>1, <2>3, BundleAssumption
  <2> QED
    BY <1>1, <2>1, <2>2, <2>4, LessIsStrict, BundleAssumption
<1>4. SearchInv'
  <2>1. /\ callback \in [at : {"search"}, child : Children, start : Nat, end : Int]
        /\ callback.end < bundle[1] /\ bundle[1] \in Nat /\ OnlyUntrusted(callback.child)
        /\ \A i \in 1..bundle[1] : NameOf(bundle, i) = callback.child.issuer =>
             callback.start < i /\ i <= callback.end + 1
    BY <1>1 DEF BundleInv, BundleKnown, SearchInv
  <2>2. middle - 1 \in Int /\ middle - 1 < bundle[1]
    BY <1>1, <2>1
  <2>3. callback' \in [at : {"search"}, child : Children, start : Nat, end : Int]
    BY <1>2, <2>1, <2>2
  <2>4. \A i \in 1..bundle[1] : NameOf(bundle, i) = callback.child.issuer =>
          callback.start < i /\ i <= middle - 1 + 1
    BY <1>1, <1>3, <2>1
  <2>5. /\ callback'.child = callback.child
        /\ callback'.start = callback.start /\ callback'.end = middle - 1
        /\ bundle' = bundle
    BY <1>2, <2>1
  <2> QED
    BY <2>1, <2>2, <2>3, <2>4, <2>5 DEF SearchInv
<1> QED
  BY <1>2, <1>4 DEF BundleInv, BundleKnown, VerdictIsOfTheBundle

LEMMA GoAboveKeeps ==
  ASSUME BundleInv, GoAbove
  PROVE  BundleInv'
<1>1. /\ middle + 1 \in 1..bundle[1] /\ bundle \in Bundles /\ TakenByInit(bundle)
      /\ callback.start <= middle /\ middle \in Nat
      /\ callback.child \in Children /\ callback # Returned
      /\ Name(bundleBytes, Here) = NameOf(bundle, middle + 1)
  BY MiddleInside DEF BundleInv, GoAbove
<1>2. /\ callback' = [callback EXCEPT !.start = middle + 1, !.end = callback.end]
      /\ UNCHANGED <<bundleBytes, crts, bundle, verdict>>
  BY DEF GoAbove, Narrow
<1>3. \A i \in 1..bundle[1] : NameOf(bundle, i) = callback.child.issuer => middle + 1 < i
  <2> SUFFICES ASSUME NEW i \in 1..bundle[1], NameOf(bundle, i) = callback.child.issuer,
                      ~(middle + 1 < i)
               PROVE  FALSE
    OBVIOUS
  <2>1. /\ ~Less(NameOf(bundle, i), NameOf(bundle, middle + 1))
        /\ ~BeginsWith(NameOf(bundle, i), NameOf(bundle, middle + 1))
    BY <1>1 DEF GoAbove, SameName
  <2>2. NameOf(bundle, i) \in Seq(Nat)
    BY <1>1, BundleAssumption
  <2>3. i # middle + 1
    BY <2>1, <2>2, BeginsWithItself
  <2>4. i < middle + 1
    BY <1>1, <2>3, BundleAssumption
  <2> QED
    BY <1>1, <2>1, <2>4, BundleAssumption
<1>4. SearchInv'
  <2>1. /\ callback \in [at : {"search"}, child : Children, start : Nat, end : Int]
        /\ callback.end < bundle[1] /\ bundle[1] \in Nat /\ OnlyUntrusted(callback.child)
        /\ \A i \in 1..bundle[1] : NameOf(bundle, i) = callback.child.issuer =>
             callback.start < i /\ i <= callback.end + 1
    BY <1>1 DEF BundleInv, BundleKnown, SearchInv
  <2>2. middle + 1 \in Nat
    BY <1>1, <2>1
  <2>3. callback' \in [at : {"search"}, child : Children, start : Nat, end : Int]
    BY <1>2, <2>1, <2>2
  <2>4. \A i \in 1..bundle[1] : NameOf(bundle, i) = callback.child.issuer =>
          middle + 1 < i /\ i <= callback.end + 1
    BY <1>1, <1>3, <2>1
  <2>5. /\ callback'.child = callback.child
        /\ callback'.start = middle + 1 /\ callback'.end = callback.end
        /\ bundle' = bundle
    BY <1>2, <2>1
  <2> QED
    BY <2>1, <2>2, <2>3, <2>4, <2>5 DEF SearchInv
<1> QED
  BY <1>2, <1>4 DEF BundleInv, BundleKnown, VerdictIsOfTheBundle

LEMMA BundleInvStep ==
  ASSUME ~BadAfterGood, BundleInv, [BundleNext]_bundleVars
  PROVE  BundleInv'
<1>1. ASSUME NEW bytes \in Bundles, InitThrows(bytes)
      PROVE  BundleInv'
  BY <1>1 DEF InitThrows, MayInit, BundleInv, BundleKnown, SearchInv, VerdictIsOfTheBundle
<1>2. ASSUME NEW bytes \in Bundles, InitRefused(bytes)
      PROVE  BundleInv'
  BY <1>2 DEF InitRefused, MayInit, BundleInv, BundleKnown, SearchInv, VerdictIsOfTheBundle
<1>3. ASSUME NEW bytes \in Bundles, InitDone(bytes)
      PROVE  BundleInv'
  <2>1. TakenByInit(bytes) /\ callback' = Returned /\ verdict' = NoVerdict
    BY <1>3 DEF InitDone, MayInit, TakenByInit
  <2>2. bundle' = bytes /\ bundleBytes' = bytes /\ crts' = [i \in 1..bytes[1] |-> Places(bytes)[i]]
    BY <1>3 DEF InitDone
  <2>3. bytes[1] \in Nat
    BY <2>1, BundleAssumption
  <2> QED
    BY <2>1, <2>2, <2>3 DEF BundleInv, BundleKnown, SearchInv, VerdictIsOfTheBundle
<1>4. ASSUME NEW child \in Children, crtVerifyCallback(child)
      PROVE  BundleInv'
  <2>1. /\ callback' = [at |-> "search", child |-> child, start |-> 0, end |-> Len(crts) - 1]
        /\ verdict' = NoVerdict /\ UNCHANGED <<bundleBytes, crts, bundle>>
    BY <1>4 DEF crtVerifyCallback
  <2>2. Len(crts) = bundle[1] /\ bundle[1] \in Nat
    BY DEF BundleInv, BundleKnown
  <2>3. SearchInv'
    <3>1. OnlyUntrusted(child)
      BY <1>4 DEF crtVerifyCallback
    <3>2. callback'.child = child /\ callback'.start = 0 /\ callback'.end = bundle[1] - 1
      BY <2>1, <2>2
    <3>3. callback' \in [at : {"search"}, child : Children, start : Nat, end : Int]
      BY <2>1, <2>2
    <3> QED
      BY <2>1, <2>2, <3>1, <3>2, <3>3 DEF SearchInv
  <2> QED
    BY <2>1, <2>3 DEF BundleInv, BundleKnown, VerdictIsOfTheBundle
<1>5. CASE UNCHANGED bundleVars
  BY <1>5 DEF bundleVars, BundleInv, BundleKnown, SearchInv, VerdictIsOfTheBundle
<1>6. ASSUME NEW child \in Children, KeepsFlags(child) \/ NoBundle(child)
      PROVE  BundleInv'
  <2>1. callback' = Returned /\ UNCHANGED <<bundleBytes, crts, bundle>>
    BY <1>6 DEF KeepsFlags, NoBundle, Answer
  <2>2. ASSUME KeepsFlags(child)
       PROVE  VerdictIsOfTheBundle'
    <3>1. verdict' = [valid |-> child.flags = {}, child |-> child] /\ ~OnlyUntrusted(child)
      BY <2>2, Zenon DEF KeepsFlags, Answer
    <3>2. verdict'.child = child /\ (verdict'.valid <=> child.flags = {})
      BY <3>1
    <3> QED
      BY <3>1, <3>2 DEF VerdictIsOfTheBundle
  <2>3. ASSUME NoBundle(child)
       PROVE  VerdictIsOfTheBundle'
    <3>1. verdict' = [valid |-> FALSE, child |-> child] /\ OnlyUntrusted(child) /\ crts = Null
      BY <2>3, Zenon DEF NoBundle, Answer
    <3>2. DOMAIN crts = {}
      BY <3>1 DEF Null
    <3>3. bundle[1] = 0
      BY <3>2 DEF BundleInv, BundleKnown
    <3>4. <<child.issuer, child.signer>> \notin Entries(bundle)
      BY <3>3, InEntries
    <3> QED
      BY <2>1, <3>1, <3>4 DEF VerdictIsOfTheBundle
  <2>4. VerdictIsOfTheBundle'
    BY <1>6, <2>2, <2>3
  <2> QED
    BY <2>1, <2>4 DEF BundleInv, BundleKnown, SearchInv
<1> QED
  BY <1>1, <1>2, <1>3, <1>4, <1>5, <1>6, FoundKeeps, NotFoundKeeps, GoBelowKeeps, GoAboveKeeps
  DEF BundleNext, Searching

(* For every set of sorted bundles and every certificate: the binary       *)
(* search answers what the bundle says, if init refuses none after one.    *)
THEOREM SearchIsRight ==
  ASSUME ~BadAfterGood
  PROVE  BundleSpec => []VerdictIsOfTheBundle
<1>1. BundleInit => BundleInv
  BY BundleInvInit
<1>2. BundleInv /\ [BundleNext]_bundleVars => BundleInv'
  BY BundleInvStep
<1>3. BundleInv => VerdictIsOfTheBundle
  BY DEF BundleInv
<1> QED
  BY <1>1, <1>2, <1>3, PTL DEF BundleSpec

(***************************************************************************)
(* BlocksAreFreedByTheirTasks for any number of starts.                    *)
(***************************************************************************)
Stage == {"none", "runTask", "cleanup", "leaving", "deleted", "gone"}
Unfinished == {"none", "runTask", "cleanup"}

TaskTypeOK ==
  /\ runOnPSRAM \in BOOLEAN /\ run \in [Start -> Stage]
  /\ timer \in [Start -> Start \union {NoBuffer}]
  /\ freedBy \in [Start -> SUBSET Start] /\ overtaken \subseteq Start
  /\ xTaskBuffer \in Start \union {NoBuffer} /\ object \in {"alive", "destroyed"}

(* The object has the block of a task that makes its timer, unless that    *)
(* task was overtaken; a timer has its own task's, with the same exception.*)
OwnBlock ==
  \A s \in Start :
    /\ runOnPSRAM /\ run[s] \in {"runTask", "cleanup"} /\ s \notin overtaken =>
         xTaskBuffer = s /\ object = "alive"
    /\ run[s] \in {"none", "runTask"} => s \notin overtaken
    /\ timer[s] # NoBuffer => run[s] \notin Unfinished /\ (timer[s] = s \/ s \in overtaken)
    /\ run[s] = "cleanup" => runOnPSRAM

TaskInv == TaskTypeOK /\ OwnBlock /\ BlocksAreFreedByTheirTasks

LEMMA TaskInvInit == TaskInit => TaskInv
  BY DEF TaskInit, TaskInv, TaskTypeOK, OwnBlock, BlocksAreFreedByTheirTasks, Start, Stage,
         Unfinished, NoBuffer

(* What the owner does moves no task that runs.                            *)
LEMMA OwnerKeeps ==
  ASSUME TaskInv, startTask \/ StartFails \/ Destroy
  PROVE  TaskInv'
<1> USE DEF TaskInv, TaskTypeOK, OwnBlock, BlocksAreFreedByTheirTasks, Started, Stage,
            Unfinished, Overtakes, RunTaskIsOver
<1>0. NoBuffer \notin Start
  BY TaskAssumption DEF Start, NoBuffer
<1>1. CASE startTask
  <2>1. PICK s \in Start \ Started :
          /\ run' = [run EXCEPT ![s] = "runTask"]
          /\ xTaskBuffer' = IF runOnPSRAM THEN s ELSE xTaskBuffer
    BY <1>1 DEF startTask
  <2>2. UNCHANGED <<runOnPSRAM, timer, freedBy, object>> /\ object = "alive" /\ RunTaskIsOver
    BY <1>1 DEF startTask
  <2>3. overtaken' = IF runOnPSRAM THEN overtaken \union {u \in Started : run[u] = "cleanup"}
                                   ELSE overtaken
    BY <1>1 DEF startTask
  <2>4. TaskTypeOK'
    BY <2>1, <2>2, <2>3
  <2>5. OwnBlock'
    BY <2>1, <2>2, <2>3
  <2>6. BlocksAreFreedByTheirTasks'
    BY <2>1, <2>2, <2>3
  <2> QED
    BY <2>4, <2>5, <2>6
<1>2. CASE StartFails
  BY <1>0, <1>2 DEF StartFails
<1>3. CASE Destroy
  BY <1>3 DEF Destroy
<1> QED
  BY <1>1, <1>2, <1>3

LEMMA TaskInvStep ==
  ASSUME TaskInv, [TaskNext]_taskVars
  PROVE  TaskInv'
<1> USE DEF TaskInv, TaskTypeOK, OwnBlock, BlocksAreFreedByTheirTasks, Stage, Unfinished
<1>0. NoBuffer \notin Start
  BY TaskAssumption DEF Start, NoBuffer
<1>1. CASE startTask \/ StartFails \/ Destroy
  BY <1>1, OwnerKeeps
<1>2. ASSUME NEW s \in Start, RunTaskReturns(s)
      PROVE  TaskInv'
  BY <1>2 DEF RunTaskReturns, Move
<1>3. ASSUME NEW s \in Start, TimerStart(s)
      PROVE  TaskInv'
  <2>1. PICK b \in Start \union {NoBuffer} :
          /\ timer' = [timer EXCEPT ![s] = b]
          /\ object = "alive" => b = xTaskBuffer
    BY <1>3 DEF TimerStart, Started
  <2>2. /\ run[s] = "cleanup" /\ run' = [run EXCEPT ![s] = "leaving"]
        /\ UNCHANGED <<runOnPSRAM, xTaskBuffer, freedBy, object, overtaken>>
    BY <1>3 DEF TimerStart, Move
  <2>3. b = s \/ s \in overtaken
    BY <2>1, <2>2
  <2>4. TaskTypeOK'
    BY <2>1, <2>2
  <2>5. OwnBlock'
    BY <1>0, <2>1, <2>2, <2>3
  <2> QED
    BY <2>2, <2>4, <2>5
<1>4. ASSUME NEW s \in Start, vTaskDelete(s)
      PROVE  TaskInv'
  BY <1>4 DEF vTaskDelete, Move
<1>5. ASSUME NEW s \in Start, IdleCleans(s)
      PROVE  TaskInv'
  BY <1>5 DEF IdleCleans, Move
<1>6. ASSUME NEW s \in Start, TimerFires(s)
      PROVE  TaskInv'
  BY <1>0, <1>6 DEF TimerFires
<1>7. CASE UNCHANGED taskVars
  BY <1>7 DEF taskVars
<1> QED
  BY <1>1, <1>2, <1>3, <1>4, <1>5, <1>6, <1>7 DEF TaskNext

(* Wherever a task is when a timer fires, and however soon its owner       *)
(* starts it again or destroys it: for any number of starts.               *)
THEOREM TimersFreeTheirTasksBlocks == TaskSpec => []BlocksAreFreedByTheirTasks
<1>1. TaskInit => TaskInv
  BY TaskInvInit
<1>2. TaskInv /\ [TaskNext]_taskVars => TaskInv'
  BY TaskInvStep
<1>3. TaskInv => BlocksAreFreedByTheirTasks
  BY DEF TaskInv
<1> QED
  BY <1>1, <1>2, <1>3, PTL DEF TaskSpec

(***************************************************************************)
(* WaitsKeepTheirWord for every number of threads, every timeout, every    *)
(* length of a tick and of a second.                                       *)
(***************************************************************************)
Short == IF platform = "esp" THEN 2 * portTICK_PERIOD_MS - 1 ELSE 0
Waiting == [call : {"none", "wait", "twait"}, since : Int, ms : Int, until : Int]
LastCall ==
  [call : {"none", "wait", "twait"}, result : {0, 1}, since : Int, ms : Int, lasted : Int,
   took : BOOLEAN, signal : BOOLEAN]

SemTypeOK ==
  /\ platform \in Platforms
  /\ count \in Nat /\ clock \in Nat
  /\ waiting \in [Waiter -> Waiting] /\ last \in LastCall

(* A deadline is no earlier than was asked for, but for what the ESP's     *)
(* ticks lose and for those that do not carry.                             *)
LateEnough(w) ==
  w.call = "twait" =>
    \/ w.until # -1 /\ w.until + Short >= w.since + w.ms
    \/ w.until = -1 /\ NoCarry(w)

SemInv ==
  /\ SemTypeOK
  /\ SaysWhatItDid /\ TimeoutsLast
  /\ \A t \in Waiter : LateEnough(waiting[t])

(* What is left of a division is less than the divisor.                    *)
LEMMA DivisionRest ==
  ASSUME NEW n \in Nat, NEW d \in Nat \ {0}
  PROVE  /\ n \div d \in Nat /\ n % d \in Nat
         /\ (n \div d) * d <= n
         /\ n <= (n \div d) * d + d - 1
         /\ n = (n \div d) * d + (n % d)
  BY SMTT(30)

(* Linux' deadline: apart, its parts lose nothing.                         *)
LEMMA DeadlineIsExact ==
  ASSUME clock \in Nat, NEW ms \in Nat
  PROVE  /\ Deadline(ms).sec * SecondMs + Deadline(ms).nsec = clock + ms
         /\ Deadline(ms).nsec = (clock % SecondMs) + (ms % SecondMs)
<1> DEFINE S == SecondMs
<1>1. S \in Nat \ {0}
  BY SemAssumption
<1>2. /\ clock \div S \in Nat /\ clock % S \in Nat /\ clock = (clock \div S) * S + (clock % S)
      /\ ms \div S \in Nat /\ ms % S \in Nat /\ ms = (ms \div S) * S + (ms % S)
  BY <1>1, DivisionRest
<1>3. Deadline(ms).sec = (clock \div S) + (ms \div S)
  BY DEF Deadline
<1>4. Deadline(ms).nsec = (clock % S) + (ms % S)
  BY DEF Deadline
<1>5. ((clock \div S) + (ms \div S)) * S = (clock \div S) * S + (ms \div S) * S
  BY <1>1, <1>2
<1>6. (clock \div S) * S \in Nat /\ (ms \div S) * S \in Nat
  BY <1>1, <1>2
<1> QED
  BY <1>2, <1>3, <1>4, <1>5, <1>6

(* A deadline is computed late enough, on every platform.                  *)
LEMMA UntilIsLateEnough ==
  ASSUME platform \in Platforms, clock \in Nat, NEW ms \in Nat,
         NEW w \in Waiting, w.since = clock, w.ms = ms, w.until = Until(ms)
  PROVE  Until(ms) \in Int /\ LateEnough(w)
<1> DEFINE P == portTICK_PERIOD_MS
<1>0. P \in Nat \ {0}
  BY SemAssumption
<1>1. CASE platform = "esp"
  <2>1. /\ Ticks(ms) \in Nat /\ ms <= Ticks(ms) * P + P - 1
        /\ Ticks(clock) \in Nat /\ clock <= Ticks(clock) * P + P - 1
    BY <1>0, DivisionRest DEF Ticks
  <2>2. CASE Ticks(ms) = 0
    BY <1>0, <1>1, <2>1, <2>2 DEF Until, Short, LateEnough
  <2>3. CASE Ticks(ms) > 0
    <3>1. Until(ms) = (Ticks(clock) + Ticks(ms)) * P
      BY <1>1, <2>1, <2>3 DEF Until
    <3>2. (Ticks(clock) + Ticks(ms)) * P = Ticks(clock) * P + Ticks(ms) * P
      BY <1>0, <2>1
    <3>3. Ticks(clock) * P \in Nat /\ Ticks(ms) * P \in Nat
      BY <1>0, <2>1
    <3> QED
      BY <1>0, <1>1, <2>1, <3>1, <3>2, <3>3 DEF Short, LateEnough
  <2> QED
    BY <2>1, <2>2, <2>3
<1>2. CASE platform = "linux"
  <2>1. Deadline(ms).sec * SecondMs + Deadline(ms).nsec = clock + ms
    BY DeadlineIsExact
  <2>2. Deadline(ms).nsec = (clock % SecondMs) + (ms % SecondMs)
    BY DeadlineIsExact
  <2>3. CASE Deadline(ms).nsec >= SecondMs
    BY <1>2, <2>2, <2>3 DEF Until, LateEnough, NoCarry
  <2>4. CASE ~(Deadline(ms).nsec >= SecondMs)
    BY <1>2, <2>1, <2>4 DEF Until, LateEnough, Short
  <2> QED
    BY <2>3, <2>4
<1>3. CASE platform \notin {"esp", "linux"}
  BY <1>3 DEF Until, Short, LateEnough
<1> QED
  BY <1>1, <1>2, <1>3

LEMMA SemInvInit == SemInit => SemInv
  BY SemAssumption
  DEF SemInit, SemInv, SemTypeOK, SaysWhatItDid, TimeoutsLast, LateEnough, Idle, NoReturn,
      Waiting, LastCall, Short

(* A call that returns leaves the others as they are.                      *)
LEMMA ReturnsKeep ==
  ASSUME SemInv, NEW t \in Waiter, waiting[t] # Idle \/ waiting[t].call = "twait",
         NEW result \in {0, 1}, NEW took \in BOOLEAN, NEW signal \in BOOLEAN,
         Returns(t, result, took, signal), count' \in Nat,
         result = 0 \/ ~took, result = 0 => took \/ (waiting[t].call = "wait" /\ signal),
         waiting[t].call = "twait" /\ result # 0 =>
           signal \/ waiting[t].until = -1 \/ clock >= waiting[t].until
  PROVE  SemInv'
<1>1. waiting[t] \in Waiting /\ LateEnough(waiting[t]) /\ clock \in Nat
  BY DEF SemInv, SemTypeOK
<1>2. /\ last' = [call |-> waiting[t].call, result |-> result, since |-> waiting[t].since,
                  ms |-> waiting[t].ms, lasted |-> clock - waiting[t].since,
                  took |-> took, signal |-> signal]
      /\ waiting' = [waiting EXCEPT ![t] = Idle] /\ UNCHANGED <<platform, clock>>
  BY DEF Returns
<1>3. waiting' \in [Waiter -> Waiting] /\ \A u \in Waiter : LateEnough(waiting[u])'
  BY <1>2 DEF SemInv, SemTypeOK, LateEnough, Waiting, Idle, Short, NoCarry
<1>4. last' \in LastCall
  BY <1>1, <1>2 DEF LastCall, Waiting
<1>5. SaysWhatItDid'
  BY <1>2 DEF SaysWhatItDid
<1>6. TimeoutsLast'
  BY <1>1, <1>2, SemAssumption DEF TimeoutsLast, LateEnough, NoCarry, Waiting, Short
<1> QED
  BY <1>2, <1>3, <1>4, <1>5, <1>6 DEF SemInv, SemTypeOK

LEMMA SemInvStep ==
  ASSUME SemInv, [SemNext]_semVars
  PROVE  SemInv'
<1> USE DEF SemInv, SemTypeOK, SaysWhatItDid, TimeoutsLast, LateEnough, Short, NoCarry
<1>0. NoReturn \in LastCall
  BY DEF NoReturn, LastCall
<1>1. CASE give
  BY <1>0, <1>1 DEF give, NoReturn
<1>2. CASE Passes
  BY <1>0, <1>2 DEF Passes, NoReturn
<1>3. ASSUME NEW t \in Waiter, wait(t)
      PROVE  SemInv'
  BY <1>0, <1>3 DEF wait, Waiting, NoReturn
<1>4. ASSUME NEW t \in Waiter, twait(t)
      PROVE  SemInv'
  <2>1. PICK ms \in Timeouts :
          waiting' = [waiting EXCEPT ![t] =
            [call |-> "twait", since |-> clock, ms |-> ms, until |-> Until(ms)]]
    BY <1>4 DEF twait
  <2>2. UNCHANGED <<platform, count, clock>> /\ last' = NoReturn
    BY <1>4 DEF twait
  <2>3. ms \in Nat
    BY SemAssumption
  <2> DEFINE w == [call |-> "twait", since |-> clock, ms |-> ms, until |-> Until(ms)]
  <2>4. Until(ms) \in Int
    BY <2>3, SemAssumption DEF Until, Deadline, Ticks, Platforms
  <2>5. w \in Waiting
    BY <2>3, <2>4 DEF Waiting
  <2>6. LateEnough(w)
    BY <2>3, <2>5, UntilIsLateEnough
  <2>7. waiting' \in [Waiter -> Waiting]
    BY <2>1, <2>5
  <2>8. \A u \in Waiter : LateEnough(waiting[u])'
    BY <2>1, <2>2, <2>6
  <2> QED
    BY <1>0, <2>2, <2>7, <2>8 DEF NoReturn
<1>5. ASSUME NEW t \in Waiter, Take(t)
      PROVE  SemInv'
  <2>1. count' \in Nat
    BY <1>5 DEF Take
  <2>2. waiting[t] # Idle /\ Returns(t, 0, TRUE, FALSE)
    BY <1>5, Zenon DEF Take
  <2> HIDE DEF SemInv
  <2> QED
    BY <2>1, <2>2, ReturnsKeep, ZenonT(30)
<1>6. ASSUME NEW t \in Waiter, TimeOut(t)
      PROVE  SemInv'
  <2>1. /\ count' \in Nat /\ waiting[t].call = "twait" /\ Returns(t, 1, FALSE, FALSE)
        /\ waiting[t].until = -1 \/ clock >= waiting[t].until
    BY <1>6 DEF TimeOut
  <2>2. 1 # 0
    OBVIOUS
  <2> HIDE DEF SemInv
  <2> QED
    BY <2>1, <2>2, ReturnsKeep, ZenonT(30)
<1>7. ASSUME NEW t \in Waiter, Interrupted(t)
      PROVE  SemInv'
  <2> DEFINE r == IF waiting[t].call = "wait" THEN 0 ELSE 1
  <2>1. count' \in Nat /\ waiting[t] # Idle /\ Returns(t, r, FALSE, TRUE) /\ r \in {0, 1}
    BY <1>7 DEF Interrupted
  <2>2. r = 0 => waiting[t].call = "wait"
    OBVIOUS
  <2> QED
    BY <2>1, <2>2, ReturnsKeep
<1>8. CASE UNCHANGED semVars
  BY <1>8 DEF semVars
<1> QED
  BY <1>1, <1>2, <1>3, <1>4, <1>5, <1>6, <1>7, <1>8 DEF SemNext, Waits

(* A take is told as one, a timeout as one and not early, on Linux but for *)
(* signals and for deadlines that do not carry: for every number of        *)
(* threads, every timeout, every length of tick and second.                *)
THEOREM WaitsTellTheTruth == SemSpec => []WaitsKeepTheirWord
<1>1. SemInit => SemInv
  BY SemInvInit
<1>2. SemInv /\ [SemNext]_semVars => SemInv'
  BY SemInvStep
<1>3. SemInv => WaitsKeepTheirWord
  BY DEF SemInv, WaitsKeepTheirWord
<1> QED
  BY <1>1, <1>2, <1>3, PTL DEF SemSpec

(***************************************************************************)
(* BinaryStreams for every set of numbers and every mix of calls.  The     *)
(* invariant places each number in the bytes written: no two at one place, *)
(* each in the order it was written in.  What a read returns then follows  *)
(* byte by byte from where the reader is.                                  *)
(***************************************************************************)
Octet == 0..255

(* The long numbers that readLong puts together as they were: where the    *)
(* low half is negative, the high half is all ones already.                *)
HalvesAgree ==
  \A value \in Numbers :
    Len(value) = 8 /\ Negative(SubSeq(value, 1, 4)) => SubSeq(value, 5, 8) = Ones(4)

PlacedIn(bytes, w) ==
  /\ w.at + Len(w.value) <= Len(bytes)
  /\ \A i \in 1..Len(w.value) :
       bytes[w.at + i] =
         IF w.order # "little" THEN w.value[Len(w.value) + 1 - i] ELSE w.value[i]

BinaryTyped ==
  /\ byteOrder \in Orders
  /\ contents \in Seq(Octet)
  /\ written \in Seq([value : Numbers, order : Orders, at : Nat])
  /\ asked \in Nat /\ position = asked

NumbersPlaced ==
  /\ \A i \in 1..Len(written) : PlacedIn(contents, written[i])
  /\ \A i, j \in 1..Len(written) : written[i].at = written[j].at => i = j

BinaryInv == BinaryTyped /\ NumbersPlaced /\ IntegersReadBack

LEMMA NumberParts ==
  ASSUME Numbers \subseteq Seq(Octet) \ {<<>>}, NEW value \in Numbers
  PROVE  /\ value \in Seq(Octet) /\ Len(value) \in Nat \ {0}
         /\ \A i \in 1..Len(value) : value[i] \in Octet
OBVIOUS

LEMMA ReverseParts ==
  ASSUME NEW Elem, NEW s \in Seq(Elem)
  PROVE  /\ Reverse(s) \in Seq(Elem) /\ Len(Reverse(s)) = Len(s) /\ Len(s) \in Nat
         /\ \A i \in 1..Len(s) : Reverse(s)[i] = s[Len(s) + 1 - i]
<1>1. Len(s) \in Nat /\ \A i \in 1..Len(s) : s[i] \in Elem
  OBVIOUS
<1>2. Reverse(s) = [i \in 1..Len(s) |-> s[(Len(s) - i) + 1]]
  BY DEF Reverse
<1>3. \A i \in 1..Len(s) : (Len(s) - i) + 1 \in 1..Len(s) /\ (Len(s) - i) + 1 = Len(s) + 1 - i
  BY <1>1
<1> QED
  BY <1>1, <1>2, <1>3

LEMMA SwappedParts ==
  ASSUME NEW s \in Seq(Octet)
  PROVE  /\ Swapped(s) \in Seq(Octet) /\ Len(Swapped(s)) = Len(s) /\ Len(s) \in Nat
         /\ \A i \in 1..Len(s) :
              Swapped(s)[i] = IF byteOrder # "little" THEN s[Len(s) + 1 - i] ELSE s[i]
<1>1. /\ Reverse(s) \in Seq(Octet) /\ Len(Reverse(s)) = Len(s) /\ Len(s) \in Nat
      /\ \A i \in 1..Len(s) : Reverse(s)[i] = s[Len(s) + 1 - i]
  BY ReverseParts
<1> QED
  BY <1>1 DEF Swapped, flipBytes

(* The bytes of a place that lies in what has been written.                *)
LEMMA BytesParts ==
  ASSUME BinaryTyped, NEW at \in Nat, NEW n \in Nat, at + n <= Len(contents)
  PROVE  /\ Bytes(at, n) \in Seq(Octet) /\ Len(Bytes(at, n)) = n
         /\ \A i \in 1..n : Bytes(at, n)[i] = contents[at + i]
<1>1. contents \in Seq(Octet)
  BY DEF BinaryTyped
<1>2. Len(contents) \in Nat /\ \A i \in 1..n : at + i \in 1..Len(contents)
  BY <1>1
<1>3. SubSeq(contents, at + 1, at + n) = [i \in 1..n |-> contents[at + i]]
  BY <1>1, <1>2
<1> QED
  BY <1>1, <1>2, <1>3 DEF Bytes

(* Where a read begins, the number that is there, and no other one.        *)
LEMMA UpcomingParts ==
  ASSUME Numbers \subseteq Seq(Octet) \ {<<>>}, BinaryTyped, NumbersPlaced,
         NEW width \in Nat, Upcoming(width),
         NEW w \in ToSet(written), w.at = asked
  PROVE  /\ w.value \in Numbers /\ w.order \in Orders /\ Len(w.value) = width
         /\ PlacedIn(contents, w) /\ asked + width <= Len(contents)
<1>1. PICK u \in ToSet(written) : u.at = asked /\ Len(u.value) = width
  BY DEF Upcoming
<1>2. PICK i \in 1..Len(written) : u = written[i]
  BY DEF ToSet, BinaryTyped
<1>3. PICK j \in 1..Len(written) : w = written[j]
  BY DEF ToSet, BinaryTyped
<1>4. i = j
  BY <1>1, <1>2, <1>3 DEF NumbersPlaced
<1>5. w = u /\ PlacedIn(contents, w)
  BY <1>2, <1>3, <1>4 DEF NumbersPlaced
<1> DEFINE Rec == [value : Numbers, order : Orders, at : Nat]
<1>6. w \in Rec
  <2>1. written \in Seq(Rec)
    BY DEF BinaryTyped
  <2> HIDE DEF Rec
  <2> QED
    BY <1>3, <2>1
<1> QED
  BY <1>1, <1>5, <1>6 DEF PlacedIn

(* A read of a value that is right wherever it may have come from.         *)
LEMMA TookReads ==
  ASSUME Numbers \subseteq Seq(Octet) \ {<<>>}, BinaryTyped, NumbersPlaced,
         NEW call, NEW order, NEW value, NEW width \in Nat,
         Took(call, order, value, width), position' = position + width,
         \A w \in ToSet(written) : w.at = asked /\ w.order = order => value = w.value
  PROVE  BinaryInv'
<1>1. read' = [call |-> call, order |-> order, value |-> value, at |-> asked]
  BY DEF Took
<1>2. asked' = asked + width /\ UNCHANGED <<byteOrder, contents, written>>
  BY DEF Took
<1>3. BinaryTyped'
  BY <1>2 DEF BinaryTyped
<1>4. NumbersPlaced'
  BY <1>2 DEF NumbersPlaced, PlacedIn
<1>5. IntegersReadBack'
  <2> SUFFICES ASSUME NEW w \in ToSet(written), read'.at = w.at, read'.order = w.order
               PROVE  read'.value = w.value
    BY <1>2 DEF IntegersReadBack
  <2> QED
    BY <1>1
<1> QED
  BY <1>3, <1>4, <1>5 DEF BinaryInv

(* As much is given as is asked for, as long as streams do not cut short. *)
LEMMA GivenAll ==
  ASSUME ~ShortReads, BinaryTyped, NEW at \in Nat, NEW n \in Nat, at + n <= Len(contents),
         NEW many \in Given(at, n)
  PROVE  many = n
<1>1. Len(contents) \in Nat
  BY DEF BinaryTyped
<1> QED
  BY <1>1 DEF Given

(* Bytes in the order of a number, read as they are or turned round.       *)
LEMMA PlainBytes ==
  ASSUME Numbers \subseteq Seq(Octet) \ {<<>>}, BinaryTyped,
         NEW w, w.value \in Numbers, w.at \in Nat, PlacedIn(contents, w), w.order = "little"
  PROVE  Bytes(w.at, Len(w.value)) = w.value
<1>1. w.value \in Seq(Octet) /\ Len(w.value) \in Nat
  BY NumberParts
<1>2. /\ Bytes(w.at, Len(w.value)) \in Seq(Octet)
      /\ Len(Bytes(w.at, Len(w.value))) = Len(w.value)
      /\ \A i \in 1..Len(w.value) : Bytes(w.at, Len(w.value))[i] = contents[w.at + i]
  BY <1>1, BytesParts DEF PlacedIn
<1>3. \A i \in 1..Len(w.value) : Bytes(w.at, Len(w.value))[i] = w.value[i]
  BY <1>2 DEF PlacedIn
<1> QED
  BY <1>1, <1>2, <1>3, SameSequence

LEMMA TurnedBytes ==
  ASSUME Numbers \subseteq Seq(Octet) \ {<<>>}, BinaryTyped,
         NEW w, w.value \in Numbers, w.at \in Nat, PlacedIn(contents, w), w.order # "little"
  PROVE  Reverse(Bytes(w.at, Len(w.value))) = w.value
<1> DEFINE n == Len(w.value)
           b == Bytes(w.at, n)
<1>1. w.value \in Seq(Octet) /\ n \in Nat
  BY NumberParts
<1>2. b \in Seq(Octet) /\ Len(b) = n /\ \A i \in 1..n : b[i] = contents[w.at + i]
  BY <1>1, BytesParts DEF PlacedIn
<1>3. \A i \in 1..n : b[i] = w.value[n + 1 - i]
  BY <1>2 DEF PlacedIn
<1> HIDE DEF b
<1>4. /\ Reverse(b) \in Seq(Octet) /\ Len(Reverse(b)) = n
      /\ \A i \in 1..n : Reverse(b)[i] = b[n + 1 - i]
  BY <1>2, ReverseParts
<1>5. \A i \in 1..n : n + 1 - i \in 1..n /\ n + 1 - (n + 1 - i) = i
  BY <1>1
<1>6. \A i \in 1..n : Reverse(b)[i] = w.value[i]
  BY <1>3, <1>4, <1>5
<1>7. Reverse(b) = w.value
  BY <1>1, <1>4, <1>6, SameSequence
<1> QED
  BY <1>7 DEF b

(* operator<< puts the number behind all others.                           *)
LEMMA InsertKeeps ==
  ASSUME Numbers \subseteq Seq(Octet) \ {<<>>}, BinaryInv,
         NEW value \in Numbers, Insert(value)
  PROVE  BinaryInv'
<1> DEFINE n == Len(contents)
           m == Len(written)
           new == [value |-> value, order |-> byteOrder, at |-> n]
<1>1. /\ contents \in Seq(Octet) /\ n \in Nat /\ m \in Nat
      /\ written \in Seq([value : Numbers, order : Orders, at : Nat])
      /\ byteOrder \in Orders
  BY DEF BinaryInv, BinaryTyped
<1>2. value \in Seq(Octet) /\ Len(value) \in Nat \ {0}
  BY NumberParts
<1>3. /\ Swapped(value) \in Seq(Octet) /\ Len(Swapped(value)) = Len(value)
      /\ \A i \in 1..Len(value) :
           Swapped(value)[i] =
             IF byteOrder # "little" THEN value[Len(value) + 1 - i] ELSE value[i]
  BY <1>2, SwappedParts
<1>4. contents' = contents \o Swapped(value) /\ written' = Append(written, new)
  BY DEF Insert
<1>5. UNCHANGED <<byteOrder, position, asked, read>> /\ read = NotRead
  BY DEF Insert
<1>6. /\ contents' \in Seq(Octet) /\ Len(contents') = n + Len(value)
      /\ \A i \in 1..n : contents'[i] = contents[i]
      /\ \A i \in 1..Len(value) : contents'[n + i] = Swapped(value)[i]
  <2> DEFINE s == Swapped(value)
  <2> HIDE DEF s
  <2>1. s \in Seq(Octet) /\ Len(s) = Len(value) /\ contents' = contents \o s
    BY <1>3, <1>4 DEF s
  <2>2. /\ contents \o s \in Seq(Octet) /\ Len(contents \o s) = n + Len(s)
        /\ \A i \in 1..n : (contents \o s)[i] = contents[i]
        /\ \A i \in 1..Len(s) : (contents \o s)[n + i] = s[i]
    BY <1>1, <2>1, ConcatParts
  <2> QED
    BY <2>1, <2>2 DEF s
<1>7. new \in [value : Numbers, order : Orders, at : Nat]
  BY <1>1
<1>8. /\ written' \in Seq([value : Numbers, order : Orders, at : Nat])
      /\ Len(written') = m + 1 /\ written'[m + 1] = new
      /\ \A i \in 1..m : written'[i] = written[i]
  <2> HIDE DEF new
  <2> QED
    BY <1>1, <1>4, <1>7
<1>9. BinaryTyped'
  BY <1>1, <1>5, <1>6, <1>8 DEF BinaryInv, BinaryTyped
<1>10. \A i \in 1..m : /\ written[i].value \in Numbers /\ written[i].at \in Nat
                       /\ PlacedIn(contents, written[i])
  <2> DEFINE Rec == [value : Numbers, order : Orders, at : Nat]
  <2>1. written \in Seq(Rec)
    BY <1>1
  <2> HIDE DEF Rec
  <2>2. \A i \in 1..m : written[i] \in Rec
    BY <2>1
  <2>3. \A i \in 1..m : PlacedIn(contents, written[i])
    BY DEF BinaryInv, NumbersPlaced
  <2> QED
    BY <2>2, <2>3 DEF Rec
<1>11. ASSUME NEW i \in 1..m
       PROVE  PlacedIn(contents', written'[i]) /\ written'[i].at \in Nat /\ written'[i].at < n
  <2> DEFINE w == written[i]
  <2>1. w.value \in Numbers /\ w.at \in Nat /\ PlacedIn(contents, w) /\ written'[i] = w
    BY <1>8, <1>10
  <2>2. Len(w.value) \in Nat \ {0}
    BY <2>1, NumberParts
  <2> HIDE DEF w
  <2>3. w.at + Len(w.value) <= n
    BY <2>1 DEF PlacedIn
  <2>4. \A k \in 1..Len(w.value) : w.at + k \in 1..n
    <3>1. PICK a \in Nat, l \in Nat : a = w.at /\ l = Len(w.value)
      BY <2>1, <2>2
    <3>2. a + l <= n /\ n \in Nat
      BY <1>1, <2>3, <3>1
    <3> HIDE DEF n
    <3>3. \A k \in 1..l : a + k \in 1..n
      BY <3>2
    <3> QED
      BY <3>1, <3>3
  <2>5. \A k \in 1..Len(w.value) : contents'[w.at + k] = contents[w.at + k]
    BY <2>4, <1>6
  <2>6. w.at + Len(w.value) <= Len(contents') /\ w.at < n
    BY <1>1, <1>2, <1>6, <2>1, <2>2, <2>3, SMTT(30)
  <2> QED
    BY <2>1, <2>5, <2>6 DEF PlacedIn
<1>12. PlacedIn(contents', written'[m + 1])
  <2>1. /\ new.value = value /\ new.order = byteOrder /\ new.at = n
    OBVIOUS
  <2> HIDE DEF new
  <2>2. \A k \in 1..Len(value) :
          contents'[n + k] = IF byteOrder # "little" THEN value[Len(value) + 1 - k] ELSE value[k]
    BY <1>3, <1>6
  <2>3. n + Len(value) <= Len(contents')
    BY <1>1, <1>2, <1>6
  <2> QED
    BY <1>8, <2>1, <2>2, <2>3 DEF PlacedIn
<1>13. \A i \in 1..(m + 1) : PlacedIn(contents', written'[i])
  BY <1>1, <1>11, <1>12, SMTT(30)
<1>14. \A i, j \in 1..(m + 1) : written'[i].at = written'[j].at => i = j
  <2>1. \A i, j \in 1..m : written'[i].at = written'[j].at => i = j
    BY <1>8 DEF BinaryInv, NumbersPlaced
  <2>2. n \in Nat /\ m \in Nat
    BY <1>1
  <2>3. written'[m + 1].at = n
    BY <1>8
  <2> HIDE DEF n, m
  <2>4. \A i \in 1..m : written'[i].at # n
    BY <1>11, <2>2
  <2>5. \A i \in 1..(m + 1) : i \in 1..m \/ i = m + 1
    BY <2>2
  <2> QED
    BY <2>1, <2>3, <2>4, <2>5
<1>15. NumbersPlaced'
  BY <1>8, <1>13, <1>14 DEF NumbersPlaced
<1>16. IntegersReadBack'
  BY <1>5 DEF IntegersReadBack
<1> QED
  BY <1>9, <1>15, <1>16 DEF BinaryInv

(* operator>>, in the order of the stream.                                 *)
LEMMA ExtractKeeps ==
  ASSUME Numbers \subseteq Seq(Octet) \ {<<>>}, <<">>uint16", "big">> \notin Calls,
         BinaryInv, NEW call, NEW width \in Nat, Extract(call, width)
  PROVE  BinaryInv'
<1> DEFINE b == Bytes(position, width)
           value == IF call = ">>uint16" THEN b ELSE Swapped(b)
<1>1. Took(call, byteOrder, value, width) /\ position' = position + width
  BY DEF Extract
<1>2. BinaryTyped /\ NumbersPlaced /\ position = asked /\ asked \in Nat /\ byteOrder \in Orders
  BY DEF BinaryInv, BinaryTyped
<1>3. Upcoming(width) /\ <<call, byteOrder>> \in Calls
  BY <1>1 DEF Took
<1>4. ASSUME NEW w \in ToSet(written), w.at = asked, w.order = byteOrder
      PROVE  value = w.value
  <2>1. w.value \in Numbers /\ Len(w.value) = width /\ PlacedIn(contents, w)
    BY <1>2, <1>3, <1>4, UpcomingParts
  <2>2. CASE byteOrder = "little"
    <3>1. b = w.value
      BY <1>2, <1>4, <2>1, <2>2, PlainBytes
    <3>2. Swapped(b) = b
      BY <2>2 DEF Swapped, flipBytes
    <3> QED
      BY <3>1, <3>2
  <2>3. CASE byteOrder # "little"
    <3>1. call # ">>uint16"
      BY <1>2, <1>3, <2>3 DEF Orders
    <3>2. Reverse(b) = w.value
      BY <1>2, <1>4, <2>1, <2>3, TurnedBytes
    <3>3. Swapped(b) = Reverse(b)
      BY <2>3 DEF Swapped, flipBytes
    <3> QED
      BY <3>1, <3>2, <3>3
  <2> QED
    BY <2>2, <2>3
<1> HIDE DEF value
<1> QED
  BY <1>1, <1>2, <1>4, TookReads

(* readInt, readUInt, readShort and readByte.                              *)
LEMMA readIntKeeps ==
  ASSUME Numbers \subseteq Seq(Octet) \ {<<>>}, ~ShortReads,
         BinaryInv, NEW call, NEW width \in Nat, readInt(call, width)
  PROVE  BinaryInv'
<1>1. PICK many \in Given(position, width) :
        /\ Took(call, "big", BigEndian(position, width, many), width)
        /\ position' = position + many
  BY DEF readInt
<1>2. BinaryTyped /\ NumbersPlaced /\ position = asked /\ asked \in Nat
  BY DEF BinaryInv, BinaryTyped
<1>3. Upcoming(width)
  BY <1>1 DEF Took
<1>4. PICK u \in ToSet(written) : u.at = asked
  BY <1>3 DEF Upcoming
<1>5. asked + width <= Len(contents)
  BY <1>2, <1>3, <1>4, UpcomingParts
<1>6. many = width
  BY <1>2, <1>5, GivenAll
<1>7. BigEndian(position, width, many) = Reverse(Bytes(position, width))
  BY <1>6 DEF BigEndian
<1>8. ASSUME NEW w \in ToSet(written), w.at = asked, w.order = "big"
      PROVE  Reverse(Bytes(position, width)) = w.value
  <2>1. w.value \in Numbers /\ Len(w.value) = width /\ PlacedIn(contents, w)
    BY <1>2, <1>3, <1>8, UpcomingParts
  <2> QED
    BY <1>2, <1>8, <2>1, TurnedBytes
<1>9. Took(call, "big", Reverse(Bytes(position, width)), width)
  BY <1>1, <1>7
<1>10. position' = position + width
  BY <1>1, <1>6
<1> QED
  BY <1>2, <1>8, <1>9, <1>10, TookReads

(* readBytes and skip.                                                     *)
LEMMA readBytesKeeps ==
  ASSUME Numbers \subseteq Seq(Octet) \ {<<>>}, ~ShortReads,
         BinaryInv, NEW call, NEW width \in Nat, readBytes(call, width)
  PROVE  BinaryInv'
<1>1. PICK many \in Given(position, width) :
        /\ Took(call, "little", Bytes(position, many) \o Zeros(width - many), width)
        /\ position' = position + many
  BY DEF readBytes
<1>2. BinaryTyped /\ NumbersPlaced /\ position = asked /\ asked \in Nat
  BY DEF BinaryInv, BinaryTyped
<1>3. Upcoming(width)
  BY <1>1 DEF Took
<1>4. PICK u \in ToSet(written) : u.at = asked
  BY <1>3 DEF Upcoming
<1>5. asked + width <= Len(contents)
  BY <1>2, <1>3, <1>4, UpcomingParts
<1>6. many = width
  BY <1>2, <1>5, GivenAll
<1>7. Bytes(position, many) \o Zeros(width - many) = Bytes(position, width)
  <2>1. Bytes(position, width) \in Seq(Octet)
    BY <1>2, <1>5, BytesParts
  <2>2. Zeros(width - many) = <<>>
    BY <1>6 DEF Zeros
  <2> QED
    BY <1>6, <2>1, <2>2
<1>8. ASSUME NEW w \in ToSet(written), w.at = asked, w.order = "little"
      PROVE  Bytes(position, width) = w.value
  <2>1. w.value \in Numbers /\ Len(w.value) = width /\ PlacedIn(contents, w)
    BY <1>2, <1>3, <1>8, UpcomingParts
  <2> QED
    BY <1>2, <1>8, <2>1, PlainBytes
<1>9. Took(call, "little", Bytes(position, width), width)
  BY <1>1, <1>7
<1>10. position' = position + width
  BY <1>1, <1>6
<1> QED
  BY <1>2, <1>8, <1>9, <1>10, TookReads

(* readLong reads the high half first, from the half of the bytes that     *)
(* comes first.                                                            *)
LEMMA HalfRead ==
  ASSUME Numbers \subseteq Seq(Octet) \ {<<>>}, BinaryTyped,
         NEW w, w.value \in Numbers, w.at \in Nat, PlacedIn(contents, w), w.order # "little",
         Len(w.value) = 8, NEW k \in {0, 4}
  PROVE  Reverse(Bytes(w.at + k, 4)) = SubSeq(w.value, 5 - k, 8 - k)
<1> DEFINE b == Bytes(w.at + k, 4)
           h == SubSeq(w.value, 5 - k, 8 - k)
           v == w.value
           at == w.at
<1>1. v \in Seq(Octet)
  BY NumberParts
<1>2. at \in Nat /\ at + 8 <= Len(contents) /\ Len(v) = 8 /\ Len(contents) \in Nat
  BY DEF PlacedIn, BinaryTyped
<1>3. \A i \in 1..8 : contents[at + i] = v[9 - i]
  <2>1. \A i \in 1..8 : contents[at + i] = v[8 + 1 - i]
    BY DEF PlacedIn
  <2>2. \A i \in 1..8 : 8 + 1 - i = 9 - i
    OBVIOUS
  <2> HIDE DEF v, at
  <2> QED
    BY <2>1, <2>2
<1> HIDE DEF v, at
<1>4. at + k \in Nat /\ (at + k) + 4 <= Len(contents)
  BY <1>2
<1>5. b \in Seq(Octet) /\ Len(b) = 4 /\ \A i \in 1..4 : b[i] = contents[(at + k) + i]
  BY <1>4, BytesParts DEF at
<1>6. \A i \in 1..4 : k + i \in 1..8 /\ (at + k) + i = at + (k + i)
  BY <1>2
<1>7. \A i \in 1..4 : b[i] = v[9 - (k + i)]
  BY <1>3, <1>5, <1>6
<1> HIDE DEF b
<1>8. /\ Reverse(b) \in Seq(Octet) /\ Len(Reverse(b)) = 4
      /\ \A i \in 1..4 : Reverse(b)[i] = b[4 + 1 - i]
  <2>1. /\ Reverse(b) \in Seq(Octet) /\ Len(Reverse(b)) = Len(b)
        /\ \A i \in 1..Len(b) : Reverse(b)[i] = b[Len(b) + 1 - i]
    BY <1>5, ReverseParts
  <2> QED
    BY <1>5, <2>1
<1>9. \A i \in 1..4 : Reverse(b)[i] = v[(4 - k) + i]
  <2>1. \A i \in 1..4 : 4 + 1 - i \in 1..4 /\ 9 - (k + (4 + 1 - i)) = (4 - k) + i
    OBVIOUS
  <2> QED
    BY <1>7, <1>8, <2>1
<1>10. h = [i \in 1..4 |-> v[(4 - k) + i]]
  <2>1. h = SubSeq(v, 5 - k, 8 - k)
    BY DEF v
  <2>2. CASE k = 0
    BY <1>1, <1>2, <2>1, <2>2
  <2>3. CASE k = 4
    BY <1>1, <1>2, <2>1, <2>3
  <2> QED
    BY <2>2, <2>3
<1>11. Reverse(b) = h
  <2>1. Reverse(b) = [i \in 1..4 |-> Reverse(b)[i]]
    BY <1>8
  <2> QED
    BY <1>9, <1>10, <2>1
<1> QED
  BY <1>11 DEF b, h, v

LEMMA JoinsHalves ==
  ASSUME Numbers \subseteq Seq(Octet) \ {<<>>}, HalvesAgree,
         NEW value \in Numbers, Len(value) = 8
  PROVE  Joined(SubSeq(value, 5, 8), SubSeq(value, 1, 4)) = value
<1> DEFINE high == SubSeq(value, 5, 8)
           low == SubSeq(value, 1, 4)
<1>1. value \in Seq(Octet)
  BY NumberParts
<1>2. low \in Seq(Octet) /\ high \in Seq(Octet) /\ Len(low) = 4 /\ Len(high) = 4
  <2>1. /\ SubSeq(value, 1, 4) \in Seq(Octet) /\ Len(SubSeq(value, 1, 4)) = 4
        /\ SubSeq(value, 4 + 1, Len(value)) \in Seq(Octet)
        /\ Len(SubSeq(value, 4 + 1, Len(value))) = Len(value) - 4
    <3>1. 4 \in Nat /\ 4 <= Len(value)
      OBVIOUS
    <3> HIDE DEF low, high
    <3> QED
      BY <1>1, <3>1, CutParts, ZenonT(60)
  <2>2. SubSeq(value, 4 + 1, Len(value)) = high /\ Len(value) - 4 = 4
    OBVIOUS
  <2> QED
    BY <2>1, <2>2
<1>3. low \o high = value
  BY <1>1
<1>4. Negative(low) => high = Ones(4)
  BY DEF HalvesAgree
<1>5. Joined(high, low) = low \o (IF Negative(low) THEN Ones(Len(high)) ELSE high)
  BY DEF Joined
<1> HIDE DEF high, low
<1>6. Joined(high, low) = value
  BY <1>2, <1>3, <1>4, <1>5
<1> QED
  BY <1>6 DEF high, low

LEMMA readLongKeeps ==
  ASSUME Numbers \subseteq Seq(Octet) \ {<<>>}, ~ShortReads,
         <<"readLong", "big">> \in Calls => HalvesAgree,
         BinaryInv, readLong
  PROVE  BinaryInv'
<1>1. PICK first \in Given(position, 4) : \E second \in Given(position + first, 4) :
        /\ Took("readLong", "big",
                Joined(BigEndian(position, 4, first), BigEndian(position + first, 4, second)), 8)
        /\ position' = position + first + second
  BY DEF readLong
<1>2. PICK second \in Given(position + first, 4) :
        /\ Took("readLong", "big",
                Joined(BigEndian(position, 4, first), BigEndian(position + first, 4, second)), 8)
        /\ position' = position + first + second
  BY <1>1
<1>3. BinaryTyped /\ NumbersPlaced /\ position = asked /\ asked \in Nat
  BY DEF BinaryInv, BinaryTyped
<1>4. Upcoming(8) /\ <<"readLong", "big">> \in Calls
  BY <1>2 DEF Took
<1>5. PICK u \in ToSet(written) : u.at = asked
  BY <1>4 DEF Upcoming
<1>6. asked + 8 <= Len(contents) /\ Len(contents) \in Nat
  BY <1>3, <1>4, <1>5, UpcomingParts DEF BinaryTyped
<1>7. first = 4
  <2>1. position + 4 <= Len(contents)
    BY <1>3, <1>6
  <2> QED
    BY <1>3, <2>1, GivenAll
<1>8. second = 4
  <2>1. position + 4 \in Nat /\ (position + 4) + 4 <= Len(contents)
    BY <1>3, <1>6
  <2> QED
    BY <1>3, <1>7, <2>1, GivenAll
<1> DEFINE value == Joined(Reverse(Bytes(position, 4)), Reverse(Bytes(position + 4, 4)))
<1>9. Took("readLong", "big", value, 8)
  BY <1>2, <1>7, <1>8 DEF BigEndian
<1>10. position' = position + 8
  BY <1>2, <1>3, <1>7, <1>8
<1>11. ASSUME NEW w \in ToSet(written), w.at = asked, w.order = "big"
       PROVE  value = w.value
  <2>1. w.value \in Numbers /\ Len(w.value) = 8 /\ PlacedIn(contents, w)
    BY <1>3, <1>4, <1>11, UpcomingParts
  <2>2. Reverse(Bytes(w.at + 0, 4)) = SubSeq(w.value, 5 - 0, 8 - 0)
    BY <1>3, <1>11, <2>1, HalfRead
  <2>3. Reverse(Bytes(w.at + 4, 4)) = SubSeq(w.value, 5 - 4, 8 - 4)
    BY <1>3, <1>11, <2>1, HalfRead
  <2>4. position + 0 = position /\ 5 - 0 = 5 /\ 8 - 0 = 8 /\ 5 - 4 = 1 /\ 8 - 4 = 4
    BY <1>3
  <2>5. Reverse(Bytes(position, 4)) = SubSeq(w.value, 5, 8)
    BY <1>3, <1>11, <2>2, <2>4
  <2>6. Reverse(Bytes(position + 4, 4)) = SubSeq(w.value, 1, 4)
    BY <1>3, <1>11, <2>3, <2>4
  <2>7. Joined(SubSeq(w.value, 5, 8), SubSeq(w.value, 1, 4)) = w.value
    BY <1>4, <2>1, JoinsHalves
  <2> QED
    BY <2>5, <2>6, <2>7
<1> HIDE DEF value
<1> QED
  BY <1>3, <1>9, <1>10, <1>11, TookReads

(* Whoever reads a number in the order it was written in gets that number, *)
(* whatever was written and read before: as long as reads are not cut      *)
(* short, the stream's unsigned two-byte extraction is not asked for       *)
(* big-endian numbers, and readLong is used only where the sign of the low *)
(* half does no harm.  The code fails beyond each of the three.            *)
THEOREM NumbersReadBack ==
  ASSUME Numbers \subseteq Seq(Octet) \ {<<>>}, ~ShortReads,
         <<">>uint16", "big">> \notin Calls,
         <<"readLong", "big">> \in Calls => HalvesAgree
  PROVE  BinarySpec => []IntegersReadBack
<1>1. BinaryInit => BinaryInv
  <2> SUFFICES ASSUME BinaryInit PROVE BinaryInv
    OBVIOUS
  <2>1. ToSet(written) = {} /\ Len(written) = 0
    BY DEF BinaryInit, ToSet
  <2>2. BinaryTyped
    BY DEF BinaryInit, BinaryTyped, Orders
  <2>3. NumbersPlaced
    BY <2>1 DEF NumbersPlaced
  <2>4. IntegersReadBack
    BY <2>1 DEF IntegersReadBack
  <2> QED
    BY <2>2, <2>3, <2>4 DEF BinaryInv
<1>2. BinaryInv /\ [BinaryNext]_binaryVars => BinaryInv'
  <2> SUFFICES ASSUME BinaryInv, [BinaryNext]_binaryVars PROVE BinaryInv'
    OBVIOUS
  <2>1. ASSUME NEW order \in Orders, SetByteOrder(order) PROVE BinaryInv'
    BY <2>1 DEF SetByteOrder, BinaryInv, BinaryTyped, NumbersPlaced, PlacedIn, IntegersReadBack
  <2>2. ASSUME NEW value \in Numbers, Insert(value) PROVE BinaryInv'
    BY <2>2, InsertKeeps
  <2>3. CASE Reading
    <3>1. ASSUME NEW width \in {2, 4, 8}, NEW call, Extract(call, width) PROVE BinaryInv'
      BY <3>1, ExtractKeeps
    <3>2. ASSUME NEW width \in {1, 2, 4}, NEW call, readInt(call, width) PROVE BinaryInv'
      BY <3>2, readIntKeeps
    <3>3. ASSUME NEW width \in {2, 4, 8}, readBytes("readBytes", width) PROVE BinaryInv'
      BY <3>3, readBytesKeeps
    <3>4. CASE readLong
      BY <3>4, readLongKeeps
    <3> QED
      BY <2>3, <3>1, <3>2, <3>3, <3>4 DEF Reading
  <2>4. CASE UNCHANGED binaryVars
    BY <2>4 DEF binaryVars, BinaryInv, BinaryTyped, NumbersPlaced, PlacedIn, IntegersReadBack
  <2> QED
    BY <2>1, <2>2, <2>3, <2>4 DEF BinaryNext
<1>3. BinaryInv => IntegersReadBack
  BY DEF BinaryInv
<1> QED
  BY <1>1, <1>2, <1>3, PTL DEF BinarySpec
=============================================================================
