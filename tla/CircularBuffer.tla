--------------------------- MODULE CircularBuffer ---------------------------
(***************************************************************************)
(* bell::CircularBuffer (io/CircularBuffer.cpp): a byte ring with a begin  *)
(* index, an end index and a byte count.  Each member function takes       *)
(* bufferMutex for its whole body, so each is one action here; a memcpy is *)
(* an update of the part of the storage it covers.                         *)
(*                                                                         *)
(* endIndex may rest at dataCapacity: emptyExcept wraps it with > where    *)
(* write wraps with ==.  The next write then takes the two-step branch     *)
(* with an empty first chunk.                                              *)
(***************************************************************************)
EXTENDS ByteQueue

CONSTANTS Byte,          (* the values a byte can have                      *)
          ZeroByte,      (* what std::vector<uint8_t>(n) is filled with     *)
          dataCapacity,  (* the constructor's argument                      *)
          MaxRequest     (* bound on the size of one call (model checking)  *)

ASSUME RingAssumption ==
  /\ dataCapacity \in Nat \ {0}
  /\ MaxRequest \in Nat
  /\ ZeroByte \in Byte

VARIABLES buffer, begIndex, endIndex, dataSize,
          returned       (* what the last call handed back to its caller    *)

vars == <<buffer, begIndex, endIndex, dataSize, returned>>

Offset == 0..(dataCapacity - 1)

(* The length-indexed data a caller passes, and the results it gets back,  *)
(* are those of the abstract queue.                                        *)
Request == UNION {[1..n -> Byte] : n \in 0..MaxRequest}
Nothing == [op |-> "none"]
Wrote(n) == [op |-> "write", count |-> n]
Got(bytes) == [op |-> "read", bytes |-> bytes]

(* memcpy(buffer + at, data + from, count)                                 *)
CopyIn(store, at, data, from, count) ==
  [i \in Offset |-> IF at <= i /\ i < at + count
                    THEN data[from + (i - at) + 1] ELSE store[i]]

(* memcpy(data, buffer + at, count)                                        *)
CopyOut(store, at, count) == [i \in 1..count |-> store[at + i - 1]]

(***************************************************************************)
(* The operations.                                                         *)
(***************************************************************************)
Init ==
  /\ buffer = [i \in Offset |-> ZeroByte]
  /\ begIndex = 0
  /\ endIndex = 0
  /\ dataSize = 0
  /\ returned = Nothing

(* Storage and end index after n bytes of data have gone in: in one step   *)
(* when they fit before the end of the storage, else in two.               *)
WriteInOneStep(data, n) ==
  /\ n <= dataCapacity - endIndex
  /\ buffer' = CopyIn(buffer, endIndex, data, 0, n)
  /\ endIndex' = IF endIndex + n = dataCapacity THEN 0 ELSE endIndex + n

(* Mutant: the second chunk's size taken for the whole write's.            *)
WriteInTwoSteps_WholeSize(data, n) ==
  LET firstChunkSize  == dataCapacity - endIndex
      secondChunkSize == n - firstChunkSize
  IN  /\ n > firstChunkSize
      /\ buffer' = CopyIn(CopyIn(buffer, endIndex, data, 0, firstChunkSize),
                          0, data, firstChunkSize, secondChunkSize)
      /\ endIndex' = n

WriteInTwoSteps(data, n) ==
  LET firstChunkSize  == dataCapacity - endIndex
      secondChunkSize == n - firstChunkSize
  IN  /\ n > firstChunkSize
      /\ buffer' = CopyIn(CopyIn(buffer, endIndex, data, 0, firstChunkSize),
                          0, data, firstChunkSize, secondChunkSize)
      /\ endIndex' = secondChunkSize

Write(data) ==
  LET bytesToWrite == Smaller(Len(data), dataCapacity - dataSize)
  IN  /\ Len(data) # 0
      /\ WriteInOneStep(data, bytesToWrite) \/ WriteInTwoSteps(data, bytesToWrite)
      /\ dataSize' = dataSize + bytesToWrite
      /\ returned' = Wrote(bytesToWrite)
      /\ UNCHANGED begIndex

(* The bytes == 0 early return, before the lock.                           *)
WriteNothing ==
  /\ returned' = Wrote(0)
  /\ UNCHANGED <<buffer, begIndex, endIndex, dataSize>>

EmptyBuffer ==
  /\ begIndex' = 0
  /\ dataSize' = 0
  /\ endIndex' = 0
  /\ returned' = Nothing
  /\ UNCHANGED buffer

(* Mutant: emptyExcept keeps the newest bytes.                             *)
EmptyExcept_Newest(sizeToSet) ==
  LET kept == Smaller(sizeToSet, dataSize)
      beg  == begIndex + (dataSize - kept)
  IN  /\ dataSize' = kept
      /\ begIndex' = IF beg >= dataCapacity THEN beg - dataCapacity ELSE beg
      /\ returned' = Nothing
      /\ UNCHANGED <<buffer, endIndex>>

EmptyExcept(sizeToSet) ==
  LET kept == Smaller(sizeToSet, dataSize)
      end  == begIndex + kept
  IN  /\ dataSize' = kept
      /\ endIndex' = IF end > dataCapacity THEN end - dataCapacity ELSE end
      /\ returned' = Nothing
      /\ UNCHANGED <<buffer, begIndex>>

ReadInOneStep(n) ==
  /\ n <= dataCapacity - begIndex
  /\ returned' = Got(CopyOut(buffer, begIndex, n))
  /\ begIndex' = IF begIndex + n = dataCapacity THEN 0 ELSE begIndex + n

ReadInTwoSteps(n) ==
  LET firstChunkSize  == dataCapacity - begIndex
      secondChunkSize == n - firstChunkSize
  IN  /\ n > firstChunkSize
      /\ returned' = Got(CopyOut(buffer, begIndex, firstChunkSize)
                         \o CopyOut(buffer, 0, secondChunkSize))
      /\ begIndex' = secondChunkSize

Read(bytes) ==
  LET bytesToRead == Smaller(bytes, dataSize)
  IN  /\ bytes # 0
      /\ ReadInOneStep(bytesToRead) \/ ReadInTwoSteps(bytesToRead)
      /\ dataSize' = dataSize - bytesToRead
      /\ UNCHANGED <<buffer, endIndex>>

ReadNothing ==
  /\ returned' = Got(<<>>)
  /\ UNCHANGED <<buffer, begIndex, endIndex, dataSize>>

Next ==
  \/ \E data \in Request : Write(data)
  \/ WriteNothing
  \/ EmptyBuffer
  \/ \E n \in 0..MaxRequest : EmptyExcept(n) \/ Read(n)
  \/ ReadNothing

Spec == Init /\ [][Next]_vars

(***************************************************************************)
(* Properties.                                                             *)
(***************************************************************************)
(* Every index is in the range the memcpy calls of write and read need;    *)
(* endIndex alone may equal the capacity (emptyExcept).                    *)
TypeOK ==
  /\ buffer \in [Offset -> Byte]
  /\ begIndex \in Offset
  /\ endIndex \in 0..dataCapacity
  /\ dataSize \in 0..dataCapacity

(* The three pieces of bookkeeping never disagree: whatever sequence of    *)
(* wrapped writes, wrapped reads and emptyExcept calls came before, the    *)
(* end index is dataSize bytes after the begin index around the ring.  The *)
(* last case is the end index emptyExcept leaves at the capacity when a    *)
(* read then takes everything and wraps the begin index to 0.              *)
IndicesAgree ==
  \/ endIndex = begIndex + dataSize
  \/ endIndex = begIndex + dataSize - dataCapacity
  \/ endIndex = dataCapacity /\ begIndex = 0 /\ dataSize = 0

(* Both at once: no call, whatever came before it, copies out of the       *)
(* storage's bounds or finds bookkeeping that disagrees.                   *)
RingInv == TypeOK /\ IndicesAgree

(* The bytes the ring holds, oldest first.                                 *)
Around(i) == IF i < dataCapacity THEN i ELSE i - dataCapacity
Contents == [i \in 1..dataSize |-> buffer[Around(begIndex + i - 1)]]

Fifo == INSTANCE BoundedFifo
          WITH fifo <- Contents, Capacity <- dataCapacity

(* Seen by its callers the ring is a bounded queue: write accepts what     *)
(* fits and returns that count, read returns the oldest bytes in order,    *)
(* emptyExcept keeps the oldest ones.                                      *)
ImplementsFifo == Fifo!FifoSpec
=============================================================================
