---------------------------- MODULE BoundedFifo ----------------------------
(***************************************************************************)
(* What a byte buffer of bell promises its callers: a queue of at most     *)
(* Capacity bytes.  A write accepts the longest prefix of its data that    *)
(* still fits, a read hands out the oldest bytes, and the two emptying     *)
(* operations drop everything or everything but the oldest bytes.          *)
(*                                                                         *)
(* There is no index, no wrap-around and no storage here: this is the      *)
(* specification CircularBuffer implements and the one CentralAudioBuffer  *)
(* is built on.  Every operation is a critical section of bufferMutex.     *)
(***************************************************************************)
EXTENDS ByteQueue

CONSTANTS Byte,        (* the values a byte of the buffer can have          *)
          Capacity,    (* dataCapacity, fixed by the constructor            *)
          MaxRequest   (* bound on the size of one call (model checking)    *)

VARIABLES fifo,        (* the bytes held, oldest first                      *)
          returned     (* what the last call handed back to its caller      *)

fifoVars == <<fifo, returned>>

(* The data a caller may pass to one write.                                *)
Request == UNION {[1..n -> Byte] : n \in 0..MaxRequest}

(* The two shapes of a result: a write returns a count, a read returns     *)
(* the bytes (and their number), the emptying calls return nothing.        *)
Nothing == [op |-> "none"]
Wrote(n) == [op |-> "write", count |-> n]
Got(bytes) == [op |-> "read", bytes |-> bytes]

(***************************************************************************)
(* The operations.                                                         *)
(***************************************************************************)
FifoInit == fifo = <<>> /\ returned = Nothing

FifoWrite(data) ==
  /\ fifo' = fifo \o Accepted(fifo, data, Capacity)
  /\ returned' = Wrote(Len(Accepted(fifo, data, Capacity)))

FifoRead(bytes) ==
  /\ fifo' = AfterOldest(fifo, bytes)
  /\ returned' = Got(Oldest(fifo, bytes))

FifoEmpty == fifo' = <<>> /\ returned' = Nothing

FifoEmptyExcept(sizeToSet) ==
  /\ fifo' = Oldest(fifo, sizeToSet)
  /\ returned' = Nothing

FifoNext ==
  \/ \E data \in Request : FifoWrite(data)
  \/ \E bytes \in 0..MaxRequest : FifoRead(bytes) \/ FifoEmptyExcept(bytes)
  \/ FifoEmpty

FifoSpec == FifoInit /\ [][FifoNext]_fifoVars
=============================================================================
