----------------------------- MODULE ByteQueue -----------------------------
(***************************************************************************)
(* A byte buffer seen as the sequence of the bytes it holds, oldest first: *)
(* what each call does to that sequence and what it gives its caller.      *)
(* BoundedFifo makes a specification of these operators, CircularBuffer    *)
(* is shown to implement it, and CentralAudioBuffer uses them for the      *)
(* buffer it owns.                                                         *)
(***************************************************************************)
EXTENDS Integers, Sequences

Smaller(a, b) == IF a <= b THEN a ELSE b

(* The prefix of data a queue of the given capacity has room for.          *)
Accepted(q, data, capacity) ==
  SubSeq(data, 1, Smaller(Len(data), capacity - Len(q)))

(* The bytes a read of n bytes hands out, and those it leaves.             *)
Oldest(q, n) == SubSeq(q, 1, Smaller(n, Len(q)))
AfterOldest(q, n) == SubSeq(q, Smaller(n, Len(q)) + 1, Len(q))
=============================================================================
