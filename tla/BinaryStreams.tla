--------------------------- MODULE BinaryStreams ---------------------------
(***************************************************************************)
(* BinaryStream writes integers to an ostream, or reads them from an       *)
(* istream, in the byte order set last; BinaryReader reads big-endian ones *)
(* from a ByteStream.  Here integers are written, and whoever reads asks   *)
(* for them one after the other, signed or not.  An integer is the         *)
(* sequence of its bytes as the machine keeps them, the lowest first: the  *)
(* machine is little-endian.                                               *)
(***************************************************************************)
EXTENDS Integers, SequencesExt

CONSTANTS Numbers,          (* the byte sequences that are written          *)
          Calls,            (* the reads in use: <<call, byte order>>       *)
          ShortReads,       (* whether a ByteStream may give less than asked*)
          MaxNumbers        (* bound on the integers of a stream            *)

VARIABLES byteOrder,        (* of the stream that is written, or read       *)
          contents,         (* the bytes written so far                     *)
          written,          (* the integers: [value, order, at]             *)
          position,         (* where the reading stream is                  *)
          asked,            (* how many bytes were asked for before         *)
          read              (* the last read: [call, order, value, at]      *)

binaryVars == <<byteOrder, contents, written, position, asked, read>>

Orders == {"little", "big"}
flipBytes == byteOrder # "little"
Swapped(value) == IF flipBytes THEN Reverse(value) ELSE value

(* Of a number with its sign, as the int it is kept in.                    *)
Negative(value) == Last(value) >= 128
Zeros(n) == [i \in 1..n |-> 0]
Ones(n) == [i \in 1..n |-> 255]

NotRead == [call |-> "none", order |-> "little", value |-> <<>>, at |-> 0]

BinaryInit ==
  /\ byteOrder = "little" /\ contents = <<>> /\ written = <<>>
  /\ position = 0 /\ asked = 0 /\ read = NotRead

SetByteOrder(order) ==
  /\ byteOrder # order /\ byteOrder' = order
  /\ UNCHANGED <<contents, written, position, asked, read>>

(* operator<<, of every width.                                             *)
Insert(value) ==
  /\ Len(written) < MaxNumbers /\ read = NotRead
  /\ contents' = contents \o Swapped(value)
  /\ written' = Append(written, [value |-> value, order |-> byteOrder, at |-> Len(contents)])
  /\ UNCHANGED <<byteOrder, position, asked, read>>

(* What is asked for next, in the width it was written in.                 *)
Upcoming(width) == \E w \in ToSet(written) : w.at = asked /\ Len(w.value) = width

Took(call, order, value, width) ==
  /\ <<call, order>> \in Calls /\ Upcoming(width)
  /\ read' = [call |-> call, order |-> order, value |-> value, at |-> asked]
  /\ asked' = asked + width
  /\ UNCHANGED <<byteOrder, contents, written>>

Bytes(at, n) == SubSeq(contents, at + 1, at + n)

(* operator>>: the two-byte unsigned one swaps a copy.                     *)
Extract(call, width) ==
  /\ Took(call, byteOrder,
          IF call = ">>uint16" THEN Bytes(position, width) ELSE Swapped(Bytes(position, width)),
          width)
  /\ position' = position + width

(***************************************************************************)
(* BinaryReader.  A stream gives what is there, or less (BufferedStream);  *)
(* the reader's functions return 0 for a number cut short.                 *)
(***************************************************************************)
Given(at, n) ==
  LET there == IF Len(contents) - at < n THEN Len(contents) - at ELSE n
  IN  IF ShortReads /\ there > 0 THEN 1..there ELSE {there}

BigEndian(at, n, given) == IF given = n THEN Reverse(Bytes(at, n)) ELSE Zeros(n)

(* readInt, and likewise readUInt, readShort and readByte.                 *)
readInt(call, width) ==
  \E given \in Given(position, width) :
    /\ Took(call, "big", BigEndian(position, width, given), width)
    /\ position' = position + given

(* readBytes and skip, whose bytes nobody looks at.                        *)
readBytes(call, width) ==
  \E given \in Given(position, width) :
    /\ Took(call, "little",
            Bytes(position, given) \o Zeros(width - given), width)
    /\ position' = position + given

(* Mutant: the halves the wrong way round.                                 *)
Joined_LowFirst(high, low) == high \o low

(* The lower half is or-ed in as a signed number.                          *)
Joined(high, low) == low \o (IF Negative(low) THEN Ones(Len(high)) ELSE high)

readLong ==
  \E first \in Given(position, 4) : \E second \in Given(position + first, 4) :
    /\ Took("readLong", "big",
            Joined(BigEndian(position, 4, first), BigEndian(position + first, 4, second)), 8)
    /\ position' = position + first + second

Reading ==
  \/ \E width \in {2, 4, 8}, call \in {">>", ">>uint16"} :
       (call = ">>uint16" => width = 2) /\ Extract(call, width)
  \/ readInt("readByte", 1) \/ readInt("readShort", 2)
  \/ readInt("readInt", 4) \/ readInt("readUInt", 4)
  \/ \E width \in {2, 4, 8} : readBytes("readBytes", width)
  \/ readLong

BinaryNext ==
  \/ \E order \in Orders : SetByteOrder(order)
  \/ \E value \in Numbers : Insert(value)
  \/ Reading
BinarySpec == BinaryInit /\ [][BinaryNext]_binaryVars

(***************************************************************************)
(* Properties                                                              *)
(***************************************************************************)
(* An integer that is read in the order it was written in is the integer   *)
(* that was written, whoever reads it and whatever was read before, raw    *)
(* bytes in the machine's order.                                           *)
IntegersReadBack ==
  \A w \in ToSet(written) :
    read.at = w.at /\ read.order = w.order /\ read # NotRead => read.value = w.value
=============================================================================
