---------------------------- MODULE SocketStream ----------------------------
(***************************************************************************)
(* SocketBuffer (io/SocketStream.cpp): the stream buffer between an        *)
(* iostream and a socket that takes and gives fewer bytes than asked for   *)
(* and fails at any moment, also in the middle of a call.                  *)
(*                                                                         *)
(* A byte is its number in its direction's stream.  The client goes on     *)
(* after a failure with the bytes that were not accepted, and clears the   *)
(* stream's error state.  It connects once: a buffer is not opened again.  *)
(***************************************************************************)
EXTENDS Integers, Sequences

CONSTANTS bufLen,
          MaxRequest,   (* bound on the bytes of one call                   *)
          MaxBytes      (* bound on the bytes of a direction                *)

ASSUME SocketAssumption == {bufLen, MaxRequest, MaxBytes} \subseteq Nat \ {0}

VARIABLES putArea,      (* the bytes from pbase to pptr                     *)
          room,         (* epptr - pptr: 0 before the first sync            *)
          getArea,      (* the bytes from gptr to egptr                     *)
          isOpen,
          accepted,     (* history: bytes the client has handed over        *)
          sent,         (* history: what the socket has taken               *)
          received,     (* history: bytes the socket has given              *)
          taken         (* history: what the client has read                *)

outVars == <<putArea, room, accepted, sent>>
inVars == <<getArea, received, taken>>
vars == <<outVars, inVars, isOpen>>

Numbers(from, to) == [i \in 1..(to - from + 1) |-> from + i - 1]
First(n, bytes) == SubSeq(bytes, 1, n)
Without(n, bytes) == SubSeq(bytes, n + 1, Len(bytes))

Init ==
  /\ putArea = <<>> /\ room = 0 /\ getArea = <<>> /\ isOpen = TRUE
  /\ accepted = 0 /\ sent = <<>> /\ received = 0 /\ taken = <<>>

(***************************************************************************)
(* sync.  The socket fails after n bytes, or takes them all.               *)
(***************************************************************************)
(* Mutant: the put area is kept as it was, to be sent again.               *)
SyncFails_ResendsAll(n) ==
  /\ n < Len(putArea)
  /\ sent' = sent \o First(n, putArea)
  /\ UNCHANGED <<putArea, room>>

SyncFails(n) ==
  /\ n < Len(putArea)
  /\ sent' = sent \o First(n, putArea)
  /\ putArea' = Without(n, putArea)
  /\ UNCHANGED room

sync ==
  \/ /\ sent' = sent \o putArea
     /\ putArea' = <<>> /\ room' = bufLen
  \/ \E n \in 0..(bufLen - 1) : SyncFails(n)

Flush == isOpen /\ sync /\ UNCHANGED <<inVars, isOpen, accepted>>

(***************************************************************************)
(* sputc and overflow: a byte is stored once there is room for it.         *)
(***************************************************************************)
Store ==
  /\ room > 0
  /\ putArea' = Append(putArea, accepted + 1)
  /\ room' = room - 1
  /\ accepted' = accepted + 1
  /\ UNCHANGED sent

overflow ==
  /\ room = 0
  /\ \/ /\ sent' = sent \o putArea
        /\ putArea' = <<accepted + 1>> /\ room' = bufLen - 1
        /\ accepted' = accepted + 1
     \/ /\ \E n \in 0..(bufLen - 1) : SyncFails(n)
        /\ UNCHANGED accepted

PutByte ==
  /\ isOpen /\ accepted < MaxBytes
  /\ Store \/ overflow
  /\ UNCHANGED <<inVars, isOpen>>

(***************************************************************************)
(* xsputn: into the put area if it fits; otherwise the put area goes out   *)
(* first, the request after it as long as more than bufLen bytes of it     *)
(* remain, and the rest into the put area.                                 *)
(***************************************************************************)
PutFits(n) ==
  /\ n <= room
  /\ putArea' = putArea \o Numbers(accepted + 1, accepted + n)
  /\ room' = room - n
  /\ accepted' = accepted + n
  /\ UNCHANGED sent

PutThrough(n) ==
  /\ n > room
  /\ \E direct \in 0..n :
       /\ direct >= n - bufLen /\ (n <= bufLen => direct = 0)
       /\ sent' = sent \o putArea \o Numbers(accepted + 1, accepted + direct)
       /\ putArea' = Numbers(accepted + direct + 1, accepted + n)
       /\ room' = bufLen - (n - direct)
  /\ accepted' = accepted + n

(* The first write that fails leaves more than bufLen bytes; the call      *)
(* returns what went out.                                                  *)
PutStops(n) ==
  /\ n > room
  /\ \E direct \in 0..(n - bufLen - 1) :
       /\ sent' = sent \o putArea \o Numbers(accepted + 1, accepted + direct)
       /\ accepted' = accepted + direct
  /\ putArea' = <<>> /\ room' = bufLen

PutFails(n) ==
  /\ n > room
  /\ \E m \in 0..(bufLen - 1) : SyncFails(m)
  /\ UNCHANGED accepted

xsputn(n) ==
  /\ isOpen /\ accepted + n <= MaxBytes
  /\ PutFits(n) \/ PutThrough(n) \/ PutStops(n) \/ PutFails(n)
  /\ UNCHANGED <<inVars, isOpen>>

(***************************************************************************)
(* Reading.  A read of nothing is a failure or the end of the stream.      *)
(***************************************************************************)
(* sgetc and sbumpc: a byte is taken from a get area that underflow fills. *)
GetBuffered ==
  /\ getArea # <<>>
  /\ taken' = Append(taken, Head(getArea))
  /\ getArea' = Tail(getArea)
  /\ UNCHANGED received

underflow ==
  /\ getArea = <<>>
  /\ \E n \in 1..bufLen :
       /\ received + n <= MaxBytes
       /\ received' = received + n
       /\ getArea' = Numbers(received + 1, received + n)
  /\ UNCHANGED taken

GetByte == isOpen /\ (GetBuffered \/ underflow) /\ UNCHANGED <<outVars, isOpen>>

(* xsgetn: all that is buffered, then reads into the caller's memory until *)
(* the request is filled or one of them gives nothing.                     *)
GetThrough(n) ==
  /\ n > Len(getArea)
  /\ \E direct \in 0..(n - Len(getArea)) :
       /\ received + direct <= MaxBytes
       /\ taken' = taken \o getArea \o Numbers(received + 1, received + direct)
       /\ received' = received + direct
  /\ getArea' = <<>>

GetFits(n) ==
  /\ n <= Len(getArea)
  /\ taken' = taken \o First(n, getArea)
  /\ getArea' = Without(n, getArea)
  /\ UNCHANGED received

xsgetn(n) ==
  /\ isOpen
  /\ GetFits(n) \/ GetThrough(n)
  /\ UNCHANGED <<outVars, isOpen>>

(***************************************************************************)
(* close tries to send what is buffered, and closes whether it was sent.   *)
(***************************************************************************)
close ==
  /\ isOpen /\ sync
  /\ isOpen' = FALSE
  /\ UNCHANGED <<inVars, accepted>>

Next ==
  \/ Flush \/ PutByte \/ GetByte \/ close
  \/ \E n \in 1..MaxRequest : xsputn(n) \/ xsgetn(n)

Spec == Init /\ [][Next]_vars

(***************************************************************************)
(* Properties.                                                             *)
(***************************************************************************)
(* The put area ends within obuf, and no buffer holds more than bufLen.    *)
TypeOK ==
  /\ room \in Nat /\ Len(putArea) + room <= bufLen
  /\ Len(getArea) <= bufLen
  /\ isOpen \in BOOLEAN

(* What the socket has taken and what is in the put area is what the       *)
(* client handed over: no failure, however far a call had come, loses a    *)
(* byte, sends one twice or lets one overtake another.                     *)
SentInOrder == sent \o putArea = Numbers(1, accepted)

(* What the client has read and what is in the get area is what the socket *)
(* gave, whether it was read by the byte or around the buffer.             *)
ReadInOrder == taken \o getArea = Numbers(1, received)

(* In both directions.                                                     *)
BytesInOrder == TypeOK /\ SentInOrder /\ ReadInOrder
=============================================================================
