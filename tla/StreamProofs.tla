---------------------------- MODULE StreamProofs ----------------------------
(***************************************************************************)
(* SocketStream for every buffer length and all requests: what the socket  *)
(* has taken, followed by what is in the put area, is what the client has  *)
(* handed over, and so for reading.  It takes that a byte is its number:   *)
(* each history and each buffer is then a range of numbers, and a call     *)
(* moves the border between two ranges that meet.                          *)
(*                                                                         *)
(* The other parts are about what streams carry: tar archives, and encoded *)
(* audio.                                                                  *)
(***************************************************************************)
EXTENDS SocketStream, Sockets, TarArchive, Containers, SequenceFacts, SequenceTheorems,
        FiniteSetTheorems, TLAPS

(***************************************************************************)
(* Ranges: n numbers from a on.                                            *)
(***************************************************************************)
IsRange(s, a, n) ==
  s \in Seq(Int) /\ Len(s) = n /\ \A i \in 1..n : s[i] = a + i - 1

LEMMA RangeUnique ==
  ASSUME NEW a \in Int, NEW n \in Nat, NEW s, NEW t, IsRange(s, a, n), IsRange(t, a, n)
  PROVE  s = t
  BY SeqEqual DEF IsRange

LEMMA NumbersRange ==
  ASSUME NEW a \in Int, NEW b \in Int, NEW n \in Nat, b = a + n - 1
  PROVE  IsRange(Numbers(a, b), a, n)
<1>1. b - a + 1 = n
  OBVIOUS
<1>2. Numbers(a, b) = [i \in 1..n |-> a + i - 1]
  BY <1>1 DEF Numbers
<1>3. [i \in 1..n |-> a + i - 1] \in [1..n -> Int]
  OBVIOUS
<1> QED
  BY <1>2, <1>3 DEF IsRange

LEMMA RangeNone ==
  ASSUME NEW a \in Int
  PROVE  IsRange(<<>>, a, 0)
  BY EmptySeq DEF IsRange

LEMMA RangeOne ==
  ASSUME NEW a \in Int
  PROVE  IsRange(<<a>>, a, 1)
  BY DEF IsRange

(* Ranges that meet.                                                       *)
LEMMA RangeJoin ==
  ASSUME NEW a \in Int, NEW n \in Nat, NEW k \in Nat, NEW s, NEW t,
         IsRange(s, a, n), IsRange(t, a + n, k)
  PROVE  IsRange(s \o t, a, n + k)
<1>1. /\ s \in Seq(Int) /\ Len(s) = n /\ \A i \in 1..n : s[i] = a + i - 1
      /\ t \in Seq(Int) /\ Len(t) = k /\ \A i \in 1..k : t[i] = a + n + i - 1
  BY DEF IsRange
<1>2. /\ s \o t \in Seq(Int) /\ Len(s \o t) = n + k
      /\ \A i \in 1..(n + k) : (s \o t)[i] = IF i <= n THEN s[i] ELSE t[i - n]
  BY <1>1, ConcatProperties, ZenonT(60)
<1>3. ASSUME NEW i \in 1..(n + k)
      PROVE  (s \o t)[i] = a + i - 1
  <2>1. CASE i <= n
    BY <1>1, <1>2, <2>1
  <2>2. CASE i > n
    <3>1. PICK j \in 1..k : i = n + j
      BY <2>2
    <3>2. (s \o t)[i] = t[i - n]
      BY <1>2, <2>2, SMTT(30)
    <3>4. i - n = j
      BY <3>1
    <3>3. t[j] = a + n + j - 1
      BY <1>1
    <3> QED
      BY <3>1, <3>2, <3>3, <3>4
  <2>3. i <= n \/ i > n
    OBVIOUS
  <2> QED
    BY <2>1, <2>2, <2>3
<1> QED
  BY <1>2, <1>3 DEF IsRange

(* The two parts of a range.                                               *)
LEMMA RangeSplit ==
  ASSUME NEW a \in Int, NEW n \in Nat, NEW k \in 0..n, NEW s, IsRange(s, a, n)
  PROVE  /\ IsRange(First(k, s), a, k)
         /\ IsRange(Without(k, s), a + k, n - k)
<1>1. s \in Seq(Int) /\ Len(s) = n /\ \A i \in 1..n : s[i] = a + i - 1
  BY DEF IsRange
<1>2. IsRange(First(k, s), a, k)
  <2>1. \A i \in 1..k : s[i] \in Int
    BY <1>1
  <2>2. /\ SubSeq(s, 1, k) \in Seq(Int)
        /\ Len(SubSeq(s, 1, k)) = k
        /\ \A i \in 1..k : SubSeq(s, 1, k)[i] = s[i]
    BY <2>1, SubSeqProperties
  <2> QED
    BY <1>1, <2>2 DEF First, IsRange
<1>3. IsRange(Without(k, s), a + k, n - k)
  <2>1. \A i \in (k + 1)..n : s[i] \in Int
    BY <1>1
  <2>2. /\ SubSeq(s, k + 1, n) \in Seq(Int)
        /\ Len(SubSeq(s, k + 1, n)) = n - k
        /\ \A i \in 1..(n - k) : SubSeq(s, k + 1, n)[i] = s[k + i]
    <3>1. /\ SubSeq(s, k + 1, n) \in Seq(Int)
          /\ Len(SubSeq(s, k + 1, n)) = IF k + 1 <= n THEN n - (k + 1) + 1 ELSE 0
          /\ \A i \in 1..(n - (k + 1) + 1) : SubSeq(s, k + 1, n)[i] = s[(k + 1) + i - 1]
      BY <2>1, SubSeqProperties
    <3>2. n - (k + 1) + 1 = n - k /\ \A i \in 1..(n - k) : (k + 1) + i - 1 = k + i
      OBVIOUS
    <3> QED
      BY <3>1, <3>2
  <2>3. \A i \in 1..(n - k) : s[k + i] = a + k + i - 1
    BY <1>1
  <2> QED
    BY <1>1, <2>2, <2>3 DEF Without, IsRange
<1> QED
  BY <1>2, <1>3

(* The first of a range, and the rest.                                     *)
LEMMA RangeHeadTail ==
  ASSUME NEW a \in Int, NEW n \in Nat \ {0}, NEW s, IsRange(s, a, n)
  PROVE  Head(s) = a /\ IsRange(Tail(s), a + 1, n - 1)
<1>1. s \in Seq(Int) /\ Len(s) = n /\ s[1] = a /\ s # <<>>
  BY DEF IsRange
<1>2. Tail(s) = Without(1, s)
  BY <1>1, TailIsSubSeq DEF Without
<1>3. 1 \in 0..n /\ n \in Nat
  OBVIOUS
<1>4. IsRange(Without(1, s), a + 1, n - 1)
  BY <1>3, RangeSplit
<1>5. Head(s) = s[1]
  BY <1>1
<1> QED
  BY <1>1, <1>2, <1>4, <1>5

LEMMA RangeAppend ==
  ASSUME NEW a \in Int, NEW n \in Nat, NEW s, IsRange(s, a, n)
  PROVE  IsRange(Append(s, a + n), a, n + 1)
<1>1. s \in Seq(Int) /\ Append(s, a + n) = s \o <<a + n>>
  BY AppendIsConcat, SMTT(30) DEF IsRange
<1>2. IsRange(<<a + n>>, a + n, 1)
  BY RangeOne
<1>3. IsRange(s \o <<a + n>>, a, n + 1)
  BY <1>2, RangeJoin
<1> QED
  BY <1>1, <1>3

(***************************************************************************)
(* The invariant: a border up to which the bytes of a direction have left, *)
(* and the buffer from there on.                                           *)
(***************************************************************************)
OutBorder(k) ==
  /\ IsRange(sent, 1, k) /\ IsRange(putArea, k + 1, accepted - k)
  /\ accepted - k + room <= bufLen
OutInv == accepted \in Nat /\ room \in Nat /\ \E k \in 0..accepted : OutBorder(k)

InBorder(k) ==
  /\ IsRange(taken, 1, k) /\ IsRange(getArea, k + 1, received - k)
  /\ received - k <= bufLen
InInv == received \in Nat /\ \E k \in 0..received : InBorder(k)

StreamInv == OutInv /\ InInv /\ isOpen \in BOOLEAN

LEMMA StreamInvInit == Init => StreamInv
<1> SUFFICES ASSUME Init PROVE StreamInv
  OBVIOUS
<1>1. IsRange(<<>>, 1, 0)
  BY RangeNone
<1>2. 0 + 1 = 1 /\ 0 - 0 = 0 /\ 0 \in 0..0 /\ 0 - 0 + 0 <= bufLen
  BY SocketAssumption
<1> QED
  BY <1>1, <1>2 DEF Init, StreamInv, OutInv, OutBorder, InInv, InBorder

(* What was handed over is what is on both sides of the border.            *)
LEMMA OutWhole ==
  ASSUME OutInv
  PROVE  accepted \in Nat /\ IsRange(sent \o putArea, 1, accepted)
<1>1. PICK k \in 0..accepted : OutBorder(k)
  BY DEF OutInv
<1>2. k \in Nat /\ accepted \in Nat /\ accepted - k \in Nat
  BY DEF OutInv
<1>3. 1 + k = k + 1 /\ k + (accepted - k) = accepted
  BY <1>2
<1>4. IsRange(sent, 1, k) /\ IsRange(putArea, 1 + k, accepted - k)
  BY <1>1, <1>3 DEF OutBorder
<1>5. IsRange(sent \o putArea, 1, k + (accepted - k))
  BY <1>2, <1>4, RangeJoin
<1> QED
  BY <1>2, <1>3, <1>5

LEMMA InWhole ==
  ASSUME InInv
  PROVE  received \in Nat /\ IsRange(taken \o getArea, 1, received)
<1>1. PICK k \in 0..received : InBorder(k)
  BY DEF InInv
<1>2. k \in Nat /\ received \in Nat /\ received - k \in Nat
  BY DEF InInv
<1>3. 1 + k = k + 1 /\ k + (received - k) = received
  BY <1>2
<1>4. IsRange(taken, 1, k) /\ IsRange(getArea, 1 + k, received - k)
  BY <1>1, <1>3 DEF InBorder
<1>5. IsRange(taken \o getArea, 1, k + (received - k))
  BY <1>2, <1>4, RangeJoin
<1> QED
  BY <1>2, <1>3, <1>5

(* The border after a call.                                                *)
LEMMA OutMoved ==
  ASSUME NEW b \in Nat, NEW rest \in Nat, room' \in Nat, accepted' = b + rest,
         IsRange(sent', 1, b), IsRange(putArea', b + 1, rest), rest + room' <= bufLen
  PROVE  OutInv'
<1>1. accepted' \in Nat /\ b \in 0..accepted' /\ accepted' - b = rest
  OBVIOUS
<1>2. accepted' - b + room' <= bufLen /\ IsRange(putArea', b + 1, accepted' - b)
  BY <1>1
<1>3. OutBorder(b)'
  BY <1>2 DEF OutBorder
<1> QED
  BY <1>1, <1>3 DEF OutInv

LEMMA InMoved ==
  ASSUME NEW b \in Nat, NEW rest \in Nat, received' = b + rest,
         IsRange(taken', 1, b), IsRange(getArea', b + 1, rest), rest <= bufLen
  PROVE  InInv'
<1>1. received' \in Nat /\ b \in 0..received' /\ received' - b = rest
  OBVIOUS
<1>2. received' - b <= bufLen /\ IsRange(getArea', b + 1, received' - b)
  BY <1>1
<1>3. InBorder(b)'
  BY <1>2 DEF InBorder
<1> QED
  BY <1>1, <1>3 DEF InInv

(***************************************************************************)
(* Writing.                                                                *)
(***************************************************************************)
(* A sync that fails moves the border by what was sent.                    *)
LEMMA SyncFailsKeeps ==
  ASSUME OutInv, NEW n \in 0..(bufLen - 1), SyncFails(n), accepted' = accepted
  PROVE  OutInv'
<1>1. PICK k \in 0..accepted : OutBorder(k)
  BY DEF OutInv
<1>2. /\ accepted \in Nat /\ room \in Nat /\ bufLen \in Nat
      /\ k \in Nat /\ accepted - k \in Nat /\ n \in Nat
  BY SocketAssumption DEF OutInv
<1>3. n \in 0..(accepted - k) /\ k + n \in Nat /\ accepted - k - n \in Nat
  BY <1>1, <1>2 DEF OutBorder, IsRange, SyncFails
<1>4. /\ IsRange(First(n, putArea), k + 1, n)
      /\ IsRange(Without(n, putArea), k + 1 + n, accepted - k - n)
  BY <1>1, <1>2, <1>3, RangeSplit DEF OutBorder
<1>5. k + 1 = 1 + k /\ k + 1 + n = (k + n) + 1 /\ accepted = (k + n) + (accepted - k - n)
  BY <1>2
<1>6. IsRange(sent', 1, k + n)
  BY <1>1, <1>2, <1>4, <1>5, RangeJoin DEF OutBorder, SyncFails
<1>7. IsRange(putArea', (k + n) + 1, accepted - k - n)
  BY <1>4, <1>5 DEF SyncFails
<1>8. (accepted - k - n) + room' <= bufLen /\ room' \in Nat
  BY <1>1, <1>2 DEF OutBorder, SyncFails
<1> QED
  BY <1>3, <1>5, <1>6, <1>7, <1>8, OutMoved

LEMMA syncKeeps ==
  ASSUME OutInv, sync, accepted' = accepted
  PROVE  OutInv'
<1>1. CASE sent' = sent \o putArea /\ putArea' = <<>> /\ room' = bufLen
  <2>1. accepted \in Nat /\ IsRange(sent', 1, accepted)
    BY <1>1, OutWhole
  <2>2. accepted + 1 \in Int /\ accepted' = accepted + 0
    BY <2>1
  <2>3. IsRange(putArea', accepted + 1, 0)
    BY <1>1, <2>2, RangeNone
  <2>4. 0 + room' <= bufLen /\ room' \in Nat
    BY <1>1, SocketAssumption
  <2> QED
    BY <2>1, <2>2, <2>3, <2>4, OutMoved
<1> QED
  BY <1>1, SyncFailsKeeps DEF sync

LEMMA PutByteKeeps ==
  ASSUME OutInv, PutByte
  PROVE  OutInv'
<1>1. accepted \in Nat /\ room \in Nat /\ bufLen \in Nat \ {0}
  BY SocketAssumption DEF OutInv
<1>2. CASE Store
  <2>1. PICK k \in 0..accepted : OutBorder(k)
    BY DEF OutInv
  <2>2. /\ k \in Nat /\ accepted - k \in Nat /\ accepted - k + 1 \in Nat
        /\ (k + 1) + (accepted - k) = accepted + 1
        /\ accepted + 1 = k + (accepted - k + 1)
    BY <1>1
  <2>3. IsRange(Append(putArea, (k + 1) + (accepted - k)), k + 1, accepted - k + 1)
    BY <2>1, <2>2, RangeAppend DEF OutBorder
  <2>4. IsRange(putArea', k + 1, accepted - k + 1) /\ IsRange(sent', 1, k)
    BY <1>2, <2>1, <2>2, <2>3 DEF Store, OutBorder
  <2>5. accepted' = k + (accepted - k + 1) /\ room' \in Nat
    BY <1>1, <1>2, <2>2 DEF Store
  <2>6. (accepted - k + 1) + room' <= bufLen
    BY <1>1, <1>2, <2>1, <2>2 DEF Store, OutBorder
  <2> QED
    BY <2>2, <2>4, <2>5, <2>6, OutMoved
<1>3. CASE /\ sent' = sent \o putArea
           /\ putArea' = <<accepted + 1>> /\ room' = bufLen - 1
           /\ accepted' = accepted + 1
  <2>1. IsRange(sent', 1, accepted) /\ IsRange(putArea', accepted + 1, 1)
    BY <1>1, <1>3, OutWhole, RangeOne
  <2>2. 1 + room' <= bufLen /\ room' \in Nat
    BY <1>1, <1>3
  <2> QED
    BY <1>1, <1>3, <2>1, <2>2, OutMoved
<1>4. CASE (\E n \in 0..(bufLen - 1) : SyncFails(n)) /\ UNCHANGED accepted
  BY <1>4, SyncFailsKeeps
<1> QED
  BY <1>2, <1>3, <1>4 DEF PutByte, overflow

(* What was handed over goes out, then a part of the request; the rest of  *)
(* it, or nothing, is what the put area then holds.                        *)
LEMMA AllOutKeeps ==
  ASSUME OutInv, NEW direct \in Nat, NEW rest \in 0..bufLen,
         sent' = sent \o putArea \o Numbers(accepted + 1, accepted + direct),
         IsRange(putArea', accepted + direct + 1, rest),
         accepted' = accepted + direct + rest, room' \in Nat, rest + room' <= bufLen
  PROVE  OutInv'
<1>1. accepted \in Nat /\ IsRange(sent \o putArea, 1, accepted)
  BY OutWhole
<1>2. /\ accepted + 1 \in Int /\ accepted + direct \in Nat /\ 1 + accepted = accepted + 1
      /\ accepted + direct = (accepted + 1) + direct - 1
  BY <1>1
<1>3. IsRange(Numbers(accepted + 1, accepted + direct), 1 + accepted, direct)
  BY <1>2, NumbersRange
<1>4. IsRange(sent', 1, accepted + direct)
  BY <1>1, <1>3, RangeJoin
<1>5. rest \in Nat
  BY SocketAssumption
<1> QED
  BY <1>2, <1>4, <1>5, OutMoved

LEMMA xsputnKeeps ==
  ASSUME OutInv, NEW n \in 1..MaxRequest, xsputn(n)
  PROVE  OutInv'
<1>1. accepted \in Nat /\ room \in Nat /\ bufLen \in Nat \ {0} /\ n \in Nat
  BY SocketAssumption DEF OutInv
<1>2. CASE PutFits(n)
  <2>1. PICK k \in 0..accepted : OutBorder(k)
    BY DEF OutInv
  <2>2. /\ k \in Nat /\ accepted - k \in Nat /\ accepted - k + n \in Nat
        /\ (k + 1) + (accepted - k) = accepted + 1
        /\ accepted + n = (accepted + 1) + n - 1
        /\ accepted + n = k + (accepted - k + n)
        /\ accepted + 1 \in Int /\ accepted + n \in Int /\ k + 1 \in Int
    BY <1>1
  <2>3. IsRange(Numbers(accepted + 1, accepted + n), (k + 1) + (accepted - k), n)
    BY <1>1, <2>2, NumbersRange
  <2>4. IsRange(putArea, k + 1, accepted - k) /\ IsRange(sent', 1, k)
    BY <1>2, <2>1 DEF OutBorder, PutFits
  <2>5. IsRange(putArea', k + 1, accepted - k + n)
    BY <1>1, <1>2, <2>2, <2>3, <2>4, RangeJoin DEF PutFits
  <2>6. /\ accepted' = k + (accepted - k + n) /\ room' \in Nat
        /\ (accepted - k + n) + room' <= bufLen
    BY <1>1, <1>2, <2>1, <2>2 DEF OutBorder, PutFits
  <2> QED
    BY <2>2, <2>4, <2>5, <2>6, OutMoved
<1>3. CASE PutThrough(n)
  <2>1. PICK direct \in 0..n :
          /\ direct >= n - bufLen
          /\ sent' = sent \o putArea \o Numbers(accepted + 1, accepted + direct)
          /\ putArea' = Numbers(accepted + direct + 1, accepted + n)
          /\ room' = bufLen - (n - direct) /\ accepted' = accepted + n
    BY <1>3 DEF PutThrough
  <2>2. /\ direct \in Nat /\ n - direct \in 0..bufLen
        /\ accepted + direct + 1 \in Int /\ accepted + n \in Int
        /\ accepted + n = accepted + direct + (n - direct)
        /\ accepted + n = (accepted + direct + 1) + (n - direct) - 1
        /\ room' \in Nat /\ (n - direct) + room' <= bufLen
    BY <1>1, <2>1
  <2>3. n - direct \in Nat
    BY <1>1, <2>2
  <2>4. IsRange(putArea', accepted + direct + 1, n - direct)
    BY <2>1, <2>2, <2>3, NumbersRange
  <2> QED
    BY <2>1, <2>2, <2>4, AllOutKeeps
<1>4. CASE PutStops(n)
  <2>1. PICK direct \in 0..(n - bufLen - 1) :
          /\ sent' = sent \o putArea \o Numbers(accepted + 1, accepted + direct)
          /\ accepted' = accepted + direct /\ putArea' = <<>> /\ room' = bufLen
    BY <1>4 DEF PutStops
  <2>2. /\ direct \in Nat /\ 0 \in 0..bufLen /\ accepted + direct + 1 \in Int
        /\ accepted' = accepted + direct + 0 /\ room' \in Nat /\ 0 + room' <= bufLen
    BY <1>1, <2>1
  <2>3. IsRange(putArea', accepted + direct + 1, 0)
    BY <2>1, <2>2, RangeNone
  <2> QED
    BY <2>1, <2>2, <2>3, AllOutKeeps
<1>5. CASE PutFails(n)
  BY <1>5, SyncFailsKeeps DEF PutFails
<1> QED
  BY <1>2, <1>3, <1>4, <1>5 DEF xsputn

(***************************************************************************)
(* Reading.                                                                *)
(***************************************************************************)
LEMMA GetByteKeeps ==
  ASSUME InInv, GetByte
  PROVE  InInv'
<1>1. received \in Nat /\ bufLen \in Nat \ {0}
  BY SocketAssumption DEF InInv
<1>2. PICK k \in 0..received : InBorder(k)
  BY DEF InInv
<1>3. k \in Nat /\ received - k \in Nat /\ k + 1 \in Nat
  BY <1>1
<1>4. CASE GetBuffered
  <2>1. received - k \in Nat \ {0}
    <3>1. Len(getArea) = received - k /\ getArea \in Seq(Int) /\ getArea # <<>>
      BY <1>2, <1>4 DEF InBorder, IsRange, GetBuffered
    <3> QED
      BY <1>3, <3>1, EmptySeq
  <2>2. Head(getArea) = k + 1 /\ IsRange(Tail(getArea), (k + 1) + 1, received - k - 1)
    BY <1>2, <1>3, <2>1, RangeHeadTail DEF InBorder
  <2>3. IsRange(Append(taken, 1 + k), 1, k + 1)
    BY <1>2, <1>3, RangeAppend DEF InBorder
  <2>4. 1 + k = k + 1 /\ received = (k + 1) + (received - k - 1) /\ received - k - 1 \in Nat
    BY <1>1, <1>3, <2>1
  <2>5. received - k - 1 <= bufLen
    BY <1>1, <1>2, <1>3 DEF InBorder
  <2>6. /\ IsRange(taken', 1, k + 1) /\ IsRange(getArea', (k + 1) + 1, received - k - 1)
        /\ received' = (k + 1) + (received - k - 1)
    BY <1>4, <2>2, <2>3, <2>4 DEF GetBuffered
  <2> QED
    BY <1>3, <2>4, <2>5, <2>6, InMoved
<1>5. CASE underflow
  <2>1. PICK n \in 1..bufLen :
          received' = received + n /\ getArea' = Numbers(received + 1, received + n)
    BY <1>5 DEF underflow
  <2>2. /\ n \in Nat /\ n <= bufLen /\ received + 1 \in Int /\ received + n \in Int
        /\ received + n = (received + 1) + n - 1
    BY <1>1, <2>1
  <2>3. IsRange(getArea', received + 1, n)
    BY <2>1, <2>2, NumbersRange
  <2>4. IsRange(taken', 1, received)
    <3>1. Len(getArea) = 0 /\ Len(getArea) = received - k
      BY <1>2, <1>5 DEF underflow, InBorder, IsRange
    <3>2. received = k
      BY <1>1, <1>3, <3>1
    <3> QED
      BY <1>2, <1>5, <3>2 DEF underflow, InBorder
  <2> QED
    BY <1>1, <2>1, <2>2, <2>3, <2>4, InMoved
<1> QED
  BY <1>4, <1>5 DEF GetByte

LEMMA xsgetnKeeps ==
  ASSUME InInv, NEW n \in 1..MaxRequest, xsgetn(n)
  PROVE  InInv'
<1>1. received \in Nat /\ bufLen \in Nat \ {0} /\ n \in Nat
  BY SocketAssumption DEF InInv
<1>2. CASE GetFits(n)
  <2>1. PICK k \in 0..received : InBorder(k)
    BY DEF InInv
  <2>2. k \in Nat /\ received - k \in Nat /\ k + n \in Nat
    BY <1>1
  <2>3. n \in 0..(received - k) /\ received - k - n \in Nat
    BY <1>1, <1>2, <2>1, <2>2 DEF GetFits, InBorder, IsRange
  <2>4. /\ IsRange(First(n, getArea), k + 1, n)
        /\ IsRange(Without(n, getArea), k + 1 + n, received - k - n)
    BY <2>1, <2>2, <2>3, RangeSplit DEF InBorder
  <2>5. /\ k + 1 = 1 + k /\ k + 1 + n = (k + n) + 1
        /\ received = (k + n) + (received - k - n)
    BY <1>1, <2>2
  <2>6. IsRange(taken', 1, k + n)
    BY <1>1, <1>2, <2>1, <2>2, <2>4, <2>5, RangeJoin DEF InBorder, GetFits
  <2>7. /\ IsRange(getArea', (k + n) + 1, received - k - n)
        /\ received' = (k + n) + (received - k - n)
    BY <1>2, <2>4, <2>5 DEF GetFits
  <2>8. received - k - n <= bufLen
    BY <1>1, <2>1, <2>2 DEF InBorder
  <2> QED
    BY <2>2, <2>3, <2>6, <2>7, <2>8, InMoved
<1>3. CASE GetThrough(n)
  <2>1. PICK direct \in 0..(n - Len(getArea)) :
          /\ taken' = taken \o getArea \o Numbers(received + 1, received + direct)
          /\ received' = received + direct /\ getArea' = <<>>
    BY <1>3 DEF GetThrough
  <2>2. IsRange(taken \o getArea, 1, received)
    BY InWhole
  <2>3. /\ direct \in Nat /\ received + 1 \in Int /\ received + direct \in Nat
        /\ 1 + received = received + 1
        /\ received + direct = (received + 1) + direct - 1
        /\ received + direct + 1 \in Int
        /\ received' = (received + direct) + 0 /\ 0 <= bufLen
    BY <1>1, <2>1
  <2>4. IsRange(Numbers(received + 1, received + direct), 1 + received, direct)
    BY <2>3, NumbersRange
  <2>5. IsRange(taken', 1, received + direct)
    BY <1>1, <2>1, <2>2, <2>3, <2>4, RangeJoin
  <2>6. IsRange(getArea', (received + direct) + 1, 0)
    BY <2>1, <2>3, RangeNone
  <2> QED
    BY <2>3, <2>5, <2>6, InMoved
<1> QED
  BY <1>2, <1>3 DEF xsgetn

(***************************************************************************)
(* The theorem.                                                            *)
(***************************************************************************)
LEMMA StreamInvStep ==
  ASSUME StreamInv, [Next]_vars
  PROVE  StreamInv'
<1> USE DEF StreamInv
<1>1. ASSUME UNCHANGED inVars
      PROVE  InInv'
  BY <1>1 DEF InInv, InBorder, inVars
<1>2. ASSUME UNCHANGED outVars
      PROVE  OutInv'
  BY <1>2 DEF OutInv, OutBorder, outVars
<1>3. CASE Flush
  BY <1>1, <1>3, syncKeeps DEF Flush
<1>4. CASE PutByte
  <2>1. UNCHANGED <<inVars, isOpen>>
    BY <1>4 DEF PutByte
  <2> QED
    BY <1>1, <1>4, <2>1, PutByteKeeps
<1>5. CASE GetByte
  <2>1. UNCHANGED <<outVars, isOpen>>
    BY <1>5 DEF GetByte
  <2> QED
    BY <1>2, <1>5, <2>1, GetByteKeeps
<1>6. CASE close
  BY <1>1, <1>6, syncKeeps DEF close
<1>7. ASSUME NEW n \in 1..MaxRequest, xsputn(n)
      PROVE  StreamInv'
  <2>1. UNCHANGED <<inVars, isOpen>>
    BY <1>7 DEF xsputn
  <2> QED
    BY <1>1, <1>7, <2>1, xsputnKeeps
<1>8. ASSUME NEW n \in 1..MaxRequest, xsgetn(n)
      PROVE  StreamInv'
  <2>1. UNCHANGED <<outVars, isOpen>>
    BY <1>8 DEF xsgetn
  <2> QED
    BY <1>2, <1>8, <2>1, xsgetnKeeps
<1>9. CASE UNCHANGED vars
  BY <1>1, <1>2, <1>9 DEF vars
<1> QED
  BY <1>3, <1>4, <1>5, <1>6, <1>7, <1>8, <1>9 DEF Next

LEMMA StreamInvGives == StreamInv => BytesInOrder
<1> SUFFICES ASSUME StreamInv PROVE BytesInOrder
  OBVIOUS
<1>1. OutInv /\ InInv /\ isOpen \in BOOLEAN
  BY DEF StreamInv
<1>2. SentInOrder
  <2>1. accepted \in Nat /\ IsRange(sent \o putArea, 1, accepted)
    BY <1>1, OutWhole
  <2>2. accepted = 1 + accepted - 1 /\ accepted \in Int /\ 1 \in Int
    BY <2>1
  <2>3. IsRange(Numbers(1, accepted), 1, accepted)
    BY <2>1, <2>2, NumbersRange
  <2> QED
    BY <2>1, <2>2, <2>3, RangeUnique, Zenon DEF SentInOrder
<1>3. ReadInOrder
  <2>1. received \in Nat /\ IsRange(taken \o getArea, 1, received)
    BY <1>1, InWhole
  <2>2. received = 1 + received - 1 /\ received \in Int /\ 1 \in Int
    BY <2>1
  <2>3. IsRange(Numbers(1, received), 1, received)
    BY <2>1, <2>2, NumbersRange
  <2> QED
    BY <2>1, <2>2, <2>3, RangeUnique, Zenon DEF ReadInOrder
<1>4. TypeOK
  <2>1. PICK k \in 0..accepted : OutBorder(k)
    BY <1>1 DEF OutInv
  <2>2. PICK j \in 0..received : InBorder(j)
    BY <1>1 DEF InInv
  <2> QED
    BY <1>1, <2>1, <2>2 DEF OutInv, OutBorder, InInv, InBorder, IsRange, TypeOK
<1> QED
  BY <1>2, <1>3, <1>4 DEF BytesInOrder

(* No failure of the socket, at whatever point of whatever call, loses,    *)
(* repeats or reorders a byte in either direction: for every buffer        *)
(* length and all sizes of requests.                                       *)
THEOREM SocketKeepsOrder == Spec => []BytesInOrder
  BY StreamInvInit, StreamInvStep, StreamInvGives, PTL DEF Spec
(***************************************************************************)
(* The sockets themselves, for any number of descriptors: the one in use   *)
(* is counted, so taking it away leaves what the refused connects left.    *)
(***************************************************************************)
SocketInv ==
  /\ OnlyFailedOpensLeak
  /\ opened \in 0..MaxDescriptors
  /\ refused \in Nat /\ unseeded \in Nat
  /\ descriptors \subseteq 1..opened
  /\ internalSocket.kind = "none" => internalSocket.isClosed

LEMMA SocketInvInit == SocketInit => SocketInv
<1> SUFFICES ASSUME SocketInit PROVE SocketInv
  OBVIOUS
<1>1. Cardinality(descriptors) = 0
  BY FS_EmptySet DEF SocketInit
<1>2. /\ internalSocket = NoSocket /\ ~bufferIsOpen
      /\ descriptors = {} /\ contexts = 0 /\ opened = 0 /\ refused = 0 /\ unseeded = 0
  BY DEF SocketInit, NoSocket, bufferIsOpen
<1> QED
  BY <1>1, <1>2, DescriptorAssumption
  DEF SocketInv, OnlyFailedOpensLeak, NoSocket, NoFd, Socket, bufferIsOpen

(* What is left when the socket in use is closed or destroyed.             *)
LEMMA ReleaseLeaves ==
  ASSUME SocketInv
  PROVE  /\ unseeded \in Nat /\ IsFiniteSet(descriptors \ Released)
         /\ Cardinality(descriptors \ Released) = refused
         /\ descriptors \ Released \subseteq 1..opened
         /\ contexts - Freed = unseeded
<1> DEFINE fd == internalSocket.fd
<1>1. /\ opened \in Nat /\ refused \in Nat /\ unseeded \in Nat /\ descriptors \subseteq 1..opened
      /\ fd \in Nat /\ internalSocket.isClosed \in BOOLEAN
  BY DescriptorAssumption DEF SocketInv, OnlyFailedOpensLeak, Socket
<1>2. IsFiniteSet(descriptors)
  <2>1. IsFiniteSet(1..opened)
    BY <1>1, FS_Interval
  <2> QED
    BY <1>1, <2>1, FS_Subset
<1>3. descriptors \ Released \subseteq 1..opened
  BY <1>1
<1>4. contexts - Freed = unseeded
  BY <1>1 DEF SocketInv, OnlyFailedOpensLeak, Freed, bufferIsOpen
<1>5. CASE internalSocket.isClosed
  <2>1. descriptors \ Released = descriptors
    BY <1>5 DEF Released
  <2>2. Cardinality(descriptors) = refused
    BY <1>1, <1>5 DEF SocketInv, OnlyFailedOpensLeak, bufferIsOpen
  <2> QED
    BY <1>1, <1>2, <1>3, <1>4, <2>1, <2>2
<1>6. CASE ~internalSocket.isClosed
  <2>1. descriptors \ Released = descriptors \ {fd}
    BY <1>6 DEF Released
  <2>2. bufferIsOpen
    BY <1>6 DEF SocketInv, bufferIsOpen
  <2>3. /\ IsFiniteSet(descriptors \ {fd})
        /\ Cardinality(descriptors \ {fd}) =
             IF fd \in descriptors THEN Cardinality(descriptors) - 1 ELSE Cardinality(descriptors)
    BY <1>2, FS_RemoveElement
  <2>4. Cardinality(descriptors) = refused + (IF fd # NoFd THEN 1 ELSE 0)
        /\ fd \in descriptors \union {NoFd}
    BY <2>2 DEF SocketInv, OnlyFailedOpensLeak
  <2>5. (fd \in descriptors) <=> (fd # NoFd)
    BY <1>1, <2>4 DEF NoFd
  <2> QED
    BY <1>1, <1>3, <1>4, <2>1, <2>3, <2>4, <2>5
<1> QED
  BY <1>1, <1>5, <1>6

(* SocketBuffer::open without a descriptor, and with a new one.            *)
AfterNone(socket, held) ==
  /\ opened' = opened /\ descriptors' \subseteq 1..opened'
  /\ Cardinality(descriptors') = refused
  /\ contexts' = unseeded + held
  /\ internalSocket' = socket

AfterOne(socket, held) ==
  /\ opened' = opened + 1
  /\ descriptors' \subseteq 1..opened'
  /\ opened + 1 \in descriptors'
  /\ Cardinality(descriptors') = refused + 1
  /\ contexts' = unseeded + held
  /\ internalSocket' = socket

LEMMA OpenWithNone ==
  ASSUME SocketInv, NEW socket, NEW held \in Nat, OpenResult(socket, {}, held)
  PROVE  AfterNone(socket, held)
<1>1. Cardinality({}) = 0 /\ opened \in Nat
  BY FS_EmptySet, DescriptorAssumption DEF SocketInv
<1>2. descriptors' = descriptors \ Released
  BY DEF OpenResult
<1>3. opened' = opened
  BY <1>1 DEF OpenResult
<1> QED
  BY <1>2, <1>3, ReleaseLeaves DEF OpenResult, AfterNone

LEMMA OpenWithOne ==
  ASSUME SocketInv, opened < MaxDescriptors,
         NEW socket, NEW held \in Nat, OpenResult(socket, {opened + 1}, held)
  PROVE  AfterOne(socket, held)
<1> DEFINE kept == descriptors \ Released
<1>1. /\ IsFiniteSet(kept) /\ Cardinality(kept) = refused /\ kept \subseteq 1..opened
      /\ contexts - Freed = unseeded
  BY ReleaseLeaves
<1>2. opened \in Nat /\ opened + 1 \in 0..MaxDescriptors /\ refused \in Nat
  BY DescriptorAssumption DEF SocketInv
<1>3. descriptors' = kept \cup {opened + 1}
  BY DEF OpenResult
<1>4. Cardinality({opened + 1}) = 1
  BY FS_Singleton
<1>5. opened' = opened + 1
  BY <1>4 DEF OpenResult
<1>6. opened + 1 \notin kept
  BY <1>1, <1>2
<1>7. Cardinality(kept \cup {opened + 1}) = refused + 1
  <2> HIDE DEF kept
  <2> QED
    BY <1>1, <1>6, FS_AddElement
<1>8. contexts' = unseeded + held /\ internalSocket' = socket
  BY <1>1 DEF OpenResult
<1> QED
  BY <1>1, <1>2, <1>3, <1>5, <1>7, <1>8 DEF AfterOne

LEMMA SocketInvStep == SocketInv /\ [SocketNext]_socketVars => SocketInv'
<1> SUFFICES ASSUME SocketInv, [SocketNext]_socketVars PROVE SocketInv'
  OBVIOUS
<1>1. opened \in Nat /\ opened \in 0..MaxDescriptors /\ refused \in Nat /\ unseeded \in Nat
      /\ MaxDescriptors \in Nat
  BY DescriptorAssumption DEF SocketInv
<1>2. CASE ResolveFails
  <2> DEFINE socket == [kind |-> "tcp", isClosed |-> TRUE, fd |-> NoFd]
  <2>1. OpenResult(socket, {}, 0) /\ refused' = refused /\ unseeded' = unseeded
    BY <1>2 DEF ResolveFails
  <2>2. AfterNone(socket, 0)
    BY <2>1, OpenWithNone
  <2> QED
    BY <1>1, <2>1, <2>2 DEF AfterNone, SocketInv, OnlyFailedOpensLeak, Socket, bufferIsOpen, NoFd
<1>3. CASE ConnectFails
  <2> DEFINE socket == [kind |-> "tcp", isClosed |-> TRUE, fd |-> opened + 1]
  <2>1. OpenResult(socket, {opened + 1}, 0) /\ opened < MaxDescriptors /\ refused' = refused + 1
        /\ unseeded' = unseeded
    BY <1>3 DEF ConnectFails
  <2>2. AfterOne(socket, 0)
    BY <2>1, OpenWithOne
  <2> QED
    BY <1>1, <2>1, <2>2 DEF AfterOne, SocketInv, OnlyFailedOpensLeak, Socket, bufferIsOpen, NoFd
<1>4. CASE TcpOpens
  <2> DEFINE socket == [kind |-> "tcp", isClosed |-> FALSE, fd |-> opened + 1]
  <2>1. OpenResult(socket, {opened + 1}, 0) /\ opened < MaxDescriptors /\ refused' = refused /\ unseeded' = unseeded
    BY <1>4 DEF TcpOpens
  <2>2. AfterOne(socket, 0)
    BY <2>1, OpenWithOne
  <2> QED
    BY <1>1, <2>1, <2>2 DEF AfterOne, SocketInv, OnlyFailedOpensLeak, Socket, bufferIsOpen, NoFd
<1>5. ASSUME \/ TlsFails \/ TlsOpens
      PROVE  SocketInv'
  <2> DEFINE socket(fd) == [kind |-> "tls", isClosed |-> FALSE, fd |-> fd]
  <2>1. CASE OpenResult(socket(NoFd), {}, 1) /\ refused' = refused /\ unseeded' = unseeded
    <3>1. AfterNone(socket(NoFd), 1)
      BY <2>1, OpenWithNone
    <3> QED
      BY <1>1, <2>1, <3>1 DEF AfterNone, SocketInv, OnlyFailedOpensLeak, Socket, bufferIsOpen, NoFd
  <2>2. CASE /\ OpenResult(socket(opened + 1), {opened + 1}, 1)
             /\ opened < MaxDescriptors /\ refused' = refused /\ unseeded' = unseeded
    <3>1. AfterOne(socket(opened + 1), 1)
      BY <2>2, OpenWithOne
    <3> QED
      BY <1>1, <2>2, <3>1 DEF AfterOne, SocketInv, OnlyFailedOpensLeak, Socket, bufferIsOpen, NoFd
  <2> QED
    BY <1>5, <2>1, <2>2 DEF TlsFails, TlsOpens
<1>6. CASE BufferClose
  <2>1. /\ Cardinality(descriptors') = refused /\ descriptors' \subseteq 1..opened
        /\ contexts' = unseeded /\ internalSocket' = NoSocket /\ opened' = opened
        /\ refused' = refused /\ unseeded' = unseeded
    BY <1>6, ReleaseLeaves DEF BufferClose
  <2> QED
    BY <1>1, <2>1 DEF NoSocket, SocketInv, OnlyFailedOpensLeak, Socket, bufferIsOpen, NoFd
<1>8. CASE TlsConstructorThrows
  <2>1. /\ Cardinality(descriptors') = refused /\ descriptors' \subseteq 1..opened
        /\ contexts' = unseeded + 1 /\ opened' = opened
        /\ refused' = refused /\ unseeded' = unseeded + 1
        /\ internalSocket' = IF bufferIsOpen THEN NoSocket ELSE internalSocket
    BY <1>8, ReleaseLeaves DEF TlsConstructorThrows
  <2> QED
    BY <1>1, <2>1 DEF NoSocket, SocketInv, OnlyFailedOpensLeak, Socket, bufferIsOpen, NoFd
<1>7. CASE UNCHANGED socketVars
  BY <1>7 DEF socketVars, SocketInv, OnlyFailedOpensLeak, bufferIsOpen
<1> QED
  BY <1>2, <1>3, <1>4, <1>5, <1>6, <1>7, <1>8 DEF SocketNext

(* Whatever fails of whatever opens, and in whatever order they come, the  *)
(* only descriptors that are lost are those of refused TCP connects, and   *)
(* the only TLS contexts those of constructors that threw.                 *)
THEOREM OnlyFailuresLeak == SocketSpec => []OnlyFailedOpensLeak
<1>1. SocketInv => OnlyFailedOpensLeak
  BY DEF SocketInv
<1> QED
  BY <1>1, SocketInvInit, SocketInvStep, PTL DEF SocketSpec

(***************************************************************************)
(* The archive (TarArchive): every byte has its place, and the reader is   *)
(* at one of them.  The places are numbers at[1], at[2], ..., one for each *)
(* file written and one for the end: file i has its header at at[i], its   *)
(* data behind it (DataAt) and zeros behind that (GapAt) to at[i + 1].     *)
(* Laid says that an archive holds the files as far as it goes.  InStep    *)
(* says where the reader's stream is: between two files (Between), behind  *)
(* a cached header (Opened), or within a file (Copying).                   *)
(***************************************************************************)
(***************************************************************************)
(* Files and cells.                                                        *)
(***************************************************************************)
Files == File \union Directory
Says(file) == [name |-> file.name, size |-> Len(file.data), isDir |-> file.isDir]
Saying == [name : Name, size : Nat, isDir : BOOLEAN]
HeaderCell(file, i) == [says |-> Says(file), byte |-> i]
ArchiveCell == Byte \union [says : Saying, byte : Nat]
Gap(file) == (-Len(file.data)) % BlockSize

LEMMA BoundedIsSequence ==
  ASSUME NEW Elem, NEW n, NEW s \in BoundedSeq(Elem, n)
  PROVE  s \in Seq(Elem)
<1>1. PICK m \in 0..n : s \in [1..m -> Elem]
  BY DEF BoundedSeq, SeqOf
<1>2. m \in Nat
  BY <1>1
<1> QED
  BY <1>1, <1>2

LEMMA GapFacts ==
  ASSUME NEW k \in Nat, BlockSize \in Nat \ {0}
  PROVE  (-k) % BlockSize \in Nat /\ (k + ((-k) % BlockSize)) % BlockSize = 0
<1> DEFINE n == BlockSize
           q == (-k) \div n
           r == (-k) % n
<1>1. q \in Int /\ r \in 0..(n - 1) /\ -k = n * q + r
  OBVIOUS
<1> HIDE DEF q, r
<1>2. k + r = (-q) * n
  BY <1>1
<1>3. -q \in Nat
  <2>1. k + r >= 0
    BY <1>1
  <2> QED
    BY <1>1, <1>2, <2>1
<1>4. ((-q) * n) % n = 0
  BY <1>3, ModIsProduct
<1> QED
  BY <1>1, <1>2, <1>4 DEF r

LEMMA FileFacts ==
  ASSUME NEW file \in Files
  PROVE  /\ file.data \in Seq(Byte) /\ Len(file.data) \in Nat
         /\ Says(file) \in Saying
         /\ Says(file).name = file.name /\ Says(file).size = Len(file.data)
         /\ Header(file) = [i \in 1..BlockSize |-> HeaderCell(file, i)]
         /\ \A i \in 1..BlockSize : HeaderCell(file, i) \notin Byte
         /\ Gap(file) \in Nat /\ (Len(file.data) + Gap(file)) % BlockSize = 0
<1>1. file.data \in Seq(Byte) /\ file.name \in Name /\ file.isDir \in BOOLEAN
  <2>1. CASE file \in File
    BY <2>1, BoundedIsSequence DEF File
  <2>2. CASE file \in Directory
    <3>1. file.data = <<>> /\ file.name \in Name /\ file.isDir \in {TRUE}
      BY <2>2 DEF Directory
    <3>2. file.isDir \in BOOLEAN
      BY <3>1, Zenon
    <3> QED
      BY <3>1, <3>2
  <2> QED
    BY <2>1, <2>2 DEF Files
<1>2. Len(file.data) \in Nat
  BY <1>1
<1>3. Says(file) \in Saying /\ Says(file).name = file.name /\ Says(file).size = Len(file.data)
  BY <1>1, <1>2 DEF Says, Saying
<1>4. Header(file) = [i \in 1..BlockSize |-> HeaderCell(file, i)]
  BY DEF Header, HeaderCell, Says
<1>5. \A i \in 1..BlockSize : HeaderCell(file, i) \notin Byte
  <2>1. \A i \in 1..BlockSize : Header(file)[i] \notin Byte
    BY HeaderAssumption DEF Files
  <2> QED
    BY <2>1, <1>4
<1>6. Gap(file) \in Nat /\ (Len(file.data) + Gap(file)) % BlockSize = 0
  <2>1. BlockSize \in Nat \ {0}
    BY TarAssumption
  <2> QED
    BY <1>2, <2>1, GapFacts DEF Gap
<1> QED
  BY <1>1, <1>2, <1>3, <1>4, <1>5, <1>6

(***************************************************************************)
(* Where things lie: file i of p has its header at at[i], and the archive  *)
(* a holds p as far as a goes.                                             *)
(***************************************************************************)
DataAt(p, at, i) == at[i] + BlockSize
GapAt(p, at, i) == at[i] + BlockSize + Len(p[i].data)

Places(p, at) ==
  /\ at \in [1..(Len(p) + 1) -> Nat] /\ at[1] = 0
  /\ \A i \in 1..Len(p) : at[i + 1] = GapAt(p, at, i) + Gap(p[i])
  /\ \A i \in 1..(Len(p) + 1) : at[i] % BlockSize = 0 /\ at[i] <= at[Len(p) + 1]

HeadersLie(a, p, at) ==
  \A i \in 1..Len(p) :
    /\ at[i] < Len(a) => at[i] + BlockSize <= Len(a)
    /\ \A j \in 1..BlockSize : at[i] + j <= Len(a) => a[at[i] + j] = HeaderCell(p[i], j)

DataLies(a, p, at) ==
  \A i \in 1..Len(p) : \A j \in 1..Len(p[i].data) :
    DataAt(p, at, i) + j <= Len(a) => a[DataAt(p, at, i) + j] = p[i].data[j]

GapsAreZero(a, p, at) ==
  /\ \A i \in 1..Len(p) : \A q \in Nat :
       GapAt(p, at, i) < q /\ q <= at[i + 1] /\ q <= Len(a) => a[q] = Zero
  /\ \A q \in Nat : at[Len(p) + 1] < q /\ q <= Len(a) => a[q] = Zero

Laid(a, p, at) ==
  Places(p, at) /\ HeadersLie(a, p, at) /\ DataLies(a, p, at) /\ GapsAreZero(a, p, at)

PutOK(p) == p \in Seq(Files) /\ Len(p) \in Nat /\ Len(p) <= MaxFiles
ArchiveOK(a) == a \in Seq(ArchiveCell) /\ Len(a) \in Nat

LEMMA HeaderIs ==
  ASSUME PutOK(put), ArchiveOK(archive), NEW at, Laid(archive, put, at),
         NEW i \in 1..Len(put), at[i] < Len(archive)
  PROVE  /\ at[i] \in Nat /\ at[i] + BlockSize <= Len(archive)
         /\ archive[at[i] + 1] # Zero
         /\ HeaderAt(at[i]) = Says(put[i])
<1>1. /\ at[i] \in Nat /\ at[i] + BlockSize <= Len(archive)
      /\ archive[at[i] + 1] = HeaderCell(put[i], 1)
  <2>1. BlockSize \in Nat \ {0}
    BY TarAssumption
  <2>2. at[i] \in Nat
    BY DEF Laid, Places, PutOK
  <2>3. at[i] + BlockSize <= Len(archive)
    BY DEF Laid, HeadersLie
  <2>4. \A j \in 1..BlockSize : at[i] + j <= Len(archive) => archive[at[i] + j] = HeaderCell(put[i], j)
    BY DEF Laid, HeadersLie
  <2> QED
    BY <2>1, <2>2, <2>3, <2>4 DEF ArchiveOK
<1>2. HeaderCell(put[i], 1) \notin Byte
  <2>1. put[i] \in Files /\ 1 \in 1..BlockSize
    BY TarAssumption DEF PutOK
  <2> QED
    BY <2>1, FileFacts
<1>3. archive[at[i] + 1] # Zero
  BY <1>1, <1>2, TarAssumption
<1>4. HeaderCell(put[i], 1).byte = 1 /\ HeaderCell(put[i], 1).says = Says(put[i])
  BY DEF HeaderCell
<1>5. HeaderAt(at[i]) = Says(put[i])
  BY <1>1, <1>2, <1>4 DEF HeaderAt, InHeader
<1> QED
  BY <1>1, <1>3, <1>5

LEMMA PastZerosIs ==
  ASSUME ArchiveOK(archive), NEW pos \in Nat
  PROVE  LET q == PastZeros(pos)
         IN  /\ q \in Nat /\ pos <= q
             /\ q >= Len(archive) \/ archive[q + 1] # Zero
             /\ \A r \in pos..(q - 1) : r < Len(archive) /\ archive[r + 1] = Zero
<1> DEFINE Stops(q) == q >= Len(archive) \/ archive[q + 1] # Zero
           T == {q \in Nat : pos <= q /\ Stops(q)}
           Is(q) == Stops(q) /\ \A r \in pos..(q - 1) : r < Len(archive) /\ archive[r + 1] = Zero
<1>0. Len(archive) \in Nat
  BY DEF ArchiveOK
<1>1. pos + Len(archive) \in T
  BY <1>0
<1>2. PICK q \in T : \A r \in T : q <= r
  BY <1>1, LeastOfSet
<1>3. q \in pos..(pos + Len(archive)) /\ Is(q)
  <2>1. q \in pos..(pos + Len(archive))
    BY <1>0, <1>1, <1>2
  <2>2. ASSUME NEW r \in pos..(q - 1)
        PROVE  r < Len(archive) /\ archive[r + 1] = Zero
    <3>1. r \in Nat /\ pos <= r /\ r < q
      BY <1>2
    <3>2. r \notin T
      BY <1>2, <3>1
    <3>3. ~Stops(r)
      BY <3>1, <3>2
    <3> QED
      BY <3>1, <3>3, <1>0
  <2> QED
    BY <1>2, <2>1, <2>2
<1>4. PastZeros(pos) = CHOOSE p \in pos..(pos + Len(archive)) : Is(p)
  BY DEF PastZeros
<1> HIDE DEF Is
<1>5. PastZeros(pos) \in pos..(pos + Len(archive)) /\ Is(PastZeros(pos))
  BY <1>3, <1>4
<1> QED
  BY <1>0, <1>5 DEF Is

LEMMA SeekFinds ==
  ASSUME PutOK(put), ArchiveOK(archive), NEW at, Laid(archive, put, at),
         NEW i \in 1..Len(put)
  PROVE  LET q == PastZeros(GapAt(put, at, i))
         IN  /\ q \in Nat /\ q > at[i]
             /\ q < Len(archive) => i < Len(put) /\ q = at[i + 1]
             /\ i < Len(put) /\ at[i + 1] < Len(archive) => q = at[i + 1]
<1> DEFINE q == PastZeros(GapAt(put, at, i))
           gap == GapAt(put, at, i)
           n == Len(put)
<1>1. /\ n \in Nat /\ Len(archive) \in Nat /\ i + 1 \in 1..(n + 1)
      /\ at[i] \in Nat /\ at[i + 1] \in Nat /\ gap \in Nat
      /\ at[i] < gap /\ gap <= at[i + 1]
  <2>1. n \in Nat /\ Len(archive) \in Nat
    BY DEF PutOK, ArchiveOK
  <2>2. /\ at[i] \in Nat /\ at[i + 1] \in Nat
        /\ at[i + 1] = gap + Gap(put[i])
    <3>1. /\ at \in [1..(n + 1) -> Nat]
          /\ at[i + 1] = gap + Gap(put[i])
      BY DEF Laid, Places
    <3>2. i \in 1..(n + 1) /\ i + 1 \in 1..(n + 1)
      BY <2>1
    <3> QED
      BY <3>1, <3>2
  <2>3. put[i] \in Files
    BY DEF PutOK
  <2>4. Len(put[i].data) \in Nat /\ Gap(put[i]) \in Nat
    BY <2>3, FileFacts
  <2>5. BlockSize \in Nat \ {0}
    BY TarAssumption
  <2>6. gap = at[i] + BlockSize + Len(put[i].data)
    BY DEF GapAt
  <2>7. i + 1 \in 1..(n + 1)
    BY <2>1
  <2> HIDE DEF gap, n
  <2>8. gap \in Nat /\ at[i] < gap
    BY <2>2, <2>4, <2>5, <2>6, SMTT(30)
  <2>9. gap <= at[i + 1]
    BY <2>2, <2>4, <2>8
  <2> QED
    BY <2>1, <2>2, <2>7, <2>8, <2>9
<1>2. /\ q \in Nat /\ gap <= q
      /\ q >= Len(archive) \/ archive[q + 1] # Zero
      /\ \A r \in gap..(q - 1) : r < Len(archive) /\ archive[r + 1] = Zero
  BY <1>1, PastZerosIs
<1> HIDE DEF q, gap
<1>3. \A r \in Nat : gap < r /\ r <= at[i + 1] /\ r <= Len(archive) => archive[r] = Zero
  BY <1>1 DEF Laid, GapsAreZero, gap
<1>4. \A r \in Nat : at[n + 1] < r /\ r <= Len(archive) => archive[r] = Zero
  BY <1>1 DEF Laid, GapsAreZero
<1>5. i < n /\ at[i + 1] < Len(archive) => archive[at[i + 1] + 1] # Zero
  BY <1>1, HeaderIs
<1>6. ASSUME q < Len(archive)
      PROVE  i < n /\ q = at[i + 1]
  <2>1. archive[q + 1] # Zero /\ q + 1 \in Nat /\ q + 1 <= Len(archive)
    BY <1>1, <1>2, <1>6
  <2>2. q >= at[i + 1]
    BY <1>1, <1>2, <1>3, <2>1
  <2>3. i # n
    BY <1>1, <1>2, <1>4, <2>1, <2>2
  <2>4. ASSUME q # at[i + 1] PROVE FALSE
    <3>1. at[i + 1] \in gap..(q - 1)
      BY <1>1, <1>2, <2>2, <2>4
    <3>2. at[i + 1] < Len(archive) /\ archive[at[i + 1] + 1] = Zero
      BY <1>2, <3>1
    <3> QED
      BY <1>1, <1>5, <2>3, <3>2
  <2> QED
    BY <1>1, <2>3, <2>4
<1>7. ASSUME i < n, at[i + 1] < Len(archive)
      PROVE  q = at[i + 1]
  <2>1. ASSUME q < at[i + 1] PROVE FALSE
    <3>1. q < Len(archive)
      BY <1>1, <1>2, <1>7, <2>1
    <3> QED
      BY <1>1, <1>2, <1>6, <2>1, <3>1
  <2>2. ASSUME q > at[i + 1] PROVE FALSE
    <3>1. at[i + 1] \in gap..(q - 1)
      BY <1>1, <1>2, <2>2
    <3> QED
      BY <1>2, <1>5, <1>7, <3>1
  <2> QED
    BY <1>1, <1>2, <2>1, <2>2
<1> QED
  BY <1>1, <1>2, <1>6, <1>7 DEF q, gap

(***************************************************************************)
(* The istream.                                                            *)
(***************************************************************************)
Stream == [pos : Nat, eof : BOOLEAN, fail : BOOLEAN]

(* The n bytes of a behind position at.                                    *)
Bytes(a, at, n) == [i \in 1..n |-> a[at + i]]

LEMMA BytesType ==
  ASSUME ArchiveOK(archive), NEW pos \in Nat, NEW n \in Nat, pos + n <= Len(archive)
  PROVE  Bytes(archive, pos, n) \in Seq(ArchiveCell) /\ Len(Bytes(archive, pos, n)) = n
<1>1. \A i \in 1..n : archive[pos + i] \in ArchiveCell
  BY DEF ArchiveOK
<1>2. Bytes(archive, pos, n) \in [1..n -> ArchiveCell]
  BY <1>1 DEF Bytes
<1> QED
  BY <1>2

LEMMA ReadWhole ==
  ASSUME ArchiveOK(archive), NEW s \in Stream, NEW n \in Nat,
         good(s), s.pos + n <= Len(archive)
  PROVE  /\ read(s, n) = [pos |-> s.pos + n, eof |-> FALSE, fail |-> FALSE]
         /\ BytesRead(s, n) = Bytes(archive, s.pos, n)
<1>1. s.pos \in Nat /\ Len(archive) \in Nat
  BY DEF Stream, ArchiveOK
<1>2. LeftFor(s, n) = 1..n
  BY <1>1 DEF LeftFor
<1>3. Cardinality(LeftFor(s, n)) = n
  BY <1>2, FS_Interval
<1>4. BytesRead(s, n) = Bytes(archive, s.pos, n)
  BY <1>2 DEF BytesRead, Bytes
<1>5. /\ (s.eof \/ (good(s) /\ s.pos + n > Len(archive))) = FALSE
      /\ (~good(s) \/ s.pos + n > Len(archive)) = FALSE
  <2>1. ~(s.pos + n > Len(archive))
    BY <1>1
  <2>2. s.eof \in BOOLEAN
    BY DEF Stream
  <2> QED
    BY <2>1, <2>2, Zenon DEF good
<1> QED
  BY <1>3, <1>4, <1>5 DEF read

LEMMA ReadShort ==
  ASSUME ArchiveOK(archive), NEW s \in Stream, NEW n \in Nat,
         ~good(s) \/ s.pos + n > Len(archive)
  PROVE  /\ read(s, n) \in Stream /\ read(s, n).fail
         /\ \E m \in 0..n :
              /\ m < n \/ n = 0
              /\ m = 0 \/ (good(s) /\ s.pos + m <= Len(archive))
              /\ BytesRead(s, n) = Bytes(archive, s.pos, m)
<1>1. s.pos \in Nat /\ Len(archive) \in Nat /\ s.eof \in BOOLEAN
  BY DEF Stream, ArchiveOK
<1>2. PICK m \in 0..n : /\ m < n \/ n = 0
                        /\ m = 0 \/ (good(s) /\ s.pos + m <= Len(archive))
                        /\ LeftFor(s, n) = 1..m
  <2>1. CASE ~good(s) \/ s.pos > Len(archive)
    <3>1. LeftFor(s, n) = 1..0
      BY <1>1, <2>1 DEF LeftFor
    <3> QED
      BY <3>1
  <2>2. CASE good(s) /\ s.pos <= Len(archive)
    <3>1. LeftFor(s, n) = 1..(Len(archive) - s.pos)
      BY <1>1, <2>2 DEF LeftFor
    <3> QED
      BY <1>1, <2>2, <3>1
  <2> QED
    BY <1>1, <2>1, <2>2
<1>3. Cardinality(LeftFor(s, n)) = m
  BY <1>2, FS_Interval
<1>4. BytesRead(s, n) = Bytes(archive, s.pos, m)
  BY <1>2 DEF BytesRead, Bytes
<1> DEFINE eof == s.eof \/ (good(s) /\ s.pos + n > Len(archive))
           fail == ~good(s) \/ s.pos + n > Len(archive)
<1>5. eof \in BOOLEAN /\ fail = TRUE
  BY <1>1, Zenon
<1>6. read(s, n) = [pos |-> s.pos + m, eof |-> eof, fail |-> fail]
  BY <1>3 DEF read
<1> HIDE DEF eof, fail
<1>7. read(s, n) \in Stream /\ read(s, n).fail = TRUE
  BY <1>1, <1>5, <1>6 DEF Stream
<1> QED
  BY <1>2, <1>4, <1>7

(* Between two files: at the next one, or where none is found.             *)
AtNext(at, s, g) ==
  good(s) /\ g < Len(put) /\ s.pos = at[g + 1] /\ s.pos < Len(archive)

Over(s, g) == ~check_if_header_is_next(s) /\ (cut \/ g = Len(put))

(* Behind the header of the file after g files.                            *)
OpenAt(at, s, g) ==
  /\ g < Len(put) /\ ~s.fail
  /\ s.pos = DataAt(put, at, g + 1) /\ s.pos <= Len(archive)
  /\ s.eof => cut /\ s.pos = Len(archive)

(* And within its data, co of which was copied.                            *)
CopyAt(at, s, co, g) ==
  LET data == put[g + 1].data
  IN  /\ g < Len(put)
      /\ co \in Seq(ArchiveCell) /\ Len(co) <= Len(data)
      /\ \A j \in 1..Len(co) : co[j] = data[j]
      /\ good(s) => s.pos = DataAt(put, at, g + 1) + Len(co) /\ s.pos <= Len(archive)
      /\ ~good(s) => cut /\ Len(co) < Len(data)

Complete(at) ==
  cut \/ (Len(archive) > at[Len(put) + 1] /\ Len(archive) % BlockSize = 0)

LaidOK(at) ==
  PutOK(put) /\ ArchiveOK(archive) /\ Laid(archive, put, at) /\ Complete(at) /\ cut \in BOOLEAN

LEMMA PeekFacts ==
  ASSUME ArchiveOK(archive), NEW s \in Stream
  PROVE  /\ peek(s) \in Stream /\ peek(s).pos = s.pos
         /\ good(peek(s)) => good(s) /\ s.pos < Len(archive)
         /\ good(s) /\ s.pos < Len(archive) => peek(s) = s
         /\ good(s) => ~peek(s).fail
<1> DEFINE fail == s.fail \/ ~good(s)
           eof == s.eof \/ (good(s) /\ ~HasByte(s))
<1>0. peek(s) = [s EXCEPT !.fail = fail, !.eof = eof]
  BY DEF peek
<1>2. eof \in BOOLEAN /\ fail \in BOOLEAN
  BY DEF Stream
<1>3. ~eof /\ ~fail => good(s) /\ s.pos < Len(archive)
  BY DEF good, HasByte
<1>4. good(s) /\ s.pos < Len(archive) => eof = s.eof /\ fail = s.fail
  <2>1. s.eof \in BOOLEAN /\ s.fail \in BOOLEAN
    BY DEF Stream
  <2> QED
    BY <2>1, Zenon DEF good, HasByte
<1>5. good(s) => ~fail
  BY DEF good
<1>6. s = [pos |-> s.pos, eof |-> s.eof, fail |-> s.fail] /\ s.pos \in Nat
  BY DEF Stream
<1> HIDE DEF eof, fail
<1>1. peek(s) = [pos |-> s.pos, eof |-> eof, fail |-> fail]
  BY <1>0 DEF Stream
<1>7. peek(s) \in Stream /\ peek(s).pos = s.pos /\ peek(s).eof = eof /\ peek(s).fail = fail
  BY <1>1, <1>2, <1>6 DEF Stream
<1> QED
  BY <1>1, <1>3, <1>4, <1>5, <1>6, <1>7 DEF good

LEMMA OverStays ==
  ASSUME ArchiveOK(archive), NEW s \in Stream, NEW g, Over(s, g)
  PROVE  Over(peek(s), g)
<1>1. CASE good(peek(s))
  BY <1>1, PeekFacts
<1>2. CASE ~good(peek(s))
  BY <1>2 DEF Over, check_if_header_is_next, HasByte
<1> QED
  BY <1>1, <1>2

LEMMA SeekNotGood ==
  ASSUME ArchiveOK(archive), NEW s \in Stream, ~good(s)
  PROVE  seek_to_next_header(s) \in Stream /\ ~good(seek_to_next_header(s))
BY PeekFacts DEF seek_to_next_header

LEMMA SeekToNext ==
  ASSUME NEW at, LaidOK(at), NEW s \in Stream, good(s),
         NEW k \in 1..Len(put), s.pos = GapAt(put, at, k)
  PROVE  LET t == seek_to_next_header(s)
         IN  t \in Stream /\ (AtNext(at, t, k) \/ Over(t, k))
<1> DEFINE q == PastZeros(s.pos)
           u == [pos |-> q, eof |-> s.eof, fail |-> s.fail]
           t == seek_to_next_header(s)
<1>1. /\ q \in Nat /\ q > at[k]
      /\ q < Len(archive) => k < Len(put) /\ q = at[k + 1]
      /\ k < Len(put) /\ at[k + 1] < Len(archive) => q = at[k + 1]
  <2> HIDE DEF q
  <2>1. q = PastZeros(GapAt(put, at, k))
    BY DEF q
  <2> QED
    BY <2>1, SeekFinds DEF LaidOK
<1>2. t = peek(u) /\ u \in Stream /\ good(u) /\ u.pos = q
  <2>1. [s EXCEPT !.pos = q] = u
    BY DEF Stream
  <2>2. t = peek(u)
    BY <2>1 DEF seek_to_next_header
  <2> HIDE DEF q
  <2>3. u \in Stream
    BY <1>1 DEF Stream
  <2> QED
    BY <2>2, <2>3 DEF good
<1> HIDE DEF q, u, t
<1>3. /\ t \in Stream /\ t.pos = q
      /\ good(t) => q < Len(archive)
      /\ q < Len(archive) => t = u
  BY <1>2, PeekFacts DEF LaidOK
<1>4. CASE q < Len(archive)
  BY <1>1, <1>2, <1>3, <1>4 DEF AtNext, t
<1>5. CASE ~(q < Len(archive))
  <2>1. ~check_if_header_is_next(t)
    BY <1>3, <1>5 DEF check_if_header_is_next, HasByte
  <2>2. ASSUME ~cut PROVE k = Len(put)
    <3>1. Len(archive) > at[Len(put) + 1]
      BY <2>2 DEF LaidOK, Complete
    <3>2. ASSUME k < Len(put) PROVE FALSE
      <4>1. at \in [1..(Len(put) + 1) -> Nat] /\ at[k + 1] <= at[Len(put) + 1]
            /\ k + 1 \in 1..(Len(put) + 1) /\ Len(put) + 1 \in 1..(Len(put) + 1)
        BY <3>2 DEF LaidOK, Laid, Places, PutOK
      <4>2. at[k + 1] \in Nat /\ at[Len(put) + 1] \in Nat /\ Len(archive) \in Nat
        BY <4>1 DEF LaidOK, ArchiveOK
      <4> QED
        BY <1>1, <1>5, <3>1, <3>2, <4>1, <4>2
    <3> QED
      BY <3>2 DEF LaidOK, PutOK
  <2> QED
    BY <1>3, <2>1, <2>2 DEF Over, t
<1> QED
  BY <1>3, <1>4, <1>5 DEF t

(***************************************************************************)
(* The files read.                                                         *)
(***************************************************************************)
HandledFile == [name : Name, data : Seq(ArchiveCell), skipped : BOOLEAN]

As(x, file) == x.name = file.name /\ (x.skipped \/ x.data = file.data)
PartOf(x, file) == x.name = file.name /\ IsPrefix(x.data, file.data)

AllRead(g) ==
  Len(g) <= Len(put) /\ \A i \in 1..Len(g) : As(g[i], put[i])
MostRead(g) ==
  /\ Len(g) <= Len(put)
  /\ \A i \in 1..Len(g) : As(g[i], put[i]) \/ (cut /\ i = Len(g) /\ PartOf(g[i], put[i]))

LEMMA ReadMore ==
  ASSUME NEW g \in Seq(HandledFile), AllRead(g), PutOK(put), Len(g) < Len(put),
         NEW x \in HandledFile
  PROVE  /\ Append(g, x) \in Seq(HandledFile) /\ Len(Append(g, x)) = Len(g) + 1
         /\ As(x, put[Len(g) + 1]) => AllRead(Append(g, x))
         /\ As(x, put[Len(g) + 1]) \/ (cut /\ PartOf(x, put[Len(g) + 1]))
              => MostRead(Append(g, x))
<1> DEFINE h == Append(g, x)
           n == Len(g)
<1>1. /\ h \in Seq(HandledFile) /\ n \in Nat /\ Len(h) = n + 1
      /\ h[n + 1] = x /\ \A i \in 1..n : h[i] = g[i]
  OBVIOUS
<1>2. \A i \in 1..n : As(h[i], put[i])
  BY <1>1 DEF AllRead
<1>3. n + 1 <= Len(put)
  BY <1>1 DEF PutOK
<1> HIDE DEF h, n
<1>4. \A i \in 1..(n + 1) : i = n + 1 \/ i \in 1..n
  BY <1>1
<1>5. As(x, put[n + 1]) => AllRead(h)
  BY <1>1, <1>2, <1>3, <1>4 DEF AllRead
<1>6. As(x, put[n + 1]) \/ (cut /\ PartOf(x, put[n + 1])) => MostRead(h)
  BY <1>1, <1>2, <1>3, <1>4 DEF MostRead
<1> QED
  BY <1>1, <1>5, <1>6 DEF h, n

LEMMA AllIsMost ==
  ASSUME NEW g, AllRead(g)
  PROVE  MostRead(g)
BY DEF AllRead, MostRead

(* Where a file's data lies.                                               *)
LEMMA DataIs ==
  ASSUME NEW at, LaidOK(at), NEW k \in 1..Len(put)
  PROVE  /\ at[k] \in Nat /\ put[k] \in Files
         /\ put[k].data \in Seq(ArchiveCell) /\ Len(put[k].data) \in Nat
         /\ DataAt(put, at, k) = at[k] + BlockSize /\ DataAt(put, at, k) \in Nat
         /\ GapAt(put, at, k) = DataAt(put, at, k) + Len(put[k].data)
         /\ cut \/ GapAt(put, at, k) <= Len(archive)
         /\ \A j \in 1..Len(put[k].data) :
              DataAt(put, at, k) + j <= Len(archive)
                => archive[DataAt(put, at, k) + j] = put[k].data[j]
<1>1. at[k] \in Nat /\ at[k + 1] \in Nat /\ at[Len(put) + 1] \in Nat
      /\ at[k + 1] <= at[Len(put) + 1] /\ at[k + 1] = GapAt(put, at, k) + Gap(put[k])
  <2>1. /\ at \in [1..(Len(put) + 1) -> Nat]
        /\ at[k + 1] = GapAt(put, at, k) + Gap(put[k])
        /\ \A i \in 1..(Len(put) + 1) : at[i] <= at[Len(put) + 1]
    BY DEF LaidOK, Laid, Places
  <2>2. k \in 1..(Len(put) + 1) /\ k + 1 \in 1..(Len(put) + 1)
        /\ Len(put) + 1 \in 1..(Len(put) + 1)
    BY DEF LaidOK, PutOK
  <2> QED
    BY <2>1, <2>2
<1>2. put[k] \in Files
  BY DEF LaidOK, PutOK
<1>3. /\ put[k].data \in Seq(Byte) /\ Len(put[k].data) \in Nat /\ Gap(put[k]) \in Nat
  BY <1>2, FileFacts
<1>4. put[k].data \in Seq(ArchiveCell)
  BY <1>3 DEF ArchiveCell
<1>5. BlockSize \in Nat
  BY TarAssumption
<1>6. /\ DataAt(put, at, k) = at[k] + BlockSize /\ DataAt(put, at, k) \in Nat
      /\ GapAt(put, at, k) = DataAt(put, at, k) + Len(put[k].data)
  BY <1>1, <1>5 DEF DataAt, GapAt
<1>7. ASSUME ~cut PROVE GapAt(put, at, k) <= Len(archive)
  <2>1. Len(archive) > at[Len(put) + 1] /\ Len(archive) \in Nat
    BY <1>7 DEF LaidOK, Complete, ArchiveOK
  <2>2. GapAt(put, at, k) \in Nat
    BY <1>3, <1>6
  <2> QED
    BY <1>1, <1>3, <2>1, <2>2
<1>8. \A j \in 1..Len(put[k].data) :
        DataAt(put, at, k) + j <= Len(archive)
          => archive[DataAt(put, at, k) + j] = put[k].data[j]
  BY DEF LaidOK, Laid, DataLies
<1> QED
  BY <1>1, <1>2, <1>3, <1>4, <1>6, <1>7, <1>8

(* A file's data is read whole, or to the end of a cut archive.            *)

(* A file's data is read whole, or to the end of a cut archive.            *)
LEMMA DataRead ==
  ASSUME NEW at, LaidOK(at), NEW g \in Nat, NEW s \in Stream, OpenAt(at, s, g)
  PROVE  LET data == BytesRead(s, Len(put[g + 1].data))
             t == seek_to_next_header(read(s, Len(put[g + 1].data)))
         IN  /\ t \in Stream /\ data \in Seq(ArchiveCell)
             /\ \/ data = put[g + 1].data /\ (AtNext(at, t, g + 1) \/ Over(t, g + 1))
                \/ cut /\ IsPrefix(data, put[g + 1].data) /\ Over(t, g + 1)
<1> DEFINE k == g + 1
           file == put[k].data
           n == Len(file)
           data == BytesRead(s, n)
           r == read(s, n)
           t == seek_to_next_header(r)
<1>0. k \in 1..Len(put) /\ ArchiveOK(archive) /\ Len(put) \in Nat
  BY DEF OpenAt, LaidOK, PutOK
<1>1. /\ s.pos = DataAt(put, at, k) /\ s.pos \in Nat /\ Len(archive) \in Nat
      /\ file \in Seq(ArchiveCell) /\ n \in Nat
      /\ GapAt(put, at, k) = s.pos + n
      /\ cut \/ s.pos + n <= Len(archive)
      /\ \A j \in 1..n : s.pos + j <= Len(archive) => archive[s.pos + j] = file[j]
  BY <1>0, DataIs DEF OpenAt, ArchiveOK
<1>2. s.pos <= Len(archive) /\ ~s.fail /\ (s.eof => cut)
  BY DEF OpenAt
<1> HIDE DEF file, n, data, r, t
<1>3. CASE good(s) /\ s.pos + n <= Len(archive)
  <2>1. r = [pos |-> s.pos + n, eof |-> FALSE, fail |-> FALSE] /\ data = Bytes(archive, s.pos, n)
    BY <1>0, <1>1, <1>3, ReadWhole DEF r, data
  <2>2. r \in Stream /\ good(r) /\ r.pos = GapAt(put, at, k)
    BY <1>1, <2>1 DEF Stream, good
  <2>3. t \in Stream /\ (AtNext(at, t, k) \/ Over(t, k))
    BY <1>0, <2>2, SeekToNext DEF t
  <2>4. data \in Seq(ArchiveCell) /\ Len(data) = n
    BY <1>0, <1>1, <1>3, <2>1, BytesType
  <2>5. \A j \in 1..n : data[j] = file[j]
    BY <1>1, <1>3, <2>1, SMTT(30) DEF Bytes
  <2>6. data = file
    BY <1>1, <2>4, <2>5, SameSequence DEF n
  <2> QED
    BY <2>3, <2>4, <2>6 DEF data, t, r, n, file
<1>4. CASE ~good(s) \/ s.pos + n > Len(archive)
  <2>1. cut
    BY <1>1, <1>2, <1>4 DEF good
  <2>2. r \in Stream /\ r.fail
    BY <1>0, <1>1, <1>4, ReadShort DEF r
  <2>3. t \in Stream /\ ~good(t)
    BY <1>0, <2>2, SeekNotGood DEF t, good
  <2>4. Over(t, k)
    BY <2>1, <2>3 DEF Over, check_if_header_is_next, HasByte
  <2>5. PICK m \in 0..n : /\ m = 0 \/ s.pos + m <= Len(archive)
                          /\ data = Bytes(archive, s.pos, m)
    BY <1>0, <1>1, <1>4, ReadShort DEF data
  <2>6. s.pos + m <= Len(archive) /\ m \in Nat
    BY <1>1, <1>2, <2>5
  <2>7. data \in Seq(ArchiveCell) /\ Len(data) = m
    BY <1>0, <1>1, <2>5, <2>6, BytesType
  <2>8. \A j \in 1..m : data[j] = file[j]
    <3> SUFFICES ASSUME NEW j \in 1..m PROVE data[j] = file[j]
      OBVIOUS
    <3>1. j \in 1..n /\ s.pos + j <= Len(archive)
      BY <1>1, <2>5, <2>6
    <3>2. data[j] = archive[s.pos + j]
      BY <2>5 DEF Bytes
    <3> QED
      BY <1>1, <3>1, <3>2
  <2>9. IsPrefix(data, file)
    <3>1. m <= Len(file)
      BY <1>1, <2>5 DEF n
    <3>2. SubSeq(data, 1, m) \in Seq(ArchiveCell) /\ Len(SubSeq(data, 1, m)) = m
          /\ \A i \in 1..m : SubSeq(data, 1, m)[i] = data[i]
      BY <2>6, <2>7, CutParts
    <3>3. SubSeq(file, 1, m) \in Seq(ArchiveCell) /\ Len(SubSeq(file, 1, m)) = m
          /\ \A i \in 1..m : SubSeq(file, 1, m)[i] = file[i]
      BY <1>1, <2>6, <3>1, CutParts
    <3>4. SubSeq(data, 1, m) = SubSeq(file, 1, m)
      BY <2>8, <3>2, <3>3, SameSequence
    <3> QED
      BY <2>7, <3>1, <3>4 DEF IsPrefix
  <2> QED
    BY <2>1, <2>3, <2>4, <2>7, <2>9 DEF data, t, r, n, file
<1> QED
  BY <1>1, <1>3, <1>4

LEMMA DataSkipped ==
  ASSUME NEW at, LaidOK(at), NEW g \in Nat, NEW s \in Stream, OpenAt(at, s, g)
  PROVE  LET t == seek_to_next_header(seekg(s, s.pos + Len(put[g + 1].data)))
         IN  t \in Stream /\ (AtNext(at, t, g + 1) \/ Over(t, g + 1))
<1> DEFINE k == g + 1
           n == Len(put[k].data)
           r == seekg(s, s.pos + n)
<1>0. k \in 1..Len(put) /\ Len(put) \in Nat
  BY DEF OpenAt, LaidOK, PutOK
<1>1. s.pos \in Nat /\ n \in Nat /\ GapAt(put, at, k) = s.pos + n
  BY <1>0, DataIs DEF OpenAt
<1> HIDE DEF n
<1>2. r = [pos |-> s.pos + n, eof |-> FALSE, fail |-> FALSE]
  <2>1. s.fail = FALSE
    BY DEF OpenAt, Stream
  <2>2. r = [s EXCEPT !.eof = FALSE, !.pos = s.pos + n]
    BY <2>1 DEF seekg
  <2> HIDE DEF r
  <2> QED
    BY <2>1, <2>2 DEF Stream
<1> HIDE DEF r
<1>3. r \in Stream /\ good(r) /\ r.pos = GapAt(put, at, k)
  BY <1>1, <1>2 DEF Stream, good
<1> QED
  BY <1>0, <1>3, SeekToNext DEF r, n

(* t is the first n cells of file.                                         *)
Grown(t, file, n) ==
  t \in Seq(ArchiveCell) /\ Len(t) = n /\ n <= Len(file) /\ \A j \in 1..n : t[j] = file[j]

LEMMA Longer ==
  ASSUME NEW file \in Seq(ArchiveCell), NEW co \in Seq(ArchiveCell),
         NEW data \in Seq(ArchiveCell), Len(co) + Len(data) <= Len(file),
         \A j \in 1..Len(co) : co[j] = file[j],
         \A i \in 1..Len(data) : data[i] = file[Len(co) + i]
  PROVE  Grown(co \o data, file, Len(co) + Len(data))
<1> DEFINE c == Len(co)
           n == Len(data)
           both == co \o data
<1>1. /\ c \in Nat /\ n \in Nat
      /\ both \in Seq(ArchiveCell) /\ Len(both) = c + n
      /\ \A i \in 1..c : both[i] = co[i]
      /\ \A i \in 1..n : both[c + i] = data[i]
  BY ConcatParts
<1> HIDE DEF both, c, n
<1>2. ASSUME NEW j \in 1..(c + n) PROVE both[j] = file[j]
  <2>1. CASE j <= c
    BY <1>1, <2>1 DEF c
  <2>2. CASE j > c
    <3>1. j - c \in 1..n /\ c + (j - c) = j
      BY <1>1, <2>2
    <3> QED
      BY <1>1, <3>1 DEF c, n
  <2> QED
    BY <1>1, <2>1, <2>2
<1> QED
  BY <1>1, <1>2 DEF Grown, both, c, n

LEMMA Growing ==
  ASSUME ArchiveOK(archive), NEW file \in Seq(ArchiveCell), NEW co \in Seq(ArchiveCell),
         NEW pos \in Nat, NEW n \in Nat, Len(co) + n <= Len(file),
         pos + Len(co) + n <= Len(archive),
         \A j \in 1..Len(co) : co[j] = file[j],
         \A j \in 1..Len(file) : pos + j <= Len(archive) => archive[pos + j] = file[j]
  PROVE  Grown(co \o Bytes(archive, pos + Len(co), n), file, Len(co) + n)
<1> DEFINE c == Len(co)
           data == Bytes(archive, pos + c, n)
<1>1. c \in Nat /\ Len(file) \in Nat /\ Len(archive) \in Nat /\ pos + c \in Nat
  BY DEF ArchiveOK
<1>2. data \in Seq(ArchiveCell) /\ Len(data) = n
  BY <1>1, BytesType
<1>3. ASSUME NEW i \in 1..n PROVE data[i] = file[c + i]
  <2>1. c + i \in 1..Len(file) /\ (pos + c) + i = pos + (c + i) /\ pos + (c + i) <= Len(archive)
    BY <1>1
  <2>2. data[i] = archive[(pos + c) + i]
    BY DEF Bytes
  <2> QED
    BY <2>1, <2>2
<1> HIDE DEF data
<1> QED
  BY <1>2, <1>3, Longer DEF data

(* Copying a piece of a file's data.                                       *)
LEMMA DataCopied ==
  ASSUME NEW at, LaidOK(at), NEW g \in Nat, NEW s \in Stream, NEW co, CopyAt(at, s, co, g),
         NEW n \in Nat \ {0}, Len(co) + n <= Len(put[g + 1].data)
  PROVE  read(s, n) \in Stream /\ CopyAt(at, read(s, n), co \o BytesRead(s, n), g)
<1> DEFINE k == g + 1
           file == put[k].data
           data == BytesRead(s, n)
           r == read(s, n)
           c == Len(co)
           both == co \o data
<1>0. /\ k \in 1..Len(put) /\ ArchiveOK(archive) /\ Len(put) \in Nat
      /\ co \in Seq(ArchiveCell) /\ c \in Nat /\ g < Len(put)
      /\ \A j \in 1..c : co[j] = file[j]
      /\ s.pos \in Nat
  <2>1. PutOK(put) /\ ArchiveOK(archive) /\ Len(put) \in Nat
    BY DEF LaidOK, PutOK
  <2>2. /\ g < Len(put) /\ co \in Seq(ArchiveCell)
        /\ \A j \in 1..Len(co) : co[j] = put[g + 1].data[j]
    BY Zenon DEF CopyAt
  <2>3. g + 1 \in 1..Len(put)
    BY ONLY <2>1, <2>2, g \in Nat
  <2>4. Len(co) \in Nat
    BY ONLY <2>2
  <2>5. s.pos \in Nat
    BY DEF Stream
  <2> QED
    BY ONLY <2>1, <2>2, <2>3, <2>4, <2>5
<1>1. /\ DataAt(put, at, k) \in Nat /\ Len(archive) \in Nat
      /\ file \in Seq(ArchiveCell) /\ Len(file) \in Nat
      /\ cut \/ DataAt(put, at, k) + Len(file) <= Len(archive)
      /\ \A j \in 1..Len(file) : DataAt(put, at, k) + j <= Len(archive)
                                   => archive[DataAt(put, at, k) + j] = file[j]
  BY <1>0, DataIs DEF ArchiveOK
<1>2. /\ good(s) => s.pos = DataAt(put, at, k) + c /\ s.pos <= Len(archive)
      /\ ~good(s) => cut /\ c < Len(file)
  BY DEF CopyAt
<1> HIDE DEF data, r, c, both
<1>3. CASE good(s) /\ s.pos + n <= Len(archive)
  <2>1. r = [pos |-> s.pos + n, eof |-> FALSE, fail |-> FALSE] /\ data = Bytes(archive, s.pos, n)
    BY <1>0, <1>3, ReadWhole DEF r, data
  <2>2. data \in Seq(ArchiveCell) /\ Len(data) = n
    BY <1>0, <1>3, <2>1, BytesType
  <2>4. Grown(both, file, c + n)
    <3>1. s.pos = DataAt(put, at, k) + c /\ c + n <= Len(file)
      BY <1>2, <1>3 DEF c, file
    <3> QED
      BY <1>0, <1>1, <1>3, <2>1, <3>1, Growing DEF c, both
  <2>6. r \in Stream /\ good(r) /\ r.pos = DataAt(put, at, k) + (c + n) /\ r.pos <= Len(archive)
    BY <1>0, <1>1, <1>2, <1>3, <2>1, SMTT(30) DEF Stream, good
  <2> QED
    BY <1>0, <2>4, <2>6 DEF CopyAt, Grown, r, c, both, data, file
<1>4. CASE ~good(s) \/ s.pos + n > Len(archive)
  <2>1. c + n <= Len(file)
    BY DEF c, file
  <2>2. cut
    BY <1>0, <1>1, <1>2, <1>4, <2>1, SMTT(30)
  <2>3. r \in Stream /\ ~good(r)
    BY <1>0, <1>4, ReadShort DEF r, good
  <2>4. PICK m \in 0..n : /\ m < n \/ n = 0
                          /\ m = 0 \/ (good(s) /\ s.pos + m <= Len(archive))
                          /\ data = Bytes(archive, s.pos, m)
    BY <1>0, <1>4, ReadShort DEF data
  <2>5. Grown(both, file, c + m)
    <3>1. c + m <= Len(file)
      BY <1>0, <1>1, <2>1, <2>4
    <3>2. CASE m # 0
      <4>1. s.pos = DataAt(put, at, k) + c /\ s.pos + m <= Len(archive) /\ m \in Nat
        BY <1>2, <2>4, <3>2
      <4>2. DataAt(put, at, k) + c + m <= Len(archive)
        BY <4>1
      <4> QED
        BY <1>0, <1>1, <2>4, <3>1, <4>1, <4>2, Growing DEF c, both
    <3>3. CASE m = 0
      <4>1. data = <<>>
        BY <2>4, <3>3 DEF Bytes
      <4>2. both = co
        BY <1>0, <4>1 DEF both
      <4> QED
        BY <1>0, <3>1, <3>3, <4>2 DEF Grown, c
    <3> QED
      BY <3>2, <3>3
  <2>6. c + m < Len(file)
    BY <1>0, <1>1, <2>1, <2>4
  <2> QED
    BY <1>0, <2>2, <2>3, <2>5, <2>6 DEF CopyAt, Grown, r, c, both, data
<1> QED
  BY <1>0, <1>1, <1>3, <1>4

(***************************************************************************)
(* number_of_files.                                                        *)
(***************************************************************************)
Behind(pos) == PastZeros(pos + BlockSize + HeaderAt(pos).size)

FilesAt(f, pos) ==
  IF pos < Len(archive) /\ archive[pos + 1] # Zero
  THEN 1 + IF Behind(pos) < Len(archive) THEN f[Behind(pos)] ELSE 0
  ELSE 0

Counts(f, low) == f = [pos \in low..Len(archive) |-> FilesAt(f, pos)]

LEMMA BehindIsLater ==
  ASSUME ArchiveOK(archive), NEW pos \in Nat, pos < Len(archive)
  PROVE  Behind(pos) \in Nat /\ pos < Behind(pos)
<1> DEFINE size == HeaderAt(pos).size
<1>1. size \in Nat
  <2>1. archive[pos + 1] \in ArchiveCell
    BY DEF ArchiveOK
  <2>2. CASE InHeader(archive[pos + 1]) /\ archive[pos + 1].byte = 1
    <3>1. archive[pos + 1] \in [says : Saying, byte : Nat]
      BY <2>1, <2>2 DEF ArchiveCell, InHeader
    <3>2. archive[pos + 1].says.size \in Nat
      BY <3>1 DEF Saying
    <3> QED
      BY <2>2, <3>2 DEF HeaderAt
  <2>3. CASE ~(InHeader(archive[pos + 1]) /\ archive[pos + 1].byte = 1)
    BY <2>3 DEF HeaderAt
  <2> QED
    BY <2>2, <2>3
<1>2. BlockSize \in Nat \ {0}
  BY TarAssumption
<1> HIDE DEF size
<1>3. pos + BlockSize + size \in Nat /\ pos < pos + BlockSize + size
  BY <1>1, <1>2
<1>4. /\ PastZeros(pos + BlockSize + size) \in Nat
      /\ pos + BlockSize + size <= PastZeros(pos + BlockSize + size)
  BY <1>3, PastZerosIs
<1>5. Behind(pos) = PastZeros(pos + BlockSize + size)
  BY DEF Behind, size
<1> QED
  BY <1>3, <1>4, <1>5

LEMMA CountsExists ==
  ASSUME ArchiveOK(archive)
  PROVE  \E f : Counts(f, 0)
<1> DEFINE L == Len(archive)
           P(m) == m <= L => \E f : Counts(f, L - m)
           S == {m \in Nat : P(m)}
<1>0. L \in Nat
  BY DEF ArchiveOK
<1> HIDE DEF L
<1>1. P(0)
  <2> DEFINE f == [pos \in L..L |-> 0]
  <2>1. Counts(f, L)
    BY <1>0 DEF Counts, FilesAt, L
  <2> QED
    BY <1>0, <2>1
<1>2. ASSUME NEW m \in Nat, P(m), m + 1 <= L
      PROVE  \E f : Counts(f, L - (m + 1))
  <2>1. PICK f : Counts(f, L - m)
    BY <1>0, <1>2
  <2> DEFINE low == L - (m + 1)
             g == [pos \in low..L |-> IF pos = low THEN FilesAt(f, low) ELSE f[pos]]
  <2>2. low \in Nat /\ L - m = low + 1 /\ low < L
    BY <1>0, <1>2
  <2>3. f = [pos \in (low + 1)..L |-> FilesAt(f, pos)]
    BY <2>1, <2>2 DEF Counts, L
  <2> HIDE DEF low
  <2>4. ASSUME NEW pos \in low..L PROVE FilesAt(g, pos) = FilesAt(f, pos)
    <3>1. CASE pos < L
      <4>1. Behind(pos) \in Nat /\ pos < Behind(pos)
        BY <1>0, <2>2, <3>1, BehindIsLater DEF L
      <4>2. Behind(pos) < L => g[Behind(pos)] = f[Behind(pos)]
        BY <1>0, <2>2, <4>1
      <4> HIDE DEF g
      <4> QED
        BY <4>2 DEF FilesAt, L
    <3>2. CASE pos = L
      BY <1>0, <3>2 DEF FilesAt, L
    <3> QED
      BY <1>0, <2>2, <3>1, <3>2
  <2>5. ASSUME NEW pos \in low..L PROVE g[pos] = FilesAt(g, pos)
    <3>1. g[pos] = IF pos = low THEN FilesAt(f, low) ELSE f[pos]
      OBVIOUS
    <3>2. CASE pos = low
      BY <2>4, <3>1, <3>2
    <3>3. CASE pos # low
      <4>1. pos \in (low + 1)..L
        BY <1>0, <2>2, <3>3
      <4>2. f[pos] = FilesAt(f, pos)
        BY <2>3, <4>1
      <4> QED
        BY <2>4, <3>1, <3>3, <4>2
    <3> QED
      BY <3>2, <3>3
  <2>6. g = [pos \in low..L |-> FilesAt(g, pos)]
    <3>1. g = [pos \in low..L |-> g[pos]]
      OBVIOUS
    <3> HIDE DEF g
    <3> QED
      BY <2>5, <3>1
  <2> QED
    BY <2>6 DEF Counts, L, low
<1>3. \A m \in Nat : m \in S
  <2>1. 0 \in S
    BY <1>1
  <2>2. \A m \in Nat : m \in S => m + 1 \in S
    <3> SUFFICES ASSUME NEW m \in Nat, m \in S PROVE m + 1 \in S
      OBVIOUS
    <3>1. P(m)
      OBVIOUS
    <3>2. P(m + 1)
      BY <1>2, <3>1
    <3> QED
      BY <3>2
  <2> HIDE DEF S
  <2> QED
    BY <2>1, <2>2, NatSetInduction
<1>4. P(L)
  BY <1>0, <1>3
<1> QED
  BY <1>0, <1>4

LEMMA FilesFromIs ==
  ASSUME ArchiveOK(archive)
  PROVE  \E f : /\ Counts(f, 0)
                /\ FilesFrom(0) = IF 0 < Len(archive) THEN f[0] ELSE 0
<1> DEFINE f == CHOOSE h : Counts(h, 0)
<1>1. Counts(f, 0)
  BY CountsExists, Zenon
<1>2. FilesFrom(0) = IF 0 < Len(archive) THEN f[0] ELSE 0
  BY DEF FilesFrom, Counts, FilesAt, Behind
<1> HIDE DEF f
<1> QED
  BY <1>1, <1>2

(* From file i on there are as many as the writer has put, but those that  *)
(* were cut off.                                                           *)
LEMMA CountFrom ==
  ASSUME NEW at, LaidOK(at), NEW f, Counts(f, 0), NEW i \in 1..(Len(put) + 1),
         at[i] < Len(archive)
  PROVE  /\ f[at[i]] \in 0..(Len(put) + 1 - i)
         /\ cut \/ f[at[i]] = Len(put) + 1 - i
<1> DEFINE n == Len(put)
           L == Len(archive)
           Right(j) == /\ f[at[j]] \in 0..(n + 1 - j)
                       /\ cut \/ f[at[j]] = n + 1 - j
           P(m) == m <= n /\ at[n + 1 - m] < L => Right(n + 1 - m)
           S == {m \in Nat : P(m)}
<1>0. /\ n \in Nat /\ L \in Nat /\ ArchiveOK(archive)
      /\ at \in [1..(n + 1) -> Nat]
      /\ \A j \in 1..(n + 1) : at[j] <= at[n + 1]
  BY DEF LaidOK, PutOK, ArchiveOK, Laid, Places
<1>f. \A pos \in 0..L : f[pos] = FilesAt(f, pos)
  <2>1. f = [pos \in 0..L |-> FilesAt(f, pos)]
    BY DEF Counts
  <2> QED
    BY <2>1
<1>1. P(0)
  <2> SUFFICES ASSUME at[n + 1] < L PROVE Right(n + 1)
    BY <1>0
  <2>1. at[n + 1] \in 0..L
    BY <1>0
  <2>2. archive[at[n + 1] + 1] = Zero
    BY <1>0, <2>1 DEF LaidOK, Laid, GapsAreZero
  <2>3. f[at[n + 1]] = 0
    BY <1>f, <2>1, <2>2 DEF FilesAt
  <2> QED
    BY <1>0, <2>3
<1>2. ASSUME NEW m \in Nat, P(m), m + 1 <= n, at[n - m] < L
      PROVE  Right(n - m)
  <2> DEFINE j == n - m
  <2>1. j \in 1..n /\ j + 1 \in 1..(n + 1) /\ n + 1 - m = j + 1
    BY <1>0, <1>2
  <2>2. at[j] \in 0..L /\ at[j + 1] \in Nat
    <3>1. at[j] \in Nat /\ at[j + 1] \in Nat
      <4>1. j \in 1..(n + 1)
        BY ONLY <1>0, <2>1
      <4> QED
        BY ONLY <1>0, <2>1, <4>1
    <3>2. at[j] < L /\ L \in Nat
      BY <1>0, <1>2
    <3> QED
      BY ONLY <3>1, <3>2
  <2>3. /\ archive[at[j] + 1] # Zero /\ HeaderAt(at[j]) = Says(put[j])
    BY <1>2, <2>1, HeaderIs DEF LaidOK
  <2>4. Behind(at[j]) = PastZeros(GapAt(put, at, j))
    <3>1. put[j] \in Files
      BY <2>1 DEF LaidOK, PutOK
    <3>2. HeaderAt(at[j]).size = Len(put[j].data)
      BY <2>3, <3>1, FileFacts
    <3> QED
      BY <3>2 DEF Behind, GapAt
  <2> DEFINE q == Behind(at[j])
  <2>5. /\ q \in Nat
        /\ q < L => j < n /\ q = at[j + 1]
        /\ j < n /\ at[j + 1] < L => q = at[j + 1]
    BY <2>1, <2>4, SeekFinds DEF LaidOK
  <2>6. f[at[j]] = 1 + IF q < L THEN f[q] ELSE 0
    BY <1>f, <1>2, <2>2, <2>3 DEF FilesAt
  <2> HIDE DEF q
  <2>7. CASE q < L
    <3>1. Right(j + 1)
      BY <1>0, <1>2, <2>1, <2>5, <2>7
    <3> QED
      BY <1>0, <2>1, <2>5, <2>6, <2>7, <3>1
  <2>8. CASE ~(q < L)
    <3>1. f[at[j]] = 1
      BY <2>6, <2>8
    <3>2. ASSUME ~cut PROVE j = n
      <4>1. at[n + 1] < L
        BY <3>2 DEF LaidOK, Complete
      <4>2. at[j + 1] <= at[n + 1]
        BY <1>0, <2>1
      <4>3. at[j + 1] < L
        BY <1>0, <2>1, <4>1, <4>2, SMTT(30)
      <4> QED
        BY <2>1, <2>5, <2>8, <4>3
    <3> QED
      BY <1>0, <2>1, <3>1, <3>2
  <2> QED
    BY <2>7, <2>8
<1>3. \A m \in Nat : m \in S
  <2>1. 0 \in S
    BY <1>1
  <2>2. \A m \in Nat : m \in S => m + 1 \in S
    <3> SUFFICES ASSUME NEW m \in Nat, m \in S PROVE m + 1 \in S
      OBVIOUS
    <3>1. P(m)
      OBVIOUS
    <3>2. n + 1 - (m + 1) = n - m
      BY <1>0
    <3> HIDE DEF Right
    <3>3. P(m + 1)
      BY <1>2, <3>1, <3>2
    <3> QED
      BY <3>3
  <2> HIDE DEF S
  <2> QED
    BY <2>1, <2>2, NatSetInduction
<1>4. n + 1 - i \in Nat /\ n + 1 - i <= n /\ n + 1 - (n + 1 - i) = i
  BY <1>0
<1>5. P(n + 1 - i)
  BY <1>3, <1>4
<1> HIDE DEF Right
<1>6. Right(i)
  BY <1>4, <1>5
<1> QED
  BY <1>6 DEF Right

LEMMA FilesCounted ==
  ASSUME NEW at, LaidOK(at)
  PROVE  FilesFrom(0) \in 0..Len(put) /\ (cut \/ FilesFrom(0) = Len(put))
<1>0. /\ Len(put) \in Nat /\ Len(archive) \in Nat /\ ArchiveOK(archive) /\ at[1] = 0
      /\ at \in [1..(Len(put) + 1) -> Nat]
  BY DEF LaidOK, PutOK, ArchiveOK, Laid, Places
<1>1. PICK f : Counts(f, 0) /\ FilesFrom(0) = IF 0 < Len(archive) THEN f[0] ELSE 0
  BY <1>0, FilesFromIs
<1>2. CASE 0 < Len(archive)
  <2>1. 1 \in 1..(Len(put) + 1) /\ at[1] < Len(archive)
    BY <1>0, <1>2
  <2>2. f[0] \in 0..(Len(put) + 1 - 1) /\ (cut \/ f[0] = Len(put) + 1 - 1)
    BY <1>0, <1>1, <2>1, CountFrom
  <2> QED
    BY <1>0, <1>1, <1>2, <2>2
<1>3. CASE Len(archive) = 0
  <2>1. cut
    <3>1. at[Len(put) + 1] \in Nat
      BY <1>0
    <3> QED
      BY <1>3, <3>1 DEF LaidOK, Complete
  <2> QED
    BY <1>0, <1>1, <1>3, <2>1
<1> QED
  BY <1>0, <1>2, <1>3

(***************************************************************************)
(* The reader stays in step: its stream is at the file that follows those  *)
(* it has handled.                                                         *)
(***************************************************************************)
Between(at, s, c, ph, g) ==
  /\ c = <<>> /\ ph \in {"reading", "extract"}
  /\ \/ AtNext(at, s, Len(g)) /\ AllRead(g)
     \/ Over(s, Len(g)) /\ MostRead(g)

Opened(at, s, c, ph, g) ==
  /\ c = <<Says(put[Len(g) + 1])>> /\ ph \in {"reading", "extract"}
  /\ OpenAt(at, s, Len(g)) /\ AllRead(g)

Copying(at, s, c, ph, co, g) ==
  /\ c = <<Says(put[Len(g) + 1])>> /\ ph = "copy"
  /\ CopyAt(at, s, co, Len(g)) /\ AllRead(g)

InStep(at, s, c, ph, co, g) ==
  /\ s \in Stream /\ g \in Seq(HandledFile)
  /\ \/ Between(at, s, c, ph, g)
     \/ Opened(at, s, c, ph, g)
     \/ Copying(at, s, c, ph, co, g)

CountOK(n) == n \in -1..MaxFiles /\ (n = -1 \/ cut \/ n = Len(put))

Writing(at) ==
  /\ PutOK(put) /\ ArchiveOK(archive) /\ Laid(archive, put, at)
  /\ Len(archive) = at[Len(put) + 1] /\ cut = FALSE
  /\ inp = [pos |-> 0, eof |-> FALSE, fail |-> FALSE]
  /\ cached = <<>> /\ number_of_files = -1 /\ got = <<>>

Reading(at) ==
  LaidOK(at) /\ CountOK(number_of_files) /\ InStep(at, inp, cached, phase, copied, got)

ArchiveInv(at) ==
  \/ phase = "writing" /\ Writing(at)
  \/ phase # "writing" /\ Reading(at)

(* What a call of the reader leaves alone.                                 *)
LEMMA ReaderKeeps ==
  ASSUME NEW at, LaidOK(at), UNCHANGED <<archive, put, cut>>,
         phase' # "writing", CountOK(number_of_files'),
         InStep(at, inp', cached', phase', copied', got')
  PROVE  ArchiveInv(at)'
<1>1. LaidOK(at)'
  BY DEF LaidOK, Complete
<1>2. CountOK(number_of_files)'
  BY DEF CountOK
<1>3. InStep(at, inp, cached, phase, copied, got)'
  BY DEF InStep, Between, Opened, Copying, AtNext, Over, OpenAt, CopyAt, AllRead, MostRead,
         check_if_header_is_next, HasByte
<1> QED
  BY <1>1, <1>2, <1>3 DEF ArchiveInv, Reading

(* A reader with a header before it, in its cache or in the stream.        *)
LEMMA HeaderBefore ==
  ASSUME NEW at, LaidOK(at), InStep(at, inp, cached, phase, copied, got),
         phase # "copy", Another
  PROVE  /\ got \in Seq(HandledFile) /\ Len(got) \in Nat /\ AllRead(got)
         /\ Len(got) < Len(put) /\ put[Len(got) + 1] \in Files
         /\ NextHeader = Says(put[Len(got) + 1])
         /\ NextHeader.size = Len(put[Len(got) + 1].data)
         /\ NextHeader.name = put[Len(got) + 1].name /\ NextHeader.name \in Name
         /\ Headed \in Stream /\ OpenAt(at, Headed, Len(got))
<1> DEFINE g == Len(got)
           file == put[g + 1]
<1>1. inp \in Stream /\ got \in Seq(HandledFile) /\ g \in Nat
  BY DEF InStep
<1>2. ASSUME g < Len(put) PROVE file \in Files /\ g + 1 \in 1..Len(put)
  BY <1>1, <1>2 DEF LaidOK, PutOK
<1>3. CASE Between(at, inp, cached, phase, got)
  <2>1. AtNext(at, inp, g) /\ AllRead(got) /\ cached = <<>>
    BY <1>3 DEF Another, Between, Over
  <2>2. g + 1 \in 1..Len(put) /\ at[g + 1] < Len(archive) /\ good(inp) /\ inp.pos = at[g + 1]
    BY <1>2, <2>1 DEF AtNext
  <2>3. HeaderAt(inp.pos) = Says(file) /\ inp.pos + BlockSize <= Len(archive)
    BY <2>2, HeaderIs DEF LaidOK
  <2>4. read(inp, BlockSize) = [pos |-> inp.pos + BlockSize, eof |-> FALSE, fail |-> FALSE]
    <3>1. BlockSize \in Nat /\ ArchiveOK(archive)
      BY TarAssumption DEF LaidOK
    <3> QED
      BY <1>1, <2>2, <2>3, <3>1, ReadWhole
  <2>5. NextHeader = Says(file) /\ Headed = read(inp, BlockSize)
    BY <2>1, <2>3 DEF NextHeader, Headed
  <2>6. /\ Headed.pos = DataAt(put, at, g + 1) /\ Headed.pos <= Len(archive)
        /\ Headed.eof = FALSE /\ Headed.fail = FALSE
    BY <2>2, <2>3, <2>4, <2>5 DEF DataAt
  <2>7. Headed \in Stream
    <3>1. inp.pos + BlockSize \in Nat
      BY <1>1, TarAssumption DEF Stream
    <3> QED
      BY <2>4, <2>5, <3>1 DEF Stream
  <2>8. OpenAt(at, Headed, g) /\ g < Len(put)
    BY <2>1, <2>6 DEF OpenAt, AtNext
  <2>9. file \in Files
    BY <1>2, <2>8
  <2> QED
    BY <1>1, <2>1, <2>5, <2>7, <2>8, <2>9, FileFacts DEF Saying
<1>4. CASE Opened(at, inp, cached, phase, got)
  <2>1. /\ cached # <<>> /\ cached[1] = Says(file)
        /\ OpenAt(at, inp, g) /\ AllRead(got) /\ g < Len(put)
    BY <1>4 DEF Opened, OpenAt
  <2>2. NextHeader = Says(file) /\ Headed = inp
    BY <2>1 DEF NextHeader, Headed
  <2> QED
    BY <1>1, <1>2, <2>1, <2>2, FileFacts DEF Saying
<1> QED
  BY <1>3, <1>4 DEF InStep, Copying

(* Handling a file.                                                        *)
LEMMA FileHandled ==
  ASSUME NEW at, LaidOK(at), NEW g \in Seq(HandledFile), AllRead(g), Len(g) < Len(put),
         NEW data \in Seq(ArchiveCell), NEW skipped \in BOOLEAN, NEW ph \in {"reading", "extract"},
         NEW t \in Stream, NEW co,
         LET file == put[Len(g) + 1]
         IN  \/ /\ skipped \/ data = file.data
                /\ AtNext(at, t, Len(g) + 1) \/ Over(t, Len(g) + 1)
             \/ cut /\ IsPrefix(data, file.data) /\ Over(t, Len(g) + 1)
  PROVE  InStep(at, t, <<>>, ph, co,
                Append(g, [name |-> put[Len(g) + 1].name, data |-> data, skipped |-> skipped]))
<1> DEFINE file == put[Len(g) + 1]
           x == [name |-> file.name, data |-> data, skipped |-> skipped]
           h == Append(g, x)
<1>1. PutOK(put) /\ file.name \in Name
  <2>1. file \in Files
    BY DEF LaidOK, PutOK
  <2> QED
    BY <2>1, FileFacts DEF Saying, LaidOK
<1>2. x \in HandledFile /\ x.name = file.name /\ x.data = data /\ x.skipped = skipped
  BY <1>1 DEF HandledFile
<1> HIDE DEF x
<1>3. /\ h \in Seq(HandledFile) /\ Len(h) = Len(g) + 1
      /\ As(x, file) => AllRead(h)
      /\ As(x, file) \/ (cut /\ PartOf(x, file)) => MostRead(h)
  BY <1>1, <1>2, ReadMore
<1> HIDE DEF h, file
<1>4. CASE /\ skipped \/ data = file.data
           /\ AtNext(at, t, Len(g) + 1) \/ Over(t, Len(g) + 1)
  <2>1. As(x, file)
    BY <1>2, <1>4 DEF As
  <2>2. InStep(at, t, <<>>, ph, co, h)
    BY <1>3, <1>4, <2>1 DEF InStep, Between
  <2> QED
    BY <2>2 DEF h, x, file
<1>5. CASE cut /\ IsPrefix(data, file.data) /\ Over(t, Len(g) + 1)
  <2>1. PartOf(x, file)
    BY <1>2, <1>5 DEF PartOf
  <2>2. InStep(at, t, <<>>, ph, co, h)
    BY <1>3, <1>5, <2>1 DEF InStep, Between
  <2> QED
    BY <2>2 DEF h, x, file
<1> QED
  BY <1>4, <1>5 DEF file

LEMMA FileRead ==
  ASSUME NEW at, ArchiveInv(at), read_next_file
  PROVE  ArchiveInv(at)'
<1> DEFINE g == Len(got)
           file == put[g + 1]
           data == BytesRead(Headed, NextHeader.size)
           t == seek_to_next_header(read(Headed, NextHeader.size))
<1>1. phase = "reading" /\ LaidOK(at) /\ CountOK(number_of_files)
      /\ InStep(at, inp, cached, phase, copied, got)
  BY DEF ArchiveInv, Reading, read_next_file
<1>2. /\ got \in Seq(HandledFile) /\ g \in Nat /\ AllRead(got) /\ g < Len(put)
      /\ NextHeader.size = Len(file.data) /\ NextHeader.name = file.name
      /\ Headed \in Stream /\ OpenAt(at, Headed, g)
  BY <1>1, HeaderBefore DEF read_next_file
<1>3. /\ t \in Stream /\ data \in Seq(ArchiveCell)
      /\ \/ data = file.data /\ (AtNext(at, t, g + 1) \/ Over(t, g + 1))
         \/ cut /\ IsPrefix(data, file.data) /\ Over(t, g + 1)
  BY <1>1, <1>2, DataRead
<1> HIDE DEF t, data
<1>4. InStep(at, t, <<>>, "reading", copied,
             Append(got, [name |-> file.name, data |-> data, skipped |-> FALSE]))
  BY <1>1, <1>2, <1>3, FileHandled
<1>5. /\ inp' = t /\ cached' = <<>>
      /\ got' = Append(got, [name |-> file.name, data |-> data, skipped |-> FALSE])
      /\ UNCHANGED <<archive, number_of_files, phase, copied, put, cut>>
  BY <1>2 DEF read_next_file, Handled, t, data
<1>6. InStep(at, inp', cached', phase', copied', got')
  BY <1>1, <1>4, <1>5
<1> QED
  BY <1>1, <1>5, <1>6, ReaderKeeps

LEMMA FileSkipped ==
  ASSUME NEW at, ArchiveInv(at), phase \in {"reading", "extract"}, Another, SkipNext
  PROVE  ArchiveInv(at)'
<1> DEFINE g == Len(got)
           file == put[g + 1]
           t == seek_to_next_header(seekg(Headed, Headed.pos + NextHeader.size))
<1>1. LaidOK(at) /\ CountOK(number_of_files) /\ phase # "writing" /\ phase # "copy"
      /\ InStep(at, inp, cached, phase, copied, got)
  BY DEF ArchiveInv, Reading
<1>2. /\ got \in Seq(HandledFile) /\ g \in Nat /\ AllRead(got) /\ g < Len(put)
      /\ NextHeader.size = Len(file.data) /\ NextHeader.name = file.name
      /\ Headed \in Stream /\ OpenAt(at, Headed, g)
  BY <1>1, HeaderBefore
<1>3. t \in Stream /\ (AtNext(at, t, g + 1) \/ Over(t, g + 1))
  BY <1>1, <1>2, DataSkipped
<1> HIDE DEF t
<1>4. InStep(at, t, <<>>, phase, copied,
             Append(got, [name |-> file.name, data |-> <<>>, skipped |-> TRUE]))
  <2>1. <<>> \in Seq(ArchiveCell)
    OBVIOUS
  <2> QED
    BY <1>1, <1>2, <1>3, <2>1, FileHandled
<1>5. /\ inp' = t /\ cached' = <<>>
      /\ got' = Append(got, [name |-> file.name, data |-> <<>>, skipped |-> TRUE])
      /\ UNCHANGED <<archive, number_of_files, phase, copied, put, cut>>
  BY <1>2 DEF SkipNext, Handled, t
<1>6. InStep(at, inp', cached', phase', copied', got')
  BY <1>4, <1>5
<1> QED
  BY <1>1, <1>5, <1>6, ReaderKeeps

(* A header is put into the cache: by a question for the next file, or to  *)
(* copy its data.                                                          *)
LEMMA HeaderRead ==
  ASSUME NEW at, LaidOK(at), InStep(at, inp, cached, phase, copied, got),
         phase # "copy", Another
  PROVE  /\ InStep(at, Headed, <<NextHeader>>, "reading", copied, got)
         /\ good(Headed) => InStep(at, Headed, <<NextHeader>>, "copy", <<>>, got)
<1>1. /\ got \in Seq(HandledFile) /\ AllRead(got) /\ NextHeader = Says(put[Len(got) + 1])
      /\ Headed \in Stream /\ OpenAt(at, Headed, Len(got)) /\ put[Len(got) + 1] \in Files
  BY HeaderBefore
<1>2. InStep(at, Headed, <<NextHeader>>, "reading", copied, got)
  BY <1>1 DEF InStep, Opened
<1>3. ASSUME good(Headed)
      PROVE  InStep(at, Headed, <<NextHeader>>, "copy", <<>>, got)
  <2>1. CopyAt(at, Headed, <<>>, Len(got))
    <3>1. Len(put[Len(got) + 1].data) \in Nat
      BY <1>1, FileFacts
    <3>2. Headed.pos + 0 = Headed.pos
      BY <1>1 DEF Stream
    <3>3. Len(<<>>) = 0 /\ <<>> \in Seq(ArchiveCell)
      OBVIOUS
    <3>4. DataAt(put, at, Len(got) + 1) + 0 = DataAt(put, at, Len(got) + 1)
      BY <1>1, <3>2 DEF OpenAt
    <3> QED
      BY <1>1, <1>3, <3>1, <3>3, <3>4 DEF CopyAt, OpenAt
  <2> QED
    BY <1>1, <2>1 DEF InStep, Copying
<1> QED
  BY <1>2, <1>3

LEMMA Looked ==
  ASSUME NEW at, ArchiveInv(at), phase \in {"reading", "extract"}, NEW ph \in {"reading", "extract"},
         inp' = (IF inp.eof THEN inp ELSE peek(inp)),
         phase' = ph, UNCHANGED <<archive, cached, number_of_files, copied, put, got, cut>>
  PROVE  ArchiveInv(at)'
<1>1. LaidOK(at) /\ CountOK(number_of_files) /\ ArchiveOK(archive)
      /\ InStep(at, inp, cached, phase, copied, got) /\ phase # "copy" /\ inp \in Stream
  BY DEF ArchiveInv, Reading, LaidOK, InStep
<1>2. inp' \in Stream
  BY <1>1, PeekFacts
<1>3. CASE Between(at, inp, cached, phase, got)
  <2>1. AtNext(at, inp, Len(got)) => inp' = inp
    BY <1>1, PeekFacts DEF AtNext
  <2>2. Over(inp, Len(got)) => Over(inp', Len(got))
    BY <1>1, OverStays
  <2>3. Between(at, inp', cached, ph, got)
    BY <1>3, <2>1, <2>2 DEF Between
  <2> QED
    BY <1>1, <1>2, <2>3, ReaderKeeps DEF InStep
<1>4. CASE Opened(at, inp, cached, phase, got)
  <2>1. OpenAt(at, inp', Len(got))
    <3>1. CASE inp' = inp
      BY <1>4, <3>1 DEF Opened
    <3>2. CASE inp' # inp
      <4>1. good(inp) /\ inp' = peek(inp)
        BY <1>4, <3>2 DEF Opened, OpenAt, good
      <4>2. ~(inp.pos < Len(archive)) /\ inp'.pos = inp.pos /\ ~inp'.fail
        BY <1>1, <3>2, <4>1, PeekFacts
      <4>3. inp.pos = Len(archive) /\ inp.pos \in Nat /\ Len(archive) \in Nat
        BY <1>1, <1>4, <4>2 DEF Opened, OpenAt, ArchiveOK, Stream
      <4>4. cut
        <5>1. ASSUME ~cut PROVE FALSE
          <6>1. /\ Len(archive) > at[Len(put) + 1]
                /\ Len(got) + 1 \in 1..Len(put)
            BY <1>1, <1>4, <5>1 DEF Opened, OpenAt, LaidOK, Complete, PutOK, InStep
          <6> DEFINE k == Len(got) + 1
          <6>2. /\ at \in [1..(Len(put) + 1) -> Nat]
                /\ at[k + 1] = GapAt(put, at, k) + Gap(put[k])
                /\ at[k + 1] <= at[Len(put) + 1]
                /\ Len(put) + 1 \in 1..(Len(put) + 1) /\ k + 1 \in 1..(Len(put) + 1)
            BY <1>1, <6>1 DEF LaidOK, Laid, Places, PutOK
          <6>3. /\ put[k] \in Files /\ Len(put[k].data) \in Nat
                /\ GapAt(put, at, k) = DataAt(put, at, k) + Len(put[k].data)
                /\ DataAt(put, at, k) \in Nat
            BY <1>1, <6>1, DataIs
          <6>4. Gap(put[k]) \in Nat
            BY <6>3, FileFacts
          <6>5. at[k + 1] \in Nat /\ at[Len(put) + 1] \in Nat
            BY <6>2
          <6>6. DataAt(put, at, k) = Len(archive)
            BY <1>4, <4>3 DEF Opened, OpenAt
          <6> HIDE DEF k
          <6> QED
            BY <4>3, <6>1, <6>2, <6>3, <6>4, <6>5, <6>6, SMTT(30)
        <5> QED
          BY <5>1
      <4> QED
        BY <1>4, <4>2, <4>3, <4>4 DEF Opened, OpenAt
    <3> QED
      BY <3>1, <3>2
  <2>2. Opened(at, inp', cached, ph, got)
    BY <1>4, <2>1 DEF Opened
  <2> QED
    BY <1>1, <1>2, <2>2, ReaderKeeps DEF InStep
<1> QED
  BY <1>1, <1>3, <1>4 DEF InStep, Copying

LEMMA ReaderSteps ==
  ASSUME NEW at, ArchiveInv(at), CountWhen \subseteq {"between"},
         \/ contains_another_file \/ get_next_file \/ read_next_file \/ skip_next_file
         \/ NumberOfFiles \/ ExtractAll \/ ExtractOpen \/ ExtractSkip \/ ExtractDone
  PROVE  ArchiveInv(at)'
<1>1. CASE contains_another_file
  BY <1>1, Looked DEF contains_another_file
<1>2. CASE ExtractDone
  BY <1>2, Looked DEF ExtractDone
<1>3. CASE read_next_file
  BY <1>3, FileRead
<1>4. CASE skip_next_file
  BY <1>4, FileSkipped DEF skip_next_file
<1>5. CASE ExtractSkip
  BY <1>5, FileSkipped DEF ExtractSkip, Another
<1>6. CASE get_next_file
  <2>1. phase = "reading" /\ LaidOK(at) /\ CountOK(number_of_files)
        /\ InStep(at, inp, cached, phase, copied, got) /\ Another
    BY <1>6 DEF ArchiveInv, Reading, get_next_file
  <2>2. InStep(at, Headed, <<NextHeader>>, "reading", copied, got)
    BY <2>1, HeaderRead
  <2>3. /\ inp' = Headed /\ cached' = <<NextHeader>>
        /\ UNCHANGED <<archive, number_of_files, phase, copied, put, got, cut>>
    BY <1>6 DEF get_next_file
  <2>4. InStep(at, inp', cached', phase', copied', got')
    BY <2>1, <2>2, <2>3
  <2> QED
    BY <2>1, <2>3, <2>4, ReaderKeeps
<1>7. CASE ExtractOpen
  <2>1. phase = "extract" /\ LaidOK(at) /\ CountOK(number_of_files)
        /\ InStep(at, inp, cached, phase, copied, got) /\ Another /\ good(inp)
    BY <1>7 DEF ArchiveInv, Reading, ExtractOpen, Another, check_if_header_is_next, HasByte
  <2>2. good(Headed)
    <3>1. CASE cached # <<>>
      BY <2>1, <3>1 DEF Headed
    <3>2. CASE cached = <<>>
      <4>1. AtNext(at, inp, Len(got)) /\ Len(got) \in Nat /\ inp \in Stream
        BY <1>7, <2>1, <3>2 DEF InStep, Between, Opened, Copying, Over, ExtractOpen
      <4>2. Len(got) + 1 \in 1..Len(put)
        BY <2>1, <4>1 DEF AtNext, LaidOK, PutOK
      <4>3. inp.pos + BlockSize <= Len(archive)
        BY <2>1, <4>1, <4>2, HeaderIs DEF AtNext, LaidOK
      <4>4. BlockSize \in Nat /\ ArchiveOK(archive)
        BY <2>1, TarAssumption DEF LaidOK
      <4>5. read(inp, BlockSize) = [pos |-> inp.pos + BlockSize, eof |-> FALSE, fail |-> FALSE]
        BY <2>1, <4>1, <4>3, <4>4, ReadWhole
      <4> QED
        BY <3>2, <4>5 DEF Headed, good
    <3> QED
      BY <3>1, <3>2
  <2>3. InStep(at, Headed, <<NextHeader>>, "copy", <<>>, got)
    BY <2>1, <2>2, HeaderRead
  <2>4. /\ inp' = Headed /\ cached' = <<NextHeader>> /\ phase' = "copy" /\ copied' = <<>>
        /\ UNCHANGED <<archive, number_of_files, put, got, cut>>
    BY <1>7 DEF ExtractOpen
  <2>5. InStep(at, inp', cached', phase', copied', got')
    BY <2>3, <2>4
  <2> QED
    BY <2>1, <2>4, <2>5, ReaderKeeps
<1>8. CASE ExtractAll
  <2>1. phase = "reading" /\ LaidOK(at) /\ CountOK(number_of_files)
        /\ InStep(at, inp, cached, phase, copied, got)
    BY <1>8 DEF ArchiveInv, Reading, ExtractAll
  <2>2. /\ phase' = "extract"
        /\ UNCHANGED <<archive, inp, cached, number_of_files, copied, put, got, cut>>
    BY <1>8 DEF ExtractAll
  <2>3. InStep(at, inp, cached, "extract", copied, got)
    BY <2>1 DEF InStep, Between, Opened, Copying
  <2>4. InStep(at, inp', cached', phase', copied', got')
    BY <2>2, <2>3
  <2> QED
    BY <2>1, <2>2, <2>4, ReaderKeeps
<1>9. CASE NumberOfFiles
  <2>1. phase = "reading" /\ LaidOK(at) /\ InStep(at, inp, cached, phase, copied, got)
    BY <1>9 DEF ArchiveInv, Reading, NumberOfFiles
  <2>2. cached = <<>> /\ good(inp)
    <3>1. Situation = "between"
      BY <1>9 DEF NumberOfFiles
    <3>2. CASE cached # <<>>
      BY <3>1, <3>2 DEF Situation
    <3>3. CASE cached = <<>> /\ ~good(inp)
      BY <3>1, <3>3 DEF Situation
    <3> QED
      BY <3>2, <3>3
  <2>3. number_of_files' = FilesFrom(0)
    BY <1>9, <2>2 DEF NumberOfFiles, CountFiles
  <2>4. CountOK(number_of_files')
    <3>1. Len(put) \in Nat /\ Len(put) <= MaxFiles /\ MaxFiles \in Nat
      BY <2>1, TarAssumption DEF LaidOK, PutOK
    <3>2. FilesFrom(0) \in 0..Len(put) /\ (cut \/ FilesFrom(0) = Len(put))
      BY <2>1, FilesCounted
    <3> QED
      BY <2>3, <3>1, <3>2 DEF CountOK
  <2>5. inp' = inp
    <3>1. inp \in Stream /\ inp.eof = FALSE /\ inp.fail = FALSE /\ (~good(inp)) = FALSE
      BY <2>1, <2>2 DEF InStep, Stream, good
    <3>2. inp' = [inp EXCEPT !.eof = FALSE, !.fail = FALSE]
      BY <1>9, <3>1 DEF NumberOfFiles
    <3> QED
      BY <3>1, <3>2 DEF Stream
  <2>6. cached' = <<>> /\ UNCHANGED <<archive, phase, copied, put, got, cut>>
    BY <1>9 DEF NumberOfFiles
  <2>7. InStep(at, inp', cached', phase', copied', got')
    BY <2>1, <2>2, <2>5, <2>6
  <2> QED
    BY <2>1, <2>4, <2>6, <2>7, ReaderKeeps
<1> QED
  BY <1>1, <1>2, <1>3, <1>4, <1>5, <1>6, <1>7, <1>8, <1>9

LEMMA FileCopied ==
  ASSUME NEW at, ArchiveInv(at), ExtractCopy \/ ExtractClose
  PROVE  ArchiveInv(at)'
<1> DEFINE g == Len(got)
           file == put[g + 1]
<1>1. /\ phase = "copy" /\ LaidOK(at) /\ CountOK(number_of_files)
      /\ Copying(at, inp, cached, phase, copied, got)
      /\ inp \in Stream /\ got \in Seq(HandledFile) /\ g \in Nat
  <2>1. phase = "copy"
    BY DEF ExtractCopy, ExtractClose
  <2>2. LaidOK(at) /\ CountOK(number_of_files) /\ InStep(at, inp, cached, phase, copied, got)
    BY <2>1 DEF ArchiveInv, Reading
  <2>3. inp \in Stream /\ got \in Seq(HandledFile) /\ g \in Nat
    BY <2>2 DEF InStep
  <2>4. Copying(at, inp, cached, phase, copied, got)
    BY <2>1, <2>2 DEF InStep, Between, Opened
  <2> QED
    BY <2>1, <2>2, <2>3, <2>4
<1>2. /\ cached = <<Says(file)>> /\ CopyAt(at, inp, copied, g) /\ AllRead(got) /\ g < Len(put)
      /\ copied \in Seq(ArchiveCell) /\ Len(copied) \in Nat /\ Len(copied) <= Len(file.data)
      /\ \A j \in 1..Len(copied) : copied[j] = file.data[j]
  BY <1>1 DEF Copying, CopyAt
<1>3. g + 1 \in 1..Len(put) /\ file \in Files
  BY <1>1, <1>2 DEF LaidOK, PutOK
<1>4. /\ cached[1].size = Len(file.data) /\ Len(file.data) \in Nat
      /\ cached[1].name = file.name /\ cached # <<>> /\ file.data \in Seq(ArchiveCell)
  BY <1>1, <1>2, <1>3, FileFacts, DataIs
<1> HIDE DEF file, g
<1>5. CASE ExtractCopy
  <2> DEFINE left == Len(file.data) - Len(copied)
             n == Min({left, Scratch})
  <2>1. n \in Nat \ {0} /\ Len(copied) + n <= Len(file.data)
    <3>1. left \in Nat \ {0} /\ Scratch \in Nat \ {0}
      BY <1>2, <1>4, <1>5, TarAssumption DEF ExtractCopy
    <3> HIDE DEF left
    <3>2. n \in {left, Scratch} /\ n <= left
      <4>1. \E x \in {left, Scratch} : \A y \in {left, Scratch} : x <= y
        BY <3>1
      <4> QED
        BY <4>1 DEF Min
    <3>3. n <= Len(file.data) - Len(copied)
      BY <3>2 DEF left
    <3> HIDE DEF n
    <3> QED
      BY <1>2, <1>4, <3>1, <3>2, <3>3
  <2>2. /\ copied' = copied \o BytesRead(inp, n) /\ inp' = read(inp, n)
        /\ UNCHANGED <<archive, cached, number_of_files, phase, put, got, cut>>
    BY <1>4, <1>5 DEF ExtractCopy
  <2> HIDE DEF n
  <2>3. inp' \in Stream /\ CopyAt(at, inp', copied', g)
    BY <1>1, <1>2, <2>1, <2>2, DataCopied DEF file
  <2>4. InStep(at, inp', cached', phase', copied', got')
    BY <1>1, <1>2, <2>2, <2>3 DEF InStep, Copying, file, g
  <2> QED
    BY <1>1, <2>2, <2>4, ReaderKeeps
<1>6. CASE ExtractClose
  <2> DEFINE t == seek_to_next_header(inp)
  <2>1. Len(copied) = Len(file.data)
    BY <1>2, <1>4, <1>6 DEF ExtractClose
  <2>2. copied = file.data
    BY <1>2, <1>4, <2>1, SameSequence
  <2>3. good(inp) /\ inp.pos = GapAt(put, at, g + 1)
    <3>1. good(inp)
      BY <1>2, <2>1 DEF CopyAt, file
    <3>2. inp.pos = DataAt(put, at, g + 1) + Len(file.data)
      BY <1>2, <2>1, <3>1 DEF CopyAt, file
    <3> QED
      BY <1>1, <1>3, <3>1, <3>2, DataIs DEF file
  <2>4. t \in Stream /\ (AtNext(at, t, g + 1) \/ Over(t, g + 1))
    BY <1>1, <1>3, <2>3, SeekToNext
  <2> HIDE DEF t
  <2>5. InStep(at, t, <<>>, "extract", <<>>,
               Append(got, [name |-> file.name, data |-> copied, skipped |-> FALSE]))
    BY <1>1, <1>2, <2>2, <2>4, FileHandled DEF file, g
  <2>6. /\ inp' = t /\ cached' = <<>> /\ phase' = "extract" /\ copied' = <<>>
        /\ got' = Append(got, [name |-> file.name, data |-> copied, skipped |-> FALSE])
        /\ UNCHANGED <<archive, number_of_files, put, cut>>
    BY <1>4, <1>6 DEF ExtractClose, Handled, NextHeader, t
  <2>7. InStep(at, inp', cached', phase', copied', got')
    BY <2>5, <2>6
  <2> QED
    BY <1>1, <2>6, <2>7, ReaderKeeps
<1> QED
  BY <1>5, <1>6

LEMMA ModSum ==
  ASSUME NEW m \in Nat, NEW k \in Nat, NEW n \in Nat \ {0}, m % n = 0, k % n = 0
  PROVE  (m + k) % n = 0
<1>1. /\ m \div n \in Nat /\ m = (m \div n) * n
      /\ k \div n \in Nat /\ k = (k \div n) * n
  BY WholeQuotient
<1>2. PICK p \in Nat, q \in Nat : m = p * n /\ k = q * n
  BY <1>1
<1>3. m + k = (p + q) * n /\ p + q \in Nat
  BY <1>2
<1> QED
  BY <1>3, ModIsProduct

(* The places of the files before the archive's end.                       *)
LEMMA OldPlaces ==
  ASSUME NEW p, PutOK(p), NEW at, Places(p, at), NEW i \in 1..Len(p)
  PROVE  /\ at[i] \in Nat /\ at[i + 1] \in Nat /\ at[Len(p) + 1] \in Nat
         /\ p[i] \in Files /\ Len(p[i].data) \in Nat
         /\ DataAt(p, at, i) = at[i] + BlockSize /\ DataAt(p, at, i) \in Nat
         /\ GapAt(p, at, i) = DataAt(p, at, i) + Len(p[i].data)
         /\ GapAt(p, at, i) \in Nat
         /\ GapAt(p, at, i) <= at[i + 1] /\ at[i + 1] <= at[Len(p) + 1]
<1>0. Len(p) \in Nat /\ p[i] \in Files
  BY DEF PutOK
<1>1. /\ at \in [1..(Len(p) + 1) -> Nat] /\ at[i + 1] = GapAt(p, at, i) + Gap(p[i])
      /\ at[i + 1] <= at[Len(p) + 1]
      /\ i \in 1..(Len(p) + 1) /\ i + 1 \in 1..(Len(p) + 1) /\ Len(p) + 1 \in 1..(Len(p) + 1)
  BY <1>0 DEF Places
<1>2. Len(p[i].data) \in Nat /\ Gap(p[i]) \in Nat
  BY <1>0, FileFacts
<1>3. /\ at[i] \in Nat /\ at[i + 1] \in Nat /\ at[Len(p) + 1] \in Nat
      /\ BlockSize \in Nat
  BY <1>1, TarAssumption
<1>4. /\ DataAt(p, at, i) = at[i] + BlockSize /\ DataAt(p, at, i) \in Nat
      /\ GapAt(p, at, i) = DataAt(p, at, i) + Len(p[i].data)
  BY <1>2, <1>3 DEF DataAt, GapAt
<1>5. GapAt(p, at, i) \in Nat
  BY <1>2, <1>4
<1>6. GapAt(p, at, i) <= at[i + 1]
  BY <1>1, <1>2, <1>5
<1> QED
  BY <1>0, <1>1, <1>2, <1>3, <1>4, <1>5, <1>6

(* What is appended to a whole archive moves nothing.                      *)
Extends(b, a) == Len(a) <= Len(b) /\ \A q \in 1..Len(a) : b[q] = a[q]

OldLaid(b, p, at) ==
  /\ Places(p, at) /\ HeadersLie(b, p, at) /\ DataLies(b, p, at)
  /\ \A i \in 1..Len(p) : \A q \in Nat :
       GapAt(p, at, i) < q /\ q <= at[i + 1] /\ q <= Len(b) => b[q] = Zero

LEMMA LongerIsLaid ==
  ASSUME NEW p, PutOK(p), NEW at, NEW a, ArchiveOK(a), Laid(a, p, at),
         Len(a) = at[Len(p) + 1], NEW b, ArchiveOK(b), Extends(b, a)
  PROVE  OldLaid(b, p, at)
<1>0. Places(p, at) /\ Len(a) \in Nat /\ Len(b) \in Nat /\ BlockSize \in Nat \ {0}
  BY TarAssumption DEF Laid, ArchiveOK
<1>0a. Len(a) <= Len(b) /\ \A q \in 1..Len(a) : b[q] = a[q]
  BY DEF Extends
<1>1. ASSUME NEW i \in 1..Len(p)
      PROVE  /\ at[i] \in Nat /\ at[i + 1] \in Nat /\ Len(p[i].data) \in Nat
             /\ DataAt(p, at, i) = at[i] + BlockSize
             /\ GapAt(p, at, i) = DataAt(p, at, i) + Len(p[i].data)
             /\ GapAt(p, at, i) \in Nat /\ GapAt(p, at, i) <= Len(a) /\ at[i + 1] <= Len(a)
  <2>1. /\ at[i] \in Nat /\ at[i + 1] \in Nat /\ Len(p[i].data) \in Nat
        /\ DataAt(p, at, i) = at[i] + BlockSize
        /\ GapAt(p, at, i) = DataAt(p, at, i) + Len(p[i].data)
        /\ GapAt(p, at, i) \in Nat
        /\ GapAt(p, at, i) <= at[i + 1] /\ at[i + 1] <= Len(a)
    BY <1>0, OldPlaces
  <2> QED
    BY <1>0, <2>1
<1>2. ASSUME NEW i \in 1..Len(p)
      PROVE  /\ at[i] < Len(b) => at[i] + BlockSize <= Len(b)
             /\ \A j \in 1..BlockSize : at[i] + j <= Len(b) => b[at[i] + j] = HeaderCell(p[i], j)
  <2>0. /\ at[i] \in Nat /\ Len(p[i].data) \in Nat
        /\ at[i] + BlockSize + Len(p[i].data) <= Len(a)
    BY <1>1
  <2>1. at[i] + BlockSize <= Len(a) /\ at[i] + BlockSize <= Len(b)
    BY <1>0, <1>0a, <2>0
  <2>2. ASSUME NEW j \in 1..BlockSize PROVE b[at[i] + j] = HeaderCell(p[i], j)
    <3>1. at[i] + j \in 1..Len(a)
      BY <1>0, <1>1, <2>1, SMTT(30)
    <3>2. a[at[i] + j] = HeaderCell(p[i], j)
      BY <3>1 DEF Laid, HeadersLie
    <3> QED
      BY <1>0a, <3>1, <3>2
  <2> QED
    BY <1>0, <1>1, <2>1, <2>2
<1>3. ASSUME NEW i \in 1..Len(p), NEW j \in 1..Len(p[i].data)
      PROVE  b[DataAt(p, at, i) + j] = p[i].data[j]
  <2>0. /\ at[i] \in Nat /\ Len(p[i].data) \in Nat
        /\ DataAt(p, at, i) = at[i] + BlockSize
        /\ DataAt(p, at, i) + Len(p[i].data) <= Len(a)
    BY <1>1
  <2>1. DataAt(p, at, i) + j \in 1..Len(a)
    <3>1. PICK d, n, e : d = DataAt(p, at, i) /\ n = Len(p[i].data) /\ e = Len(a)
      OBVIOUS
    <3>2. d \in Nat /\ n \in Nat /\ e \in Nat /\ d + n <= e /\ j \in 1..n
      BY <1>0, <2>0, <3>1
    <3>3. d + j \in 1..e
      BY ONLY <3>2
    <3> QED
      BY ONLY <3>1, <3>3
  <2>2. a[DataAt(p, at, i) + j] = p[i].data[j]
    BY <2>1 DEF Laid, DataLies
  <2> QED
    BY <1>0a, <2>1, <2>2
<1>4. ASSUME NEW i \in 1..Len(p), NEW q \in Nat, GapAt(p, at, i) < q, q <= at[i + 1]
      PROVE  b[q] = Zero
  <2>1. q \in 1..Len(a)
    BY <1>0, <1>1, <1>4
  <2>2. a[q] = Zero
    BY <1>4, <2>1 DEF Laid, GapsAreZero
  <2> QED
    BY <1>0a, <2>1, <2>2
<1>5. HeadersLie(b, p, at)
  BY <1>2 DEF HeadersLie
<1>6. DataLies(b, p, at)
  BY <1>3 DEF DataLies
<1> QED
  BY <1>0, <1>4, <1>5, <1>6 DEF OldLaid

LEMMA JoinTwo ==
  ASSUME NEW Elem, NEW s \in Seq(Elem), NEW t \in Seq(Elem), NEW b, b = s \o t
  PROVE  /\ b \in Seq(Elem) /\ Len(b) = Len(s) + Len(t)
         /\ \A q \in 1..Len(s) : b[q] = s[q]
         /\ \A j \in 1..Len(t) : b[Len(s) + j] = t[j]
BY ConcatParts

LEMMA JoinThree ==
  ASSUME NEW Elem, NEW s \in Seq(Elem), NEW t \in Seq(Elem), NEW u \in Seq(Elem),
         NEW b, b = s \o t \o u
  PROVE  /\ b \in Seq(Elem) /\ Len(b) = Len(s) + Len(t) + Len(u)
         /\ \A q \in 1..Len(s) : b[q] = s[q]
         /\ \A j \in 1..Len(t) : b[Len(s) + j] = t[j]
         /\ \A j \in 1..Len(u) : b[Len(s) + Len(t) + j] = u[j]
<1>1. PICK one : one = s \o t
  OBVIOUS
<1>2. /\ one \in Seq(Elem) /\ Len(one) = Len(s) + Len(t)
      /\ Len(s) \in Nat /\ Len(t) \in Nat
      /\ \A q \in 1..Len(s) : one[q] = s[q]
      /\ \A q \in 1..Len(t) : one[Len(s) + q] = t[q]
  BY <1>1, ConcatParts
<1>3. b = one \o u
  BY <1>1
<1>4. /\ b \in Seq(Elem) /\ Len(b) = Len(one) + Len(u) /\ Len(u) \in Nat
      /\ \A q \in 1..Len(one) : b[q] = one[q]
      /\ \A q \in 1..Len(u) : b[Len(one) + q] = u[q]
  <2>1. one \in Seq(Elem)
    BY <1>2
  <2> QED
    BY <1>3, <2>1, ConcatParts
<1>5. ASSUME NEW q \in 1..Len(s) PROVE b[q] = s[q]
  <2>1. q \in 1..Len(one)
    BY <1>2
  <2> QED
    BY <1>2, <1>4, <2>1
<1>6. ASSUME NEW j \in 1..Len(t) PROVE b[Len(s) + j] = t[j]
  <2>1. Len(s) + j \in 1..Len(one)
    BY <1>2
  <2> QED
    BY <1>2, <1>4, <2>1
<1> QED
  BY <1>2, <1>4, <1>5, <1>6

(* A file's blocks behind an archive.                                      *)
LEMMA BlocksAre ==
  ASSUME NEW file \in Files, NEW a \in Seq(ArchiveCell)
  PROVE  LET b == a \o Header(file) \o file.data \o fill(Len(file.data))
             d == Len(a) + BlockSize
             e == d + Len(file.data)
         IN  /\ b \in Seq(ArchiveCell) /\ Len(b) = e + Gap(file)
             /\ \A q \in 1..Len(a) : b[q] = a[q]
             /\ \A j \in 1..BlockSize : b[Len(a) + j] = HeaderCell(file, j)
             /\ \A j \in 1..Len(file.data) : b[d + j] = file.data[j]
             /\ \A j \in 1..Gap(file) : b[e + j] = Zero
<1> DEFINE h == Header(file)
           x == file.data
           z == fill(Len(x))
           n == Len(x)
           k == Gap(file)
           two == a \o h \o x
           b == two \o z
<1>0. /\ n \in Nat /\ k \in Nat /\ BlockSize \in Nat \ {0} /\ Len(a) \in Nat
      /\ x \in Seq(ArchiveCell)
  <2>1. x \in Seq(Byte)
    BY FileFacts
  <2>2. x \in Seq(ArchiveCell)
    BY <2>1 DEF ArchiveCell
  <2>3. n \in Nat
    BY <2>1
  <2> QED
    BY <2>2, <2>3, FileFacts, TarAssumption
<1>1. h \in Seq(ArchiveCell) /\ Len(h) = BlockSize /\ \A j \in 1..BlockSize : h[j] = HeaderCell(file, j)
  <2>1. h = [i \in 1..BlockSize |-> HeaderCell(file, i)] /\ Says(file) \in Saying
    BY FileFacts
  <2>2. \A i \in 1..BlockSize : HeaderCell(file, i) \in ArchiveCell
    BY <1>0, <2>1 DEF HeaderCell, ArchiveCell
  <2>3. h \in [1..BlockSize -> ArchiveCell]
    BY <2>1, <2>2
  <2> HIDE DEF h
  <2> QED
    BY <1>0, <2>1, <2>3
<1>2. z \in Seq(ArchiveCell) /\ Len(z) = k /\ \A j \in 1..k : z[j] = Zero
  <2>1. z = [i \in 1..k |-> Zero]
    BY DEF fill, Gap
  <2>2. Zero \in ArchiveCell
    BY TarAssumption DEF ArchiveCell
  <2>3. z \in [1..k -> ArchiveCell]
    BY <2>1, <2>2
  <2> HIDE DEF z, k
  <2> QED
    BY <1>0, <2>1, <2>3
<1> HIDE DEF h, x, z, k
<1>3. /\ two \in Seq(ArchiveCell) /\ Len(two) = Len(a) + BlockSize + n
      /\ \A q \in 1..Len(a) : two[q] = a[q]
      /\ \A j \in 1..BlockSize : two[Len(a) + j] = h[j]
      /\ \A j \in 1..n : two[Len(a) + BlockSize + j] = x[j]
  <2>0. PICK f, y, w : f = h /\ y = x /\ w = two
    OBVIOUS
  <2>1. f \in Seq(ArchiveCell) /\ y \in Seq(ArchiveCell) /\ w = a \o f \o y
    BY <1>0, <1>1, <2>0
  <2>2. /\ w \in Seq(ArchiveCell) /\ Len(w) = Len(a) + Len(f) + Len(y)
        /\ \A q \in 1..Len(a) : w[q] = a[q]
        /\ \A j \in 1..Len(f) : w[Len(a) + j] = f[j]
        /\ \A j \in 1..Len(y) : w[Len(a) + Len(f) + j] = y[j]
    BY <2>1, JoinThree
  <2> HIDE DEF two
  <2> QED
    BY <1>1, <2>0, <2>2
<1> HIDE DEF two
<1>4. /\ b \in Seq(ArchiveCell) /\ Len(b) = Len(two) + k
      /\ \A q \in 1..Len(two) : b[q] = two[q]
      /\ \A j \in 1..k : b[Len(two) + j] = Zero
  <2>0. PICK w, v, c : w = two /\ v = z /\ c = b
    OBVIOUS
  <2>1. w \in Seq(ArchiveCell) /\ v \in Seq(ArchiveCell) /\ c = w \o v
    BY <1>2, <1>3, <2>0
  <2>2. /\ c \in Seq(ArchiveCell) /\ Len(c) = Len(w) + Len(v)
        /\ \A q \in 1..Len(w) : c[q] = w[q]
        /\ \A q \in 1..Len(v) : c[Len(w) + q] = v[q]
    BY <2>1, ConcatParts
  <2> HIDE DEF b
  <2> QED
    BY <1>2, <2>0, <2>2
<1> HIDE DEF n, b
<1>7. \A q \in 1..Len(a) : b[q] = a[q]
  <2> SUFFICES ASSUME NEW q \in 1..Len(a) PROVE b[q] = a[q]
    OBVIOUS
  <2>1. q \in 1..Len(two)
    BY <1>0, <1>3
  <2> QED
    BY <1>3, <1>4, <2>1
<1>8. \A j \in 1..BlockSize : b[Len(a) + j] = HeaderCell(file, j)
  <2> SUFFICES ASSUME NEW j \in 1..BlockSize PROVE b[Len(a) + j] = HeaderCell(file, j)
    OBVIOUS
  <2>1. Len(a) + j \in 1..Len(two)
    BY <1>0, <1>3
  <2> QED
    BY <1>1, <1>3, <1>4, <2>1
<1>9. \A j \in 1..n : b[Len(a) + BlockSize + j] = x[j]
  <2> SUFFICES ASSUME NEW j \in 1..n PROVE b[Len(a) + BlockSize + j] = x[j]
    OBVIOUS
  <2>1. Len(a) + BlockSize + j \in 1..Len(two)
    BY <1>0, <1>3
  <2> QED
    BY <1>3, <1>4, <2>1
<1>10. Len(b) = Len(a) + BlockSize + n + k
  BY <1>3, <1>4
<1>11. \A j \in 1..k : b[Len(a) + BlockSize + n + j] = Zero
  BY <1>3, <1>4
<1> QED
  BY <1>4, <1>7, <1>8, <1>9, <1>10, <1>11 DEF b, two, h, x, z, n, k

(* A file put behind a whole archive is laid where the archive ended.      *)
HasBlocks(b, a, file) ==
  /\ b \in Seq(ArchiveCell) /\ Len(b) = Len(a) + BlockSize + Len(file.data) + Gap(file)
  /\ \A x \in 1..Len(a) : b[x] = a[x]
  /\ \A j \in 1..BlockSize : b[Len(a) + j] = HeaderCell(file, j)
  /\ \A j \in 1..Len(file.data) : b[Len(a) + BlockSize + j] = file.data[j]
  /\ \A j \in 1..Gap(file) : b[Len(a) + BlockSize + Len(file.data) + j] = Zero

OneMore(q, p, file) ==
  Len(q) = Len(p) + 1 /\ q[Len(p) + 1] = file /\ \A i \in 1..Len(p) : q[i] = p[i]

Grows(new, at, n, end) ==
  /\ new \in [1..(n + 2) -> Nat] /\ new[n + 2] = end
  /\ \A i \in 1..(n + 1) : new[i] = at[i]

LEMMA PutIsLaid ==
  ASSUME NEW p, PutOK(p), NEW at, NEW a, ArchiveOK(a), Laid(a, p, at),
         Len(a) = at[Len(p) + 1], NEW file \in Files, NEW b, HasBlocks(b, a, file),
         NEW q, OneMore(q, p, file), NEW new, Grows(new, at, Len(p), Len(b))
  PROVE  ArchiveOK(b) /\ Laid(b, q, new) /\ Len(b) = new[Len(q) + 1]
<1>1. PICK n, e, d, k : n = Len(p) /\ e = Len(a) /\ d = Len(file.data) /\ k = Gap(file)
  OBVIOUS
<1>2. /\ n \in Nat /\ e \in Nat /\ d \in Nat /\ k \in Nat /\ BlockSize \in Nat \ {0}
      /\ (d + k) % BlockSize = 0 /\ a \in Seq(ArchiveCell)
      /\ at \in [1..(n + 1) -> Nat] /\ at[1] = 0 /\ at[n + 1] = e /\ e % BlockSize = 0
      /\ \A i \in 1..(n + 1) : at[i] \in Nat /\ at[i] % BlockSize = 0 /\ at[i] <= e
      /\ \A i \in 1..n : at[i + 1] = GapAt(p, at, i) + Gap(p[i])
  <2>1. n \in Nat /\ e \in Nat /\ d \in Nat /\ k \in Nat /\ BlockSize \in Nat \ {0}
        /\ (d + k) % BlockSize = 0 /\ a \in Seq(ArchiveCell)
    BY <1>1, FileFacts, TarAssumption DEF PutOK, ArchiveOK
  <2>2. /\ at \in [1..(n + 1) -> Nat] /\ at[1] = 0 /\ at[n + 1] = e
        /\ \A i \in 1..(n + 1) : at[i] % BlockSize = 0 /\ at[i] <= e
        /\ \A i \in 1..n : at[i + 1] = GapAt(p, at, i) + Gap(p[i])
    BY <1>1 DEF Laid, Places
  <2>3. n + 1 \in 1..(n + 1)
    BY <2>1
  <2> QED
    BY <2>1, <2>2, <2>3
<1>3. /\ b \in Seq(ArchiveCell) /\ Len(b) = e + BlockSize + d + k
      /\ \A x \in 1..e : b[x] = a[x]
      /\ \A j \in 1..BlockSize : b[e + j] = HeaderCell(file, j)
      /\ \A j \in 1..d : b[e + BlockSize + j] = file.data[j]
      /\ \A j \in 1..k : b[e + BlockSize + d + j] = Zero
  BY <1>1 DEF HasBlocks
<1>4. Len(q) = n + 1 /\ q[n + 1] = file /\ \A i \in 1..n : q[i] = p[i]
  BY <1>1 DEF OneMore
<1>5. /\ new \in [1..(n + 2) -> Nat] /\ new[n + 2] = Len(b)
      /\ \A i \in 1..(n + 1) : new[i] = at[i]
  BY <1>1 DEF Grows
<1>6. /\ Places(p, at) /\ HeadersLie(b, p, at) /\ DataLies(b, p, at)
      /\ \A i \in 1..n : \A x \in Nat :
           GapAt(p, at, i) < x /\ x <= at[i + 1] /\ x <= Len(b) => b[x] = Zero
  <2>1. e <= e + BlockSize + d + k /\ e + BlockSize + d + k \in Nat
    BY <1>2
  <2>2. ArchiveOK(b) /\ Extends(b, a)
    BY <1>1, <1>3, <2>1 DEF ArchiveOK, Extends
  <2>3. OldLaid(b, p, at)
    BY <2>2, LongerIsLaid
  <2> QED
    BY <1>1, <2>3 DEF OldLaid
<1>7. ASSUME NEW i \in 1..n
      PROVE  /\ i \in 1..(n + 1) /\ i + 1 \in 1..(n + 1) /\ q[i] = p[i]
             /\ new[i] = at[i] /\ new[i + 1] = at[i + 1]
             /\ DataAt(q, new, i) = DataAt(p, at, i) /\ GapAt(q, new, i) = GapAt(p, at, i)
  <2>1. i \in 1..(n + 1) /\ i + 1 \in 1..(n + 1)
    BY <1>2
  <2>2. q[i] = p[i] /\ new[i] = at[i] /\ new[i + 1] = at[i + 1]
    BY <1>4, <1>5, <2>1
  <2> QED
    BY <2>1, <2>2 DEF DataAt, GapAt
<1>8. /\ new[n + 1] = e /\ DataAt(q, new, n + 1) = e + BlockSize
      /\ GapAt(q, new, n + 1) = e + BlockSize + d
  <2>1. n + 1 \in 1..(n + 1)
    BY <1>2
  <2>2. new[n + 1] = e
    BY <1>2, <1>5, <2>1
  <2> QED
    BY <1>1, <1>4, <2>2 DEF DataAt, GapAt
<1>9. ASSUME NEW i \in 1..(n + 1), i \notin 1..n PROVE i = n + 1
  BY <1>2, <1>9
<1>10. Places(q, new)
  <2>1. new[1] = 0
    <3>1. 1 \in 1..(n + 1)
      BY <1>2
    <3> QED
      BY <1>2, <1>5, <3>1
  <2>2. ASSUME NEW i \in 1..(n + 1) PROVE new[i + 1] = GapAt(q, new, i) + Gap(q[i])
    <3>1. CASE i \in 1..n
      BY <1>2, <1>7, <3>1
    <3>2. CASE i = n + 1
      <4>1. i + 1 = n + 2
        BY <1>2, <3>2
      <4> QED
        BY <1>1, <1>3, <1>4, <1>5, <1>8, <3>2, <4>1
    <3> QED
      BY <1>9, <3>1, <3>2
  <2>3. Len(b) % BlockSize = 0
    <3>1. (e + (d + k)) % BlockSize = 0 /\ e + (d + k) \in Nat
      <4>1. PICK m \in Nat : m = d + k
        BY <1>2
      <4>0. /\ e \in Nat /\ e % BlockSize = 0 /\ m % BlockSize = 0
            /\ BlockSize \in Nat \ {0}
        BY <1>2, <4>1
      <4>2. (e + m) % BlockSize = 0
        BY <4>0, ModSum, Zenon
      <4>3. e + m \in Nat
        BY <4>0
      <4> QED
        BY <4>1, <4>2, <4>3
    <3>2. ((e + (d + k)) + BlockSize) % BlockSize = 0
      BY <1>2, <3>1, ModStep
    <3>3. Len(b) = (e + (d + k)) + BlockSize
      BY <1>2, <1>3
    <3> QED
      BY <3>2, <3>3
  <2>4. ASSUME NEW i \in 1..(n + 2) PROVE new[i] % BlockSize = 0 /\ new[i] <= new[n + 2]
    <3>0. e <= Len(b) /\ Len(b) <= Len(b) /\ Len(b) \in Nat
      BY <1>2, <1>3
    <3>1. CASE i \in 1..(n + 1)
      <4>1. new[i] = at[i] /\ at[i] \in Nat /\ at[i] % BlockSize = 0 /\ at[i] <= e
        BY <1>2, <1>5, <3>1
      <4>2. new[n + 2] = Len(b) /\ e \in Nat
        BY <1>2, <1>5
      <4> QED
        BY <3>0, <4>1, <4>2
    <3>2. CASE i = n + 2
      BY <1>5, <2>3, <3>0, <3>2
    <3>3. i \in 1..(n + 1) \/ i = n + 2
      BY <1>2
    <3> QED
      BY <3>1, <3>2, <3>3
  <2>5. Len(q) + 1 = n + 2
    BY <1>2, <1>4
  <2> QED
    BY <1>4, <1>5, <2>1, <2>2, <2>4, <2>5 DEF Places
<1>11. HeadersLie(b, q, new)
  <2> SUFFICES ASSUME NEW i \in 1..(n + 1)
               PROVE  /\ new[i] < Len(b) => new[i] + BlockSize <= Len(b)
                      /\ \A j \in 1..BlockSize :
                           new[i] + j <= Len(b) => b[new[i] + j] = HeaderCell(q[i], j)
    BY <1>4 DEF HeadersLie
  <2>1. CASE i \in 1..n
    <3>1. q[i] = p[i] /\ new[i] = at[i] /\ i \in 1..Len(p)
      BY <1>1, <1>7, <2>1
    <3>2. /\ at[i] < Len(b) => at[i] + BlockSize <= Len(b)
          /\ \A j \in 1..BlockSize : at[i] + j <= Len(b) => b[at[i] + j] = HeaderCell(p[i], j)
      BY <1>6, <3>1, Zenon DEF HeadersLie
    <3> QED
      BY <3>1, <3>2, Zenon
  <2>2. CASE i = n + 1
    <3>1. q[i] = file /\ new[i] = e
      BY <1>4, <1>8, <2>2
    <3>2. e + BlockSize <= Len(b)
      BY <1>2, <1>3
    <3> QED
      BY <1>3, <3>1, <3>2
  <2> QED
    BY <1>9, <2>1, <2>2
<1>12. DataLies(b, q, new)
  <2> SUFFICES ASSUME NEW i \in 1..(n + 1), NEW j \in 1..Len(q[i].data),
                      DataAt(q, new, i) + j <= Len(b)
               PROVE  b[DataAt(q, new, i) + j] = q[i].data[j]
    BY <1>4 DEF DataLies
  <2>1. CASE i \in 1..n
    <3>1. /\ q[i] = p[i] /\ DataAt(q, new, i) = DataAt(p, at, i) /\ i \in 1..Len(p)
      BY <1>1, <1>7, <2>1
    <3> QED
      BY <1>6, <3>1 DEF DataLies
  <2>2. CASE i = n + 1
    BY <1>1, <1>3, <1>4, <1>8, <2>2
  <2> QED
    BY <1>9, <2>1, <2>2
<1>13. GapsAreZero(b, q, new)
  <2>1. ASSUME NEW i \in 1..(n + 1), NEW x \in Nat,
               GapAt(q, new, i) < x, x <= new[i + 1], x <= Len(b)
        PROVE  b[x] = Zero
    <3>1. CASE i \in 1..n
      <4>1. GapAt(p, at, i) < x /\ x <= at[i + 1]
        BY <1>7, <2>1, <3>1
      <4> QED
        BY <1>6, <2>1, <3>1, <4>1
    <3>2. CASE i = n + 1
      <4>1. e + BlockSize + d < x /\ x <= e + BlockSize + d + k
        BY <1>3, <1>8, <2>1, <3>2
      <4> DEFINE j == x - (e + BlockSize + d)
      <4>2. j \in 1..k /\ e + BlockSize + d + j = x
        BY <1>2, <4>1
      <4> HIDE DEF j
      <4> QED
        BY <1>3, <4>2
    <3> QED
      BY <1>9, <3>1, <3>2
  <2>2. ASSUME NEW x \in Nat, new[n + 2] < x, x <= Len(b) PROVE FALSE
    BY <1>2, <1>3, <1>5, <2>2
  <2>3. Len(q) + 1 = n + 2
    BY <1>2, <1>4
  <2> QED
    BY <1>4, <2>1, <2>2, <2>3 DEF GapsAreZero
<1>14. ArchiveOK(b)
  BY <1>2, <1>3 DEF ArchiveOK
<1>15. Len(q) + 1 = n + 2
  BY <1>2, <1>4
<1> QED
  BY <1>5, <1>10, <1>11, <1>12, <1>13, <1>14, <1>15 DEF Laid

LEMMA PutGives ==
  ASSUME NEW p, PutOK(p), NEW at, NEW a, ArchiveOK(a), Laid(a, p, at), NEW file \in Files,
         NEW b, b = a \o Header(file) \o file.data \o fill(Len(file.data)),
         NEW q, q = Append(p, file),
         NEW new, new = [i \in 1..(Len(p) + 2) |-> IF i <= Len(p) + 1 THEN at[i] ELSE Len(b)]
  PROVE  HasBlocks(b, a, file) /\ OneMore(q, p, file) /\ Grows(new, at, Len(p), Len(b))
<1>1. HasBlocks(b, a, file)
  <2>1. a \in Seq(ArchiveCell)
    BY DEF ArchiveOK
  <2> QED
    BY <2>1, BlocksAre, Zenon DEF HasBlocks
<1>2. OneMore(q, p, file)
  <2>1. p \in Seq(Files)
    BY DEF PutOK
  <2> QED
    BY <2>1 DEF OneMore
<1>3. PICK n, x : n = Len(p) /\ x = Len(b)
  OBVIOUS
<1>4. n \in Nat /\ x \in Nat /\ at \in [1..(n + 1) -> Nat]
  <2>1. x \in Nat
    <3>1. b \in Seq(ArchiveCell)
      BY <1>1, Zenon DEF HasBlocks
    <3> QED
      BY <1>3, <3>1, LenProperties
  <2>3. n \in Nat
    BY <1>3, Zenon DEF PutOK
  <2>4. at \in [1..(n + 1) -> Nat]
    BY <1>3 DEF Laid, Places
  <2> QED
    BY <2>1, <2>3, <2>4
<1>5. new = [i \in 1..(n + 2) |-> IF i <= n + 1 THEN at[i] ELSE x]
  BY <1>3
<1>6. \A i \in 1..(n + 2) : (IF i <= n + 1 THEN at[i] ELSE x) \in Nat
  <2> SUFFICES ASSUME NEW i \in 1..(n + 2) PROVE (IF i <= n + 1 THEN at[i] ELSE x) \in Nat
    OBVIOUS
  <2>1. i <= n + 1 => i \in 1..(n + 1)
    BY <1>4
  <2> QED
    BY <1>4, <2>1
<1>7. new \in [1..(n + 2) -> Nat]
  BY <1>5, <1>6
<1>8. n + 2 \in 1..(n + 2) /\ ~(n + 2 <= n + 1)
  BY <1>4
<1>9. new[n + 2] = x
  BY <1>5, <1>8
<1>10. ASSUME NEW i \in 1..(n + 1) PROVE new[i] = at[i]
  <2>1. i \in 1..(n + 2) /\ i <= n + 1
    BY <1>4
  <2> QED
    BY <1>5, <2>1
<1> QED
  BY <1>1, <1>2, <1>3, <1>7, <1>9, <1>10 DEF Grows

LEMMA FilePut ==
  ASSUME NEW at, ArchiveInv(at), Put
  PROVE  \E new : ArchiveInv(new)'
<1>1. phase = "writing" /\ Writing(at)
  BY DEF Put, ArchiveInv
<1>2. PICK file \in Files :
        /\ archive' = archive \o Header(file) \o file.data \o fill(Len(file.data))
        /\ put' = Append(put, file)
  BY DEF Put, Files
<1>3. PICK b, q, new :
        /\ b = archive' /\ q = put'
        /\ new = [i \in 1..(Len(put) + 2) |-> IF i <= Len(put) + 1 THEN at[i] ELSE Len(b)]
  OBVIOUS
<1>4. ArchiveOK(b) /\ Laid(b, q, new) /\ Len(b) = new[Len(q) + 1]
  <2>1. /\ PutOK(put) /\ ArchiveOK(archive) /\ Laid(archive, put, at)
        /\ Len(archive) = at[Len(put) + 1]
    BY <1>1 DEF Writing
  <2>2. HasBlocks(b, archive, file) /\ OneMore(q, put, file) /\ Grows(new, at, Len(put), Len(b))
    BY <1>2, <1>3, <2>1, PutGives, Zenon
  <2> QED
    BY <2>1, <2>2, PutIsLaid
<1>5. PutOK(q)
  <2>1. put \in Seq(Files) /\ Len(put) \in Nat /\ Len(put) < MaxFiles /\ MaxFiles \in Nat
    BY <1>1, TarAssumption DEF Writing, PutOK, Put
  <2>2. q \in Seq(Files) /\ Len(q) = Len(put) + 1
    BY <1>2, <1>3, <2>1
  <2> QED
    BY <2>1, <2>2 DEF PutOK
<1>6. UNCHANGED <<inp, cached, number_of_files, phase, copied, got, cut>>
  BY DEF Put
<1>7. Writing(new)'
  <2>1. PutOK(put)' /\ ArchiveOK(archive)'
    BY <1>3, <1>4, <1>5 DEF PutOK, ArchiveOK
  <2>2. Laid(archive', put', new) /\ Len(archive') = new[Len(put') + 1]
    BY <1>3, <1>4
  <2>3. Laid(archive, put, new)'
    BY <2>2 DEF Laid, Places, HeadersLie, DataLies, GapsAreZero, GapAt, DataAt, HeaderCell,
       Says, Gap
  <2> QED
    BY <1>1, <1>6, <2>1, <2>2, <2>3 DEF Writing
<1>8. ArchiveInv(new)'
  BY <1>1, <1>6, <1>7 DEF ArchiveInv
<1> QED
  BY <1>8

(* The archive is finished, or its end is lost: the reader begins.         *)
Padded(b, a, m) ==
  /\ b \in Seq(ArchiveCell) /\ Len(b) = Len(a) + m /\ Extends(b, a)
  /\ \A j \in 1..m : b[Len(a) + j] = Zero

LEMMA PaddedIsLaid ==
  ASSUME NEW p, PutOK(p), NEW at, NEW a, ArchiveOK(a), Laid(a, p, at),
         Len(a) = at[Len(p) + 1], NEW m \in Nat \ {0}, m % BlockSize = 0,
         NEW b, Padded(b, a, m)
  PROVE  /\ ArchiveOK(b) /\ Laid(b, p, at)
         /\ Len(b) > at[Len(p) + 1] /\ Len(b) % BlockSize = 0
<1>0. /\ b \in Seq(ArchiveCell) /\ Len(b) = Len(a) + m /\ Extends(b, a)
      /\ \A j \in 1..m : b[Len(a) + j] = Zero
  BY DEF Padded
<1>1. /\ Len(a) \in Nat /\ Len(b) \in Nat /\ Len(p) \in Nat /\ Len(p) + 1 \in 1..(Len(p) + 1)
      /\ BlockSize \in Nat \ {0} /\ Len(b) = Len(a) + m
  BY <1>0, TarAssumption DEF ArchiveOK, PutOK
<1>2. ArchiveOK(b) /\ OldLaid(b, p, at)
  <2>1. ArchiveOK(b)
    BY <1>0, <1>1 DEF ArchiveOK
  <2> QED
    BY <1>0, <2>1, LongerIsLaid
<1>3. ASSUME NEW q \in Nat, at[Len(p) + 1] < q, q <= Len(b) PROVE b[q] = Zero
  <2> DEFINE j == q - Len(a)
  <2>1. j \in 1..m /\ Len(a) + j = q
    BY <1>1, <1>3
  <2> HIDE DEF j
  <2> QED
    BY <1>0, <2>1
<1>4. Len(a) % BlockSize = 0
  BY <1>1 DEF Laid, Places
<1>5. (Len(a) + m) % BlockSize = 0
  BY <1>1, <1>4, ModSum, Zenon
<1>6. Len(b) > at[Len(p) + 1]
  BY <1>1
<1> QED
  BY <1>1, <1>2, <1>3, <1>5, <1>6 DEF OldLaid, Laid, GapsAreZero

LEMMA CutIsLaid ==
  ASSUME NEW p, PutOK(p), NEW at, NEW a, ArchiveOK(a), Laid(a, p, at),
         NEW n \in Nat, n < Len(a), InHeader(a[n + 1]) => a[n + 1].byte = 1,
         NEW b, b \in Seq(ArchiveCell), Len(b) = n, \A q \in 1..n : b[q] = a[q]
  PROVE  ArchiveOK(b) /\ Laid(b, p, at)
<1>1. /\ Len(a) \in Nat /\ Len(p) \in Nat /\ BlockSize \in Nat \ {0}
      /\ at \in [1..(Len(p) + 1) -> Nat]
  BY TarAssumption DEF ArchiveOK, PutOK, Laid, Places
<1>2. ArchiveOK(b)
  BY DEF ArchiveOK
<1>3. ASSUME NEW q \in Nat, 0 < q, q <= n PROVE b[q] = a[q] /\ q <= Len(a)
  <2>1. q \in 1..n
    BY <1>3
  <2> QED
    BY <1>1, <1>3, <2>1
<1>4. ASSUME NEW i \in 1..Len(p)
      PROVE  /\ at[i] < n => at[i] + BlockSize <= n
             /\ \A j \in 1..BlockSize : at[i] + j <= n => b[at[i] + j] = HeaderCell(p[i], j)
  <2>0. at[i] \in Nat /\ p[i] \in Files
    BY <1>1 DEF PutOK
  <2>1. \A j \in 1..BlockSize : at[i] + j <= Len(a) => a[at[i] + j] = HeaderCell(p[i], j)
    BY DEF Laid, HeadersLie
  <2>2. ASSUME at[i] < n, n < at[i] + BlockSize PROVE FALSE
    <3> DEFINE j == n + 1 - at[i]
    <3>1. j \in 1..BlockSize /\ at[i] + j = n + 1 /\ j # 1 /\ n + 1 <= Len(a)
      BY <1>1, <2>0, <2>2
    <3> HIDE DEF j
    <3>2. a[n + 1] = HeaderCell(p[i], j)
      BY <2>1, <3>1
    <3>3. a[n + 1] \notin Byte
      BY <2>0, <3>1, <3>2, FileFacts
    <3>4. a[n + 1].byte = j
      BY <3>2 DEF HeaderCell
    <3> QED
      BY <3>1, <3>3, <3>4 DEF InHeader
  <2>3. ASSUME NEW j \in 1..BlockSize, at[i] + j <= n
        PROVE  b[at[i] + j] = HeaderCell(p[i], j)
    <3>1. at[i] + j \in Nat /\ 0 < at[i] + j
      BY <1>1, <2>0
    <3> QED
      BY <1>3, <2>1, <2>3, <3>1
  <2>4. at[i] < n => at[i] + BlockSize <= n
    BY <1>1, <2>0, <2>2
  <2> QED
    BY <2>3, <2>4
<1>5. ASSUME NEW i \in 1..Len(p), NEW j \in 1..Len(p[i].data), DataAt(p, at, i) + j <= n
      PROVE  b[DataAt(p, at, i) + j] = p[i].data[j]
  <2>1. DataAt(p, at, i) \in Nat
    BY <1>1 DEF DataAt
  <2>2. p[i] \in Files
    BY DEF PutOK
  <2>3. Len(p[i].data) \in Nat
    BY <2>2, FileFacts
  <2>4. DataAt(p, at, i) + j \in Nat /\ 0 < DataAt(p, at, i) + j
    BY <2>1, <2>3
  <2>5. DataAt(p, at, i) + j <= Len(a) => a[DataAt(p, at, i) + j] = p[i].data[j]
    BY DEF Laid, DataLies
  <2> QED
    BY <1>3, <1>5, <2>4, <2>5
<1>6. ASSUME NEW i \in 1..Len(p), NEW q \in Nat, GapAt(p, at, i) < q, q <= at[i + 1], q <= n
      PROVE  b[q] = Zero
  <2>1. at[i] \in Nat /\ Len(p[i].data) \in Nat
    <3>1. p[i] \in Files
      BY DEF PutOK
    <3> QED
      BY <1>1, <3>1, FileFacts
  <2>2. 0 < q
    BY <1>1, <1>6, <2>1 DEF GapAt
  <2>3. b[q] = a[q] /\ q <= Len(a)
    BY <1>3, <1>6, <2>2
  <2> QED
    BY <1>6, <2>3 DEF Laid, GapsAreZero
<1>7. ASSUME NEW q \in Nat, at[Len(p) + 1] < q, q <= n PROVE b[q] = Zero
  <2>1. 0 < q
    BY <1>1, <1>7
  <2>2. b[q] = a[q] /\ q <= Len(a)
    BY <1>3, <1>7, <2>1
  <2> QED
    BY <1>7, <2>2 DEF Laid, GapsAreZero
<1>8. HeadersLie(b, p, at) /\ DataLies(b, p, at) /\ GapsAreZero(b, p, at)
  BY <1>4, <1>5, <1>6, <1>7 DEF HeadersLie, DataLies, GapsAreZero
<1> QED
  BY <1>2, <1>8 DEF Laid

(* A reader at the archive's beginning.                                    *)
LEMMA ReaderBegins ==
  ASSUME NEW at, Writing(at), NEW b, b = archive', ArchiveOK(b), Laid(b, put, at),
         \/ cut' = FALSE /\ Len(b) > at[Len(put) + 1] /\ Len(b) % BlockSize = 0
         \/ cut' = TRUE /\ (Len(b) = 0 \/ Len(put) # 0),
         phase' = "reading", UNCHANGED <<inp, cached, number_of_files, copied, put, got>>
  PROVE  ArchiveInv(at)'
<1>1. /\ PutOK(put) /\ inp = [pos |-> 0, eof |-> FALSE, fail |-> FALSE]
      /\ cached = <<>> /\ number_of_files = -1 /\ got = <<>>
  BY DEF Writing
<1>2. Laid(archive, put, at)'
  BY DEF Laid, Places, HeadersLie, DataLies, GapsAreZero, GapAt, DataAt, HeaderCell, Says, Gap
<1>3. LaidOK(at)'
  BY <1>1, <1>2 DEF LaidOK, PutOK, ArchiveOK, Complete
<1>4. CountOK(number_of_files)'
  <2>1. -1 \in -1..MaxFiles
    BY TarAssumption
  <2> QED
    BY <1>1, <2>1 DEF CountOK
<1>5. /\ at[1] = 0 /\ Len(put) \in Nat /\ Len(b) \in Nat /\ at[Len(put) + 1] \in Nat
  <2>1. Len(put) + 1 \in 1..(Len(put) + 1) /\ Len(put) \in Nat
    BY <1>1 DEF PutOK
  <2> QED
    BY <2>1 DEF Laid, Places, ArchiveOK
<1>6. /\ inp' \in Stream /\ good(inp)' /\ inp'.pos = 0 /\ Len(got') = 0 /\ cached' = <<>>
      /\ got' \in Seq(HandledFile) /\ AllRead(got)' /\ MostRead(got)'
  BY <1>1, <1>5 DEF Stream, good, AllRead, MostRead
<1>7. CASE Len(put) # 0 /\ Len(b) # 0
  <2>1. AtNext(at, inp, Len(got))'
    BY <1>5, <1>6, <1>7 DEF AtNext, good
  <2> QED
    BY <1>3, <1>4, <1>6, <2>1 DEF ArchiveInv, Reading, InStep, Between
<1>8. CASE Len(b) = 0
  <2>1. Over(inp, Len(got))'
    BY <1>5, <1>6, <1>8 DEF Over, check_if_header_is_next, HasByte
  <2> QED
    BY <1>3, <1>4, <1>6, <2>1 DEF ArchiveInv, Reading, InStep, Between
<1>9. CASE Len(put) = 0 /\ Len(b) # 0
  <2>1. cut' = FALSE
    BY <1>9
  <2>2. 1 <= Len(b) /\ at[Len(put) + 1] < 1
    BY <1>5, <1>9
  <2>3. b[1] = Zero
    BY <2>2 DEF Laid, GapsAreZero
  <2>4. Over(inp, Len(got))'
    BY <1>5, <1>6, <1>9, <2>3 DEF Over, check_if_header_is_next
  <2> QED
    BY <1>3, <1>4, <1>6, <2>4 DEF ArchiveInv, Reading, InStep, Between
<1> QED
  BY <1>7, <1>8, <1>9

LEMMA ArchiveFinished ==
  ASSUME NEW at, ArchiveInv(at), Finish
  PROVE  ArchiveInv(at)'
<1>1. Writing(at) /\ cut = FALSE /\ archive \in Seq(ArchiveCell) /\ Len(archive) \in Nat
  BY DEF Finish, ArchiveInv, Writing, ArchiveOK
<1>2. PICK times \in 1..2 : archive' = archive \o [i \in 1..(times * 2 * BlockSize) |-> Zero]
  BY DEF Finish
<1>3. PICK m, z, b : /\ m = times * 2 * BlockSize /\ b = archive'
                     /\ z = [i \in 1..(times * 2 * BlockSize) |-> Zero]
  OBVIOUS
<1>4. m \in Nat \ {0} /\ m % BlockSize = 0
  <2>1. BlockSize \in Nat \ {0}
    BY TarAssumption
  <2>2. PICK k \in {2, 4} : k = times * 2
    OBVIOUS
  <2>3. m = k * BlockSize
    BY <1>3, <2>2
  <2>4. (k * BlockSize) % BlockSize = 0
    BY <2>1, ModIsProduct
  <2>5. m \in Nat \ {0}
    BY <2>1, <2>3
  <2> QED
    BY <2>3, <2>4, <2>5
<1>5. z \in Seq(ArchiveCell) /\ Len(z) = m /\ \A j \in 1..m : z[j] = Zero
  <2>1. Zero \in ArchiveCell
    BY TarAssumption DEF ArchiveCell
  <2>2. z = [i \in 1..m |-> Zero]
    BY <1>3
  <2>3. z \in [1..m -> ArchiveCell]
    BY <2>1, <2>2
  <2> QED
    BY <1>4, <2>2, <2>3
<1>6. b = archive \o z
  BY <1>2, <1>3
<1>7. /\ b \in Seq(ArchiveCell) /\ Len(b) = Len(archive) + Len(z)
      /\ \A q \in 1..Len(archive) : b[q] = archive[q]
      /\ \A j \in 1..Len(z) : b[Len(archive) + j] = z[j]
  <2>1. PICK a : a = archive
    OBVIOUS
  <2>2. a \in Seq(ArchiveCell) /\ z \in Seq(ArchiveCell) /\ b = a \o z
    BY <1>1, <1>5, <1>6, <2>1
  <2>3. /\ b \in Seq(ArchiveCell) /\ Len(b) = Len(a) + Len(z)
        /\ \A q \in 1..Len(a) : b[q] = a[q]
        /\ \A j \in 1..Len(z) : b[Len(a) + j] = z[j]
    BY <2>2, JoinTwo
  <2> QED
    BY <2>1, <2>3
<1>8. /\ Len(b) = Len(archive) + m /\ Len(archive) <= Len(archive) + m
      /\ \A j \in 1..m : b[Len(archive) + j] = Zero
  <2>1. Len(archive) <= Len(archive) + m
    BY <1>1, <1>4
  <2> QED
    BY <1>5, <1>7, <2>1
<1>9. Extends(b, archive)
  BY <1>7, <1>8 DEF Extends
<1>0a. Padded(b, archive, m)
  BY <1>7, <1>8, <1>9 DEF Padded
<1>10. /\ PutOK(put) /\ ArchiveOK(archive) /\ Laid(archive, put, at)
       /\ Len(archive) = at[Len(put) + 1]
  BY <1>1 DEF Writing
<1>11. /\ ArchiveOK(b) /\ Laid(b, put, at)
       /\ Len(b) > at[Len(put) + 1] /\ Len(b) % BlockSize = 0
  BY <1>4, <1>0a, <1>10, PaddedIsLaid
<1>12. /\ phase' = "reading" /\ cut' = FALSE
       /\ UNCHANGED <<inp, cached, number_of_files, copied, put, got>>
  BY <1>1 DEF Finish
<1> QED
  BY <1>1, <1>3, <1>11, <1>12, ReaderBegins

LEMMA ArchiveCut ==
  ASSUME NEW at, ArchiveInv(at), Truncate
  PROVE  ArchiveInv(at)'
<1>1. Writing(at) /\ archive \in Seq(ArchiveCell) /\ Len(archive) \in Nat
  BY DEF Truncate, ArchiveInv, Writing, ArchiveOK
<1>2. PICK n \in 0..(Len(archive) - 1) :
        /\ InHeader(archive[n + 1]) => archive[n + 1].byte = 1
        /\ archive' = SubSeq(archive, 1, n)
  BY DEF Truncate
<1>3. PICK b : b = archive'
  OBVIOUS
<1>4. n \in Nat /\ n < Len(archive) /\ n <= Len(archive)
  BY <1>1
<1>5. b \in Seq(ArchiveCell) /\ Len(b) = n /\ \A q \in 1..n : b[q] = archive[q]
  BY <1>1, <1>2, <1>3, <1>4, CutParts
<1>6. /\ PutOK(put) /\ ArchiveOK(archive) /\ Laid(archive, put, at)
      /\ Len(archive) = at[Len(put) + 1]
  BY <1>1 DEF Writing
<1>7. ArchiveOK(b) /\ Laid(b, put, at)
  BY <1>2, <1>4, <1>5, <1>6, CutIsLaid
<1>8. Len(put) # 0
  <2>1. Len(archive) # 0 /\ at[1] = 0
    BY <1>1, <1>4, <1>6 DEF Laid, Places
  <2> QED
    BY <1>6, <2>1 DEF PutOK
<1>9. /\ phase' = "reading" /\ cut' = TRUE
      /\ UNCHANGED <<inp, cached, number_of_files, copied, put, got>>
  BY DEF Truncate
<1> QED
  BY <1>1, <1>3, <1>7, <1>8, <1>9, ReaderBegins

LEMMA ArchiveEmpty ==
  ASSUME ArchiveInit
  PROVE  \E at : ArchiveInv(at)
<1> DEFINE at == [i \in 1..1 |-> 0]
<1>1. /\ archive = <<>> /\ put = <<>> /\ cut = FALSE /\ phase = "writing"
      /\ inp = [pos |-> 0, eof |-> FALSE, fail |-> FALSE]
      /\ cached = <<>> /\ number_of_files = -1 /\ got = <<>>
  BY DEF ArchiveInit
<1>2. PutOK(put) /\ ArchiveOK(archive) /\ Len(put) = 0 /\ Len(archive) = 0
  BY <1>1, TarAssumption DEF PutOK, ArchiveOK
<1>3. at \in [1..1 -> Nat] /\ at[1] = 0
  OBVIOUS
<1> HIDE DEF at
<1>4. BlockSize \in Nat \ {0} /\ 0 % BlockSize = 0
  <2>1. BlockSize \in Nat \ {0}
    BY TarAssumption
  <2> QED
    BY <2>1, ModSmall
<1>5. \A i \in 1..1 : i = 1
  OBVIOUS
<1>6. Places(put, at)
  BY <1>2, <1>3, <1>4, <1>5 DEF Places
<1>7. HeadersLie(archive, put, at) /\ DataLies(archive, put, at)
  BY <1>2 DEF HeadersLie, DataLies
<1>8. GapsAreZero(archive, put, at)
  <2>1. \A q \in Nat : ~(0 < q /\ q <= 0)
    OBVIOUS
  <2> QED
    BY <1>2, <1>3, <2>1 DEF GapsAreZero
<1>9. Writing(at)
  BY <1>1, <1>2, <1>3, <1>6, <1>7, <1>8 DEF Writing, Laid
<1> QED
  BY <1>1, <1>9 DEF ArchiveInv

LEMMA ArchiveSteps ==
  ASSUME NEW at, ArchiveInv(at), CountWhen \subseteq {"between"}, [ArchiveNext]_archiveVars
  PROVE  \E new : ArchiveInv(new)'
<1>1. CASE Put
  BY <1>1, FilePut
<1>2. CASE Finish
  BY <1>2, ArchiveFinished
<1>3. CASE Truncate
  BY <1>3, ArchiveCut
<1>4. CASE ExtractCopy \/ ExtractClose
  BY <1>4, FileCopied
<1>5. CASE \/ contains_another_file \/ get_next_file \/ read_next_file \/ skip_next_file
           \/ NumberOfFiles \/ ExtractAll \/ ExtractOpen \/ ExtractSkip \/ ExtractDone
  BY <1>5, ReaderSteps
<1>6. CASE UNCHANGED archiveVars
  <2>1. ArchiveInv(at)'
    BY <1>6, ZenonT(60)
    DEF archiveVars, ArchiveInv, Writing, Reading, LaidOK, Complete, PutOK, ArchiveOK,
       Laid, Places, HeadersLie, DataLies, GapsAreZero, GapAt, DataAt, CountOK, InStep,
       Between, Opened, Copying, AtNext, Over, OpenAt, CopyAt, AllRead, MostRead,
       check_if_header_is_next, HasByte, good, As, PartOf, Says, Gap, HeaderCell
  <2> QED
    BY <2>1
<1> QED
  BY <1>1, <1>2, <1>3, <1>4, <1>5, <1>6 DEF ArchiveNext, Extracting

(* Every byte lies in the blocks of one of the files.                      *)
LEMMA BytePlace ==
  ASSUME NEW p, PutOK(p), NEW at, Places(p, at), NEW q \in Nat \ {0}, q <= at[Len(p) + 1]
  PROVE  \E i \in 1..Len(p) : at[i] < q /\ q <= at[i + 1]
<1>1. Len(p) \in Nat /\ at \in [1..(Len(p) + 1) -> Nat] /\ at[1] = 0
  BY DEF PutOK, Places
<1> DEFINE T == {j \in 1..(Len(p) + 1) : q <= at[j]}
<1>2. Len(p) + 1 \in T /\ T \in SUBSET Nat
  BY <1>1
<1>3. PICK j \in T : \A k \in T : j <= k
  BY <1>2, LeastOfSet
<1>4. j \in 1..(Len(p) + 1) /\ q <= at[j]
  BY <1>3
<1>5. j # 1
  BY <1>1, <1>4
<1>6. j - 1 \in 1..Len(p) /\ j - 1 \in 1..(Len(p) + 1) /\ (j - 1) + 1 = j
  BY <1>1, <1>4, <1>5
<1>7. j - 1 \notin T
  BY <1>3, <1>4
<1>8. at[j - 1] < q
  BY <1>1, <1>6, <1>7
<1> QED
  BY <1>4, <1>6, <1>8

(* A header's bytes are where headers begin.                               *)
LEMMA HeadersAligned ==
  ASSUME NEW p, PutOK(p), NEW at, NEW a, ArchiveOK(a), Laid(a, p, at),
         NEW q \in 1..Len(a), InHeader(a[q])
  PROVE  a[q].byte = 1 + ((q - 1) % BlockSize)
<1>1. /\ Len(a) \in Nat /\ Len(p) \in Nat /\ BlockSize \in Nat \ {0} /\ Zero \in Byte
      /\ at \in [1..(Len(p) + 1) -> Nat] /\ q \in Nat \ {0} /\ q <= Len(a)
      /\ Len(p) + 1 \in 1..(Len(p) + 1)
  BY TarAssumption DEF ArchiveOK, PutOK, Laid, Places
<1>2. a[q] # Zero
  BY <1>1 DEF InHeader
<1>3. q <= at[Len(p) + 1]
  BY <1>1, <1>2 DEF Laid, GapsAreZero
<1>4. PICK i \in 1..Len(p) : at[i] < q /\ q <= at[i + 1]
  BY <1>1, <1>3, BytePlace DEF Laid
<1>5. /\ at[i] \in Nat /\ at[i] % BlockSize = 0 /\ p[i] \in Files /\ Len(p[i].data) \in Nat
      /\ p[i].data \in Seq(Byte)
  <2>1. p[i] \in Files
    BY DEF PutOK
  <2>2. i \in 1..(Len(p) + 1)
    BY <1>1
  <2> QED
    BY <1>1, <2>1, <2>2, FileFacts DEF Laid, Places
<1>6. ~(GapAt(p, at, i) < q)
  BY <1>1, <1>2, <1>4 DEF Laid, GapsAreZero
<1>7. ~(DataAt(p, at, i) < q)
  <2> SUFFICES ASSUME DataAt(p, at, i) < q PROVE FALSE
    OBVIOUS
  <2> DEFINE j == q - DataAt(p, at, i)
  <2>1. j \in 1..Len(p[i].data) /\ DataAt(p, at, i) + j = q
    BY <1>1, <1>5, <1>6 DEF DataAt, GapAt
  <2> HIDE DEF j
  <2>2. a[q] = p[i].data[j]
    BY <1>1, <2>1 DEF Laid, DataLies
  <2>3. p[i].data[j] \in Byte
    BY <1>5, <2>1
  <2> QED
    BY <2>2, <2>3 DEF InHeader
<1> DEFINE k == q - at[i]
<1>8. k \in 1..BlockSize /\ at[i] + k = q /\ k - 1 \in 0..(BlockSize - 1)
      /\ at[i] + (k - 1) = q - 1
  <2>1. at[i] \in Nat /\ q \in Nat /\ BlockSize \in Nat
    BY <1>1, <1>5
  <2>2. at[i] < q /\ q <= at[i] + BlockSize
    BY <1>4, <1>7, <2>1 DEF DataAt
  <2>3. k \in 1..BlockSize /\ at[i] + k = q
    BY <2>1, <2>2
  <2> HIDE DEF k
  <2>4. k - 1 \in 0..(BlockSize - 1)
    BY <2>1, <2>3
  <2>5. at[i] + (k - 1) = q - 1
    BY <2>1, <2>3
  <2> QED
    BY <2>3, <2>4, <2>5
<1> HIDE DEF k
<1>9. a[q] = HeaderCell(p[i], k)
  <2>1. at[i] + k <= Len(a)
    BY <1>1, <1>8
  <2>2. a[at[i] + k] = HeaderCell(p[i], k)
    BY <1>8, <2>1 DEF Laid, HeadersLie
  <2> QED
    BY <1>8, <2>2
<1>10. (q - 1) % BlockSize = k - 1
  <2>1. PICK r \in 0..(BlockSize - 1) : r = k - 1
    BY <1>8
  <2>2. (at[i] + r) % BlockSize = r
    BY <1>1, <1>5, ModOffset
  <2> QED
    BY <1>8, <2>1, <2>2
<1>11. a[q].byte = k
  BY <1>9 DEF HeaderCell
<1> QED
  BY <1>8, <1>10, <1>11

LEMMA InvSays ==
  ASSUME NEW at, ArchiveInv(at)
  PROVE  ArchiveReadBack
<1>1. /\ PutOK(put) /\ ArchiveOK(archive) /\ Laid(archive, put, at)
      /\ inp.pos \in Nat /\ CountOK(number_of_files)
      /\ cut \/ Len(archive) % BlockSize = 0
  <2>1. CASE Writing(at)
    <3>1. Len(put) + 1 \in 1..(Len(put) + 1)
      BY <2>1 DEF Writing, PutOK
    <3>2. Len(archive) % BlockSize = 0
      BY <2>1, <3>1 DEF Writing, Laid, Places
    <3>3. -1 \in -1..MaxFiles
      BY TarAssumption
    <3> QED
      BY <2>1, <3>2, <3>3 DEF Writing, CountOK
  <2>2. CASE Reading(at)
    BY <2>2 DEF Reading, LaidOK, Complete, InStep, Stream
  <2> QED
    BY <2>1, <2>2 DEF ArchiveInv
<1>2. \/ phase = "writing" /\ Writing(at)
      \/ phase # "writing" /\ InStep(at, inp, cached, phase, copied, got)
  BY DEF ArchiveInv, Reading
<1>3. ArchiveTypeOK
  <2>1. phase \in {"writing", "reading", "extract", "copy"} /\ (phase = "copy" => cached # <<>>)
    <3>1. <<Says(put[Len(got) + 1])>> # <<>>
      OBVIOUS
    <3> QED
      BY <1>2, <3>1 DEF InStep, Between, Opened, Copying
  <2>2. ASSUME NEW i \in DOMAIN archive, InHeader(archive[i])
        PROVE  archive[i].byte = 1 + ((i - 1) % BlockSize)
    <3>1. i \in 1..Len(archive)
      BY <1>1 DEF ArchiveOK
    <3> QED
      BY <1>1, <2>2, <3>1, HeadersAligned
  <2>3. number_of_files \in -1..MaxFiles
    BY <1>1 DEF CountOK
  <2> QED
    BY <1>1, <2>1, <2>2, <2>3 DEF ArchiveTypeOK
<1>4. ReadBack
  <2>1. CASE got = <<>>
    BY <1>1, <2>1 DEF ReadBack, PutOK
  <2>2. CASE InStep(at, inp, cached, phase, copied, got)
    <3>1. got \in Seq(HandledFile) /\ (AllRead(got) \/ MostRead(got))
      BY <2>2 DEF InStep, Between, Opened, Copying
    <3>2. MostRead(got)
      BY <3>1 DEF AllRead, MostRead
    <3>3. Len(got) <= Len(put) /\ DOMAIN got = 1..Len(got)
      BY <3>1, <3>2 DEF MostRead
    <3> QED
      BY <3>2, <3>3 DEF MostRead, ReadBack, As, PartOf
  <2> QED
    BY <1>2, <2>1, <2>2 DEF Writing
<1>5. CountIsRight
  BY <1>1 DEF CountOK, CountIsRight
<1>6. ContainsBetween
  <2> SUFFICES ASSUME phase = "reading", ~cut, cached = <<>> PROVE MoreToRead
    BY DEF ContainsBetween
  <2>1. Between(at, inp, cached, phase, got) /\ Laid(archive, put, at)
    <3>1. <<Says(put[Len(got) + 1])>> # <<>>
      OBVIOUS
    <3> QED
      BY <1>1, <1>2, <3>1 DEF InStep, Opened, Copying
  <2>2. CASE AtNext(at, inp, Len(got))
    <3>1. inp \in Stream /\ Len(got) \in Nat /\ Len(put) \in Nat
      BY <1>1, <1>2 DEF InStep, PutOK
    <3>2. Len(got) + 1 \in 1..Len(put) /\ at[Len(got) + 1] < Len(archive)
      BY <2>2, <3>1 DEF AtNext
    <3>3. archive[inp.pos + 1] # Zero
      BY <1>1, <2>2, <3>2, HeaderIs DEF AtNext
    <3> QED
      BY <2>2, <3>3 DEF AtNext, MoreToRead, check_if_header_is_next, HasByte
  <2>3. CASE Over(inp, Len(got)) /\ MostRead(got)
    <3>1. Len(got) = Len(put) /\ Len(put) \in Nat
      BY <1>1, <2>3 DEF Over, PutOK
    <3> QED
      BY <2>3, <3>1 DEF Over, MoreToRead
  <2> QED
    BY <2>1, <2>2, <2>3 DEF Between
<1> QED
  BY <1>3, <1>4, <1>5, <1>6 DEF ArchiveReadBack

(* What the writer put into an archive the reader gives back.              *)
THEOREM ArchiveIsReadBack ==
  ASSUME CountWhen \subseteq {"between"}
  PROVE  ArchiveSpec => []ArchiveReadBack
<1> DEFINE Inv == \E at : ArchiveInv(at)
<1>1. ArchiveInit => Inv
  BY ArchiveEmpty
<1>2. Inv /\ [ArchiveNext]_archiveVars => Inv'
  <2> SUFFICES ASSUME Inv, [ArchiveNext]_archiveVars PROVE Inv'
    OBVIOUS
  <2>1. PICK at : ArchiveInv(at)
    OBVIOUS
  <2>2. \E new : ArchiveInv(new)'
    BY <2>1, ArchiveSteps
  <2> QED
    BY <2>2
<1>3. Inv => ArchiveReadBack
  BY InvSays
<1> HIDE DEF Inv
<1> QED
  BY <1>1, <1>2, <1>3, PTL DEF ArchiveSpec

------------------------------------------------------------------------------
(***************************************************************************)
(* Encoded audio: the window of EncodedAudioStream first, then the buffers *)
(* of the containers, for any streams.                                     *)
(***************************************************************************)
(* An MP3 stream of whole frames none of whose reads was short.            *)
PlainFrames ==
  innerStream.format = "MP3" /\ WholeFrames(innerStream.cells, ReadBuf) /\ ~shortRead

Cells == innerStream.cells

(* A frame of cells begins at p, or they end there.                        *)
FrameStart(cells, p) == p \in Headers(cells) \union {Len(cells) + 1}

(* s plays the frames of cells from first up to p, in order.               *)
Plays(s, cells, first, p) ==
  /\ s \in Seq(Nat)
  /\ {s[i] : i \in DOMAIN s} = Headers(cells) \cap first..p
  /\ \A i, j \in DOMAIN s : i < j => s[i] < s[j]

(* Of the first at cells, s plays those before the bytes, which are the    *)
(* others and begin with a frame.                                          *)
PlayedBefore(before, cells, at, bytes, s) ==
  /\ before \in Nat /\ at \in Nat /\ before <= at /\ at <= Len(cells)
  /\ bytes = Positions(before + 1, at - before)
  /\ FrameStart(cells, before + 1)
  /\ Plays(s, cells, 1, before)

EncodedInv ==
  /\ innerStream # NoInner => innerStream \in EncodedStreams
  /\ innerStream # NoInner /\ PlainFrames =>
       \E before : PlayedBefore(before, Cells, position, window, played)

LEMMA PositionsAre ==
  ASSUME NEW first \in Nat, NEW n \in Nat
  PROVE  /\ Positions(first, n) \in Seq(Nat) /\ Len(Positions(first, n)) = n
         /\ \A i \in 1..n : Positions(first, n)[i] = first + i - 1
<1>1. \A i \in 1..n : first + i - 1 \in Nat
  OBVIOUS
<1> QED
  BY <1>1 DEF Positions

LEMMA PositionsJoin ==
  ASSUME NEW first \in Nat, NEW m \in Nat, NEW n \in Nat
  PROVE  Positions(first, m) \o Positions(first + m, n) = Positions(first, m + n)
<1> DEFINE s == Positions(first, m)
           t == Positions(first + m, n)
           u == Positions(first, m + n)
<1>1. /\ s \in Seq(Nat) /\ Len(s) = m /\ \A i \in 1..m : s[i] = first + i - 1
      /\ t \in Seq(Nat) /\ Len(t) = n /\ \A i \in 1..n : t[i] = first + m + i - 1
      /\ u \in Seq(Nat) /\ Len(u) = m + n /\ \A i \in 1..(m + n) : u[i] = first + i - 1
  <2>1. first + m \in Nat /\ m + n \in Nat
    OBVIOUS
  <2> QED
    BY <2>1, PositionsAre
<1> HIDE DEF s, t, u
<1> DEFINE v == s \o t
<1>2. /\ v \in Seq(Nat) /\ Len(v) = m + n
      /\ \A i \in 1..m : v[i] = s[i]
      /\ \A i \in 1..n : v[m + i] = t[i]
  <2>1. s \in Seq(Nat) /\ t \in Seq(Nat)
    BY <1>1
  <2> HIDE DEF v
  <2>2. /\ s \o t \in Seq(Nat) /\ Len(s \o t) = Len(s) + Len(t)
        /\ \A i \in 1..Len(s) : (s \o t)[i] = s[i]
        /\ \A i \in 1..Len(t) : (s \o t)[Len(s) + i] = t[i]
    BY <2>1, ConcatParts
  <2>3. /\ v \in Seq(Nat) /\ Len(v) = Len(s) + Len(t)
        /\ \A i \in 1..Len(s) : v[i] = s[i]
        /\ \A i \in 1..Len(t) : v[Len(s) + i] = t[i]
    BY <2>2, Zenon DEF v
  <2> QED
    BY <1>1, <2>3
<1> HIDE DEF v
<1>3. ASSUME NEW i \in 1..(m + n) PROVE v[i] = u[i]
  <2>1. CASE i <= m
    BY <1>1, <1>2, <2>1
  <2>2. CASE i > m
    <3>1. i - m \in 1..n /\ m + (i - m) = i /\ first + m + (i - m) - 1 = first + i - 1
      BY <2>2
    <3>2. v[m + (i - m)] = t[i - m]
      BY <1>2, <3>1
    <3>3. t[i - m] = first + m + (i - m) - 1
      BY <1>1, <3>1
    <3> QED
      BY <1>1, <3>1, <3>2, <3>3
  <2> QED
    BY <2>1, <2>2
<1>4. v = u
  BY <1>1, <1>2, <1>3, SameSequence
<1> QED
  BY <1>4 DEF s, t, u, v

LEMMA PositionsFrom ==
  ASSUME NEW first \in Nat, NEW n \in Nat, NEW k \in 0..n
  PROVE  From(Positions(first, n), k + 1) = Positions(first + k, n - k)
<1> DEFINE s == Positions(first, n)
           t == Positions(first + k, n - k)
           u == From(s, k + 1)
<1>1. /\ s \in Seq(Nat) /\ Len(s) = n /\ \A i \in 1..n : s[i] = first + i - 1
      /\ t \in Seq(Nat) /\ Len(t) = n - k /\ \A i \in 1..(n - k) : t[i] = first + k + i - 1
  <2>1. first + k \in Nat /\ n - k \in Nat
    OBVIOUS
  <2> QED
    BY <2>1, PositionsAre
<1> HIDE DEF s, t
<1>2. /\ u \in Seq(Nat) /\ Len(u) = n - k
      /\ \A i \in 1..(n - k) : u[i] = s[k + i]
  <2>1. k \in Nat /\ k <= Len(s) /\ s \in Seq(Nat)
    BY <1>1
  <2> HIDE DEF u
  <2>2. /\ u \in Seq(Nat) /\ Len(u) = Len(s) - k
        /\ \A i \in 1..Len(s) - k : u[i] = s[k + i]
    BY <2>1, CutParts, ZenonT(60) DEF u, From
  <2> QED
    BY <1>1, <2>2
<1> HIDE DEF u
<1>3. ASSUME NEW i \in 1..(n - k) PROVE u[i] = t[i]
  <2>1. k + i \in 1..n
    OBVIOUS
  <2> QED
    BY <1>1, <1>2, <2>1
<1>4. u = t
  BY <1>1, <1>2, <1>3, SameSequence
<1> QED
  BY <1>4 DEF s, t, u

(* A frame of the stream: its end is a frame's start and lies in it, and   *)
(* no other frame starts in between.                                       *)
LEMMA NextFrame ==
  ASSUME NEW cells \in Seq(Nat), NEW limit \in Nat, WholeFrames(cells, limit),
         NEW p \in Headers(cells)
  PROVE  /\ p \in 1..Len(cells) /\ cells[p] \in 1..limit
         /\ FrameStart(cells, p + cells[p]) /\ p + cells[p] <= Len(cells) + 1
         /\ Headers(cells) \cap 1..(p + cells[p] - 1)
              = (Headers(cells) \cap 1..(p - 1)) \union {p}
<1>1. /\ Headers(cells) \subseteq 1..Len(cells) /\ Len(cells) \in Nat
      /\ cells[p] \in Nat /\ cells[p] > 0
  BY DEF Headers
<1>2. cells[p] <= limit /\ FrameStart(cells, p + cells[p])
  BY DEF WholeFrames, FrameStart
<1>3. \A q \in Headers(cells) : p < q => p + cells[p] <= q
  BY DEF WholeFrames
<1>4. p + cells[p] <= Len(cells) + 1
  BY <1>1, <1>2 DEF FrameStart
<1>5. ASSUME NEW q \in Headers(cells)
      PROVE  q \in 1..(p + cells[p] - 1) <=> q \in 1..(p - 1) \/ q = p
  <2>1. q \in Nat /\ q > 0 /\ p \in Nat /\ p > 0
    BY <1>1
  <2>2. p < q => p + cells[p] <= q
    BY <1>3
  <2> QED
    BY <1>1, <2>1, <2>2
<1>6. p \in 1..Len(cells) /\ cells[p] \in 1..limit
  BY <1>1, <1>2
<1> QED
  BY <1>2, <1>4, <1>5, <1>6

(* A frame is played behind those before it.                               *)
LEMMA PlayedNext ==
  ASSUME NEW cells \in Seq(Nat), NEW limit \in Nat, WholeFrames(cells, limit),
         NEW p \in Headers(cells), NEW s, NEW before, before = p - 1,
         NEW first \in Nat \ {0}, first <= p, Plays(s, cells, first, before),
         NEW end, end = p + cells[p] - 1
  PROVE  Plays(Append(s, p), cells, first, end)
<1>0. /\ s \in Seq(Nat)
      /\ {s[i] : i \in DOMAIN s} = Headers(cells) \cap first..(p - 1)
      /\ \A i, j \in DOMAIN s : i < j => s[i] < s[j]
  BY DEF Plays
<1> DEFINE t == Append(s, p)
<1>1. /\ p \in Nat
      /\ Headers(cells) \cap first..(p + cells[p] - 1)
           = (Headers(cells) \cap first..(p - 1)) \union {p}
  <2>1. /\ p \in 1..Len(cells) /\ cells[p] \in 1..limit /\ Headers(cells) \subseteq Nat
        /\ Headers(cells) \cap 1..(p + cells[p] - 1)
             = (Headers(cells) \cap 1..(p - 1)) \union {p}
    BY NextFrame, SMTT(30) DEF Headers
  <2>2. PICK size \in Nat : size = cells[p] /\ size > 0
    BY <2>1
  <2>3. ASSUME NEW q \in Nat
        PROVE  /\ q \in first..(p + size - 1) <=> q \in 1..(p + size - 1) /\ first <= q
               /\ q \in first..(p - 1) <=> q \in 1..(p - 1) /\ first <= q
    BY <2>1, <2>2, SMTT(30)
  <2> QED
    BY <2>1, <2>2, <2>3
<1>2. /\ t \in Seq(Nat) /\ DOMAIN s = 1..Len(s) /\ DOMAIN t = 1..(Len(s) + 1)
      /\ Len(s) \in Nat /\ t[Len(s) + 1] = p /\ \A i \in 1..Len(s) : t[i] = s[i]
  BY <1>0, <1>1
<1> HIDE DEF t
<1>3. {t[i] : i \in DOMAIN t} = {s[i] : i \in DOMAIN s} \union {p}
  <2>1. DOMAIN t = DOMAIN s \union {Len(s) + 1} /\ \A i \in DOMAIN s : t[i] = s[i]
    BY <1>2, SMTT(30)
  <2>2. t[Len(s) + 1] = p
    BY <1>2
  <2>3. \A x : x \in {t[i] : i \in DOMAIN t} <=> x \in {s[i] : i \in DOMAIN s} \/ x = p
    BY <2>1, <2>2, Zenon
  <2> QED
    BY <2>3, Zenon
<1>4. \A i \in DOMAIN s : s[i] \in 1..(p - 1)
  <2>1. \A i \in DOMAIN s : s[i] \in first..(p - 1)
    BY <1>0, Zenon
  <2>2. first..(p - 1) \subseteq 1..(p - 1)
    BY <1>1
  <2> QED
    BY <2>1, <2>2, Zenon
<1>5. ASSUME NEW i \in DOMAIN t, NEW j \in DOMAIN t, i < j PROVE t[i] < t[j]
  <2>1. CASE j = Len(s) + 1
    <3>1. i \in DOMAIN s /\ t[j] = p /\ t[i] = s[i]
      BY <1>2, <1>5, <2>1, SMTT(30)
    <3> QED
      BY <1>1, <1>4, <3>1
  <2>2. CASE j # Len(s) + 1
    <3>1. i \in DOMAIN s /\ j \in DOMAIN s /\ t[i] = s[i] /\ t[j] = s[j]
      BY <1>2, <1>5, <2>2, SMTT(60)
    <3> QED
      BY <1>0, <1>5, <3>1
  <2> QED
    BY <2>1, <2>2
<1>6. {t[i] : i \in DOMAIN t} = Headers(cells) \cap first..(p + cells[p] - 1)
  BY <1>0, <1>1, <1>3
<1> QED
  BY <1>2, <1>5, <1>6 DEF t, Plays

LEMMA NoSourceYet ==
  ASSUME NEW n \in Nat
  PROVE  Positions(1, n) \o [i \in 1..0 |-> Hole] = Positions(1, n)
<1>1. Positions(1, n) \in Seq(Nat)
  BY PositionsAre
<1>2. [i \in 1..0 |-> Hole] = <<>>
  OBVIOUS
<1> QED
  BY <1>1, <1>2

LEMMA OpensPlain == EncodedInv /\ openWithStream => EncodedInv'
<1> SUFFICES ASSUME EncodedInv, openWithStream PROVE EncodedInv'
  OBVIOUS
<1>1. PICK s \in EncodedStreams, n \in 3..HeadBytes :
        /\ n <= Len(s.cells) /\ innerStream' = s /\ position' = n
        /\ window' = Positions(1, n) \o [i \in 1..(HeadBytes - n) |-> Hole]
        /\ shortRead' = (n < HeadBytes)
  BY DEF openWithStream
<1>2. played' = <<>> /\ HeadBytes \in Nat /\ s.cells \in Seq(Nat) /\ n \in Nat
  BY <1>1, EncodedAssumption DEF openWithStream
<1>3. ASSUME PlainFrames'
      PROVE  PlayedBefore(0, Cells', position', window', played')
  <2>0. ~shortRead' /\ WholeFrames(s.cells, ReadBuf)
    BY <1>1, <1>3 DEF PlainFrames
  <2>1. n = HeadBytes
    <3>1. ~(n < HeadBytes)
      BY <1>1, <2>0, Zenon
    <3> QED
      BY <1>2, <3>1
  <2>2. window' = Positions(0 + 1, n - 0)
    <3>1. HeadBytes - n = 0 /\ 0 + 1 = 1 /\ n - 0 = n
      BY <1>2, <2>1
    <3>2. window' = Positions(1, n) \o [i \in 1..0 |-> Hole]
      BY <1>1, <3>1, Zenon
    <3>3. Positions(1, n) \o [i \in 1..0 |-> Hole] = Positions(1, n)
      BY <1>2, NoSourceYet, Zenon
    <3> QED
      BY <3>1, <3>2, <3>3, Zenon
  <2>3. FrameStart(s.cells, 0 + 1)
    BY <2>0 DEF WholeFrames, FrameStart
  <2>4. /\ {played'[i] : i \in DOMAIN played'} = Headers(s.cells) \cap 1..0
        /\ \A i, j \in DOMAIN played' : i < j => played'[i] < played'[j]
    BY <1>2
  <2> QED
    BY <1>1, <1>2, <2>2, <2>3, <2>4 DEF PlayedBefore, Plays, Cells
<1> QED
  BY <1>1, <1>2, <1>3 DEF EncodedInv

(* After a read that is not cut short the window begins with a whole       *)
(* frame, which is played.                                                 *)
LEMMA ReadsPlain ==
  ASSUME innerStream \in EncodedStreams, innerStream' = innerStream, innerStream # NoInner,
         PlainFrames, NEW before, PlayedBefore(before, Cells, position, window, played),
         NEW n \in 1..(ReadBuf - Len(window)),
         position + n <= Size, position' = position + n,
         ~(n < ReadBuf - Len(window) /\ position' < Size),
         DecodeWindow(window \o Positions(position + 1, n))
  PROVE  \E next : PlayedBefore(next, Cells', position', window', played')
<1> DEFINE bytes == window \o Positions(position + 1, n)
           headers == {i \in DOMAIN bytes : CellOf(bytes[i]) > 0}
           first == CHOOSE i \in headers : \A j \in headers : i <= j
           len == position - before + n
           size == Cells[before + 1]
<1>1. /\ Cells \in Seq(Nat) /\ Size = Len(Cells) /\ Size \in Nat /\ ReadBuf \in Nat
      /\ WholeFrames(Cells, ReadBuf)
  <2>1. innerStream.cells \in Seq(Nat) /\ ReadBuf \in Nat
    BY EncodedAssumption
  <2> QED
    BY <2>1 DEF Cells, Size, PlainFrames
<1>2. /\ position \in Nat /\ before <= position /\ position <= Size
      /\ window = Positions(before + 1, position - before) /\ FrameStart(Cells, before + 1)
      /\ Plays(played, Cells, 1, before) /\ before \in Nat
  BY DEF PlayedBefore, Cells, Size
<1>3. /\ Len(window) = position - before /\ position - before \in Nat /\ before + 1 \in Nat
      /\ n \in Nat /\ n > 0 /\ len \in Nat
  <2>1. position - before \in Nat /\ before + 1 \in Nat
    BY <1>2
  <2>2. Len(window) = position - before
    BY <1>2, <2>1, PositionsAre
  <2> QED
    BY <1>1, <2>1, <2>2
<1>4. bytes = Positions(before + 1, len)
  <2>1. position + 1 = (before + 1) + (position - before) /\ len = (position - before) + n
    BY <1>2, <1>3
  <2> HIDE DEF len
  <2>2. window \o Positions(position + 1, n) = Positions(before + 1, len)
    <3> DEFINE m == position - before
    <3>1. m \in Nat /\ window = Positions(before + 1, m)
      BY <1>2, <1>3
    <3>2. position + 1 = (before + 1) + m /\ len = m + n
      BY <2>1
    <3>3. PICK p, q : p = before + 1 /\ q = position + 1
      OBVIOUS
    <3> HIDE DEF m
    <3>4. p \in Nat /\ m \in Nat /\ n \in Nat /\ q = p + m /\ len = m + n
      BY <1>3, <3>1, <3>2, <3>3
    <3>5. Positions(p, m) \o Positions(p + m, n) = Positions(p, m + n)
      BY <3>4, PositionsJoin
    <3> QED
      BY <3>1, <3>3, <3>4, <3>5
  <2> QED
    BY <2>2
<1>5. before + 1 \in Headers(Cells)
  <2>1. before + 1 # Len(Cells) + 1
    BY <1>1, <1>2, <1>3
  <2> QED
    BY <1>2, <2>1 DEF FrameStart
<1>6. /\ size \in 1..ReadBuf /\ FrameStart(Cells, before + 1 + size)
      /\ before + 1 + size <= Size + 1
      /\ before + 1 \in 1..Len(Cells)
  BY <1>1, <1>5, NextFrame
<1> HIDE DEF bytes, size, len
<1>7. /\ bytes \in Seq(Nat) /\ Len(bytes) = len
      /\ \A i \in 1..len : bytes[i] = before + 1 + i - 1
  BY <1>3, <1>4, PositionsAre
<1>8. len > 0 /\ size <= len
  <2>1. CASE n = ReadBuf - Len(window)
    BY <1>1, <1>3, <1>6, <2>1 DEF len
  <2>2. CASE n # ReadBuf - Len(window)
    <3>1. n < ReadBuf - Len(window)
      BY <1>1, <1>3, <2>2
    <3>2. ~(position' < Size)
      BY <3>1
    <3>3. position + n = Size
      BY <1>1, <1>2, <1>3, <3>2
    <3> QED
      BY <1>1, <1>2, <1>3, <1>6, <3>3, SMTT(30) DEF len
  <2> QED
    BY <2>1, <2>2
<1>9. bytes[1] = before + 1 /\ CellOf(bytes[1]) = size
  <2>1. bytes[1] = before + 1
    BY <1>2, <1>3, <1>7, <1>8
  <2>2. before + 1 # Hole
    BY <1>2 DEF Hole
  <2> QED
    BY <2>1, <2>2 DEF CellOf, size, Cells
<1>10. 1 \in headers /\ headers \subseteq 1..len
  BY <1>6, <1>7, <1>8, <1>9
<1>11. first = 1
  <2> HIDE DEF headers
  <2>1. \A j \in headers : 1 <= j
    BY <1>10
  <2>2. first \in headers /\ \A j \in headers : first <= j
    BY <1>10, <2>1
  <2> HIDE DEF first
  <2> QED
    BY <1>10, <2>2
<1>12. From(bytes, first) = bytes
  <2>1. 0 \in 0..len /\ before + 1 = before + 1 + 0 /\ len = len - 0 /\ 0 + 1 = 1
    BY <1>2, <1>3
  <2>2. From(Positions(before + 1, len), 0 + 1) = Positions(before + 1 + 0, len - 0)
    BY <1>3, <2>1, PositionsFrom
  <2> HIDE DEF first
  <2> QED
    BY <1>4, <1>11, <2>1, <2>2
<1>13. WholeFrame(bytes)
  <2>1. bytes[size] = before + 1 + size - 1
    BY <1>6, <1>7, <1>8
  <2> QED
    BY <1>7, <1>8, <1>9, <2>1 DEF WholeFrame
<1>14. /\ window' = From(bytes, size + 1) /\ played' = Append(played, before + 1)
  <2>1. /\ window' = AfterDecode(From(bytes, first))
        /\ played' = IF WholeFrame(From(bytes, first))
                     THEN Append(played, From(bytes, first)[1]) ELSE played
    <3> HIDE DEF headers, first
    <3>1. headers # {}
      BY <1>10
    <3> QED
      BY <3>1 DEF DecodeWindow, bytes, headers, first
  <2> HIDE DEF first
  <2> QED
    BY <1>9, <1>12, <1>13, <2>1 DEF AfterDecode
<1>15. window' = Positions(before + size + 1, position' - (before + size))
  <2>1. size \in 0..len
    BY <1>3, <1>6, <1>8
  <2>2. window' = Positions(before + 1 + size, len - size)
    <3>1. PICK p, k, rest : p = before + 1 /\ k = p + size /\ rest = len - size
      OBVIOUS
    <3>2. p \in Nat
      BY <1>3, <3>1
    <3>3. From(Positions(p, len), size + 1) = Positions(p + size, len - size)
      BY <1>3, <2>1, <3>2, PositionsFrom
    <3> QED
      BY <1>4, <1>14, <3>1, <3>3
  <2>3. before + 1 + size = before + size + 1 /\ len - size = position' - (before + size)
    BY <1>2, <1>3, <1>6 DEF len
  <2> QED
    BY <2>2, <2>3
<1>16. Plays(played', Cells, 1, before + size)
  <2>1. /\ before = (before + 1) - 1 /\ before + size = (before + 1) + size - 1
        /\ 1 \in Nat \ {0} /\ 1 <= before + 1
    BY <1>2, <1>6
  <2> QED
    BY <1>1, <1>2, <1>5, <1>14, <2>1, PlayedNext DEF size
<1>17. /\ before + size \in Nat /\ position' \in Nat /\ before + size <= position'
       /\ position' <= Len(Cells)
  BY <1>1, <1>2, <1>3, <1>6, <1>8 DEF len
<1>18. FrameStart(Cells, before + size + 1)
  <2>1. before + 1 + size = before + size + 1
    BY <1>2, <1>6
  <2> QED
    BY <1>6, <2>1
<1>19. PlayedBefore(before + size, Cells, position', window', played')
  BY <1>15, <1>16, <1>17, <1>18 DEF PlayedBefore
<1> QED
  <2>1. Cells' = Cells
    BY DEF Cells
  <2> QED
    BY <1>19, <2>1

(* A read that delivers bytes has room for them, and the source has them.  *)
LEMMA ReadIsWithin ==
  ASSUME innerStream \in EncodedStreams,
         NEW before, PlayedBefore(before, Cells, position, window, played),
         NEW n \in Delivered, n # 0
  PROVE  n \in 1..(ReadBuf - Len(window)) /\ position + n <= Size
<1>1. /\ ReadBuf - Len(window) \in Int /\ position \in Nat /\ Size \in Nat
      /\ Size - position \in Nat
  <2>1. ReadBuf \in Nat /\ Cells \in Seq(Nat) /\ Size = Len(Cells)
    BY EncodedAssumption DEF Cells, Size
  <2>2. /\ position \in Nat /\ before \in Nat /\ before <= position /\ position <= Size
        /\ window = Positions(before + 1, position - before)
    BY <2>1 DEF PlayedBefore
  <2>3. before + 1 \in Nat /\ position - before \in Nat /\ Size - position \in Nat
    BY <2>1, <2>2
  <2>4. Len(window) = position - before
    BY <2>2, <2>3, PositionsAre
  <2>5. ReadBuf - Len(window) \in Int
    BY <2>1, <2>3, <2>4
  <2>6. Size \in Nat
    BY <2>1
  <2> QED
    BY <2>2, <2>3, <2>5, <2>6
<1>2. PICK space, rest, most :
        /\ space = ReadBuf - Len(window) /\ rest = Size - position
        /\ most = IF space < rest THEN space ELSE rest
  OBVIOUS
<1>3. n \in (IF most = 0 THEN {0} ELSE 1..most)
  BY <1>2 DEF Delivered, Least
<1>4. n \in 1..most
  BY <1>3
<1> QED
  BY <1>1, <1>2, <1>4

(* A call that reads comes to the next frame.                              *)
LEMMA DecodesPlain == EncodedInv /\ decodeFrame => EncodedInv'
<1> SUFFICES ASSUME EncodedInv, decodeFrame PROVE EncodedInv'
  OBVIOUS
<1>1. innerStream \in EncodedStreams /\ innerStream' = innerStream /\ innerStream # NoInner
  BY DEF EncodedInv, decodeFrame
<1>2. CASE UNCHANGED <<position, window, played, shortRead>>
  <2>1. /\ position' = position /\ window' = window /\ played' = played /\ Cells' = Cells
        /\ PlainFrames' => PlainFrames
    BY <1>1, <1>2 DEF PlainFrames, Cells
  <2> QED
    BY <1>1, <2>1 DEF EncodedInv
<1>3. ASSUME NEW n \in Delivered, position' = position + n,
             shortRead' = (shortRead \/ (n < ReadBuf - Len(window) /\ position' < Size)),
             IF n = 0 THEN UNCHANGED <<window, played>>
             ELSE DecodeWindow(window \o Positions(position + 1, n))
      PROVE  EncodedInv'
  <2>1. shortRead => shortRead'
    BY <1>3, Zenon
  <2>2. ASSUME ~PlainFrames' PROVE EncodedInv'
    BY <1>1, <2>2 DEF EncodedInv
  <2>3. ASSUME PlainFrames' PROVE EncodedInv'
    <3>1. PlainFrames /\ ~(n < ReadBuf - Len(window) /\ position' < Size)
      <4>1. ~shortRead' /\ innerStream.format = "MP3" /\ WholeFrames(Cells, ReadBuf)
        BY <1>1, <2>3 DEF PlainFrames, Cells
      <4> QED
        BY <1>3, <2>1, <4>1, Zenon DEF PlainFrames, Cells
    <3>2. PICK before : PlayedBefore(before, Cells, position, window, played)
      BY <1>1, <3>1 DEF EncodedInv
    <3>3. CASE n = 0
      <4>1. Cells' = Cells /\ position \in Nat
        BY <1>1, <3>2 DEF Cells, PlayedBefore
      <4>2. position' = position /\ window' = window /\ played' = played
        BY <1>3, <3>3, <4>1
      <4> QED
        BY <1>1, <3>2, <4>1, <4>2 DEF EncodedInv
    <3>4. CASE n # 0
      <4>1. n \in 1..(ReadBuf - Len(window)) /\ position + n <= Size
        BY <1>1, <1>3, <3>2, <3>4, ReadIsWithin
      <4> QED
        BY <1>1, <1>3, <3>1, <3>2, <3>4, <4>1, ReadsPlain DEF EncodedInv
    <3> QED
      BY <3>3, <3>4
  <2> QED
    BY <2>2, <2>3
<1> QED
  BY <1>2, <1>3 DEF decodeFrame

LEMMA FramesPlayed == EncodedInv => FramesBeforeWindowPlayed
<1> SUFFICES ASSUME EncodedInv, PlainFrames PROVE FramesBeforeWindowPlayed
  BY DEF FramesBeforeWindowPlayed, PlainFrames
<1>1. innerStream # NoInner
  BY DEF PlainFrames, NoInner
<1>2. PICK before : PlayedBefore(before, Cells, position, window, played)
  BY <1>1 DEF EncodedInv
<1>3. /\ before \in Nat /\ position \in Nat /\ before <= position
      /\ window = Positions(before + 1, position - before) /\ Plays(played, Cells, 1, before)
  BY <1>2 DEF PlayedBefore
<1>4. position - Len(window) = before
  <2>1. before + 1 \in Nat /\ position - before \in Nat
    BY <1>3
  <2>2. Len(window) = position - before
    BY <1>3, <2>1, PositionsAre
  <2> QED
    BY <1>3, <2>2
<1> QED
  BY <1>3, <1>4 DEF FramesBeforeWindowPlayed, Plays, Cells

LEMMA PlayedInv == EncodedInit /\ [][EncodedNext]_encodedVars => []FramesBeforeWindowPlayed
<1>1. EncodedInit => EncodedInv
  BY DEF EncodedInit, EncodedInv
<1>2. EncodedInv /\ [EncodedNext]_encodedVars => EncodedInv'
  <2> SUFFICES ASSUME EncodedInv, [EncodedNext]_encodedVars PROVE EncodedInv'
    OBVIOUS
  <2>1. CASE UNCHANGED encodedVars
    BY <2>1 DEF EncodedInv, PlainFrames, Cells, encodedVars
  <2> QED
    BY <2>1, OpensPlain, DecodesPlain DEF EncodedNext
<1>3. EncodedInv => FramesBeforeWindowPlayed
  BY FramesPlayed
<1> QED
  BY <1>1, <1>2, <1>3, PTL

------------------------------------------------------------------------------
(***************************************************************************)
(* The containers.  A container whose buffer begins behind c bytes.        *)
(***************************************************************************)
Offsets == 0..Len(stream)       (* a position in the stream, or never filled  *)

Buffers == [buf : Seq(Offsets), bytes : Nat, at : Nat, fetched : Nat]

(* The first bytes of buf are those of the stream behind c.                *)
Lies(buf, bytes, c) ==
  /\ buf \in Seq(Offsets) /\ Len(buf) = BUFFER_SIZE
  /\ \A i \in 1..bytes : buf[i] = Position(c + i)

(* Of the had bytes that were read, all but the last bytes are gone.       *)
Accounts(bytes, had, c) ==
  /\ stream \in Seq(Nat) /\ headDropped \in Nat
  /\ bytes \in Nat /\ had \in Nat /\ c \in Nat
  /\ bytes <= BUFFER_SIZE /\ had <= Len(stream) /\ had = c + bytes + headDropped
  /\ headDropped > 0 => HeadKept <= c + bytes

Fits(b, c) == b \in Buffers /\ Lies(b.buf, b.bytes, c) /\ Accounts(b.bytes, b.fetched, c)

LEMMA LeastIs ==
  ASSUME NEW m \in Nat, NEW n \in Nat
  PROVE  \E l \in Nat : l = Least(m, n) /\ l <= m /\ l <= n /\ l \in {m, n}
BY DEF Least

LEMMA PositionGrows ==
  ASSUME headDropped \in Nat, NEW i \in Nat, NEW j \in Nat
  PROVE  /\ Position(i) \in Nat
         /\ i < j => Position(i) < Position(j)
         /\ headDropped = 0 => Position(i) = i
BY ContainerAssumption DEF Position

(* What is left of a sequence of which the first n elements are dropped,   *)
(* with the last n doubled.                                                *)
LEMMA Shifted ==
  ASSUME NEW Elem, NEW s \in Seq(Elem), NEW n \in Nat, n <= Len(s),
         NEW t, t = SubSeq(s, n + 1, Len(s)) \o SubSeq(s, Len(s) - n + 1, Len(s))
  PROVE  /\ t \in Seq(Elem) /\ Len(t) = Len(s) /\ \A i \in 1..(Len(s) - n) : t[i] = s[n + i]
<1> DEFINE front == SubSeq(s, n + 1, Len(s))
           back == SubSeq(s, (Len(s) - n) + 1, Len(s))
<1>1. Len(s) \in Nat /\ Len(s) - n \in Nat /\ Len(s) - n <= Len(s)
  OBVIOUS
<1>2. /\ front \in Seq(Elem) /\ Len(front) = Len(s) - n
      /\ \A i \in 1..Len(s) - n : front[i] = s[n + i]
  BY CutParts
<1>3. back \in Seq(Elem) /\ Len(back) = Len(s) - (Len(s) - n)
  BY <1>1, CutParts
<1> HIDE DEF front, back
<1>4. t = front \o back
  BY DEF front, back
<1>5. /\ front \o back \in Seq(Elem) /\ Len(front \o back) = Len(front) + Len(back)
      /\ \A i \in 1..Len(front) : (front \o back)[i] = front[i]
  BY <1>2, <1>3, ConcatParts
<1> DEFINE both == front \o back
<1>6. /\ both \in Seq(Elem) /\ Len(both) = Len(s)
      /\ \A i \in 1..(Len(s) - n) : both[i] = s[n + i]
  <2>1. Len(front) + Len(back) = Len(s)
    <3>1. PICK all \in Nat : all = Len(s) /\ all - n \in Nat
      BY <1>1
    <3>2. PICK first \in Nat, last \in Nat :
            /\ first = Len(front) /\ last = Len(back)
            /\ first = all - n /\ last = all - (all - n)
      <4>1. all - n \in Nat /\ all - (all - n) \in Nat
        BY ONLY <3>1, all \in Nat, n \in Nat
      <4> QED
        BY <1>2, <1>3, <3>1, <4>1
    <3>3. first + last = all
      BY ONLY <3>2, all \in Nat, n \in Nat
    <3> QED
      BY ONLY <3>1, <3>2, <3>3
  <2>2. /\ both \in Seq(Elem) /\ Len(both) = Len(s)
        /\ \A i \in 1..(Len(s) - n) : both[i] = front[i]
    BY <1>2, <1>5, <2>1
  <2> HIDE DEF both
  <2> QED
    BY <1>2, <2>2
<1> HIDE DEF both
<1>7. t = both
  BY <1>4 DEF both
<1> QED
  BY <1>6, <1>7

LEMMA LiesAligned ==
  ASSUME NEW buf, NEW bytes \in Nat, NEW c \in Nat, Lies(buf, bytes, c), bytes <= BUFFER_SIZE,
         NEW drop \in Nat, drop <= bytes, NEW rest \in Nat, rest = bytes - drop,
         NEW new, new = SubSeq(buf, drop + 1, BUFFER_SIZE)
                          \o SubSeq(buf, BUFFER_SIZE - drop + 1, BUFFER_SIZE)
  PROVE  Lies(new, rest, c + drop)
<1>1. PICK size \in Nat : size = BUFFER_SIZE
  BY ContainerAssumption
<1>2. /\ buf \in Seq(Offsets) /\ Len(buf) = size /\ \A i \in 1..bytes : buf[i] = Position(c + i)
  BY <1>1 DEF Lies
<1>3. /\ new \in Seq(Offsets) /\ Len(new) = Len(buf)
      /\ \A i \in 1..(Len(buf) - drop) : new[i] = buf[drop + i]
  <2>1. drop <= Len(buf)
    BY <1>1, <1>2
  <2>2. new = SubSeq(buf, drop + 1, Len(buf)) \o SubSeq(buf, Len(buf) - drop + 1, Len(buf))
    BY <1>1, <1>2
  <2> QED
    BY ONLY <1>2, <2>1, <2>2, drop \in Nat, Shifted
<1>4. /\ new \in Seq(Offsets) /\ Len(new) = size
      /\ \A i \in 1..(size - drop) : new[i] = buf[drop + i]
  BY ONLY <1>2, <1>3
<1>5. ASSUME NEW i \in 1..rest PROVE new[i] = Position((c + drop) + i)
  <2>1. /\ i \in 1..(size - drop) /\ drop + i \in 1..bytes
        /\ c + (drop + i) = (c + drop) + i
    BY <1>1
  <2> QED
    BY ONLY <1>2, <1>4, <2>1
<1> QED
  BY ONLY <1>1, <1>4, <1>5 DEF Lies

LEMMA CountsAligned ==
  ASSUME NEW bytes, NEW had, NEW c, Accounts(bytes, had, c),
         NEW drop \in Nat, drop <= bytes, NEW rest \in Nat, rest = bytes - drop
  PROVE  Accounts(rest, had, c + drop)
BY ContainerAssumption DEF Accounts

LEMMA LiesFilled ==
  ASSUME NEW buf, NEW bytes \in Nat, NEW had, NEW c,
         Lies(buf, bytes, c), Accounts(bytes, had, c),
         NEW count \in Nat, NEW end \in Nat, end = bytes + count, end <= BUFFER_SIZE,
         had + count <= Len(stream),
         NEW new, new = SubSeq(buf, 1, bytes) \o [i \in 1..count |-> had + i]
                          \o SubSeq(buf, end + 1, BUFFER_SIZE)
  PROVE  Lies(new, end, c)
<1>1. PICK size \in Nat : size = BUFFER_SIZE /\ bytes <= size /\ end <= size
  BY ContainerAssumption
<1>2. /\ buf \in Seq(Offsets) /\ Len(buf) = size /\ \A i \in 1..bytes : buf[i] = Position(c + i)
  BY <1>1 DEF Lies
<1>3. had \in Nat /\ c \in Nat /\ headDropped \in Nat /\ had = c + bytes + headDropped
      /\ (headDropped > 0 => HeadKept <= c + bytes)
  BY DEF Accounts
<1> DEFINE front == SubSeq(buf, 1, bytes)
           more == [i \in 1..count |-> had + i]
           back == SubSeq(buf, end + 1, size)
           both == front \o more
           all == both \o back
<1>4. new = all
  BY <1>1
<1>5. front \in Seq(Offsets) /\ Len(front) = bytes /\ \A i \in 1..bytes : front[i] = buf[i]
  <2>1. bytes <= Len(buf)
    BY <1>1, <1>2
  <2> QED
    BY ONLY <1>2, <2>1, bytes \in Nat, CutParts
<1>6. more \in Seq(Offsets) /\ Len(more) = count /\ \A i \in 1..count : more[i] = had + i
  <2>1. Len(stream) \in Nat
    BY DEF Accounts
  <2>2. \A i \in 1..count : had + i \in Offsets
    BY ONLY <1>3, <2>1, count \in Nat, had + count <= Len(stream) DEF Offsets
  <2> QED
    BY ONLY <2>2, count \in Nat
<1>7. back \in Seq(Offsets) /\ Len(back) = size - end
  <2>1. end <= Len(buf)
    BY <1>1, <1>2
  <2>2. /\ SubSeq(buf, end + 1, Len(buf)) \in Seq(Offsets)
        /\ Len(SubSeq(buf, end + 1, Len(buf))) = Len(buf) - end
    BY ONLY <1>2, <2>1, end \in Nat, CutParts
  <2> QED
    BY ONLY <1>2, <2>2
<1> HIDE DEF front, more, back
<1>8. /\ both \in Seq(Offsets) /\ Len(both) = Len(front) + Len(more)
      /\ \A i \in 1..Len(front) : both[i] = front[i]
      /\ \A i \in 1..Len(more) : both[Len(front) + i] = more[i]
  <2>1. front \in Seq(Offsets) /\ more \in Seq(Offsets)
    BY <1>5, <1>6
  <2> QED
    BY ONLY <2>1, ConcatParts
<1> HIDE DEF both
<1>9. /\ all \in Seq(Offsets) /\ Len(all) = Len(both) + Len(back)
      /\ \A i \in 1..Len(both) : all[i] = both[i]
  <2>1. both \in Seq(Offsets) /\ back \in Seq(Offsets)
    BY <1>7, <1>8
  <2> QED
    BY ONLY <2>1, ConcatParts
<1> HIDE DEF all
<1>10. /\ Len(all) = size /\ Len(both) = end
       /\ \A i \in 1..bytes : both[i] = buf[i]
       /\ \A i \in 1..count : both[bytes + i] = had + i
       /\ \A i \in 1..end : all[i] = both[i]
  <2>1. Len(both) = end
    BY ONLY <1>5, <1>6, <1>8, end = bytes + count
  <2>2. Len(all) = size
    BY ONLY <1>1, <1>7, <1>9, <2>1, end \in Nat
  <2> QED
    BY ONLY <1>5, <1>6, <1>8, <1>9, <2>1, <2>2
<1>11. ASSUME NEW i \in 1..end PROVE all[i] = Position(c + i)
  <2>1. CASE i <= bytes
    <3>1. i \in 1..bytes
      BY <2>1
    <3> QED
      BY ONLY <1>2, <1>10, <3>1, i \in 1..end
  <2>2. CASE i > bytes
    <3>1. PICK j \in 1..count : i = bytes + j
      <4>1. i - bytes \in 1..count /\ i = bytes + (i - bytes)
        BY <2>2
      <4> QED
        BY <4>1
    <3>2. all[i] = had + j
      BY ONLY <1>10, <3>1, i \in 1..end, j \in 1..count
    <3>3. PICK lost \in Nat, kept \in Nat : lost = headDropped /\ kept = HeadKept
      BY <1>3, ContainerAssumption
    <3>4. PICK q \in Nat : q = c + i
      BY <1>3
    <3>5. Position(q) = IF lost > 0 /\ q > kept THEN q + lost ELSE q
      BY <3>3 DEF Position
    <3>6. had + j = q + lost /\ (lost > 0 => q > kept)
      BY <1>3, <3>1, <3>3, <3>4
    <3>7. Position(q) = q + lost
      BY ONLY <3>5, <3>6, lost \in Nat, q \in Nat
    <3> QED
      BY ONLY <3>2, <3>4, <3>6, <3>7
  <2> QED
    BY <2>1, <2>2
<1> QED
  BY ONLY <1>1, <1>4, <1>9, <1>10, <1>11 DEF Lies

LEMMA CountsFilled ==
  ASSUME NEW bytes, NEW had, NEW c, Accounts(bytes, had, c),
         NEW count \in Nat, NEW end \in Nat, end = bytes + count, end <= BUFFER_SIZE,
         NEW more \in Nat, more = had + count, more <= Len(stream)
  PROVE  Accounts(end, more, c)
BY ContainerAssumption DEF Accounts

(* Aligning drops the first bytes, and moves the others to the front.      *)
LEMMA AlignedFits ==
  ASSUME NEW b, NEW c, Fits(b, c)
  PROVE  \E drop \in Nat :
           /\ drop = Least(b.at, b.bytes) /\ drop <= b.at /\ drop \in {b.at, b.bytes}
           /\ Fits(Aligned(b), c + drop) /\ Aligned(b).at = b.at - drop
<1>1. b \in Buffers /\ Lies(b.buf, b.bytes, c) /\ Accounts(b.bytes, b.fetched, c)
  BY DEF Fits
<1>2. PICK old \in Seq(Offsets), bytes \in Nat, at \in Nat, had \in Nat :
        b.buf = old /\ b.bytes = bytes /\ b.at = at /\ b.fetched = had
  BY <1>1 DEF Buffers
<1>3. c \in Nat /\ bytes <= BUFFER_SIZE
  BY <1>1, <1>2 DEF Accounts
<1>4. PICK drop \in Nat :
        drop = Least(at, bytes) /\ drop <= at /\ drop <= bytes /\ drop \in {at, bytes}
  BY LeastIs, Zenon
<1>5. PICK less \in Nat, rest \in Nat : less = at - drop /\ rest = bytes - drop
  <2>1. at - drop \in Nat /\ bytes - drop \in Nat
    BY ONLY <1>4, at \in Nat, bytes \in Nat, drop \in Nat
  <2> QED
    BY ONLY <2>1
<1>6. PICK new : new = SubSeq(old, drop + 1, BUFFER_SIZE)
                         \o SubSeq(old, BUFFER_SIZE - drop + 1, BUFFER_SIZE)
  OBVIOUS
<1>7. Lies(new, rest, c + drop)
  BY ONLY <1>1, <1>2, <1>3, <1>4, <1>5, <1>6, LiesAligned
<1>8. Accounts(rest, had, c + drop)
  BY ONLY <1>1, <1>2, <1>4, <1>5, CountsAligned
<1>9. Aligned(b) = [b EXCEPT !.buf = new, !.at = less, !.bytes = rest]
  BY <1>1, <1>2, <1>4, <1>5, <1>6 DEF Aligned
<1>10. /\ Aligned(b) \in Buffers /\ Aligned(b).buf = new /\ Aligned(b).bytes = rest
       /\ Aligned(b).at = less /\ Aligned(b).fetched = had
  <2>1. new \in Seq(Offsets)
    BY <1>7 DEF Lies
  <2> DEFINE e == [b EXCEPT !.buf = new, !.at = less, !.bytes = rest]
  <2>2. e \in Buffers /\ e.buf = new /\ e.bytes = rest /\ e.at = less /\ e.fetched = b.fetched
    BY <1>1, <2>1 DEF Buffers
  <2>3. Aligned(b) = e
    BY <1>9
  <2> HIDE DEF e
  <2> QED
    BY ONLY <1>2, <2>2, <2>3
<1>11. Fits(Aligned(b), c + drop)
  BY <1>7, <1>8, <1>10 DEF Fits
<1> QED
  BY <1>2, <1>4, <1>5, <1>10, <1>11

(* Filling appends what the stream has next, to its end if less than two   *)
(* frames are buffered then.                                               *)
LEMMA FilledFits ==
  ASSUME NEW b, NEW c, Fits(b, c)
  PROVE  /\ Fits(fillBuffer(b), c) /\ fillBuffer(b).at = b.at
         /\ fillBuffer(b).bytes < 2 * MaxFrameSize => fillBuffer(b).fetched = Len(stream)
<1>1. b \in Buffers /\ Lies(b.buf, b.bytes, c) /\ Accounts(b.bytes, b.fetched, c)
  BY DEF Fits
<1>2. PICK old \in Seq(Offsets), bytes \in Nat, at \in Nat, had \in Nat :
        b.buf = old /\ b.bytes = bytes /\ b.at = at /\ b.fetched = had
  BY <1>1 DEF Buffers
<1>3. PICK size \in Nat, all \in Nat, limit \in Nat :
        size = BUFFER_SIZE /\ all = Len(stream) /\ limit = 2 * MaxFrameSize /\ limit <= size
  <2>1. /\ BUFFER_SIZE \in Nat /\ 2 * MaxFrameSize \in Nat /\ 2 * MaxFrameSize <= BUFFER_SIZE
    BY ContainerAssumption
  <2>2. Len(stream) \in Nat
    BY <1>1 DEF Accounts
  <2> QED
    BY ONLY <2>1, <2>2
<1>4. bytes <= size /\ had <= all
  BY <1>1, <1>2, <1>3 DEF Accounts
<1>5. PICK free \in Nat, rest \in Nat : free = size - bytes /\ rest = all - had
  BY ONLY <1>4, size \in Nat, all \in Nat, bytes \in Nat, had \in Nat
<1>6. PICK l \in Nat : l = Least(free, rest) /\ l <= free /\ l <= rest /\ l \in {free, rest}
  BY LeastIs, Zenon
<1>7. PICK count \in Nat : count = IF bytes < limit THEN l ELSE 0
  OBVIOUS
<1>8. PICK end \in Nat, more \in Nat : end = bytes + count /\ more = had + count
  OBVIOUS
<1>9. end <= size /\ more <= all /\ (end < limit => more = all)
  <2>1. limit <= size
    BY <1>3
  <2>2. CASE bytes < limit
    <3>1. count = l
      BY <1>7, <2>2
    <3>2. end <= size /\ more <= all
      <4>1. end <= size
        BY ONLY <1>4, <1>5, <1>6, <1>8, <3>1, size \in Nat, bytes \in Nat, count \in Nat,
           free \in Nat, SMTT(30)
      <4>2. more <= all
        BY ONLY <1>4, <1>5, <1>6, <1>8, <3>1, all \in Nat, had \in Nat, count \in Nat,
           rest \in Nat, SMTT(30)
      <4> QED
        BY <4>1, <4>2
    <3>3. CASE l = free
      BY ONLY <1>5, <1>8, <2>1, <3>1, <3>2, <3>3, size \in Nat, bytes \in Nat, limit \in Nat,
         count \in Nat, free \in Nat
    <3>4. CASE l = rest
      BY ONLY <1>5, <1>8, <3>1, <3>2, <3>4, all \in Nat, had \in Nat, count \in Nat, rest \in Nat
    <3> QED
      BY ONLY <1>6, <3>3, <3>4
  <2>3. CASE ~(bytes < limit)
    BY ONLY <1>4, <1>7, <1>8, <2>3, size \in Nat, all \in Nat, limit \in Nat,
       bytes \in Nat, had \in Nat, count \in Nat
  <2> QED
    BY ONLY <2>2, <2>3
<1>10. PICK new : new = SubSeq(old, 1, bytes) \o [i \in 1..count |-> had + i]
                          \o SubSeq(old, end + 1, BUFFER_SIZE)
  OBVIOUS
<1>11. Lies(new, end, c)
  <2>1. /\ end <= BUFFER_SIZE /\ had + count <= Len(stream)
        /\ Lies(old, bytes, c) /\ Accounts(bytes, had, c)
    BY <1>1, <1>2, <1>3, <1>8, <1>9
  <2> QED
    BY ONLY <1>8, <1>10, <2>1, LiesFilled, bytes \in Nat, count \in Nat, end \in Nat
<1>12. Accounts(end, more, c)
  BY ONLY <1>1, <1>2, <1>3, <1>8, <1>9, CountsFilled, count \in Nat, end \in Nat, more \in Nat
<1>13. fillBuffer(b) = [b EXCEPT !.buf = new, !.bytes = end, !.fetched = more]
  BY <1>1, <1>2, <1>3, <1>5, <1>6, <1>7, <1>8, <1>10 DEF fillBuffer
<1>14. /\ fillBuffer(b) \in Buffers /\ fillBuffer(b).buf = new /\ fillBuffer(b).bytes = end
       /\ fillBuffer(b).at = at /\ fillBuffer(b).fetched = more
  <2>1. new \in Seq(Offsets)
    BY <1>11 DEF Lies
  <2> DEFINE e == [b EXCEPT !.buf = new, !.bytes = end, !.fetched = more]
  <2>2. e \in Buffers /\ e.buf = new /\ e.bytes = end /\ e.at = b.at /\ e.fetched = more
    BY <1>1, <2>1 DEF Buffers
  <2>3. fillBuffer(b) = e
    BY <1>13
  <2> HIDE DEF e
  <2> QED
    BY ONLY <1>2, <2>2, <2>3
<1>15. Fits(fillBuffer(b), c)
  BY <1>11, <1>12, <1>14 DEF Fits
<1> QED
  BY <1>2, <1>3, <1>9, <1>14, <1>15

(* A cell in the buffer is one of the stream.                              *)
LEMMA CellInside ==
  ASSUME NEW b, NEW c, Fits(b, c), NEW i \in Nat, i < b.bytes, NEW behind
  PROVE  /\ b.buf[i + 1] = Position(c + i + 1)
         /\ Position(c + i + 1) \in 1..Len(stream)
         /\ Cell(b, i, behind) = stream[Position(c + i + 1)]
         /\ stream[Position(c + i + 1)] \in Nat
<1>1. b \in Buffers /\ Lies(b.buf, b.bytes, c) /\ Accounts(b.bytes, b.fetched, c)
  BY DEF Fits
<1>2. PICK size \in Nat, bytes \in Nat, had \in Nat, lost \in Nat, kept \in Nat, all \in Nat :
        /\ size = BUFFER_SIZE /\ bytes = b.bytes /\ had = b.fetched /\ lost = headDropped
        /\ kept = HeadKept /\ all = Len(stream)
  <2>1. BUFFER_SIZE \in Nat /\ HeadKept \in Nat
    BY ContainerAssumption
  <2>2. b.bytes \in Nat /\ b.fetched \in Nat /\ headDropped \in Nat /\ Len(stream) \in Nat
    BY <1>1 DEF Accounts
  <2> QED
    BY ONLY <2>1, <2>2
<1>3. /\ c \in Nat /\ bytes <= size /\ had <= all /\ had = c + bytes + lost
      /\ lost > 0 => kept <= c + bytes
  BY <1>1, <1>2 DEF Accounts
<1>4. i < bytes /\ i < size /\ i + 1 \in 1..bytes
  BY <1>2, <1>3
<1>5. b.buf[i + 1] = Position(c + (i + 1)) /\ c + (i + 1) = c + i + 1
  BY <1>1, <1>2, <1>3, <1>4 DEF Lies
<1>6. PICK p : p = Position(c + i + 1)
  OBVIOUS
<1>7. p = IF lost > 0 /\ c + i + 1 > kept THEN c + i + 1 + lost ELSE c + i + 1
  BY <1>2, <1>6 DEF Position
<1>8. p \in 1..all
  BY ONLY <1>3, <1>4, <1>7, c \in Nat, i \in Nat, size \in Nat, bytes \in Nat, had \in Nat,
     lost \in Nat, kept \in Nat, all \in Nat
<1>9. ~(i >= BUFFER_SIZE) /\ b.buf[i + 1] = p /\ p # 0
  BY <1>2, <1>4, <1>5, <1>6, <1>8
<1>10. Cell(b, i, behind) = stream[p]
  BY <1>9, Zenon DEF Cell
<1>11. stream[p] \in Nat
  BY <1>1, <1>2, <1>8, SMTT(30) DEF Accounts
<1> QED
  BY <1>2, <1>5, <1>6, <1>8, <1>10, <1>11

LEMMA CellIsNumber ==
  ASSUME NEW b, NEW c, Fits(b, c), NEW i \in Nat, NEW behind \in Nat
  PROVE  Cell(b, i, behind) \in Nat
<1>1. /\ b.buf \in Seq(Offsets) /\ Len(b.buf) = BUFFER_SIZE /\ stream \in Seq(Nat)
      /\ BUFFER_SIZE \in Nat
  BY ContainerAssumption DEF Fits, Lies, Accounts
<1>2. CASE i >= BUFFER_SIZE
  BY <1>2 DEF Cell
<1>3. CASE ~(i >= BUFFER_SIZE)
  <2>1. i + 1 \in 1..Len(b.buf)
    BY <1>1, <1>3
  <2>2. PICK p \in Offsets : p = b.buf[i + 1]
    BY <1>1, <2>1
  <2>3. p = 0 \/ stream[p] \in Nat
    BY <1>1, <2>2 DEF Offsets
  <2> QED
    BY <1>3, <2>2, <2>3 DEF Cell
<1> QED
  BY <1>2, <1>3

(* b with its offset moved.                                                *)
Moved(e, b) ==
  e \in Buffers /\ e.buf = b.buf /\ e.bytes = b.bytes /\ e.fetched = b.fetched

LEMMA MovedFits ==
  ASSUME NEW b, NEW c, Fits(b, c), NEW e, Moved(e, b)
  PROVE  Fits(e, c)
BY DEF Fits, Moved

LEMMA MovedTo ==
  ASSUME NEW b, NEW c, Fits(b, c), NEW x \in Nat
  PROVE  Moved([b EXCEPT !.at = x], b) /\ [b EXCEPT !.at = x].at = x
BY DEF Fits, Moved, Buffers

(* Resyncing moves only the offset, and where it finds a frame, there is   *)
(* one in the buffer, unless it began beyond the bytes.                    *)
LEMMA Resyncs ==
  ASSUME NEW b, NEW c, Fits(b, c), NEW behind \in Nat, NEW r, r = resyncADTS(b, behind)
  PROVE  /\ Moved(r.b, b) /\ r.found \in {"yes", "no", "loops"}
         /\ ~Strays(b) /\ r.found = "yes" => r.b.at < b.bytes
<1>1. PICK bytes \in Nat, at \in Nat, valid \in Int :
        bytes = b.bytes /\ at = b.at /\ valid = bytes - at
  <2>1. b.bytes \in Nat /\ b.at \in Nat
    BY DEF Fits, Buffers
  <2> QED
    BY <2>1
<1> DEFINE At(o) == Cell(b, b.at + o, behind)
           fits == IF Strays(b) THEN {o \in 0..(BUFFER_SIZE - b.at) : At(o) > 0}
                   ELSE {o \in 0..(valid - 1) : At(o) > 0 /\ At(o) + o <= valid}
           first == CHOOSE o \in fits : \A q \in fits : o <= q
           second == first + At(first)
           found == IF At(second) > 0 /\ At(second + At(second)) > 0 THEN "yes" ELSE "loops"
           end == IF Strays(b) THEN at ELSE bytes
           lost == IF Strays(b) THEN "loops" ELSE "no"
<1>2. r = IF fits = {} THEN [b |-> [b EXCEPT !.at = end], found |-> lost]
          ELSE [b |-> [b EXCEPT !.at = at + first], found |-> found]
  <2>1. r = IF fits = {}
            THEN [b |-> [b EXCEPT !.at = IF Strays(b) THEN b.at ELSE b.bytes], found |-> lost]
            ELSE [b |-> [b EXCEPT !.at = b.at + first], found |-> found]
    BY <1>1, Zenon DEF resyncADTS
  <2> HIDE DEF fits, first, found, lost
  <2> QED
    BY <1>1, <2>1, Zenon
<1>3. fits \in SUBSET Nat /\ (~Strays(b) => fits \subseteq 0..(valid - 1))
  <2>1. BUFFER_SIZE - at \in Int
    BY <1>1, ContainerAssumption
  <2> QED
    BY <1>1, <2>1
<1>4. found \in {"yes", "loops"} /\ lost \in {"no", "loops"} /\ end \in Nat
  OBVIOUS
<1> HIDE DEF fits, found, end, lost
<1>5. CASE fits = {}
  <2>1. Moved([b EXCEPT !.at = end], b)
    BY <1>4, MovedTo
  <2>2. r.b = [b EXCEPT !.at = end] /\ r.found = lost
    BY <1>2, <1>5
  <2> QED
    BY <1>4, <2>1, <2>2
<1>6. CASE fits # {}
  <2>1. first \in fits
    BY <1>3, <1>6, LeastOfSet, Zenon
  <2>2. PICK x \in Nat : x = first /\ (~Strays(b) => x \in 0..(valid - 1))
    BY <1>3, <2>1
  <2>3. at + x \in Nat /\ (~Strays(b) => at + x < bytes)
    BY <1>1, <2>2
  <2>4. Moved([b EXCEPT !.at = at + x], b) /\ [b EXCEPT !.at = at + x].at = at + x
    BY <2>3, MovedTo
  <2>5. r.b = [b EXCEPT !.at = at + x] /\ r.found = found
    BY <1>2, <1>6, <2>2
  <2> QED
    BY <1>1, <1>4, <2>3, <2>4, <2>5
<1> QED
  BY <1>5, <1>6

(* What the frame of a sample is: nothing, or the first bytes of it.       *)
LEMMA FrameIsNumber ==
  ASSUME NEW s, NEW c, Fits(s.b, c), s.len \in Int
  PROVE  FrameAt(s) \in Nat /\ (FrameAt(s) > 0 => s.len > 0)
<1>1. s.b.at \in Nat
  BY DEF Fits, Buffers
<1>2. Cell(s.b, s.b.at, 0) \in Nat
  BY <1>1, CellIsNumber
<1>3. FrameAt(s) = 0 \/ (FrameAt(s) = Cell(s.b, s.b.at, 0) /\ Cell(s.b, s.b.at, 0) \in 1..s.len)
  BY DEF FrameAt
<1> QED
  BY <1>2, <1>3

(* A sample read from b: where it has a frame, that begins in the buffer.  *)
Reads(s, b) ==
  /\ Moved(s.b, b) /\ s.len \in Int
  /\ s.is = "sample" /\ codecType = "AAC" => s.len \in Nat

Inside(s, b) == s.is = "sample" /\ FrameAt(s) > 0 => s.b.at < b.bytes

LEMMA ADTSReads ==
  ASSUME NEW b, NEW c, Fits(b, c), NEW behind \in Nat, NEW junk \in Nat,
         NEW s \in ADTSRead(b, behind, junk)
  PROVE  /\ Reads(s, b) /\ (~Strays(b) => Inside(s, b))
         /\ s.is = "end" => s = Ended(b) /\ b.bytes < MaxFrameSize
<1> DEFINE header == Cell(b, b.at, behind)
           len == IF header > 0 THEN header ELSE junk
<1>1. b \in Buffers /\ b.bytes \in Nat /\ b.at \in Nat /\ Moved(b, b)
  BY DEF Fits, Buffers, Moved
<1>2. len \in Nat
  <2>1. header \in Nat
    BY <1>1, CellIsNumber
  <2> QED
    BY <2>1
<1> HIDE DEF len, header
<1>3. ASSUME NEW e, Fits(e, c), NEW needed, NEW r, r = Resynced(e, behind, needed)
      PROVE  /\ Moved(r.b, e) /\ r.found \in {"yes", "no", "loops"}
             /\ needed /\ ~Strays(e) /\ r.found = "yes" => r.b.at < e.bytes
             /\ ~needed => r.b = e
  <2>1. Moved(e, e)
    BY <1>3 DEF Fits, Moved
  <2>2. CASE needed
    BY <1>3, <2>2, Resyncs DEF Resynced
  <2>3. CASE ~needed
    BY <1>3, <2>1, <2>3 DEF Resynced
  <2> QED
    BY <2>2, <2>3
<1>4. CASE b.bytes < MaxFrameSize
  <2>1. s = Ended(b)
    BY <1>4 DEF ADTSRead
  <2> QED
    BY <1>1, <1>4, <2>1 DEF Ended, Reads, Inside
<1>5. CASE ~(b.bytes < MaxFrameSize)
  <2>1. PICK r : /\ r = Resynced(b, behind, header = 0)
                 /\ s \in (IF r.found # "yes" THEN {NoSample(r)}
                           ELSE {IF q.found # "yes" THEN NoSample(q) ELSE Sample(q.b, len) :
                                   q \in {Resynced(r.b, behind,
                                                   ~Strays(r.b) /\ len > r.b.bytes - r.b.at)}})
    BY <1>5, Zenon DEF ADTSRead, header, len
  <2>2. Moved(r.b, b) /\ Fits(r.b, c) /\ r.found \in {"yes", "no", "loops"}
    BY <1>3, <2>1, MovedFits
  <2>3. CASE r.found # "yes"
    <3>1. s = NoSample(r)
      BY <2>1, <2>3
    <3> QED
      BY <2>2, <3>1 DEF NoSample, Reads, Inside
  <2>4. CASE r.found = "yes"
    <3> DEFINE short == ~Strays(r.b) /\ len > r.b.bytes - r.b.at
    <3>1. PICK q : /\ q = Resynced(r.b, behind, short)
                   /\ s = IF q.found # "yes" THEN NoSample(q) ELSE Sample(q.b, len)
      BY <2>1, <2>4, Zenon
    <3>2. /\ Moved(q.b, r.b) /\ q.found \in {"yes", "no", "loops"}
          /\ short /\ q.found = "yes" => q.b.at < r.b.bytes
          /\ ~short => q.b = r.b
      <4>1. CASE short
        <5>1. q = Resynced(r.b, behind, TRUE) /\ ~Strays(r.b)
          BY <3>1, <4>1 DEF Resynced
        <5> HIDE DEF short
        <5> QED
          BY ONLY <1>3, <2>2, <4>1, <5>1
      <4>2. CASE ~short
        <5>1. q = Resynced(r.b, behind, FALSE)
          BY <3>1, <4>2 DEF Resynced
        <5> HIDE DEF short
        <5> QED
          BY ONLY <1>3, <2>2, <4>2, <5>1
      <4> QED
        BY <4>1, <4>2
    <3>3. Moved(q.b, b) /\ r.b.bytes = b.bytes
      BY <2>2, <3>2 DEF Moved
    <3>4. CASE q.found # "yes"
      <4>1. s = NoSample(q)
        BY <3>1, <3>4
      <4> QED
        BY <3>2, <3>3, <4>1 DEF NoSample, Reads, Inside
    <3>5. CASE q.found = "yes"
      <4>1. s = Sample(q.b, len)
        BY <3>1, <3>5
      <4>2. s.b = q.b /\ s.len = len /\ s.is = "sample"
        BY <4>1 DEF Sample
      <4>3. ASSUME FrameAt(s) > 0, ~Strays(b) PROVE s.b.at < b.bytes
        <5>1. CASE short
          <6> HIDE DEF short
          <6> QED
            BY <3>2, <3>3, <3>5, <4>2, <5>1
        <5>2. CASE ~short
          <6>1. q.b = r.b
            BY <3>2, <5>2
          <6>2. Fits(s.b, c)
            BY <2>2, <4>2, <6>1
          <6>3. len > 0
            BY <1>2, <4>2, <4>3, <6>2, FrameIsNumber
          <6>4. r.b.at \in Nat /\ b.bytes \in Nat /\ b.at \in Nat
            BY <1>1, <2>2 DEF Moved, Buffers
          <6>5. CASE header = 0
            <7>1. r = Resynced(b, behind, TRUE)
              BY <2>1, <6>5 DEF Resynced
            <7> QED
              BY ONLY <1>3, <2>4, <4>2, <4>3, <6>1, <7>1, Fits(b, c)
          <6>6. CASE header # 0
            <7>1. r.b = b
              BY <2>1, <6>6 DEF Resynced
            <7> QED
              BY <1>2, <4>2, <4>3, <5>2, <6>1, <6>3, <6>4, <7>1 DEF Strays
          <6> QED
            BY <6>5, <6>6
        <5> QED
          BY <5>1, <5>2
      <4> QED
        BY <1>2, <3>3, <4>2, <4>3 DEF Reads, Inside
    <3> QED
      BY <3>4, <3>5
  <2> QED
    BY <2>3, <2>4
<1> QED
  BY <1>4, <1>5

LEMMA MP3Reads ==
  ASSUME NEW b, NEW c, Fits(b, c), codecType # "AAC", NEW s, s = MP3Read(b)
  PROVE  /\ Reads(s, b) /\ Inside(s, b)
         /\ s.is = "end" => s = Ended(b) /\ b.bytes < 2 * MaxFrameSize
<1>1. b \in Buffers /\ b.bytes \in Nat /\ b.at \in Nat /\ Moved(b, b) /\ MaxFrameSize \in Nat
  BY ContainerAssumption DEF Fits, Buffers, Moved
<1> DEFINE headers == {i \in 0..(b.bytes - 1) : Cell(b, i, 0) > 0}
           first == CHOOSE i \in headers : \A j \in headers : i <= j
<1>2. headers \in SUBSET Nat
  BY <1>1
<1>3. s = IF b.bytes < 2 * MaxFrameSize THEN Ended(b)
          ELSE IF headers = {}
               THEN [Ended([b EXCEPT !.at = MaxFrameSize]) EXCEPT !.is = "null"]
               ELSE Sample([b EXCEPT !.at = b.at + first], b.bytes - (b.at + first))
  BY Zenon DEF MP3Read
<1> HIDE DEF headers
<1>4. CASE b.bytes < 2 * MaxFrameSize
  BY <1>1, <1>3, <1>4 DEF Ended, Reads, Inside
<1>5. CASE ~(b.bytes < 2 * MaxFrameSize) /\ headers = {}
  <2>1. PICK e : e = [b EXCEPT !.at = MaxFrameSize]
    OBVIOUS
  <2>2. Moved(e, b)
    BY <1>1, <2>1, MovedTo
  <2>3. s = [Ended(e) EXCEPT !.is = "null"]
    BY <1>3, <1>5, <2>1
  <2> QED
    BY <2>2, <2>3 DEF Ended, Reads, Inside
<1>6. CASE ~(b.bytes < 2 * MaxFrameSize) /\ headers # {}
  <2>1. first \in headers
    BY <1>2, <1>6, LeastOfSet, Zenon
  <2>2. PICK at \in Nat : at = b.at + first
    <3>1. first \in Nat
      BY <1>2, <2>1
    <3>2. b.at + first \in Nat
      BY <1>1, <3>1
    <3> QED
      BY <3>2
  <2> DEFINE e == [b EXCEPT !.at = at]
  <2>3. Moved(e, b) /\ e.at = at
    BY MovedTo
  <2>4. s = Sample(e, b.bytes - at)
    BY <1>3, <1>6, <2>2
  <2> HIDE DEF e
  <2>5. s.b = e /\ s.len = b.bytes - at /\ s.len \in Int /\ s.is = "sample"
    BY <1>1, <2>4 DEF Sample
  <2>6. Fits(s.b, c)
    BY <2>3, <2>5, MovedFits
  <2>7. FrameAt(s) > 0 => s.b.at < b.bytes
    <3>1. FrameAt(s) > 0 => s.len > 0
      BY ONLY <2>5, <2>6, FrameIsNumber
    <3> QED
      BY <1>1, <2>3, <2>5, <3>1
  <2> QED
    BY <2>3, <2>5, <2>7 DEF Reads, Inside
<1> QED
  BY <1>4, <1>5, <1>6

(* The sequence s ascends, and is below bound.                             *)
Ascends(s, bound) ==
  /\ s \in Seq(Nat)
  /\ \A i \in DOMAIN s : s[i] < bound
  /\ \A i, j \in DOMAIN s : i < j => s[i] < s[j]

LEMMA AscendsNext ==
  ASSUME NEW bound \in Nat, NEW s, Ascends(s, bound), NEW p \in Nat, bound <= p,
         NEW q \in Nat, p < q
  PROVE  Ascends(Append(s, p), q) /\ Ascends(s, q)
<1>1. /\ s \in Seq(Nat) /\ (\A i \in DOMAIN s : s[i] < bound)
      /\ \A i, j \in DOMAIN s : i < j => s[i] < s[j]
  BY DEF Ascends
<1> DEFINE t == Append(s, p)
<1>2. /\ t \in Seq(Nat) /\ DOMAIN s = 1..Len(s) /\ DOMAIN t = 1..(Len(s) + 1)
      /\ Len(s) \in Nat /\ t[Len(s) + 1] = p /\ \A i \in 1..Len(s) : t[i] = s[i] /\ s[i] \in Nat
  BY <1>1
<1> HIDE DEF t
<1>3. ASSUME NEW i \in DOMAIN t
      PROVE  t[i] < q /\ (i # Len(s) + 1 => i \in DOMAIN s /\ t[i] = s[i] /\ t[i] < p)
  <2>1. CASE i = Len(s) + 1
    BY <1>2, <2>1
  <2>2. CASE i # Len(s) + 1
    <3>1. i \in DOMAIN s /\ t[i] = s[i] /\ s[i] \in Nat
      BY <1>2, <2>2
    <3>2. s[i] < bound
      BY <1>1, <3>1
    <3> QED
      BY <3>1, <3>2
  <2> QED
    BY <2>1, <2>2
<1>4. ASSUME NEW i \in DOMAIN t, NEW j \in DOMAIN t, i < j PROVE t[i] < t[j]
  <2>1. i # Len(s) + 1
    BY <1>2, <1>4
  <2>2. CASE j = Len(s) + 1
    BY <1>2, <1>3, <2>1, <2>2
  <2>3. CASE j # Len(s) + 1
    BY <1>1, <1>3, <1>4, <2>1, <2>3
  <2> QED
    BY <2>2, <2>3
<1>5. Ascends(t, q)
  BY <1>2, <1>3, <1>4 DEF Ascends
<1>6. Ascends(s, q)
  <2>1. \A i \in DOMAIN s : s[i] < q
    BY <1>1, <1>2
  <2> QED
    BY <1>1, <2>1 DEF Ascends
<1> QED
  BY <1>5, <1>6 DEF t

(* A stream of whole frames read without guessing.                         *)
PlainStream == headDropped = 0 /\ WholeFrames(stream, MaxFrameSize)

(* One whose first frame guessing tore; the rest of it, with what the      *)
(* decoder gives up of it, lies before the second.                         *)
TornStream == Torn /\ WholeFrames(stream, MaxFrameSize)

(* The bytes of the stream before the offset, and the first frame played.  *)
Past == consumed + dataOffset + headDropped
FirstPlayed == IF headDropped > 0 THEN 2 ELSE 1

(* The frames of such a stream are decoded up to the offset, where the     *)
(* next one begins.                                                        *)
OnFrames ==
  /\ dataOffset <= bytesInBuffer
  /\ FrameStart(stream, Past + 1)
  /\ Plays(decoded, stream, FirstPlayed, Past)
  /\ reading = "end" => Len(stream) < Past + Margin

(* The offset is in the torn frame, or right behind it.                    *)
InTorn ==
  /\ dataOffset <= bytesInBuffer /\ decoded = <<>> /\ Past <= stream[1]
  /\ reading = "end" => Len(stream) < Past + Margin

BehindTorn == OnFrames /\ FirstPlayed <= Past + 1 /\ HeadKept <= consumed + dataOffset

ContainerInv ==
  /\ codecType \in {"AAC", "MP3"}
  /\ Fits(This, consumed)
  /\ headDropped > 0 => headDropped = HeadRead - HeadKept
  /\ ~strayed => Ascends(decoded, Position(consumed + Least(dataOffset, bytesInBuffer) + 1))
  /\ PlainStream => OnFrames
  /\ TornStream => InTorn \/ BehindTorn

(* What decode does with a sample read from b, in numbers.                 *)
LEMMA DecodeIs ==
  ASSUME NEW b, NEW c, Fits(b, c), codecType \in {"AAC", "MP3"},
         NEW s, Reads(s, b), Decode(s)
  PROVE  \E used \in Nat :
           /\ Became(s.b, used)
           /\ \/ decoded' = decoded
              \/ /\ used > 0 /\ (Inside(s, b) => s.b.at < b.bytes)
                 /\ decoded' = Append(decoded, s.b.buf[s.b.at + 1])
<1>1. Fits(s.b, c) /\ s.len \in Int
  BY MovedFits DEF Reads
<1>2. CASE s.is # "sample" \/ s.len = 0
  <2>1. Became(s.b, 0) /\ decoded' = decoded
    BY <1>2 DEF Decode
  <2> QED
    BY <2>1
<1>3. CASE ~(s.is # "sample" \/ s.len = 0)
  <2>1. PICK used \in Used(s) :
          /\ Became(s.b, used)
          /\ decoded' = IF FrameAt(s) > 0 THEN Append(decoded, s.b.buf[s.b.at + 1]) ELSE decoded
    BY <1>3, Zenon DEF Decode
  <2>2. FrameAt(s) \in Nat
    BY <1>1, FrameIsNumber
  <2>3. used \in Nat /\ (FrameAt(s) > 0 => used > 0)
    <3>1. CASE FrameAt(s) > 0
      BY <2>1, <2>2, <3>1 DEF Used
    <3>2. CASE ~(FrameAt(s) > 0)
      BY <1>3, <2>1, <3>2 DEF Used, Reads
    <3> QED
      BY <3>1, <3>2
  <2>4. FrameAt(s) > 0 => (Inside(s, b) => s.b.at < b.bytes)
    BY <1>3 DEF Inside
  <2> QED
    BY <2>1, <2>3, <2>4, Zenon
<1> QED
  BY <1>2, <1>3

LEMMA DecodesOn ==
  ASSUME NEW b, NEW c, Fits(b, c), Fits(This, consumed), codecType \in {"AAC", "MP3"},
         NEW s, Reads(s, b), Decode(s)
  PROVE  /\ codecType' \in {"AAC", "MP3"} /\ consumed' = c /\ Fits(This, consumed)'
         /\ Inside(s, b) /\ Ascends(decoded, Position(c + 1)) =>
              Ascends(decoded, Position(consumed + Least(dataOffset, bytesInBuffer) + 1))'
<1>1. stream' = stream /\ headDropped' = headDropped /\ codecType' = codecType
  BY DEF Decode
<1>2. PICK used \in Nat :
        /\ Became(s.b, used)
        /\ \/ decoded' = decoded
           \/ /\ used > 0 /\ (Inside(s, b) => s.b.at < b.bytes)
              /\ decoded' = Append(decoded, s.b.buf[s.b.at + 1])
  BY DecodeIs
<1>3. /\ Fits(s.b, c) /\ s.b.bytes = b.bytes /\ s.b.fetched = b.fetched
  BY MovedFits DEF Reads, Moved
<1>4. PICK buf \in Seq(Offsets), bytes \in Nat, at \in Nat, had \in Nat :
        s.b.buf = buf /\ s.b.bytes = bytes /\ s.b.at = at /\ s.b.fetched = had
  BY <1>3 DEF Fits, Buffers
<1>5. /\ bytesIn' = buf /\ bytesInBuffer' = bytes /\ fetched' = had /\ dataOffset' = at + used
      /\ consumed' = consumed + (had - bytes) - (fetched - bytesInBuffer)
  BY <1>2, <1>4 DEF Became
<1>6. consumed' = c /\ c \in Nat
  <2>1. had = c + bytes + headDropped /\ c \in Nat /\ headDropped \in Nat
    BY <1>3, <1>4 DEF Fits, Accounts
  <2>2. /\ fetched = consumed + bytesInBuffer + headDropped
        /\ fetched \in Nat /\ bytesInBuffer \in Nat /\ consumed \in Nat
    BY DEF Fits, Accounts, This
  <2> QED
    BY ONLY <1>5, <2>1, <2>2, had \in Nat, bytes \in Nat
<1>7. Fits(This, consumed)'
  <2>1. PICK e : e = [buf |-> buf, bytes |-> bytes, at |-> at + used, fetched |-> had]
    OBVIOUS
  <2>2. Fits(e, c)
    <3>1. /\ e \in Buffers /\ e.buf = buf /\ e.bytes = bytes /\ e.fetched = had
      BY <2>1 DEF Buffers
    <3> QED
      BY <1>3, <1>4, <3>1 DEF Fits
  <2>3. Fits(e, c)'
    BY <1>1, <2>2 DEF Fits, Buffers, Lies, Accounts, Offsets, Position
  <2>4. This' = e
    BY <1>5, <2>1 DEF This
  <2> QED
    BY <1>6, <2>3, <2>4
<1>8. ASSUME Inside(s, b), Ascends(decoded, Position(c + 1))
      PROVE  Ascends(decoded, Position(consumed + Least(dataOffset, bytesInBuffer) + 1))'
  <2>1. PICK end \in Nat : end = at + used
    OBVIOUS
  <2>2. PICK l \in Nat : l = Least(end, bytes) /\ l \in {end, bytes}
    BY LeastIs, Zenon
  <2>3. PICK first \in Nat, p \in Nat, next \in Nat :
          first = Position(c + 1) /\ p = Position(c + at + 1) /\ next = Position(c + l + 1)
    <3>1. c + 1 \in Nat /\ c + at + 1 \in Nat /\ c + l + 1 \in Nat
      BY ONLY <1>6, at \in Nat, l \in Nat
    <3>2. headDropped \in Nat
      BY <1>3 DEF Fits, Accounts
    <3> QED
      BY <3>1, <3>2, PositionGrows
  <2>4. /\ first <= p /\ first <= next
        /\ at < l => p < next
    <3>1. PICK i \in Nat, j \in Nat, k \in Nat : i = c + 1 /\ j = c + at + 1 /\ k = c + l + 1
      BY <1>6
    <3>2. headDropped \in Nat
      BY <1>3 DEF Fits, Accounts
    <3>3. (i = j \/ i < j) /\ (i = k \/ i < k) /\ (at < l => j < k)
      BY <1>6, <3>1
    <3>4. (i < j => first < p) /\ (i < k => first < next) /\ (j < k => p < next)
      BY <2>3, <3>1, <3>2, PositionGrows
    <3>5. (i = j => first = p) /\ (i = k => first = next)
      BY <2>3, <3>1
    <3> QED
      BY ONLY <3>3, <3>4, <3>5, first \in Nat, p \in Nat, next \in Nat
  <2>5. Ascends(decoded', next)
    <3>1. CASE decoded' = decoded
      <4>1. Ascends(decoded, first)
        BY <1>8, <2>3
      <4>2. Ascends(decoded, next)
        <5>1. /\ decoded \in Seq(Nat) /\ \A i \in DOMAIN decoded : decoded[i] \in Nat
          BY <4>1 DEF Ascends
        <5> QED
          BY <2>4, <4>1, <5>1 DEF Ascends
      <4> QED
        BY <3>1, <4>2
    <3>2. CASE /\ used > 0 /\ (Inside(s, b) => s.b.at < b.bytes)
               /\ decoded' = Append(decoded, s.b.buf[s.b.at + 1])
      <4>1. at < bytes /\ at < end
        BY <1>3, <1>4, <1>8, <2>1, <3>2
      <4>2. at < l
        BY <2>2, <4>1
      <4>3. s.b.buf[s.b.at + 1] = p
        <5>1. s.b.buf[at + 1] = Position(c + at + 1)
          BY <1>3, <1>4, <4>1, CellInside
        <5> QED
          BY <1>4, <2>3, <5>1
      <4>4. Ascends(decoded, first)
        BY <1>8, <2>3
      <4>5. Ascends(Append(decoded, p), next)
        BY ONLY <2>4, <4>2, <4>4, AscendsNext, first \in Nat, p \in Nat, next \in Nat
      <4> QED
        BY <3>2, <4>3, <4>5
    <3> QED
      BY <1>2, <3>1, <3>2
  <2>6. Position(consumed + Least(dataOffset, bytesInBuffer) + 1)' = next
    <3>1. (consumed + Least(dataOffset, bytesInBuffer) + 1)' = c + l + 1
      BY <1>5, <1>6, <2>1, <2>2 DEF Least
    <3>2. PICK k : k = c + l + 1
      OBVIOUS
    <3>3. Position(k)' = Position(k)
      BY <1>1 DEF Position
    <3>4. Position(consumed + Least(dataOffset, bytesInBuffer) + 1)' = Position(k)'
      BY <3>1, <3>2 DEF Position
    <3> QED
      BY <2>3, <3>2, <3>3, <3>4
  <2> QED
    BY <2>5, <2>6 DEF Ascends
<1> QED
  BY <1>1, <1>6, <1>7, <1>8

(* From its offset on, b holds what the stream has behind k bytes.         *)
Runs(b, k) ==
  /\ b \in Buffers /\ k \in Nat /\ stream \in Seq(Nat)
  /\ b.at <= b.bytes /\ b.bytes <= BUFFER_SIZE
  /\ b.fetched = k + (b.bytes - b.at) /\ b.fetched <= Len(stream)
  /\ \A i \in Nat : b.at + i < b.bytes =>
       /\ b.buf[b.at + i + 1] = k + i + 1
       /\ \A behind : Cell(b, b.at + i, behind) = stream[k + i + 1]

LEMMA RunsOn ==
  ASSUME NEW b, NEW c, Fits(b, c), b.at <= b.bytes,
         headDropped > 0 => HeadKept <= c + b.at
  PROVE  Runs(b, c + b.at + headDropped)
<1>1. /\ c \in Nat /\ b.bytes \in Nat /\ b.fetched \in Nat /\ headDropped \in Nat /\ b.at \in Nat
      /\ b.bytes <= BUFFER_SIZE /\ b.fetched <= Len(stream) /\ stream \in Seq(Nat)
      /\ b.fetched = c + b.bytes + headDropped /\ b \in Buffers
  BY DEF Fits, Accounts, Buffers
<1>2. PICK at \in Nat, bytes \in Nat, lost \in Nat, kept \in Nat :
        at = b.at /\ bytes = b.bytes /\ lost = headDropped /\ kept = HeadKept
  BY <1>1, ContainerAssumption
<1>3. PICK k \in Nat : k = c + at + lost
  BY <1>1
<1>4. ASSUME NEW i \in Nat, at + i < bytes
      PROVE  /\ b.buf[b.at + i + 1] = k + i + 1
             /\ \A behind : Cell(b, b.at + i, behind) = stream[k + i + 1]
  <2>1. PICK j \in Nat : j = at + i
    OBVIOUS
  <2>2. PICK q \in Nat : q = c + j + 1 /\ q = c + at + i + 1
    BY <1>1, <2>1
  <2>3. Position(q) = IF lost > 0 /\ q > kept THEN q + lost ELSE q
    BY <1>2 DEF Position
  <2>4. lost > 0 => q > kept
    <3>1. lost > 0 => kept <= c + at
      BY <1>2
    <3> QED
      BY ONLY <1>1, <2>2, <3>1, at \in Nat, kept \in Nat, i \in Nat, q \in Nat
  <2>5. Position(q) = k + i + 1
    BY ONLY <1>1, <1>3, <2>2, <2>3, <2>4, at \in Nat, lost \in Nat, kept \in Nat, i \in Nat,
       k \in Nat, q \in Nat, SMTT(30)
  <2>6. b.buf[j + 1] = Position(q) /\ \A behind : Cell(b, j, behind) = stream[Position(q)]
    <3>1. j \in Nat /\ j < b.bytes /\ c + j + 1 = q
      BY <1>2, <1>4, <2>1, <2>2
    <3> QED
      BY <3>1, CellInside
  <2>7. b.at + i = j /\ b.at + i + 1 = j + 1
    BY <1>2, <2>1
  <2> QED
    BY <2>5, <2>6, <2>7
<1>5. b.fetched = k + (b.bytes - b.at) /\ k = c + b.at + headDropped
  <2>1. PICK count \in Nat : count = b.fetched
    BY <1>1
  <2>2. count = c + bytes + lost
    BY <1>1, <1>2, <2>1
  <2>3. count = k + (bytes - at)
    BY ONLY <1>1, <1>3, <2>2, at \in Nat, bytes \in Nat, lost \in Nat, k \in Nat, count \in Nat
  <2> QED
    BY <1>2, <1>3, <2>1, <2>3
<1> QED
  BY <1>1, <1>2, <1>4, <1>5 DEF Runs

(* Where a frame begins at the offset, it is there whole, and what the     *)
(* decoder finds.                                                          *)
LEMMA FrameThere ==
  ASSUME NEW b, NEW k, Runs(b, k), WholeFrames(stream, MaxFrameSize), FrameStart(stream, k + 1),
         MaxFrameSize <= b.bytes - b.at
  PROVE  /\ k + 1 \in Headers(stream) /\ stream[k + 1] \in 1..(b.bytes - b.at)
         /\ b.buf[b.at + 1] = k + 1
         /\ \A behind : Cell(b, b.at, behind) = stream[k + 1]
         /\ \A len \in Int : stream[k + 1] <= len => FrameAt(Sample(b, len)) = stream[k + 1]
<1>1. /\ k \in Nat /\ stream \in Seq(Nat) /\ b.bytes \in Nat /\ b.fetched \in Nat /\ b.at \in Nat
      /\ b.fetched <= Len(stream) /\ b.fetched = k + (b.bytes - b.at) /\ b.at <= b.bytes
      /\ b.bytes <= BUFFER_SIZE /\ BUFFER_SIZE \in Nat
  BY ContainerAssumption DEF Runs, Buffers
<1>2. MaxFrameSize \in Nat \ {0}
  BY ContainerAssumption
<1>3. k + 1 \in Headers(stream)
  <2>1. k + 1 # Len(stream) + 1
    BY <1>1, <1>2
  <2> QED
    BY <2>1 DEF FrameStart
<1>4. PICK size \in 1..MaxFrameSize : size = stream[k + 1]
  BY <1>1, <1>2, <1>3, NextFrame
<1>5. size \in 1..(b.bytes - b.at)
  BY <1>1, <1>2, <1>4
<1>6. ASSUME NEW i \in Nat, b.at + i < b.bytes
      PROVE  /\ b.buf[b.at + i + 1] = k + i + 1
             /\ \A behind : Cell(b, b.at + i, behind) = stream[k + i + 1]
  BY <1>6 DEF Runs
<1>7. b.buf[b.at + 1] = k + 1 /\ \A behind : Cell(b, b.at, behind) = size
  <2>1. /\ 0 \in Nat /\ b.at + 0 < b.bytes /\ b.at + 0 = b.at /\ b.at + 0 + 1 = b.at + 1
        /\ k + 0 + 1 = k + 1
    BY <1>1, <1>5
  <2> QED
    BY <1>4, <1>6, <2>1
<1>8. b.buf[b.at + size] = k + size
  <2>1. /\ size - 1 \in Nat /\ b.at + (size - 1) < b.bytes
        /\ b.at + (size - 1) + 1 = b.at + size /\ k + (size - 1) + 1 = k + size
    BY <1>1, <1>5
  <2> QED
    BY <1>6, <2>1
<1>9. ASSUME NEW len \in Int, size <= len PROVE FrameAt(Sample(b, len)) = size
  <2>1. Sample(b, len).b = b /\ Sample(b, len).len = len
    BY DEF Sample
  <2>2. size \in 1..len /\ k + 1 + size - 1 = k + size /\ b.at + size <= BUFFER_SIZE
    BY <1>1, <1>5, <1>9
  <2>3. /\ Cell(b, b.at, 0) = size /\ b.buf[b.at + size] = k + 1 + size - 1
        /\ b.buf[b.at + 1] = k + 1
    BY <1>7, <1>8, <2>2
  <2> QED
    BY <2>1, <2>2, <2>3 DEF FrameAt
<1> QED
  BY <1>3, <1>4, <1>5, <1>7, <1>9

LEMMA ADTSReadsFrame ==
  ASSUME NEW b, NEW k, Runs(b, k), b.at = 0, WholeFrames(stream, MaxFrameSize),
         FrameStart(stream, k + 1), MaxFrameSize <= b.bytes,
         NEW behind, NEW junk, NEW s \in ADTSRead(b, behind, junk)
  PROVE  s = Sample(b, stream[k + 1])
<1>1. b.bytes \in Nat /\ b.bytes - b.at = b.bytes /\ MaxFrameSize \in Nat
  BY ContainerAssumption DEF Runs, Buffers
<1>2. stream[k + 1] \in 1..b.bytes /\ Cell(b, b.at, behind) = stream[k + 1]
  BY <1>1, FrameThere
<1>3. PICK size \in Nat : size = stream[k + 1] /\ size > 0 /\ size <= b.bytes
  BY <1>1, <1>2
<1> DEFINE header == Cell(b, b.at, behind)
           len == IF header > 0 THEN header ELSE junk
<1>4. header = size /\ header # 0 /\ len = size /\ ~(len > b.bytes - b.at)
  BY <1>1, <1>2, <1>3
<1>5. ~(b.bytes < MaxFrameSize)
  BY <1>1
<1> HIDE DEF header, len
<1>6. PICK r : /\ r = Resynced(b, behind, header = 0)
               /\ s \in (IF r.found # "yes" THEN {NoSample(r)}
                         ELSE {IF q.found # "yes" THEN NoSample(q) ELSE Sample(q.b, len) :
                                 q \in {Resynced(r.b, behind,
                                                 ~Strays(r.b) /\ len > r.b.bytes - r.b.at)}})
  BY <1>5, Zenon DEF ADTSRead, header, len
<1>7. r.b = b /\ r.found = "yes"
  BY <1>4, <1>6 DEF Resynced
<1>8. PICK q : /\ q = Resynced(r.b, behind, ~Strays(r.b) /\ len > r.b.bytes - r.b.at)
               /\ s = IF q.found # "yes" THEN NoSample(q) ELSE Sample(q.b, len)
  BY <1>6, <1>7, Zenon
<1>9. q.b = b /\ q.found = "yes"
  BY <1>4, <1>7, <1>8 DEF Resynced
<1> QED
  BY <1>3, <1>4, <1>8, <1>9

(* An MP3 sample begins at the first header.                               *)
LEMMA MP3ReadsFirst ==
  ASSUME NEW b, b \in Buffers, b.at = 0, 2 * MaxFrameSize <= b.bytes,
         NEW i \in Nat, i < b.bytes, Cell(b, i, 0) > 0,
         \A j \in Nat : j < i => ~(Cell(b, j, 0) > 0)
  PROVE  MP3Read(b) = Sample([b EXCEPT !.at = i], b.bytes - i)
<1> DEFINE headers == {j \in 0..(b.bytes - 1) : Cell(b, j, 0) > 0}
           first == CHOOSE j \in headers : \A l \in headers : j <= l
<1>1. b.bytes \in Nat /\ MaxFrameSize \in Nat
  BY ContainerAssumption DEF Buffers
<1>2. i \in headers /\ headers \in SUBSET Nat
  BY <1>1
<1>3. ASSUME NEW j \in headers PROVE i <= j
  <2>1. j \in Nat /\ Cell(b, j, 0) > 0
    BY <1>1
  <2>2. ~(j < i)
    BY <2>1
  <2> QED
    BY <2>1, <2>2
<1>4. MP3Read(b) = IF b.bytes < 2 * MaxFrameSize THEN Ended(b)
                   ELSE IF headers = {}
                        THEN [Ended([b EXCEPT !.at = MaxFrameSize]) EXCEPT !.is = "null"]
                        ELSE Sample([b EXCEPT !.at = b.at + first], b.bytes - (b.at + first))
  BY Zenon DEF MP3Read
<1> HIDE DEF headers
<1>5. first = i
  <2>1. first \in headers /\ \A j \in headers : first <= j
    BY <1>2, LeastOfSet, Zenon
  <2> HIDE DEF first
  <2>2. first \in Nat /\ first <= i /\ i <= first
    BY <1>2, <1>3, <2>1
  <2> QED
    BY <2>2
<1> HIDE DEF first
<1>6. ~(b.bytes < 2 * MaxFrameSize) /\ headers # {} /\ b.at + first = i
  BY <1>1, <1>2, <1>5
<1> QED
  BY <1>4, <1>6

LEMMA MP3ReadsFrame ==
  ASSUME NEW b, NEW k, Runs(b, k), b.at = 0, WholeFrames(stream, MaxFrameSize),
         FrameStart(stream, k + 1), 2 * MaxFrameSize <= b.bytes
  PROVE  MP3Read(b) = Sample(b, b.bytes) /\ stream[k + 1] <= b.bytes
<1>1. b \in Buffers /\ b.bytes \in Nat /\ MaxFrameSize \in Nat /\ b.bytes - b.at = b.bytes
  BY ContainerAssumption DEF Runs, Buffers
<1>2. MaxFrameSize <= b.bytes - b.at
  BY <1>1
<1>3. stream[k + 1] \in 1..b.bytes /\ Cell(b, b.at, 0) = stream[k + 1]
  BY <1>1, <1>2, FrameThere
<1>4. PICK size \in Nat : size = stream[k + 1] /\ size > 0 /\ size <= b.bytes
  BY <1>1, <1>3
<1>5. 0 \in Nat /\ 0 < b.bytes /\ Cell(b, 0, 0) > 0 /\ \A j \in Nat : ~(j < 0)
  BY <1>1, <1>3, <1>4
<1>6. MP3Read(b) = Sample([b EXCEPT !.at = 0], b.bytes - 0)
  BY <1>1, <1>5, MP3ReadsFirst
<1>7. [b EXCEPT !.at = 0] = b /\ b.bytes - 0 = b.bytes
  BY <1>1 DEF Buffers
<1> QED
  BY <1>4, <1>6, <1>7

(* A frame that is read as a sample is decoded and consumed, and the next  *)
(* one begins behind it.                                                   *)
LEMMA FrameDecoded ==
  ASSUME NEW b, NEW k, Runs(b, k), WholeFrames(stream, MaxFrameSize), FrameStart(stream, k + 1),
         MaxFrameSize <= b.bytes - b.at,
         NEW first \in Nat \ {0}, first <= k + 1, Plays(decoded, stream, first, k),
         NEW len \in Int, stream[k + 1] <= len, NEW s, s = Sample(b, len), Decode(s)
  PROVE  /\ stream[k + 1] \in Nat /\ dataOffset' = b.at + stream[k + 1]
         /\ dataOffset' <= bytesInBuffer' /\ reading' = "reads"
         /\ FrameStart(stream, k + stream[k + 1] + 1)
         /\ Plays(decoded', stream, first, k + stream[k + 1])
<1>1. /\ k \in Nat /\ stream \in Seq(Nat) /\ b.bytes \in Nat /\ b.at \in Nat
      /\ b.at <= b.bytes /\ MaxFrameSize \in Nat
  BY ContainerAssumption DEF Runs, Buffers
<1>2. /\ k + 1 \in Headers(stream) /\ stream[k + 1] \in 1..(b.bytes - b.at)
      /\ b.buf[b.at + 1] = k + 1 /\ FrameAt(s) = stream[k + 1]
  BY FrameThere
<1>3. PICK size \in Nat : size = stream[k + 1] /\ size > 0 /\ size <= b.bytes - b.at /\ len > 0
  BY <1>1, <1>2
<1>4. s.b = b /\ s.len = len /\ s.is = "sample" /\ s.len # 0
  BY <1>3 DEF Sample
<1>5. PICK used \in Used(s) :
        /\ Became(b, used)
        /\ decoded' = IF FrameAt(s) > 0 THEN Append(decoded, b.buf[b.at + 1]) ELSE decoded
  BY <1>4, Zenon DEF Decode
<1>6. used = size /\ decoded' = Append(decoded, k + 1)
  <2>1. FrameAt(s) > 0 /\ FrameAt(s) = size
    BY <1>2, <1>3
  <2> QED
    BY <1>2, <1>5, <2>1 DEF Used
<1>7. dataOffset' = b.at + size /\ bytesInBuffer' = b.bytes /\ b.at + size <= b.bytes
  BY <1>1, <1>3, <1>5, <1>6, SMTT(30) DEF Became
<1>8. reading' = "reads"
  BY <1>4 DEF Decode
<1>9. FrameStart(stream, k + 1 + size) /\ k + 1 + size = k + size + 1
  <2>1. FrameStart(stream, k + 1 + stream[k + 1])
    BY <1>1, <1>2, NextFrame
  <2>2. k + 1 + size = k + size + 1
    BY ONLY <1>1, size \in Nat
  <2> QED
    BY <1>3, <2>1, <2>2
<1>10. Plays(Append(decoded, k + 1), stream, first, k + size)
  <2>1. k = (k + 1) - 1 /\ k + size = (k + 1) + size - 1
    BY <1>1
  <2> QED
    BY <1>1, <1>2, <1>3, <2>1, PlayedNext
<1> QED
  BY <1>3, <1>6, <1>7, <1>8, <1>9, <1>10

(* What was decoded and consumed of whole frames, from first on, moves by  *)
(* the frame, or is at its end.                                            *)
LEMMA DecodesOnFrames ==
  ASSUME NEW b, NEW c, Fits(b, c), b.at = 0, headDropped > 0 => HeadKept <= c,
         NEW k, k = c + headDropped, WholeFrames(stream, MaxFrameSize), FrameStart(stream, k + 1),
         FirstPlayed <= k + 1, Plays(decoded, stream, FirstPlayed, k), codecType \in {"AAC", "MP3"},
         NEW s, Decode(s), consumed' = c,
         \/ s = Ended(b) /\ b.bytes < Margin /\ b.fetched = Len(stream)
         \/ /\ MaxFrameSize <= b.bytes
            /\ \E len \in Int : s = Sample(b, len) /\ stream[k + 1] <= len
  PROVE  OnFrames'
<1>1. stream' = stream /\ headDropped' = headDropped /\ codecType' = codecType
  BY DEF Decode
<1>2. /\ c \in Nat /\ stream \in Seq(Nat) /\ b.bytes \in Nat /\ b.fetched \in Nat
      /\ headDropped \in Nat /\ k \in Nat
      /\ b.fetched = c + b.bytes + headDropped /\ MaxFrameSize \in Nat
  BY ContainerAssumption DEF Fits, Accounts
<1>3. Margin' = Margin /\ FirstPlayed' = FirstPlayed /\ FirstPlayed \in Nat \ {0} /\ Margin \in Nat
  BY <1>1, <1>2 DEF Margin, FirstPlayed
<1>4. Runs(b, k)
  <2>1. c + b.at = c /\ c + b.at + headDropped = k /\ b.at <= b.bytes
    BY <1>2
  <2> QED
    BY <2>1, RunsOn
<1>5. CASE s = Ended(b) /\ b.bytes < Margin /\ b.fetched = Len(stream)
  <2>1. s.is = "end" /\ s.b = b
    BY <1>5 DEF Ended
  <2>2. Became(b, 0) /\ decoded' = decoded
    BY <2>1 DEF Decode
  <2>3. dataOffset' = 0 /\ bytesInBuffer' = b.bytes
    BY <2>2 DEF Became
  <2>4. c + 0 + headDropped = k /\ Len(stream) < k + Margin
    BY <1>2, <1>3, <1>5
  <2> QED
    BY <1>1, <1>2, <1>3, <2>2, <2>3, <2>4 DEF OnFrames, Past
<1>6. ASSUME MaxFrameSize <= b.bytes, NEW len \in Int, s = Sample(b, len), stream[k + 1] <= len
      PROVE  OnFrames'
  <2>1. b.bytes - b.at = b.bytes
    BY <1>2
  <2>2. /\ stream[k + 1] \in Nat /\ dataOffset' = b.at + stream[k + 1]
        /\ dataOffset' <= bytesInBuffer' /\ reading' = "reads"
        /\ FrameStart(stream, k + stream[k + 1] + 1)
        /\ Plays(decoded', stream, FirstPlayed, k + stream[k + 1])
    BY <1>3, <1>4, <1>6, <2>1, FrameDecoded
  <2>3. c + dataOffset' + headDropped = k + stream[k + 1]
    BY <1>2, <2>2
  <2> QED
    BY <1>1, <1>3, <2>2, <2>3 DEF OnFrames, Past
<1> QED
  BY <1>5, <1>6

(* What is left of a torn frame, of which c bytes are gone, is no frame,   *)
(* and no other begins in it.                                              *)
LEMMA TornCells ==
  ASSUME NEW b, NEW c, Fits(b, c), TornStream, headDropped = HeadRead - HeadKept,
         NEW i \in Nat, i < b.bytes, c + i + headDropped < stream[1]
  PROVE  /\ c + i > 0 => ~(Cell(b, i, 0) > 0)
         /\ c + i = 0 => b.buf[i + 1] = 1 /\ Cell(b, i, 0) = stream[1]
<1>a. 1 \in Headers(stream) /\ stream \in Seq(Nat) /\ c \in Nat /\ headDropped \in Nat
  BY DEF Fits, Accounts, TornStream, WholeFrames
<1>b. stream[1] \in Nat /\ headDropped > 0 /\ HeadRead <= stream[1]
  BY <1>a DEF Headers, TornStream, Torn
<1>e. HeadRead \in Nat /\ HeadKept \in Nat /\ 3 <= HeadKept /\ HeadKept <= HeadRead
  BY ContainerAssumption
<1>c. PICK lost \in Nat, kept \in Nat, head \in Nat, size \in Nat :
        lost = headDropped /\ kept = HeadKept /\ head = HeadRead /\ size = stream[1]
  BY ONLY <1>a, <1>b, <1>e
<1>d. PICK q \in Nat : q = c + i + 1
  BY <1>a
<1>1. /\ lost > 0 /\ lost = head - kept /\ 3 <= kept /\ head <= size /\ c + i + lost < size
      /\ kept + lost = head
  BY <1>a, <1>b, <1>c, <1>e
<1>2. PICK p : p = Position(q)
  OBVIOUS
<1>3. p = IF lost > 0 /\ q > kept THEN q + lost ELSE q
  BY <1>c, <1>2 DEF Position
<1>4. p \in Nat /\ p <= size /\ (c + i > 0 => p > 1) /\ (c + i = 0 => p = 1)
  BY ONLY <1>a, <1>1, <1>3, <1>d, c \in Nat, i \in Nat, q \in Nat, lost \in Nat, kept \in Nat,
     size \in Nat
<1>5. b.buf[i + 1] = p /\ Cell(b, i, 0) = stream[p] /\ p \in 1..Len(stream)
  BY <1>d, <1>2, CellInside
<1>6. ASSUME p > 1 PROVE ~(stream[p] > 0)
  <2>1. p \in Headers(stream) => 1 + size <= p
    BY <1>a, <1>c, <1>6 DEF TornStream, WholeFrames
  <2>2. p \notin Headers(stream)
    BY <1>4, <2>1
  <2> QED
    BY <1>5, <2>2 DEF Headers
<1> QED
  BY <1>c, <1>4, <1>5, <1>6

(* The torn frame is given up, two or three bytes of it.                   *)
LEMMA TornGivenUp ==
  ASSUME NEW b, Fits(b, 0), b.at = 0, TornStream, headDropped = HeadRead - HeadKept,
         decoded = <<>>, 2 * MaxFrameSize <= b.bytes,
         NEW s, s = MP3Read(b), Decode(s), consumed' = 0
  PROVE  InTorn'
<1>a. /\ 1 \in Headers(stream) /\ stream \in Seq(Nat) /\ headDropped \in Nat
      /\ b.bytes \in Nat /\ b.bytes <= BUFFER_SIZE /\ stream[1] <= MaxFrameSize
  BY DEF Fits, Accounts, TornStream, WholeFrames
<1>b. stream[1] \in Nat /\ headDropped > 0 /\ HeadRead <= stream[1]
  BY <1>a DEF Headers, TornStream, Torn
<1>e. /\ HeadRead \in Nat /\ HeadKept \in Nat /\ 3 <= HeadKept /\ HeadKept <= HeadRead
      /\ MaxFrameSize \in Nat
  BY ContainerAssumption
<1>c. PICK bytes \in Nat, lost \in Nat, kept \in Nat, size \in Nat, max \in Nat :
        /\ bytes = b.bytes /\ lost = headDropped /\ kept = HeadKept
        /\ size = stream[1] /\ max = MaxFrameSize
  BY ONLY <1>a, <1>b, <1>e
<1>1. /\ bytes = b.bytes /\ lost = headDropped /\ kept = HeadKept
      /\ size = stream[1] /\ max = MaxFrameSize /\ 2 * max <= bytes
      /\ lost > 0 /\ kept + lost <= size /\ 3 <= kept /\ size <= max /\ bytes <= BUFFER_SIZE
  BY <1>a, <1>b, <1>c, <1>e
<1>2. b \in Buffers /\ b.buf[1] = 1 /\ Cell(b, 0, 0) = size
  <2>1. 0 \in Nat /\ 0 < b.bytes /\ 0 + 0 + headDropped < stream[1] /\ 0 + 0 = 0 /\ 0 + 1 = 1
    BY <1>1
  <2>2. b.buf[0 + 1] = 1 /\ Cell(b, 0, 0) = stream[1]
    BY <2>1, TornCells
  <2> QED
    BY <1>1, <2>1, <2>2 DEF Fits
<1>3. s = Sample(b, bytes)
  <2>1. 0 \in Nat /\ 0 < b.bytes /\ Cell(b, 0, 0) > 0 /\ \A j \in Nat : ~(j < 0)
    BY <1>1, <1>2
  <2>2. MP3Read(b) = Sample([b EXCEPT !.at = 0], b.bytes - 0)
    BY <1>2, <2>1, MP3ReadsFirst
  <2>3. [b EXCEPT !.at = 0] = b /\ b.bytes - 0 = bytes
    BY <1>1, <1>2 DEF Buffers
  <2> QED
    BY <2>2, <2>3
<1>4. s.b = b /\ s.len = bytes /\ s.is = "sample" /\ s.len # 0
  BY <1>1, <1>3 DEF Sample
<1>5. FrameAt(s) = 0
  <2>1. size - 1 \in Nat /\ size - 1 < b.bytes /\ (size - 1) + 1 = size
    BY <1>1
  <2>2. b.buf[(size - 1) + 1] = Position(0 + (size - 1) + 1) /\ 0 + (size - 1) + 1 = size
    <3>1. b.buf[(size - 1) + 1] = Position(0 + (size - 1) + 1)
      BY <2>1, CellInside
    <3> QED
      BY <3>1
  <2>3. Position(size) = size + lost
    BY <1>1 DEF Position
  <2>4. b.buf[size] # 1 + size - 1
    BY <1>1, <2>1, <2>2, <2>3
  <2>5. s.b.at = 0 /\ 0 + size = size /\ 0 + 1 = 1
    BY <1>1, <1>4
  <2> QED
    BY <1>2, <1>4, <2>4, <2>5 DEF FrameAt
<1>6. PICK used \in {2, 3} : Became(b, used) /\ decoded' = decoded
  <2>1. ~(FrameAt(s) > 0) /\ codecType # "AAC"
    BY <1>5 DEF TornStream, Torn
  <2>2. Used(s) = {2, 3}
    BY <2>1 DEF Used
  <2>3. \E used \in Used(s) : Became(b, used) /\ decoded' = decoded
    BY <1>4, <2>1, Zenon DEF Decode
  <2> QED
    BY <2>2, <2>3
<1>7. dataOffset' = used /\ bytesInBuffer' = bytes /\ reading' = "reads"
  BY <1>1, <1>4, <1>6 DEF Became, Decode
<1>8. stream' = stream /\ headDropped' = headDropped
  BY DEF Decode
<1>9. used <= bytes /\ 0 + used + lost <= size
  BY <1>1
<1> QED
  BY <1>1, <1>6, <1>7, <1>8, <1>9 DEF InTorn, Past

(* Behind what is left of it the second frame is found.                    *)
LEMMA TornPassed ==
  ASSUME NEW b, NEW c, Fits(b, c), b.at = 0, TornStream, headDropped = HeadRead - HeadKept,
         decoded = <<>>, c > 0, c + headDropped <= stream[1], 2 * MaxFrameSize <= b.bytes,
         NEW s, s = MP3Read(b), Decode(s), consumed' = c
  PROVE  BehindTorn'
<1>1. /\ 1 \in Headers(stream) /\ stream \in Seq(Nat) /\ headDropped \in Nat /\ c \in Nat
      /\ WholeFrames(stream, MaxFrameSize) /\ stream[1] <= MaxFrameSize
      /\ b.bytes \in Nat /\ b.fetched \in Nat /\ b.fetched <= Len(stream)
      /\ b.fetched = c + b.bytes + headDropped /\ b \in Buffers
  BY DEF Fits, Accounts, TornStream, WholeFrames
<1>2. PICK bytes \in Nat, lost \in Nat, kept \in Nat, size \in Nat, max \in Nat, i \in Nat :
        /\ bytes = b.bytes /\ lost = headDropped /\ kept = HeadKept
        /\ size = stream[1] /\ max = MaxFrameSize /\ 2 * max <= bytes
        /\ lost > 0 /\ kept + lost <= size /\ size <= max /\ max > 0 /\ 3 <= kept
        /\ i = size - lost - c
  <2>1. stream[1] \in Nat /\ headDropped > 0 /\ HeadRead <= stream[1]
    BY <1>1 DEF Headers, TornStream, Torn
  <2>2. PICK size \in Nat, lost \in Nat, kept \in Nat, max \in Nat :
          size = stream[1] /\ lost = headDropped /\ kept = HeadKept /\ max = MaxFrameSize
    BY <1>1, <2>1, ContainerAssumption
  <2>3. /\ lost > 0 /\ kept + lost <= size /\ size <= max /\ max > 0 /\ 3 <= kept
        /\ 2 * max <= b.bytes
    BY <1>1, <2>1, <2>2, ContainerAssumption
  <2>4. size - lost - c \in Nat
    <3>1. c + lost <= size
      BY <2>2
    <3> QED
      BY ONLY <1>1, <3>1, size \in Nat, lost \in Nat
  <2>5. PICK i \in Nat : i = size - lost - c
    BY <2>4
  <2> QED
    BY <1>1, <2>2, <2>3, <2>5
<1> DEFINE e == [b EXCEPT !.at = i]
<1>3. e.at = i /\ e.bytes = bytes /\ Fits(e, c) /\ e.fetched = b.fetched
  <2>1. Moved(e, b) /\ e.at = i
    BY MovedTo
  <2> QED
    BY <1>2, <2>1, MovedFits DEF Moved
<1>4. i + max <= bytes /\ i < bytes /\ c + i + lost = size /\ kept <= c + i
  <2>1. /\ 2 * max <= bytes /\ lost > 0 /\ kept + lost <= size /\ size <= max /\ max > 0
        /\ i = size - lost - c /\ c \in Nat
    BY <1>1, <1>2
  <2> QED
    BY ONLY <2>1, bytes \in Nat, lost \in Nat, kept \in Nat, size \in Nat,
       max \in Nat, i \in Nat
<1> HIDE DEF e
<1>5. Runs(e, size)
  <2>1. c + e.at + headDropped = size /\ e.at <= e.bytes /\ HeadKept <= c + e.at
    <3>1. c + i + lost = size /\ i <= bytes /\ kept <= c + i
      BY <1>4
    <3> QED
      BY <1>2, <1>3, <3>1
  <2> QED
    BY <1>3, <2>1, RunsOn
<1>6. FrameStart(stream, size + 1) /\ MaxFrameSize <= e.bytes - e.at
  <2>1. FrameStart(stream, 1 + stream[1]) /\ 1 + stream[1] = size + 1
    BY <1>1, <1>2, NextFrame, ContainerAssumption
  <2> QED
    BY <1>2, <1>3, <1>4, <2>1, SMTT(30)
<1>7. size + 1 \in Headers(stream) /\ Cell(e, i, 0) = stream[size + 1] /\ stream[size + 1] > 0
  <2>1. size + 1 \in Headers(stream) /\ Cell(e, e.at, 0) = stream[size + 1]
    BY <1>1, <1>5, <1>6, FrameThere
  <2> QED
    BY <1>3, <2>1 DEF Headers
<1>8. MP3Read(b) = Sample(e, b.bytes - i)
  <2>1. e.buf = b.buf
    BY <1>1 DEF e, Buffers
  <2>2. Cell(b, i, 0) > 0
    BY <1>7, <2>1 DEF Cell
  <2>3. ASSUME NEW j \in Nat, j < i PROVE ~(Cell(b, j, 0) > 0)
    <3>1. j < b.bytes /\ c + j + headDropped < stream[1] /\ c + j > 0
      <4>1. j < bytes /\ c + j + lost < size /\ c + j > 0
        BY ONLY <1>1, <1>4, <2>3, c > 0, c \in Nat, bytes \in Nat, lost \in Nat, size \in Nat,
           i \in Nat, j \in Nat
      <4> QED
        BY <1>2, <4>1
    <3> QED
      BY <3>1, TornCells
  <2> QED
    BY <1>1, <1>2, <1>4, <2>2, <2>3, MP3ReadsFirst DEF e
<1>9. PICK len \in Int : s = Sample(e, len) /\ stream[size + 1] <= len
  <2>1. stream[size + 1] \in 1..(e.bytes - e.at)
    BY <1>1, <1>5, <1>6, FrameThere
  <2>2. bytes - i \in Int /\ e.bytes - e.at = bytes - i
    BY <1>3
  <2> QED
    BY <1>2, <1>8, <2>1, <2>2
<1>10. Plays(decoded, stream, 2, size)
  <2>1. ASSUME NEW q \in Headers(stream) PROVE q \notin 2..size
    <3>1. q \in Nat /\ (1 < q => 1 + stream[1] <= q)
      BY <1>1 DEF Headers, WholeFrames
    <3> QED
      BY <1>2, <3>1
  <2> QED
    BY <2>1 DEF Plays
<1>11. /\ stream[size + 1] \in Nat /\ dataOffset' = e.at + stream[size + 1]
       /\ dataOffset' <= bytesInBuffer' /\ reading' = "reads"
       /\ FrameStart(stream, size + stream[size + 1] + 1)
       /\ Plays(decoded', stream, 2, size + stream[size + 1])
  <2>1. 2 \in Nat \ {0} /\ 2 <= size + 1
    BY <1>2
  <2> QED
    BY <1>1, <1>5, <1>6, <1>9, <1>10, <2>1, FrameDecoded
<1>12. stream' = stream /\ headDropped' = headDropped
  BY DEF Decode
<1>13. PICK next \in Nat : next = stream[size + 1]
  BY <1>11
<1>14. Past' = size + next /\ FirstPlayed' = 2 /\ 2 <= size + next + 1 /\ HeadKept <= c + dataOffset'
  <2>1. dataOffset' = i + next
    BY <1>3, <1>11, <1>13
  <2>2. c + (i + next) + lost = size + next /\ 2 <= size + next + 1 /\ kept <= c + (i + next)
    <3>1. 3 <= kept /\ kept + lost <= size /\ c \in Nat
      BY <1>1, <1>2
    <3> QED
      BY ONLY <1>4, <3>1, i \in Nat, lost \in Nat, kept \in Nat, size \in Nat,
         next \in Nat
  <2>3. FirstPlayed' = 2
    BY <1>2, <1>12 DEF FirstPlayed
  <2>4. Past' = c + dataOffset' + lost
    BY <1>2, <1>12 DEF Past
  <2> QED
    BY <1>2, <2>1, <2>2, <2>3, <2>4
<1>15. (consumed + dataOffset)' = c + dataOffset'
  OBVIOUS
<1> QED
  BY <1>11, <1>12, <1>13, <1>14, <1>15 DEF BehindTorn, OnFrames

(* The stream ends in the torn frame.                                      *)
LEMMA TornEnds ==
  ASSUME NEW b, NEW c, Fits(b, c), TornStream, b.at = 0,
         decoded = <<>>, c + headDropped <= stream[1],
         b.bytes < 2 * MaxFrameSize, b.fetched = Len(stream),
         NEW s, s = Ended(b), Decode(s), consumed' = c
  PROVE  InTorn'
<1>1. s.is = "end" /\ s.b = b
  BY DEF Ended
<1>2. Became(b, 0) /\ decoded' = decoded
  BY <1>1 DEF Decode
<1>3. dataOffset' = 0 /\ bytesInBuffer' = b.bytes
  BY <1>2 DEF Became
<1>4. stream' = stream /\ headDropped' = headDropped /\ codecType' = codecType
  BY DEF Decode
<1>5. /\ c \in Nat /\ b.bytes \in Nat /\ b.fetched = c + b.bytes + headDropped
      /\ headDropped \in Nat /\ MaxFrameSize \in Nat
  BY ContainerAssumption DEF Fits, Accounts
<1>6. c + 0 + headDropped = c + headDropped /\ Len(stream) < c + headDropped + 2 * MaxFrameSize
  BY <1>5
<1>7. Margin' = 2 * MaxFrameSize
  BY <1>4 DEF Margin, TornStream, Torn
<1>8. Past' = c + headDropped
  BY <1>3, <1>4, <1>6 DEF Past
<1> QED
  BY <1>2, <1>3, <1>4, <1>5, <1>6, <1>7, <1>8 DEF InTorn

(* readSample aligns the buffer and fills it, then reads a sample of it.   *)
LEMMA Fills ==
  ASSUME ContainerInv, NEW b, b = fillBuffer(Aligned(This))
  PROVE  \E c \in Nat :
           /\ Fits(b, c) /\ (~strayed => Ascends(decoded, Position(c + 1)))
           /\ b.bytes < 2 * MaxFrameSize => b.fetched = Len(stream)
           /\ dataOffset <= bytesInBuffer => b.at = 0 /\ c = consumed + dataOffset
<1>1. Fits(This, consumed) /\ This.at = dataOffset /\ This.bytes = bytesInBuffer
  BY DEF ContainerInv, This
<1>2. PICK drop \in Nat :
        /\ drop = Least(This.at, This.bytes) /\ drop <= This.at
        /\ Fits(Aligned(This), consumed + drop) /\ Aligned(This).at = This.at - drop
  BY <1>1, AlignedFits, Zenon
<1>3. PICK e : e = Aligned(This)
  OBVIOUS
<1>4. PICK c : c = consumed + drop
  OBVIOUS
<1>5. /\ Fits(b, c) /\ b.at = e.at
      /\ b.bytes < 2 * MaxFrameSize => b.fetched = Len(stream)
  BY ONLY <1>2, <1>3, <1>4, b = fillBuffer(Aligned(This)), FilledFits
<1>6. c \in Nat
  BY <1>5 DEF Fits, Accounts
<1>7. ~strayed => Ascends(decoded, Position(c + 1))
  BY <1>1, <1>2, <1>4 DEF ContainerInv
<1>8. ASSUME dataOffset <= bytesInBuffer PROVE b.at = 0 /\ c = consumed + dataOffset
  <2>1. dataOffset \in Nat /\ bytesInBuffer \in Nat
    BY <1>1 DEF Fits, Buffers, This
  <2>2. drop = dataOffset
    BY <1>1, <1>2, <1>8, <2>1 DEF Least
  <2>3. b.at = 0
    BY <1>1, <1>2, <1>3, <1>5, <2>1, <2>2
  <2> QED
    BY <1>4, <2>2, <2>3
<1> QED
  BY <1>5, <1>6, <1>7, <1>8

(* What the frames say before a step.                                      *)
LEMMA FramesBefore ==
  ASSUME ContainerInv, OnFrames, NEW c \in Nat, c = consumed + dataOffset
  PROVE  FrameStart(stream, c + headDropped + 1) /\ Plays(decoded, stream, FirstPlayed, c + headDropped)
BY DEF OnFrames, Past

LEMMA DecodesAAC == ContainerInv /\ DecodeAAC => ContainerInv'
<1> SUFFICES ASSUME ContainerInv, DecodeAAC PROVE ContainerInv'
  OBVIOUS
<1>1. PICK behind \in {0, 1}, junk \in JunkSizes, b \in {fillBuffer(Aligned(This))} :
        /\ \E s \in ADTSRead(b, behind, junk) : Decode(s)
        /\ strayed' = (strayed \/ Strays(b))
  BY Zenon DEF DecodeAAC
<1>2. PICK s \in ADTSRead(b, behind, junk) : Decode(s)
  BY <1>1, Zenon
<1>3. b = fillBuffer(Aligned(This)) /\ behind \in Nat /\ junk \in Nat /\ codecType = "AAC"
  BY ContainerAssumption DEF DecodeAAC
<1>4. PICK c \in Nat :
        /\ Fits(b, c) /\ (~strayed => Ascends(decoded, Position(c + 1)))
        /\ b.bytes < 2 * MaxFrameSize => b.fetched = Len(stream)
        /\ dataOffset <= bytesInBuffer => b.at = 0 /\ c = consumed + dataOffset
  BY <1>3, Fills, Zenon
<1>5. /\ Reads(s, b) /\ (~Strays(b) => Inside(s, b))
      /\ s.is = "end" => s = Ended(b) /\ b.bytes < MaxFrameSize
  BY <1>2, <1>3, <1>4, ADTSReads
<1>6. /\ codecType' \in {"AAC", "MP3"} /\ consumed' = c /\ Fits(This, consumed)'
      /\ Inside(s, b) /\ Ascends(decoded, Position(c + 1)) =>
           Ascends(decoded, Position(consumed + Least(dataOffset, bytesInBuffer) + 1))'
  BY <1>2, <1>3, <1>4, <1>5, DecodesOn DEF ContainerInv
<1>7. (~strayed => Ascends(decoded, Position(consumed + Least(dataOffset, bytesInBuffer) + 1)))'
  <2>1. ~strayed' => ~strayed /\ ~Strays(b)
    BY <1>1, Zenon
  <2> QED
    BY <1>4, <1>5, <1>6, <2>1
<1>8. stream' = stream /\ headDropped' = headDropped /\ codecType' = codecType
  BY <1>2 DEF Decode
<1>9. ASSUME PlainStream' PROVE OnFrames'
  <2>1. PlainStream /\ OnFrames
    BY <1>8, <1>9 DEF PlainStream, ContainerInv
  <2>2. b.at = 0 /\ c = consumed + dataOffset
    BY <1>4, <2>1 DEF OnFrames
  <2>3. b.bytes \in Nat /\ MaxFrameSize \in Nat /\ c + headDropped = c
    BY <1>4, <2>1, ContainerAssumption DEF Fits, Accounts, PlainStream
  <2>4. FrameStart(stream, c + 1) /\ Plays(decoded, stream, FirstPlayed, c) /\ FirstPlayed <= c + 1
    BY <1>4, <2>1, <2>2, <2>3, FramesBefore DEF FirstPlayed, PlainStream
  <2>5. \/ s = Ended(b) /\ b.bytes < Margin /\ b.fetched = Len(stream)
        \/ /\ MaxFrameSize <= b.bytes
           /\ \E len \in Int : s = Sample(b, len) /\ stream[c + 1] <= len
    <3>1. CASE b.bytes < MaxFrameSize
      <4>1. s = Ended(b)
        BY <1>2, <3>1 DEF ADTSRead
      <4>2. b.bytes < Margin /\ b.fetched = Len(stream)
        BY <1>3, <1>4, <2>3, <3>1 DEF Margin
      <4> QED
        BY <4>1, <4>2
    <3>2. CASE MaxFrameSize <= b.bytes
      <4>1. Runs(b, c)
        <5>1. c + b.at + headDropped = c /\ b.at <= b.bytes /\ ~(headDropped > 0)
          BY <2>1, <2>2, <2>3 DEF PlainStream
        <5> QED
          BY <1>4, <5>1, RunsOn
      <4>2. s = Sample(b, stream[c + 1])
        BY <1>2, <2>1, <2>2, <2>4, <3>2, <4>1, ADTSReadsFrame DEF PlainStream
      <4>3. stream[c + 1] \in 1..(b.bytes - b.at) /\ b.bytes - b.at = b.bytes
        BY <2>1, <2>2, <2>3, <2>4, <3>2, <4>1, FrameThere DEF PlainStream
      <4> QED
        BY <2>3, <3>2, <4>2, <4>3
    <3> QED
      BY <2>3, <3>1, <3>2
  <2>6. ~(headDropped > 0) /\ WholeFrames(stream, MaxFrameSize)
    BY <2>1 DEF PlainStream
  <2> QED
    BY <1>2, <1>3, <1>4, <1>6, <2>2, <2>3, <2>4, <2>5, <2>6, DecodesOnFrames
<1>10. ~TornStream'
  BY <1>3, <1>8 DEF TornStream, Torn
<1> QED
  BY <1>6, <1>7, <1>8, <1>9, <1>10 DEF ContainerInv

(* A container at the beginning of a frame reads it, or is at the end.     *)
LEMMA MP3AtFrame ==
  ASSUME NEW b, NEW c, Fits(b, c), b.at = 0, headDropped > 0 => HeadKept <= c,
         b.bytes < 2 * MaxFrameSize => b.fetched = Len(stream), codecType = "MP3",
         WholeFrames(stream, MaxFrameSize), FrameStart(stream, c + headDropped + 1),
         FirstPlayed <= c + headDropped + 1, Plays(decoded, stream, FirstPlayed, c + headDropped),
         NEW s, s = MP3Read(b), Decode(s), consumed' = c
  PROVE  OnFrames'
<1>1. /\ b.bytes \in Nat /\ MaxFrameSize \in Nat /\ c \in Nat /\ headDropped \in Nat
  BY ContainerAssumption DEF Fits, Accounts
<1>2. PICK k : k = c + headDropped
  OBVIOUS
<1>3. CASE b.bytes < 2 * MaxFrameSize
  <2>1. s = Ended(b) /\ b.bytes < Margin /\ b.fetched = Len(stream)
    BY <1>3 DEF MP3Read, Margin
  <2> QED
    BY <1>2, <2>1, DecodesOnFrames
<1>4. CASE 2 * MaxFrameSize <= b.bytes
  <2>1. Runs(b, k)
    <3>1. c + b.at + headDropped = k /\ c + b.at = c /\ b.at <= b.bytes
      BY <1>1, <1>2
    <3> QED
      BY <3>1, RunsOn
  <2>2. s = Sample(b, b.bytes) /\ stream[k + 1] <= b.bytes
    BY <1>2, <1>4, <2>1, MP3ReadsFrame
  <2>3. b.bytes \in Int /\ MaxFrameSize <= b.bytes
    BY <1>1, <1>4
  <2> QED
    BY <1>2, <2>2, <2>3, DecodesOnFrames
<1> QED
  BY <1>1, <1>3, <1>4

LEMMA DecodesMP3 == ContainerInv /\ DecodeMP3 => ContainerInv'
<1> SUFFICES ASSUME ContainerInv, DecodeMP3 PROVE ContainerInv'
  OBVIOUS
<1>1. PICK b \in {fillBuffer(Aligned(This))} : \E s \in {MP3Read(b)} : Decode(s)
  BY Zenon DEF DecodeMP3
<1>2. PICK s : s = MP3Read(b) /\ Decode(s)
  BY <1>1, Zenon
<1>3. b = fillBuffer(Aligned(This)) /\ codecType = "MP3" /\ (~strayed' => ~strayed)
  BY DEF DecodeMP3
<1>4. PICK c \in Nat :
        /\ Fits(b, c) /\ (~strayed => Ascends(decoded, Position(c + 1)))
        /\ b.bytes < 2 * MaxFrameSize => b.fetched = Len(stream)
        /\ dataOffset <= bytesInBuffer => b.at = 0 /\ c = consumed + dataOffset
  BY <1>3, Fills, Zenon
<1>5. Reads(s, b) /\ Inside(s, b)
  BY <1>2, <1>3, <1>4, MP3Reads
<1>6. /\ codecType' \in {"AAC", "MP3"} /\ consumed' = c /\ Fits(This, consumed)'
      /\ Ascends(decoded, Position(c + 1)) =>
           Ascends(decoded, Position(consumed + Least(dataOffset, bytesInBuffer) + 1))'
  BY <1>2, <1>3, <1>4, <1>5, DecodesOn DEF ContainerInv
<1>7. (~strayed => Ascends(decoded, Position(consumed + Least(dataOffset, bytesInBuffer) + 1)))'
  BY <1>3, <1>4, <1>6
<1>8. stream' = stream /\ headDropped' = headDropped /\ codecType' = codecType
  BY <1>2 DEF Decode
<1>9. headDropped \in Nat /\ consumed \in Nat /\ dataOffset \in Nat
  BY <1>4 DEF ContainerInv, Fits, Accounts, Buffers, This
<1>10. ASSUME PlainStream' PROVE OnFrames'
  <2>1. PlainStream /\ OnFrames
    BY <1>8, <1>10 DEF PlainStream, ContainerInv
  <2>2. b.at = 0 /\ c = consumed + dataOffset
    BY <1>4, <2>1 DEF OnFrames
  <2>3. /\ FrameStart(stream, c + headDropped + 1)
        /\ Plays(decoded, stream, FirstPlayed, c + headDropped)
    BY <2>1, <2>2, FramesBefore
  <2>4. /\ ~(headDropped > 0) /\ WholeFrames(stream, MaxFrameSize)
        /\ FirstPlayed <= c + headDropped + 1
    BY <1>9, <2>1 DEF PlainStream, FirstPlayed
  <2> QED
    BY <1>2, <1>3, <1>4, <1>6, <2>2, <2>3, <2>4, MP3AtFrame
<1>11. ASSUME TornStream' PROVE InTorn' \/ BehindTorn'
  <2>1. /\ TornStream /\ WholeFrames(stream, MaxFrameSize) /\ headDropped > 0
        /\ headDropped = HeadRead - HeadKept
    BY <1>8, <1>11 DEF TornStream, Torn, ContainerInv
  <2>2. CASE InTorn
    <3>1. b.at = 0 /\ c = consumed + dataOffset /\ decoded = <<>>
      BY <1>4, <2>2 DEF InTorn
    <3>2. c + headDropped <= stream[1]
      BY <2>2, <3>1 DEF InTorn, Past
    <3>3. CASE b.bytes < 2 * MaxFrameSize
      <4>1. s = Ended(b)
        BY <1>2, <3>3 DEF MP3Read
      <4> QED
        BY <1>2, <1>4, <1>6, <2>1, <3>1, <3>2, <3>3, <4>1, TornEnds
    <3>4. CASE 2 * MaxFrameSize <= b.bytes /\ c = 0
      BY <1>2, <1>4, <1>6, <2>1, <3>1, <3>4, TornGivenUp
    <3>5. CASE 2 * MaxFrameSize <= b.bytes /\ c # 0
      <4>1. c > 0
        BY <3>5
      <4> QED
        BY <1>2, <1>4, <1>6, <2>1, <3>1, <3>2, <3>5, <4>1, TornPassed
    <3>6. b.bytes \in Nat /\ MaxFrameSize \in Nat
      BY <1>4, ContainerAssumption DEF Fits, Accounts
    <3> QED
      BY <3>3, <3>4, <3>5, <3>6
  <2>3. CASE BehindTorn
    <3>1. b.at = 0 /\ c = consumed + dataOffset
      BY <1>4, <2>3 DEF BehindTorn, OnFrames
    <3>2. /\ FrameStart(stream, c + headDropped + 1)
          /\ Plays(decoded, stream, FirstPlayed, c + headDropped)
      BY <2>3, <3>1, FramesBefore DEF BehindTorn
    <3>3. FirstPlayed <= c + headDropped + 1 /\ HeadKept <= c
      BY <2>3, <3>1 DEF BehindTorn, Past
    <3>4. OnFrames'
      BY <1>2, <1>3, <1>4, <1>6, <2>1, <3>1, <3>2, <3>3, MP3AtFrame
    <3>5. dataOffset' \in Nat /\ HeadKept \in Nat /\ FirstPlayed \in Nat /\ FirstPlayed' = FirstPlayed
      BY <1>6, <1>8, ContainerAssumption DEF Fits, Buffers, This, FirstPlayed
    <3>6. PICK next \in Nat, lost \in Nat, kept \in Nat, first \in Nat :
            next = dataOffset' /\ lost = headDropped /\ kept = HeadKept /\ first = FirstPlayed
      BY ONLY <1>9, <3>5
    <3>7. first <= c + lost + 1 /\ kept <= c /\ c \in Nat
      BY <1>4, <3>3, <3>6
    <3>8. first <= (c + next + lost) + 1 /\ kept <= c + next
      BY ONLY <3>7, next \in Nat, lost \in Nat, kept \in Nat, first \in Nat
    <3>9. (FirstPlayed <= Past + 1)' /\ (HeadKept <= consumed + dataOffset)'
      BY <1>6, <1>8, <3>5, <3>6, <3>8 DEF Past
    <3> QED
      BY <3>4, <3>9 DEF BehindTorn
  <2> QED
    BY <2>1, <2>2, <2>3 DEF ContainerInv
<1>12. (headDropped > 0 => headDropped = HeadRead - HeadKept)'
  BY <1>8 DEF ContainerInv
<1> QED
  BY <1>6, <1>7, <1>10, <1>11, <1>12 DEF ContainerInv

(* A container begins with nothing, or with the heading of its stream.     *)
LEMMA ContainerBegins == ContainerInit => ContainerInv
<1> SUFFICES ASSUME ContainerInit PROVE ContainerInv
  OBVIOUS
<1>1. PICK guessed \in BOOLEAN :
        /\ fetched = (IF guessed THEN HeadRead ELSE 0)
        /\ headDropped = fetched - Heading(guessed)
        /\ bytesInBuffer = Heading(guessed)
        /\ bytesIn = [i \in 1..BUFFER_SIZE |-> IF i <= Heading(guessed) THEN i ELSE 0]
  BY DEF ContainerInit
<1>2. /\ codecType \in {"AAC", "MP3"} /\ stream \in Streams /\ dataOffset = 0
      /\ decoded = <<>> /\ consumed = 0 /\ reading = "reads"
  BY DEF ContainerInit
<1>3. /\ stream \in Seq(Nat) /\ HeadRead <= Len(stream) /\ HeadRead \in Nat
      /\ HeadKept \in 0..HeadRead /\ HeadKept <= BUFFER_SIZE /\ BUFFER_SIZE \in Nat
  BY <1>2, ContainerAssumption
<1>4. PICK head \in Nat, had \in Nat :
        /\ head = Heading(guessed) /\ had = fetched /\ head <= had /\ had <= HeadRead
        /\ head <= BUFFER_SIZE
        /\ had > head => head = HeadKept /\ had = HeadRead
  <2>1. CASE guessed
    <3>1. Heading(guessed) = HeadKept /\ fetched = HeadRead /\ HeadKept \in Nat
      BY <1>1, <1>3, <2>1 DEF Heading
    <3> QED
      BY <1>3, <3>1
  <2>2. CASE ~guessed
    <3>1. Heading(guessed) = 0 /\ fetched = 0
      BY <1>1, <2>2 DEF Heading
    <3> QED
      BY <1>3, <3>1
  <2> QED
    BY <2>1, <2>2
<1>5. headDropped \in Nat /\ headDropped = had - head /\ bytesInBuffer = head
  BY <1>1, <1>4
<1>6. Accounts(head, had, 0)
  <2>1. had <= Len(stream) /\ had = 0 + head + headDropped /\ 0 + head = head
    BY <1>3, <1>4, <1>5
  <2>2. headDropped > 0 => HeadKept <= head
    BY <1>4, <1>5
  <2> QED
    BY <1>3, <1>4, <1>5, <2>1, <2>2 DEF Accounts
<1>7. Lies(bytesIn, head, 0)
  <2>1. bytesIn = [i \in 1..BUFFER_SIZE |-> IF i <= head THEN i ELSE 0]
    BY <1>1, <1>4
  <2>2. head <= Len(stream) /\ Len(stream) \in Nat
    BY <1>3, <1>4
  <2>3. \A i \in 1..BUFFER_SIZE : (IF i <= head THEN i ELSE 0) \in Offsets
    BY <1>3, <2>2 DEF Offsets
  <2>4. bytesIn \in Seq(Offsets) /\ Len(bytesIn) = BUFFER_SIZE
    BY <1>3, <2>1, <2>3
  <2>5. ASSUME NEW i \in 1..head PROVE bytesIn[i] = Position(0 + i)
    <3>1. bytesIn[i] = i
      BY <1>3, <1>4, <2>1
    <3>2. 0 + i = i /\ ~(headDropped > 0 /\ i > HeadKept)
      BY <1>3, <1>4, <1>5, SMTT(30)
    <3> QED
      BY <3>1, <3>2 DEF Position
  <2> QED
    BY <2>4, <2>5 DEF Lies
<1>8. Fits(This, consumed)
  <2>1. This = [buf |-> bytesIn, bytes |-> head, at |-> 0, fetched |-> had]
    BY <1>2, <1>4, <1>5 DEF This
  <2>2. bytesIn \in Seq(Offsets)
    BY <1>7 DEF Lies
  <2>3. /\ This \in Buffers /\ This.buf = bytesIn /\ This.bytes = head /\ This.fetched = had
    BY <2>1, <2>2 DEF Buffers
  <2> QED
    BY <1>2, <1>6, <1>7, <2>3 DEF Fits
<1>9. ASSUME NEW bound PROVE Ascends(decoded, bound)
  BY <1>2 DEF Ascends
<1>10. headDropped > 0 => headDropped = HeadRead - HeadKept
  BY <1>4, <1>5
<1>11. PlainStream => OnFrames
  <2> SUFFICES ASSUME PlainStream PROVE OnFrames
    OBVIOUS
  <2>1. FrameStart(stream, 0 + 1) /\ Past = 0
    BY <1>2 DEF PlainStream, WholeFrames, FrameStart, Past
  <2>2. Plays(<<>>, stream, FirstPlayed, 0)
    BY DEF Plays, FirstPlayed
  <2>3. dataOffset <= bytesInBuffer
    BY <1>2, <1>4, <1>5
  <2> QED
    BY <1>2, <2>1, <2>2, <2>3 DEF OnFrames
<1>12. TornStream => InTorn
  <2> SUFFICES ASSUME TornStream PROVE InTorn
    OBVIOUS
  <2>1. Past = headDropped /\ headDropped <= stream[1]
    <3>1. /\ headDropped = HeadRead - HeadKept /\ HeadRead <= stream[1]
      BY <1>10 DEF TornStream, Torn
    <3>2. stream[1] \in Nat
      BY <1>3 DEF TornStream, WholeFrames, Headers
    <3> QED
      BY <1>2, <1>3, <1>5, <3>1, <3>2 DEF Past
  <2>2. dataOffset <= bytesInBuffer
    BY <1>2, <1>4, <1>5
  <2> QED
    BY <1>2, <2>1, <2>2 DEF InTorn
<1> QED
  BY <1>2, <1>8, <1>9, <1>10, <1>11, <1>12 DEF ContainerInv

LEMMA ContainerOrders == ContainerInv => FramesInOrder
<1> SUFFICES ASSUME ContainerInv PROVE FramesInOrder
  OBVIOUS
<1>1. BufferIsTheStream
  BY DEF ContainerInv, Fits, Lies, This, BufferIsTheStream
<1>2. DecodedInOrder
  BY DEF ContainerInv, Ascends, DecodedInOrder
<1>3. AllFramesDecoded
  <2> SUFFICES ASSUME reading = "end", PlainStream \/ TornStream, NEW p \in Promised,
                      p <= Len(stream) + 1 - Margin
               PROVE  \E i \in DOMAIN decoded : decoded[i] = p
    BY DEF AllFramesDecoded, PlainStream, TornStream
  <2>1. /\ consumed \in Nat /\ dataOffset \in Nat /\ stream \in Seq(Nat) /\ Margin \in Nat
        /\ headDropped \in Nat /\ Past \in Nat
    BY ContainerAssumption, SMTT(30) DEF ContainerInv, Fits, Accounts, Buffers, This, Margin, Past
  <2>2. p \in Headers(stream) /\ p \in 1..Len(stream) /\ Len(stream) \in Nat /\ FirstPlayed <= p
    <3>1. p \in Headers(stream) /\ p \in 1..Len(stream) /\ Len(stream) \in Nat
      BY <2>1 DEF Promised, Headers
    <3>2. CASE PlainStream
      BY <3>1, <3>2 DEF PlainStream, FirstPlayed
    <3>3. CASE TornStream
      BY <3>1, <3>3 DEF TornStream, FirstPlayed, Promised
    <3> QED
      BY <3>1, <3>2, <3>3
  <2>3. CASE OnFrames
    <3>1. Plays(decoded, stream, FirstPlayed, Past) /\ Len(stream) < Past + Margin
      BY <2>3 DEF OnFrames
    <3>2. p \in FirstPlayed..Past
      BY <2>1, <2>2, <3>1 DEF FirstPlayed
    <3>3. p \in {decoded[i] : i \in DOMAIN decoded}
      BY <2>2, <3>1, <3>2 DEF Plays
    <3> QED
      BY <3>3
  <2>4. CASE InTorn /\ TornStream
    <3>1. Len(stream) < Past + Margin /\ Past <= stream[1]
      BY <2>4 DEF InTorn
    <3>2. p <= Past
      BY <2>1, <2>2, <3>1
    <3>3. 1 + stream[1] <= p
      <4>1. 1 \in Headers(stream) /\ 1 < p
        BY <2>2, <2>4 DEF TornStream, WholeFrames, Promised
      <4> QED
        BY <2>2, <2>4, <4>1 DEF TornStream, WholeFrames
    <3>4. stream[1] \in Nat
      BY <2>1, <2>4 DEF TornStream, WholeFrames, Headers
    <3> QED
      BY <2>1, <2>2, <3>1, <3>2, <3>3, <3>4
  <2> QED
    BY <2>3, <2>4 DEF ContainerInv, BehindTorn
<1> QED
  BY <1>1, <1>2, <1>3 DEF FramesInOrder

LEMMA DecodedInv == ContainerInit /\ [][ContainerNext]_containerVars => []FramesInOrder
<1>1. ContainerInv /\ [ContainerNext]_containerVars => ContainerInv'
  <2> SUFFICES ASSUME ContainerInv, [ContainerNext]_containerVars PROVE ContainerInv'
    OBVIOUS
  <2>1. CASE UNCHANGED containerVars
    <3>1. /\ codecType' = codecType /\ stream' = stream /\ headDropped' = headDropped
          /\ fetched' = fetched /\ bytesIn' = bytesIn /\ bytesInBuffer' = bytesInBuffer
          /\ dataOffset' = dataOffset /\ decoded' = decoded /\ consumed' = consumed
          /\ reading' = reading /\ strayed' = strayed
      BY <2>1 DEF containerVars
    <3> QED
      BY <3>1 DEF ContainerInv, Fits, Buffers, Lies, Accounts, Offsets, Position, This,
         PlainStream, OnFrames, TornStream, Torn, InTorn, BehindTorn, Past, FirstPlayed, Margin
  <2> QED
    BY <2>1, DecodesAAC, DecodesMP3 DEF ContainerNext
<1> QED
  BY <1>1, ContainerBegins, ContainerOrders, PTL

(* Frames, whatever the streams and the sizes of frames, buffers and       *)
(* reads: what a container buffers is its stream, but for what guessing    *)
(* lost; frames are decoded in order and none twice until the offset has   *)
(* strayed; of a stream of whole frames all but those at its end, and but  *)
(* for the first if guessing has torn it; and of an encoded MP3 stream     *)
(* those before the window.                                                *)
THEOREM FramesPlayedInOrder ==
  /\ ContainerInit /\ [][ContainerNext]_containerVars
  /\ EncodedInit /\ [][EncodedNext]_encodedVars
  => []FramesArePlayed
<1>1. FramesInOrder /\ FramesBeforeWindowPlayed => FramesArePlayed
  BY DEF FramesArePlayed
<1> QED
  BY <1>1, DecodedInv, PlayedInv, PTL
=============================================================================
